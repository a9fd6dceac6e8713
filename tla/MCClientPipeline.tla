-------------------------- MODULE MCClientPipeline --------------------------
(* Model-checking instance of ClientPipeline: client threads sharing a     *)
(* small threaded pool.                                                    *)
EXTENDS ClientPipeline, TLC

ClientSymmetry == Permutations(Tasks) \cup Permutations(Conns)
=============================================================================
