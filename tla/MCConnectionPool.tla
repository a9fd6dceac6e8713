------------------------- MODULE MCConnectionPool -------------------------
(* Model-checking instance of ConnectionPool: a few tasks, a pool of at   *)
(* most two or three connections, ids enough to replace every one.         *)
EXTENDS ConnectionPool, TLC

TaskSymmetry == Permutations(Tasks)
ConnSymmetry == Permutations(Conns)
PoolSymmetry == Permutations(Tasks) \cup Permutations(Conns)
=============================================================================
