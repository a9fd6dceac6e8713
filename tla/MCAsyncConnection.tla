-------------------------- MODULE MCAsyncConnection --------------------------
(* Model-checking instance of AsyncConnection: a handful of tasks sharing   *)
(* connection objects, each task issuing a bounded number of requests.     *)
EXTENDS AsyncConnection, TLC

\* Tasks are interchangeable in the safety properties.
TaskSymmetry == Permutations(Tasks)
=============================================================================
