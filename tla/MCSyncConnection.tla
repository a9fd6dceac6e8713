------------------------- MODULE MCSyncConnection -------------------------
EXTENDS SyncConnection, TLC

TaskSymmetry == Permutations(Tasks)
=============================================================================
