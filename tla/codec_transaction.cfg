\* MULTI/EXEC pipeline normalisation of one and two commands.
CONSTANTS
    MaxCmds = 2
    OpCmds <- MCOpCmds
    Val = Val
    Ok = Ok
    Queued = Queued
    Err = Err
    NoVal = NoVal
    NoCmd = NoCmd
SPECIFICATION Spec
INVARIANT TransactionMatchesSpec
