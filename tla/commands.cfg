\* The commands the sans-I/O layer emits: on_connect's handshake and
\* check_health's PING schedule against spec 4.C/4.D, and every command
\* builder against the Redis syntax and its stated constraints.
CONSTANTS
    MaxCmds = 2
    OpCmds <- MCOpCmds
    Val = Val
    Ok = Ok
    Queued = Queued
    Err = Err
    NoVal = NoVal
    NoCmd = NoCmd
    NotInt = NotInt
    Kinds <- MCKinds
    Versions <- MCVersions
    Users = {u1}
    Passwords = {p1}
    ClientNames = {n1}
    Dbs = {d1}
    Rejections = {"ok", "NOAUTH", "WRONGPASS"}
    Intervals = {0, 2}
    MaxTime = 4
    MaxCalls = 3
SPECIFICATION CommandsSpec
INVARIANT EmittedCommandsMatchSpec
