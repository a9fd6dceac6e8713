\* Two client threads on a threaded pool of at most one connection,
\* min_connections = 0, with pipelines and socket timeouts.  With
\* Pipelines = FALSE the pool is used directly, and only release()'s
\* unlocked gap remains.
CONSTANTS
    Tasks = {t1, t2}
    Conns = {k1, k2, k3}
    MinConns = 0
    MaxConns = 1
    PoolDisconnects = FALSE
    MaxWakeups = 2
    MaxFaults = 0
    NoTask = NoTask
    NoConn = NoConn
    Pipelines = TRUE
    Timeouts = TRUE
SPECIFICATION ClientSpec
SYMMETRY ClientSymmetry
INVARIANT NoOrphan
