\* Three tasks on a pool of at most two connections, min one; connections
\* may close at any time; failed connects leave iterconn to the collector.
CONSTANTS
    Tasks = {t1, t2, t3}
    Conns = {k1, k2, k3, k4, k5}
    MinConns = 1
    MaxConns = 2
    PoolDisconnects = TRUE
    MaxWakeups = 2
    MaxFaults = 2
    NoTask = NoTask
    NoConn = NoConn
SPECIFICATION Spec
SYMMETRY PoolSymmetry
INVARIANT TypeOK
INVARIANT NoOrphan
INVARIANT ExclusiveUse


