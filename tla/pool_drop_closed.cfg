\* A pool of at most three connections, min_connections = 2; three tasks
\* check out and release connections while the server closes some.
CONSTANTS
    Tasks = {t1, t2, t3}
    Conns = {k1, k2, k3, k4, k5, k6}
    MinConns = 2
    MaxConns = 3
    PoolDisconnects = FALSE
    MaxWakeups = 2
    MaxFaults = 2
    NoTask = NoTask
    NoConn = NoConn
SPECIFICATION Spec
SYMMETRY PoolSymmetry
PROPERTY AcquireConnected
