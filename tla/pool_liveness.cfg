\* Two tasks on a pool of one connection; connections may close, connects
\* may fail and pool.disconnect() may run; a task waiting in acquire must wake.
CONSTANTS
    Tasks = {t1, t2}
    Conns = {k1, k2, k3}
    MinConns = 0
    MaxConns = 1
    PoolDisconnects = TRUE
    MaxWakeups = 2
    MaxFaults = 2
    NoTask = NoTask
    NoConn = NoConn
SPECIFICATION FairSpec
PROPERTY WaiterWakes
