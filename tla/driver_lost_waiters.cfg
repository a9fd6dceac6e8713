\* One connection, no socket timeout: what resumes a task whose reply
\* never comes because the socket closed?
CONSTANTS
    Tasks = {t1, t2}
    Conns = {c1}
    MaxReq = 2
    MaxConnects = 1
    SplitReplies = FALSE
    Timeouts = FALSE
    NoTask = NoTask
SPECIFICATION FairSpec
PROPERTY AwaitEnds
CHECK_DEADLOCK FALSE
