\* One client thread over the threaded driver with two connects: after the
\* reader error path the connection reconnects, and the first reader thread
\* keeps reading the new socket.
CONSTANTS
    Tasks = {t1}
    MaxReq = 3
    MaxConnects = 2
    SplitReplies = TRUE
    Timeouts = TRUE
    NoTask = NoTask
SPECIFICATION Spec
INVARIANT ReplyAlignment
CHECK_DEADLOCK FALSE
