\* One client thread over the threaded driver: timeouts, split replies,
\* peer close, disconnect, and the reader error path; one connect.
CONSTANTS
    Tasks = {t1}
    MaxReq = 3
    MaxConnects = 1
    SplitReplies = TRUE
    Timeouts = TRUE
    NoTask = NoTask
SPECIFICATION Spec
INVARIANT ReplyAlignment
PROPERTY ChannelRefinement
CHECK_DEADLOCK FALSE
