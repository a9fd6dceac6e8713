\* One connection, connected once, shared by two tasks; replies may be
\* split over reads and read_response may time out.
CONSTANTS
    Tasks = {t1, t2}
    Conns = {c1}
    MaxReq = 3
    MaxConnects = 1
    SplitReplies = TRUE
    Timeouts = TRUE
    NoTask = NoTask
SPECIFICATION Spec
SYMMETRY TaskSymmetry
INVARIANT FIFOMatch
INVARIANT ReplyAlignment
PROPERTY ChannelRefinement
CHECK_DEADLOCK FALSE
