\* Two connections of one pool, each reconnected once after a loss: each
\* protocol holds the pool's single operator, hence one reader buffer;
\* replies may be split over reads.
CONSTANTS
    Tasks = {t1, t2}
    Conns = {c1, c2}
    MaxReq = 2
    MaxConnects = 2
    SplitReplies = TRUE
    Timeouts = FALSE
    NoTask = NoTask
SPECIFICATION Spec
SYMMETRY TaskSymmetry
INVARIANT ReplyAlignment
CHECK_DEADLOCK FALSE
