SPECIFICATION AdtSpec
CONSTANTS
    e1 = e1
    e2 = e2
    NULL = NULL
    Element = {e1, e2}
    FL_INCREMENT = 2
    MAX_NODES = 3
    Key <- Keys4
    CAPACITY = 2
    LF_NUM = 1
    LF_DEN = 2
    MAX_CAPACITY = 8
    TRIGGER = 1
    WANTS_PREVIOUS = {TRUE}
CHECK_DEADLOCK FALSE
INVARIANT BucketsInBounds
