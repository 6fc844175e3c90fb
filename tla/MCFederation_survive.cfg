SPECIFICATION Spec
CONSTANTS
    A = A
    B = B
    D = D
    R = R
    u = u
    v = v
    ca = ca
    cb = cb
    c1 = c1
    NULL = NULL
    Server = {A, R, B}
    Addr = {ca, cb}
    Username = {u}
    Channel = {c1}
    Uid = {1}
    Adj <- Line
    Home <- AtEnds
    MAX_SAYS = 1
    MAX_MEMBERS = 2
    COPY_CAP = 2
    DUPLICATES = FALSE
    TIMEOUTS = FALSE
CHECK_DEADLOCK FALSE
INVARIANT ServersSurvive
