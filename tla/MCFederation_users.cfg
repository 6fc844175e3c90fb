SPECIFICATION Spec
CONSTANTS
    A = A
    B = B
    D = D
    R = R
    u = u
    v = v
    ca = ca
    cb = cb
    c1 = c1
    NULL = NULL
    Server = {A, D}
    Addr = {ca, cb}
    Username = {u, v}
    Channel = {c1}
    Uid = {1}
    Adj <- Stray
    Home <- AtA
    MAX_SAYS = 1
    MAX_MEMBERS = 3
    COPY_CAP = 2
    DUPLICATES = TRUE
    TIMEOUTS = TRUE
CHECK_DEADLOCK FALSE
INVARIANT TypeOK
INVARIANT StateUsersAgree
INVARIANT ChannelIndexesSound
INVARIANT ControlTrafficIsSafe
