SPECIFICATION TimedFairSpec
CONSTANTS
    A = A
    B = B
    u = u
    ca = ca
    cb = cb
    c1 = c1
    NULL = NULL
    Server = {A, B}
    Addr = {ca, cb}
    Username = {u}
    Channel = {c1}
    Uid = {}
    Adj <- Pair
    Home <- AtBoth
    MAX_SAYS = 0
    MAX_MEMBERS = 1
    COPY_CAP = 0
    DUPLICATES = FALSE
    TIMEOUTS = TRUE
    JOIN_TIMEOUT = 2
    JOIN_SEND_INTERVAL = 1
    USER_TIMEOUT_LIMIT = 2
    MAX_LOSS = 1
    MAX_REQUESTS = 1
CHECK_DEADLOCK FALSE
PROPERTY LinkedUsersMeet
