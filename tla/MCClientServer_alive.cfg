SPECIFICATION FairSpec
CONSTANTS
    me = me
    here = here
    COMMON = COMMON
    p1 = p1
    NULL = NULL
    Username = {me}
    IpPort = {here}
    Channel = {COMMON}
    UserPtr = {p1}
    PERIOD = 2
    MAX_FLIGHT = 2
    Links <- SomeLinks
    TIMEOUT = 4
    SCAN_INTERVAL = 4
    SCAN_DELAY = 0
    GARBAGE = {0, 1}
CHECK_DEADLOCK FALSE
INVARIANT SilenceOfRunningClient
INVARIANT RunningClientKept
INVARIANT BeliefCatchesUp
PROPERTY ExitCompletes
PROPERTY ExitedIsLoggedOut
