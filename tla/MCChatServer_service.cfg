SPECIFICATION FairSpec
CONSTANTS
    alice = alice
    bob = bob
    a1 = a1
    a2 = a2
    c1 = c1
    c2 = c2
    p1 = p1
    p2 = p2
    p3 = p3
    NULL = NULL
    Username = {alice, bob}
    IpPort = {a1, a2}
    Channel = {c1, c2}
    UserPtr = {p1, p2}
    TIMEOUT = 2
    SCAN_INTERVAL = 2
    SCAN_DELAY = 1
    GARBAGE = {0}
INVARIANT TypeOK
INVARIANT IndexAgreement
INVARIANT SnapshotLive
INVARIANT NoEmptyChannel
INVARIANT IdleBound
PROPERTY SessionEndsForCause
PROPERTY ImplementsService
PROPERTY SilentSessionEnds
