SPECIFICATION Spec
CONSTANTS
    alice = alice
    bob = bob
    a1 = a1
    a2 = a2
    c1 = c1
    c2 = c2
    p1 = p1
    p2 = p2
    p3 = p3
    NULL = NULL
    Username = {alice, bob}
    IpPort = {a1, a2}
    Channel = {c1}
    UserPtr = {p1, p2, p3}
    TIMEOUT = 2
    SCAN_INTERVAL = 2
    SCAN_DELAY = 1
    GARBAGE = {0, 1}
CHECK_DEADLOCK FALSE
INVARIANT ListingStaysInArray
