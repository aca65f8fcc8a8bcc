SPECIFICATION FairSpec
CONSTANTS
    Callers = {c1, c2}
    Servers = {s1, s2, s3}
    Ports = {p1, p2}
    None = None
    Foreign = Foreign
    MaxConns = 1
INVARIANTS
    TypeOK
    ListenersAreHeld
    OwnBlockNeedsOverlap
    DeadSlotNeedsFailedBind
PROPERTY
    StopReturnsInTheEnd
CHECK_DEADLOCK FALSE
