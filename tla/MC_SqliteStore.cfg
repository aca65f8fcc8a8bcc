SPECIFICATION FairSpec
CONSTANTS
    Clients = {c1, c2}
    Ids = {s1, s2}
    Versions = {v1, v2}
    None = None
    Unknown = Unknown
    Faults = {"open", "statement", "crash"}
    MaxCalls = 2
INVARIANTS
    TypeOK
    AckedIsDurable
    DetailNeedsSummary
PROPERTIES
    IsOneTable
    EveryCallReturns
CHECK_DEADLOCK FALSE
