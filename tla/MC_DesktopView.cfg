SPECIFICATION FairViewSpec
CONSTANTS
    Capacity = 1
    MaxEvents = 2
    None = None
    Dash = 1
    Session <- MCSession
    Limit = 2
    MaxBuckets = 1
    Earlier = {0}
    Filter <- MCFilter
    NoFilter = NoFilter
    GetFilter = GetFilter
    Missing = Missing
    MaxLoads = 2
    MaxReplays = 1
    MaxCommands = 2
INVARIANTS
    ViewTypeOK
    DetailNeedsRace
    ListNeedsRace
    OverviewNeedsRace
    ListFitsFilter
    EmittedInOrder
PROPERTY
    HeardWhileAlive
CHECK_DEADLOCK FALSE
