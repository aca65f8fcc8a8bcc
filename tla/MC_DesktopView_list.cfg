SPECIFICATION ViewSpec
CONSTANTS
    Capacity = 1
    MaxEvents = 2
    None = None
    Dash = 1
    Session <- MCSession
    Limit = 3
    MaxBuckets = 1
    Earlier = {0, 3}
    Filter <- MCFilter
    NoFilter = NoFilter
    GetFilter = GetFilter
    Missing = Missing
    MaxLoads = 2
    MaxReplays = 1
    MaxCommands = 2
INVARIANT
    EmptyMeansNone
CHECK_DEADLOCK FALSE
