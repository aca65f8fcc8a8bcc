SPECIFICATION Spec
CONSTANTS
    Slots = {i1, i2}
    Collections = {c1}
    Missing = Missing
    MaxSessions = 2
    MaxCommands = 3
    MaxSeconds = 1
SYMMETRY Symmetry
INVARIANTS
    TypeOK
    RequestsStayRedacted
    AddsAreKept
CHECK_DEADLOCK FALSE
