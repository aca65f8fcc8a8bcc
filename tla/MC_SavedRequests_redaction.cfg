SPECIFICATION Spec
CONSTANTS
    Slots = {i1, i2}
    Collections = {c1}
    Missing = Missing
    MaxSessions = 2
    MaxCommands = 2
    MaxSeconds = 1
SYMMETRY Symmetry
INVARIANT
    ExportsAreRedacted
CHECK_DEADLOCK FALSE
