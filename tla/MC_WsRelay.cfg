SPECIFICATION FairSpec
CONSTANTS
    Kinds = {"text", "ping"}
    MaxFrames = 2
    None = None
INVARIANTS
    TypeOK
    RelayIsFaithful
    RecordIsFinal
PROPERTY
    EndsWhenBothStop
CHECK_DEADLOCK FALSE
