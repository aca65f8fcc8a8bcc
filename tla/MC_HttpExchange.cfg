SPECIFICATION FairSpec
CONSTANTS
    None = None
    Exchanges = {x1, x2}
    Targets <- MCTargets
    Tables <- MCTables
    UpstreamStatuses = {200, 404}
INVARIANTS
    TypeOK
    ChangesAreAttributed
    RecordMatchesWire
    AnswerIsRecorded
PROPERTIES
    KeepsContract
    EveryRequestSettles
