SPECIFICATION FairSpec
CONSTANTS
    Tunnels = {x1, x2}
    None = None
    Desktop = Desktop
    MaxBytes = 1
    Absent = Absent
    Cut = Cut
    MaxCas = 2
INVARIANTS
    TypeOK
    TunnelsAreRecorded
    DecryptionWasChosen
    ReadyIsUsable
    CaIsKept
PROPERTY
    EveryConnectSettles
CHECK_DEADLOCK FALSE
