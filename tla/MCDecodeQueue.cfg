CONSTANTS
    DropAfter = 1
    InBuffers = 1
    OutBuffers = 1
    MaxPackets = 4
    MaxTime = 3
    MaxLeaks = 1
SPECIFICATION Spec
INVARIANTS
    TypeOK
    PacketsAccountedFor
    GapsOnlyAtTheGate
    BrokenUntilKey
    FeedsWhatItChecked
PROPERTY GopContract
CHECK_DEADLOCK FALSE
