CONSTANTS
    SpsTold <- MCSpsTold
    PpsTold <- MCPpsTold
    SliceTold <- MCSliceTold
    SeiTold <- MCSeiTold
    SpsIds = {0, 1}
    PpsIds = {0}
    MaxElements = 90
    MaxNals = 3
    MaxSets = 2
SPECIFICATION Spec
INVARIANTS
    ParsedAsSent
    WrittenAsRead
    ResultTells
    FrameNumSeen
    SizeRight
CHECK_DEADLOCK FALSE
