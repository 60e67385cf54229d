CONSTANTS
    StaleAge = 0
    Sizes = {1, 2}
    Modes = {"argb", "none"}
    Garbage = {TRUE, FALSE}
    MaxFrames = 3
    MaxSps = 2
    MaxTime = 1
SPECIFICATION FairSpec
INVARIANTS
    TypeOK
    FramesAccountedFor
    ShownOrDropped
    
PROPERTIES
    FifoContract
    DestructorReturns
    FramesLeave
CHECK_DEADLOCK FALSE
