CONSTANTS
    DropAfter = 0
    InBuffers = 2
    OutBuffers = 2
    MaxPackets = 4
    MaxTime = 1
    MaxLeaks = 2
SPECIFICATION FairSpec
PROPERTIES
    BacklogDrains
CHECK_DEADLOCK FALSE
