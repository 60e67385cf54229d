CONSTANTS
    DropAfter = 1
    InBuffers = 1
    OutBuffers = 1
    MaxPackets = 4
    MaxTime = 3
    MaxLeaks = 0
SPECIFICATION FairSpec
PROPERTY PicturesTakenOut
CHECK_DEADLOCK FALSE
