CONSTANTS
    StaleAge = 1
    Sizes = {1}
    Modes = {"argb"}
    Garbage = {TRUE}
    MaxFrames = 1
    MaxSps = 2
    MaxTime = 1
SPECIFICATION Spec
INVARIANT NeverNullBuffer
CHECK_DEADLOCK FALSE
