CONSTANTS
    MaxStarts = 2
    MaxSubs = 2
SPECIFICATION Spec
INVARIANTS
    TypeOK
    OneStream
    ClosedOnce
    SinkKnowsDecoder
PROPERTIES
    ShutdownReturns
CHECK_DEADLOCK FALSE
