CONSTANT MaxSessions = 3
SPECIFICATION FairSpec
INVARIANTS
    TypeOK
    NoThreadLeft
    ReleasedAfterUse
    CodecIsServed
PROPERTY DeinitReturnsOnceRunning
CHECK_DEADLOCK FALSE
