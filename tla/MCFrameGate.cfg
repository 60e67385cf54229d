CONSTANTS
    ParsedMax = 8
    Unread = 1
    GopLen = 12
    MaxNals = 52
    MaxSessions = 2
    Network <- LossyUdpLosslessRtsp
SPECIFICATION Spec
INVARIANTS
    NoFalseAlarm
PROPERTY PassesDecodable
CHECK_DEADLOCK FALSE
