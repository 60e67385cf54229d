CONSTANT MaxSessions = 1
SPECIFICATION FairSpec
PROPERTY DecodeJoinReturns
CHECK_DEADLOCK FALSE
