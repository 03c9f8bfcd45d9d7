SPECIFICATION LiveSpec
CONSTANTS
    Sockets = {w1, w2}
    Sessions = {s1}
    NoSocket = NoSocket
    NoSession = NoSession
    PendingMax = 1
    MaxTimers = 1
PROPERTY Recovers
CHECK_DEADLOCK FALSE
