SPECIFICATION RegFairSpec
CONSTANTS
    Conns = {c1, c2, c3, c4}
    NoConn = NoConn
    MaxSessions = 2
INVARIANTS
    NoOrphan
    RemovedIsClosed
PROPERTIES
    ServerDrains
CHECK_DEADLOCK FALSE
