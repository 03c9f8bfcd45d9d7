SPECIFICATION Spec
CONSTANTS
    Sockets = {w1, w2}
    Sessions = {s1, s2}
    NoSocket = NoSocket
    NoSession = NoSession
    PendingMax = 1
    MaxTimers = 2
SYMMETRY Symmetry
INVARIANTS
    TypeOK
    NotStranded
    
 
CHECK_DEADLOCK FALSE
