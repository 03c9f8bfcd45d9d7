SPECIFICATION Spec
CONSTANTS
    Limits = {1, 2}
    Default = 1
    NoChannel = NoChannel
    Backlog = 2
    MaxLogged = 2
    MaxPlayed = 1
    MaxMishaps = 1
    MaxCalls = 3
INVARIANTS
    TypeOK
    Bounded
    InOrder
    Forgotten
    
CHECK_DEADLOCK FALSE
