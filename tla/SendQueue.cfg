SPECIFICATION FairSpec
CONSTANTS
    QueueCap = 2
    Burst = 2
    MaxLines = 5
INVARIANTS
    InSequence
    RateBound
PROPERTIES
    LinesGetOut
CHECK_DEADLOCK FALSE
