SPECIFICATION FairSpec
CONSTANTS
    Interval = 6
    Timeout = 4
    Reply = 3
    MaxFlight = 2
INVARIANTS
    
    NoFalseAlarm
PROPERTIES
    DeadLinkCloses
CHECK_DEADLOCK FALSE
