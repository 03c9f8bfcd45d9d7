SPECIFICATION FairSpec
CONSTANTS
    Handlers = {h1, h2}
    First = h1
    PingLoop = PingLoop
    Timer = Timer
    LineCap = 1
    MaxLines = 2
    MaxDials = 2
INVARIANTS
    NoConnectionLeaked
    DisconnectedIsLast
PROPERTIES
    StartOnce
    WorkersExit
    DeadLinkCloses
CHECK_DEADLOCK FALSE
