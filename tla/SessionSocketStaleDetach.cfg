SPECIFICATION MCSpec
CONSTANTS
    Sockets = {c1, c2}
    First = c1
    NoSocket = NoSocket
    IrcLoop = IrcLoop
    Nobody = Nobody
    BufferMax = 1
    Window = 1
    MaxEvents = 1
INVARIANTS
    LatestIsServed
CHECK_DEADLOCK FALSE
