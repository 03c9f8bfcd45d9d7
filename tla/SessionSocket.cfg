SPECIFICATION MCSpec
CONSTANTS
    Sockets = {c1, c2, c3}
    First = c1
    NoSocket = NoSocket
    IrcLoop = IrcLoop
    Nobody = Nobody
    BufferMax = 1
    Window = 0
    MaxEvents = 2
SYMMETRY Symmetry
INVARIANTS
    TypeOK
    InOrder
    Accounted
    NothingStranded
    OneWriter
    UndisturbedIsServed
    UndisturbedReplay
PROPERTIES
    FeedSpec
CHECK_DEADLOCK FALSE
