SPECIFICATION FairSpec
CONSTANTS
    Sockets = {c1, c2}
    First = c1
    NoSocket = NoSocket
    IrcLoop = IrcLoop
    Nobody = Nobody
    BufferMax = 1
    Window = 1
    MaxEvents = 1
PROPERTIES
    ResumeCompletes
    EventuallyReclaimed
CHECK_DEADLOCK FALSE
