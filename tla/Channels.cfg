SPECIFICATION Spec
CONSTANTS
    Channels = {a}
    Me = me
    Others = {o, p}
    Server = Server
    NoTab = NoTab
    BufMax = 1
    MaxAsked = 1
    MaxPending = 1
SYMMETRY Symmetry
INVARIANTS
    
    NickLists
    
CHECK_DEADLOCK FALSE
