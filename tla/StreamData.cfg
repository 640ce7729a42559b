SPECIFICATION Spec
CONSTANTS
    Server = {s}
    Client = {c}
    Relative = {}
    NULL = NULL
    MaxConnect = 2
    AllConnects = 2
    MaxSend = 2
    Room = 2
CHECK_DEADLOCK FALSE
INVARIANTS
    DataFromPeer
    ResetIsReal
