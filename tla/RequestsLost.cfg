SPECIFICATION FairSpec
CONSTANTS
    Server = {s}
    Client = {c1, c2}
    Relative = {}
    NULL = NULL
    MaxConnect = 1
    AllConnects = 2
    MaxSend = 0
    Room = 2
CHECK_DEADLOCK FALSE
PROPERTIES
    QueueServed
