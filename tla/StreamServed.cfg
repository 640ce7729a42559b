SPECIFICATION FairSpec
CONSTANTS
    Server = {s}
    Client = {c1, c2}
    Relative = {c2}
    NULL = NULL
    MaxConnect = 2
    AllConnects = 3
    MaxSend = 0
    Room = 2
CHECK_DEADLOCK FALSE
INVARIANTS
    TypeOK
    PeerAgreement
PROPERTIES
    FirstServed
