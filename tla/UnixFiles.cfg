SPECIFICATION Spec
CONSTANTS
    Fd = {f1, f2, f3, f4}
    MailslotMax = 3
    Handle = {h1, h2, h3}
    Sock = {s1, s2}
    MaxFiles = 1
    NULL = NULL
    NoFd = NoFd
    FREE = FREE
    FILE = FILE
    NullWord = NullWord
SYMMETRY MCSymmetry
INVARIANTS
    TypeOK
    TablesAgree
    FilesAccounted
    ExitDestroys
CHECK_DEADLOCK FALSE
