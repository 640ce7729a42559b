SPECIFICATION Spec
CONSTANTS
    Fd = {f1, f2, f3}
    Idata = {d1, d2}
    Lsd = {l1, l2}
    NULL = NULL
    NumSocket = 2
    Available = {"csock", "unix"}
    OutOfMemory = FALSE
SYMMETRY Symmetry
CHECK_DEADLOCK FALSE
INVARIANTS
    IdataOwnership
    StateCoherent
