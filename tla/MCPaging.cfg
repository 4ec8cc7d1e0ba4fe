SPECIFICATION Spec
CONSTANTS
    Frame = {f1, f2, f3, f4}
    Dir = {0, 1}
    Slot = {0, 1}
    Perm = {r, w}
    ResetsRef = TRUE
    NULL = NULL
INVARIANTS
    RefCount
    FramesAccounted
    TlbCoherent
PROPERTIES
    SpaceKept
