SPECIFICATION SpecAnyInsert
CONSTANTS
    Frame = {f1, f2, f3, f4}
    Dir = {0, 1}
    Slot = {0, 1}
    Perm = {r}
    ResetsRef = TRUE
    NULL = NULL
INVARIANTS
    NoPanic
CHECK_DEADLOCK FALSE
