SPECIFICATION Spec
CONSTANTS
    Frame = {f1, f2, f3, f4}
    Dir = {0, 1}
    Slot = {0, 1}
    Perm = {r}
    ResetsRef = FALSE
    NULL = NULL
PROPERTIES
    FreedWithLastMapping
