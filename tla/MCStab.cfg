SPECIFICATION TableSpec
CONSTANT
    STACKFRAME_DEPTH = 3
INVARIANTS
    LinesRight
CHECK_DEADLOCK FALSE
