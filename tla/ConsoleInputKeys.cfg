SPECIFICATION SpecAfterBoot
CONSTANTS
    Char = {a, b}
    None = None
    CONSBUFSIZE = 4
    KeyQueue = 3
    TypeAhead = 3
INVARIANT KeysShown
CHECK_DEADLOCK FALSE
