SPECIFICATION MCSpec
CONSTANTS
    CRT_ROWS = 2
    CRT_COLS = 2
    PollMax = 1
    MaxArrivals = 2
    MainText <- MainLine
    Messages <- Lines
    Char = {a, b}
    None = None
    CONSBUFSIZE = 3
    KeyQueue = 2
    TypeAhead = 2
    OtherKey <- Others
    BUFSIZE = 4
    MAXARGS = 1
    Printable <- Letters
    WHITESPACE <- Whitespace
    commands <- Names
    STACKFRAME_DEPTH = 3
INVARIANTS
    ScreenKept
    RingIsQueue
    NoStuckModifier
    LineRun
    StringsAgree
    FormatAgrees
    BacktraceRight
PROPERTIES
    PortsAgree
    PutcReturns
    InputServed
    PanicReachesMonitor
CHECK_DEADLOCK FALSE
