SPECIFICATION MCSpec
CONSTANTS
    TICK_NUM = 3
    TickSize = 8
    MaxDepth = 2
    MaxNest = 2
    PGSIZE = 4
    PageStruct = 1
    KMEMSIZE = 24
    stacktop = 16
    esp0 = 26
    switchk2u = 26
    PageSize = 4
    Entries = 3
    Dirs = 3
    SECTSIZE = 4
    HeaderSectors = 2
    Byte = 4
    Nibble = 2
    AddrSpace = 32
    ELFHDR = 0
INVARIANTS
    SectionsAlone
    LinesOpen
    EnabledAtRest
    ReportsInTime
    ModeAsAsked
    SegmentsLoaded
    RegionsAreUsable
    SegmentsMapped
PROPERTIES
    RequestServed
    ContextKept
    TestEnds
