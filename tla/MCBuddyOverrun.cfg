SPECIFICATION Spec
CONSTANTS
    NPage = 8
    Zones <- Seven
    PerPage = 2
    NULL = NULL
INVARIANTS
    InsideRegion
