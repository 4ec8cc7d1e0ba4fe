SPECIFICATION Spec
CONSTANTS
    NPage = 10
    Zones <- TwoZones
    PerPage = 128
    NULL = NULL
INVARIANTS
    Conservation
    TreeExact
    InsideRegion
PROPERTIES
    PromiseKept
