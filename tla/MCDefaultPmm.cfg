SPECIFICATION MCSpec
CONSTANTS
    NPage = 7
    Zones <- Descending
    NULL = NULL
INVARIANTS
    Conservation
    AssertionsHold
    FreeScanEnds
    SortedAndMerged
    SelfTestPasses
    RingIsList
    AnyOrder
PROPERTIES
    LowestFit
    MethodsAgree
    PromiseKept
