SPECIFICATION Spec
CONSTANTS
    PGSIZE = 4096
    PageStruct = 20
    KMEMSIZE = 939524096
INVARIANTS
    PagesAlwaysMapped
CHECK_DEADLOCK FALSE
