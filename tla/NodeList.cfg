SPECIFICATION FairSpec
CONSTANTS
    Node <- MCNode
    NULL = 0
    Id = {1, 2}
    Time = {1, 2, 3}
    Window = 2
    MaxSaves = 4
CHECK_DEADLOCK FALSE
INVARIANTS
    TypeOK
    MemorySafe
    NothingLeaked
PROPERTIES
    ImplementsReadingList
    CallsReturn
