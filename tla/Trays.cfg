SPECIFICATION Spec
CONSTANTS
    NoDish = 0
    Menu <- MCMenu
    Forked <- AllForked
    BufferSize = 2
    SigintComes = FALSE
INVARIANTS
    TypeOK
    MutualExclusion
    SlotsAccounted
    DishesAccounted
    ScanStaysTrue
