SPECIFICATION FairSpec
CONSTANTS
    NoDish = 0
    Menu <- PlainMenu
    Forked <- VeganOnly
    BufferSize = 1
    SigintComes = TRUE
PROPERTIES
    InterruptEndsAll
    CooksGoOn
CHECK_DEADLOCK FALSE
