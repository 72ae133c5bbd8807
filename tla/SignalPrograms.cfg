SPECIFICATION Spec
CONSTANTS
    Outside = {"INT", "USR1", "CHLD", "RTMIN"}
    MaxOutside = 3
INVARIANTS TypeOK SignalsAsExplained
PROPERTIES ChildIsReaped
CHECK_DEADLOCK FALSE
