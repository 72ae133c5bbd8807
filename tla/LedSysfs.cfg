SPECIFICATION Spec
CONSTANTS
    P46 = P46
    P31 = P31
    App1 = App1
    App2 = App2
    Shell = Shell
    LED_1 = P46
    LED_2 = P31
    Pin <- MCPin
    Program <- MCProgram
    Echoed <- MCEchoed
SYMMETRY MCSymmetry
INVARIANTS TypeOK AgreedOptionHolds
CHECK_DEADLOCK FALSE
