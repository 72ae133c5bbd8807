SPECIFICATION Spec
CONSTANTS
    P46 = P46
    P31 = P31
    P48 = P48
    File1 = File1
    File2 = File2
    LED = LED
    NoGpio = NoGpio
    Missing = Missing
    LED_1 = P46
    LED_2 = P31
    Pin <- MCPin
    File <- MCFile
    User <- MCUser
    Bank <- MCBank
    Command <- MCCommand
    Garbage <- MCGarbage
    MAX_GPIOS = 2
    MaxWrites = 3
SYMMETRY MCSymmetry
INVARIANTS TypeOK PinsAsAsked ObeyedAreListed
CHECK_DEADLOCK FALSE
