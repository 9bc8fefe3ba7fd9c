SPECIFICATION Spec
CONSTANTS
    n = 2
    MaxIdle = 150
    Garbage = {0, 2, 3, 1000000}
    MaxTries = 10
INVARIANTS
    TimesOut
    PrintsWhole
    NoTornPacket
    Reenabled
    BitsKept
PROPERTIES
    Ends
    EndsAfterEsc
