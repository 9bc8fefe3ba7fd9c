SPECIFICATION InputFairSpec
CONSTANT Errors = TRUE
INVARIANTS
    NoLostByte
PROPERTIES
    PacketsHeal
    EveryByteRead
CHECK_DEADLOCK FALSE
