SPECIFICATION FairSpec
CONSTANTS
    Hooks = {1, 3, 8, 12}
    CmosBits = {0}
    Garbage = {"ACK", "other"}
    MaxNoise = 2
INVARIANTS
    LoopKnowsBits
    UnsubscribesItsOwn
    CleanExit
    ToMouse
    MouseStops
PROPERTY
    GameLoopGoesOn
