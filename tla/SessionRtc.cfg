SPECIFICATION SessionSpec
CONSTANTS
    Hooks = {1, 3, 8, 12, 13}
    CmosBits = {0, 1}
INVARIANT RtcEnabled
