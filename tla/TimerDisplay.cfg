SPECIFICATION TimerSpec
CONSTANTS
    Selected = {0, 2, 3}
    Frequencies = {18, 19, 60, 1193183}
    Words = {4, 7}
INVARIANT DisplaysMode
