SPECIFICATION PointerSpec
CONSTANTS
    X_RES = 1024
    Y_RES = 768
    MOUSE_WIDTH = 25
    MOUSE_HEIGHT = 34
    MOUSE_X0 = 50
    MOUSE_Y0 = 700
    Displacements = {0, 64, 192}
INVARIANT PointerOnScreen
PROPERTY ClickDoesNotBounce
