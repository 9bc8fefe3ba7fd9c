SPECIFICATION SBSpec
CONSTANTS
    NUMLIVES = 3
    X_MIN = 30
    X_MAX = 1000
    SHIP_X0 = 512
    SHIP_YPOS = 630
    SHIP_SPEED = 15
    SHIP_WIDTH = 75
    SHIP_HEIGHT = 80
    MAX_SHIP_BULLETS = 7
    SHIP_BULLET_SPEED = 4
    ALIEN_BULLET_SPEED = 4
    ALIEN_BULLET_WIDTH = 5
    ALIEN_BULLET_HEIGHT = 20
    BOTTOM = 720
    COL_ALIENS = 8
    ROW_ALIENS = 3
    ALIEN_X0 = 24
    ALIEN_Y0 = 20
    ALIEN_DX = 80
    ALIEN_DY = 60
    ALIEN_WIDTH = 60
    ALIEN_HEIGHT = 40
    X_LEFT_BORDER = 20
    X_RIGHT_BORDER = 1004
    ALIEN_DROP = 20
    TERRITORY = 600
    INITIAL_ALIEN_SPEED = 1
    ipf = 1
    NULL = NULL
    Junk = {}
    Chunks = {c1, c2}
PROPERTY ShotIsAdded
