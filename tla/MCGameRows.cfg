SPECIFICATION FairSpec
CONSTANTS
    NUMLIVES = 1
    X_MIN = 0
    X_MAX = 6
    SHIP_X0 = 0
    SHIP_YPOS = 9
    SHIP_SPEED = 4
    SHIP_WIDTH = 2
    SHIP_HEIGHT = 2
    MAX_SHIP_BULLETS = 2
    SHIP_BULLET_SPEED = 1
    ALIEN_BULLET_SPEED = 4
    ALIEN_BULLET_WIDTH = 1
    ALIEN_BULLET_HEIGHT = 1
    BOTTOM = 17
    COL_ALIENS = 2
    ROW_ALIENS = 2
    ALIEN_X0 = 1
    ALIEN_Y0 = 1
    ALIEN_DX = 3
    ALIEN_DY = 3
    ALIEN_WIDTH = 2
    ALIEN_HEIGHT = 3
    X_LEFT_BORDER = 0
    X_RIGHT_BORDER = 7
    ALIEN_DROP = 1
    TERRITORY = 9
    INITIAL_ALIEN_SPEED = 1
    ipf = 1
    Chunks = {c1}
    NULL = NULL
    Junk <- MCMarked
    MaxRound = 1
INVARIANTS
    FormationKept
    BorderAhead
    TerritoryHolds
    ScoreExact
    LoopInv
PROPERTIES
    KilledByLiveBullet
    GameMovesOn
    ExitEnds
