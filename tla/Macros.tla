-------------------------------- MODULE Macros --------------------------------
(***************************************************************************)
(* The constants of the Space Invaders program: the macros of macros.h,    *)
(* under their own names, and the literals and image sizes the game code   *)
(* computes with, under names of their own.  The program's values are in   *)
(* the comments; model checking uses a smaller world and the proofs hold   *)
(* for every value the assumptions below admit.                            *)
(***************************************************************************)
EXTENDS Integers

CONSTANTS
    NUMLIVES,             \* 3, lives of a new ship
    X_MIN, X_MAX,         \* 30, 1000: horizontal range of the ship
    SHIP_X0, SHIP_YPOS,   \* 512, 630: where createShip puts the ship
    SHIP_SPEED,           \* 15, pixels per key press
    SHIP_WIDTH,           \* 75, ship->img.width
    SHIP_HEIGHT,          \* 80, ship->img.height
    MAX_SHIP_BULLETS,     \* 7, slots of the shipBullets array
    SHIP_BULLET_SPEED,    \* 4
    ALIEN_BULLET_SPEED,   \* 4
    ALIEN_BULLET_WIDTH,   \* 5, alienBullet->img.width
    ALIEN_BULLET_HEIGHT,  \* 20, alienBullet->img.height
    BOTTOM,               \* 720, where an alien bullet leaves the screen
    COL_ALIENS,           \* 8
    ROW_ALIENS,           \* 3
    ALIEN_X0, ALIEN_Y0,   \* 24, 20: first alien of the formation
    ALIEN_DX, ALIEN_DY,   \* 80, 60: distance between columns and rows
    ALIEN_WIDTH,          \* 60
    ALIEN_HEIGHT,         \* 40
    X_LEFT_BORDER,        \* 20
    X_RIGHT_BORDER,       \* 1004
    ALIEN_DROP,           \* 20, what change_all_y adds at a border
    TERRITORY,            \* 600
    INITIAL_ALIEN_SPEED,  \* 1
    ipf                   \* sys_hz() / 60, timer interrupts per frame

\* macros.h defines SIZE_OF_ALIENS as 24 = COL_ALIENS * ROW_ALIENS.
SIZE_OF_ALIENS == COL_ALIENS * ROW_ALIENS

Aliens == 0 .. SIZE_OF_ALIENS - 1

Slots == 0 .. MAX_SHIP_BULLETS - 1

ASSUME CountAssumption ==
    /\ NUMLIVES \in Nat \ {0}
    /\ MAX_SHIP_BULLETS \in Nat \ {0}
    /\ COL_ALIENS \in Nat \ {0}
    /\ ROW_ALIENS \in Nat \ {0}
    /\ SIZE_OF_ALIENS \in Nat \ {0}
    /\ ipf \in Nat

ASSUME GeometryAssumption ==
    /\ {X_MIN, X_MAX, SHIP_X0, SHIP_YPOS, SHIP_SPEED, SHIP_WIDTH, SHIP_HEIGHT,
        SHIP_BULLET_SPEED, ALIEN_BULLET_SPEED, ALIEN_BULLET_WIDTH,
        ALIEN_BULLET_HEIGHT, BOTTOM, ALIEN_X0, ALIEN_Y0, ALIEN_DX, ALIEN_DY,
        ALIEN_WIDTH, ALIEN_HEIGHT, X_LEFT_BORDER, X_RIGHT_BORDER, ALIEN_DROP,
        TERRITORY, INITIAL_ALIEN_SPEED} \subseteq Nat
    /\ X_MIN <= SHIP_X0
    /\ SHIP_X0 <= X_MAX - SHIP_WIDTH

\* The aliens move in every frame and drop at every border.
ASSUME MotionAssumption == INITIAL_ALIEN_SPEED > 0 /\ ALIEN_DROP > 0

\* The ship ends above the line where an alien bullet leaves the screen.
ASSUME BottomAssumption == SHIP_YPOS + SHIP_HEIGHT + ALIEN_BULLET_SPEED < BOTTOM

===============================================================================
