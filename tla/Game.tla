--------------------------------- MODULE Game ---------------------------------
(***************************************************************************)
(* The Space Invaders program: the loop of game_loop (game.c), which waits *)
(* for an interrupt message and handles the devices whose bits are set, in *)
(* the order mouse, keyboard, timer, together with the aliens, the ship,   *)
(* the bullets and the screens those handlers change.                      *)
(*                                                                         *)
(* The program is one thread.  pc says where in the loop body it is; the   *)
(* loops over the bullets and over the aliens take one step per iteration, *)
(* and nothing else can happen between two iterations.  What only affects  *)
(* the picture (images, animation counters, drawing) is left out.          *)
(***************************************************************************)
EXTENDS ShipBullets

CONSTANT MaxRound   \* bound: the timer runs while roundNum <= MaxRound

ASSUME BoundAssumption == MaxRound \in Nat

VARIABLES
    pc,             \* position in the body of the loop
    intr,           \* bits of the message that are still to be handled
    gameState,
    aliens,
    idx,            \* i of the alien loop
    ship,
    alienBullet,
    killCount,
    roundNum,
    speed,
    right_mov,
    changeDir,
    timer_counter   \* counted up to ipf, the only value it is compared with

alienVars == <<aliens, idx, killCount, right_mov, changeDir, speed>>
vars == <<pc, intr, gameState, alienVars, ship, alienBullet, roundNum,
          timer_counter, sbVars>>

Devices == {"mouse", "kbd", "timer"}

GameStates == {"MENU_DISPLAY", "INSTRUCTIONS_DISPLAY", "PLAYING", "NEXT_ROUND", "EXIT"}

PCs == {"receive", "mouse", "keyboard", "timer", "bullets", "draw",
        "alienBullet", "aliens", "frameEnd", "done"}

Alien == [x : Int, y : Int, alive : BOOLEAN]
Ship == [x : Int, lives : Int, score : Nat]

TypeOK ==
    /\ SBTypeOK
    /\ pc \in PCs
    /\ intr \in SUBSET Devices
    /\ gameState \in GameStates
    /\ aliens \in [Aliens -> Alien]
    /\ idx \in 0 .. SIZE_OF_ALIENS
    /\ ship \in Ship
    /\ alienBullet \in [x : Int, y : Int, active : BOOLEAN]
    /\ killCount \in Nat
    /\ roundNum \in Nat
    /\ speed \in Nat
    /\ right_mov \in BOOLEAN
    /\ changeDir \in BOOLEAN
    /\ timer_counter \in 0 .. ipf

-------------------------------------------------------------------------------

createShip == [x |-> SHIP_X0, lives |-> NUMLIVES, score |-> 0]

\* The formation, column by column; the value of an alien depends on its row.
createAlien(i) ==
    [x |-> ALIEN_X0 + ALIEN_DX * (i \div ROW_ALIENS),
     y |-> ALIEN_Y0 + ALIEN_DY * (i % ROW_ALIENS),
     alive |-> TRUE]

\* A new formation is between the borders and above the territory.
ASSUME FormationAssumption ==
    \A i \in Aliens :
        /\ createAlien(i).x > X_LEFT_BORDER
        /\ createAlien(i).x + ALIEN_WIDTH < X_RIGHT_BORDER
        /\ createAlien(i).y + ALIEN_HEIGHT < TERRITORY + ALIEN_DROP

Value(i) ==
    LET row == i % ROW_ALIENS
    IN  IF row = 0 THEN 30 ELSE IF row = 1 THEN 20 ELSE 10

\* The globals are zero before the first game: no alien is alive.
Init ==
    /\ SBInit
    /\ pc = "receive"
    /\ intr = {}
    /\ gameState = "MENU_DISPLAY"
    /\ aliens = [i \in Aliens |-> [x |-> 0, y |-> 0, alive |-> FALSE]]
    /\ idx = 0
    /\ ship = createShip
    /\ alienBullet = [x |-> 0, y |-> 0, active |-> FALSE]
    /\ killCount = 0
    /\ roundNum = 0
    /\ speed = INITIAL_ALIEN_SPEED
    /\ right_mov = TRUE
    /\ changeDir = FALSE
    /\ timer_counter = 0

\* Mutated form: the kills of the previous game are kept.
initGameMutant(newSpeed) ==
    /\ aliens' = [i \in Aliens |-> createAlien(i)]
    /\ gameState' = "PLAYING"
    /\ changeDir' = FALSE
    /\ speed' = newSpeed
    /\ UNCHANGED killCount

(***************************************************************************)
(* initGame, with the speed its caller ends up with (the timer section     *)
(* replaces the speed initGame computes).  It allocates a ship it drops    *)
(* and leaves the ship in play, the bullets and the direction of the       *)
(* aliens as they are.                                                     *)
(***************************************************************************)
initGame(newSpeed) ==
    /\ aliens' = [i \in Aliens |-> createAlien(i)]
    /\ gameState' = "PLAYING"
    /\ killCount' = 0
    /\ changeDir' = FALSE
    /\ speed' = newSpeed

\* Mutated form: the round is not reset with the ship.
BackToMenuMutant ==
    /\ ship' = createShip
    /\ speed' = INITIAL_ALIEN_SPEED
    /\ gameState' = "MENU_DISPLAY"
    /\ UNCHANGED roundNum

\* Mutated form: the ship is given its lives back and keeps its score.
BackToMenuScoreMutant ==
    /\ ship' = [ship EXCEPT !.lives = NUMLIVES]
    /\ speed' = INITIAL_ALIEN_SPEED
    /\ roundNum' = 0
    /\ gameState' = "MENU_DISPLAY"

\* The end of a game, for lack of lives or by a crossing.
BackToMenu ==
    /\ ship' = createShip
    /\ speed' = INITIAL_ALIEN_SPEED
    /\ roundNum' = 0
    /\ gameState' = "MENU_DISPLAY"

-------------------------------------------------------------------------------
(***************************************************************************)
(* The message loop.  A message carries the bits of the devices that have  *)
(* interrupted; a section ends by going on to the next device of the same  *)
(* message, and a "continue" in a section drops the rest of the message.   *)
(***************************************************************************)
Section(bits) ==
    IF "mouse" \in bits THEN "mouse"
    ELSE IF "kbd" \in bits THEN "keyboard"
    ELSE IF "timer" \in bits THEN "timer"
    ELSE "receive"

GoOn(bits) == intr' = bits /\ pc' = Section(bits)

Continue == GoOn({})

\* Mutated form: the loop does not ask whether the game is over.
LoopsMutant == TRUE

\* The condition of the while loop.
Loops == gameState # "EXIT"

Receive(bits) ==
    /\ pc = "receive"
    /\ Loops
    /\ "timer" \in bits => roundNum <= MaxRound
    /\ bits # {}
    /\ GoOn(bits)
    /\ UNCHANGED <<gameState, alienVars, ship, alienBullet, roundNum,
                   timer_counter, sbVars>>

\* The loop ends: bullets and devices are released and nothing runs any more.
Leave ==
    /\ pc = "receive"
    /\ ~Loops
    /\ pc' = "done"
    /\ UNCHANGED <<intr, gameState, alienVars, ship, alienBullet, roundNum,
                   timer_counter, sbVars>>

Done == pc = "done" /\ UNCHANGED vars

-------------------------------------------------------------------------------
(***************************************************************************)
(* The mouse section.  The byte that arrives is unusable (an error, or a   *)
(* first byte without bit 3), completes no packet, or completes a packet   *)
(* with the left button up or down and the pointer over some button.       *)
(***************************************************************************)
MouseDropped ==
    /\ pc = "mouse"
    /\ Continue
    /\ UNCHANGED <<gameState, alienVars, ship, alienBullet, roundNum,
                   timer_counter, sbVars>>

MouseNoEffect ==
    /\ pc = "mouse"
    /\ GoOn(intr \ {"mouse"})
    /\ UNCHANGED <<gameState, alienVars, ship, alienBullet, roundNum,
                   timer_counter, sbVars>>

ClickStart ==
    /\ pc = "mouse"
    /\ gameState = "MENU_DISPLAY"
    /\ initGame(INITIAL_ALIEN_SPEED + 2 * roundNum)
    /\ GoOn(intr \ {"mouse"})
    /\ UNCHANGED <<idx, right_mov, ship, alienBullet, roundNum, timer_counter, sbVars>>

ClickMenu(next) ==
    /\ pc = "mouse"
    /\ \/ gameState = "MENU_DISPLAY" /\ next \in {"INSTRUCTIONS_DISPLAY", "EXIT"}
       \/ gameState = "INSTRUCTIONS_DISPLAY" /\ next = "MENU_DISPLAY"
    /\ gameState' = next
    /\ GoOn(intr \ {"mouse"})
    /\ UNCHANGED <<alienVars, ship, alienBullet, roundNum, timer_counter, sbVars>>

ClickShoot(c) ==
    /\ pc = "mouse"
    /\ gameState = "PLAYING"
    /\ createShipBullet(c, ship.x + SHIP_WIDTH \div 2, SHIP_YPOS)
    /\ GoOn(intr \ {"mouse"})
    /\ UNCHANGED <<gameState, alienVars, ship, alienBullet, roundNum, timer_counter>>

-------------------------------------------------------------------------------
(***************************************************************************)
(* The keyboard section: the prefix 0xE0 drops the rest of the message,    *)
(* ESC_BREAK ends the program and drops it too, A and D move the ship.     *)
(***************************************************************************)
KeyPrefix ==
    /\ pc = "keyboard"
    /\ Continue
    /\ UNCHANGED <<gameState, alienVars, ship, alienBullet, roundNum,
                   timer_counter, sbVars>>

KeyEscape ==
    /\ pc = "keyboard"
    /\ gameState' = "EXIT"
    /\ Continue
    /\ UNCHANGED <<alienVars, ship, alienBullet, roundNum, timer_counter, sbVars>>

clamp(min, max, value) ==
    IF value < min THEN min ELSE IF value > max THEN max ELSE value

\* A pressed moves by -SHIP_SPEED, D pressed by SHIP_SPEED.
updateShipPosition(move) ==
    /\ pc = "keyboard"
    /\ gameState = "PLAYING"
    /\ ship' = [ship EXCEPT !.x = clamp(X_MIN, X_MAX - SHIP_WIDTH, @ + move)]
    /\ GoOn(intr \ {"kbd"})
    /\ UNCHANGED <<gameState, alienVars, alienBullet, roundNum, timer_counter, sbVars>>

KeyOther ==
    /\ pc = "keyboard"
    /\ GoOn(intr \ {"kbd"})
    /\ UNCHANGED <<gameState, alienVars, ship, alienBullet, roundNum,
                   timer_counter, sbVars>>

-------------------------------------------------------------------------------
(***************************************************************************)
(* The timer section.                                                      *)
(***************************************************************************)
timer_int_handler ==
    timer_counter' = IF timer_counter < ipf THEN timer_counter + 1 ELSE ipf

TimerPlaying ==
    /\ pc = "timer"
    /\ gameState = "PLAYING"
    /\ timer_int_handler
    /\ beginUpdate
    /\ pc' = "bullets"
    /\ UNCHANGED <<intr, gameState, alienVars, ship, alienBullet, roundNum>>

\* Mutated form: the speed of initGame is kept.
NextSpeedMutant == INITIAL_ALIEN_SPEED + 2 * roundNum

NextSpeed == INITIAL_ALIEN_SPEED + roundNum

TimerNextRound ==
    /\ pc = "timer"
    /\ gameState = "NEXT_ROUND"
    /\ timer_int_handler
    /\ initGame(NextSpeed)
    /\ Continue
    /\ UNCHANGED <<idx, right_mov, ship, alienBullet, roundNum, sbVars>>

TimerIdle ==
    /\ pc = "timer"
    /\ gameState \notin {"PLAYING", "NEXT_ROUND"}
    /\ timer_int_handler
    /\ Continue
    /\ UNCHANGED <<gameState, alienVars, ship, alienBullet, roundNum, sbVars>>

MoveShipBullet ==
    /\ pc = "bullets"
    /\ updateShipBulletPosition
    /\ pc' = IF slot' = MAX_SHIP_BULLETS THEN "draw" ELSE "bullets"
    /\ UNCHANGED <<intr, gameState, alienVars, ship, alienBullet, roundNum, timer_counter>>

\* drawLives and drawScore.  With a score to draw, drawScore allocates an
\* array of digits, which may be a chunk a bullet was freed from, and frees it.
Draw ==
    /\ pc = "draw"
    /\ \/ UNCHANGED sbVars
       \/ ship.score > 0 /\ \E c \in Held, b \in Junk : overwriteFree(c, b)
    /\ pc' = "alienBullet"
    /\ UNCHANGED <<intr, gameState, alienVars, ship, alienBullet, roundNum, timer_counter>>

\* On to the alien movement if a frame is due, else the message is done.
AlienMovement ==
    IF timer_counter >= ipf
    THEN pc' = "aliens" /\ intr' = intr /\ idx' = 0 /\ changeDir' = FALSE
    ELSE Continue /\ UNCHANGED <<idx, changeDir>>

\* generateAlienBullet draws until it finds an alien that is alive: with no
\* such alien the program would stay here for ever.
createAlienBullet(i) ==
    /\ pc = "alienBullet"
    /\ ~alienBullet.active
    /\ aliens[i].alive
    /\ alienBullet' = [x |-> aliens[i].x + ALIEN_WIDTH \div 2,
                       y |-> aliens[i].y + ALIEN_HEIGHT,
                       active |-> TRUE]
    /\ AlienMovement
    /\ UNCHANGED <<gameState, aliens, killCount, right_mov, speed, ship, roundNum,
                   timer_counter, sbVars>>

updateAlienBulletPosition(b) ==
    IF b.y + ALIEN_BULLET_SPEED + ALIEN_BULLET_HEIGHT >= BOTTOM
    THEN [b EXCEPT !.active = FALSE]
    ELSE [b EXCEPT !.y = @ + ALIEN_BULLET_SPEED]

\* Mutated form: the lower edge of the ship is not looked at.
ShipHitMutant(b) ==
    /\ ship.x <= b.x
    /\ ship.x + SHIP_WIDTH >= b.x + ALIEN_BULLET_WIDTH
    /\ SHIP_YPOS <= b.y

\* The test of verifyShipAndBulletCollision.
ShipHit(b) ==
    /\ ship.x <= b.x
    /\ ship.x + SHIP_WIDTH >= b.x + ALIEN_BULLET_WIDTH
    /\ SHIP_YPOS <= b.y
    /\ SHIP_YPOS + SHIP_HEIGHT >= b.y + ALIEN_BULLET_HEIGHT

\* verifyShipAndBulletCollision, called with the bullet already moved: it does
\* not ask whether the bullet is still active.
AfterCollision(b) == IF ShipHit(b) THEN ship.lives - 1 ELSE ship.lives

\* Mutated form: the game goes on with a ship that has no life left.
ShipLostMutant(b) == AfterCollision(b) < 0

ShipLost(b) == AfterCollision(b) = 0

AlienBulletFlies ==
    LET b == updateAlienBulletPosition(alienBullet)
    IN  /\ pc = "alienBullet"
        /\ alienBullet.active
        /\ ~ShipLost(b)
        /\ ship' = [ship EXCEPT !.lives = AfterCollision(b)]
        /\ alienBullet' = [b EXCEPT !.active = @ /\ ~ShipHit(b)]
        /\ AlienMovement
        /\ UNCHANGED <<gameState, aliens, killCount, right_mov, speed, roundNum,
                       timer_counter, sbVars>>

\* The last life: a new ship, the menu, and the aliens do not move.
AlienBulletKills ==
    LET b == updateAlienBulletPosition(alienBullet)
    IN  /\ pc = "alienBullet"
        /\ alienBullet.active
        /\ ShipLost(b)
        /\ BackToMenu
        /\ alienBullet' = [b EXCEPT !.active = @ /\ ~ShipHit(b)]
        /\ Continue
        /\ UNCHANGED <<aliens, idx, killCount, right_mov, changeDir, timer_counter, sbVars>>

-------------------------------------------------------------------------------
(***************************************************************************)
(* The alien loop.  Each alien that is alive moves, asks for a change of   *)
(* direction at the border, is tested against the ship's bullets and then  *)
(* against the territory, in this order.                                   *)
(***************************************************************************)
Moved(a) ==
    IF right_mov THEN [a EXCEPT !.x = @ + speed] ELSE [a EXCEPT !.x = @ - speed]

AtBorder(a) ==
    IF right_mov THEN a.x + ALIEN_WIDTH >= X_RIGHT_BORDER ELSE a.x <= X_LEFT_BORDER

\* The test of verifyAlienAndBulletCollision for an alien that is alive.
Hits(a, j) ==
    LET p == shipBullets[j]
    IN  /\ InFlight(p)
        /\ a.x < heap[p].x
        /\ heap[p].x < a.x + ALIEN_WIDTH
        /\ a.y < heap[p].y
        /\ heap[p].y < a.y + ALIEN_HEIGHT

\* Mutated form: an alien that just touches the territory is let through.
CrossedMutant(a) == a.y + ALIEN_HEIGHT > TERRITORY

Crossed(a) == a.y + ALIEN_HEIGHT >= TERRITORY

\* Mutated form: the kill count is compared with one alien too many.
RoundClearedMutant(kills) == kills = SIZE_OF_ALIENS + 1

RoundCleared(kills) == kills = SIZE_OF_ALIENS

\* What follows the collision test, with the kill count and the ship it left.
\* A crossing replaces the ship and the loop goes on with the other aliens.
CheckTerritory(a, kills, s) ==
    \/ /\ Crossed(a)
       /\ BackToMenu
    \/ /\ ~Crossed(a)
       /\ RoundCleared(kills)
       /\ gameState' = "NEXT_ROUND"
       /\ roundNum' = roundNum + 1
       /\ ship' = s
       /\ UNCHANGED speed
    \/ /\ ~Crossed(a)
       /\ ~RoundCleared(kills)
       /\ ship' = s
       /\ UNCHANGED <<speed, roundNum, gameState>>

NextAlien ==
    /\ idx' = idx + 1
    /\ pc' = IF idx' = SIZE_OF_ALIENS THEN "frameEnd" ELSE "aliens"
    /\ UNCHANGED <<intr, right_mov, alienBullet, timer_counter>>

AlienDead ==
    /\ pc = "aliens"
    /\ ~aliens[idx].alive
    /\ NextAlien
    /\ UNCHANGED <<gameState, aliens, killCount, changeDir, speed, ship, roundNum, sbVars>>

AlienSurvives ==
    LET a == Moved(aliens[idx])
    IN  /\ pc = "aliens"
        /\ aliens[idx].alive
        /\ \A j \in Slots : ~Hits(a, j)
        /\ aliens' = [aliens EXCEPT ![idx] = a]
        /\ changeDir' = (changeDir \/ AtBorder(a))
        /\ CheckTerritory(a, killCount, ship)
        /\ NextAlien
        /\ UNCHANGED <<killCount, sbVars>>

\* verifyAlienAndBulletCollision: the first slot that hits kills the alien.
AlienKilled(j) ==
    LET a == Moved(aliens[idx])
    IN  /\ pc = "aliens"
        /\ aliens[idx].alive
        /\ Hits(a, j)
        /\ \A k \in 0 .. j - 1 : ~Hits(a, k)
        /\ aliens' = [aliens EXCEPT ![idx] = [a EXCEPT !.alive = FALSE]]
        /\ changeDir' = (changeDir \/ AtBorder(a))
        /\ killCount' = killCount + 1
        /\ spendBullet(j)
        /\ CheckTerritory(a, killCount + 1, [ship EXCEPT !.score = @ + Value(idx)])
        /\ NextAlien

\* Mutated form: the drop forgets the first alien.
change_all_y_Mutant(as) ==
    [i \in Aliens |-> IF i = 0 THEN as[i] ELSE [as[i] EXCEPT !.y = @ + ALIEN_DROP]]

\* Mutated form: nothing drops.
change_all_y_NoDrop(as) == as

\* The whole formation drops, dead aliens too.
change_all_y(as) == [i \in Aliens |-> [as[i] EXCEPT !.y = @ + ALIEN_DROP]]

\* Mutated form: the aliens go on in the same direction.
TurnedMutant == right_mov

Turned == IF changeDir THEN ~right_mov ELSE right_mov

\* After the loop: at a border the formation drops and turns round.
FrameEnd ==
    /\ pc = "frameEnd"
    /\ aliens' = IF changeDir THEN change_all_y(aliens) ELSE aliens
    /\ right_mov' = Turned
    /\ changeDir' = FALSE
    /\ timer_counter' = 0
    /\ idx' = 0
    /\ Continue
    /\ UNCHANGED <<gameState, killCount, speed, ship, alienBullet, roundNum, sbVars>>

-------------------------------------------------------------------------------

Mouse ==
    \/ MouseDropped
    \/ MouseNoEffect
    \/ ClickStart
    \/ \E next \in {"INSTRUCTIONS_DISPLAY", "EXIT", "MENU_DISPLAY"} : ClickMenu(next)
    \/ \E c \in Chunks : ClickShoot(c)

Keyboard ==
    \/ KeyPrefix
    \/ KeyEscape
    \/ \E move \in {-SHIP_SPEED, SHIP_SPEED} : updateShipPosition(move)
    \/ KeyOther

Timer ==
    \/ TimerPlaying
    \/ TimerNextRound
    \/ TimerIdle
    \/ MoveShipBullet
    \/ Draw
    \/ \E i \in Aliens : createAlienBullet(i)
    \/ AlienBulletFlies
    \/ AlienBulletKills
    \/ AlienDead
    \/ AlienSurvives
    \/ \E j \in Slots : AlienKilled(j)
    \/ FrameEnd

Next ==
    \/ \E bits \in SUBSET Devices : Receive(bits)
    \/ Mouse
    \/ Keyboard
    \/ Timer
    \/ Leave
    \/ Done

Spec == Init /\ [][Next]_vars

-------------------------------------------------------------------------------
(***************************************************************************)
(* Safety.                                                                 *)
(***************************************************************************)

\* An alien game is under way: the aliens and killCount belong together.
InGame ==
    \/ gameState \in {"PLAYING", "NEXT_ROUND"}
    \/ pc \in {"aliens", "frameEnd"}

\* killCount, which decides when a round is over, is the number of dead
\* aliens, in every iteration of the alien loop and from round to round.
KillCountExact == InGame => killCount = Cardinality({i \in Aliens : ~aliens[i].alive})

\* While a round is played some alien is alive, so the do-while loop of
\* generateAlienBullet always finds one and the program cannot hang there.
AlienToShoot == gameState = "PLAYING" => \E i \in Aliens : aliens[i].alive

\* drawLives has an image only for 1 to NUMLIVES lives (else it draws from an
\* uninitialised variable): the ship it is given is never out of lives.
LivesDrawable == ship.lives \in 1 .. NUMLIVES

\* The ship never leaves its range, whatever keys arrive in whatever state.
ShipOnScreen == ship.x \in X_MIN .. X_MAX - SHIP_WIDTH

\* The aliens keep their formation: between two messages, all aliens that are
\* alive are displaced by the same amount from where initGame put them.
FormationKept ==
    gameState = "PLAYING" /\ pc = "receive" =>
        \A i, j \in Aliens : aliens[i].alive /\ aliens[j].alive =>
            /\ aliens[i].x - createAlien(i).x = aliens[j].x - createAlien(j).x
            /\ aliens[i].y - createAlien(i).y = aliens[j].y - createAlien(j).y

\* The border the aliens are heading for is ahead of all of them: the frame in
\* which one of them reaches a border turns them all round, overshoot included,
\* so they never drop twice at the same border.
BorderAhead ==
    gameState = "PLAYING" /\ pc = "receive" =>
        \A i \in Aliens : aliens[i].alive =>
            IF right_mov THEN aliens[i].x + ALIEN_WIDTH < X_RIGHT_BORDER
                         ELSE aliens[i].x > X_LEFT_BORDER

\* While a game is played no alien is further down than the drop that takes it
\* over the territory: the frame after that drop ends the game.
TerritoryHolds ==
    gameState = "PLAYING" /\ pc = "receive" =>
        \A i \in Aliens : aliens[i].alive =>
            aliens[i].y + ALIEN_HEIGHT < TERRITORY + ALIEN_DROP

\* What the aliens of a set are worth, value by value.
Points(S) ==
    LET Worth(v) == Cardinality({i \in S : Value(i) = v})
    IN  30 * Worth(30) + 20 * Worth(20) + 10 * Worth(10)

\* The part of the score that neither the rounds cleared nor the aliens dead in
\* this round account for.
LeftOver ==
    ship.score - roundNum * Points(Aliens)
    - (IF gameState = "PLAYING" THEN Points({i \in Aliens : ~aliens[i].alive}) ELSE 0)

(***************************************************************************)
(* The score is what was killed in this game, round by round, plus at most *)
(* one alien of the game before: the ship that a crossing replaces in the  *)
(* middle of the alien loop may be given the points of one more alien.     *)
(***************************************************************************)
ScoreExact == gameState \in {"PLAYING", "NEXT_ROUND"} => LeftOver \in {0, 10, 20, 30}

\* A life is lost only to a bullet that is still on the screen, the last one and
\* the game with it included, although the collision test does not ask whether
\* the bullet has just been deactivated.
LifeLostToLiveBullet ==
    [][ ship'.lives < ship.lives \/ (pc = "alienBullet" /\ gameState' # gameState)
          => updateAlienBulletPosition(alienBullet).active ]_vars

(***************************************************************************)
(* An alien is killed only by a bullet that is allocated, and once.  The   *)
(* slots keep the chunk of every bullet that was freed, and the collision  *)
(* test goes on reading it: a bullet that has hit is known by its mark,    *)
(* one that missed is still where it left the screen, above all aliens.    *)
(* This needs that no other user of the heap leaves an unmarked bullet     *)
(* there, and a formation that starts SHIP_BULLET_SPEED - 1 down or lower. *)
(***************************************************************************)
KilledByLiveBullet ==
    [][ killCount' > killCount => \E p \in Held : p \in allocated /\ p \notin allocated' ]_vars

\* The screens, rounds and lives the player sees are those of GameFlow.
Flow == INSTANCE GameFlow WITH lives <- ship.lives

FlowSpec == Flow!FlowSpec

-------------------------------------------------------------------------------
(***************************************************************************)
(* What the safety properties rest on.  Each of these facts holds in every *)
(* step of the loop body; GameSafety proves them by induction together     *)
(* with the properties above.                                              *)
(***************************************************************************)

LoopIndex == pc = "aliens" => idx < SIZE_OF_ALIENS

\* The bullets move only in a round, and neither the instructions nor the exit
\* can come up while the aliens move.
Control ==
    /\ pc \in {"bullets", "draw", "alienBullet"} => gameState = "PLAYING"
    /\ pc \in {"aliens", "frameEnd"} => gameState \in {"PLAYING", "MENU_DISPLAY", "NEXT_ROUND"}

\* A round is over exactly when the last alien is dead.
RoundOpen ==
    /\ gameState = "PLAYING" => killCount # SIZE_OF_ALIENS
    /\ gameState = "NEXT_ROUND" => killCount = SIZE_OF_ALIENS

\* Whoever is at the menu has the ship and the round of a new game.
MenuFresh ==
    gameState \in {"MENU_DISPLAY", "INSTRUCTIONS_DISPLAY"} =>
        roundNum = 0 /\ ship.lives = NUMLIVES

\* After a crossing the loop goes on, but it can no longer clear the round:
\* an alien it has passed is alive, or the bullet is spent.
CrossingFinal ==
    pc = "aliens" /\ gameState = "MENU_DISPLAY" =>
        \/ \E k \in 0 .. idx - 1 : aliens[k].alive
        \/ \A j \in Slots : ~InFlight(shipBullets[j])

\* The aliens of round n move by INITIAL_ALIEN_SPEED + n, from the first round
\* of a game to its last and again in the next game.
PlayingSpeed == gameState = "PLAYING" => speed = INITIAL_ALIEN_SPEED + roundNum

\* The strengthening as a whole: a game that is lost in the middle of the alien
\* loop stays lost, a round that is won there stays won, and no screen is shown
\* with the round, the lives or the speed of another.
LoopInv ==
    /\ LoopIndex
    /\ Control
    /\ RoundOpen
    /\ MenuFresh
    /\ CrossingFinal
    /\ PlayingSpeed

-------------------------------------------------------------------------------
(***************************************************************************)
(* Liveness.  The handlers run to their end, and messages that carry only  *)
(* the timer keep coming: the timer interrupts 60 times a second, the      *)
(* mouse and the keyboard only now and then.                               *)
(***************************************************************************)
FairSpec ==
    /\ Spec
    /\ WF_vars(Mouse)
    /\ WF_vars(Keyboard)
    /\ WF_vars(Timer)
    /\ WF_vars(Leave)
    /\ SF_vars(Receive({"timer"}))

\* Neither a round nor the pause between two rounds lasts for ever, whether the
\* player plays or not: the aliens come down until they cross the territory
\* unless the round ends before, and a cleared round is followed by the next
\* (within the bound on rounds).
GameMovesOn ==
    \A s \in {"PLAYING", "NEXT_ROUND"} :
        gameState = s /\ roundNum <= MaxRound ~> gameState # s

\* Once the player has chosen to leave, the loop ends.
ExitEnds == gameState = "EXIT" ~> pc = "done"

===============================================================================
