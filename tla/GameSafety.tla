------------------------------ MODULE GameSafety ------------------------------
(***************************************************************************)
(* The safety properties of Game, proved for every value of the constants: *)
(* the count of dead aliens is exact, a round has an alien to shoot, the   *)
(* lives can be drawn, the ship stays on the screen, a shot is lost only   *)
(* to a bullet in flight, an alien only to one that is allocated, the      *)
(* speed is that of the round and the score is what was killed.  With them *)
(* the game is shown to implement GameFlow.                                *)
(*                                                                         *)
(* Most steps change nothing these properties look at (Quiet); the lemmas  *)
(* below go through the others.                                            *)
(***************************************************************************)
EXTENDS GameTypes, FiniteSetTheorems

Dead == {i \in Aliens : ~aliens[i].alive}

-------------------------------------------------------------------------------

\* createShipBullet is the only operation that stores into the slots, and it
\* treats slots with the same pointer alike.
LEMMA OneBulletNext ==
    ASSUME TypeInv, OneBullet, [Next]_vars
    PROVE  OneBullet'
<1>1. ASSUME NEW c \in Chunks, ClickShoot(c) PROVE OneBullet'
  BY <1>1, CreateOneBullet DEF ClickShoot
<1>2. ASSUME UNCHANGED shipBullets PROVE OneBullet'
  BY <1>2 DEF OneBullet
<1>3. Quiet => UNCHANGED shipBullets
  BY DEF Quiet, sbVars
<1>4. \A next : ClickStart \/ ClickMenu(next) => UNCHANGED shipBullets
  BY DEF ClickStart, ClickMenu, sbVars
<1>5. \A move : KeyEscape \/ updateShipPosition(move) => UNCHANGED shipBullets
  BY DEF KeyEscape, updateShipPosition, sbVars
<1>6. TimerPlaying \/ TimerNextRound \/ MoveShipBullet => UNCHANGED shipBullets
  BY DEF TimerPlaying, beginUpdate, TimerNextRound, MoveShipBullet,
         updateShipBulletPosition, sbVars
<1>7. Draw => UNCHANGED shipBullets
  BY DEF Draw, overwriteFree, sbVars
<1>8. \A i : createAlienBullet(i) => UNCHANGED shipBullets
  BY DEF createAlienBullet, sbVars
<1>9. AlienBulletFlies \/ AlienBulletKills => UNCHANGED shipBullets
  BY DEF AlienBulletFlies, AlienBulletKills, sbVars
<1>10. AlienDead \/ AlienSurvives \/ FrameEnd => UNCHANGED shipBullets
  BY DEF AlienDead, AlienSurvives, FrameEnd, sbVars
<1>11. \A j : AlienKilled(j) => UNCHANGED shipBullets
  BY DEF AlienKilled, spendBullet
<1>12. QED
  BY StepCases, <1>1, <1>2, <1>3, <1>4, <1>5, <1>6, <1>7, <1>8, <1>9, <1>10, <1>11

\* What becomes of a shot whose bullet is chunk c: every slot holds it, or none
\* does and the bullet the slots hold flies on.
ShotFate(c) ==
    \/ \A i \in Slots : shipBullets'[i] = c
    \/ \A i \in Slots : shipBullets'[i] = shipBullets[i] /\ InFlight(shipBullets[i])

LEMMA ShotStep ==
    ASSUME SBTypeOK, OneBullet, NEW c \in Chunks, NEW x, NEW y, createShipBullet(c, x, y)
    PROVE  ShotFate(c)
<1>1. \A i, j \in Slots : FillsSlot(heap', i) => FillsSlot(heap', j)
  BY DEF OneBullet, FillsSlot
<1>2. shipBullets' = [i \in Slots |-> IF FillsSlot(heap', i) THEN c ELSE shipBullets[i]]
  BY DEF createShipBullet
<1>3. CASE \E i \in Slots : FillsSlot(heap', i)
  BY <1>1, <1>2, <1>3 DEF ShotFate
<1>4. CASE \E i \in Slots : shipBullets[i] = c
  BY <1>2, <1>4 DEF ShotFate, OneBullet
<1>5. CASE \A i \in Slots : ~FillsSlot(heap', i) /\ shipBullets[i] # c
  <2>1. \A p \in Chunks : p # c => heap'[p] = heap[p]
    BY DEF createShipBullet, SBTypeOK
  <2>2. \A i \in Slots : InFlight(shipBullets[i])
    BY <1>5, <2>1 DEF FillsSlot, InFlight, SBTypeOK
  <2>3. QED
    BY <1>2, <1>5, <2>2 DEF ShotFate
<1>6. QED
  BY <1>3, <1>4, <1>5

\* A shot is lost only while the bullet of an earlier one is in flight: then no
\* slot gets it, otherwise all of them do (the loop of createShipBullet has no
\* break), whatever the chunks they held before contain.
THEOREM ShotFateTheorem == Spec => [][\A c \in Chunks : ClickShoot(c) => ShotFate(c)]_vars
<1>1. ASSUME TypeInv, OneBullet, NEW c \in Chunks, ClickShoot(c) PROVE ShotFate(c)
  BY <1>1, ShotStep DEF TypeInv, TypeOK, ClickShoot
<1>2. Init => OneBullet
  BY DEF Init, SBInit, initShipBullets, OneBullet
<1>3. TypeInv /\ OneBullet => \A c \in Chunks : ClickShoot(c) => ShotFate(c)
  BY <1>1
<1>4. QED
  BY <1>2, <1>3, TypeInit, TypeNext, OneBulletNext, PTL DEF Spec

-------------------------------------------------------------------------------

\* The game shoots from where the ship is, hits with bullets in flight and
\* overwrites freed chunks when it draws the score.
LEMMA LiveBulletNext ==
    ASSUME TypeInv, LiveBulletSound, [Next]_vars
    PROVE  LiveBulletSound'
<1> SBTypeOK
  BY DEF TypeInv, TypeOK
<1>1. Held \subseteq Chunks
  BY DEF Held, SBTypeOK
<1>2. ASSUME NEW c \in Chunks, ClickShoot(c) PROVE LiveBulletSound'
  BY <1>2, LiveStep DEF ClickShoot
<1>3. TimerPlaying \/ MoveShipBullet => LiveBulletSound'
  BY LiveStep DEF TimerPlaying, MoveShipBullet
<1>4. Draw => LiveBulletSound'
  BY <1>1, LiveStep DEF Draw
<1>5. ASSUME NEW j \in Slots, AlienKilled(j) PROVE LiveBulletSound'
  BY <1>5, LiveStep DEF AlienKilled, Hits
<1>6. Quiet \/ ClickStart \/ KeyEscape \/ TimerNextRound => UNCHANGED sbVars
  BY DEF Quiet, ClickStart, KeyEscape, TimerNextRound
<1>7. \A next, move : ClickMenu(next) \/ updateShipPosition(move) => UNCHANGED sbVars
  BY DEF ClickMenu, updateShipPosition
<1>8. \A i : createAlienBullet(i) \/ AlienBulletFlies \/ AlienBulletKills => UNCHANGED sbVars
  BY DEF createAlienBullet, AlienBulletFlies, AlienBulletKills
<1>9. AlienDead \/ AlienSurvives \/ FrameEnd => UNCHANGED sbVars
  BY DEF AlienDead, AlienSurvives, FrameEnd
<1>10. UNCHANGED sbVars => LiveBulletSound'
  BY LiveStep
<1>11. QED
  BY StepCases, <1>2, <1>3, <1>4, <1>5, <1>6, <1>7, <1>8, <1>9, <1>10

\* A bullet that is allocated and held by a slot has not hit, flies at its speed
\* and is on the screen, although slots keep pointing at freed chunks, free
\* them again and read what drawScore has left there.
THEOREM LiveBulletInGame == Spec => []LiveBulletSound
<1>1. Init => LiveBulletSound
  BY SBInitType DEF Init
<1>2. QED
  BY <1>1, TypeInit, TypeNext, LiveBulletNext, PTL DEF Spec

-------------------------------------------------------------------------------
(***************************************************************************)
(* Chunks that were freed and that the slots still hold.                   *)
(***************************************************************************)

\* No other user of the heap leaves something that looks like a flying bullet.
CleanHeap == \A b \in Junk : b.hitAlien

\* A freed bullet has hit, or is where it left the screen and stays there.
FreedSound == \A p \in Held \ allocated :
    heap[p].hitAlien \/ (heap[p].speed = SHIP_BULLET_SPEED /\ heap[p].y < SHIP_BULLET_SPEED)

\* Aliens go down only.
AliensBelow == \A i \in Aliens : aliens[i].alive => aliens[i].y >= ALIEN_Y0

\* What each operation leaves in the freed chunks, whoever calls it.
LEMMA FreedStep ==
    ASSUME SBTypeOK, LiveBulletSound, FreedSound, CleanHeap
    PROVE  /\ \A c \in Chunks : \A x, y : createShipBullet(c, x, y) => FreedSound'
           /\ beginUpdate \/ updateShipBulletPosition \/ UNCHANGED sbVars => FreedSound'
           /\ \A j \in Slots : InFlight(shipBullets[j]) /\ spendBullet(j) => FreedSound'
           /\ \A c \in Chunks, b \in Junk : overwriteFree(c, b) => FreedSound'
<1>1. Held \subseteq Chunks
  BY DEF Held, SBTypeOK
<1>2. ASSUME NEW c \in Chunks, NEW x, NEW y, createShipBullet(c, x, y) PROVE FreedSound'
  <2>1. allocated' = allocated \cup {c} /\ \A p \in Chunks : p # c => heap'[p] = heap[p]
    BY <1>2 DEF createShipBullet, SBTypeOK
  <2>2. Held' \subseteq Held \cup {c}
    BY <1>2 DEF createShipBullet, Held
  <2>3. QED
    BY <1>1, <2>1, <2>2 DEF FreedSound
<1>3. beginUpdate \/ UNCHANGED sbVars => FreedSound'
  BY DEF beginUpdate, sbVars, Held, FreedSound
<1>4. ASSUME updateShipBulletPosition PROVE FreedSound'
  <2> DEFINE p == shipBullets[slot]
  <2>1. Held' = Held /\ slot \in Slots
    BY <1>4, CountAssumption DEF updateShipBulletPosition, Held, SBTypeOK, Slots
  <2>2. CASE heap' = heap /\ allocated' = allocated
    BY <2>1, <2>2 DEF FreedSound
  <2>3. InFlight(p) => p \in Held /\ p \in Chunks /\ heap[p] \in Bullet /\ ~heap[p].hitAlien
    BY <2>1 DEF InFlight, Held, SBTypeOK
  <2>4. InFlight(p) => /\ heap[p].y \in Int /\ heap[p].speed = SHIP_BULLET_SPEED
                       /\ p \notin allocated => heap[p].y < SHIP_BULLET_SPEED
    BY <2>3 DEF LiveBulletSound, FreedSound, Bullet
  <2>5. CASE /\ InFlight(p) /\ heap[p].y - heap[p].speed >= 0 /\ allocated' = allocated
             /\ heap' = [heap EXCEPT ![p].y = @ - heap[p].speed]
    <3>1. p \in allocated
      BY <2>4, <2>5, GeometryAssumption
    <3>2. \A q \in Chunks : q # p => heap'[q] = heap[q]
      BY <2>5 DEF SBTypeOK
    <3>3. QED
      BY <1>1, <2>1, <2>5, <3>1, <3>2 DEF FreedSound
  <2>6. CASE /\ InFlight(p) /\ heap[p].y - heap[p].speed < 0 /\ allocated' = allocated \ {p}
             /\ heap' = heap
    <3>1. heap[p].speed = SHIP_BULLET_SPEED /\ heap[p].y < SHIP_BULLET_SPEED
      BY <2>4, <2>6, GeometryAssumption
    <3>2. QED
      BY <2>1, <2>6, <3>1 DEF FreedSound
  <2>7. QED
    BY <1>4, <2>2, <2>5, <2>6 DEF updateShipBulletPosition, removeShipBullet
<1>5. ASSUME NEW j \in Slots, InFlight(shipBullets[j]), spendBullet(j) PROVE FreedSound'
  <2> DEFINE p == shipBullets[j]
  <2>1. p \in Chunks /\ heap[p] \in Bullet
    BY <1>5 DEF InFlight, SBTypeOK
  <2>2. heap'[p].hitAlien /\ \A q \in Chunks : q # p => heap'[q] = heap[q]
    BY <1>5, <2>1 DEF spendBullet, SBTypeOK, Bullet
  <2>3. Held' = Held /\ allocated' = allocated \ {p}
    BY <1>5 DEF spendBullet, removeShipBullet, Held
  <2>4. QED
    BY <1>1, <2>2, <2>3 DEF FreedSound
<1>6. ASSUME NEW c \in Chunks, NEW b \in Junk, overwriteFree(c, b) PROVE FreedSound'
  <2>1. heap'[c] = b /\ b.hitAlien /\ \A q \in Chunks : q # c => heap'[q] = heap[q]
    BY <1>6 DEF overwriteFree, SBTypeOK, CleanHeap
  <2>2. Held' = Held /\ allocated' = allocated
    BY <1>6 DEF overwriteFree, Held
  <2>3. QED
    BY <1>1, <2>1, <2>2 DEF FreedSound
<1>7. QED
  BY <1>2, <1>3, <1>4, <1>5, <1>6

\* The game's steps on the freed chunks.
LEMMA FreedNext ==
    ASSUME CleanHeap, TypeInv, LiveBulletSound, FreedSound, [Next]_vars
    PROVE  FreedSound'
<1> SBTypeOK
  BY DEF TypeInv, TypeOK
<1>1. Held \subseteq Chunks
  BY DEF Held, SBTypeOK
<1>2. ASSUME NEW c \in Chunks, ClickShoot(c) PROVE FreedSound'
  BY <1>2, FreedStep DEF ClickShoot
<1>3. TimerPlaying \/ MoveShipBullet => FreedSound'
  BY FreedStep DEF TimerPlaying, MoveShipBullet
<1>4. Draw => FreedSound'
  BY <1>1, FreedStep DEF Draw
<1>5. ASSUME NEW j \in Slots, AlienKilled(j) PROVE FreedSound'
  BY <1>5, FreedStep DEF AlienKilled, Hits
<1>6. Quiet \/ ClickStart \/ KeyEscape \/ TimerNextRound => UNCHANGED sbVars
  BY DEF Quiet, ClickStart, KeyEscape, TimerNextRound
<1>7. \A next, move : ClickMenu(next) \/ updateShipPosition(move) => UNCHANGED sbVars
  BY DEF ClickMenu, updateShipPosition
<1>8. \A i : createAlienBullet(i) \/ AlienBulletFlies \/ AlienBulletKills => UNCHANGED sbVars
  BY DEF createAlienBullet, AlienBulletFlies, AlienBulletKills
<1>9. AlienDead \/ AlienSurvives \/ FrameEnd => UNCHANGED sbVars
  BY DEF AlienDead, AlienSurvives, FrameEnd
<1>10. UNCHANGED sbVars => FreedSound'
  BY FreedStep
<1>11. QED
  BY StepCases, <1>2, <1>3, <1>4, <1>5, <1>6, <1>7, <1>8, <1>9, <1>10

\* A new formation starts at ALIEN_Y0.
LEMMA CreateAlienBelow ==
    ASSUME NEW i \in Aliens
    PROVE  createAlien(i).y >= ALIEN_Y0
<1> DEFINE d == i % ROW_ALIENS
<1>1. d \in Nat
  BY CountAssumption DEF Aliens
<1>2. createAlien(i).y = ALIEN_Y0 + ALIEN_DY * d
  BY DEF createAlien
<1> HIDE DEF d
<1>3. ALIEN_DY * d \in Nat
  BY <1>1, GeometryAssumption
<1>4. QED
  BY <1>2, <1>3, GeometryAssumption

\* The aliens move sideways in the loop and down at its end.
LEMMA BelowNext ==
    ASSUME TypeInv, AliensBelow, [Next]_vars
    PROVE  AliensBelow'
<1>1. UNCHANGED aliens => AliensBelow'
  BY DEF AliensBelow
<1>2. ClickStart \/ TimerNextRound => AliensBelow'
  BY CreateAlienBelow DEF ClickStart, TimerNextRound, initGame, AliensBelow
<1>3. ASSUME NEW a, a = Moved(aliens[idx]), pc = "aliens",
             \/ aliens' = [aliens EXCEPT ![idx] = a]
             \/ aliens' = [aliens EXCEPT ![idx] = [a EXCEPT !.alive = FALSE]],
             aliens[idx].alive
      PROVE  AliensBelow'
  <2>1. idx \in Aliens /\ aliens[idx] \in Alien
    BY <1>3, CountAssumption DEF TypeInv, TypeOK, LoopIndex, Aliens
  <2>2. a \in Alien /\ a.y = aliens[idx].y /\ [a EXCEPT !.alive = FALSE].y = a.y
    BY <1>3, <2>1, MovedType DEF Moved, Alien, TypeInv
  <2>3. aliens'[idx].y = aliens[idx].y /\ \A i \in Aliens : i # idx => aliens'[i] = aliens[i]
    BY <1>3, <2>1, <2>2 DEF TypeInv, TypeOK
  <2>4. QED
    BY <1>3, <2>1, <2>3 DEF AliensBelow
<1>4. AlienSurvives => AliensBelow'
  BY <1>3 DEF AlienSurvives
<1>5. \A j : AlienKilled(j) => AliensBelow'
  BY <1>3 DEF AlienKilled
<1>6. ASSUME FrameEnd, changeDir PROVE AliensBelow'
  <2>1. ASSUME NEW i \in Aliens
        PROVE  /\ aliens'[i].alive = aliens[i].alive /\ aliens[i].y \in Int
               /\ aliens'[i].y = aliens[i].y + ALIEN_DROP
    <3>1. aliens[i] \in Alien
      BY DEF TypeInv, TypeOK
    <3>2. aliens'[i] = [aliens[i] EXCEPT !.y = aliens[i].y + ALIEN_DROP]
      BY <1>6 DEF FrameEnd, change_all_y
    <3>3. QED
      BY <3>1, <3>2 DEF Alien
  <2>2. QED
    BY <2>1, GeometryAssumption DEF AliensBelow
<1>7. FrameEnd /\ ~changeDir => UNCHANGED aliens
  BY DEF FrameEnd
<1>8. Quiet \/ KeyEscape \/ TimerPlaying \/ MoveShipBullet \/ Draw => UNCHANGED aliens
  BY DEF Quiet, KeyEscape, TimerPlaying, MoveShipBullet, Draw, alienVars
<1>9. \A x : ClickMenu(x) \/ ClickShoot(x) \/ updateShipPosition(x) => UNCHANGED aliens
  BY DEF ClickMenu, ClickShoot, updateShipPosition, alienVars
<1>10. \A i : createAlienBullet(i) \/ AlienBulletFlies \/ AlienBulletKills \/ AlienDead
               => UNCHANGED aliens
  BY DEF createAlienBullet, AlienBulletFlies, AlienBulletKills, AlienDead
<1>11. QED
  BY StepCases, <1>1, <1>2, <1>4, <1>5, <1>6, <1>7, <1>8, <1>9, <1>10

\* A step that counts a kill is a collision.
LEMMA KillIsCollision ==
    ASSUME TypeInv, [Next]_vars, killCount' > killCount
    PROVE  \E j \in Slots : AlienKilled(j)
<1>1. killCount \in Nat /\ killCount' # killCount /\ killCount' # 0
  BY DEF TypeInv, TypeOK
<1>2. ~(ClickStart \/ TimerNextRound)
  BY <1>1 DEF ClickStart, TimerNextRound, initGame
<1>3. ~(Quiet \/ KeyEscape \/ TimerPlaying \/ MoveShipBullet \/ Draw)
  BY <1>1 DEF Quiet, KeyEscape, TimerPlaying, MoveShipBullet, Draw, alienVars
<1>4. \A x : ~(ClickMenu(x) \/ ClickShoot(x) \/ updateShipPosition(x))
  BY <1>1 DEF ClickMenu, ClickShoot, updateShipPosition, alienVars
<1>5. \A i : ~(createAlienBullet(i) \/ AlienBulletFlies \/ AlienBulletKills)
  BY <1>1 DEF createAlienBullet, AlienBulletFlies, AlienBulletKills
<1>6. ~(AlienDead \/ AlienSurvives \/ FrameEnd)
  BY <1>1 DEF AlienDead, AlienSurvives, FrameEnd
<1>7. QED
  BY StepCases, <1>2, <1>3, <1>4, <1>5, <1>6

\* A collision is with a bullet that is allocated.
LEMMA KillerIsLive ==
    ASSUME TypeInv, FreedSound, AliensBelow, SHIP_BULLET_SPEED <= ALIEN_Y0 + 1,
           NEW j \in Slots, AlienKilled(j)
    PROVE  \E p \in Held : p \in allocated /\ p \notin allocated'
<1> DEFINE p == shipBullets[j]
           a == Moved(aliens[idx])
<1>1. idx \in Aliens /\ aliens[idx] \in Alien /\ aliens[idx].alive
  BY CountAssumption DEF AlienKilled, TypeInv, TypeOK, LoopIndex, Aliens
<1>2. a.y = aliens[idx].y /\ aliens[idx].y \in Int /\ aliens[idx].y >= ALIEN_Y0
  BY <1>1 DEF Moved, Alien, AliensBelow
<1>3. InFlight(p) /\ a.y < heap[p].y
  BY DEF AlienKilled, Hits
<1>4. p \in Held /\ p \in Chunks /\ ~heap[p].hitAlien /\ heap[p] \in Bullet
  BY <1>3 DEF InFlight, Held, TypeInv, TypeOK, SBTypeOK
<1>5. heap[p].y \in Int
  BY <1>4 DEF Bullet
<1>6. p \in allocated
  <2>1. p \notin allocated => heap[p].y < SHIP_BULLET_SPEED
    BY <1>4 DEF FreedSound
  <2> HIDE DEF a, p
  <2>2. QED
    BY <1>2, <1>3, <1>5, <2>1, GeometryAssumption
<1>7. p \notin allocated'
  BY DEF AlienKilled, spendBullet, removeShipBullet
<1>8. QED
  BY <1>4, <1>6, <1>7

\* An alien is killed only by a bullet that is allocated, although the slots keep
\* freed bullets and the collision test reads them: provided that nobody else
\* leaves an unmarked bullet in a freed chunk and that the formation starts
\* below where a missed bullet stops (20 >= 4 - 1 in the program).
THEOREM KilledByLiveTheorem ==
    ASSUME CleanHeap, SHIP_BULLET_SPEED <= ALIEN_Y0 + 1
    PROVE  Spec => KilledByLiveBullet
<1> DEFINE Inv == TypeInv /\ LiveBulletSound /\ FreedSound /\ AliensBelow
           Kills == killCount' > killCount => \E p \in Held : p \in allocated /\ p \notin allocated'
<1>1. Init => Inv
  <2>1. Init => FreedSound /\ AliensBelow
    BY DEF Init, SBInit, initShipBullets, Held, FreedSound, AliensBelow
  <2>2. QED
    BY <2>1, TypeInit, SBInitType DEF Init
<1>2. Inv /\ [Next]_vars => Inv'
  BY TypeNext, LiveBulletNext, FreedNext, BelowNext
<1>3. Inv /\ [Next]_vars => Kills
  BY KillIsCollision, KillerIsLive
<1> HIDE DEF Inv
<1>4. QED
  BY <1>1, <1>2, <1>3, PTL DEF Spec, KilledByLiveBullet

-------------------------------------------------------------------------------

\* The ship in play is one createShip, clamp or a surviving hit left behind.
ShipInv == LivesDrawable /\ ShipOnScreen

\* A new ship has all its lives and is on the screen.
LEMMA NewShip ==
    /\ createShip.lives = NUMLIVES
    /\ createShip.lives \in 1 .. NUMLIVES
    /\ createShip.x \in X_MIN .. X_MAX - SHIP_WIDTH
BY CountAssumption, GeometryAssumption DEF createShip

\* The test of the territory and of the end of the round keeps the ship it is
\* given or makes a new one.
LEMMA TerritoryShip ==
    ASSUME NEW a, NEW kills, NEW s, CheckTerritory(a, kills, s)
    PROVE  ship' = s \/ ship' = createShip
BY DEF CheckTerritory, BackToMenu

\* Every step keeps the ship drawable and on the screen.
LEMMA ShipNext ==
    ASSUME TypeInv, ShipInv, [Next]_vars
    PROVE  ShipInv'
<1>1. ASSUME ship'.x = ship.x, ship'.lives = ship.lives PROVE ShipInv'
  BY <1>1 DEF ShipInv, LivesDrawable, ShipOnScreen
<1>2. ASSUME ship' = createShip PROVE ShipInv'
  BY <1>2, NewShip DEF ShipInv, LivesDrawable, ShipOnScreen
<1>3. ASSUME NEW move \in {-SHIP_SPEED, SHIP_SPEED}, updateShipPosition(move) PROVE ShipInv'
  <2> DEFINE n == clamp(X_MIN, X_MAX - SHIP_WIDTH, ship.x + move)
  <2>1. ship \in Ship /\ ship' = [ship EXCEPT !.x = n]
    BY <1>3 DEF updateShipPosition, TypeInv, TypeOK
  <2>2. ship.x \in Int
    BY <2>1, ShipFields
  <2>3. n \in X_MIN .. X_MAX - SHIP_WIDTH
    BY <2>2, GeometryAssumption DEF clamp
  <2> HIDE DEF n
  <2>4. ship'.x = n /\ ship'.lives = ship.lives
    BY <2>1 DEF Ship
  <2>5. QED
    BY <2>3, <2>4 DEF ShipInv, LivesDrawable, ShipOnScreen
<1>4. ASSUME AlienBulletFlies PROVE ShipInv'
  <2> DEFINE b == updateAlienBulletPosition(alienBullet)
             n == AfterCollision(b)
  <2>1. ship \in Ship /\ ship' = [ship EXCEPT !.lives = n] /\ n # 0
    BY <1>4 DEF AlienBulletFlies, ShipLost, TypeInv, TypeOK
  <2>2. n = ship.lives \/ n = ship.lives - 1
    BY DEF AfterCollision
  <2> HIDE DEF n
  <2>3. ship'.x = ship.x /\ ship'.lives = n
    BY <2>1 DEF Ship
  <2>4. n \in 1 .. NUMLIVES
    BY <2>1, <2>2, CountAssumption DEF ShipInv, LivesDrawable
  <2>5. QED
    BY <2>3, <2>4 DEF ShipInv, LivesDrawable, ShipOnScreen
<1>5. ASSUME NEW j \in Slots, AlienKilled(j) PROVE ShipInv'
  <2> DEFINE s == [ship EXCEPT !.score = @ + Value(idx)]
  <2>1. ship' = s \/ ship' = createShip
    BY <1>5, TerritoryShip DEF AlienKilled
  <2>2. s.x = ship.x /\ s.lives = ship.lives
    BY DEF TypeInv, TypeOK, Ship
  <2> HIDE DEF s
  <2>3. QED
    BY <2>1, <2>2, <1>1, <1>2
<1>6. AlienSurvives => ship' = ship \/ ship' = createShip
  BY TerritoryShip DEF AlienSurvives
<1>7. AlienBulletKills => ship' = createShip
  BY DEF AlienBulletKills, BackToMenu
<1>8. Quiet \/ ClickStart \/ KeyEscape => ship' = ship
  BY DEF Quiet, ClickStart, KeyEscape
<1>9. \A next : ClickMenu(next) => ship' = ship
  BY DEF ClickMenu
<1>10. \A c : ClickShoot(c) => ship' = ship
  BY DEF ClickShoot
<1>11. TimerPlaying \/ TimerNextRound \/ MoveShipBullet \/ Draw => ship' = ship
  BY DEF TimerPlaying, TimerNextRound, MoveShipBullet, Draw
<1>12. \A i : createAlienBullet(i) => ship' = ship
  BY DEF createAlienBullet
<1>13. AlienDead \/ FrameEnd => ship' = ship
  BY DEF AlienDead, FrameEnd
<1>14. QED
  BY StepCases, <1>1, <1>2, <1>3, <1>4, <1>5, <1>6, <1>7, <1>8, <1>9, <1>10, <1>11,
     <1>12, <1>13

\* drawLives is never given a ship without lives or with more than NUMLIVES: a
\* last hit replaces the ship in the step that takes its last life.
THEOREM LivesTheorem == Spec => []LivesDrawable
<1>1. Init => ShipInv
  BY NewShip DEF Init, ShipInv, LivesDrawable, ShipOnScreen
<1>2. ShipInv => LivesDrawable
  BY DEF ShipInv
<1>3. QED
  BY <1>1, <1>2, TypeInit, TypeNext, ShipNext, PTL DEF Spec

\* The ship stays between X_MIN and X_MAX, its own width included.
THEOREM ShipOnScreenTheorem == Spec => []ShipOnScreen
<1>1. Init => ShipInv
  BY NewShip DEF Init, ShipInv, LivesDrawable, ShipOnScreen
<1>2. ShipInv => ShipOnScreen
  BY DEF ShipInv
<1>3. QED
  BY <1>1, <1>2, TypeInit, TypeNext, ShipNext, PTL DEF Spec

\* A bullet that hits the ship has not just left the screen.
LEMMA HitMeansActive ==
    ASSUME TypeOK, alienBullet.active, ShipHit(updateAlienBulletPosition(alienBullet))
    PROVE  updateAlienBulletPosition(alienBullet).active
<1> DEFINE y == alienBullet.y
<1>1. alienBullet \in [x : Int, y : Int, active : BOOLEAN]
  BY DEF TypeOK
<1>2. y \in Int
  BY <1>1
<1>3. CASE y + ALIEN_BULLET_SPEED + ALIEN_BULLET_HEIGHT >= BOTTOM
  <2>1. updateAlienBulletPosition(alienBullet) = [alienBullet EXCEPT !.active = FALSE]
    BY <1>3 DEF updateAlienBulletPosition
  <2>2. updateAlienBulletPosition(alienBullet).y = y
    BY <1>1, <2>1
  <2>3. SHIP_YPOS + SHIP_HEIGHT >= y + ALIEN_BULLET_HEIGHT
    BY <2>2 DEF ShipHit
  <2>4. QED
    BY <1>2, <1>3, <2>3, GeometryAssumption, BottomAssumption
<1>4. CASE ~(y + ALIEN_BULLET_SPEED + ALIEN_BULLET_HEIGHT >= BOTTOM)
  <2>1. updateAlienBulletPosition(alienBullet) = [alienBullet EXCEPT !.y = @ + ALIEN_BULLET_SPEED]
    BY <1>4 DEF updateAlienBulletPosition
  <2>2. QED
    BY <1>1, <2>1
<1>5. QED
  BY <1>3, <1>4

\* A life is lost only in the step that finds the alien bullet on the ship.
LEMMA LifeLostStep ==
    ASSUME TypeInv, ShipInv, [Next]_vars, ship'.lives < ship.lives
    PROVE  updateAlienBulletPosition(alienBullet).active
<1>1. ship.lives \in 1 .. NUMLIVES /\ ship \in Ship
  BY DEF ShipInv, LivesDrawable, TypeInv, TypeOK
<1>2. ship' # createShip /\ ship'.lives # ship.lives
  BY <1>1, NewShip, CountAssumption
<1>3. ASSUME AlienBulletFlies PROVE updateAlienBulletPosition(alienBullet).active
  <2> DEFINE b == updateAlienBulletPosition(alienBullet)
  <2>1. ship' = [ship EXCEPT !.lives = AfterCollision(b)] /\ alienBullet.active
    BY <1>3 DEF AlienBulletFlies
  <2>2. ship'.lives = AfterCollision(b)
    BY <1>1, <2>1 DEF Ship
  <2>3. ShipHit(b)
    BY <1>2, <2>2 DEF AfterCollision
  <2>4. QED
    BY <2>1, <2>3, HitMeansActive DEF TypeInv
<1>4. ~AlienBulletKills
  BY <1>2 DEF AlienBulletKills, BackToMenu
<1>5. \A move : ~updateShipPosition(move)
  BY <1>1, <1>2 DEF updateShipPosition, Ship
<1>6. ~AlienSurvives
  BY <1>2, TerritoryShip DEF AlienSurvives
<1>7. ASSUME NEW j, AlienKilled(j) PROVE FALSE
  <2> DEFINE s == [ship EXCEPT !.score = @ + Value(idx)]
  <2>1. ship' = s \/ ship' = createShip
    BY <1>7, TerritoryShip DEF AlienKilled
  <2>2. s.lives = ship.lives
    BY <1>1 DEF Ship
  <2> HIDE DEF s
  <2>3. QED
    BY <1>2, <2>1, <2>2
<1>8. ~(Quiet \/ ClickStart \/ KeyEscape \/ AlienDead \/ FrameEnd)
  BY <1>2 DEF Quiet, ClickStart, KeyEscape, AlienDead, FrameEnd
<1>9. ~(TimerPlaying \/ TimerNextRound \/ MoveShipBullet \/ Draw)
  BY <1>2 DEF TimerPlaying, TimerNextRound, MoveShipBullet, Draw
<1>10. \A next : ~ClickMenu(next)
  BY <1>2 DEF ClickMenu
<1>11. \A c : ~ClickShoot(c)
  BY <1>2 DEF ClickShoot
<1>12. \A i : ~createAlienBullet(i)
  BY <1>2 DEF createAlienBullet
<1>13. QED
  BY StepCases, <1>3, <1>4, <1>5, <1>6, <1>7, <1>8, <1>9, <1>10, <1>11, <1>12

\* The last life is lost in such a step too.
LEMMA LastLifeStep ==
    ASSUME TypeInv, ShipInv, [Next]_vars, pc = "alienBullet", gameState' # gameState
    PROVE  updateAlienBulletPosition(alienBullet).active
<1> DEFINE b == updateAlienBulletPosition(alienBullet)
<1>1. ~(Quiet \/ ClickStart \/ KeyEscape \/ TimerPlaying \/ TimerNextRound \/ MoveShipBullet \/ Draw)
  BY DEF Quiet, ClickStart, KeyEscape, TimerPlaying, TimerNextRound, MoveShipBullet, Draw
<1>2. \A x : ~(ClickMenu(x) \/ ClickShoot(x) \/ updateShipPosition(x) \/ createAlienBullet(x))
  BY DEF ClickMenu, ClickShoot, updateShipPosition, createAlienBullet
<1>3. ~(AlienBulletFlies \/ AlienDead \/ AlienSurvives \/ FrameEnd)
  BY DEF AlienBulletFlies, AlienDead, AlienSurvives, FrameEnd
<1>4. \A j : ~AlienKilled(j)
  BY DEF AlienKilled
<1>5. AlienBulletKills
  BY StepCases, <1>1, <1>2, <1>3, <1>4
<1>6. alienBullet.active /\ AfterCollision(b) = 0
  BY <1>5 DEF AlienBulletKills, ShipLost
<1>7. ship.lives \in 1 .. NUMLIVES
  BY DEF ShipInv, LivesDrawable
<1>8. ShipHit(b)
  BY <1>6, <1>7, CountAssumption DEF AfterCollision
<1>9. QED
  BY <1>6, <1>8, HitMeansActive DEF TypeInv

\* verifyShipAndBulletCollision does not ask whether the bullet is still active,
\* and need not: a bullet that has left the screen is below the ship.
THEOREM LifeLostTheorem == Spec => LifeLostToLiveBullet
<1>1. Init => ShipInv
  BY NewShip DEF Init, ShipInv, LivesDrawable, ShipOnScreen
<1>2. TypeInv /\ ShipInv /\ [Next]_vars =>
          [ship'.lives < ship.lives \/ (pc = "alienBullet" /\ gameState' # gameState)
             => updateAlienBulletPosition(alienBullet).active]_vars
  BY LifeLostStep, LastLifeStep
<1>3. QED
  BY <1>1, <1>2, TypeInit, TypeNext, ShipNext, PTL DEF Spec, LifeLostToLiveBullet

-------------------------------------------------------------------------------

\* What a step into the alien loop or back to the wait does to pc.
LEMMA AlienMovementPc ==
    ASSUME AlienMovement
    PROVE  pc' = "receive" \/ (pc' = "aliens" /\ idx' = 0)
BY ContinueType DEF AlienMovement

\* What the test of the territory does to the game state.
LEMMA TerritoryState ==
    ASSUME NEW a, NEW kills, NEW s, CheckTerritory(a, kills, s)
    PROVE  gameState' \in {gameState, "MENU_DISPLAY", "NEXT_ROUND"}
BY DEF CheckTerritory, BackToMenu

\* Where the program is says which game states are possible.
LEMMA ControlNext ==
    ASSUME TypeInv, Control, [Next]_vars
    PROVE  Control'
<1>1. ASSUME pc' \in Sections \cup {"done"} PROVE Control'
  BY <1>1 DEF Control, Sections
<1>2. Continue => pc' \in Sections
  BY ContinueType DEF Sections
<1>3. \A bits : GoOn(bits) => pc' \in Sections
  BY SectionType DEF GoOn
<1>4. Quiet => Control'
  BY <1>1 DEF Quiet, Control
<1>5. ClickStart => Control'
  BY <1>1, <1>3 DEF ClickStart
<1>6. \A next : ClickMenu(next) => Control'
  BY <1>1, <1>3 DEF ClickMenu
<1>7. \A c : ClickShoot(c) => Control'
  BY <1>1, <1>3 DEF ClickShoot
<1>8. KeyEscape => Control'
  BY <1>1, <1>2 DEF KeyEscape
<1>9. \A move : updateShipPosition(move) => Control'
  BY <1>1, <1>3 DEF updateShipPosition
<1>10. TimerPlaying => Control'
  BY DEF TimerPlaying, Control
<1>11. TimerNextRound \/ FrameEnd \/ AlienBulletKills => Control'
  BY <1>1, <1>2 DEF TimerNextRound, FrameEnd, AlienBulletKills
<1>12. MoveShipBullet \/ Draw => Control'
  BY DEF MoveShipBullet, Draw, Control
<1>13. \A i : createAlienBullet(i) => Control'
  BY AlienMovementPc DEF createAlienBullet, Control
<1>14. AlienBulletFlies => Control'
  BY AlienMovementPc DEF AlienBulletFlies, Control
<1>15. AlienDead => Control'
  BY DEF AlienDead, NextAlien, Control
<1>16. AlienSurvives => Control'
  BY TerritoryState DEF AlienSurvives, NextAlien, Control
<1>17. \A j : AlienKilled(j) => Control'
  BY TerritoryState DEF AlienKilled, NextAlien, Control
<1>18. QED
  BY SMTT(30), StepCases, <1>4, <1>5, <1>6, <1>7, <1>8, <1>9, <1>10, <1>11, <1>12, <1>13,
     <1>14, <1>15, <1>16, <1>17

-------------------------------------------------------------------------------

\* The number of aliens, and of dead ones.
LEMMA DeadCount ==
    /\ IsFiniteSet(Aliens) /\ Cardinality(Aliens) = SIZE_OF_ALIENS
    /\ IsFiniteSet(Dead) /\ Cardinality(Dead) \in Nat
    /\ Cardinality(Dead) = SIZE_OF_ALIENS <=> \A i \in Aliens : ~aliens[i].alive
<1>1. IsFiniteSet(Aliens) /\ Cardinality(Aliens) = SIZE_OF_ALIENS
  BY FS_Interval, CountAssumption DEF Aliens
<1>2. Dead \in SUBSET Aliens
  BY DEF Dead
<1>3. IsFiniteSet(Dead) /\ (Cardinality(Aliens) = Cardinality(Dead) => Aliens = Dead)
  BY <1>1, <1>2, FS_Subset
<1>4. Cardinality(Dead) \in Nat
  BY <1>3, FS_CardinalityType
<1>5. Aliens = Dead <=> \A i \in Aliens : ~aliens[i].alive
  BY DEF Dead
<1>6. QED
  BY <1>1, <1>3, <1>4, <1>5

\* A formation without a dead alien.
LEMMA FreshFormation ==
    ASSUME NEW s, initGame(s)
    PROVE  Dead' = {} /\ killCount' = 0 /\ gameState' = "PLAYING"
BY DEF initGame, createAlien, Dead

\* The alien the loop is at is killed.
LEMMA OneMoreDead ==
    ASSUME TypeInv, NEW j \in Slots, AlienKilled(j)
    PROVE  /\ Dead' = Dead \cup {idx} /\ idx \notin Dead
           /\ Cardinality(Dead') = Cardinality(Dead) + 1
<1> DEFINE a == Moved(aliens[idx])
           d == [a EXCEPT !.alive = FALSE]
<1>1. idx \in Aliens
  BY CountAssumption DEF AlienKilled, TypeInv, LoopIndex, TypeOK, Aliens
<1>2. a \in Alien
  BY <1>1, MovedType DEF TypeInv, TypeOK
<1>3. aliens' = [aliens EXCEPT ![idx] = d] /\ aliens[idx].alive
  BY DEF AlienKilled
<1> HIDE DEF a
<1>4. ~d.alive
  BY <1>2 DEF Alien
<1> HIDE DEF d
<1>5. aliens'[idx] = d /\ \A i \in Aliens : i # idx => aliens'[i] = aliens[i]
  BY <1>1, <1>3 DEF TypeInv, TypeOK
<1>6. Dead' = Dead \cup {idx} /\ idx \notin Dead
  BY <1>1, <1>3, <1>4, <1>5 DEF Dead
<1>7. QED
  BY Zenon, <1>6, DeadCount, FS_AddElement

\* The alien the loop is at moves and lives.
LEMMA NoMoreDead ==
    ASSUME TypeInv, AlienSurvives
    PROVE  Dead' = Dead /\ \A i \in Aliens : aliens'[i].alive = aliens[i].alive
<1> DEFINE a == Moved(aliens[idx])
<1>1. idx \in Aliens
  BY CountAssumption DEF AlienSurvives, TypeInv, LoopIndex, TypeOK, Aliens
<1>2. a.alive = aliens[idx].alive
  BY <1>1, MovedType DEF TypeInv, TypeOK
<1>3. aliens' = [aliens EXCEPT ![idx] = a]
  BY DEF AlienSurvives
<1> HIDE DEF a
<1>4. \A i \in Aliens : aliens'[i].alive = aliens[i].alive
  BY <1>1, <1>2, <1>3 DEF TypeInv, TypeOK
<1>5. QED
  BY <1>4 DEF Dead

\* The drop at a border leaves the living and the dead as they are.
LEMMA DropKeepsDead ==
    ASSUME TypeInv, FrameEnd
    PROVE  Dead' = Dead
<1>1. ASSUME NEW i \in Aliens PROVE change_all_y(aliens)[i].alive = aliens[i].alive
  <2>1. aliens[i] \in Alien
    BY DEF TypeInv, TypeOK
  <2>2. [aliens[i] EXCEPT !.y = @ + ALIEN_DROP].alive = aliens[i].alive
    BY <2>1 DEF Alien
  <2>3. QED
    BY Zenon, <2>2 DEF change_all_y
<1>2. \A i \in Aliens : aliens'[i].alive = aliens[i].alive
  BY <1>1 DEF FrameEnd
<1>3. QED
  BY <1>2 DEF Dead

\* The kills of the game under way, and what they say about the round.
KillInv == KillCountExact /\ RoundOpen

\* The end of the round is found by the step that kills the last alien, so an
\* alien that is alive belongs to a round that is not over.
LEMMA AliveMeansOpen ==
    ASSUME TypeInv, KillInv, Control, pc = "aliens", aliens[idx].alive
    PROVE  killCount # SIZE_OF_ALIENS /\ gameState \in {"PLAYING", "MENU_DISPLAY"}
<1>1. idx \in Aliens
  BY CountAssumption DEF TypeInv, LoopIndex, TypeOK, Aliens
<1>2. killCount = Cardinality(Dead)
  BY DEF KillInv, KillCountExact, InGame, Dead
<1>3. killCount # SIZE_OF_ALIENS
  BY <1>1, <1>2, DeadCount
<1>4. QED
  BY <1>3 DEF Control, KillInv, RoundOpen

\* Every step keeps the count exact and the round open until all are dead.
LEMMA KillNext ==
    ASSUME TypeInv, KillInv, Control, [Next]_vars
    PROVE  KillInv'
<1>1. ASSUME UNCHANGED <<gameState, aliens, killCount>>, InGame' => InGame PROVE KillInv'
  BY <1>1 DEF KillInv, KillCountExact, RoundOpen
<1>2. ASSUME UNCHANGED <<aliens, killCount>>, InGame' => InGame,
             gameState' \notin {"PLAYING", "NEXT_ROUND"}
      PROVE  KillInv'
  BY <1>2 DEF KillInv, KillCountExact, RoundOpen
<1>3. ASSUME NEW s, initGame(s) PROVE KillInv'
  BY <1>3, FreshFormation, FS_EmptySet, CountAssumption
     DEF KillInv, KillCountExact, RoundOpen, Dead
<1>4. ASSUME pc' \in Sections \cup {"done"}, gameState' = gameState PROVE InGame' => InGame
  BY <1>4 DEF InGame, Sections
<1>5. \A bits : GoOn(bits) => pc' \in Sections
  BY SectionType DEF GoOn
<1>6. Continue => pc' \in Sections
  BY <1>5 DEF Continue
<1>7. Quiet => KillInv'
  BY <1>1, <1>4 DEF Quiet, InGame
<1>8. ClickStart \/ TimerNextRound => KillInv'
  BY <1>3 DEF ClickStart, TimerNextRound
<1>9. ASSUME NEW next \in {"INSTRUCTIONS_DISPLAY", "EXIT", "MENU_DISPLAY"}, ClickMenu(next)
      PROVE  KillInv'
  <2>1. pc' \in Sections /\ gameState' = next
    BY <1>5, <1>9 DEF ClickMenu
  <2>2. ~InGame'
    BY <2>1 DEF InGame, Sections
  <2>3. QED
    BY <1>2, <1>9, <2>1, <2>2 DEF ClickMenu, alienVars
<1>10. ASSUME NEW c, ClickShoot(c) PROVE KillInv'
  BY <1>1, <1>4, <1>5, <1>10 DEF ClickShoot, alienVars
<1>11. ASSUME KeyEscape PROVE KillInv'
  <2>1. ~InGame' /\ gameState' = "EXIT"
    BY <1>6, <1>11 DEF KeyEscape, InGame, Sections
  <2>2. QED
    BY <1>2, <1>11, <2>1 DEF KeyEscape, alienVars
<1>12. ASSUME NEW move, updateShipPosition(move) PROVE KillInv'
  BY <1>1, <1>4, <1>5, <1>12 DEF updateShipPosition, alienVars
<1>13. TimerPlaying \/ MoveShipBullet \/ Draw => KillInv'
  BY <1>1 DEF TimerPlaying, MoveShipBullet, Draw, alienVars, InGame
<1>14. ASSUME NEW i, createAlienBullet(i) PROVE KillInv'
  <2>1. InGame
    BY <1>14 DEF createAlienBullet, Control, InGame
  <2>2. QED
    BY <1>1, <1>14, <2>1 DEF createAlienBullet
<1>15. ASSUME AlienBulletFlies PROVE KillInv'
  <2>1. InGame
    BY <1>15 DEF AlienBulletFlies, Control, InGame
  <2>2. QED
    BY <1>1, <1>15, <2>1 DEF AlienBulletFlies
<1>16. ASSUME AlienBulletKills PROVE KillInv'
  <2>1. InGame /\ gameState' = "MENU_DISPLAY"
    BY <1>16 DEF AlienBulletKills, BackToMenu, Control, InGame
  <2>2. QED
    BY <1>2, <1>16, <2>1 DEF AlienBulletKills
<1>17. ASSUME AlienDead PROVE KillInv'
  <2>1. InGame
    BY <1>17 DEF AlienDead, InGame
  <2>2. QED
    BY <1>1, <1>17, <2>1 DEF AlienDead
<1>18. ASSUME AlienSurvives PROVE KillInv'
  <2>1. killCount' = killCount /\ killCount = Cardinality(Dead')
    BY Zenon, <1>18, NoMoreDead DEF AlienSurvives, KillInv, KillCountExact, InGame, Dead
  <2>2. killCount # SIZE_OF_ALIENS
    BY <1>18, AliveMeansOpen DEF AlienSurvives
  <2>3. gameState' # "NEXT_ROUND"
    BY <1>18, <2>2, AliveMeansOpen DEF AlienSurvives, CheckTerritory, RoundCleared, BackToMenu
  <2>4. QED
    BY <2>1, <2>2, <2>3 DEF KillInv, KillCountExact, RoundOpen, Dead
<1>19. ASSUME NEW j \in Slots, AlienKilled(j) PROVE KillInv'
  <2>1. killCount' = killCount + 1 /\ killCount' = Cardinality(Dead')
    BY <1>19, OneMoreDead DEF AlienKilled, KillInv, KillCountExact, InGame, Dead
  <2>2. gameState' = "NEXT_ROUND" => killCount' = SIZE_OF_ALIENS
    BY <1>19, <2>1, AliveMeansOpen DEF AlienKilled, CheckTerritory, RoundCleared, BackToMenu
  <2>3. gameState' = "PLAYING" => killCount' # SIZE_OF_ALIENS
    BY <1>19, <2>1 DEF AlienKilled, CheckTerritory, RoundCleared, BackToMenu
  <2>4. QED
    BY <2>1, <2>2, <2>3 DEF KillInv, KillCountExact, RoundOpen, Dead
<1>20. ASSUME FrameEnd PROVE KillInv'
  BY Zenon, <1>20, DropKeepsDead DEF FrameEnd, KillInv, KillCountExact, RoundOpen, InGame, Dead
<1>21. QED
  BY StepCases, <1>7, <1>8, <1>9, <1>10, <1>11, <1>12, <1>13, <1>14, <1>15, <1>16,
     <1>17, <1>18, <1>19, <1>20

\* Before the first game nothing has been killed and no game is under way.
LEMMA KillInit == Init => KillInv /\ Control
BY DEF Init, KillInv, KillCountExact, RoundOpen, InGame, Control

\* killCount is the number of dead aliens whenever a game is under way, in the
\* middle of the alien loop and after a crossing too.
THEOREM KillCountTheorem == Spec => []KillCountExact
<1>1. KillInv => KillCountExact
  BY DEF KillInv
<1>2. QED
  BY <1>1, KillInit, TypeInit, TypeNext, ControlNext, KillNext, PTL DEF Spec

\* In a round some alien is alive, so generateAlienBullet finds one.
THEOREM AlienToShootTheorem == Spec => []AlienToShoot
<1>1. KillInv => AlienToShoot
  <2> SUFFICES ASSUME KillInv, gameState = "PLAYING" PROVE \E i \in Aliens : aliens[i].alive
    BY DEF AlienToShoot
  <2>1. killCount = Cardinality(Dead) /\ killCount # SIZE_OF_ALIENS
    BY DEF KillInv, KillCountExact, RoundOpen, InGame, Dead
  <2>2. QED
    BY <2>1, DeadCount
<1>2. QED
  BY <1>1, KillInit, TypeInit, TypeNext, ControlNext, KillNext, PTL DEF Spec

-------------------------------------------------------------------------------

MenuInv == MenuFresh /\ PlayingSpeed

\* What the end of a game leaves is what the menu promises.
LEMMA BackToMenuFresh ==
    ASSUME BackToMenu
    PROVE  /\ gameState' = "MENU_DISPLAY" /\ roundNum' = 0 /\ ship'.lives = NUMLIVES
           /\ MenuInv'
BY NewShip DEF BackToMenu, MenuInv, MenuFresh, PlayingSpeed

\* The test of the territory, given a ship with the lives of the present one.
LEMMA TerritoryMenu ==
    ASSUME MenuInv, NEW a, NEW kills, NEW s, s.lives = ship.lives, CheckTerritory(a, kills, s)
    PROVE  MenuInv'
BY BackToMenuFresh DEF CheckTerritory, MenuInv, MenuFresh, PlayingSpeed

\* Every step keeps the menu fresh and the speed that of the round.
LEMMA MenuNext ==
    ASSUME TypeInv, MenuInv, Control, [Next]_vars
    PROVE  MenuInv'
<1>1. ASSUME UNCHANGED <<gameState, roundNum, ship, speed>> PROVE MenuInv'
  BY <1>1 DEF MenuInv, MenuFresh, PlayingSpeed
<1>2. ASSUME gameState = "PLAYING", gameState' = "PLAYING", UNCHANGED <<roundNum, speed>>
      PROVE  MenuInv'
  BY <1>2 DEF MenuInv, MenuFresh, PlayingSpeed
<1>3. Quiet => MenuInv'
  BY <1>1 DEF Quiet
<1>4. ASSUME ClickStart PROVE MenuInv'
  <2>1. roundNum = 0 /\ roundNum' = 0 /\ gameState' = "PLAYING"
    BY <1>4 DEF ClickStart, initGame, MenuInv, MenuFresh
  <2>2. speed' = INITIAL_ALIEN_SPEED + 2 * roundNum
    BY <1>4 DEF ClickStart, initGame
  <2>3. QED
    BY <2>1, <2>2, GeometryAssumption DEF MenuInv, MenuFresh, PlayingSpeed
<1>5. \A next : ClickMenu(next) => MenuInv'
  BY DEF ClickMenu, MenuInv, MenuFresh, PlayingSpeed
<1>6. \A c : ClickShoot(c) => MenuInv'
  BY <1>1 DEF ClickShoot, alienVars
<1>7. KeyEscape => MenuInv'
  BY DEF KeyEscape, MenuInv, MenuFresh, PlayingSpeed
<1>8. \A move : updateShipPosition(move) => MenuInv'
  BY <1>2 DEF updateShipPosition, alienVars
<1>9. TimerPlaying \/ MoveShipBullet \/ Draw => MenuInv'
  BY <1>1 DEF TimerPlaying, MoveShipBullet, Draw, alienVars
<1>10. TimerNextRound => MenuInv'
  BY DEF TimerNextRound, initGame, NextSpeed, MenuInv, MenuFresh, PlayingSpeed
<1>11. \A i : createAlienBullet(i) => MenuInv'
  BY <1>1 DEF createAlienBullet
<1>12. AlienBulletFlies => MenuInv'
  BY <1>2 DEF AlienBulletFlies, Control
<1>13. AlienBulletKills => MenuInv'
  BY BackToMenuFresh DEF AlienBulletKills
<1>14. AlienDead \/ FrameEnd => MenuInv'
  BY <1>1 DEF AlienDead, FrameEnd
<1>15. AlienSurvives => MenuInv'
  BY TerritoryMenu DEF AlienSurvives
<1>16. ASSUME NEW j \in Slots, AlienKilled(j) PROVE MenuInv'
  <2> DEFINE s == [ship EXCEPT !.score = @ + Value(idx)]
  <2>1. s.lives = ship.lives
    BY DEF TypeInv, TypeOK, Ship
  <2>2. CheckTerritory(Moved(aliens[idx]), killCount + 1, s)
    BY <1>16 DEF AlienKilled
  <2> HIDE DEF s
  <2>3. QED
    BY <2>1, <2>2, TerritoryMenu
<1>17. QED
  BY StepCases, <1>3, <1>4, <1>5, <1>6, <1>7, <1>8, <1>9, <1>10, <1>11, <1>12, <1>13,
     <1>14, <1>15, <1>16

\* The program starts at a fresh menu.
LEMMA MenuInit == Init => MenuInv
BY NewShip DEF Init, MenuInv, MenuFresh, PlayingSpeed

\* The aliens of round n of a game move by INITIAL_ALIEN_SPEED + n, although
\* initGame computes another speed and every game but the first starts with
\* what the last one left.
THEOREM SpeedTheorem == Spec => []PlayingSpeed
<1>1. MenuInv => PlayingSpeed
  BY DEF MenuInv
<1>2. QED
  BY <1>1, MenuInit, KillInit, TypeInit, TypeNext, ControlNext, MenuNext, PTL DEF Spec

-------------------------------------------------------------------------------
(***************************************************************************)
(* Game implements GameFlow: what the player sees of screens, rounds and   *)
(* lives is a behaviour of the abstract specification.  The step that      *)
(* needs an argument is the one that clears a round: after a crossing the  *)
(* alien loop goes on in MENU_DISPLAY, and nothing in the code keeps it    *)
(* from going on to NEXT_ROUND.  It cannot, because the ship has one       *)
(* bullet at a time (CrossingFinal).                                       *)
(***************************************************************************)

\* What the refinement needs to know about a state.
FlowInv ==
    /\ TypeInv
    /\ OneBullet
    /\ ShipInv
    /\ Control
    /\ KillInv
    /\ MenuInv
    /\ CrossingFinal

\* After a kill no slot holds a bullet in flight: all of them hold the spent one.
LEMMA SpentEverywhere ==
    ASSUME TypeInv, OneBullet, NEW j \in Slots, AlienKilled(j)
    PROVE  \A i \in Slots : ~InFlight(shipBullets[i])'
<1> DEFINE p == shipBullets[j]
           d == [heap[p] EXCEPT !.hitAlien = TRUE]
<1>1. p \in Chunks /\ heap[p] \in Bullet
  BY DEF AlienKilled, Hits, InFlight, TypeInv, TypeOK, SBTypeOK
<1>2. d.hitAlien
  BY <1>1 DEF Bullet
<1>3. heap' = [heap EXCEPT ![p] = d] /\ shipBullets' = shipBullets
  BY DEF AlienKilled, spendBullet
<1> HIDE DEF d
<1>4. heap'[p] = d
  BY <1>1, <1>3 DEF TypeInv, TypeOK, SBTypeOK
<1>5. QED
  BY <1>2, <1>3, <1>4 DEF InFlight, OneBullet

\* A crossing in the alien loop is final.
LEMMA CrossingNext ==
    ASSUME FlowInv, [Next]_vars
    PROVE  CrossingFinal'
<1> USE DEF FlowInv
<1>1. ASSUME pc' # "aliens" PROVE CrossingFinal'
  BY <1>1 DEF CrossingFinal
<1>2. \A bits : GoOn(bits) => pc' # "aliens"
  BY SectionType DEF GoOn, Sections
<1>3. Continue => pc' # "aliens"
  BY ContinueType
<1>4. Quiet => CrossingFinal'
  BY DEF Quiet, CrossingFinal, Sections, sbVars, InFlight
<1>5. ClickStart => CrossingFinal'
  BY <1>1, <1>2 DEF ClickStart
<1>6. \A next : ClickMenu(next) => CrossingFinal'
  BY <1>1, <1>2 DEF ClickMenu
<1>7. \A c : ClickShoot(c) => CrossingFinal'
  BY <1>1, <1>2 DEF ClickShoot
<1>8. \A move : updateShipPosition(move) => CrossingFinal'
  BY <1>1, <1>2 DEF updateShipPosition
<1>9. KeyEscape \/ TimerNextRound \/ AlienBulletKills \/ FrameEnd => CrossingFinal'
  BY <1>1, <1>3 DEF KeyEscape, TimerNextRound, AlienBulletKills, FrameEnd
<1>10. TimerPlaying \/ MoveShipBullet \/ Draw => CrossingFinal'
  BY SMTT(30), <1>1 DEF TimerPlaying, MoveShipBullet, Draw
<1>11. \A i : createAlienBullet(i) => CrossingFinal'
  BY DEF createAlienBullet, Control, CrossingFinal
<1>12. AlienBulletFlies => CrossingFinal'
  BY DEF AlienBulletFlies, Control, CrossingFinal
<1>13. ASSUME AlienDead PROVE CrossingFinal'
  <2>1. /\ pc = "aliens" /\ idx' = idx + 1 /\ idx \in Nat
        /\ UNCHANGED <<gameState, aliens, shipBullets, heap>>
    BY <1>13 DEF AlienDead, NextAlien, sbVars, TypeInv, TypeOK
  <2>2. \A k \in 0 .. idx - 1 : k \in 0 .. idx' - 1
    BY <2>1
  <2>3. QED
    BY <2>1, <2>2 DEF CrossingFinal, InFlight
<1>14. ASSUME AlienSurvives PROVE CrossingFinal'
  <2>1. idx \in Aliens /\ idx' = idx + 1
    BY <1>14, CountAssumption DEF AlienSurvives, NextAlien, TypeInv, LoopIndex, TypeOK, Aliens
  <2>2. idx \in 0 .. idx' - 1 /\ aliens'[idx].alive
    BY SMTT(30), <1>14, <2>1, NoMoreDead DEF AlienSurvives, Aliens
  <2>3. QED
    BY <2>2 DEF CrossingFinal
<1>15. ASSUME NEW j \in Slots, AlienKilled(j) PROVE CrossingFinal'
  BY <1>15, SpentEverywhere DEF CrossingFinal, InFlight
<1>16. QED
  BY SMTT(30), StepCases, <1>4, <1>5, <1>6, <1>7, <1>8, <1>9, <1>10, <1>11, <1>12, <1>13,
     <1>14, <1>15

\* The invariant of the refinement is inductive.
LEMMA FlowInvNext == FlowInv /\ [Next]_vars => FlowInv'
BY TypeNext, OneBulletNext, ShipNext, ControlNext, KillNext, MenuNext, CrossingNext
   DEF FlowInv

\* It holds before the first message.
LEMMA FlowInvInit == Init => FlowInv
<1>1. Init => OneBullet
  BY DEF Init, SBInit, initShipBullets, OneBullet
<1>2. Init => ShipInv
  BY NewShip DEF Init, ShipInv, LivesDrawable, ShipOnScreen
<1>3. Init => CrossingFinal
  BY DEF Init, CrossingFinal
<1>4. QED
  BY SMTT(30), <1>1, <1>2, <1>3, TypeInit, KillInit, MenuInit DEF FlowInv

\* What is known of the loop body in every state: a game lost in the middle of
\* the alien loop stays lost, a round won there stays won, and no screen is
\* shown with the round, the lives or the speed of another.
THEOREM LoopInvTheorem == Spec => []LoopInv
<1>1. FlowInv => LoopInv
  BY DEF FlowInv, LoopInv, TypeInv, KillInv, MenuInv
<1>2. QED
  BY <1>1, FlowInvInit, FlowInvNext, PTL DEF Spec

\* A round is never cleared after a crossing: the loop that has gone to the menu
\* does not find killCount at SIZE_OF_ALIENS.
LEMMA NoClearAfterCrossing ==
    ASSUME FlowInv, NEW j \in Slots, AlienKilled(j), RoundCleared(killCount + 1)
    PROVE  gameState = "PLAYING"
<1> USE DEF FlowInv
<1>1. SUFFICES ASSUME gameState = "MENU_DISPLAY" PROVE FALSE
  BY AliveMeansOpen DEF AlienKilled
<1>2. InFlight(shipBullets[j])
  BY DEF AlienKilled, Hits
<1>3. PICK k \in 0 .. idx - 1 : aliens[k].alive
  BY <1>1, <1>2 DEF CrossingFinal, AlienKilled
<1>4. k \in Aliens /\ k # idx
  BY SMTT(30), CountAssumption DEF AlienKilled, TypeInv, LoopIndex, TypeOK, Aliens
<1>5. Dead' = Dead \cup {idx} /\ killCount + 1 = Cardinality(Dead')
  BY OneMoreDead DEF AlienKilled, KillInv, KillCountExact, InGame, Dead
<1>6. Dead' \in SUBSET Aliens /\ k \notin Dead'
  BY <1>3, <1>4, <1>5, OneMoreDead DEF Dead
<1>7. Cardinality(Aliens) = Cardinality(Dead')
  BY <1>5, DeadCount DEF RoundCleared
<1>8. Aliens = Dead'
  BY ZenonT(40), <1>6, <1>7, DeadCount, FS_Subset
<1>9. QED
  BY <1>4, <1>6, <1>8

-------------------------------------------------------------------------------

\* A step of Game as GameFlow sees it.
FlowStep == Flow!FlowNext \/ UNCHANGED Flow!flowVars

\* The step that tests the territory, with a ship that has the present lives.
LEMMA TerritoryFlow ==
    ASSUME FlowInv, NEW a, NEW kills, NEW s, s.lives = ship.lives,
           gameState \in {"PLAYING", "MENU_DISPLAY"},
           RoundCleared(kills) => gameState = "PLAYING",
           CheckTerritory(a, kills, s)
    PROVE  FlowStep
<1>1. CASE BackToMenu
  <2>1. gameState' = "MENU_DISPLAY" /\ roundNum' = 0 /\ ship'.lives = NUMLIVES
    BY <1>1, BackToMenuFresh
  <2>2. CASE gameState = "PLAYING"
    BY <2>1, <2>2 DEF FlowStep, Flow!FlowNext, Flow!GameOver, Flow!Go
  <2>3. CASE gameState = "MENU_DISPLAY"
    BY <2>1, <2>3 DEF FlowStep, Flow!flowVars, FlowInv, MenuInv, MenuFresh
  <2>4. QED
    BY <2>2, <2>3
<1>2. CASE /\ RoundCleared(kills) /\ gameState' = "NEXT_ROUND"
           /\ roundNum' = roundNum + 1 /\ ship' = s
  BY <1>2 DEF FlowStep, Flow!FlowNext, Flow!ClearRound, Flow!Go
<1>3. CASE ship' = s /\ UNCHANGED <<roundNum, gameState>>
  BY <1>3 DEF FlowStep, Flow!flowVars
<1>4. QED
  BY <1>1, <1>2, <1>3 DEF CheckTerritory

\* Every step of Game is a step of GameFlow or changes nothing it talks about.
LEMMA FlowSimulation ==
    ASSUME FlowInv, [Next]_vars
    PROVE  FlowStep
<1> USE DEF FlowInv
<1>1. ASSUME UNCHANGED <<gameState, roundNum, ship>> PROVE FlowStep
  BY <1>1 DEF FlowStep, Flow!flowVars
<1>2. Quiet => FlowStep
  BY <1>1 DEF Quiet
<1>3. ASSUME ClickStart PROVE FlowStep
  <2>1. gameState = "MENU_DISPLAY" /\ gameState' = "PLAYING" /\ UNCHANGED <<roundNum, ship>>
    BY <1>3 DEF ClickStart, initGame
  <2>2. roundNum = 0 /\ ship.lives = NUMLIVES
    BY <2>1 DEF MenuInv, MenuFresh
  <2>3. QED
    BY <2>1, <2>2 DEF FlowStep, Flow!FlowNext, Flow!Start, Flow!Go
<1>4. ASSUME NEW next, ClickMenu(next) PROVE FlowStep
  BY <1>4 DEF ClickMenu, FlowStep, Flow!FlowNext, Flow!Instructions, Flow!Exit, Flow!Go
<1>5. \A c : ClickShoot(c) => FlowStep
  BY <1>1 DEF ClickShoot
<1>6. ASSUME KeyEscape PROVE FlowStep
  <2>1. gameState' = "EXIT" /\ UNCHANGED <<roundNum, ship>>
    BY <1>6 DEF KeyEscape
  <2>2. QED
    BY <2>1 DEF FlowStep, Flow!FlowNext, Flow!Exit, Flow!flowVars
<1>7. ASSUME NEW move, updateShipPosition(move) PROVE FlowStep
  <2>1. ship'.lives = ship.lives
    BY <1>7 DEF updateShipPosition, TypeInv, TypeOK, Ship
  <2>2. QED
    BY <1>7, <2>1 DEF updateShipPosition, FlowStep, Flow!flowVars
<1>8. TimerPlaying \/ MoveShipBullet \/ Draw => FlowStep
  BY <1>1 DEF TimerPlaying, MoveShipBullet, Draw
<1>9. ASSUME TimerNextRound PROVE FlowStep
  BY <1>9 DEF TimerNextRound, initGame, FlowStep, Flow!FlowNext, Flow!NextRound, Flow!Go
<1>10. \A i : createAlienBullet(i) => FlowStep
  BY <1>1 DEF createAlienBullet
<1>11. ASSUME AlienBulletFlies PROVE FlowStep
  <2> DEFINE n == AfterCollision(updateAlienBulletPosition(alienBullet))
  <2>1. /\ gameState = "PLAYING" /\ UNCHANGED <<gameState, roundNum>>
        /\ ship' = [ship EXCEPT !.lives = n] /\ n # 0
    BY <1>11 DEF AlienBulletFlies, ShipLost, Control
  <2>2. n = ship.lives \/ n = ship.lives - 1
    BY DEF AfterCollision
  <2> HIDE DEF n
  <2>3. ship'.lives = n
    BY <2>1 DEF TypeInv, TypeOK, Ship
  <2>4. CASE n = ship.lives
    BY <2>1, <2>3, <2>4 DEF FlowStep, Flow!flowVars
  <2>5. CASE n = ship.lives - 1
    <3>1. ship.lives > 1
      BY <2>1, <2>5 DEF ShipInv, LivesDrawable
    <3>2. QED
      BY <2>1, <2>3, <2>5, <3>1 DEF FlowStep, Flow!FlowNext, Flow!LoseLife
  <2>6. QED
    BY <2>2, <2>4, <2>5
<1>12. ASSUME AlienBulletKills PROVE FlowStep
  <2>1. gameState = "PLAYING" /\ BackToMenu
    BY <1>12 DEF AlienBulletKills, Control
  <2>2. gameState' = "MENU_DISPLAY" /\ roundNum' = 0 /\ ship'.lives = NUMLIVES
    BY <2>1, BackToMenuFresh
  <2>3. QED
    BY <2>1, <2>2 DEF FlowStep, Flow!FlowNext, Flow!GameOver, Flow!Go
<1>13. AlienDead \/ FrameEnd => FlowStep
  BY <1>1 DEF AlienDead, FrameEnd
<1>14. ASSUME AlienSurvives PROVE FlowStep
  <2>1. killCount # SIZE_OF_ALIENS /\ gameState \in {"PLAYING", "MENU_DISPLAY"}
    BY SMTT(30), <1>14, AliveMeansOpen DEF AlienSurvives
  <2>2. QED
    BY <1>14, <2>1, TerritoryFlow DEF AlienSurvives, RoundCleared
<1>15. ASSUME NEW j \in Slots, AlienKilled(j) PROVE FlowStep
  <2> DEFINE s == [ship EXCEPT !.score = @ + Value(idx)]
  <2>1. s.lives = ship.lives
    BY DEF TypeInv, TypeOK, Ship
  <2>2. CheckTerritory(Moved(aliens[idx]), killCount + 1, s)
    BY <1>15 DEF AlienKilled
  <2>3. gameState \in {"PLAYING", "MENU_DISPLAY"}
    BY <1>15, AliveMeansOpen DEF AlienKilled
  <2>4. RoundCleared(killCount + 1) => gameState = "PLAYING"
    BY <1>15, NoClearAfterCrossing
  <2> HIDE DEF s
  <2>5. QED
    BY <2>1, <2>2, <2>3, <2>4, TerritoryFlow
<1>16. QED
  BY SMTT(30), StepCases, <1>2, <1>3, <1>4, <1>5, <1>6, <1>7, <1>8, <1>9, <1>10, <1>11, <1>12,
     <1>13, <1>14, <1>15

\* The program, with its interrupts, loops and bullets, is an implementation of
\* the game the player is promised: a round is left only cleared or lost, lives
\* go down one by one and never come back within a game, and a game starts in
\* round 0 with all its lives.
THEOREM FlowTheorem == Spec => FlowSpec
<1>1. Init => Flow!FlowInit
  BY NewShip DEF Init, Flow!FlowInit
<1>2. FlowInv /\ [Next]_vars => [Flow!FlowNext]_(Flow!flowVars)
  BY FlowSimulation DEF FlowStep
<1>3. QED
  BY <1>1, <1>2, FlowInvInit, FlowInvNext, PTL DEF Spec, FlowSpec, Flow!FlowSpec

-------------------------------------------------------------------------------
(***************************************************************************)
(* The score.  In a game the part of it that the kills of the game do not  *)
(* account for never changes; it is settled between the crossing that ends *)
(* the game before and the end of that frame.                              *)
(***************************************************************************)

InRound == gameState \in {"PLAYING", "NEXT_ROUND"}

\* One alien more adds one to the number of those with its value.
LEMMA WorthMore ==
    ASSUME NEW S \in SUBSET Aliens, NEW i \in Aliens \ S, NEW v
    PROVE  /\ Cardinality({k \in S : Value(k) = v}) \in Nat
           /\ Cardinality({k \in S \cup {i} : Value(k) = v})
                = Cardinality({k \in S : Value(k) = v}) + (IF Value(i) = v THEN 1 ELSE 0)
<1> DEFINE T == {k \in S : Value(k) = v}
<1>1. T \in SUBSET Aliens /\ i \notin T
  OBVIOUS
<1>2. IsFiniteSet(T) /\ Cardinality(T) \in Nat
  BY <1>1, DeadCount, FS_Subset, FS_CardinalityType
<1>3. CASE Value(i) = v
  <2>1. {k \in S \cup {i} : Value(k) = v} = T \cup {i}
    BY <1>3
  <2>2. Cardinality(T \cup {i}) = Cardinality(T) + 1
    BY <1>1, <1>2, FS_AddElement
  <2>3. QED
    BY <1>2, <1>3, <2>1, <2>2
<1>4. CASE Value(i) # v
  <2>1. {k \in S \cup {i} : Value(k) = v} = T
    BY <1>4
  <2>2. QED
    BY <1>2, <1>4, <2>1
<1>5. QED
  BY <1>3, <1>4

LEMMA SumOfWorths ==
    ASSUME NEW a \in Nat, NEW b \in Nat, NEW c \in Nat, NEW d \in Nat, NEW e \in Nat, NEW f \in Nat
    PROVE  30 * (a + d) + 20 * (b + e) + 10 * (c + f)
             = (30 * a + 20 * b + 10 * c) + (30 * d + 20 * e + 10 * f)
OBVIOUS

\* The points of a set of aliens grow by the value of the alien put into it.
LEMMA PointsMore ==
    ASSUME NEW S \in SUBSET Aliens, NEW i \in Aliens \ S
    PROVE  Points(S \cup {i}) = Points(S) + Value(i)
<1> DEFINE Worth(T, v) == Cardinality({k \in T : Value(k) = v})
           Inc(v) == IF Value(i) = v THEN 1 ELSE 0
<1>1. \A T : Points(T) = 30 * Worth(T, 30) + 20 * Worth(T, 20) + 10 * Worth(T, 10)
  BY DEF Points
<1>2. \A v : Worth(S, v) \in Nat /\ Worth(S \cup {i}, v) = Worth(S, v) + Inc(v)
  BY Zenon, WorthMore
<1>3. Value(i) = 30 * Inc(30) + 20 * Inc(20) + 10 * Inc(10) /\ \A v : Inc(v) \in Nat
  BY DEF Value
<1> HIDE DEF Worth, Inc
<1>4. Points(S \cup {i}) = 30 * (Worth(S, 30) + Inc(30)) + 20 * (Worth(S, 20) + Inc(20))
                            + 10 * (Worth(S, 10) + Inc(10))
  <2>1. Points(S \cup {i}) = 30 * Worth(S \cup {i}, 30) + 20 * Worth(S \cup {i}, 20)
                              + 10 * Worth(S \cup {i}, 10)
    BY Zenon, <1>1
  <2>2. /\ Worth(S \cup {i}, 30) = Worth(S, 30) + Inc(30)
        /\ Worth(S \cup {i}, 20) = Worth(S, 20) + Inc(20)
        /\ Worth(S \cup {i}, 10) = Worth(S, 10) + Inc(10)
    BY <1>2
  <2>3. QED
    BY <2>1, <2>2
<1>5. Points(S \cup {i}) = (30 * Worth(S, 30) + 20 * Worth(S, 20) + 10 * Worth(S, 10))
                            + (30 * Inc(30) + 20 * Inc(20) + 10 * Inc(10))
  BY <1>2, <1>3, <1>4, SumOfWorths
<1>6. QED
  BY Zenon, <1>1, <1>3, <1>5

LEMMA PointsType ==
    /\ \A S \in SUBSET Aliens : Points(S) \in Nat
    /\ Points({}) = 0
<1>1. ASSUME NEW S \in SUBSET Aliens, NEW v
      PROVE  Cardinality({k \in S : Value(k) = v}) \in Nat
  <2>1. {k \in S : Value(k) = v} \in SUBSET Aliens
    OBVIOUS
  <2>2. QED
    BY <2>1, DeadCount, FS_Subset, FS_CardinalityType
<1>2. ASSUME NEW v PROVE Cardinality({k \in {} : Value(k) = v}) = 0
  <2>1. {k \in {} : Value(k) = v} = {}
    OBVIOUS
  <2>2. QED
    BY <2>1, FS_EmptySet
<1> DEFINE Worth(T, v) == Cardinality({k \in T : Value(k) = v})
<1>3. \A T : Points(T) = 30 * Worth(T, 30) + 20 * Worth(T, 20) + 10 * Worth(T, 10)
  BY DEF Points
<1>4. \A v : Worth({}, v) = 0 /\ \A S \in SUBSET Aliens : Worth(S, v) \in Nat
  BY Zenon, <1>1, <1>2
<1> HIDE DEF Worth
<1>5. QED
  BY <1>3, <1>4

\* What the arithmetic below needs to know about the terms of LeftOver.
LEMMA ScoreTerms ==
    ASSUME TypeInv
    PROVE  /\ ship.score \in Nat /\ roundNum \in Nat
           /\ Points(Aliens) \in Nat /\ Points(Dead) \in Nat
           /\ roundNum * Points(Aliens) \in Nat
           /\ gameState = "PLAYING" =>
                LeftOver = ship.score - roundNum * Points(Aliens) - Points(Dead)
           /\ gameState # "PLAYING" => LeftOver = ship.score - roundNum * Points(Aliens)
<1>1. ship.score \in Nat /\ roundNum \in Nat
  BY ShipFields DEF TypeInv, TypeOK
<1>2. Points(Aliens) \in Nat /\ Points(Dead) \in Nat
  BY PointsType DEF Dead
<1>3. roundNum * Points(Aliens) \in Nat
  BY <1>1, <1>2
<1>4. QED
  BY <1>1, <1>2, <1>3 DEF LeftOver, Dead

\* The step that kills an alien of a round and goes on with the round, or ends
\* it by killing the last one.
LEMMA ScoreKill ==
    ASSUME FlowInv, TypeInv', NEW j \in Slots, AlienKilled(j), InRound, InRound'
    PROVE  LeftOver' = LeftOver
<1> USE DEF FlowInv
<1> DEFINE s == [ship EXCEPT !.score = @ + Value(idx)]
<1>0. gameState = "PLAYING"
  BY AliveMeansOpen DEF AlienKilled, InRound
<1>1. gameState = "PLAYING" /\ idx \in Aliens
  BY <1>0, CountAssumption DEF AlienKilled, TypeInv, LoopIndex, TypeOK, Aliens
<1>2. s.score = ship.score + Value(idx) /\ Value(idx) \in Nat
  BY ValueType DEF TypeInv, TypeOK, Ship
<1>3. CheckTerritory(Moved(aliens[idx]), killCount + 1, s)
  BY DEF AlienKilled
<1> HIDE DEF s
<1>4. Dead' = Dead \cup {idx} /\ idx \notin Dead /\ Dead \in SUBSET Aliens
  BY Zenon, OneMoreDead DEF Dead
<1>5. Points(Dead') = Points(Dead) + Value(idx)
  BY ZenonT(40), <1>1, <1>4, PointsMore
<1>6. ship' = s /\ ~Crossed(Moved(aliens[idx]))
  BY <1>3 DEF CheckTerritory, BackToMenu, InRound
<1>7. ship'.score = ship.score + Value(idx)
  BY <1>2, <1>6
<1>8. CASE gameState' = "PLAYING"
  <2>1. roundNum' = roundNum
    BY <1>3, <1>6, <1>8 DEF CheckTerritory
  <2>2. LeftOver' = ship'.score - roundNum' * Points(Aliens) - Points(Dead')
    BY Zenon, <1>8 DEF LeftOver, Dead, Points
  <2>3. QED
    BY SMTT(30), <1>1, <1>2, <1>5, <1>7, <2>1, <2>2, ScoreTerms
<1>9. CASE gameState' = "NEXT_ROUND"
  <2>1. roundNum' = roundNum + 1 /\ RoundCleared(killCount + 1)
    BY <1>1, <1>3, <1>6, <1>9 DEF CheckTerritory
  <2>2. killCount + 1 = Cardinality(Dead')
    BY OneMoreDead DEF AlienKilled, KillInv, KillCountExact, InGame, Dead
  <2>3. Dead' \in SUBSET Aliens /\ Cardinality(Dead') = Cardinality(Aliens)
    BY SMTT(30), <1>1, <1>4, <2>1, <2>2, DeadCount DEF RoundCleared
  <2>4. Dead' = Aliens
    BY <2>3, DeadCount, FS_Subset
  <2>5. Points(Aliens) = Points(Dead) + Value(idx)
    BY <1>5, <2>4
  <2>6. (roundNum + 1) * Points(Aliens) = roundNum * Points(Aliens) + Points(Aliens)
    BY ScoreTerms
  <2>7. LeftOver' = ship'.score - roundNum' * Points(Aliens) - 0
    BY ZenonT(40), <1>9 DEF LeftOver, Points
  <2>8. QED
    BY SMTT(30), <1>1, <1>2, <1>7, <2>1, <2>5, <2>6, <2>7, ScoreTerms
<1>10. QED
  BY <1>8, <1>9 DEF InRound

\* In a game no step changes the part of the score that is left over.
LEMMA ScoreStep ==
    ASSUME FlowInv, FlowInv', [Next]_vars, InRound, InRound'
    PROVE  LeftOver' = LeftOver
<1> USE DEF FlowInv
<1>1. ASSUME UNCHANGED <<gameState, roundNum>>, ship'.score = ship.score, Dead' = Dead
      PROVE  LeftOver' = LeftOver
  BY Zenon, <1>1 DEF LeftOver, Dead, Points
<1>2. UNCHANGED aliens => Dead' = Dead
  BY DEF Dead
<1>3. Quiet => LeftOver' = LeftOver
  BY <1>1, <1>2 DEF Quiet
<1>4. ~ClickStart /\ ~KeyEscape /\ ~AlienBulletKills /\ \A next : ~ClickMenu(next)
  BY DEF ClickStart, KeyEscape, AlienBulletKills, BackToMenu, ClickMenu, InRound
<1>5. \A c : ClickShoot(c) => LeftOver' = LeftOver
  BY <1>1, <1>2 DEF ClickShoot, alienVars
<1>6. ASSUME NEW move, updateShipPosition(move) PROVE LeftOver' = LeftOver
  <2>1. ship'.score = ship.score
    BY SMTT(30), <1>6 DEF updateShipPosition, TypeInv, TypeOK, Ship
  <2>2. QED
    BY <1>1, <1>2, <1>6, <2>1 DEF updateShipPosition, alienVars
<1>7. TimerPlaying \/ MoveShipBullet \/ Draw => LeftOver' = LeftOver
  BY <1>1, <1>2 DEF TimerPlaying, MoveShipBullet, Draw, alienVars
<1>8. ASSUME TimerNextRound PROVE LeftOver' = LeftOver
  <2>1. /\ gameState = "NEXT_ROUND" /\ gameState' = "PLAYING"
        /\ UNCHANGED <<roundNum, ship>> /\ Dead' = {}
    BY <1>8, FreshFormation DEF TimerNextRound
  <2>2. LeftOver' = ship.score - roundNum * Points(Aliens) - Points({})
    BY ZenonT(40), <2>1 DEF LeftOver, Dead, Points
  <2>3. QED
    BY <2>1, <2>2, PointsType, ScoreTerms
<1>9. \A i : createAlienBullet(i) => LeftOver' = LeftOver
  BY <1>1, <1>2 DEF createAlienBullet
<1>10. ASSUME AlienBulletFlies PROVE LeftOver' = LeftOver
  <2>1. ship'.score = ship.score
    BY <1>10 DEF AlienBulletFlies, TypeInv, TypeOK, Ship
  <2>2. QED
    BY <1>1, <1>2, <1>10, <2>1 DEF AlienBulletFlies
<1>11. AlienDead => LeftOver' = LeftOver
  BY <1>1, <1>2 DEF AlienDead
<1>12. FrameEnd => LeftOver' = LeftOver
  BY ZenonT(40), <1>1, DropKeepsDead DEF FrameEnd
<1>13. ASSUME AlienSurvives PROVE LeftOver' = LeftOver
  <2>1. killCount # SIZE_OF_ALIENS
    BY SMTT(30), <1>13, AliveMeansOpen DEF AlienSurvives
  <2>2. UNCHANGED <<gameState, roundNum, ship>>
    BY <1>13, <2>1 DEF AlienSurvives, CheckTerritory, RoundCleared, BackToMenu, InRound
  <2>3. QED
    BY SMTT(30), <1>1, <1>13, <2>2, NoMoreDead
<1>14. \A j \in Slots : AlienKilled(j) => LeftOver' = LeftOver
  BY ScoreKill
<1>15. QED
  BY SMTT(30), StepCases, <1>3, <1>4, <1>5, <1>6, <1>7, <1>8, <1>9, <1>10, <1>11, <1>12, <1>13,
     <1>14

\* The score of a ship nobody plays with: that of a new ship, or one alien hit
\* after the crossing, with the only bullet.
ScoreInv ==
    /\ ScoreExact
    /\ gameState \in {"MENU_DISPLAY", "INSTRUCTIONS_DISPLAY"} => ship.score \in {0, 10, 20, 30}
    /\ gameState = "MENU_DISPLAY" /\ pc = "aliens" =>
         ship.score = 0 \/ \A j \in Slots : ~InFlight(shipBullets[j])

\* The test of the territory leaves a score for the menu.
LEMMA ScoreTerritory ==
    ASSUME NEW a, NEW kills, NEW s, s.score \in {0, 10, 20, 30}, gameState = "MENU_DISPLAY",
           CheckTerritory(a, kills, s)
    PROVE  ship'.score \in {0, 10, 20, 30} /\ (ship' = s \/ ship'.score = 0)
BY DEF CheckTerritory, BackToMenu, createShip

\* A game starts with what the menu has.
LEMMA ScoreStart ==
    ASSUME FlowInv, FlowInv', ScoreInv, [Next]_vars, ~InRound, InRound'
    PROVE  LeftOver' \in {0, 10, 20, 30}
<1> USE DEF FlowInv
<1>1. CASE ClickStart
  <2>1. /\ gameState = "MENU_DISPLAY" /\ gameState' = "PLAYING" /\ Dead' = {}
        /\ roundNum = 0 /\ UNCHANGED <<roundNum, ship>>
    BY <1>1, FreshFormation DEF ClickStart, MenuInv, MenuFresh
  <2>2. LeftOver' = ship.score - 0 * Points(Aliens) - Points({})
    BY ZenonT(40), <2>1 DEF LeftOver, Dead, Points
  <2>3. QED
    BY SMTT(30), <2>1, <2>2, PointsType, ScoreTerms DEF ScoreInv
<1>2. CASE ~ClickStart
  <2>1. ASSUME NEW j \in Slots, AlienKilled(j) PROVE FALSE
    <3>1. ~RoundCleared(killCount + 1)
      BY SMTT(30), <2>1, NoClearAfterCrossing DEF InRound
    <3>2. QED
      BY <2>1, <3>1 DEF AlienKilled, CheckTerritory, BackToMenu, InRound
  <2>2. ~AlienSurvives
    <3>1. ASSUME AlienSurvives PROVE killCount # SIZE_OF_ALIENS
      BY <3>1, AliveMeansOpen DEF AlienSurvives
    <3>2. QED
      BY <3>1 DEF AlienSurvives, CheckTerritory, RoundCleared, BackToMenu, InRound
  <2>3. ASSUME gameState' = gameState PROVE FALSE
    BY <2>3 DEF InRound
  <2>4. ~Quiet /\ ~AlienDead /\ ~FrameEnd /\ ~AlienBulletFlies /\ ~AlienBulletKills
    BY SMTT(30), <2>3 DEF Quiet, AlienDead, FrameEnd, AlienBulletFlies, AlienBulletKills, BackToMenu, InRound
  <2>5. ~KeyEscape /\ ~TimerPlaying /\ ~MoveShipBullet /\ ~Draw /\ ~TimerNextRound
    BY <2>3 DEF KeyEscape, TimerPlaying, MoveShipBullet, Draw, TimerNextRound, InRound
  <2>6. \A c, i, move : ~ClickShoot(c) /\ ~createAlienBullet(i) /\ ~updateShipPosition(move)
    BY <2>3 DEF ClickShoot, createAlienBullet, updateShipPosition
  <2>7. \A next : ~ClickMenu(next)
    BY SMTT(30) DEF ClickMenu, InRound
  <2>8. QED
    BY SMTT(30), StepCases, <1>2, <2>1, <2>2, <2>4, <2>5, <2>6, <2>7
<1>3. QED
  BY SMTT(30), <1>1, <1>2

\* A crossing is followed by at most one kill, because the ship has one bullet
\* at a time.
LEMMA ScoreMenu ==
    ASSUME FlowInv, FlowInv', ScoreInv, [Next]_vars,
           gameState' \in {"MENU_DISPLAY", "INSTRUCTIONS_DISPLAY"}
    PROVE  /\ ship'.score \in {0, 10, 20, 30}
           /\ gameState' = "MENU_DISPLAY" /\ pc' = "aliens" =>
                ship'.score = 0 \/ \A j \in Slots : ~InFlight(shipBullets[j])'
<1> USE DEF FlowInv
<1> DEFINE Goal == /\ ship'.score \in {0, 10, 20, 30}
                   /\ gameState' = "MENU_DISPLAY" /\ pc' = "aliens" =>
                        ship'.score = 0 \/ \A j \in Slots : ~InFlight(shipBullets[j])'
<1>1. ASSUME ship'.score = 0 PROVE Goal
  BY SMTT(30), <1>1
<1>2. BackToMenu => Goal
  BY SMTT(30), <1>1 DEF BackToMenu, createShip
<1>3. ASSUME UNCHANGED <<gameState, ship, shipBullets, heap>>,
             pc' = "aliens" => pc = "aliens"
      PROVE  Goal
  BY <1>3 DEF ScoreInv, InFlight
<1>4. ASSUME gameState \in {"MENU_DISPLAY", "INSTRUCTIONS_DISPLAY"}, ship' = ship,
             pc' # "aliens"
      PROVE  Goal
  BY Zenon, <1>4 DEF ScoreInv
<1>5. ASSUME NEW bits, GoOn(bits) PROVE pc' \in Sections
  BY <1>5, SectionType DEF GoOn
<1>6. Quiet => Goal
  BY ZenonT(40), <1>3 DEF Quiet, sbVars, Sections
<1>7. \A next : ClickMenu(next) => Goal
  BY SMTT(30), <1>4, <1>5 DEF ClickMenu, Sections
<1>8. ~ClickStart /\ ~KeyEscape /\ ~TimerPlaying /\ ~TimerNextRound
  BY DEF ClickStart, KeyEscape, TimerPlaying, TimerNextRound, initGame
<1>9. ~MoveShipBullet /\ ~Draw /\ ~AlienBulletFlies
  BY DEF MoveShipBullet, Draw, AlienBulletFlies, Control
<1>10. \A c, i, move : ~ClickShoot(c) /\ ~createAlienBullet(i) /\ ~updateShipPosition(move)
  BY DEF ClickShoot, createAlienBullet, updateShipPosition, Control
<1>11. AlienBulletKills => Goal
  BY <1>2 DEF AlienBulletKills
<1>12. AlienDead => Goal
  BY ZenonT(40), <1>3 DEF AlienDead, sbVars
<1>13. FrameEnd => Goal
  BY <1>4, ContinueType DEF FrameEnd
<1>14. ASSUME AlienSurvives PROVE Goal
  <2>1. CASE gameState = "MENU_DISPLAY"
    <3>1. ship.score \in {0, 10, 20, 30}
      BY SMTT(30), <2>1 DEF ScoreInv
    <3>2. ship'.score \in {0, 10, 20, 30} /\ (ship' = ship \/ ship'.score = 0)
      BY <1>14, <2>1, <3>1, ScoreTerritory DEF AlienSurvives
    <3>3. \A j \in Slots : InFlight(shipBullets[j])' = InFlight(shipBullets[j])
      BY Zenon, <1>14 DEF AlienSurvives, sbVars, InFlight
    <3>4. QED
      BY ZenonT(40), <1>14, <2>1, <3>2, <3>3 DEF AlienSurvives, ScoreInv
  <2>2. CASE gameState # "MENU_DISPLAY"
    <3>1. gameState = "PLAYING" /\ killCount # SIZE_OF_ALIENS
      BY SMTT(30), <1>14, <2>2, AliveMeansOpen DEF AlienSurvives
    <3>2. BackToMenu
      BY SMTT(30), <1>14, <3>1 DEF AlienSurvives, CheckTerritory, RoundCleared
    <3>3. QED
      BY <1>2, <3>2
  <2>3. QED
    BY <2>1, <2>2
<1>15. ASSUME NEW j \in Slots, AlienKilled(j) PROVE Goal
  <2> DEFINE s == [ship EXCEPT !.score = @ + Value(idx)]
  <2>1. CheckTerritory(Moved(aliens[idx]), killCount + 1, s)
    BY <1>15 DEF AlienKilled
  <2>2. \A i \in Slots : ~InFlight(shipBullets[i])'
    BY <1>15, SpentEverywhere
  <2>3. CASE gameState = "MENU_DISPLAY"
    <3>1. ship.score = 0
      BY <1>15, <2>3 DEF AlienKilled, Hits, ScoreInv
    <3>2. s.score = Value(idx) /\ Value(idx) \in {10, 20, 30}
      BY <3>1 DEF Value, TypeInv, TypeOK, Ship
    <3> HIDE DEF s
    <3>3. ship'.score \in {0, 10, 20, 30}
      BY SMTT(30), <2>1, <2>3, <3>2, ScoreTerritory
    <3>4. QED
      BY <2>2, <3>3
  <2>4. CASE gameState # "MENU_DISPLAY"
    <3> HIDE DEF s
    <3>1. gameState = "PLAYING"
      BY SMTT(30), <1>15, <2>4, AliveMeansOpen DEF AlienKilled
    <3>2. BackToMenu
      BY SMTT(30), <2>1, <3>1 DEF CheckTerritory
    <3>3. QED
      BY <1>2, <3>2
  <2>5. QED
    BY <2>3, <2>4
<1>16. QED
  BY SMTT(30), StepCases, <1>6, <1>7, <1>8, <1>9, <1>10, <1>11, <1>12, <1>13, <1>14, <1>15

\* The invariant of the score is inductive.
LEMMA ScoreNext == FlowInv /\ FlowInv' /\ ScoreInv /\ [Next]_vars => ScoreInv'
<1> SUFFICES ASSUME FlowInv, FlowInv', ScoreInv, [Next]_vars PROVE ScoreInv'
  OBVIOUS
<1>1. ScoreExact'
  <2>1. CASE ~InRound'
    BY <2>1 DEF ScoreExact, InRound
  <2>2. CASE InRound' /\ InRound
    <3>1. LeftOver' = LeftOver
      BY <2>2, ScoreStep
    <3>2. QED
      BY <2>2, <3>1 DEF ScoreInv, ScoreExact, InRound
  <2>3. CASE InRound' /\ ~InRound
    BY SMTT(30), <2>3, ScoreStart DEF ScoreExact
  <2>4. QED
    BY <2>1, <2>2, <2>3
<1>2. QED
  BY <1>1, ScoreMenu DEF ScoreInv

LEMMA ScoreInit == Init => ScoreInv
BY DEF Init, createShip, ScoreInv, ScoreExact

\* The score is what was killed in this game, round by round, whatever rounds
\* were played, and at most one alien of the game before.
THEOREM ScoreExactTheorem == Spec => []ScoreExact
<1>1. ScoreInv => ScoreExact
  BY DEF ScoreInv
<1>2. QED
  BY <1>1, ScoreInit, ScoreNext, FlowInvInit, FlowInvNext, PTL DEF Spec

\* Within a game, from its first round to its last, the points of the score are
\* those of the aliens killed since it began: what is left over stays the same.
THEOREM ScoreKeptTheorem == Spec => [][InRound /\ InRound' => LeftOver' = LeftOver]_vars
<1>1. FlowInv /\ FlowInv' /\ [Next]_vars => [InRound /\ InRound' => LeftOver' = LeftOver]_vars
  BY ScoreStep
<1>2. QED
  BY <1>1, FlowInvInit, FlowInvNext, PTL DEF Spec

===============================================================================
