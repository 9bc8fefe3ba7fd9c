------------------------------ MODULE GameTypes -------------------------------
(***************************************************************************)
(* Type correctness of the ship's bullets and of Game, for every number of *)
(* aliens, slots and lives, every geometry and whatever other users leave  *)
(* in the heap.  The theorems about the bullets alone come first: the game *)
(* changes them by the same operations.  At the end: the way out of the    *)
(* loop, once the player has chosen to leave.                              *)
(***************************************************************************)
EXTENDS Game, TLAPS

\* The fields of a bullet may be assigned.
LEMMA BulletFields ==
    ASSUME NEW b \in Bullet
    PROVE  /\ b.y \in Int /\ b.speed \in Int /\ b.hitAlien \in BOOLEAN
           /\ \A n \in Int : [b EXCEPT !.y = n] \in Bullet
           /\ [b EXCEPT !.hitAlien = TRUE] \in Bullet
BY Zenon DEF Bullet

\* createShipBullet allocates and fills in a bullet.
LEMMA CreateType ==
    ASSUME SBTypeOK, NEW c \in Chunks, NEW x \in Int, NEW y \in Int, createShipBullet(c, x, y)
    PROVE  SBTypeOK'
<1> DEFINE b == [x |-> x, y |-> y, speed |-> SHIP_BULLET_SPEED, hitAlien |-> FALSE]
<1>1. b \in Bullet
  BY GeometryAssumption DEF Bullet
<1>2. heap' = [heap EXCEPT ![c] = b]
  BY DEF createShipBullet
<1>3. heap' \in [Chunks -> Bullet]
  <2> HIDE DEF b
  <2> QED
    BY <1>1, <1>2 DEF SBTypeOK
<1>4. shipBullets' \in [Slots -> Chunks \cup {NULL}]
  BY DEF SBTypeOK, createShipBullet
<1>5. allocated' \in SUBSET Chunks /\ slot' \in 0 .. MAX_SHIP_BULLETS
  BY DEF SBTypeOK, createShipBullet
<1>6. QED
  BY <1>3, <1>4, <1>5 DEF SBTypeOK

\* One iteration of updateShipBulletPosition moves or frees a bullet.
LEMMA UpdateType ==
    ASSUME SBTypeOK, updateShipBulletPosition
    PROVE  SBTypeOK'
<1> DEFINE p == shipBullets[slot]
<1>1. slot \in Slots /\ slot' \in 0 .. MAX_SHIP_BULLETS
  BY CountAssumption DEF SBTypeOK, updateShipBulletPosition, Slots
<1>2. ASSUME InFlight(p), heap' = [heap EXCEPT ![p].y = @ - heap[p].speed]
      PROVE  heap' \in [Chunks -> Bullet]
  <2>1. p \in Chunks
    BY <1>1, <1>2 DEF InFlight, SBTypeOK
  <2>2. heap[p] \in Bullet
    BY <2>1 DEF SBTypeOK
  <2> DEFINE b == [heap[p] EXCEPT !.y = heap[p].y - heap[p].speed]
  <2>3. b \in Bullet
    <3>1. heap[p].y \in Int /\ heap[p].speed \in Int
      BY Zenon, <2>2, BulletFields
    <3>2. heap[p].y - heap[p].speed \in Int
      BY <3>1
    <3>3. QED
      BY Zenon, <2>2, <3>2, BulletFields
  <2>4. heap' = [heap EXCEPT ![p] = b]
    BY <1>2
  <2> HIDE DEF p, b
  <2>5. QED
    BY <2>1, <2>3, <2>4 DEF SBTypeOK
<1>3. heap' \in [Chunks -> Bullet]
  BY <1>2 DEF SBTypeOK, updateShipBulletPosition
<1>4. allocated' \in SUBSET Chunks /\ shipBullets' = shipBullets
  BY DEF SBTypeOK, updateShipBulletPosition, removeShipBullet
<1>5. QED
  BY <1>1, <1>3, <1>4 DEF SBTypeOK

\* A collision marks and frees a bullet.
LEMMA SpendType ==
    ASSUME SBTypeOK, NEW j \in Slots, InFlight(shipBullets[j]), spendBullet(j)
    PROVE  SBTypeOK'
<1> DEFINE p == shipBullets[j]
<1>1. p \in Chunks
  BY DEF InFlight, SBTypeOK
<1>2. [heap[p] EXCEPT !.hitAlien = TRUE] \in Bullet
  BY <1>1, BulletFields DEF SBTypeOK
<1>3. heap' = [heap EXCEPT ![p] = [heap[p] EXCEPT !.hitAlien = TRUE]]
  BY DEF spendBullet
<1>4. heap' \in [Chunks -> Bullet]
  BY <1>1, <1>2, <1>3 DEF SBTypeOK
<1>5. QED
  BY <1>4 DEF SBTypeOK, spendBullet, removeShipBullet

\* The other steps of the bullets' part of the state.
LEMMA HeapTypes ==
    ASSUME SBTypeOK
    PROVE  /\ beginUpdate => SBTypeOK'
           /\ \A c \in Chunks, b \in Junk : overwriteFree(c, b) => SBTypeOK'
           /\ UNCHANGED sbVars => SBTypeOK'
<1>1. beginUpdate => SBTypeOK'
  BY CountAssumption DEF beginUpdate, SBTypeOK
<1>2. ASSUME NEW c \in Chunks, NEW b \in Junk, overwriteFree(c, b) PROVE SBTypeOK'
  BY <1>2, HeapAssumption DEF overwriteFree, SBTypeOK
<1>3. UNCHANGED sbVars => SBTypeOK'
  BY DEF sbVars, SBTypeOK
<1>4. QED
  BY <1>1, <1>2, <1>3

-------------------------------------------------------------------------------

\* The slots before the first shot.
LEMMA SBInitType == SBInit => SBTypeOK /\ OneBullet /\ LiveBulletSound
<1> SUFFICES ASSUME SBInit PROVE SBTypeOK /\ OneBullet /\ LiveBulletSound
  OBVIOUS
<1> DEFINE zero == [x |-> 0, y |-> 0, speed |-> 0, hitAlien |-> FALSE]
<1>1. zero \in Bullet
  BY DEF Bullet
<1>2. heap \in [Chunks -> {zero}]
  BY DEF SBInit
<1> HIDE DEF zero
<1>3. heap \in [Chunks -> Bullet]
  BY <1>1, <1>2
<1>4. SBTypeOK
  BY <1>3, CountAssumption DEF SBInit, initShipBullets, SBTypeOK
<1>5. OneBullet /\ LiveBulletSound
  BY DEF SBInit, initShipBullets, OneBullet, LiveBulletSound
<1>6. QED
  BY <1>4, <1>5

\* Every step of the bullets keeps their types.
LEMMA SBTypeNext == SBTypeOK /\ [SBNext]_sbVars => SBTypeOK'
<1> SUFFICES ASSUME SBTypeOK, [SBNext]_sbVars PROVE SBTypeOK'
  OBVIOUS
<1>1. SHIP_X0 + SHIP_WIDTH \div 2 \in Int /\ SHIP_YPOS \in Int
  BY GeometryAssumption
<1>2. Shoot => SBTypeOK'
  BY <1>1, CreateType DEF Shoot
<1>3. updateShipBulletPosition => SBTypeOK'
  BY UpdateType
<1>4. Collide => SBTypeOK'
  BY SpendType DEF Collide
<1>5. Held \subseteq Chunks
  BY DEF Held, SBTypeOK
<1>6. OtherHeapUser => SBTypeOK'
  BY <1>5, HeapTypes DEF OtherHeapUser
<1>7. QED
  BY <1>2, <1>3, <1>4, <1>6, HeapTypes DEF SBNext

\* createShipBullet treats slots with the same pointer alike.
LEMMA CreateOneBullet ==
    ASSUME OneBullet, NEW c, NEW x, NEW y, createShipBullet(c, x, y)
    PROVE  OneBullet'
<1>1. shipBullets' = [i \in Slots |-> IF FillsSlot(heap', i) THEN c ELSE shipBullets[i]]
  BY DEF createShipBullet
<1>2. ASSUME NEW i \in Slots, NEW j \in Slots PROVE FillsSlot(heap', i) = FillsSlot(heap', j)
  BY DEF OneBullet, FillsSlot
<1>3. QED
  BY <1>1, <1>2 DEF OneBullet

\* What is left of the slots and the allocated chunks after each operation,
\* whoever calls it and wherever the ship is.
LEMMA LiveStep ==
    ASSUME SBTypeOK, LiveBulletSound
    PROVE  /\ \A c \in Chunks : \A x : createShipBullet(c, x, SHIP_YPOS) => LiveBulletSound'
           /\ beginUpdate \/ updateShipBulletPosition \/ UNCHANGED sbVars => LiveBulletSound'
           /\ \A j \in Slots : InFlight(shipBullets[j]) /\ spendBullet(j) => LiveBulletSound'
           /\ \A c \in Chunks : \A b : overwriteFree(c, b) => LiveBulletSound'
<1>1. Held \subseteq Chunks
  BY DEF Held, SBTypeOK
<1>2. ASSUME Held' \subseteq Held, allocated' \subseteq allocated,
             \A p \in allocated' \cap Held : heap'[p] = heap[p]
      PROVE  LiveBulletSound'
  BY <1>2 DEF LiveBulletSound
<1>3. ASSUME NEW c \in Chunks, NEW x, createShipBullet(c, x, SHIP_YPOS) PROVE LiveBulletSound'
  <2> DEFINE b == [x |-> x, y |-> SHIP_YPOS, speed |-> SHIP_BULLET_SPEED, hitAlien |-> FALSE]
  <2>2. /\ ~b.hitAlien /\ b.speed = SHIP_BULLET_SPEED /\ b.y \in 0 .. SHIP_YPOS
    BY GeometryAssumption
  <2>3. heap' = [heap EXCEPT ![c] = b] /\ allocated' = allocated \cup {c}
    BY <1>3 DEF createShipBullet
  <2> HIDE DEF b
  <2>4. heap'[c] = b /\ \A p \in Chunks : p # c => heap'[p] = heap[p]
    BY <2>3 DEF SBTypeOK
  <2>5. Held' \subseteq Held \cup {c}
    BY <1>3 DEF createShipBullet, Held
  <2>6. QED
    BY <1>1, <2>2, <2>3, <2>4, <2>5 DEF LiveBulletSound
<1>4. beginUpdate => LiveBulletSound'
  BY <1>2 DEF beginUpdate, Held
<1>5. ASSUME updateShipBulletPosition PROVE LiveBulletSound'
  <2> DEFINE p == shipBullets[slot]
  <2>1. Held' = Held /\ slot \in Slots
    BY <1>5, CountAssumption DEF updateShipBulletPosition, Held, SBTypeOK, Slots
  <2>2. CASE heap' = heap /\ allocated' \subseteq allocated
    BY <1>2, <2>1, <2>2
  <2>3. CASE /\ InFlight(p) /\ heap[p].y - heap[p].speed >= 0 /\ allocated' = allocated
             /\ heap' = [heap EXCEPT ![p].y = @ - heap[p].speed]
    <3> DEFINE b == [heap[p] EXCEPT !.y = heap[p].y - heap[p].speed]
    <3>1. p \in Chunks /\ heap[p] \in Bullet
      BY <2>1, <2>3 DEF InFlight, SBTypeOK
    <3>2. /\ b.hitAlien = heap[p].hitAlien /\ b.speed = heap[p].speed
          /\ b.y = heap[p].y - heap[p].speed
      BY <3>1 DEF Bullet
    <3>3. heap' = [heap EXCEPT ![p] = b]
      BY <2>3
    <3> HIDE DEF b
    <3>4. heap'[p] = b /\ \A q \in Chunks : q # p => heap'[q] = heap[q]
      BY <3>1, <3>3 DEF SBTypeOK
    <3>5. ASSUME p \in Held \cap allocated PROVE b.y \in 0 .. SHIP_YPOS
      <4>1. heap[p].y \in 0 .. SHIP_YPOS /\ heap[p].speed = SHIP_BULLET_SPEED
        BY <3>5 DEF LiveBulletSound
      <4>2. QED
        BY <4>1, <2>3, <3>2, GeometryAssumption
    <3>6. QED
      BY <1>1, <2>1, <2>3, <3>2, <3>4, <3>5 DEF LiveBulletSound
  <2>4. QED
    BY <1>5, <2>2, <2>3 DEF updateShipBulletPosition, removeShipBullet
<1>6. ASSUME NEW j \in Slots, InFlight(shipBullets[j]), spendBullet(j) PROVE LiveBulletSound'
  <2>1. shipBullets[j] \in Chunks
    BY <1>6 DEF InFlight, SBTypeOK
  <2>2. \A p \in Chunks : p # shipBullets[j] => heap'[p] = heap[p]
    BY <1>6, <2>1 DEF spendBullet, SBTypeOK
  <2>3. QED
    BY <1>1, <1>2, <1>6, <2>2 DEF spendBullet, removeShipBullet, Held
<1>7. ASSUME NEW c \in Chunks, NEW b, overwriteFree(c, b) PROVE LiveBulletSound'
  BY <1>1, <1>2, <1>7 DEF overwriteFree, Held, SBTypeOK
<1>8. UNCHANGED sbVars => LiveBulletSound'
  BY <1>2 DEF sbVars, Held
<1>9. QED
  BY <1>3, <1>4, <1>5, <1>6, <1>7, <1>8

\* Every step of the bullets keeps the allocated ones sound.
LEMMA LiveNext ==
    ASSUME SBTypeOK, LiveBulletSound, [SBNext]_sbVars
    PROVE  LiveBulletSound'
<1>1. Held \subseteq Chunks
  BY DEF Held, SBTypeOK
<1>2. QED
  BY <1>1, LiveStep DEF SBNext, Shoot, Collide, OtherHeapUser

\* A bullet that is allocated and held by a slot has not hit, flies at its speed
\* and is on the screen, although slots keep pointing at freed chunks, free
\* them again and read what other users of the heap have left there.
THEOREM LiveBulletTheorem == SBSpec => []LiveBulletSound
BY SBInitType, SBTypeNext, LiveNext, PTL DEF SBSpec

-------------------------------------------------------------------------------
(***************************************************************************)
(* The game.                                                               *)
(***************************************************************************)

\* A section of the loop body, or the wait for a message.
Sections == {"receive", "mouse", "keyboard", "timer"}

\* What the dispatch of a message may go on to.
LEMMA SectionType ==
    ASSUME NEW bits
    PROVE  Section(bits) \in Sections
BY DEF Section, Sections

\* The formation initGame sets up is made of aliens.
LEMMA CreateAlienType ==
    ASSUME NEW i \in Aliens
    PROVE  createAlien(i) \in Alien
<1>1. i \div ROW_ALIENS \in Int /\ i % ROW_ALIENS \in Int
  BY CountAssumption, GeometryAssumption DEF Aliens, SIZE_OF_ALIENS
<1>2. ALIEN_DX * (i \div ROW_ALIENS) \in Int /\ ALIEN_DY * (i % ROW_ALIENS) \in Int
  BY <1>1, GeometryAssumption
<1>3. QED
  BY <1>2, GeometryAssumption DEF createAlien, Alien

\* The points an alien is worth.
LEMMA ValueType ==
    ASSUME NEW i
    PROVE  Value(i) \in Nat
BY DEF Value

\* A moved alien is an alien, and as alive as before.
LEMMA MovedType ==
    ASSUME TypeOK, NEW a \in Alien
    PROVE  Moved(a) \in Alien /\ Moved(a).alive = a.alive
BY DEF Moved, Alien, TypeOK

\* What a timer interrupt leaves in the counter.
LEMMA CounterType ==
    ASSUME TypeOK, timer_int_handler
    PROVE  timer_counter' \in 0 .. ipf
BY CountAssumption DEF timer_int_handler, TypeOK

-------------------------------------------------------------------------------

\* Every bit set a section leaves behind is a set of devices.
LEMMA GoOnType ==
    ASSUME NEW bits \in SUBSET Devices, GoOn(bits)
    PROVE  intr' \in SUBSET Devices /\ pc' \in PCs /\ pc' \in Sections
BY SectionType DEF GoOn, Sections, PCs

\* A "continue" goes back to the wait for a message.
LEMMA ContinueType ==
    ASSUME Continue
    PROVE  intr' = {} /\ intr' \in SUBSET Devices /\ pc' = "receive" /\ pc' \in PCs
BY DEF Continue, GoOn, Section, PCs

-------------------------------------------------------------------------------
(***************************************************************************)
(* Type correctness, one step per action.                                  *)
(***************************************************************************)

\* What initGame sets has its type.
LEMMA InitGameType ==
    ASSUME NEW s \in Nat, initGame(s)
    PROVE  /\ aliens' \in [Aliens -> Alien]
           /\ gameState' \in GameStates
           /\ killCount' \in Nat /\ speed' \in Nat /\ changeDir' \in BOOLEAN
BY Zenon, CreateAlienType DEF initGame, GameStates

\* A new ship is a ship.
LEMMA CreateShipType == createShip \in Ship
BY CountAssumption, GeometryAssumption DEF createShip, Ship

\* What the end of a game sets has its type.
LEMMA BackToMenuType ==
    ASSUME BackToMenu
    PROVE  ship' \in Ship /\ speed' \in Nat /\ roundNum' \in Nat /\ gameState' \in GameStates
BY CreateShipType, GeometryAssumption DEF BackToMenu, GameStates

\* What the test of the territory sets has its type.
LEMMA TerritoryType ==
    ASSUME TypeOK, NEW a, NEW kills, NEW s \in Ship, CheckTerritory(a, kills, s)
    PROVE  ship' \in Ship /\ speed' \in Nat /\ roundNum' \in Nat /\ gameState' \in GameStates
BY BackToMenuType DEF CheckTerritory, TypeOK, GameStates

\* The fields of a ship may be assigned.
LEMMA ShipFields ==
    ASSUME NEW s \in Ship
    PROVE  /\ s.x \in Int /\ s.lives \in Int /\ s.score \in Nat
           /\ \A n \in Int : [s EXCEPT !.x = n] \in Ship /\ [s EXCEPT !.lives = n] \in Ship
           /\ \A n \in Nat : [s EXCEPT !.score = n] \in Ship
BY DEF Ship

\* The fields of the alien bullet may be assigned.
LEMMA AlienBulletFields ==
    ASSUME NEW b \in [x : Int, y : Int, active : BOOLEAN]
    PROVE  /\ b.y \in Int
           /\ \A n \in Int : [b EXCEPT !.y = n] \in [x : Int, y : Int, active : BOOLEAN]
           /\ [b EXCEPT !.active = FALSE] \in [x : Int, y : Int, active : BOOLEAN]
BY Zenon

\* The alien bullet after its move, and after the test against the ship.
LEMMA AlienBulletType ==
    ASSUME TypeOK, NEW b, b = updateAlienBulletPosition(alienBullet)
    PROVE  /\ b \in [x : Int, y : Int, active : BOOLEAN]
           /\ [b EXCEPT !.active = @ /\ ~ShipHit(b)] \in [x : Int, y : Int, active : BOOLEAN]
           /\ AfterCollision(b) \in Int
<1>1. b \in [x : Int, y : Int, active : BOOLEAN]
  <2>1. alienBullet \in [x : Int, y : Int, active : BOOLEAN]
    BY DEF TypeOK
  <2>2. alienBullet.y + ALIEN_BULLET_SPEED \in Int
    BY <2>1, AlienBulletFields, GeometryAssumption
  <2>3. QED
    BY <2>1, <2>2, AlienBulletFields DEF updateAlienBulletPosition
<1>2. ship.lives \in Int
  BY ShipFields DEF TypeOK
<1>3. AfterCollision(b) \in Int
  BY <1>2 DEF AfterCollision
<1>4. (b.active /\ ~ShipHit(b)) \in BOOLEAN
  OBVIOUS
<1>5. [b EXCEPT !.active = @ /\ ~ShipHit(b)] \in [x : Int, y : Int, active : BOOLEAN]
  BY Zenon, <1>1, <1>4
<1>6. QED
  BY <1>1, <1>3, <1>5

\* The step into the alien loop, or back to the wait.
LEMMA AlienMovementType ==
    ASSUME TypeOK, AlienMovement
    PROVE  /\ pc' \in PCs /\ intr' \in SUBSET Devices
           /\ idx' \in 0 .. SIZE_OF_ALIENS /\ changeDir' \in BOOLEAN
<1>1. CASE timer_counter >= ipf
  <2>1. pc' = "aliens" /\ intr' = intr /\ idx' = 0 /\ changeDir' = FALSE
    BY <1>1 DEF AlienMovement
  <2>2. idx' \in 0 .. SIZE_OF_ALIENS
    BY <2>1, CountAssumption
  <2>3. QED
    BY Zenon, <2>1, <2>2 DEF TypeOK, PCs
<1>2. CASE ~(timer_counter >= ipf)
  <2>1. Continue /\ idx' = idx /\ changeDir' = changeDir
    BY <1>2 DEF AlienMovement
  <2>2. QED
    BY <2>1, ContinueType DEF TypeOK
<1>3. QED
  BY <1>1, <1>2

\* The step from one alien to the next.
LEMMA NextAlienType ==
    ASSUME TypeOK, idx < SIZE_OF_ALIENS, NextAlien
    PROVE  /\ pc' \in PCs /\ intr' \in SUBSET Devices
           /\ idx' \in 0 .. SIZE_OF_ALIENS /\ right_mov' \in BOOLEAN
           /\ alienBullet' \in [x : Int, y : Int, active : BOOLEAN]
           /\ timer_counter' \in 0 .. ipf
BY CountAssumption DEF NextAlien, TypeOK, PCs

\* Without LoopIndex the type of aliens[idx] is not known and TypeOK is not
\* inductive.
TypeInv == TypeOK /\ LoopIndex

\* The program starts in a state with the right types.
LEMMA TypeInit == Init => TypeInv
<1> SUFFICES ASSUME Init PROVE TypeInv
  OBVIOUS
<1>2. SBTypeOK
  BY SBInitType DEF Init
<1>3. aliens \in [Aliens -> Alien]
  BY DEF Init, Alien
<1>4. ship \in Ship
  BY CreateShipType DEF Init
<1>5. pc \in PCs /\ gameState \in GameStates /\ LoopIndex
  BY DEF Init, PCs, GameStates, LoopIndex
<1>6. alienBullet \in [x : Int, y : Int, active : BOOLEAN]
  BY DEF Init
<1>7. intr \in SUBSET Devices /\ right_mov \in BOOLEAN /\ changeDir \in BOOLEAN
  BY Zenon DEF Init
<1>8. /\ idx \in 0 .. SIZE_OF_ALIENS /\ timer_counter \in 0 .. ipf
      /\ killCount \in Nat /\ roundNum \in Nat /\ speed \in Nat
  BY CountAssumption, GeometryAssumption DEF Init
<1>9. QED
  BY <1>2, <1>3, <1>4, <1>5, <1>6, <1>7, <1>8 DEF TypeInv, TypeOK

\* A step of the loop's head or of the mouse or keyboard section.
LEMMA TypeEvents ==
    ASSUME TypeInv,
           \/ \E bits \in SUBSET Devices : Receive(bits)
           \/ Mouse
           \/ Keyboard
           \/ Leave
           \/ UNCHANGED vars
    PROVE  TypeInv'
<1> USE DEF TypeInv
<1>1. ASSUME NEW bits \in SUBSET Devices, Receive(bits) PROVE TypeInv'
  <2>1. intr' \in SUBSET Devices /\ pc' \in PCs /\ LoopIndex'
    BY <1>1, GoOnType DEF Receive, LoopIndex, Sections
  <2>2. QED
    BY <1>1, <2>1, HeapTypes DEF Receive, alienVars, TypeOK
<1>2. ASSUME Mouse PROVE TypeInv'
  <2> intr \ {"mouse"} \in SUBSET Devices
    BY DEF TypeOK
  <2>1. ASSUME MouseDropped PROVE TypeInv'
    BY <2>1, ContinueType, HeapTypes DEF MouseDropped, alienVars, TypeOK, LoopIndex
  <2>2. ASSUME MouseNoEffect PROVE TypeInv'
    <3>1. intr' \in SUBSET Devices /\ pc' \in PCs /\ LoopIndex'
      BY <2>2, GoOnType DEF MouseNoEffect, LoopIndex, Sections
    <3>2. QED
      BY <2>2, <3>1, HeapTypes DEF MouseNoEffect, alienVars, TypeOK
  <2>3. ASSUME ClickStart PROVE TypeInv'
    <3>1. intr' \in SUBSET Devices /\ pc' \in PCs /\ LoopIndex'
      BY <2>3, GoOnType DEF ClickStart, LoopIndex, Sections
    <3>2. INITIAL_ALIEN_SPEED + 2 * roundNum \in Nat
      BY GeometryAssumption DEF TypeOK
    <3>3. QED
      BY <2>3, <3>1, <3>2, InitGameType, HeapTypes DEF ClickStart, TypeOK
  <2>4. ASSUME NEW next \in {"INSTRUCTIONS_DISPLAY", "EXIT", "MENU_DISPLAY"}, ClickMenu(next)
        PROVE  TypeInv'
    <3>1. intr' \in SUBSET Devices /\ pc' \in PCs /\ LoopIndex'
      BY <2>4, GoOnType DEF ClickMenu, LoopIndex, Sections
    <3>2. gameState' \in GameStates
      BY <2>4 DEF ClickMenu, GameStates
    <3>3. QED
      BY <2>4, <3>1, <3>2, HeapTypes DEF ClickMenu, alienVars, TypeOK
  <2>5. ASSUME NEW c \in Chunks, ClickShoot(c) PROVE TypeInv'
    <3>1. intr' \in SUBSET Devices /\ pc' \in PCs /\ LoopIndex'
      BY <2>5, GoOnType DEF ClickShoot, LoopIndex, Sections
    <3>2. ship.x + SHIP_WIDTH \div 2 \in Int
      <4>1. ship.x \in Int
        BY ShipFields DEF TypeOK
      <4>2. SHIP_WIDTH \div 2 \in Int
        BY GeometryAssumption
      <4>3. QED
        BY <4>1, <4>2
    <3>3. SBTypeOK'
      BY <2>5, <3>2, CreateType, GeometryAssumption DEF ClickShoot, TypeOK
    <3>4. QED
      BY <2>5, <3>1, <3>3 DEF ClickShoot, alienVars, TypeOK
  <2>6. QED
    BY <1>2, <2>1, <2>2, <2>3, <2>4, <2>5 DEF Mouse
<1>3. ASSUME Keyboard PROVE TypeInv'
  <2> intr \ {"kbd"} \in SUBSET Devices
    BY DEF TypeOK
  <2>1. ASSUME KeyPrefix PROVE TypeInv'
    BY <2>1, ContinueType, HeapTypes DEF KeyPrefix, alienVars, TypeOK, LoopIndex
  <2>2. ASSUME KeyEscape PROVE TypeInv'
    BY <2>2, ContinueType, HeapTypes DEF KeyEscape, alienVars, TypeOK, LoopIndex, GameStates
  <2>3. ASSUME NEW move \in {-SHIP_SPEED, SHIP_SPEED}, updateShipPosition(move) PROVE TypeInv'
    <3>1. intr' \in SUBSET Devices /\ pc' \in PCs /\ LoopIndex'
      BY <2>3, GoOnType DEF updateShipPosition, LoopIndex, Sections
    <3>2. ship' \in Ship
      <4>1. ship.x \in Int
        BY ShipFields DEF TypeOK
      <4>2. clamp(X_MIN, X_MAX - SHIP_WIDTH, ship.x + move) \in Int
        BY <4>1, GeometryAssumption DEF clamp
      <4>3. ship' = [ship EXCEPT !.x = clamp(X_MIN, X_MAX - SHIP_WIDTH, ship.x + move)]
        BY <2>3 DEF updateShipPosition
      <4>4. QED
        BY Zenon, <4>2, <4>3, ShipFields DEF TypeOK
    <3>3. QED
      BY <2>3, <3>1, <3>2, HeapTypes DEF updateShipPosition, alienVars, TypeOK
  <2>4. ASSUME KeyOther PROVE TypeInv'
    <3>1. intr' \in SUBSET Devices /\ pc' \in PCs /\ LoopIndex'
      BY <2>4, GoOnType DEF KeyOther, LoopIndex, Sections
    <3>2. QED
      BY <2>4, <3>1, HeapTypes DEF KeyOther, alienVars, TypeOK
  <2>5. QED
    BY <1>3, <2>1, <2>2, <2>3, <2>4 DEF Keyboard
<1>4. ASSUME Leave PROVE TypeInv'
  BY <1>4, HeapTypes DEF Leave, alienVars, TypeOK, PCs, LoopIndex
<1>5. ASSUME UNCHANGED vars PROVE TypeInv'
  BY <1>5, HeapTypes DEF vars, alienVars, TypeOK, LoopIndex
<1>6. QED
  BY <1>1, <1>2, <1>3, <1>4, <1>5

\* A step of the timer section.
LEMMA TypeTimer ==
    ASSUME TypeInv, Timer
    PROVE  TypeInv'
<1> USE DEF TypeInv
<1>1. ASSUME TimerPlaying PROVE TypeInv'
  BY <1>1, CounterType, HeapTypes DEF TimerPlaying, alienVars, TypeOK, PCs, LoopIndex
<1>2. ASSUME TimerNextRound PROVE TypeInv'
  <2>1. intr' \in SUBSET Devices /\ pc' \in PCs /\ LoopIndex'
    BY <1>2, ContinueType DEF TimerNextRound, LoopIndex
  <2>2. NextSpeed \in Nat
    BY GeometryAssumption DEF NextSpeed, TypeOK
  <2>3. QED
    BY <1>2, <2>1, <2>2, InitGameType, CounterType, HeapTypes DEF TimerNextRound, TypeOK
<1>3. ASSUME TimerIdle PROVE TypeInv'
  BY <1>3, ContinueType, CounterType, HeapTypes DEF TimerIdle, alienVars, TypeOK, LoopIndex
<1>4. ASSUME MoveShipBullet PROVE TypeInv'
  <2>1. pc' \in PCs /\ LoopIndex'
    BY <1>4 DEF MoveShipBullet, PCs, LoopIndex
  <2>2. QED
    BY <1>4, <2>1, UpdateType DEF MoveShipBullet, alienVars, TypeOK
<1>5. ASSUME Draw PROVE TypeInv'
  <2>1. Held \subseteq Chunks
    BY DEF Held, TypeOK, SBTypeOK
  <2>2. SBTypeOK'
    BY <1>5, <2>1, HeapTypes DEF Draw, TypeOK
  <2>3. QED
    BY <1>5, <2>2 DEF Draw, alienVars, TypeOK, PCs, LoopIndex
<1>6. ASSUME NEW i \in Aliens, createAlienBullet(i) PROVE TypeInv'
  <2>1. alienBullet' \in [x : Int, y : Int, active : BOOLEAN]
    <3>1. aliens[i].x \in Int /\ aliens[i].y \in Int
      BY DEF TypeOK, Alien
    <3>2. ALIEN_WIDTH \div 2 \in Int /\ ALIEN_HEIGHT \in Int
      BY GeometryAssumption
    <3>3. aliens[i].x + ALIEN_WIDTH \div 2 \in Int /\ aliens[i].y + ALIEN_HEIGHT \in Int
      BY <3>1, <3>2
    <3>4. QED
      BY <1>6, <3>3 DEF createAlienBullet
  <2>2. LoopIndex'
    BY <1>6, ContinueType, CountAssumption DEF createAlienBullet, AlienMovement, LoopIndex
  <2>3. QED
    BY <1>6, <2>1, <2>2, AlienMovementType, HeapTypes DEF createAlienBullet, TypeOK
<1>7. ASSUME AlienBulletFlies PROVE TypeInv'
  <2> DEFINE b == updateAlienBulletPosition(alienBullet)
  <2>1. alienBullet' \in [x : Int, y : Int, active : BOOLEAN]
    BY <1>7, AlienBulletType DEF AlienBulletFlies
  <2>2. ship' \in Ship
    <3>1. ship' = [ship EXCEPT !.lives = AfterCollision(b)] /\ AfterCollision(b) \in Int
      BY <1>7, AlienBulletType DEF AlienBulletFlies
    <3>2. QED
      BY Zenon, <3>1, ShipFields DEF TypeOK
  <2>3. LoopIndex'
    BY <1>7, ContinueType, CountAssumption DEF AlienBulletFlies, AlienMovement, LoopIndex
  <2>4. QED
    BY <1>7, <2>1, <2>2, <2>3, AlienMovementType, HeapTypes DEF AlienBulletFlies, TypeOK
<1>8. ASSUME AlienBulletKills PROVE TypeInv'
  <2>1. alienBullet' \in [x : Int, y : Int, active : BOOLEAN]
    BY <1>8, AlienBulletType DEF AlienBulletKills
  <2>2. pc' \in PCs /\ intr' \in SUBSET Devices /\ LoopIndex'
    BY <1>8, ContinueType DEF AlienBulletKills, LoopIndex
  <2>3. QED
    BY <1>8, <2>1, <2>2, BackToMenuType, HeapTypes DEF AlienBulletKills, TypeOK
<1>9. ASSUME AlienDead PROVE TypeInv'
  <2>1. idx < SIZE_OF_ALIENS
    BY <1>9 DEF AlienDead, LoopIndex
  <2>2. LoopIndex'
    BY <1>9, <2>1, CountAssumption DEF AlienDead, NextAlien, LoopIndex, TypeOK
  <2>3. QED
    BY <1>9, <2>1, <2>2, NextAlienType, HeapTypes DEF AlienDead, TypeOK
<1>10. ASSUME AlienSurvives PROVE TypeInv'
  <2>1. idx < SIZE_OF_ALIENS /\ idx \in Aliens
    BY <1>10, CountAssumption DEF AlienSurvives, LoopIndex, TypeOK, Aliens
  <2>2. LoopIndex'
    BY <1>10, <2>1, CountAssumption DEF AlienSurvives, NextAlien, LoopIndex, TypeOK
  <2>3. aliens' \in [Aliens -> Alien]
    <3>1. aliens[idx] \in Alien
      BY <2>1 DEF TypeOK
    <3>2. Moved(aliens[idx]) \in Alien
      BY <3>1, MovedType
    <3>3. aliens' = [aliens EXCEPT ![idx] = Moved(aliens[idx])]
      BY <1>10 DEF AlienSurvives
    <3>4. QED
      BY <2>1, <3>2, <3>3 DEF TypeOK
  <2>4. ship' \in Ship /\ speed' \in Nat /\ roundNum' \in Nat /\ gameState' \in GameStates
    BY <1>10, TerritoryType DEF AlienSurvives, TypeOK
  <2>5. changeDir' \in BOOLEAN /\ killCount' \in Nat /\ SBTypeOK'
    BY <1>10, HeapTypes DEF AlienSurvives, TypeOK
  <2>6. QED
    BY <1>10, <2>1, <2>2, <2>3, <2>4, <2>5, NextAlienType DEF AlienSurvives, TypeOK
<1>11. ASSUME NEW j \in Slots, AlienKilled(j) PROVE TypeInv'
  <2>1. idx < SIZE_OF_ALIENS /\ idx \in Aliens
    BY <1>11, CountAssumption DEF AlienKilled, LoopIndex, TypeOK, Aliens
  <2>2. LoopIndex'
    BY <1>11, <2>1, CountAssumption DEF AlienKilled, NextAlien, LoopIndex, TypeOK
  <2>3. aliens' \in [Aliens -> Alien]
    <3> DEFINE a == Moved(aliens[idx])
               d == [a EXCEPT !.alive = FALSE]
    <3>1. aliens[idx] \in Alien
      BY <2>1 DEF TypeOK
    <3>2. a \in Alien
      BY <3>1, MovedType
    <3>3. aliens' = [aliens EXCEPT ![idx] = d]
      BY <1>11 DEF AlienKilled
    <3> HIDE DEF a
    <3>4. d \in Alien
      BY Zenon, <3>2 DEF Alien
    <3> HIDE DEF d
    <3>5. QED
      BY <2>1, <3>3, <3>4 DEF TypeOK
  <2>4. ship' \in Ship /\ speed' \in Nat /\ roundNum' \in Nat /\ gameState' \in GameStates
    <3>1. ship \in Ship /\ ship.score \in Nat
      BY ShipFields DEF TypeOK
    <3>2. ship.score + Value(idx) \in Nat
      BY <3>1, ValueType
    <3>3. [ship EXCEPT !.score = ship.score + Value(idx)] \in Ship
      BY <3>1, <3>2, ShipFields
    <3>4. QED
      BY <1>11, <3>3, TerritoryType DEF AlienKilled
  <2>5. changeDir' \in BOOLEAN /\ killCount' \in Nat
    BY <1>11 DEF AlienKilled, TypeOK
  <2>6. SBTypeOK'
    BY <1>11, SpendType DEF AlienKilled, Hits, TypeOK
  <2>7. QED
    BY <1>11, <2>1, <2>2, <2>3, <2>4, <2>5, <2>6, NextAlienType DEF AlienKilled, TypeOK
<1>12. ASSUME FrameEnd PROVE TypeInv'
  <2>1. aliens' \in [Aliens -> Alien]
    <3>1. ASSUME NEW a \in Alien PROVE [a EXCEPT !.y = @ + ALIEN_DROP] \in Alien
      BY GeometryAssumption DEF Alien
    <3>2. change_all_y(aliens) \in [Aliens -> Alien]
      BY <3>1 DEF change_all_y, TypeOK
    <3>3. QED
      BY <1>12, <3>2 DEF FrameEnd, TypeOK
  <2>2. right_mov' \in BOOLEAN
    BY Zenon, <1>12 DEF FrameEnd, Turned, TypeOK
  <2>3. pc' \in PCs /\ intr' \in SUBSET Devices /\ LoopIndex' /\ changeDir' \in BOOLEAN
    BY Zenon, <1>12, ContinueType DEF FrameEnd, LoopIndex
  <2>4. timer_counter' \in 0 .. ipf /\ idx' \in 0 .. SIZE_OF_ALIENS
    BY <1>12, CountAssumption DEF FrameEnd
  <2>5. QED
    BY <1>12, <2>1, <2>2, <2>3, <2>4, HeapTypes DEF FrameEnd, TypeOK
<1>13. QED
  BY <1>1, <1>2, <1>3, <1>4, <1>5, <1>6, <1>7, <1>8, <1>9, <1>10, <1>11, <1>12 DEF Timer

\* Every step keeps the types.
LEMMA TypeNext == TypeInv /\ [Next]_vars => TypeInv'
BY TypeEvents, TypeTimer DEF Next, Done

\* Every variable of the program keeps its type, whatever the bullets' heap
\* contains and in whatever order messages arrive; in particular the frame
\* counter stays within ipf and every index of the alien loop is in range.
THEOREM TypeCorrect == Spec => []TypeOK
<1>1. TypeInv => TypeOK
  BY DEF TypeInv
<1>2. QED
  BY TypeInit, TypeNext, <1>1, PTL DEF Spec

-------------------------------------------------------------------------------

(***************************************************************************)
(* The steps of the game, for the proofs of the modules that extend this   *)
(* one.                                                                    *)
(***************************************************************************)

\* A step that leaves the game alone, whatever it does to the message.
Quiet ==
    /\ UNCHANGED <<gameState, aliens, killCount, speed, right_mov, changeDir, ship,
                   roundNum, sbVars>>
    /\ \/ pc \in Sections /\ pc' \in Sections \cup {"done"}
       \/ pc' = pc /\ idx' = idx

\* Every step is quiet or one of the steps that change the game.
LEMMA StepCases ==
    ASSUME TypeInv, [Next]_vars
    PROVE  \/ Quiet
           \/ ClickStart
           \/ \E next \in {"INSTRUCTIONS_DISPLAY", "EXIT", "MENU_DISPLAY"} : ClickMenu(next)
           \/ \E c \in Chunks : ClickShoot(c)
           \/ KeyEscape
           \/ \E move \in {-SHIP_SPEED, SHIP_SPEED} : updateShipPosition(move)
           \/ TimerPlaying \/ TimerNextRound \/ MoveShipBullet \/ Draw
           \/ \E i \in Aliens : createAlienBullet(i)
           \/ AlienBulletFlies \/ AlienBulletKills
           \/ AlienDead \/ AlienSurvives
           \/ \E j \in Slots : AlienKilled(j)
           \/ FrameEnd
<1>1. ASSUME NEW bits, GoOn(bits) PROVE pc' \in Sections
  BY <1>1, SectionType DEF GoOn
<1>2. Continue => pc' \in Sections
  BY <1>1 DEF Continue
<1>3. ASSUME NEW bits \in SUBSET Devices, Receive(bits) PROVE Quiet
  BY <1>3, <1>1 DEF Receive, Quiet, alienVars, Sections
<1>4. Leave \/ UNCHANGED vars => Quiet
  BY DEF Leave, vars, Quiet, alienVars, sbVars, Sections
<1>5. MouseDropped \/ KeyPrefix => Quiet
  BY <1>2 DEF MouseDropped, KeyPrefix, Quiet, alienVars, Sections
<1>6. MouseNoEffect => Quiet
  BY <1>1 DEF MouseNoEffect, Quiet, alienVars, Sections
<1>7. KeyOther => Quiet
  BY <1>1 DEF KeyOther, Quiet, alienVars, Sections
<1>8. TimerIdle => Quiet
  BY <1>2 DEF TimerIdle, Quiet, alienVars, Sections
<1>9. QED
  BY <1>3, <1>4, <1>5, <1>6, <1>7, <1>8 DEF Next, Mouse, Keyboard, Timer, Done

-------------------------------------------------------------------------------
(***************************************************************************)
(* The way out of the loop.  A click or ESC sets EXIT in the middle of the *)
(* loop body, and what is left of the message is handled first.            *)
(***************************************************************************)

\* Weak fairness of the sections and of the end of the loop, with the condition
\* under which they can take a step written out.
KeyboardRuns == []<>~(pc = "keyboard") \/ []<><<Keyboard>>_vars

TimerRuns == []<>~(pc = "timer" /\ gameState = "EXIT") \/ []<><<Timer>>_vars

LoopEnds == []<>~(pc = "receive" /\ ~Loops) \/ []<><<Leave>>_vars

\* The mouse comes first in a message, so it is not still to be handled when the
\* keyboard is, nor once the player has left.
ExitInv ==
    /\ pc = "keyboard" => "mouse" \notin intr
    /\ gameState = "EXIT" => pc \in {"keyboard", "timer", "receive", "done"}

\* Where the rest of a message goes on.
LEMMA GoOnSection ==
    ASSUME NEW bits, GoOn(bits)
    PROVE  /\ pc' \in Sections
           /\ pc' = "keyboard" => "mouse" \notin intr'
           /\ pc' = "mouse" => "mouse" \in bits
BY DEF GoOn, Section, Sections

\* No step of the timer section or the alien loop leaves the game.
LEMMA TimerStays ==
    ASSUME Timer
    PROVE  /\ pc \notin {"keyboard", "mouse", "receive", "done"} /\ pc' \notin {"keyboard", "mouse"}
           /\ gameState' = "EXIT" => gameState = "EXIT"
           /\ gameState = "EXIT" /\ pc = "timer" => pc' = "receive" /\ gameState' = "EXIT"
<1>1. AlienMovement => pc' \in {"receive", "aliens"}
  BY ContinueType DEF AlienMovement
<1>2. NextAlien => pc' \in {"aliens", "frameEnd"}
  BY DEF NextAlien
<1>3. \A a, kills, s : CheckTerritory(a, kills, s) /\ gameState' = "EXIT" => gameState = "EXIT"
  BY DEF CheckTerritory, BackToMenu
<1>4. CASE TimerPlaying \/ TimerNextRound \/ TimerIdle
  BY <1>4, ContinueType DEF TimerPlaying, TimerNextRound, TimerIdle, initGame
<1>5. CASE MoveShipBullet \/ Draw
  BY <1>5 DEF MoveShipBullet, Draw
<1>6. CASE \E i \in Aliens : createAlienBullet(i)
  BY <1>1, <1>6 DEF createAlienBullet
<1>7. CASE AlienBulletFlies \/ AlienBulletKills
  BY <1>1, <1>7, ContinueType DEF AlienBulletFlies, AlienBulletKills, BackToMenu
<1>8. CASE AlienDead \/ FrameEnd
  BY <1>2, <1>8, ContinueType DEF AlienDead, FrameEnd
<1>9. CASE AlienSurvives
  BY <1>2, <1>3, <1>9 DEF AlienSurvives
<1>10. CASE \E j \in Slots : AlienKilled(j)
  BY <1>2, <1>3, <1>10 DEF AlienKilled
<1>11. QED
  BY <1>4, <1>5, <1>6, <1>7, <1>8, <1>9, <1>10 DEF Timer

\* What a step of the keyboard section does.
LEMMA KeyboardStays ==
    ASSUME Keyboard, "mouse" \notin intr
    PROVE  /\ pc = "keyboard" /\ pc' \in {"timer", "receive"}
           /\ gameState = "EXIT" => gameState' = "EXIT"
<1>1. pc = "keyboard" /\ (GoOn({}) \/ GoOn(intr \ {"kbd"}))
  BY DEF Keyboard, KeyPrefix, KeyEscape, updateShipPosition, KeyOther, Continue
<1>2. pc' \in {"timer", "receive"}
  BY <1>1 DEF GoOn, Section
<1>3. gameState = "EXIT" => gameState' = "EXIT"
  BY DEF Keyboard, KeyPrefix, KeyEscape, updateShipPosition, KeyOther
<1>4. QED
  BY <1>1, <1>2, <1>3

LEMMA ExitInvNext ==
    ASSUME ExitInv, [Next]_vars
    PROVE  ExitInv'
<1>1. CASE \E bits \in SUBSET Devices : Receive(bits)
  BY <1>1, GoOnSection DEF Receive, Loops, ExitInv
<1>2. CASE Mouse
  <2>1. pc = "mouse" /\ gameState # "EXIT"
    BY <1>2 DEF Mouse, MouseDropped, MouseNoEffect, ClickStart, ClickMenu, ClickShoot, ExitInv
  <2>2. \E bits : GoOn(bits) /\ "mouse" \notin bits
    BY <1>2 DEF Mouse, MouseDropped, MouseNoEffect, ClickStart, ClickMenu, ClickShoot, Continue
  <2>3. QED
    BY <2>2, GoOnSection DEF ExitInv, Sections
<1>3. CASE Keyboard
  <2>1. pc = "keyboard"
    BY <1>3 DEF Keyboard, KeyPrefix, KeyEscape, updateShipPosition, KeyOther
  <2>2. pc' \in {"timer", "receive"}
    BY <1>3, <2>1, KeyboardStays DEF ExitInv
  <2>3. QED
    BY <2>2 DEF ExitInv
<1>4. CASE Timer
  BY <1>4, TimerStays DEF ExitInv
<1>5. CASE Leave \/ Done \/ UNCHANGED vars
  BY <1>5 DEF Leave, Done, vars, ExitInv
<1>6. QED
  BY <1>1, <1>2, <1>3, <1>4, <1>5 DEF Next

Leaving(at) == gameState = "EXIT" /\ pc = at

\* What is left of the message is handled, and the loop ends.
LEMMA ExitAdvances ==
    ASSUME ExitInv, [Next]_vars
    PROVE  /\ Leaving("keyboard") =>
                /\ Leaving("keyboard")' \/ Leaving("timer")' \/ Leaving("receive")'
                /\ <<Keyboard>>_vars => Leaving("timer")' \/ Leaving("receive")'
           /\ Leaving("timer") =>
                /\ Leaving("timer")' \/ Leaving("receive")'
                /\ <<Timer>>_vars => Leaving("receive")'
           /\ Leaving("receive") =>
                /\ ~Loops
                /\ Leaving("receive")' \/ pc' = "done"
                /\ <<Leave>>_vars => pc' = "done"
<1> USE DEF Leaving
<1>1. ASSUME gameState = "EXIT", pc # "keyboard" PROVE ~Keyboard
  BY <1>1 DEF Keyboard, KeyPrefix, KeyEscape, updateShipPosition, KeyOther
<1>2. ASSUME gameState = "EXIT" PROVE ~Mouse
  BY <1>2 DEF Mouse, MouseDropped, MouseNoEffect, ClickStart, ClickMenu, ClickShoot, ExitInv
<1>3. ASSUME gameState = "EXIT" PROVE \A bits : ~Receive(bits)
  BY <1>3 DEF Receive, Loops
<1>4. UNCHANGED vars \/ Done => UNCHANGED <<pc, gameState>>
  BY DEF vars, Done
<1>5. Leave => pc = "receive" /\ pc' = "done"
  BY DEF Leave
<1>6. ASSUME Leaving("keyboard")
      PROVE  /\ Keyboard => Leaving("timer")' \/ Leaving("receive")'
             /\ Keyboard \/ UNCHANGED <<pc, gameState>>
  <2>1. Keyboard => Leaving("timer")' \/ Leaving("receive")'
    BY <1>6, KeyboardStays DEF ExitInv
  <2>2. ~Timer
    BY <1>6, TimerStays
  <2>3. QED
    BY <1>2, <1>3, <1>4, <1>5, <1>6, <2>1, <2>2 DEF Next
<1>7. ASSUME Leaving("timer")
      PROVE  (Timer => Leaving("receive")') /\ (Timer \/ UNCHANGED <<pc, gameState>>)
  BY <1>1, <1>2, <1>3, <1>4, <1>5, <1>7, TimerStays DEF Next
<1>8. ASSUME Leaving("receive")
      PROVE  ~Loops /\ (Leave \/ UNCHANGED <<pc, gameState>>)
  BY <1>1, <1>2, <1>3, <1>4, <1>8, TimerStays DEF Next, Loops
<1>9. QED
  BY <1>5, <1>6, <1>7, <1>8

(***************************************************************************)
(* Once the player has chosen to leave, by a click or by ESC, the loop     *)
(* ends: what is left of the message is handled and no other message is    *)
(* waited for.                                                             *)
(***************************************************************************)
THEOREM ExitEndsTheorem == Spec /\ KeyboardRuns /\ TimerRuns /\ LoopEnds => ExitEnds
<1>1. Init => ExitInv
  BY DEF Init, ExitInv
<1>2. ExitInv /\ [Next]_vars => ExitInv'
  BY ExitInvNext
<1>3. ExitInv /\ gameState = "EXIT" =>
        Leaving("keyboard") \/ Leaving("timer") \/ Leaving("receive") \/ pc = "done"
  BY DEF ExitInv, Leaving
<1>4. ExitInv /\ [Next]_vars =>
        /\ Leaving("keyboard") =>
             /\ Leaving("keyboard")' \/ Leaving("timer")' \/ Leaving("receive")'
             /\ <<Keyboard>>_vars => Leaving("timer")' \/ Leaving("receive")'
        /\ Leaving("timer") =>
             /\ Leaving("timer")' \/ Leaving("receive")'
             /\ <<Timer>>_vars => Leaving("receive")'
        /\ Leaving("receive") =>
             /\ ~Loops
             /\ Leaving("receive")' \/ (pc = "done")'
             /\ <<Leave>>_vars => (pc = "done")'
  BY ExitAdvances
<1>5. /\ Leaving("keyboard") => pc = "keyboard"
      /\ Leaving("timer") => pc = "timer" /\ gameState = "EXIT"
      /\ Leaving("receive") => pc = "receive"
  BY DEF Leaving
<1>6. QED
  BY <1>1, <1>2, <1>3, <1>4, <1>5, PTL
     DEF Spec, ExitEnds, KeyboardRuns, TimerRuns, LoopEnds

===============================================================================
