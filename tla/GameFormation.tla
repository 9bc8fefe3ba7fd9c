---------------------------- MODULE GameFormation -----------------------------
(***************************************************************************)
(* The aliens keep their formation between the borders and above the       *)
(* territory, for any number of aliens and at the speed of any round.      *)
(* FormationKept, BorderAhead and TerritoryHolds speak of the states       *)
(* between two messages; the invariant also says what the alien loop has   *)
(* done so far in a frame.  From it, a rank that every frame of a round    *)
(* makes smaller.                                                          *)
(***************************************************************************)
EXTENDS GameTypes

InLoop == pc \in {"aliens", "frameEnd"}

Alive(i) == aliens[i].alive

\* How far the alien loop has moved an alien in this frame.
StepX(i) == IF InLoop /\ i < idx THEN IF right_mov THEN speed ELSE 0 - speed ELSE 0

\* How far an alien was from its first place when the frame began.
ShiftX(i) == aliens[i].x - createAlien(i).x - StepX(i)
ShiftY(i) == aliens[i].y - createAlien(i).y

Together ==
    \A i, j \in Aliens : Alive(i) /\ Alive(j) => ShiftX(i) = ShiftX(j) /\ ShiftY(i) = ShiftY(j)

Ahead(i) ==
    /\ IF right_mov THEN aliens[i].x + ALIEN_WIDTH < X_RIGHT_BORDER
                    ELSE aliens[i].x > X_LEFT_BORDER
    /\ aliens[i].y + ALIEN_HEIGHT < TERRITORY + ALIEN_DROP

\* An alien, dead by now or not, has reached the border with the formation.
BorderReached ==
    \E k \in Aliens : /\ k < idx
                      /\ AtBorder(aliens[k])
                      /\ \A i \in Aliens : Alive(i) => ShiftX(i) = ShiftX(k)

(***************************************************************************)
(* In the middle of a frame the aliens below idx are one step ahead of the *)
(* others and have been tested.                                            *)
(***************************************************************************)
FormationInv ==
    /\ pc = "frameEnd" => idx = SIZE_OF_ALIENS
    /\ gameState = "PLAYING" => Together
    /\ gameState = "PLAYING" /\ ~InLoop => \A i \in Aliens : Alive(i) => Ahead(i)
    /\ gameState = "PLAYING" /\ InLoop =>
         /\ changeDir => BorderReached
         /\ \A i \in Aliens : i < idx /\ Alive(i) =>
              /\ ~Crossed(aliens[i])
              /\ ~changeDir => ~AtBorder(aliens[i])

\* The fields of aliens, for arithmetic.
LEMMA AlienFields ==
    ASSUME TypeInv
    PROVE  /\ speed \in Nat /\ right_mov \in BOOLEAN /\ idx \in 0 .. SIZE_OF_ALIENS
           /\ \A i \in Aliens : /\ aliens[i] \in Alien /\ aliens[i].x \in Int /\ aliens[i].y \in Int
                                /\ createAlien(i).x \in Int /\ createAlien(i).y \in Int
<1>1. \A a \in Alien : a.x \in Int /\ a.y \in Int
  BY DEF Alien
<1>2. QED
  BY <1>1, CreateAlienType DEF TypeInv, TypeOK

\* A new formation has not moved.
LEMMA FormationNew ==
    ASSUME TypeInv, TypeInv', NEW s, initGame(s), pc' \notin {"aliens", "frameEnd"}
    PROVE  FormationInv'
<1>1. \A i \in Aliens : aliens'[i] = createAlien(i)
  BY DEF initGame
<1>2. \A i \in Aliens : ShiftX(i)' = 0 /\ ShiftY(i)' = 0
  BY <1>1, AlienFields DEF ShiftX, ShiftY, StepX, InLoop
<1>3. \A i \in Aliens : Ahead(i)'
  BY <1>1, FormationAssumption DEF Ahead
<1>4. QED
  BY <1>2, <1>3 DEF FormationInv, Together, InLoop

\* A step outside the alien loop that leaves the aliens where they are.
LEMMA FormationStill ==
    ASSUME TypeInv, FormationInv, ~InLoop,
           UNCHANGED <<aliens, right_mov>>,
           gameState' = "PLAYING" => gameState = "PLAYING",
           \/ pc' \notin {"aliens", "frameEnd"}
           \/ pc' = "aliens" /\ idx' = 0 /\ changeDir' = FALSE
    PROVE  FormationInv'
<1>1. \A i \in Aliens : ~(i < 0)
  BY CountAssumption DEF Aliens
<1>2. \A i \in Aliens : Alive(i)' = Alive(i) /\ Ahead(i)' = Ahead(i)
  BY DEF Alive, Ahead
<1>3. \A i \in Aliens : ShiftX(i)' = ShiftX(i) /\ ShiftY(i)' = ShiftY(i)
  BY <1>1 DEF ShiftX, ShiftY, StepX, InLoop
<1>4. Together => Together'
  BY <1>2, <1>3 DEF Together
<1>5. CASE ~InLoop'
  BY <1>2, <1>4, <1>5 DEF FormationInv, InLoop
<1>6. CASE pc' = "aliens" /\ idx' = 0 /\ changeDir' = FALSE
  BY <1>1, <1>2, <1>4, <1>6 DEF FormationInv
<1>7. QED
  BY Zenon, <1>5, <1>6 DEF InLoop

\* The alien loop passes a dead alien.
LEMMA FormationDead ==
    ASSUME TypeInv, FormationInv, AlienDead
    PROVE  FormationInv'
<1>1. /\ pc = "aliens" /\ ~Alive(idx) /\ idx' = idx + 1
      /\ pc' = IF idx' = SIZE_OF_ALIENS THEN "frameEnd" ELSE "aliens"
      /\ UNCHANGED <<gameState, aliens, changeDir, speed, right_mov>>
  BY DEF AlienDead, NextAlien, Alive
<1>2. \A i \in Aliens : i # idx => (i < idx' <=> i < idx)
  BY <1>1, AlienFields DEF Aliens
<1>3. InLoop /\ InLoop'
  BY <1>1 DEF InLoop
<1>4. \A i \in Aliens : i # idx => ShiftX(i)' = ShiftX(i)
  BY <1>1, <1>2, <1>3 DEF ShiftX, StepX
<1>5. \A i \in Aliens : Alive(i)' = Alive(i) /\ ShiftY(i)' = ShiftY(i)
  BY <1>1 DEF Alive, ShiftY
<1>6. \A i \in Aliens : /\ AtBorder(aliens[i])' = AtBorder(aliens[i])
                        /\ Crossed(aliens[i])' = Crossed(aliens[i])
  BY <1>1 DEF AtBorder, Crossed
<1>7. Together => Together'
  BY <1>1, <1>4, <1>5 DEF Together
<1>8. BorderReached => BorderReached'
  <2> SUFFICES ASSUME BorderReached PROVE BorderReached'
    OBVIOUS
  <2>1. PICK k \in Aliens : /\ k < idx /\ AtBorder(aliens[k])
                            /\ \A i \in Aliens : Alive(i) => ShiftX(i) = ShiftX(k)
    BY DEF BorderReached
  <2>2. k # idx
    BY <2>1, AlienFields DEF Aliens
  <2>3. k < idx' /\ AtBorder(aliens[k])'
    BY <1>2, <1>6, <2>1, <2>2
  <2>4. \A i \in Aliens : Alive(i)' => ShiftX(i)' = ShiftX(k)'
    BY <1>1, <1>4, <1>5, <2>1, <2>2
  <2>5. QED
    BY <2>3, <2>4 DEF BorderReached
<1>9. \A i \in Aliens : i < idx' /\ Alive(i)' => i < idx /\ Alive(i)
  BY <1>1, <1>2, <1>5
<1>10. QED
  BY <1>1, <1>3, <1>6, <1>7, <1>8, <1>9 DEF FormationInv

\* The alien loop moves an alien that does not cross; the alien may be hit.
LEMMA FormationMoves ==
    ASSUME TypeInv, FormationInv, gameState = "PLAYING",
           pc = "aliens", NEW n, n = idx, Alive(n), NextAlien, speed' = speed,
           NEW b \in Alien, b.x = Moved(aliens[n]).x, b.y = Moved(aliens[n]).y,
           aliens' = [aliens EXCEPT ![n] = b], ~Crossed(b),
           changeDir' = (changeDir \/ AtBorder(b))
    PROVE  FormationInv'
<1>1. /\ idx' = n + 1 /\ right_mov' = right_mov
      /\ pc' = IF idx' = SIZE_OF_ALIENS THEN "frameEnd" ELSE "aliens"
  BY DEF NextAlien
<1>2. InLoop /\ InLoop'
  BY <1>1 DEF InLoop
<1>3. n \in Aliens /\ \A i \in Aliens : i # n => (i < idx' <=> i < idx)
  BY <1>1, AlienFields, CountAssumption DEF Aliens, TypeInv, LoopIndex
<1>4. aliens'[n] = b /\ \A i \in Aliens : i # n => aliens'[i] = aliens[i]
  BY <1>3 DEF TypeInv, TypeOK
<1>5. b.y = aliens[n].y /\ b.x = aliens[n].x + (IF right_mov THEN speed ELSE 0 - speed)
  <2>1. aliens[n] \in Alien /\ speed \in Nat
    BY <1>3, AlienFields
  <2>2. QED
    BY <2>1 DEF Moved, Alien
<1>6. \A i \in Aliens : ShiftX(i)' = ShiftX(i) /\ ShiftY(i)' = ShiftY(i)
  <2>1. \A i \in Aliens : i # n => ShiftX(i)' = ShiftX(i) /\ ShiftY(i)' = ShiftY(i)
    BY <1>1, <1>2, <1>3, <1>4 DEF ShiftX, ShiftY, StepX
  <2>2. ShiftX(n)' = ShiftX(n)
    <3>1. StepX(n) = 0 /\ StepX(n)' = IF right_mov THEN speed ELSE 0 - speed
      BY <1>1, <1>2, <1>3, AlienFields DEF StepX
    <3>2. ShiftX(n)' = b.x - createAlien(n).x - StepX(n)'
      <4>1. n < idx'
        BY <1>1, AlienFields
      <4>2. QED
        BY <1>1, <1>2, <1>4, <3>1, <4>1 DEF ShiftX, StepX
    <3>3. QED
      BY <1>3, <1>5, <3>1, <3>2, AlienFields DEF ShiftX
  <2>3. ShiftY(n)' = ShiftY(n)
    BY <1>4, <1>5 DEF ShiftY
  <2>4. QED
    BY <2>1, <2>2, <2>3
<1>7. \A i \in Aliens : Alive(i)' => Alive(i)
  BY <1>4 DEF Alive
<1>8. Together'
  BY <1>6, <1>7 DEF FormationInv, Together
<1>9. changeDir' => BorderReached'
  <2>1. ASSUME AtBorder(b) PROVE BorderReached'
    <3>1. n < idx' /\ AtBorder(aliens[n])'
      BY <1>1, <1>4, <2>1, AlienFields DEF AtBorder
    <3>2. \A i \in Aliens : Alive(i)' => ShiftX(i)' = ShiftX(n)'
      BY Zenon, <1>3, <1>6, <1>7 DEF FormationInv, Together
    <3>3. QED
      BY <1>3, <3>1, <3>2 DEF BorderReached
  <2>2. ASSUME changeDir PROVE BorderReached'
    <3>1. PICK k \in Aliens : /\ k < idx /\ AtBorder(aliens[k])
                              /\ \A i \in Aliens : Alive(i) => ShiftX(i) = ShiftX(k)
      BY <1>2, <2>2 DEF FormationInv, BorderReached
    <3>2. k # n
      BY <3>1, AlienFields
    <3>3. k < idx' /\ AtBorder(aliens[k])'
      BY <1>1, <1>3, <1>4, <3>1, <3>2 DEF AtBorder
    <3>4. QED
      BY Zenon, <1>6, <1>7, <3>1, <3>3 DEF BorderReached
  <2>3. QED
    BY Zenon, <2>1, <2>2
<1>10. ASSUME NEW i \in Aliens, i < idx', Alive(i)'
       PROVE  ~Crossed(aliens[i])' /\ (~changeDir' => ~AtBorder(aliens[i])')
  <2>1. CASE i = n
    BY Zenon, <1>1, <1>4, <2>1 DEF Crossed, AtBorder
  <2>2. CASE i # n
    <3>1. ~Crossed(aliens[i]) /\ (~changeDir => ~AtBorder(aliens[i]))
      BY <1>2, <1>3, <1>7, <1>10, <2>2 DEF FormationInv
    <3>2. QED
      BY Zenon, <1>1, <1>4, <2>2, <3>1 DEF Crossed, AtBorder
  <2>3. QED
    BY Zenon, <2>1, <2>2
<1>11. QED
  BY <1>1, <1>2, <1>8, <1>9, <1>10 DEF FormationInv

LEMMA SameShift ==
    ASSUME NEW a \in Int, NEW b \in Int, NEW c \in Int, NEW d \in Int, NEW e \in Int,
           a - b - e = c - d - e
    PROVE  a - b = c - d
OBVIOUS

\* The end of a frame: all aliens alive have moved, and if one of them has
\* reached a border the formation is narrow enough to be away from the other.
LEMMA FormationFrameEnd ==
    ASSUME TypeInv, FormationInv, FrameEnd
    PROVE  FormationInv'
<1> SUFFICES ASSUME gameState = "PLAYING" PROVE FormationInv'
  BY ContinueType DEF FormationInv, FrameEnd
<1> DEFINE dx == IF right_mov THEN speed ELSE 0 - speed
           dy == IF changeDir THEN ALIEN_DROP ELSE 0
<1>1. /\ pc = "frameEnd" /\ InLoop /\ pc' = "receive" /\ ~InLoop' /\ gameState' = "PLAYING"
      /\ right_mov' = (IF changeDir THEN ~right_mov ELSE right_mov)
  BY ContinueType DEF FrameEnd, InLoop, Turned
<1>2. \A i \in Aliens : i < idx /\ i \in Int
  BY <1>1, CountAssumption DEF FormationInv, Aliens
<1>3. ASSUME NEW i \in Aliens
      PROVE  aliens'[i].x = aliens[i].x /\ aliens'[i].y = aliens[i].y + dy /\ Alive(i)' = Alive(i)
  <2>1. aliens[i] \in Alien /\ ALIEN_DROP \in Nat
    BY AlienFields, GeometryAssumption
  <2>2. CASE ~changeDir
    <3>1. aliens' = aliens
      BY <2>2 DEF FrameEnd
    <3>2. QED
      BY <2>2, <3>1, AlienFields DEF Alive
  <2>3. CASE changeDir
    <3>1. aliens'[i] = [aliens[i] EXCEPT !.y = aliens[i].y + ALIEN_DROP]
      BY <2>3 DEF FrameEnd, change_all_y
    <3>2. QED
      BY <2>1, <2>3, <3>1 DEF Alive, Alien
  <2>4. QED
    BY <2>2, <2>3
<1>4. /\ dx \in Int /\ dy \in Nat /\ dy <= ALIEN_DROP
      /\ ALIEN_WIDTH \in Nat /\ ALIEN_HEIGHT \in Nat /\ TERRITORY \in Nat /\ ALIEN_DROP \in Nat
      /\ X_LEFT_BORDER \in Nat /\ X_RIGHT_BORDER \in Nat
  BY AlienFields, GeometryAssumption
<1>5. ASSUME NEW i \in Aliens
      PROVE  /\ ShiftX(i) = aliens[i].x - createAlien(i).x - dx
             /\ ShiftX(i)' = aliens[i].x - createAlien(i).x
             /\ ShiftY(i) = aliens[i].y - createAlien(i).y
             /\ ShiftY(i)' = aliens[i].y + dy - createAlien(i).y
  <2>1. StepX(i) = dx /\ StepX(i)' = 0
    BY <1>1, <1>2 DEF StepX
  <2> HIDE DEF dx, dy
  <2>2. QED
    BY <1>3, <1>4, <2>1, AlienFields DEF ShiftX, ShiftY
<1> HIDE DEF dx, dy
<1>6. Together'
  <2> SUFFICES ASSUME NEW i \in Aliens, NEW j \in Aliens, Alive(i)', Alive(j)'
               PROVE  ShiftX(i)' = ShiftX(j)' /\ ShiftY(i)' = ShiftY(j)'
    BY DEF Together
  <2>1. ShiftX(i) = ShiftX(j) /\ ShiftY(i) = ShiftY(j)
    BY <1>3 DEF FormationInv, Together
  <2>2. QED
    BY <1>4, <1>5, <2>1, AlienFields
<1>7. ASSUME NEW i \in Aliens, Alive(i)' PROVE Ahead(i)'
  <2>1. Alive(i) /\ ~Crossed(aliens[i]) /\ (~changeDir => ~AtBorder(aliens[i]))
    BY <1>1, <1>2, <1>3, <1>7 DEF FormationInv
  <2>2. aliens'[i].y + ALIEN_HEIGHT < TERRITORY + ALIEN_DROP
    BY <1>3, <1>4, <2>1, AlienFields DEF Crossed
  <2>3. CASE ~changeDir
    <3>1. right_mov' = right_mov /\ aliens'[i].x = aliens[i].x /\ aliens[i].x \in Int
      BY <1>1, <1>3, <2>3, AlienFields
    <3>2. IF right_mov THEN aliens[i].x + ALIEN_WIDTH < X_RIGHT_BORDER
                       ELSE aliens[i].x > X_LEFT_BORDER
      BY <1>4, <2>1, <2>3, <3>1 DEF AtBorder
    <3>3. QED
      BY <2>2, <3>1, <3>2 DEF Ahead
  <2>4. CASE changeDir
    <3>1. PICK k \in Aliens : /\ AtBorder(aliens[k])
                              /\ \A m \in Aliens : Alive(m) => ShiftX(m) = ShiftX(k)
      BY <1>1, <2>4 DEF FormationInv, BorderReached
    <3>2. aliens[i].x - createAlien(i).x = aliens[k].x - createAlien(k).x
      <4>1. ShiftX(i) = ShiftX(k)
        BY <2>1, <3>1
      <4>2. /\ ShiftX(i) = aliens[i].x - createAlien(i).x - dx
            /\ ShiftX(k) = aliens[k].x - createAlien(k).x - dx
        BY <1>5
      <4>3. /\ aliens[i].x \in Int /\ createAlien(i).x \in Int
            /\ aliens[k].x \in Int /\ createAlien(k).x \in Int
        BY AlienFields
      <4>4. dx \in Int
        BY <1>4
      <4>5. aliens[i].x - createAlien(i).x - dx = aliens[k].x - createAlien(k).x - dx
        BY Zenon, <4>1, <4>2
      <4>6. QED
        BY <4>3, <4>4, <4>5, SameShift
    <3>3. /\ createAlien(i).x > X_LEFT_BORDER /\ createAlien(i).x + ALIEN_WIDTH < X_RIGHT_BORDER
          /\ createAlien(k).x > X_LEFT_BORDER /\ createAlien(k).x + ALIEN_WIDTH < X_RIGHT_BORDER
      BY FormationAssumption
    <3>4. CASE right_mov
      <4>1. aliens[k].x + ALIEN_WIDTH >= X_RIGHT_BORDER /\ right_mov' = FALSE
        BY Zenon, <1>1, <2>4, <3>1, <3>4 DEF AtBorder
      <4>2. aliens[i].x > X_LEFT_BORDER
        BY <1>4, <3>2, <3>3, <4>1, AlienFields
      <4>3. QED
        BY <1>3, <2>2, <4>1, <4>2 DEF Ahead
    <3>5. CASE ~right_mov
      <4>1. aliens[k].x <= X_LEFT_BORDER /\ right_mov' = TRUE
        BY Zenon, <1>1, <2>4, <3>1, <3>5 DEF AtBorder
      <4>2. aliens[i].x + ALIEN_WIDTH < X_RIGHT_BORDER
        BY <1>4, <3>2, <3>3, <4>1, AlienFields
      <4>3. QED
        BY <1>3, <2>2, <4>1, <4>2 DEF Ahead
    <3>6. QED
      BY <3>4, <3>5
  <2>5. QED
    BY <2>3, <2>4
<1>8. QED
  BY <1>1, <1>6, <1>7 DEF FormationInv

\* One alien that is alive goes through the alien loop.
LEMMA FormationTested ==
    ASSUME TypeInv, FormationInv, NEW a, a = Moved(aliens[idx]), NEW b \in Alien,
           b.x = a.x, b.y = a.y, pc = "aliens", Alive(idx), NextAlien,
           aliens' = [aliens EXCEPT ![idx] = b], changeDir' = (changeDir \/ AtBorder(a)),
           NEW kills, NEW s, CheckTerritory(a, kills, s)
    PROVE  FormationInv'
<1>1. /\ Crossed(b) = Crossed(a) /\ AtBorder(b) = AtBorder(a)
      /\ pc' = IF idx' = SIZE_OF_ALIENS THEN "frameEnd" ELSE "aliens"
  BY DEF Crossed, AtBorder, NextAlien
<1>2. CASE gameState' # "PLAYING"
  BY Zenon, <1>1, <1>2 DEF FormationInv
<1>3. CASE gameState' = "PLAYING"
  <2>1. gameState = "PLAYING" /\ speed' = speed /\ ~Crossed(a)
    BY Zenon, <1>3 DEF CheckTerritory, BackToMenu
  <2>2. QED
    BY Zenon, <1>1, <2>1, FormationMoves
<1>4. QED
  BY Zenon, <1>2, <1>3

LEMMA FormationNext ==
    ASSUME TypeInv, TypeInv', FormationInv, [Next]_vars
    PROVE  FormationInv'
<1> USE DEF InLoop
<1>1. Quiet => FormationInv'
  <2> SUFFICES ASSUME Quiet PROVE FormationInv'
    OBVIOUS
  <2>1. CASE pc \in Sections /\ pc' \in Sections \cup {"done"}
    BY Zenon, <2>1, FormationStill DEF Quiet, Sections
  <2>2. CASE pc' = pc /\ idx' = idx
    <3>1. UNCHANGED <<aliens, speed, right_mov, changeDir, gameState, pc, idx>>
      BY <2>2 DEF Quiet
    <3>2. \A i : /\ ShiftX(i)' = ShiftX(i) /\ ShiftY(i)' = ShiftY(i)
                 /\ Alive(i)' = Alive(i) /\ Ahead(i)' = Ahead(i)
      BY <3>1 DEF ShiftX, ShiftY, StepX, Alive, Ahead
    <3>3. \A a : AtBorder(a)' = AtBorder(a) /\ Crossed(a)' = Crossed(a)
      BY <3>1 DEF AtBorder, Crossed
    <3>4. Together' = Together /\ BorderReached' = BorderReached
      BY <3>1, <3>2, <3>3 DEF Together, BorderReached
    <3>5. QED
      BY <3>1, <3>2, <3>3, <3>4 DEF FormationInv
  <2>3. QED
    BY <2>1, <2>2 DEF Quiet
<1>2. ASSUME NEW bits, GoOn(bits) PROVE pc' \notin {"aliens", "frameEnd"}
  BY <1>2, SectionType DEF GoOn, Sections
<1>3. ClickStart => FormationInv'
  BY <1>2, FormationNew DEF ClickStart
<1>4. TimerNextRound => FormationInv'
  BY <1>2, FormationNew DEF TimerNextRound, Continue
<1>5. ASSUME NEW next \in {"INSTRUCTIONS_DISPLAY", "EXIT", "MENU_DISPLAY"}, ClickMenu(next)
      PROVE  FormationInv'
  BY Zenon, <1>2, <1>5, FormationStill DEF ClickMenu, alienVars
<1>6. ASSUME NEW c \in Chunks, ClickShoot(c) PROVE FormationInv'
  BY Zenon, <1>2, <1>6, FormationStill DEF ClickShoot, alienVars
<1>7. KeyEscape => FormationInv'
  BY Zenon, <1>2, FormationStill DEF KeyEscape, Continue, alienVars
<1>8. \A move : updateShipPosition(move) => FormationInv'
  BY Zenon, <1>2, FormationStill DEF updateShipPosition, alienVars
<1>9. TimerPlaying \/ MoveShipBullet \/ Draw => FormationInv'
  BY Zenon, FormationStill DEF TimerPlaying, MoveShipBullet, Draw, alienVars
<1>10. ASSUME AlienMovement PROVE \/ pc' \notin {"aliens", "frameEnd"}
                                  \/ pc' = "aliens" /\ idx' = 0 /\ changeDir' = FALSE
  BY <1>2, <1>10 DEF AlienMovement, Continue
<1>11. \A i \in Aliens : createAlienBullet(i) => FormationInv'
  BY Zenon, <1>10, FormationStill DEF createAlienBullet
<1>12. AlienBulletFlies => FormationInv'
  BY Zenon, <1>10, FormationStill DEF AlienBulletFlies
<1>13. AlienBulletKills => FormationInv'
  BY Zenon, <1>2, FormationStill DEF AlienBulletKills, BackToMenu, Continue
<1>14. pc = "aliens" => idx \in Aliens /\ aliens[idx] \in Alien
  BY AlienFields, CountAssumption DEF TypeInv, LoopIndex, Aliens
<1>15. AlienSurvives => FormationInv'
  <2> SUFFICES ASSUME AlienSurvives PROVE FormationInv'
    OBVIOUS
  <2> DEFINE a == Moved(aliens[idx])
  <2>1. a \in Alien
    BY <1>14, MovedType DEF AlienSurvives, TypeInv
  <2>2. QED
    BY Zenon, <2>1, FormationTested DEF AlienSurvives, Alive
<1>16. ASSUME NEW j \in Slots, AlienKilled(j) PROVE FormationInv'
  <2> DEFINE a == Moved(aliens[idx])
             b == [a EXCEPT !.alive = FALSE]
  <2>1. a \in Alien
    BY <1>14, <1>16, MovedType DEF AlienKilled, TypeInv
  <2>2. b \in Alien /\ b.x = a.x /\ b.y = a.y
    BY Zenon, <2>1 DEF Alien
  <2>3. /\ pc = "aliens" /\ aliens[idx].alive /\ NextAlien
        /\ aliens' = [aliens EXCEPT ![idx] = b] /\ changeDir' = (changeDir \/ AtBorder(a))
        /\ CheckTerritory(a, killCount + 1, [ship EXCEPT !.score = @ + Value(idx)])
    BY <1>16 DEF AlienKilled
  <2> HIDE DEF b
  <2>4. QED
    BY Zenon, <2>2, <2>3, FormationTested DEF Alive
<1>17. QED
  BY StepCases, <1>1, <1>3, <1>4, <1>5, <1>6, <1>7, <1>8, <1>9, <1>11, <1>12, <1>13,
     <1>15, <1>16, FormationDead, FormationFrameEnd

LEMMA FormationAlways == Spec => []FormationInv
<1>1. Init => FormationInv
  BY DEF Init, FormationInv, InLoop
<1>2. QED
  BY <1>1, TypeInit, TypeNext, FormationNext, PTL DEF Spec

\* Between two messages of a round all aliens that are alive are displaced by
\* the same amount from where initGame put them, for any number of aliens.
THEOREM FormationTheorem == Spec => []FormationKept
<1>1. ASSUME TypeInv, FormationInv PROVE FormationKept
  <2> SUFFICES ASSUME gameState = "PLAYING", pc = "receive" PROVE FormationKept
    BY DEF FormationKept
  <2>1. Together /\ \A i \in Aliens : StepX(i) = 0
    BY <1>1 DEF FormationInv, StepX, InLoop
  <2>2. QED
    <3>1. \A i \in Aliens : /\ ShiftX(i) = aliens[i].x - createAlien(i).x
                            /\ ShiftY(i) = aliens[i].y - createAlien(i).y
      BY <1>1, <2>1, AlienFields DEF ShiftX, ShiftY
    <3>2. QED
      BY <2>1, <3>1 DEF FormationKept, Together, Alive
<1>2. QED
  BY <1>1, FormationAlways, TypeInit, TypeNext, PTL DEF Spec

\* The border the aliens are heading for is ahead of all of them, at any speed.
THEOREM BorderTheorem == Spec => []BorderAhead
<1>1. FormationInv => BorderAhead
  BY DEF FormationInv, BorderAhead, Ahead, Alive, InLoop
<1>2. QED
  BY <1>1, FormationAlways, PTL

\* While a game is played no alien is further down than the drop that takes it
\* over the territory.
THEOREM TerritoryTheorem == Spec => []TerritoryHolds
<1>1. FormationInv => TerritoryHolds
  BY DEF FormationInv, TerritoryHolds, Ahead, Alive, InLoop
<1>2. QED
  BY <1>1, FormationAlways, PTL

-------------------------------------------------------------------------------
(***************************************************************************)
(* A round comes to an end.  The rank of a formation counts the way to the *)
(* border ahead and, with more weight, the way down to the territory; it   *)
(* is taken at the beginning of the frame and, while the aliens keep their *)
(* formation, is the same whichever alien it is computed from.             *)
(***************************************************************************)
Weight == 2 * X_RIGHT_BORDER + speed

WayDown(i) == (TERRITORY + ALIEN_DROP) - ShiftY(i)

WayAhead(i) == IF right_mov THEN X_RIGHT_BORDER - ShiftX(i) ELSE X_RIGHT_BORDER + ShiftX(i)

RoundRank(i) == Weight * WayDown(i) + WayAhead(i)

\* Within a round the rank is a natural number, every frame makes it smaller and
\* nothing else changes it, so a round is over after at most as many frames as
\* the rank of a new formation: it is cleared or lost, however it is played.
RoundDescends ==
    [][ gameState = "PLAYING" /\ gameState' = "PLAYING" =>
          \A i, j \in Aliens : Alive(i) /\ Alive(j)' =>
            /\ RoundRank(i) \in Nat
            /\ IF FrameEnd THEN RoundRank(j)' < RoundRank(i) ELSE RoundRank(j)' = RoundRank(i) ]_vars

-------------------------------------------------------------------------------

\* Where an alien was when the frame began the border was ahead of it.
Ranked ==
    \A i \in Aliens : Alive(i) =>
        /\ IF right_mov THEN ShiftX(i) < X_RIGHT_BORDER ELSE ShiftX(i) > 0 - X_RIGHT_BORDER
        /\ ShiftY(i) < TERRITORY + ALIEN_DROP

RankInv ==
    /\ speed > 0
    /\ gameState = "PLAYING" /\ InLoop => Ranked

\* What the arithmetic below needs.
LEMMA ShiftTypes ==
    ASSUME TypeInv
    PROVE  /\ \A i \in Aliens : ShiftX(i) \in Int /\ ShiftY(i) \in Int /\ StepX(i) \in Int
           /\ TERRITORY + ALIEN_DROP \in Nat /\ X_RIGHT_BORDER \in Nat /\ X_LEFT_BORDER \in Nat
           /\ ALIEN_DROP \in Nat /\ ALIEN_DROP > 0
           /\ ALIEN_WIDTH \in Nat /\ ALIEN_HEIGHT \in Nat /\ TERRITORY \in Nat
<1>1. speed \in Int /\ 0 - speed \in Int
  <2>1. speed \in Nat
    BY Zenon, AlienFields
  <2>2. QED
    BY <2>1
<1>2. \A i \in Aliens : StepX(i) \in Int
  BY <1>1 DEF StepX
<1>3. QED
  BY <1>2, AlienFields, GeometryAssumption, MotionAssumption DEF ShiftX, ShiftY

\* createAlien puts no alien to the left of the screen or above it.
LEMMA CreateAlienAhead ==
    ASSUME NEW i \in Aliens
    PROVE  /\ createAlien(i).x \in Nat /\ createAlien(i).x < X_RIGHT_BORDER
           /\ createAlien(i).y \in Nat
<1>1. i \in Nat /\ ROW_ALIENS \in Nat \ {0}
  BY CountAssumption DEF Aliens
<1>2. i \div ROW_ALIENS \in Nat /\ i % ROW_ALIENS \in Nat
  BY <1>1
<1>3. ALIEN_DX * (i \div ROW_ALIENS) \in Nat /\ ALIEN_DY * (i % ROW_ALIENS) \in Nat
  BY <1>2, GeometryAssumption
<1>4. createAlien(i).x \in Nat /\ createAlien(i).y \in Nat
  BY <1>3, GeometryAssumption DEF createAlien
<1>5. createAlien(i).x < X_RIGHT_BORDER
  BY <1>4, FormationAssumption, GeometryAssumption
<1>6. QED
  BY <1>4, <1>5

\* Between two messages the border is ahead of the aliens where they are.
LEMMA AheadRank ==
    ASSUME TypeInv, FormationInv, ~InLoop, gameState = "PLAYING", NEW i \in Aliens, Alive(i)
    PROVE  /\ IF right_mov THEN ShiftX(i) < X_RIGHT_BORDER ELSE ShiftX(i) > 0 - X_RIGHT_BORDER
           /\ ShiftY(i) < TERRITORY + ALIEN_DROP
<1>1. Ahead(i)
  BY DEF FormationInv
<1>2. ShiftX(i) = aliens[i].x - createAlien(i).x /\ ShiftY(i) = aliens[i].y - createAlien(i).y
  BY AlienFields DEF ShiftX, ShiftY, StepX
<1>3. ShiftY(i) < TERRITORY + ALIEN_DROP
  BY <1>1, <1>2, AlienFields, ShiftTypes, CreateAlienAhead DEF Ahead
<1>4. CASE right_mov
  BY <1>1, <1>2, <1>3, <1>4, AlienFields, ShiftTypes, CreateAlienAhead DEF Ahead
<1>5. CASE ~right_mov
  BY <1>1, <1>2, <1>3, <1>5, AlienFields, ShiftTypes, CreateAlienAhead DEF Ahead
<1>6. QED
  BY <1>4, <1>5

LEMMA RankedInRound ==
    ASSUME TypeInv, FormationInv, RankInv, gameState = "PLAYING"
    PROVE  Ranked
BY AheadRank DEF Ranked, RankInv

\* The shifts, the direction and the speed are those of the frame's beginning.
ShiftsKept ==
    /\ right_mov' = right_mov /\ speed' = speed
    /\ \A i \in Aliens : Alive(i)' =>
         Alive(i) /\ ShiftX(i)' = ShiftX(i) /\ ShiftY(i)' = ShiftY(i)

\* A step outside the alien loop, or into it.
LEMMA KeptStill ==
    ASSUME TypeInv, ~InLoop, UNCHANGED <<aliens, right_mov, speed>>,
           pc' \notin {"aliens", "frameEnd"} \/ idx' = 0
    PROVE  ShiftsKept
<1>1. \A i \in Aliens : ~(i < 0)
  BY CountAssumption DEF Aliens
<1>2. \A i \in Aliens : Alive(i)' = Alive(i)
  BY DEF Alive
<1>3. \A i \in Aliens : ShiftX(i)' = ShiftX(i) /\ ShiftY(i)' = ShiftY(i)
  BY <1>1 DEF ShiftX, ShiftY, StepX, InLoop
<1>4. QED
  BY <1>2, <1>3 DEF ShiftsKept

\* A step of the alien loop.
LEMMA KeptInLoop ==
    ASSUME TypeInv, pc = "aliens", NextAlien, speed' = speed, NEW b,
           aliens' = [aliens EXCEPT ![idx] = b],
           b.alive => Alive(idx) /\ b.x = Moved(aliens[idx]).x /\ b.y = Moved(aliens[idx]).y
    PROVE  ShiftsKept
<1>1. /\ idx' = idx + 1 /\ right_mov' = right_mov /\ pc' \in {"aliens", "frameEnd"}
  BY DEF NextAlien
<1>2. InLoop /\ InLoop'
  BY <1>1 DEF InLoop
<1>3. idx \in Aliens /\ \A i \in Aliens : i # idx => (i < idx' <=> i < idx)
  BY <1>1, AlienFields, CountAssumption DEF Aliens, TypeInv, LoopIndex
<1>4. aliens'[idx] = b /\ \A i \in Aliens : i # idx => aliens'[i] = aliens[i]
  BY <1>3 DEF TypeInv, TypeOK
<1>5. ASSUME NEW i \in Aliens, i # idx
      PROVE  Alive(i)' = Alive(i) /\ ShiftX(i)' = ShiftX(i) /\ ShiftY(i)' = ShiftY(i)
  BY <1>1, <1>2, <1>3, <1>4, <1>5 DEF Alive, ShiftX, ShiftY, StepX
<1>6. ASSUME aliens'[idx].alive
      PROVE  Alive(idx) /\ aliens'[idx].x = aliens[idx].x + (IF right_mov THEN speed ELSE 0 - speed)
                        /\ aliens'[idx].y = aliens[idx].y
  <2>1. aliens[idx] \in Alien /\ speed \in Nat
    BY <1>3, AlienFields
  <2>2. /\ Moved(aliens[idx]).y = aliens[idx].y
        /\ Moved(aliens[idx]).x = aliens[idx].x + (IF right_mov THEN speed ELSE 0 - speed)
    BY <2>1 DEF Moved, Alien
  <2>3. Alive(idx) /\ b.x = Moved(aliens[idx]).x /\ b.y = Moved(aliens[idx]).y
    BY Zenon, <1>4, <1>6
  <2>4. QED
    BY <1>4, <2>2, <2>3
<1>7. idx < idx' /\ ~(idx < idx)
  BY <1>1, <1>3, AlienFields
<1>8. ASSUME NEW i \in Aliens, i = idx, Alive(i)'
      PROVE  Alive(i) /\ ShiftX(i)' = ShiftX(i) /\ ShiftY(i)' = ShiftY(i)
  <2>1. i < idx' /\ ~(i < idx)
    BY <1>7, <1>8
  <2>2. aliens[i].x \in Int /\ aliens[i].y \in Int /\ createAlien(i).x \in Int /\ speed \in Nat
    BY AlienFields
  <2>3. /\ Alive(i) /\ aliens'[i].y = aliens[i].y
        /\ aliens'[i].x = aliens[i].x + (IF right_mov THEN speed ELSE 0 - speed)
    <3>1. aliens'[i].alive
      BY <1>8 DEF Alive
    <3>2. aliens'[idx].alive
      BY <1>8, <3>1
    <3>3. QED
      BY <1>8, <1>6, <3>2 DEF Alive
  <2>4. /\ ShiftX(i)' = aliens'[i].x - createAlien(i).x - (IF right_mov THEN speed ELSE 0 - speed)
        /\ ShiftX(i) = aliens[i].x - createAlien(i).x - 0
        /\ ShiftY(i)' = aliens'[i].y - createAlien(i).y
        /\ ShiftY(i) = aliens[i].y - createAlien(i).y
    BY <1>1, <1>2, <2>1 DEF ShiftX, ShiftY, StepX
  <2>5. QED
    BY <2>2, <2>3, <2>4
<1>9. QED
  BY <1>1, <1>5, <1>8 DEF ShiftsKept

\* In a round only the end of a frame changes the shifts.
LEMMA RankKept ==
    ASSUME TypeInv, [Next]_vars, gameState = "PLAYING", gameState' = "PLAYING", ~FrameEnd
    PROVE  ShiftsKept
<1> USE DEF InLoop
<1>1. ASSUME Quiet PROVE ShiftsKept
  <2>1. CASE pc \in Sections /\ pc' \in Sections \cup {"done"}
    BY Zenon, <1>1, <2>1, KeptStill DEF Quiet, Sections
  <2>2. CASE pc' = pc /\ idx' = idx
    <3>1. UNCHANGED <<aliens, speed, right_mov, pc, idx>>
      BY <1>1, <2>2 DEF Quiet
    <3>2. QED
      BY <3>1 DEF ShiftsKept, ShiftX, ShiftY, StepX, Alive
  <2>3. QED
    BY <1>1, <2>1, <2>2 DEF Quiet
<1>2. ASSUME NEW bits, GoOn(bits) PROVE pc' \notin {"aliens", "frameEnd"}
  BY <1>2, SectionType DEF GoOn, Sections
<1>3. ~ClickStart /\ ~KeyEscape /\ ~TimerNextRound /\ ~AlienBulletKills /\ \A next : ~ClickMenu(next)
  BY DEF ClickStart, KeyEscape, TimerNextRound, AlienBulletKills, BackToMenu, ClickMenu
<1>4. \A c : ClickShoot(c) => ShiftsKept
  BY Zenon, <1>2, KeptStill DEF ClickShoot, alienVars
<1>5. \A move : updateShipPosition(move) => ShiftsKept
  BY Zenon, <1>2, KeptStill DEF updateShipPosition, alienVars
<1>6. TimerPlaying \/ MoveShipBullet \/ Draw => ShiftsKept
  BY Zenon, KeptStill DEF TimerPlaying, MoveShipBullet, Draw, alienVars
<1>7. AlienMovement => pc' \notin {"aliens", "frameEnd"} \/ idx' = 0
  BY <1>2 DEF AlienMovement, Continue
<1>8. \A i : createAlienBullet(i) => ShiftsKept
  BY Zenon, <1>7, KeptStill DEF createAlienBullet
<1>9. AlienBulletFlies => ShiftsKept
  BY Zenon, <1>7, KeptStill DEF AlienBulletFlies
<1>10. pc = "aliens" => idx \in Aliens /\ aliens[idx] \in Alien /\ Moved(aliens[idx]) \in Alien
  BY AlienFields, MovedType, CountAssumption DEF TypeInv, LoopIndex, Aliens
<1>11. \A a, kills, s : CheckTerritory(a, kills, s) => speed' = speed
  BY DEF CheckTerritory, BackToMenu
<1>12. ASSUME AlienDead PROVE ShiftsKept
  <2>1. /\ pc = "aliens" /\ NextAlien /\ speed' = speed /\ ~aliens[idx].alive
        /\ aliens' = [aliens EXCEPT ![idx] = aliens[idx]]
    BY <1>10, <1>12 DEF AlienDead, TypeInv, TypeOK
  <2>2. QED
    BY Zenon, <2>1, KeptInLoop
<1>13. ASSUME AlienSurvives PROVE ShiftsKept
  <2>1. speed' = speed
    BY Zenon, <1>11, <1>13 DEF AlienSurvives
  <2>2. QED
    BY Zenon, <1>13, <2>1, KeptInLoop DEF AlienSurvives, Alive
<1>14. ASSUME NEW j, AlienKilled(j) PROVE ShiftsKept
  <2> DEFINE b == [Moved(aliens[idx]) EXCEPT !.alive = FALSE]
  <2>1. speed' = speed
    BY Zenon, <1>11, <1>14 DEF AlienKilled
  <2>2. pc = "aliens" /\ NextAlien /\ aliens' = [aliens EXCEPT ![idx] = b]
    BY <1>14 DEF AlienKilled
  <2>3. ~b.alive
    BY <1>10, <2>2 DEF Alien
  <2> HIDE DEF b
  <2>4. QED
    BY Zenon, <2>1, <2>2, <2>3, KeptInLoop
<1>15. QED
  BY StepCases, <1>1, <1>3, <1>4, <1>5, <1>6, <1>8, <1>9, <1>12, <1>13, <1>14

\* What the end of a frame does to the shifts.
LEMMA FrameEndShift ==
    ASSUME TypeInv, FormationInv, FrameEnd, NEW i \in Aliens
    PROVE  /\ right_mov' = (IF changeDir THEN ~right_mov ELSE right_mov) /\ speed' = speed
           /\ Alive(i)' = Alive(i)
           /\ ShiftX(i)' = ShiftX(i) + (IF right_mov THEN speed ELSE 0 - speed)
           /\ ShiftY(i)' = ShiftY(i) + (IF changeDir THEN ALIEN_DROP ELSE 0)
<1> DEFINE dx == IF right_mov THEN speed ELSE 0 - speed
           dy == IF changeDir THEN ALIEN_DROP ELSE 0
<1>1. /\ InLoop /\ ~InLoop' /\ speed' = speed
      /\ right_mov' = (IF changeDir THEN ~right_mov ELSE right_mov)
  BY ContinueType DEF FrameEnd, InLoop, Turned
<1>2. i < idx
  BY CountAssumption DEF FormationInv, FrameEnd, Aliens
<1>3. /\ aliens[i] \in Alien /\ aliens[i].x \in Int /\ aliens[i].y \in Int /\ dx \in Int /\ dy \in Nat
      /\ createAlien(i).x \in Int /\ createAlien(i).y \in Int
  BY AlienFields, GeometryAssumption
<1>4. aliens'[i].x = aliens[i].x /\ aliens'[i].y = aliens[i].y + dy /\ Alive(i)' = Alive(i)
  <2>1. CASE ~changeDir
    BY <1>3, <2>1 DEF FrameEnd, Alive
  <2>2. CASE changeDir
    <3>1. aliens'[i] = [aliens[i] EXCEPT !.y = aliens[i].y + ALIEN_DROP]
      BY <2>2 DEF FrameEnd, change_all_y
    <3>2. QED
      BY <1>3, <2>2, <3>1 DEF Alive, Alien
  <2>3. QED
    BY <2>1, <2>2
<1>5. StepX(i) = dx /\ StepX(i)' = 0
  BY <1>1, <1>2 DEF StepX
<1> HIDE DEF dx, dy
<1>6. ShiftX(i)' = ShiftX(i) + dx /\ ShiftY(i)' = ShiftY(i) + dy
  BY <1>3, <1>4, <1>5 DEF ShiftX, ShiftY
<1>7. QED
  BY <1>1, <1>4, <1>6 DEF dx, dy

\* The arithmetic of a frame: a step ahead, or a drop and a turn.
LEMMA RankArithmetic ==
    ASSUME NEW R \in Nat, NEW T \in Nat, NEW v \in Nat, v > 0, NEW d \in Nat, d > 0,
           NEW x \in Int, NEW y \in Int, NEW K \in Nat, K = 2 * R + v
    PROVE  /\ K * (T - y) + (R - (x + v)) < K * (T - y) + (R - x)
           /\ K * (T - y) + (R + (x - v)) < K * (T - y) + (R + x)
           /\ x < R => K * (T - (y + d)) + (R + (x + v)) < K * (T - y) + (R - x)
           /\ x > 0 - R => K * (T - (y + d)) + (R - (x - v)) < K * (T - y) + (R + x)
           /\ y < T /\ x < R => K * (T - y) + (R - x) \in Nat
           /\ y < T /\ x > 0 - R => K * (T - y) + (R + x) \in Nat
<1> DEFINE A == K * (T - y)
           B == K * (T - (y + d))
<1>1. A \in Int /\ B \in Int
  OBVIOUS
<1>2. B = A - K * d /\ K * d \in Nat /\ K * d >= K
  <2>1. K * (T - (y + d)) = K * (T - y) - K * d
    OBVIOUS
  <2>2. K * d \in Nat /\ K * d >= K
    OBVIOUS
  <2>3. QED
    BY <2>1, <2>2
<1>3. y < T => A >= 0
  OBVIOUS
<1> HIDE DEF A, B
<1>4. /\ A + (R - (x + v)) < A + (R - x)
      /\ A + (R + (x - v)) < A + (R + x)
      /\ x < R => B + (R + (x + v)) < A + (R - x)
      /\ x > 0 - R => B + (R - (x - v)) < A + (R + x)
      /\ y < T /\ x < R => A + (R - x) \in Nat
      /\ y < T /\ x > 0 - R => A + (R + x) \in Nat
  BY <1>1, <1>2, <1>3
<1>5. QED
  BY <1>4 DEF A, B

\* The end of a frame of a round.
LEMMA RankFrameEnd ==
    ASSUME TypeInv, FormationInv, RankInv, FrameEnd, gameState = "PLAYING",
           NEW i \in Aliens, Alive(i)
    PROVE  RoundRank(i)' < RoundRank(i)
<1> DEFINE R == X_RIGHT_BORDER
           T == TERRITORY + ALIEN_DROP
           x == ShiftX(i)
           y == ShiftY(i)
           K == Weight
<1>1. /\ R \in Nat /\ T \in Nat /\ speed \in Nat /\ speed > 0 /\ ALIEN_DROP \in Nat /\ ALIEN_DROP > 0
      /\ x \in Int /\ y \in Int /\ K \in Nat /\ K = 2 * R + speed
  BY ShiftTypes, AlienFields DEF RankInv, Weight
<1>2. IF right_mov THEN x < R ELSE x > 0 - R
  BY RankedInRound DEF Ranked
<1>3. RoundRank(i) = K * (T - y) + (IF right_mov THEN R - x ELSE R + x)
  BY Zenon DEF RoundRank, WayDown, WayAhead
<1>4. RoundRank(i)' = K' * (T - ShiftY(i)') + (IF right_mov' THEN R - ShiftX(i)' ELSE R + ShiftX(i)')
  BY Zenon DEF RoundRank, WayDown, WayAhead
<1>5. K' = K
  BY FrameEndShift DEF Weight
<1>6. /\ right_mov' = (IF changeDir THEN ~right_mov ELSE right_mov)
      /\ ShiftX(i)' = x + (IF right_mov THEN speed ELSE 0 - speed)
      /\ ShiftY(i)' = y + (IF changeDir THEN ALIEN_DROP ELSE 0)
  BY FrameEndShift
<1> HIDE DEF R, T, x, y, K
<1>7. x + (0 - speed) = x - speed /\ y + 0 = y
  BY <1>1
<1>8. CASE changeDir /\ right_mov
  <2>1. RoundRank(i)' = K * (T - (y + ALIEN_DROP)) + (R + (x + speed))
    BY Zenon, <1>4, <1>5, <1>6, <1>8
  <2>2. RoundRank(i) = K * (T - y) + (R - x) /\ x < R
    BY <1>2, <1>3, <1>8
  <2>3. QED
    BY <1>1, <2>1, <2>2, RankArithmetic
<1>9. CASE changeDir /\ ~right_mov
  <2>1. RoundRank(i)' = K * (T - (y + ALIEN_DROP)) + (R - (x - speed))
    BY Zenon, <1>4, <1>5, <1>6, <1>7, <1>9
  <2>2. RoundRank(i) = K * (T - y) + (R + x) /\ x > 0 - R
    BY <1>2, <1>3, <1>9
  <2>3. QED
    BY <1>1, <2>1, <2>2, RankArithmetic
<1>10. CASE ~changeDir /\ right_mov
  <2>1. RoundRank(i)' = K * (T - y) + (R - (x + speed))
    BY <1>4, <1>5, <1>6, <1>7, <1>10
  <2>2. RoundRank(i) = K * (T - y) + (R - x)
    BY <1>3, <1>10
  <2>3. QED
    BY <1>1, <2>1, <2>2, RankArithmetic
<1>11. CASE ~changeDir /\ ~right_mov
  <2>1. RoundRank(i)' = K * (T - y) + (R + (x - speed))
    BY <1>4, <1>5, <1>6, <1>7, <1>11
  <2>2. RoundRank(i) = K * (T - y) + (R + x)
    BY <1>3, <1>11
  <2>3. QED
    BY <1>1, <2>1, <2>2, RankArithmetic
<1>12. QED
  BY <1>8, <1>9, <1>10, <1>11

\* The aliens always move.
LEMMA SpeedPositive ==
    ASSUME TypeInv, speed > 0, [Next]_vars
    PROVE  speed' > 0
<1>1. INITIAL_ALIEN_SPEED \in Nat /\ INITIAL_ALIEN_SPEED > 0 /\ roundNum \in Nat
  BY GeometryAssumption, MotionAssumption DEF TypeInv, TypeOK
<1>2. BackToMenu => speed' > 0
  BY <1>1 DEF BackToMenu
<1>3. ClickStart \/ TimerNextRound => speed' > 0
  BY <1>1 DEF ClickStart, TimerNextRound, initGame, NextSpeed
<1>4. \A a, kills, s : CheckTerritory(a, kills, s) => speed' > 0
  BY <1>2 DEF CheckTerritory
<1>5. AlienSurvives => speed' > 0
  BY Zenon, <1>4 DEF AlienSurvives
<1>6. \A j : AlienKilled(j) => speed' > 0
  BY Zenon, <1>4 DEF AlienKilled
<1>7. AlienBulletKills => speed' > 0
  BY <1>2 DEF AlienBulletKills
<1>8. Quiet \/ KeyEscape \/ TimerPlaying \/ MoveShipBullet \/ Draw => speed' = speed
  BY DEF Quiet, KeyEscape, TimerPlaying, MoveShipBullet, Draw, alienVars
<1>9. \A next, c, move : ClickMenu(next) \/ ClickShoot(c) \/ updateShipPosition(move) => speed' = speed
  BY DEF ClickMenu, ClickShoot, updateShipPosition, alienVars
<1>10. \A i : createAlienBullet(i) \/ AlienBulletFlies \/ AlienDead \/ FrameEnd => speed' = speed
  BY DEF createAlienBullet, AlienBulletFlies, AlienDead, FrameEnd
<1>11. QED
  BY StepCases, <1>3, <1>5, <1>6, <1>7, <1>8, <1>9, <1>10

\* A round begins between two messages.
LEMMA RoundBegins ==
    ASSUME TypeInv, [Next]_vars, gameState # "PLAYING", gameState' = "PLAYING"
    PROVE  ~InLoop'
<1>1. ASSUME NEW bits, GoOn(bits) PROVE ~InLoop'
  BY <1>1, SectionType DEF GoOn, Sections, InLoop
<1>2. ClickStart \/ TimerNextRound => ~InLoop'
  BY <1>1 DEF ClickStart, TimerNextRound, Continue
<1>3. ~Quiet /\ ~KeyEscape /\ ~TimerPlaying /\ ~MoveShipBullet /\ ~Draw
  BY DEF Quiet, KeyEscape, TimerPlaying, MoveShipBullet, Draw
<1>4. \A next, c, move : ~ClickMenu(next) /\ ~ClickShoot(c) /\ ~updateShipPosition(move)
  BY DEF ClickMenu, ClickShoot, updateShipPosition
<1>5. \A i : ~createAlienBullet(i) /\ ~AlienBulletFlies /\ ~AlienBulletKills
  BY DEF createAlienBullet, AlienBulletFlies, AlienBulletKills, BackToMenu
<1>6. \A a, kills, s : ~CheckTerritory(a, kills, s)
  BY DEF CheckTerritory, BackToMenu
<1>7. ~AlienDead /\ ~FrameEnd /\ ~AlienSurvives /\ \A j : ~AlienKilled(j)
  BY Zenon, <1>6 DEF AlienDead, FrameEnd, AlienSurvives, AlienKilled
<1>8. QED
  BY StepCases, <1>2, <1>3, <1>4, <1>5, <1>7

LEMMA RankNext ==
    ASSUME TypeInv, FormationInv, RankInv, [Next]_vars
    PROVE  RankInv'
<1>1. speed' > 0
  BY SpeedPositive DEF RankInv
<1>2. ASSUME gameState' = "PLAYING", InLoop' PROVE Ranked'
  <2>1. gameState = "PLAYING" /\ ~FrameEnd
    BY <1>2, RoundBegins, ContinueType DEF FrameEnd, InLoop
  <2>2. ShiftsKept /\ Ranked
    BY <1>2, <2>1, RankKept, RankedInRound
  <2>3. QED
    BY <2>2 DEF Ranked, ShiftsKept
<1>3. QED
  BY <1>1, <1>2 DEF RankInv

LEMMA RankAlways == Spec => []RankInv
<1>1. Init => RankInv
  BY MotionAssumption DEF Init, RankInv, InLoop
<1>2. QED
  BY <1>1, TypeInit, TypeNext, FormationAlways, RankNext, PTL DEF Spec

\* Aliens of the same formation give the same rank.
LEMMA RankOfFormation ==
    ASSUME TypeInv, FormationInv, RankInv, gameState = "PLAYING",
           NEW i \in Aliens, NEW j \in Aliens, Alive(i), Alive(j)
    PROVE  RoundRank(i) = RoundRank(j) /\ RoundRank(i) \in Nat
<1>1. ShiftX(i) = ShiftX(j) /\ ShiftY(i) = ShiftY(j)
  BY DEF FormationInv, Together
<1>2. RoundRank(i) = RoundRank(j)
  BY Zenon, <1>1 DEF RoundRank, WayDown, WayAhead
<1> DEFINE R == X_RIGHT_BORDER
           T == TERRITORY + ALIEN_DROP
           x == ShiftX(i)
           y == ShiftY(i)
           K == Weight
<1>3. /\ R \in Nat /\ T \in Nat /\ speed \in Nat /\ speed > 0 /\ ALIEN_DROP \in Nat /\ ALIEN_DROP > 0
      /\ x \in Int /\ y \in Int /\ K \in Nat /\ K = 2 * R + speed
  BY ShiftTypes, AlienFields DEF RankInv, Weight
<1>4. (IF right_mov THEN x < R ELSE x > 0 - R) /\ y < T
  BY RankedInRound DEF Ranked
<1>5. RoundRank(i) = K * (T - y) + (IF right_mov THEN R - x ELSE R + x)
  BY Zenon DEF RoundRank, WayDown, WayAhead
<1> HIDE DEF R, T, x, y, K
<1>6. RoundRank(i) \in Nat
  <2>1. CASE right_mov
    <3>1. RoundRank(i) = K * (T - y) + (R - x) /\ x < R
      BY <1>4, <1>5, <2>1
    <3>2. QED
      BY <1>3, <1>4, <3>1, RankArithmetic
  <2>2. CASE ~right_mov
    <3>1. RoundRank(i) = K * (T - y) + (R + x) /\ x > 0 - R
      BY <1>4, <1>5, <2>2
    <3>2. QED
      BY <1>3, <1>4, <3>1, RankArithmetic
  <2>3. QED
    BY <2>1, <2>2
<1>7. QED
  BY <1>2, <1>6

\* In a round every frame brings the formation nearer to its next border or
\* down to the territory, at the speed of any round and whoever is left of it;
\* no other step does, so the number of frames of a round is bounded.
THEOREM RoundDescendsTheorem == Spec => RoundDescends
<1>1. ASSUME TypeInv, FormationInv, RankInv, [Next]_vars,
             gameState = "PLAYING", gameState' = "PLAYING",
             NEW i \in Aliens, NEW j \in Aliens, Alive(i), Alive(j)'
      PROVE  /\ RoundRank(i) \in Nat
             /\ IF FrameEnd THEN RoundRank(j)' < RoundRank(i) ELSE RoundRank(j)' = RoundRank(i)
  <2>1. RoundRank(i) \in Nat
    BY <1>1, RankOfFormation
  <2>2. CASE FrameEnd
    <3>1. Alive(j)
      BY <1>1, <2>2, FrameEndShift
    <3>2. RoundRank(j)' < RoundRank(j)
      BY <1>1, <2>2, <3>1, RankFrameEnd
    <3>3. RoundRank(i) = RoundRank(j)
      BY <1>1, <3>1, RankOfFormation
    <3>4. QED
      BY Zenon, <2>1, <2>2, <3>2, <3>3
  <2>3. CASE ~FrameEnd
    <3>1. ShiftsKept
      BY <1>1, <2>3, RankKept
    <3>2. Alive(j) /\ RoundRank(j)' = RoundRank(j)
      BY <1>1, <3>1 DEF ShiftsKept, RoundRank, WayDown, WayAhead, Weight
    <3>3. RoundRank(i) = RoundRank(j)
      BY <1>1, <3>2, RankOfFormation
    <3>4. QED
      BY Zenon, <2>1, <2>3, <3>2, <3>3
  <2>4. QED
    BY Zenon, <2>2, <2>3
<1>2. TypeInv /\ FormationInv /\ RankInv /\ [Next]_vars =>
        [ gameState = "PLAYING" /\ gameState' = "PLAYING" =>
            \A i, j \in Aliens : Alive(i) /\ Alive(j)' =>
              /\ RoundRank(i) \in Nat
              /\ IF FrameEnd THEN RoundRank(j)' < RoundRank(i)
                             ELSE RoundRank(j)' = RoundRank(i) ]_vars
  BY Zenon, <1>1
<1>3. QED
  BY <1>2, FormationAlways, RankAlways, TypeInit, TypeNext, PTL DEF Spec, RoundDescends

===============================================================================
