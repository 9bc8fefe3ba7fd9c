# LCOM: TLA+ models and proofs

This directory holds a verification development of the programs in `src/`: a
Space Invaders game that runs as a MINIX 3 driver (`src/proj/src`) and the
programs of the labs that led up to it (`src/lab2` to `src/lab5`). Every
definition that models code is translated from the C source, and
`PROJECT.json` maps it to its lines.

Contents: 1 the system, 2 modules, 3 properties and runs, 4 bounds,
5 fairness, 6 proofs, 7 disagreements met while modelling, 8 what is not
modelled, 9 plan, 10 how to run it.

## 1. The system

### 1.1 The game: parts, state and operations

| part | state | operations that change it |
|---|---|---|
| game loop (`game.c`) | `gameState`, `killCount`, `roundNum`, `changeDir`, `right_mov`, `aliens`, pointer to `ship` | `initGame`; the mouse, keyboard and timer sections of `game_loop`; set-up and tear-down |
| ship bullets (`shipBullet.c`) | `shipBullets`, an array of pointers, and the heap behind it | `initShipBullets`, `createShipBullet`, `updateShipBulletPosition`, `verifyAlienAndBulletCollision`, `removeShipBullet` |
| alien bullet (`alienBullet.c`) | position and `active` | `createAlienBullet`, `updateAlienBulletPosition`, `verifyShipAndBulletCollision`, `generateAlienBullet` |
| aliens (`alien.c`) | position, `alive`, value | `createAlien`, `change_alien_x_coordinates`, `change_all_y` |
| ship (`ship.c`) | position, lives, score | `createShip`, `updateShipPosition`, `increaseScore`; `drawScore` allocates and frees, `drawLives` requires 1 to 3 lives |
| menu (`menu.c`) | none | `getButton`, `getInstructionButton` read the pointer |
| mouse (`mouse.c`) | pointer, `mouse_scancode`, `ih_error`, packet under assembly | `mouse_ih`, `getMousePacket`, `updateMouse`, `send_mouse_command`, (un)subscribe |
| keyboard (`keyboard.c`) | `keyboard_scancode`, `size` | `kbc_ih`, (un)subscribe |
| timer (`timer.c`) | `timer_counter` | `timer_int_handler`, (un)subscribe |
| real-time clock (`rtc.c`) | `speed`, a CMOS cell | `rtc_enable`, `rtc_disable`, (un)subscribe; `rtc_ih` has no caller |
| graphics (`graphic.c`) | video mode, frame buffers | `vg_get_mode_info`, `vg_set_mode`, `vg_exit`; drawing |
| utilities (`utils.c`) | none | `util_sys_inb`, which may fail |

The program has one thread. It waits in `driver_receive` for a notification of
the kernel; a notification carries one bit per device that has interrupted, and
the body of the loop handles the mouse, the keyboard and the timer in this
order. A `continue` in one section drops the bits of the sections that follow.
The controller of keyboard and mouse holds one byte at a time and goes on
working while the program handles a message.

### 1.2 The labs

| part | state | operations |
|---|---|---|
| lab 2 | timers of the i8254; `timer_counter` | `timer_test_read_config` (`timer_get_conf`, `timer_display_conf`), `timer_set_frequency`, `timer_test_int` |
| lab 3 | `scancode`, `size`, two counters; command byte of the controller | `kbd_test_scan`, `kbd_test_timed_scan`, `kbd_test_poll` with `kbd_reenable_int` (`readcommand`, `writecommand`) |
| lab 4 | packet under assembly, `ih_error` | `mouse_test_packet`; `mouse_test_async` and `mouse_test_gesture` do not compile |
| lab 5 | video mode and memory, position of an image, subscriptions | `video_test_init`, `_rectangle`, `_pattern`, `_xpm`, `_move` |
| lab 0 | none | prints a line |

### 1.3 What is hard about it

- one message with several bits, and bits that are dropped (`game.c:149`, `lab3.c:64`, `lab5.c:217`);
- a loop over the aliens that goes on after the game it belongs to has been
  lost and reset (`game.c:339`);
- state of the last game that is left over in the next one (`game.c:30`);
- pointers to freed bullets, read and written on each timer interrupt, on a
  heap other code uses as well (`shipBullet.c:28`);
- a loop that draws random numbers until it finds a living alien (`alienBullet.c:37`);
- bytes of two devices in one buffer, read by a handler that runs later (`mouse.c:33`);
- packets put together from bytes that look alike (`game.c:153`);
- a command in two writes to a slow controller, retried with a variable that
  was never assigned (`mouse.c:75`), given twice in the life of the program,
  with what the first one left behind still in the buffers of the second;
- a command byte read, changed and written back while the controller and the
  keyboard go on working (`lab3/kbc.c`);
- chains of calls of which any may fail (`game.c:110`, `lab5.c:269`, `timer.c:60`);
- numbers at the borders of screen, second, divisor and 16 bits.

`PROJECT.json` lists these hazards one by one, each with the properties that
would show it going wrong.

## 2. Modules

```
Macros ── ShipBullets ──┐                     Input ───┬── InputProofs
GameFlow ────────────── Game ── MCGame        Pointer ─┘
                         └── GameTypes ─┬─ GameSafety
                                        └─ GameFormation

Session ──────┬── MouseSession ── MouseSessionProofs
MouseCommand ─┘

LabProgram ─┬─ LabTests ─┬── Labs ── LabsProofs
            └─ Poll ─────┘
Timer ── TimerProofs          Video ─┬─ MCVideo
                                     └─ VideoProofs
```

A line to the right is EXTENDS, except that `Game` takes `GameFlow` as an
INSTANCE under a refinement mapping. The modules whose names end in `Proofs`,
`GameTypes`, `GameSafety` and `GameFormation` hold the theorems.

### 2.1 The game

`Macros` declares the numbers of `macros.h` under their own names, with the
assumptions the proofs use (6.1).

`ShipBullets` is the array of pointers and the heap. A chunk of the heap holds a
bullet (position, `speed`, `hitAlien`); `allocated` is the set of chunks
`malloc` has handed out. Slots may hold freed chunks. `createShipBullet` fills
every slot that is `NULL` or whose bullet counts as spent, as the code does;
`updateShipBulletPosition` is one step per slot; reading a freed chunk returns
what is there, and `OtherHeapUser`, which stands for the `malloc` and `free` of
`drawScore`, may put anything from `Junk` there. Undefined behaviour is thus a
choice among the outcomes a heap can produce.

`Game` is the loop of `game.c` with everything it calls. It EXTENDS
`ShipBullets`. `pc` is the position in the body of the loop, `intr` the bits of
the message still to be handled, `idx` the index of the alien loop.

| action | code |
|---|---|
| `Receive(bits)` | `driver_receive`: any non-empty set of devices |
| `MouseDropped`, `MouseNoEffect`, `ClickStart`, `ClickMenu`, `ClickShoot` | mouse section, by what the byte leads to |
| `KeyPrefix`, `KeyEscape`, `updateShipPosition`, `KeyOther` | keyboard section |
| `TimerPlaying`, `TimerNextRound`, `TimerIdle` | start of the timer section, by `gameState` |
| `MoveShipBullet`, `Draw`, `createAlienBullet`, `AlienBulletFlies`, `AlienBulletKills` | a frame: ship bullets, drawing (with its heap use), alien bullet |
| `AlienDead`, `AlienSurvives`, `AlienKilled` | one turn of the alien loop |
| `FrameEnd` | change of direction and drop |
| `Leave` | end of `game_loop` |

`GameFlow` is what the program promises the player: screens, rounds and lives.
A round is left only cleared, lost or by the exit; a life is lost one at a time;
a cleared round leads to the next, a lost one to the menu with everything
fresh. `Game` implements it under the mapping that takes `gameState`,
`roundNum` and `ship.lives` for the variables of the same meaning.

### 2.2 The devices

`Input` models bytes: the output buffer of the controller with its sender and
its true place in a packet, the notifications, `mouse_ih`, `kbc_ih` and the
assembly of packets with its `continue`s. Status and data are read in two
steps, between which the controller may act; transfers may fail, and so may each
of the two reads. If the status cannot be read (`PortFails`) the handler returns
and the section goes on with the byte of the time before; if `OUT_BUF` cannot be
read, which neither handler looks at (`MouseStale`, `KeyStale`), the old byte is
taken for a new one. In both cases the byte stays in the controller, and
`skipped` records it.

`Pointer` models what packets do: sign extension with 16-bit numbers,
`updateMouse`, the buttons of the menus at their places, and the change of
screen a click leads to. `Game` abstracts from both: there a packet is complete
or not, and a click is on any button.

`MouseCommand` is `send_mouse_command` step by step beside the controller and
the mouse, which may be slow, refuse, and send bytes nobody asked for. `ack`
starts with garbage. Of the delay of 20 ms it is assumed that the controller has
taken the command when it is over, but not that the mouse has answered. `obeyed`
is the last command the mouse has carried out; one it refuses does not count.

`Session` is the beginning and the end of `game_loop`: video memory, graphics
mode, four subscriptions with hook ids of the kernel's choice, the enabling of
mouse and RTC, and the way back; each call may fail. A call of
`send_mouse_command` is one step that succeeds or fails.

`MouseSession` composes the two: `game_loop` calls `send_mouse_command` at the
start and at the end (`Enter`, `Inside`, `Back`), with new local variables each
time, while the controller and the mouse go on (`Taken`, `Sent`), also during the
loop, whose handlers read what comes (`LoopReads`). What one call leaves in the
buffers the other one finds there. It implements `Session`.

### 2.3 The labs

`Timer`: the three timers of the i8254 with access mode, half-written divisor
and latched status. `timer_test_read_config` (with `timer_display_conf`, which
takes a field out of the status byte by masks and shifts) and
`timer_set_frequency` are one port access per step, each of which may fail; calls
follow one another without end. A timer counts in binary or in BCD, and `Divisor`
is what its two bytes then mean to the chip.

`LabProgram` has what the tests of a lab program share: the framework calls one
test, and the tests of the keyboard share `scancode` and `size`.

`LabTests`: the loops of `timer_test_int`, `kbd_test_scan`,
`kbd_test_timed_scan` and `mouse_test_packet`. They share the counter of the
timer and the way messages come. In `mouse_test_packet` a failed read of the
status sets `ih_error` (`MouseError`); a failed read of `OUT_BUF` is ignored by
`mouse_ih`, which stores the byte of the time before, and leaves the controller
full, so that the mouse does not interrupt any more (`MouseStale`, `stuck`,
`Silent`).

`Poll`: `kbd_test_poll` beside the controller. The controller has one byte of
input and one of output, which stays readable after it was read; the program
looks at the status and reads or writes in separate steps. `PollStatus`,
`kbc_ih_status` and `kbc_ih_read` are the loop, `readcommand_Ask`,
`readcommand_Take`, `writecommand_Command` and `writecommand_Argument` the four
accesses of `kbd_reenable_int`, each after a bounded wait (`Wait`). Ghost
variables record the two races of section 7 (`raced`, `overrun`).

`Labs` is a lab program as it is run: one of these tests or `kbd_test_poll`.

`Video`: the five tests of lab 5. `Calls` gives for each test its chain of
calls; `screen` is the video memory, from addresses to what was drawn there, so that
`vg_drawline`, `vg_drawrectangle`, `draw_xpm` and `draw_next_xpm` are checked
by what they leave on it.

## 3. Properties and runs

A run is a module with a configuration; eight pass, and the four marked
*violation* show a disagreement between a comment and the code.

**`game`** (`MCGame.cfg`; 2.19 million states). Two aliens, two lives, three
slots, two rounds, any message, key and click, and a heap that changes under
freed bullets.
`KillCountExact`: in a game `killCount` is the number of dead aliens.
`AlienToShoot`: while a round is played an alien is alive, so
`generateAlienBullet` finds one. `LivesDrawable`: `drawLives` has an image for
the number of lives. `LiveBulletSound`: an allocated bullet held by a slot has not hit, has its speed
and is on the screen. Freed bullets are a different matter: nothing is promised
of what a slot with a freed chunk shows.
`LifeLostToLiveBullet`: only a bullet that was still on the screen takes a
life, the last one and the game with it included, although the collision test
does not look at `active`. `FlowSpec`: refinement of `GameFlow`.

**`formation`** (`MCGameRows.cfg`; 401,047 states). Two rows of two aliens, so
that crossings and kills meet in one frame.
`FormationKept`: living aliens keep their distances between messages, although
each is moved on its own and the loop may be left in the middle.
`BorderAhead`: no living alien has passed the border it moves towards.
`TerritoryHolds`: none is further than one drop below the line.
`KilledByLiveBullet`: an alien is killed only by a bullet that is allocated, and
the kill frees it. The slots keep the pointers of all bullets that were freed, and
each frame compares them with each alien. It holds on two conditions, both met
in this run: other users of the heap leave no unmarked bullet in a freed chunk
(otherwise such a bullet kills), and the formation starts at least
`SHIP_BULLET_SPEED` - 1 below the top (otherwise a bullet that has left the screen
there can kill again).
`ScoreExact`: the score is what was killed in this game, round by round, plus at
most one alien of the game before (section 7).
`LoopInv`: the inductive strengthening of section 6; part of it is
`PlayingSpeed`, that the speed is the one of the round, in the first game and in
all later ones.
`GameMovesOn`: no round and no pause between rounds lasts for ever.
`ExitEnds`: the exit is carried out.

**`input`** (`Input.cfg`). `NoLostByte`: a good byte in the buffer always has a
notification or a handler on its way, in spite of dropped bits, unless a handler
could not read a port. `PacketsHeal`: once no notification is left over none ever
is, and the assembly of packets does not get further from the true start of a
packet; a failed read of `OUT_BUF` may lead away from it by one byte, but then
nothing is read any more from either device (`Blocked`), and that is for good.
`EveryByteRead`: a good byte is read, unless a failed read uses up its
notification. A byte with a transfer error is not: `mouse_ih` and `kbc_ih` leave
it in the controller.

**`pointer`** (`Pointer.cfg`, the program's numbers). `PointerOnScreen`: the
whole pointer stays on the screen. `ClickDoesNotBounce`: a click that changes
between menu and instructions leaves the pointer on no button of the new
screen, so that the packets of a held button do not go back.

**`session`** (`MouseSession.cfg`). Start and end of `game_loop` with both calls
of `send_mouse_command`. `LoopKnowsBits`: in the loop each `bit_no` is the bit of
its device. `UnsubscribesItsOwn`: a policy is given up by its owner.
`CleanExit`: after a return of 0 the screen is in text mode and no policy is
left. `ToMouse`: no command to the mouse is ever taken for a byte to the
keyboard, also when the first call failed half-way. `MouseStops`: after a
return of 0, `DISABLE_MOUSE` is the last command the mouse has carried out, with
two exceptions: no answer was read at all, or another byte (a late answer to the
first call, a byte of a movement) was taken for it while the refusal of the mouse
is still unread. A refusal that was read is never passed over.
`GameLoopGoesOn`: `game_loop` gets to its loop or returns, and returns after it.

**`video`** (`MCVideo.cfg`; 25,975 states). `StaysOnTheWay`: the moving image
stays between start and target and ends at the target, also when the last step
leads past it. `OneImage`: nothing is left of earlier images. `NoSpill`: a
rectangle over the right border does not go on in the next row.
`PatternInPlace`: each pixel of a pattern has the colour of its cell, and cells
are filled. `CleanReturn`: after a return of 0 text mode is back and nothing is
subscribed. `Arrives`: the image arrives, also when keys are pressed all the
time.

**`timer`** (`Timer.cfg`). `SetsFrequency`: after a call that returns 0 the
timer is at least as fast as it was asked to be, and no faster, to the accuracy
of the divisor, if it counts in binary, whatever calls were broken off before.
The divisor is written in binary also to a timer in BCD, which then runs too
fast. `KeepsMode`: no call changes the counting mode or the base.

**`lab_tests`** (`Labs.cfg`; 26,908 states). `PrintsWhole`: a scan code is
printed with two bytes if and only if the byte before it was 0xE0. `TimesOut`:
after a key, `kbd_test_timed_scan` times out after exactly 60 n + 1 interrupts.
`NoTornPacket`: `mouse_test_packet` prints a packet made of bytes of several at
most once, after a failed read of `OUT_BUF`, and then no other.
`Reenabled`: after a `kbd_test_poll` that returned 0 the keyboard interrupts
again, whatever `readcommand` took for the command byte, unless the second byte
of `writecommand` came before the first was taken. `BitsKept`: the other bits of
the command byte are changed only if the answer of the controller was late.
`Ends`: the loops end when their devices let them, whatever the uninitialised
`aux_counter` holds. `EndsAfterEsc`: after ESC `kbd_test_poll` returns, also when
the controller does not answer.

**`second_shot`** (*violation*, `ShipBulletsSecond.cfg`, the program's
numbers). `ShotIsAdded`: a shot is added to the array.
**`session_rtc`** (*violation*). `RtcEnabled`: in the loop the periodic
interrupt of the RTC is enabled.
**`timer_display`** (*violation*). `DisplaysMode`: what `timer_display_conf`
displays as the counting mode is that of the timer.
**`poll_exit`** (*violation*, under fairness of program and controller).
`ExitsUponEsc`: `kbd_test_poll` returns after the release of ESC.

Each property has a mutant in `PROJECT.json`: a plausible slip in one mapped
definition under which the same run fails.

## 4. Bounds

- *Game.* The geometry is scaled down to a field seven pixels wide; the
  configurations are chosen so that all of these happen: aliens reach both
  borders, drop, cross the territory; a crossing and a kill in one frame; a
  bullet that leaves the screen at the top and one at the bottom; the last
  life; a second round, and a second game after a lost one. `formation` has two
  slots, which move their bullet by one pixel each, so that it can hit an alien
  after another has crossed in the same frame, which is where `ScoreExact` is
  tight. Its heap leaves only marked bullets behind (`MCMarked`), and its aliens
  start at 1, with bullets of speed 1 (the program has 20 and 4): the conditions of
  `KilledByLiveBullet`. With one slot, speed 2 and aliens that start at 0 TLC finds
  it violated. `MaxRound` = 1
  bounds `roundNum` and with it the speed: the guard is in `Receive`, which
  delivers no timer bit in later rounds. The frame counter is reset by the
  code. The theorems hold for every `MaxRound`.
- *Ship bullets.* Three slots, so that a loop over them has a first, a middle and
  a last one, and two chunks: the live bullet, and one that is free, leaked by a
  second shot or in use elsewhere. `Junk` holds what may be left in freed
  memory; the proofs take any number of slots and chunks and any `Junk`.
- *Input.* No bound: one byte in the buffer, at most one bit per device pending.
- *Pointer.* Displacements of 0, 64 and 192 with both signs, on the real screen;
  the theorem takes all bytes.
- *Session.* Four hook ids for four devices, among them the initial values of
  the variables, so that they can be confused; `MaxNoise` = 2 bytes nobody asked
  for or damaged commands, over both calls; `ack` starts as an ACK or as a byte
  that is no answer. `CmosBits` is what the BIOS may have left in the cells
  `session_rtc` looks at.
- *Timer.* Timers 0, 2 and the illegal 3; the lowest legal frequency, the one
  below it, 60 and one above the clock of the chip; two counting modes. The
  fields are those of the enumeration `timer_status_field`.
- *Video.* A screen of 32 x 24, an image of 3 x 2, journeys in all directions
  that are and are not a whole number of steps; `MaxTicks` bounds the interrupts
  counted for a frame.
- *Labs.* n = 2; `MaxIdle` = 150 is more than the 60 n + 1 interrupts after
  which the loop has to end; `MaxTries` = 10 is the bound of the code itself.

Deadlock is checked in all passing runs but `input`, where the program may wait
for ever for a user who does nothing. Programs that have returned stay as they
are (`Gone`, `Ended`, `Over`).

## 5. Fairness

- *Game*: weak fairness of the handlers and of the end (the program is the only
  user of its thread), strong fairness of a message that carries the timer bit
  alone. The timer interrupts 60 times a second and the other devices do not
  send without pause, so that there are always messages without them. Nothing
  is assumed of the user.
- *Input*: weak fairness of the program. Devices owe nothing.
- *Session*: weak fairness of the calls, of the controller taking what it is given
  and of the mouse answering, and strong fairness of the controller taking 0xD4
  before the status is read again. Without the last one `GameLoopGoesOn` fails:
  see the hazard at `mouse.c:82`. Nobody has to end the game.
- *Video, labs*: weak fairness of the calls before the loop, of its end and of
  timer interrupts. `Ends` for the mouse is conditional on the mouse sending.
- *Polling*: weak fairness of `kbd_test_poll`, which waits for nobody, and of the
  controller; nobody has to type.

## 6. Proofs

All theorems are proved by TLAPS for every value of the constants that satisfies
the assumptions.

### 6.1 Assumptions

`CountAssumption` and `GeometryAssumption` (`Macros`): counts are positive,
lengths are natural numbers, the ship starts in its range. `BottomAssumption`:
the ship ends above the line where alien bullets leave the screen; only
`LifeLostTheorem` uses it. `FormationAssumption` (`Game`): `createAlien` puts
every alien strictly between the borders and less than a drop below the line
of the territory at most; only
`GameFormation` uses it. `MotionAssumption` (`Macros`): the aliens move and drop
by more than 0; only `RoundDescendsTheorem` uses it. `HeapAssumption`: `NULL` is no chunk and `Junk` has
the type of a bullet. `ScreenAssumption`: the pointer starts on the screen.
`SessionAssumption`: hook ids are positive and there are at least four.
`LabAssumption`: n is a `uint8_t`, and `MaxIdle` is beyond the time-out. `TriesAssumption`: at least one try.
`VideoAssumption`: screen, image and grid have a size, coordinates of a journey
fit 16 bits. `CommandAssumption`, `ErrorsAssumption`, `BoundAssumption`,
`TimerAssumption`: types of the other constants. TLC evaluates all of them in
the runs.

### 6.2 The game

The argument is built up in layers, each using the invariants below it.

1. `GameTypes`: `TypeCorrect`, from one lemma per helper and one step per action.
   The theorems about the array of bullets alone are there as well.
2. `StepCases` (`GameTypes`) divides all steps into *quiet* ones, which change
   nothing the properties look at, and the few that do; every later proof goes
   through these only.
3. `GameSafety`: `LiveBulletSound` needs that freed chunks are the only ones the
   heap may change. `KilledByLiveTheorem` takes the two conditions of section 3 as
   hypotheses (`CleanHeap`, and a bound on `ALIEN_Y0`). Its invariants are
   `FreedSound`, that a freed chunk in a slot is marked as having hit or still lies
   where it left the screen, less than one step from the top, and `AliensBelow`, that no living
   alien is above the place where the formation starts: the two cannot meet.
   `OneBullet`, that all slots hold the same pointer, is a lemma and no property:
   it holds because of the loop the run `second_shot` is about, and steps 7 and 9
   use it, so that they speak of the code as it is.
4. `LivesDrawable` and `ShipOnScreen` are inductive together (`ShipInv`).
   `LifeLostTheorem` needs `HitMeansActive`: a bullet that overlaps the ship is
   above the line where bullets are deactivated. The last life is a case of
   its own (`LastLifeStep`), since the ship is then replaced by a new one.
5. `KillCountExact` is not inductive alone: a kill must find its alien alive,
   and the alien loop goes on after a round was cleared. `Control` (which screens
   each position of the loop can meet) and `RoundOpen` (`PLAYING` has not all
   dead, `NEXT_ROUND` has) close it. The lemmas `OneMoreDead`, `NoMoreDead`,
   `DropKeepsDead` count the dead with the theorems on finite sets.
   `AlienToShoot` follows: fewer dead than aliens.
6. `SpeedTheorem`: `PlayingSpeed` with `MenuFresh`, since the menu is reached
   only with the speed and round of a new game.
7. `FlowTheorem`: `Game` implements `GameFlow`. The step that needs an argument
   is the one that clears a round. After a crossing the alien loop goes on in
   `MENU_DISPLAY`, and no test keeps it from going on to `NEXT_ROUND`. It does
   not: `CrossingFinal` says that from then on an alien the loop has passed is
   alive, or no bullet is in flight. It is an invariant because the ship has one
   bullet at a time (`OneBullet`): the kill that would clear the round spends it
   in every slot. `LoopInvTheorem` gathers the strengthenings; the run
   `formation` checks the same formula.
8. `GameFormation`: `FormationKept`, `BorderAhead` and `TerritoryHolds` speak of
   states between messages, so the invariant has to say what the alien loop has
   done so far. `FormationInv`: with the step of this frame taken off (`StepX`)
   all living aliens are displaced alike (`Together`); those below `idx` have
   been tested against the border and the territory; and if `changeDir` is set,
   some alien, perhaps dead by now, has reached the border together with the
   others (`BorderReached`). At the end of the frame the formation turns
   (`FormationFrameEnd`): that the other border is still ahead of everyone
   follows because all are displaced alike from places strictly between the
   borders. No bound on the speed is needed. `RoundDescendsTheorem` adds a rank,
   the way down weighted by the width of the field plus the way to the next
   border: it is a natural number, the same for all living aliens, every frame
   of a round makes it smaller and nothing else changes it. This is the safety
   half of `GameMovesOn`: a round has no more frames than the rank it starts with.
9. `ScoreExactTheorem` needs `ScoreInv`, which says what the score is while the
   alien loop goes on after a crossing: at most one alien can still be hit there,
   again because there is one bullet. `ScoreKeptTheorem`: within a game what is
   left over never changes, so each kill counts once.
10. `ShotFateTheorem` says what becomes of a shot, as an action property: it is
   lost only while an earlier bullet is in flight, otherwise every slot gets it.
   It is the positive side of the run `second_shot`.
11. `ExitEndsTheorem` (`GameTypes`) is liveness, see 6.5.

### 6.3 The devices

`InputProofs`: `NoLostByte` from `InputInv` (which bit is in hand at each
position, and which byte the mouse sends next); `PacketsHeal` as an action
property from the same invariant, for the steps that read a byte and for those
that fail to. For `Pointer`, `PacketDelta` bounds what sign
extension yields, from which the pointer stays on the screen; the buttons of the
two screens are apart.

`MouseSessionProofs`: `ImplementsSession` shows that the composition is a
behaviour of `Session`. `SessionInv` says which devices have a policy at each
call, with the bit and the id in their variables; `LoopKnowsBits`,
`UnsubscribesItsOwn` and `CleanExit` follow. `PrefixFirst` says at each step of
`send_mouse_command` what the controller holds and has taken, across the end of
one call and the beginning of the next; `ToMouse` follows. `LastObeyed` relates
what the mouse has carried out to the answers on their way, and `MouseInv` puts
them together for `MouseStops`. `CommandReturnsTheorem` and `GameLoopGoesOnTheorem` are
liveness, see 6.5.

### 6.4 The labs

`TimerProofs`: `TimerInv` says what each port access finds: the status that is
read was asked for, its low bits are those of the timer, the control word has
made the next byte the first of two. `KeepsMode` is an action property of it;
`SetsFrequency` takes the two bytes of the divisor together and needs the range
check of the frequency, which is what makes the divisor fit 16 bits. In BCD each
byte is worth at most its binary value, and so is the divisor.

`LabsProofs`: `PollInv` for `kbd_test_poll` (where the answer of the controller and
the argument of its command are), and one invariant for each of the other loops
(`KeyInv`, `PacketInv`, `IdleInv`). `IdleInv` relates `aux_counter`,
`timer_counter` and the interrupts since the last key, whatever `aux_counter`
started with; `SecondBegins` and `SecondsLeft` are its arithmetic. `LengthInv` adds
what is needed for how long the loops last: `AllShownTheorem` (exactly n lines on
a return of 0) and `DeadlineTheorem` (no wait for a key beyond 60 n + 1
interrupts), which are safety halves of `Ends`. `AccessesTheorem` counts the
accesses left to `kbd_reenable_int`, 24 at most in the code, each step of the
program spending one: the safety half of `EndsAfterEsc`. `SpinsTheorem`
strengthens the finding of `poll_exit`: a loop that finds a byte in the buffer
does nothing else for ever, unless a port access fails.

`VideoProofs`: `CallInv` (what a test holds at each call) for `CleanReturn`.
`MoveInv` for the moving image: `OneStep` shows that a step stays on the way or
is the last, `Deleted` that `vg_drawrectangle` covers what `draw_xpm` has drawn,
`Redrawn` that exactly the new image is left. For rectangles and patterns,
`Inside` computes the row and column of an address back from the condition of
`vg_drawline`, with `DivMod`; `PatternInv` says which cells are drawn so far, and
`InCell` and `NoHole` find a pixel in its cell. `ComesNearerTheorem`, from
`MoveInv` and `TicksInv`: the interrupts left on the way are a natural number
that every timer interrupt lowers and no message raises, the safety half of
`Arrives`.

### 6.5 Liveness

The prover has no rules for ENABLED, and so none for WF and SF. Where the way to
the goal is a fixed chain of steps the argument is propositional temporal logic,
and the theorems take fairness with the guard written out:
`[]<>~G \/ []<><<A>>_vars` for weak and `<>[]~G \/ []<><<A>>_vars` for strong
fairness of A. These follow from WF and SF of A if G implies ENABLED `<<A>>_vars`.
That implication is not proved; TLC was asked for it as an invariant, outside
the runs listed here, on the instances of `game`, `formation`, `input` and
`session`, and found it to hold in every reachable state.

- `ExitEndsTheorem` (`ExitEnds`): a state with EXIT chosen goes on from the section
  it was chosen in to the next, and from the last to the end of the loop.
- `EveryByteReadTheorem` (`EveryByteRead`): the bits of the message and the
  position in the loop give the number of steps of the program, nine at most,
  until a good byte is read or its read has failed (`Steps`); a step lowers it, and
  `NoLostByte` says there is no way off this chain.
- `CommandReturnsTheorem`: `send_mouse_command` returns. Errors and stray bytes
  may be any number but come to an end (`NoiseEnds`; `MaxNoise` bounds them in
  the run). After them the function goes round its outer loop until the
  controller takes 0xD4 in time, which is the strong fairness of section 5, then
  the answer comes and stays (`AckStays`). The proof fails without any one of
  the four fairness assumptions.
- `GameLoopGoesOnTheorem` (`GameLoopGoesOn`): the calls of `game_loop` one by one,
  with the theorem before for the two that are commands to the mouse.

### 6.6 What is only model-checked

`GameMovesOn`, `Arrives`, `Ends` and `EndsAfterEsc`: the number of steps depends on
the constants, so that a proof needs induction over a natural number under a
temporal operator, which is out of the prover's reach. Their safety halves, a
measure that is a natural number and comes down, or a limit that is never passed,
are proved as named in 6.2 to 6.4; what TLC adds is that the steps which lower it
do happen. For `Ends` with mouse packets there is only `AllShownTheorem`. That a
guard of 6.5 implies ENABLED is model-checked too.

Every safety property of a passing run, the refinement of `GameFlow` and the
action properties are proved.

## 7. Disagreements met while modelling

With a run and a finding:

- `createShipBullet` (`shipBullet.c:21`) does not stop at the first free slot;
  one shot fills the array and the next one is stored nowhere (`second_shot`).
- `REG_B` is 0x11 instead of 0x0B (`rtc.h:26`): `rtc_enable` changes another
  cell of the CMOS (`session_rtc`).
- `timer_display_conf` (`lab2/timer.c:140`) makes the mask of the counting mode
  with `&` instead of `|`; it is 0, and mode 0 is displayed for every timer
  (`timer_display`).
- `kbd_test_poll` (`lab3.c:98`) goes back to the status while there is a byte and
  reads only while there is none. It gets a byte only if it arrives between
  its look at the status and that of `kbc_ih`; a break code of ESC that is in the
  buffer stays there (`poll_exit`).

Seen in the models and excluded by what the properties say:

- A byte with a transfer error stays in the controller (`mouse.c:33`,
  `keyboard.c:30`), so nothing further arrives; `EveryByteRead` speaks of good
  bytes.
- A handler of the game that cannot read a port leaves the byte in the controller
  as well (`mouse.c:27`, `mouse.c:40`, `keyboard.c:28`, `keyboard.c:35`) and uses up
  its notification: input stops. `NoLostByte`, `PacketsHeal` and `EveryByteRead`
  name this as the exception. In lab 4 (`lab4/mouse.c:47`) it is the one of
  `NoTornPacket`.
- `timer_set_frequency` (`lab2/timer.c`) keeps the BCD bit of the timer and writes
  the divisor in binary; `SetsFrequency` claims the exact frequency for binary
  timers only.
- Pointers to freed bullets stay in the slots (`shipBullet.c:28`);
  `KilledByLiveBullet` needs a heap that leaves them alone.
- `send_mouse_command` tests `ack` before it was read when it starts again with
  `continue`; it may return 0 with no command sent. It also takes any ACK for
  the answer to its own command. These are the two exceptions of `MouseStops`.
- `readcommand` reads right after it has asked: if the answer is late it takes
  what the buffer held last for the command byte, and `writecommand` writes that back
  (`raced`). `writecommand` writes its argument without waiting for the
  controller to take the command (`overrun`). `BitsKept` and `Reenabled` say that
  these two are the only ways to go wrong.
- `vg_drawline` (`vg.c:103`) counts x and i together and stops half-way near the
  right border; `OneImage` and `PatternInPlace` leave a strip there out.
- A step of `video_test_move` below 0 or beyond 65535 wraps around in 16 bits;
  `StaysOnTheWay` and `Arrives` leave such journeys out, and the run has none.
- After a crossing the alien loop goes on with the ship of the next game
  (`game.c:339`): one more alien may be hit in that frame, and the next game then
  starts with 10, 20 or 30 points instead of the 0 of `createShip`. `ScoreExact`
  says that it is never more than one alien.
- `mouse_test_packet` never resets `ih_error`: after one error it does not end.

## 8. What is not modelled

- Drawing in the game (`graphic.c`, `menu.c`, `drawXpm`): pixels are copied and
  nothing the game reads is changed. What drawing requires (lives of 1 to 3) and
  does to the heap is modelled.
- `rtc_ih`: no caller.
- `mouse_test_async`, `mouse_test_gesture` (lab 4): they use names that are
  defined nowhere, so that `lab4.c` does not build as it stands;
  `mouse_test_packet`, which does not depend on them, is modelled as written.
- Lab 0, `main` of each program, the copies of `timer.c` and `utils.c` in labs 3
  to 5, which repeat those of lab 2, and the tables of pixels in the xpm files.
- `src/.minix-src/include`, a copy of the include tree of MINIX and of the LCOM
  framework. It makes up nearly all of the lines under `src/` (some 254,000 of
  260,000) and holds declarations, no program of this repository, so that the
  map covers a small share of all lines but about 30% of the 6,000 lines of the
  programs themselves; most of the rest are headers, tables of pixels, the
  copies named above and drawing.
- The LCF library and the kernel: modelled only by what the code relies on, and
  marked external in the map.

## 9. Plan

Modelled: all operations of the game and of the labs that change state, but for
those of section 8. Proved: all safety properties, and liveness where the way is
a fixed chain of steps. What could still be added:

1. `Input` and `Pointer` composed, so that the packets of one are the input of
   the other, and this with `Game`, where packets and clicks are abstract;
2. `mouse_test_async` and `mouse_test_gesture`, once `lab4.c` builds;
3. the animation and the images of `graphic.c`, if the game comes to depend on
   what they compute.

## 10. How to run it

In this directory: `tlc -config MCGame.cfg MCGame` (module and configuration of
each run are in `PROJECT.json`), `tlapm GameSafety.tla` for a module with
proofs. The longest run takes about two minutes; of the proofs, `GameSafety`
takes about eleven minutes, `GameFormation` four, and the others from a quarter
of a minute to a bit over two.
