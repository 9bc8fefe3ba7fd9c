--------------------------------- MODULE Video ---------------------------------
(***************************************************************************)
(* The tests of lab 5 (lab5.c, vg.c).  Each sets a graphics mode, draws    *)
(* something, waits until ESC is released and sets text mode again;        *)
(* video_test_move meanwhile moves an image along a row or a column of the *)
(* screen, a step every so many timer interrupts.  One message of the      *)
(* kernel may carry the bit of the timer and that of the keyboard; the     *)
(* first byte of a two-byte scan code ends the handling of its message     *)
(* with "continue".                                                        *)
(*                                                                         *)
(* The video memory is the set of addresses that were drawn on, each with  *)
(* a mark for what was drawn there instead of its colour.                  *)
(***************************************************************************)
EXTENDS Integers, Sequences

CONSTANTS
    Journeys,      \* arguments <<xi, yi, xf, yf>> of video_test_move
    Speeds,        \* its argument speed: pixels per frame, or -(frames per pixel)
    FrameRates,    \* its argument fr_rate
    Rectangles,    \* arguments <<x, y, width, height>> of video_test_rectangle
    Grids,         \* argument no_rectangles of video_test_pattern
    Modes,         \* graphics modes asked for
    Xres, Yres,    \* size of the screen
    img_width,     \* size of the image
    img_height,
    MaxTicks       \* bound on timer_counter, which only the movement sets to 0

sys_hz == 60

ASSUME VideoAssumption ==
    /\ Journeys \subseteq Nat \X Nat \X Nat \X Nat
    /\ \A j \in Journeys : j[1] <= 65535 /\ j[2] <= 65535
    /\ Rectangles \subseteq Nat \X Nat \X Nat \X Nat
    /\ Speeds \subseteq Int
    /\ FrameRates \subseteq Nat \ {0}
    /\ Grids \subseteq Nat \ {0}
    /\ {Xres, Yres, img_width, img_height} \subseteq Nat \ {0}
    /\ MaxTicks \in Nat

VARIABLES
    test,                      \* the test and its arguments
    mode, arg, speed, fr_rate,
    xi, yi,                    \* position video_test_move computes
    moving,
    timer_counter,
    shown,                     \* where the image was drawn last
    screen,                    \* video memory: address -> what was drawn there
    done,                      \* rectangles of the pattern drawn so far
    graphics,                  \* a graphics mode is set
    policies,                  \* interrupts subscribed
    pc, rc

args == <<test, mode, arg, speed, fr_rate>>
moveState == <<xi, yi, moving, timer_counter, shown>>
videoVars == <<args, moveState, screen, done, graphics, policies, pc, rc>>

x0 == arg[1]
y0 == arg[2]
xf == arg[3]
yf == arg[4]

\* Mutated form: video_test_move keeps the timer.
CallsMutant ==
    [t \in {"init", "rectangle", "pattern", "xpm", "move"} |->
        IF t = "init"
        THEN <<"vg_get_mode_info", "vg_set_mode", "vg_exit">>
        ELSE IF t = "move"
        THEN <<"vg_get_mode_info", "vg_set_mode", "draw", "timer_subscribe_int",
               "kbd_subscribe_int", "loop", "vg_exit", "kbd_unsubscribe_int">>
        ELSE <<"vg_get_mode_info", "vg_set_mode", "draw", "kbd_subscribe_int", "loop",
               "kbd_unsubscribe_int", "vg_exit">>]

\* The order of the calls of each test.  draw and loop stand for the part in
\* between, wait_esckey is the loop with the calls around it.
Calls ==
    [init      |-> <<"vg_get_mode_info", "vg_set_mode", "vg_exit">>,
     rectangle |-> <<"vg_get_mode_info", "vg_set_mode", "draw", "kbd_subscribe_int", "loop",
                     "kbd_unsubscribe_int", "vg_exit">>,
     pattern   |-> <<"vg_get_mode_info", "vg_set_mode", "draw", "kbd_subscribe_int", "loop",
                     "kbd_unsubscribe_int", "vg_exit">>,
     xpm       |-> <<"vg_get_mode_info", "vg_set_mode", "draw", "kbd_subscribe_int", "loop",
                     "kbd_unsubscribe_int", "vg_exit">>,
     move      |-> <<"vg_get_mode_info", "vg_set_mode", "draw", "timer_subscribe_int",
                     "kbd_subscribe_int", "loop", "vg_exit", "kbd_unsubscribe_int",
                     "timer_unsubscribe_int">>]

\* Interrupts per step; a negative speed is a number of frames for one pixel.
ipf == (sys_hz \div fr_rate) * (IF speed < 0 THEN -speed ELSE 1)

StepLength == IF speed < 0 THEN 1 ELSE speed

\* Mutated form: nothing is assigned for a negative speed.
mov_xMutant == IF x0 = xf \/ speed < 0 THEN 0 ELSE IF xf < x0 THEN -speed ELSE speed

mov_x == IF x0 = xf THEN 0 ELSE IF xf < x0 THEN -StepLength ELSE StepLength
mov_y == IF x0 # xf THEN 0 ELSE IF yf < y0 THEN -StepLength ELSE StepLength

negative_mov == xf < x0 \/ yf < y0

uint16(n) == n % 65536

\* A test and its arguments; those it does not have are not used.
Arguments ==
    \/ /\ test = "move"
       /\ arg \in Journeys
       /\ speed \in Speeds
       /\ fr_rate \in FrameRates
       /\ mode = "0x105"
    \/ /\ test = "rectangle"
       /\ arg \in Rectangles
       /\ mode \in Modes
       /\ speed = 0 /\ fr_rate = 60
    \/ /\ test = "pattern"
       /\ \E n \in Grids : arg = <<n, n, n, n>>
       /\ mode \in Modes
       /\ speed = 0 /\ fr_rate = 60
    \/ /\ test = "xpm"
       /\ arg \in Rectangles
       /\ mode = "0x14C"
       /\ speed = 0 /\ fr_rate = 60
    \/ /\ test = "init"
       /\ arg = <<0, 0, 0, 0>>
       /\ mode \in Modes
       /\ speed = 0 /\ fr_rate = 60

VideoInit ==
    /\ Arguments
    /\ xi = x0
    /\ yi = y0
    /\ moving = TRUE
    /\ timer_counter = 0
    /\ shown = <<-1, -1>>
    /\ screen = <<>>
    /\ done = 0
    /\ graphics = FALSE
    /\ policies = {}
    /\ pc = "vg_get_mode_info"
    /\ rc = -1

-------------------------------------------------------------------------------
(***************************************************************************)
(* Drawing (vg.c).  An operator gives the addresses that a call writes,    *)
(* counted in pixels.                                                      *)
(***************************************************************************)
vg_drawpixel(x, y) == y * Xres + x

\* Mutated form: the right border is not tested.
vg_drawlineMutant(x, y, len) == {vg_drawpixel(x + i, y) : i \in 0 .. len - 1}

\* The loop moves x on itself and adds i in its condition, so that near the
\* right border it stops half-way.
vg_drawline(x, y, len) == {vg_drawpixel(x + i, y) : i \in {k \in 0 .. len - 1 : k + (x + k) < Xres}}

vg_drawrectangle(x, y, width, height) ==
    UNION {vg_drawline(x, y + i, width) : i \in 0 .. height - 1}

draw_xpm(x, y) ==
    {vg_drawpixel(j, i) : j \in x .. x + img_width - 1, i \in y .. y + img_height - 1}

Paint(mem, addresses, mark) ==
    [a \in addresses \cup DOMAIN mem |-> IF a \in addresses THEN mark ELSE mem[a]]

Black(mem, addresses) == [a \in DOMAIN mem \ addresses |-> mem[a]]

\* Mutated form: the new place is cleared, not the old one.
draw_next_xpmMutant(x, y, to) ==
    Paint(Black(screen, vg_drawrectangle(to[1], to[2], img_width, img_height)),
          draw_xpm(to[1], to[2]), "image")

\* The image at <<x, y>> is deleted with a black rectangle and drawn anew.
draw_next_xpm(x, y, to) ==
    Paint(Black(screen, vg_drawrectangle(x, y, img_width, img_height)),
          draw_xpm(to[1], to[2]), "image")

-------------------------------------------------------------------------------
(***************************************************************************)
(* The calls of a test in their order.                                     *)
(***************************************************************************)
Then ==
    LET calls == Calls[test]
        k == CHOOSE i \in DOMAIN calls : calls[i] = pc
    IN  IF k = Len(calls) THEN pc' = "returned" /\ rc' = 0
                          ELSE pc' = calls[k + 1] /\ rc' = rc

\* A call fails, or the arguments are refused: the test returns 1 at once.
Fail ==
    /\ pc \notin {"loop", "returned", "panic"}
    /\ pc = "draw" => test = "pattern"
    /\ pc' = "returned"
    /\ rc' = 1
    /\ UNCHANGED <<args, moveState, screen, done, graphics, policies>>

\* video_test_move accepts movements along one axis only.
vg_get_mode_info ==
    /\ pc = "vg_get_mode_info"
    /\ test = "move" => x0 = xf \/ y0 = yf
    /\ Then
    /\ UNCHANGED <<args, moveState, screen, done, graphics, policies>>

\* The memory is not granted or not mapped.
vg_get_mode_info_panic ==
    /\ pc = "vg_get_mode_info"
    /\ pc' = "panic"
    /\ UNCHANGED <<args, moveState, screen, done, graphics, policies, rc>>

vg_set_mode ==
    /\ pc = "vg_set_mode"
    /\ mode \in {"0x105", "0x110", "0x115", "0x11A", "0x14C"}
    /\ graphics' = TRUE
    /\ Then
    /\ UNCHANGED <<args, moveState, screen, done, policies>>

DrawRectangle ==
    /\ pc = "draw"
    /\ test = "rectangle"
    /\ screen' = Paint(screen, vg_drawrectangle(arg[1], arg[2], arg[3], arg[4]), "rectangle")
    /\ Then
    /\ UNCHANGED <<args, moveState, done, graphics, policies>>

\* The first image.
DrawImage ==
    /\ pc = "draw"
    /\ test \in {"xpm", "move"}
    /\ screen' = Paint(screen, draw_xpm(x0, y0), "image")
    /\ shown' = <<x0, y0>>
    /\ Then
    /\ UNCHANGED <<args, xi, yi, moving, timer_counter, done, graphics, policies>>

no_rectangles == arg[1]

\* Mutated form: the rectangles are rounded up.
RectangleWidthMutant == (Xres + no_rectangles - 1) \div no_rectangles

RectangleWidth == Xres \div no_rectangles
RectangleHeight == Yres \div no_rectangles

\* vg_drawpattern draws row after row, one rectangle with each step.
DrawPattern ==
    LET row == done \div no_rectangles
        col == done % no_rectangles
    IN  /\ pc = "draw"
        /\ test = "pattern"
        /\ done < no_rectangles * no_rectangles
        /\ screen' = Paint(screen, vg_drawrectangle(col * RectangleWidth, row * RectangleHeight,
                                                    RectangleWidth, RectangleHeight), <<row, col>>)
        /\ done' = done + 1
        /\ UNCHANGED <<args, moveState, graphics, policies, pc, rc>>

PatternDrawn ==
    /\ pc = "draw"
    /\ test = "pattern"
    /\ done = no_rectangles * no_rectangles
    /\ Then
    /\ UNCHANGED <<args, moveState, screen, done, graphics, policies>>

subscribe_int ==
    /\ \/ pc = "timer_subscribe_int" /\ policies' = policies \cup {"timer"}
       \/ pc = "kbd_subscribe_int" /\ policies' = policies \cup {"kbd"}
    /\ Then
    /\ UNCHANGED <<args, moveState, screen, done, graphics>>

unsubscribe_int ==
    /\ \/ pc = "timer_unsubscribe_int" /\ policies' = policies \ {"timer"}
       \/ pc = "kbd_unsubscribe_int" /\ policies' = policies \ {"kbd"}
    /\ Then
    /\ UNCHANGED <<args, moveState, screen, done, graphics>>

vg_exit ==
    /\ pc = "vg_exit"
    /\ graphics' = FALSE
    /\ Then
    /\ UNCHANGED <<args, moveState, screen, done, policies>>

-------------------------------------------------------------------------------
(***************************************************************************)
(* The loop.                                                               *)
(***************************************************************************)

\* Mutated form: the target must be met exactly.
LastMutant(x, y) == x = xf /\ y = yf

Last(x, y) ==
    \/ x >= xf /\ y >= yf /\ ~negative_mov
    \/ xf >= x /\ yf >= y /\ negative_mov

\* The last image is drawn at the target.
Drawn(x, y) == IF Last(x, y) THEN <<xf, yf>> ELSE <<x, y>>

\* The end of each turn of the loop, with the interrupts counted so far.
Move(ticks) ==
    IF test = "move" /\ moving /\ ticks >= ipf
    THEN LET x == uint16(xi + mov_x)
             y == uint16(yi + mov_y)
         IN  /\ xi' = x
             /\ yi' = y
             /\ shown' = Drawn(x, y)
             /\ screen' = draw_next_xpm(xi, yi, Drawn(x, y))
             /\ moving' = ~Last(x, y)
             /\ timer_counter' = 0
    ELSE /\ timer_counter' = ticks
         /\ UNCHANGED <<xi, yi, shown, screen, moving>>

\* A message with the bit of the timer alone.
TimerTick ==
    /\ pc = "loop"
    /\ "timer" \in policies
    /\ timer_counter < MaxTicks
    /\ Move(timer_counter + 1)
    /\ UNCHANGED <<args, done, graphics, policies, pc, rc>>

\* A message with the bit of the keyboard, and perhaps that of the timer too.
\* The loop ends with the break code of ESC.
Key(esc, tick) ==
    /\ pc = "loop"
    /\ tick = 1 => "timer" \in policies
    /\ timer_counter + tick <= MaxTicks
    /\ Move(timer_counter + tick)
    /\ IF esc THEN Then ELSE UNCHANGED <<pc, rc>>
    /\ UNCHANGED <<args, done, graphics, policies>>

\* The first byte of two: "continue" skips the timer and the movement.
PrefixKey ==
    /\ pc = "loop"
    /\ UNCHANGED videoVars

Gone == pc \in {"returned", "panic"} /\ UNCHANGED videoVars

-------------------------------------------------------------------------------

ToLoop ==
    \/ vg_get_mode_info
    \/ vg_set_mode
    \/ DrawRectangle
    \/ DrawImage
    \/ DrawPattern
    \/ PatternDrawn
    \/ subscribe_int

VideoNext ==
    \/ ToLoop
    \/ vg_get_mode_info_panic
    \/ Fail
    \/ TimerTick
    \/ \E esc \in BOOLEAN, tick \in 0 .. 1 : Key(esc, tick)
    \/ PrefixKey
    \/ vg_exit
    \/ unsubscribe_int
    \/ Gone

VideoSpec == VideoInit /\ [][VideoNext]_videoVars

\* The timer goes on interrupting, and the program to its loop.
VideoFairSpec == VideoSpec /\ WF_videoVars(ToLoop) /\ WF_videoVars(TimerTick)

-------------------------------------------------------------------------------

Between(a, b, c) == (a <= b /\ b <= c) \/ (c <= b /\ b <= a)

OnTheWay == Between(x0, shown[1], xf) /\ Between(y0, shown[2], yf)

\* The last step may lead below 0 or beyond 65535, where a uint16_t starts again
\* at the other end.
MayWrap ==
    \/ xf + mov_x < 0 \/ xf + mov_x > 65535
    \/ yf + mov_y < 0 \/ yf + mov_y > 65535

Travelling == test = "move" /\ screen # <<>> /\ ~MayWrap

(***************************************************************************)
(* The image never leaves the way from the start to the target, whatever   *)
(* the speed and the length of the last step, and its movement ends at the *)
(* target, not where the last step would have led, as long as no step can  *)
(* lead out of the range of a uint16_t (video_test_move).                  *)
(***************************************************************************)
StaysOnTheWay ==
    Travelling =>
        /\ OnTheWay
        /\ ~moving => shown = <<xf, yf>>

\* vg_drawline reaches the end of a line of this length that begins at x.
Whole(x, length) == x + 2 * (length - 1) < Xres

(***************************************************************************)
(* There is one image on the screen and nothing is left of those before    *)
(* it: draw_next_xpm deletes what was drawn at the place it has left, also *)
(* when the last step was shortened.  For the loop of vg_drawline to reach *)
(* the end of each line, the way must keep from the right border a         *)
(* distance of nearly twice the width of the image.                        *)
(***************************************************************************)
OneImage ==
    Travelling /\ Whole(x0, img_width) /\ Whole(xf, img_width)
    => DOMAIN screen = draw_xpm(shown[1], shown[2])

(***************************************************************************)
(* The image arrives, if the speed is not 0, no step can lead out of the   *)
(* range of a uint16_t and nobody releases ESC, also when keys are pressed *)
(* all the time.                                                           *)
(***************************************************************************)
Arrives ==
    pc = "loop" /\ test = "move" /\ StepLength # 0 /\ ~MayWrap ~> ~moving \/ pc # "loop"

(***************************************************************************)
(* A rectangle that ends above the lower border of the screen paints no    *)
(* pixel outside itself, in particular not the beginning of the next line  *)
(* when it reaches over the right border (vg_drawrectangle).               *)
(***************************************************************************)
NoSpill ==
    test = "rectangle" /\ arg[2] + arg[4] <= Yres =>
        \A a \in DOMAIN screen :
            /\ a % Xres \in arg[1] .. arg[1] + arg[3] - 1
            /\ a \div Xres \in arg[2] .. arg[2] + arg[4] - 1

(***************************************************************************)
(* The rectangles of a pattern do not disturb each other: each pixel has   *)
(* the colour of the cell of the grid it is in, and once the pattern is    *)
(* drawn no cell has a hole that begins at least twice its width from the  *)
(* right border (vg_drawpattern).                                          *)
(***************************************************************************)
PatternInPlace ==
    test = "pattern" =>
        LET w == Xres \div arg[1]
            h == Yres \div arg[1]
        IN  /\ \A a \in DOMAIN screen : screen[a] = <<(a \div Xres) \div h, (a % Xres) \div w>>
            /\ pc = "loop" =>
                 \A x \in 0 .. arg[1] * w - 1, y \in 0 .. arg[1] * h - 1 :
                     Whole((x \div w) * w, w) => y * Xres + x \in DOMAIN screen

(***************************************************************************)
(* A test that returns 0 leaves text mode and no interrupt subscribed,     *)
(* in whichever order it gives things up.                                  *)
(***************************************************************************)
CleanReturn == rc = 0 => ~graphics /\ policies = {}

===============================================================================
