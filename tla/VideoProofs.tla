------------------------------ MODULE VideoProofs ------------------------------
(***************************************************************************)
(* The tests of lab 5, for every size of screen and image, every journey,  *)
(* speed, rectangle and grid.                                              *)
(***************************************************************************)
EXTENDS Video, TLAPS

-------------------------------------------------------------------------------
(***************************************************************************)
(* The order of the calls.                                                 *)
(***************************************************************************)

\* A call is followed by the one after it in the list of its test.
LEMMA AfterCall ==
  ASSUME Then, NEW j \in DOMAIN Calls[test], Calls[test][j] = pc,
         \A i \in DOMAIN Calls[test] : Calls[test][i] = pc => i = j
  PROVE  IF j = Len(Calls[test]) THEN pc' = "returned" /\ rc' = 0
                                 ELSE pc' = Calls[test][j + 1] /\ rc' = rc
BY DEF Then

LEMMA OrderInit ==
  ASSUME test = "init", Then
  PROVE  /\ pc = "vg_get_mode_info" => pc' = "vg_set_mode" /\ rc' = rc
         /\ pc = "vg_set_mode" => pc' = "vg_exit" /\ rc' = rc
         /\ pc = "vg_exit" => pc' = "returned" /\ rc' = 0
<1>1. Calls[test] = <<"vg_get_mode_info", "vg_set_mode", "vg_exit">>
  BY DEF Calls
<1>2. pc = "vg_get_mode_info" => pc' = "vg_set_mode" /\ rc' = rc
  BY <1>1, AfterCall, 1 \in DOMAIN Calls[test]
<1>3. pc = "vg_set_mode" => pc' = "vg_exit" /\ rc' = rc
  BY <1>1, AfterCall, 2 \in DOMAIN Calls[test]
<1>4. pc = "vg_exit" => pc' = "returned" /\ rc' = 0
  BY <1>1, AfterCall, 3 \in DOMAIN Calls[test]
<1>5. QED
  BY <1>2, <1>3, <1>4

LEMMA OrderShow ==
  ASSUME test \in {"rectangle", "pattern", "xpm"}, Then
  PROVE  /\ pc = "vg_get_mode_info" => pc' = "vg_set_mode" /\ rc' = rc
         /\ pc = "vg_set_mode" => pc' = "draw" /\ rc' = rc
         /\ pc = "draw" => pc' = "kbd_subscribe_int" /\ rc' = rc
         /\ pc = "kbd_subscribe_int" => pc' = "loop" /\ rc' = rc
         /\ pc = "loop" => pc' = "kbd_unsubscribe_int" /\ rc' = rc
         /\ pc = "kbd_unsubscribe_int" => pc' = "vg_exit" /\ rc' = rc
         /\ pc = "vg_exit" => pc' = "returned" /\ rc' = 0
<1>1. Calls[test] = <<"vg_get_mode_info", "vg_set_mode", "draw", "kbd_subscribe_int", "loop",
                      "kbd_unsubscribe_int", "vg_exit">>
  BY DEF Calls
<1>2. pc = "vg_get_mode_info" => pc' = "vg_set_mode" /\ rc' = rc
  BY <1>1, AfterCall, 1 \in DOMAIN Calls[test]
<1>3. pc = "vg_set_mode" => pc' = "draw" /\ rc' = rc
  BY <1>1, AfterCall, 2 \in DOMAIN Calls[test]
<1>4. pc = "draw" => pc' = "kbd_subscribe_int" /\ rc' = rc
  BY <1>1, AfterCall, 3 \in DOMAIN Calls[test]
<1>5. pc = "kbd_subscribe_int" => pc' = "loop" /\ rc' = rc
  BY <1>1, AfterCall, 4 \in DOMAIN Calls[test]
<1>6. pc = "loop" => pc' = "kbd_unsubscribe_int" /\ rc' = rc
  BY <1>1, AfterCall, 5 \in DOMAIN Calls[test]
<1>7. pc = "kbd_unsubscribe_int" => pc' = "vg_exit" /\ rc' = rc
  BY <1>1, AfterCall, 6 \in DOMAIN Calls[test]
<1>8. pc = "vg_exit" => pc' = "returned" /\ rc' = 0
  BY <1>1, AfterCall, 7 \in DOMAIN Calls[test]
<1>9. QED
  BY <1>2, <1>3, <1>4, <1>5, <1>6, <1>7, <1>8

LEMMA OrderMove ==
  ASSUME test = "move", Then
  PROVE  /\ pc = "vg_get_mode_info" => pc' = "vg_set_mode" /\ rc' = rc
         /\ pc = "vg_set_mode" => pc' = "draw" /\ rc' = rc
         /\ pc = "draw" => pc' = "timer_subscribe_int" /\ rc' = rc
         /\ pc = "timer_subscribe_int" => pc' = "kbd_subscribe_int" /\ rc' = rc
         /\ pc = "kbd_subscribe_int" => pc' = "loop" /\ rc' = rc
         /\ pc = "loop" => pc' = "vg_exit" /\ rc' = rc
         /\ pc = "vg_exit" => pc' = "kbd_unsubscribe_int" /\ rc' = rc
         /\ pc = "kbd_unsubscribe_int" => pc' = "timer_unsubscribe_int" /\ rc' = rc
         /\ pc = "timer_unsubscribe_int" => pc' = "returned" /\ rc' = 0
<1>1. Calls[test] = <<"vg_get_mode_info", "vg_set_mode", "draw", "timer_subscribe_int",
                      "kbd_subscribe_int", "loop", "vg_exit", "kbd_unsubscribe_int",
                      "timer_unsubscribe_int">>
  BY DEF Calls
<1>2. pc = "vg_get_mode_info" => pc' = "vg_set_mode" /\ rc' = rc
  BY <1>1, AfterCall, 1 \in DOMAIN Calls[test]
<1>3. pc = "vg_set_mode" => pc' = "draw" /\ rc' = rc
  BY <1>1, AfterCall, 2 \in DOMAIN Calls[test]
<1>4. pc = "draw" => pc' = "timer_subscribe_int" /\ rc' = rc
  BY <1>1, AfterCall, 3 \in DOMAIN Calls[test]
<1>5. pc = "timer_subscribe_int" => pc' = "kbd_subscribe_int" /\ rc' = rc
  BY <1>1, AfterCall, 4 \in DOMAIN Calls[test]
<1>6. pc = "kbd_subscribe_int" => pc' = "loop" /\ rc' = rc
  BY <1>1, AfterCall, 5 \in DOMAIN Calls[test]
<1>7. pc = "loop" => pc' = "vg_exit" /\ rc' = rc
  BY <1>1, AfterCall, 6 \in DOMAIN Calls[test]
<1>8. pc = "vg_exit" => pc' = "kbd_unsubscribe_int" /\ rc' = rc
  BY <1>1, AfterCall, 7 \in DOMAIN Calls[test]
<1>9. pc = "kbd_unsubscribe_int" => pc' = "timer_unsubscribe_int" /\ rc' = rc
  BY <1>1, AfterCall, 8 \in DOMAIN Calls[test]
<1>10. pc = "timer_unsubscribe_int" => pc' = "returned" /\ rc' = 0
  BY <1>1, AfterCall, 9 \in DOMAIN Calls[test]
<1>11. QED
  BY <1>2, <1>3, <1>4, <1>5, <1>6, <1>7, <1>8, <1>9, <1>10

\* Where each test can be.
Places ==
    {"vg_get_mode_info", "vg_set_mode", "vg_exit", "returned", "panic"} \cup
    IF test = "init" THEN {}
    ELSE {"draw", "kbd_subscribe_int", "loop", "kbd_unsubscribe_int"} \cup
         IF test = "move" THEN {"timer_subscribe_int", "timer_unsubscribe_int"} ELSE {}

\* The arguments are those of the call, and what a test has taken and not given
\* back can be told from where it is.
CallInv ==
    /\ Arguments
    /\ pc \in Places
    /\ rc = 0 => pc = "returned" /\ ~graphics /\ policies = {}
    /\ policies \subseteq {"kbd", "timer"}
    /\ test # "move" => "timer" \notin policies
    /\ test = "init" => policies = {}
    /\ test # "move" /\ pc = "vg_exit" => policies = {}
    /\ test = "move" /\ pc = "kbd_unsubscribe_int" => ~graphics
    /\ test = "move" /\ pc = "timer_unsubscribe_int" => ~graphics /\ "kbd" \notin policies

LEMMA CallInvInit == VideoInit => CallInv
BY DEF VideoInit, CallInv, Places

LEMMA TestKnown == CallInv => test \in {"init", "rectangle", "pattern", "xpm", "move"}
BY DEF CallInv, Arguments

LEMMA ArgsKept == VideoNext => args' = args
BY DEF VideoNext, ToLoop, vg_get_mode_info, vg_set_mode, DrawRectangle, DrawImage, DrawPattern,
   PatternDrawn, subscribe_int, vg_get_mode_info_panic, Fail, TimerTick, Key, PrefixKey, vg_exit,
   unsubscribe_int, Gone, videoVars

LEMMA CallInvNext == CallInv /\ [VideoNext]_videoVars => CallInv'
<1> SUFFICES ASSUME CallInv, [VideoNext]_videoVars PROVE CallInv'
  OBVIOUS
<1> USE TestKnown
<1>1. args' = args
  BY ArgsKept DEF videoVars
<1>2. test' = test /\ Arguments' /\ Places' = Places
  BY <1>1 DEF CallInv, Arguments, args, Places
<1> USE <1>2 DEF CallInv
<1>3. CASE UNCHANGED <<pc, rc, graphics, policies>>
  BY <1>3
<1>4. CASE vg_get_mode_info \/ DrawRectangle \/ DrawImage \/ PatternDrawn
  BY Zenon, <1>4, OrderInit, OrderShow, OrderMove
     DEF vg_get_mode_info, DrawRectangle, DrawImage, PatternDrawn, Places
<1>5. CASE vg_set_mode
  BY <1>5, OrderInit, OrderShow, OrderMove DEF vg_set_mode, Places
<1>6. CASE subscribe_int
  BY Zenon, <1>6, OrderInit, OrderShow, OrderMove DEF subscribe_int, Places
<1>7. CASE unsubscribe_int
  BY ZenonT(40), <1>7, OrderInit, OrderShow, OrderMove DEF unsubscribe_int, Places
<1>8. CASE vg_exit
  BY <1>8, OrderInit, OrderShow, OrderMove DEF vg_exit, Places
<1>9. CASE Fail \/ vg_get_mode_info_panic
  <2>1. pc' \in {"returned", "panic"} /\ rc' # 0 /\ UNCHANGED <<graphics, policies>>
    BY <1>9 DEF Fail, vg_get_mode_info_panic
  <2>2. pc' \in Places
    BY <2>1 DEF Places
  <2>3. QED
    BY <2>1, <2>2
<1>10. ASSUME NEW esc, NEW tick, Key(esc, tick) PROVE CallInv'
  BY <1>10, OrderInit, OrderShow, OrderMove DEF Key, Places
<1>11. QED
  BY <1>3, <1>4, <1>5, <1>6, <1>7, <1>8, <1>9, <1>10
     DEF VideoNext, ToLoop, DrawPattern, TimerTick, PrefixKey, Gone, videoVars

LEMMA CallInvAlways == VideoSpec => []CallInv
BY CallInvInit, CallInvNext, PTL DEF VideoSpec

\* A test of lab 5 that returns 0 has set text mode again and has given up its
\* interrupts, in whichever order.
THEOREM CleanReturnTheorem == VideoSpec => []CleanReturn
<1>1. CallInv => CleanReturn
  BY DEF CallInv, CleanReturn
<1>2. QED
  BY <1>1, CallInvAlways, PTL

-------------------------------------------------------------------------------
(***************************************************************************)
(* The moving image.                                                       *)
(***************************************************************************)

LEMMA JourneyFields ==
  ASSUME CallInv, test = "move"
  PROVE  /\ x0 \in Nat /\ y0 \in Nat /\ xf \in Nat /\ yf \in Nat
         /\ x0 <= 65535 /\ y0 <= 65535
         /\ StepLength \in Nat
<1>1. arg \in Journeys /\ speed \in Speeds
  BY DEF CallInv, Arguments
<1>2. speed \in Int
  BY <1>1, VideoAssumption
<1>3. arg \in Nat \X Nat \X Nat \X Nat
  BY <1>1, VideoAssumption
<1>4. arg[1] <= 65535 /\ arg[2] <= 65535
  BY <1>1, VideoAssumption
<1>5. QED
  BY <1>2, <1>3, <1>4 DEF x0, y0, xf, yf, StepLength

\* One of the two coordinates does not change.
Axis == x0 = xf \/ y0 = yf

\* A step stays on the way or leads to the target or past it.
LEMMA OneStep ==
  ASSUME CallInv, test = "move", Axis, ~MayWrap, NEW a, NEW b,
         Between(x0, a, xf), Between(y0, b, yf), a \in Nat, b \in Nat
  PROVE  LET x == uint16(a + mov_x)
             y == uint16(b + mov_y)
         IN  Last(x, y) \/ (x \in Nat /\ y \in Nat /\ Between(x0, x, xf) /\ Between(y0, y, yf))
<1> USE JourneyFields
<1> DEFINE L == StepLength
<1>1. /\ xf + mov_x >= 0 /\ xf + mov_x <= 65535
      /\ yf + mov_y >= 0 /\ yf + mov_y <= 65535
  <2>1. mov_x \in Int /\ mov_y \in Int
    BY DEF mov_x, mov_y
  <2>2. QED
    BY <2>1 DEF MayWrap
<1>2. \A m \in Nat : m <= 65535 => uint16(m) = m
  BY DEF uint16
<1>3. CASE x0 # xf
  <2>1. b = y0 /\ mov_y = 0 /\ y0 = yf /\ b <= 65535
    BY <1>1, <1>3 DEF Between, Axis, mov_y
  <2>2. uint16(b + mov_y) = b
    BY <1>2, <2>1
  <2>3. a + mov_x \in Nat /\ a + mov_x <= 65535
    BY <1>1, <1>3 DEF Between, mov_x
  <2>4. uint16(a + mov_x) = a + mov_x
    BY <1>2, <2>3
  <2>5. QED
    BY <1>3, <2>1, <2>2, <2>3, <2>4 DEF Between, Last, negative_mov, mov_x
<1>4. CASE x0 = xf
  <2>1. a = x0 /\ mov_x = 0 /\ a <= 65535
    BY <1>1, <1>4 DEF Between, Axis, mov_x
  <2>2. uint16(a + mov_x) = a
    BY <1>2, <2>1
  <2>3. b + mov_y \in Nat /\ b + mov_y <= 65535
    BY <1>1, <1>4 DEF Between, mov_y
  <2>4. uint16(b + mov_y) = b + mov_y
    BY <1>2, <2>3
  <2>5. QED
    BY <1>4, <2>1, <2>2, <2>3, <2>4 DEF Between, Last, negative_mov, mov_y
<1>5. QED
  BY <1>3, <1>4

\* Where vg_drawline reaches the ends of its lines it deletes the whole image.
LEMMA Deleted ==
  ASSUME NEW x \in Nat, NEW y \in Nat, Whole(x, img_width)
  PROVE  draw_xpm(x, y) \subseteq vg_drawrectangle(x, y, img_width, img_height)
<1>1. img_width \in Nat /\ img_height \in Nat /\ Xres \in Nat
  BY VideoAssumption
<1>2. SUFFICES ASSUME NEW j \in x .. x + img_width - 1, NEW i \in y .. y + img_height - 1
               PROVE  vg_drawpixel(j, i) \in vg_drawrectangle(x, y, img_width, img_height)
  BY DEF draw_xpm
<1>3. j - x \in 0 .. img_width - 1 /\ (j - x) + (x + (j - x)) < Xres
  BY <1>1 DEF Whole
<1>4. i - y \in 0 .. img_height - 1
  BY <1>1
<1>5. vg_drawpixel(x + (j - x), y + (i - y)) \in vg_drawline(x, y + (i - y), img_width)
  BY <1>3 DEF vg_drawline
<1>6. vg_drawpixel(x + (j - x), y + (i - y)) = vg_drawpixel(j, i)
  BY <1>1 DEF vg_drawpixel
<1>7. QED
  BY <1>4, <1>5, <1>6 DEF vg_drawrectangle

\* draw_next_xpm leaves the new image alone.
LEMMA Redrawn ==
  ASSUME NEW x \in Nat, NEW y \in Nat, NEW to, Whole(x, img_width), DOMAIN screen = draw_xpm(x, y)
  PROVE  DOMAIN draw_next_xpm(x, y, to) = draw_xpm(to[1], to[2])
<1> DEFINE old == vg_drawrectangle(x, y, img_width, img_height)
           new == draw_xpm(to[1], to[2])
<1>1. DOMAIN screen \ old = {}
  BY Deleted
<1> HIDE DEF old, new
<1>2. DOMAIN Black(screen, old) = DOMAIN screen \ old
  BY DEF Black
<1>3. DOMAIN Paint(Black(screen, old), new, "image") = new \cup DOMAIN Black(screen, old)
  BY DEF Paint
<1>4. QED
  BY <1>1, <1>2, <1>3 DEF draw_next_xpm, old, new

\* Nothing has been drawn.
Fresh == screen = <<>> /\ moving /\ xi = x0 /\ yi = y0

\* The last image on the screen, and the only one.
ImageDrawn ==
    /\ Axis
    /\ IF moving THEN xi \in Nat /\ yi \in Nat /\ shown = <<xi, yi>> ELSE shown = <<xf, yf>>
    /\ OnTheWay
    /\ Whole(x0, img_width) /\ Whole(xf, img_width) => DOMAIN screen = draw_xpm(shown[1], shown[2])

Early == {"vg_get_mode_info", "vg_set_mode", "draw"}

\* The image that is drawn first is on the way, and every step keeps it there;
\* a test that fails early has drawn nothing.
MoveInv ==
    test = "move" /\ ~MayWrap =>
        /\ pc \in {"vg_set_mode", "draw"} => Axis
        /\ pc \in Early => Fresh
        /\ pc \notin Early \cup {"returned", "panic"} => ImageDrawn
        /\ Fresh \/ ImageDrawn

LEMMA MoveInvInit == VideoInit => MoveInv
BY DEF VideoInit, MoveInv, Fresh, Early

\* The image between two places from which whole lines can be drawn is at such
\* a place.
LEMMA WholeBetween ==
  ASSUME CallInv, test = "move", NEW x \in Nat, Between(x0, x, xf),
         Whole(x0, img_width), Whole(xf, img_width)
  PROVE  Whole(x, img_width)
<1>1. img_width \in Nat /\ Xres \in Nat
  BY VideoAssumption
<1>2. QED
  BY <1>1, JourneyFields DEF Between, Whole

\* The end of a turn of the loop.
LEMMA MoveStep ==
  ASSUME CallInv, test = "move", ~MayWrap, ImageDrawn, NEW ticks, Move(ticks), args' = args
  PROVE  ImageDrawn'
<1>1. /\ x0' = x0 /\ y0' = y0 /\ xf' = xf /\ yf' = yf /\ Axis' = Axis
  BY DEF args, x0, y0, xf, yf, Axis
<1> DEFINE x == uint16(xi + mov_x)
           y == uint16(yi + mov_y)
           to == Drawn(x, y)
<1>2. CASE UNCHANGED <<xi, yi, shown, screen, moving>>
  BY <1>1, <1>2 DEF ImageDrawn, OnTheWay, Whole, draw_xpm, vg_drawpixel
<1>3. CASE ~UNCHANGED <<xi, yi, shown, screen, moving>>
  <2>1. /\ moving /\ xi' = x /\ yi' = y /\ shown' = to /\ moving' = ~Last(x, y)
        /\ screen' = draw_next_xpm(xi, yi, to)
    BY <1>3 DEF Move
  <2>2. /\ xi \in Nat /\ yi \in Nat /\ Axis /\ shown[1] = xi /\ shown[2] = yi
        /\ Between(x0, xi, xf) /\ Between(y0, yi, yf)
    BY <2>1 DEF ImageDrawn, OnTheWay
  <2>3. Last(x, y) \/ (x \in Nat /\ y \in Nat /\ Between(x0, x, xf) /\ Between(y0, y, yf))
    BY <2>2, OneStep
  <2> HIDE DEF x, y
  <2>4. to = IF moving' THEN <<x, y>> ELSE <<xf, yf>>
    BY Zenon, <2>1 DEF Drawn
  <2> HIDE DEF to
  <2>5. Between(x0, xf, xf) /\ Between(y0, yf, yf)
    BY JourneyFields DEF Between
  <2>6. OnTheWay'
    BY Zenon, <1>1, <2>1, <2>3, <2>4, <2>5 DEF OnTheWay
  <2>7. ASSUME Whole(x0, img_width), Whole(xf, img_width)
        PROVE  DOMAIN screen' = draw_xpm(to[1], to[2])
    <3>1. Whole(xi, img_width)
      BY <2>2, <2>7, WholeBetween
    <3>2. DOMAIN screen = draw_xpm(xi, yi)
      BY <2>2, <2>7 DEF ImageDrawn
    <3>3. QED
      BY <2>1, <2>2, <3>1, <3>2, Redrawn
  <2>8. (Whole(x0, img_width) /\ Whole(xf, img_width))'
        => DOMAIN screen' = draw_xpm(shown[1], shown[2])'
    BY <1>1, <2>1, <2>7 DEF Whole, draw_xpm, vg_drawpixel
  <2>9. QED
    BY Zenon, <1>1, <2>1, <2>2, <2>3, <2>4, <2>6, <2>8 DEF ImageDrawn
<1>4. QED
  BY <1>2, <1>3

\* The first image.
LEMMA FirstImage ==
  ASSUME CallInv, test = "move", Fresh, Axis, DrawImage
  PROVE  ImageDrawn'
<1>1. /\ args' = args /\ xi' = xi /\ yi' = yi /\ moving' = moving /\ shown' = <<x0, y0>>
      /\ screen' = Paint(screen, draw_xpm(x0, y0), "image")
  BY DEF DrawImage
<1>2. /\ x0' = x0 /\ y0' = y0 /\ xf' = xf /\ yf' = yf /\ Axis' = Axis
  BY <1>1 DEF args, x0, y0, xf, yf, Axis
<1>3. DOMAIN screen = {}
  BY DEF Fresh
<1>4. DOMAIN screen' = draw_xpm(x0, y0)
  BY <1>1, <1>3 DEF Paint
<1>5. DOMAIN screen' = draw_xpm(shown[1], shown[2])'
  BY <1>1, <1>4 DEF draw_xpm, vg_drawpixel
<1>6. OnTheWay'
  BY <1>1, <1>2, JourneyFields DEF OnTheWay, Between
<1>7. QED
  BY <1>1, <1>2, <1>5, <1>6, JourneyFields DEF ImageDrawn, Fresh

LEMMA MoveInvNext == CallInv /\ MoveInv /\ [VideoNext]_videoVars => MoveInv'
<1> SUFFICES ASSUME CallInv, MoveInv, [VideoNext]_videoVars, test' = "move", ~MayWrap'
             PROVE  MoveInv'
  BY DEF MoveInv
<1>1. args' = args
  BY ArgsKept DEF videoVars
<1>2. /\ test = "move" /\ ~MayWrap
      /\ x0' = x0 /\ y0' = y0 /\ xf' = xf /\ yf' = yf /\ Axis' = Axis
  <2>1. /\ x0' = x0 /\ y0' = y0 /\ xf' = xf /\ yf' = yf /\ speed' = speed /\ test' = test
    BY <1>1 DEF args, x0, y0, xf, yf
  <2>2. QED
    BY <2>1 DEF MayWrap, mov_x, mov_y, StepLength, Axis
<1>3. CASE UNCHANGED <<xi, yi, moving, shown, screen>> /\
           \/ pc' = pc
           \/ pc' \in {"returned", "panic"}
           \/ pc \notin Early \cup {"returned", "panic"} /\ pc' \notin Early
  <2>1. Fresh' = Fresh /\ ImageDrawn' = ImageDrawn
    BY <1>2, <1>3 DEF Fresh, ImageDrawn, OnTheWay, Whole, draw_xpm, vg_drawpixel
  <2>2. QED
    BY <1>2, <1>3, <2>1 DEF MoveInv, Early
<1>4. CASE vg_get_mode_info \/ vg_set_mode
  <2>1. /\ UNCHANGED <<xi, yi, moving, shown, screen>> /\ Axis /\ Fresh
        /\ pc' \in {"vg_set_mode", "draw"}
    BY <1>2, <1>4, OrderMove DEF vg_get_mode_info, vg_set_mode, moveState, MoveInv, Early, Axis
  <2>2. Fresh'
    BY <1>2, <2>1 DEF Fresh
  <2>3. QED
    BY <1>2, <2>1, <2>2 DEF MoveInv, Early
<1>5. CASE DrawImage
  <2>1. Fresh /\ Axis /\ pc' = "timer_subscribe_int"
    BY <1>2, <1>5, OrderMove DEF DrawImage, MoveInv, Early
  <2>2. ImageDrawn'
    BY <1>2, <1>5, <2>1, FirstImage
  <2>3. QED
    BY <2>1, <2>2 DEF MoveInv, Early
<1>6. ASSUME NEW ticks, pc = "loop", Move(ticks), pc' \notin Early PROVE MoveInv'
  <2>1. ImageDrawn
    BY <1>2, <1>6 DEF MoveInv, Early
  <2>2. ImageDrawn'
    BY <1>1, <1>2, <1>6, <2>1, MoveStep
  <2>3. QED
    BY <1>6, <2>2 DEF MoveInv, Early
<1>7. CASE TimerTick
  BY <1>6, <1>7 DEF TimerTick, Early
<1>8. ASSUME NEW esc, NEW tick, Key(esc, tick) PROVE MoveInv'
  BY <1>2, <1>6, <1>8, OrderMove DEF Key, Early
<1>9. CASE Fail \/ vg_get_mode_info_panic
  BY <1>3, <1>9 DEF Fail, vg_get_mode_info_panic, moveState
<1>10. CASE subscribe_int \/ unsubscribe_int
  BY <1>2, <1>3, <1>10, OrderMove DEF subscribe_int, unsubscribe_int, moveState, Early
<1>11. CASE vg_exit
  BY <1>2, <1>3, <1>11, OrderMove DEF vg_exit, moveState, Early
<1>12. CASE PrefixKey \/ Gone \/ UNCHANGED videoVars
  BY <1>3, <1>12 DEF PrefixKey, Gone, videoVars, moveState
<1>13. QED
  BY <1>2, <1>4, <1>5, <1>7, <1>8, <1>9, <1>10, <1>11, <1>12
     DEF VideoNext, ToLoop, DrawRectangle, DrawPattern, PatternDrawn

LEMMA MoveInvAlways == VideoSpec => []MoveInv
BY CallInvInit, CallInvNext, MoveInvInit, MoveInvNext, PTL DEF VideoSpec

\* The image of video_test_move stays between the start and the target and stops
\* at the target, at every speed, on every screen and for every journey along
\* an axis on which no step can wrap.
THEOREM StaysOnTheWayTheorem == VideoSpec => []StaysOnTheWay
<1>1. MoveInv => StaysOnTheWay
  BY DEF MoveInv, Fresh, ImageDrawn, StaysOnTheWay, Travelling
<1>2. QED
  BY <1>1, MoveInvAlways, PTL

\* draw_next_xpm leaves exactly one image on the screen, of any size, if
\* vg_drawline can draw its lines to the end at both ends of the way.
THEOREM OneImageTheorem == VideoSpec => []OneImage
<1>1. MoveInv => OneImage
  BY DEF MoveInv, Fresh, ImageDrawn, OneImage, Travelling
<1>2. QED
  BY <1>1, MoveInvAlways, PTL

-------------------------------------------------------------------------------
(***************************************************************************)
(* The image arrives: how many interrupts it still takes.                  *)
(***************************************************************************)

OnItsWay ==
    /\ pc = "loop" /\ test = "move" /\ moving
    /\ StepLength # 0 /\ ~MayWrap

Distance(a, b) == IF a < b THEN b - a ELSE a - b

\* What is left of the way from <<x, y>> to the target.
Ahead(x, y) == Distance(x, xf) + Distance(y, yf)

\* A step of one pixel every ipf interrupts would need so many.
TicksLeft == (ipf + 1) * Ahead(xi, yi) + (ipf - timer_counter)

\* Every timer interrupt brings the image nearer to its target or to its next
\* step, and no message takes it back.
ComesNearer ==
    [][ OnItsWay /\ OnItsWay' =>
          /\ TicksLeft' <= TicksLeft
          /\ TimerTick => TicksLeft' < TicksLeft ]_videoVars

LEMMA IpfType ==
  ASSUME CallInv, test = "move"
  PROVE  ipf \in Nat
<1>0. speed \in Speeds /\ fr_rate \in FrameRates
  BY DEF CallInv, Arguments
<1>1. speed \in Int /\ fr_rate \in Nat \ {0}
  BY <1>0, VideoAssumption
<1> DEFINE q == sys_hz \div fr_rate
           f == IF speed < 0 THEN -speed ELSE 1
<1>2. q \in Nat
  BY <1>1 DEF sys_hz
<1>3. f \in Nat
  BY <1>1
<1> HIDE DEF q, f
<1>4. q * f \in Nat
  BY <1>2, <1>3
<1>5. QED
  BY <1>4 DEF ipf, q, f

\* A step that is not the last one leads nearer to the target.
LEMMA StepNearer ==
  ASSUME CallInv, test = "move", Axis, ~MayWrap, StepLength # 0, NEW a, NEW b,
         Between(x0, a, xf), Between(y0, b, yf), a \in Nat, b \in Nat,
         ~Last(uint16(a + mov_x), uint16(b + mov_y))
  PROVE  Ahead(uint16(a + mov_x), uint16(b + mov_y)) < Ahead(a, b)
<1> USE JourneyFields
<1>1. /\ xf + mov_x >= 0 /\ xf + mov_x <= 65535
      /\ yf + mov_y >= 0 /\ yf + mov_y <= 65535
  <2>1. mov_x \in Int /\ mov_y \in Int
    BY DEF mov_x, mov_y
  <2>2. QED
    BY <2>1 DEF MayWrap
<1>2. \A m \in Nat : m <= 65535 => uint16(m) = m
  BY DEF uint16
<1>3. CASE x0 # xf
  <2>1. b = y0 /\ mov_y = 0 /\ y0 = yf /\ b <= 65535
    BY <1>1, <1>3 DEF Between, Axis, mov_y
  <2>2. uint16(b + mov_y) = b
    BY <1>2, <2>1
  <2>3. a + mov_x \in Nat /\ a + mov_x <= 65535
    BY <1>1, <1>3 DEF Between, mov_x
  <2>4. uint16(a + mov_x) = a + mov_x
    BY <1>2, <2>3
  <2>5. Distance(a + mov_x, xf) < Distance(a, xf)
    BY <1>3, <2>1, <2>2, <2>4 DEF Between, Last, negative_mov, mov_x, Distance
  <2>6. QED
    BY <2>1, <2>2, <2>3, <2>4, <2>5 DEF Ahead, Distance
<1>4. CASE x0 = xf
  <2>1. a = x0 /\ mov_x = 0 /\ a <= 65535
    BY <1>1, <1>4 DEF Between, Axis, mov_x
  <2>2. uint16(a + mov_x) = a
    BY <1>2, <2>1
  <2>3. b + mov_y \in Nat /\ b + mov_y <= 65535
    BY <1>1, <1>4 DEF Between, mov_y
  <2>4. uint16(b + mov_y) = b + mov_y
    BY <1>2, <2>3
  <2>5. Distance(b + mov_y, yf) < Distance(b, yf)
    BY <1>4, <2>1, <2>2, <2>4 DEF Between, Last, negative_mov, mov_y, Distance
  <2>6. QED
    BY <2>1, <2>2, <2>3, <2>4, <2>5 DEF Ahead, Distance
<1>5. QED
  BY <1>3, <1>4

\* timer_counter is set to 0 when it has reached ipf.
TicksInv == test = "move" /\ moving => timer_counter \in Nat /\ timer_counter <= ipf

LEMMA TicksInvInit == VideoInit => TicksInv
<1> SUFFICES ASSUME VideoInit, test = "move" PROVE TicksInv
  BY DEF TicksInv
<1>1. ipf \in Nat
  BY CallInvInit, IpfType
<1>2. QED
  BY <1>1 DEF VideoInit, TicksInv

LEMMA ArgsFixed ==
  ASSUME [VideoNext]_videoVars
  PROVE  /\ test' = test /\ ipf' = ipf /\ StepLength' = StepLength /\ MayWrap' = MayWrap
         /\ xf' = xf /\ yf' = yf
<1>1. args' = args
  BY ArgsKept DEF videoVars
<1>2. /\ x0' = x0 /\ y0' = y0 /\ xf' = xf /\ yf' = yf /\ speed' = speed /\ fr_rate' = fr_rate
      /\ test' = test
  BY <1>1 DEF args, x0, y0, xf, yf
<1>3. QED
  BY <1>2 DEF MayWrap, mov_x, mov_y, StepLength, ipf

\* Where the counter and the place of the image may change.
LEMMA LoopSteps ==
  ASSUME [VideoNext]_videoVars
  PROVE  \/ UNCHANGED <<xi, yi, moving, timer_counter>> /\ ~TimerTick
         \/ TimerTick
         \/ \E esc \in BOOLEAN, tick \in 0 .. 1 : Key(esc, tick)
<1>1. ~TimerTick /\ ~(\E esc \in BOOLEAN, tick \in 0 .. 1 : Key(esc, tick))
      => UNCHANGED <<xi, yi, moving, timer_counter>>
  BY DEF VideoNext, ToLoop, vg_get_mode_info, vg_set_mode, DrawRectangle, DrawImage, DrawPattern,
     PatternDrawn, subscribe_int, vg_get_mode_info_panic, Fail, PrefixKey, vg_exit,
     unsubscribe_int, Gone, videoVars, moveState
<1>2. QED
  BY <1>1

LEMMA TicksInvNext == CallInv /\ TicksInv /\ [VideoNext]_videoVars => TicksInv'
<1> SUFFICES ASSUME CallInv, TicksInv, [VideoNext]_videoVars, test = "move", moving'
             PROVE  timer_counter' \in Nat /\ timer_counter' <= ipf
  BY ArgsFixed DEF TicksInv
<1>1. ipf \in Nat
  BY IpfType
<1>2. ASSUME NEW ticks \in Nat, Move(ticks)
      PROVE  timer_counter' \in Nat /\ timer_counter' <= ipf
  <2>1. timer_counter' = 0 \/ (timer_counter' = ticks /\ ~(ticks >= ipf))
    BY Zenon, <1>2 DEF Move
  <2>2. QED
    BY <1>1, <2>1
<1>3. moving => timer_counter \in Nat /\ timer_counter <= ipf
  BY DEF TicksInv
<1>4. ASSUME NEW ticks, Move(ticks) PROVE moving
  BY Zenon, <1>4 DEF Move
<1>5. CASE TimerTick
  <2>1. moving /\ timer_counter + 1 \in Nat
    BY <1>3, <1>4, <1>5 DEF TimerTick
  <2>2. QED
    BY <1>2, <1>5, <2>1 DEF TimerTick
<1>6. ASSUME NEW esc, NEW tick \in 0 .. 1, Key(esc, tick)
      PROVE  timer_counter' \in Nat /\ timer_counter' <= ipf
  <2>1. moving /\ timer_counter + tick \in Nat
    BY <1>3, <1>4, <1>6 DEF Key
  <2>2. QED
    BY <1>2, <1>6, <2>1 DEF Key
<1>7. QED
  BY Zenon, <1>3, <1>5, <1>6, LoopSteps

\* The arithmetic of a step.
LEMMA TicksArithmetic ==
  ASSUME NEW k \in Nat, NEW d \in Nat, NEW e \in Nat, e < d, NEW t \in Nat, t <= k
  PROVE  (k + 1) * e + (k - 0) < (k + 1) * d + (k - t)
<1>1. (k + 1) * d = (k + 1) * e + (k + 1) * (d - e)
  OBVIOUS
<1>2. (k + 1) * (d - e) >= k + 1
  <2>1. \A m \in Nat : (k + 1) * (m + 1) = (k + 1) * m + (k + 1) /\ (k + 1) * m >= 0
    OBVIOUS
  <2>2. d - e = (d - e - 1) + 1 /\ d - e - 1 \in Nat
    OBVIOUS
  <2>3. QED
    BY <2>1, <2>2
<1>3. (k + 1) * e \in Nat /\ (k + 1) * (d - e) \in Nat
  OBVIOUS
<1>4. QED
  BY <1>1, <1>2, <1>3

\* What is left to do, after the interrupts of a message were counted.
LEMMA TicksStep ==
  ASSUME CallInv, MoveInv, TicksInv, [VideoNext]_videoVars, OnItsWay, moving',
         NEW tick \in 0 .. 1, Move(timer_counter + tick)
  PROVE  TicksLeft' <= TicksLeft /\ (tick = 1 => TicksLeft' < TicksLeft)
<1> DEFINE x == uint16(xi + mov_x)
           y == uint16(yi + mov_y)
<1>1. /\ ipf \in Nat /\ timer_counter \in Nat /\ timer_counter <= ipf
      /\ xf \in Nat /\ yf \in Nat
  BY IpfType, JourneyFields DEF OnItsWay, TicksInv
<1>2. /\ xi \in Nat /\ yi \in Nat /\ Axis
      /\ Between(x0, xi, xf) /\ Between(y0, yi, yf)
  BY DEF OnItsWay, MoveInv, Early, ImageDrawn, OnTheWay
<1>3. Ahead(xi, yi) \in Nat
  BY <1>1, <1>2 DEF Ahead, Distance
<1>4. TicksLeft' = (ipf + 1) * Ahead(xi', yi') + (ipf - timer_counter')
  BY ArgsFixed DEF TicksLeft, Ahead, Distance
<1>5. CASE timer_counter + tick >= ipf
  <2>1. xi' = x /\ yi' = y /\ timer_counter' = 0 /\ ~Last(x, y)
    BY Zenon, <1>5 DEF Move, OnItsWay
  <2>2. Ahead(x, y) < Ahead(xi, yi)
    BY <1>2, <2>1, StepNearer DEF OnItsWay
  <2>3. Ahead(x, y) \in Nat
    <3>1. x \in Nat /\ y \in Nat
      BY <1>2, <2>1, OneStep DEF OnItsWay
    <3> HIDE DEF x, y
    <3>2. QED
      BY <1>1, <3>1 DEF Ahead, Distance
  <2> HIDE DEF x, y
  <2> DEFINE d == Ahead(xi, yi)
             e == Ahead(x, y)
  <2>4. TicksLeft' = (ipf + 1) * e + (ipf - 0) /\ TicksLeft = (ipf + 1) * d + (ipf - timer_counter)
    BY <1>4, <2>1 DEF TicksLeft
  <2> HIDE DEF d, e
  <2>5. d \in Nat /\ e \in Nat /\ e < d
    BY <1>3, <2>2, <2>3 DEF d, e
  <2>6. (ipf + 1) * e + (ipf - 0) < (ipf + 1) * d + (ipf - timer_counter)
    BY <1>1, <2>5, TicksArithmetic
  <2>7. (ipf + 1) * e \in Int /\ (ipf + 1) * d \in Int
    BY <1>1, <2>5
  <2>8. QED
    BY <1>1, <2>4, <2>6, <2>7
<1>6. CASE ~(timer_counter + tick >= ipf)
  <2>1. xi' = xi /\ yi' = yi /\ timer_counter' = timer_counter + tick
    BY <1>6 DEF Move
  <2> DEFINE D == (ipf + 1) * Ahead(xi, yi)
  <2>2. D \in Int
    BY <1>1, <1>3
  <2>3. TicksLeft' = D + (ipf - (timer_counter + tick)) /\ TicksLeft = D + (ipf - timer_counter)
    BY <1>4, <2>1 DEF TicksLeft
  <2> HIDE DEF D
  <2>4. QED
    BY <1>1, <2>2, <2>3
<1>7. QED
  BY <1>5, <1>6

\* The image of video_test_move comes nearer to its target with every timer
\* interrupt that passes, at every speed but 0 and every frame rate, also when
\* keys are pressed all the time: it needs no more than TicksLeft of them.
THEOREM ComesNearerTheorem == VideoSpec => [](OnItsWay => TicksLeft \in Nat) /\ ComesNearer
<1>1. ASSUME CallInv, MoveInv, TicksInv, OnItsWay PROVE TicksLeft \in Nat
  <2>1. /\ ipf \in Nat /\ timer_counter \in Nat /\ timer_counter <= ipf
        /\ xf \in Nat /\ yf \in Nat /\ xi \in Nat /\ yi \in Nat
    BY <1>1, IpfType, JourneyFields DEF OnItsWay, TicksInv, MoveInv, Early, ImageDrawn
  <2>2. Ahead(xi, yi) \in Nat
    BY <2>1 DEF Ahead, Distance
  <2>3. (ipf + 1) * Ahead(xi, yi) \in Nat
    BY <2>1, <2>2
  <2>4. QED
    BY <2>1, <2>3 DEF TicksLeft
<1>2. ASSUME CallInv, MoveInv, TicksInv, [VideoNext]_videoVars, OnItsWay, OnItsWay'
      PROVE  TicksLeft' <= TicksLeft /\ (TimerTick => TicksLeft' < TicksLeft)
  <2>1. CASE TimerTick
    <3>1. Move(timer_counter + 1) /\ moving'
      BY <1>2, <2>1 DEF TimerTick, OnItsWay
    <3>2. QED
      BY <1>2, <3>1, TicksStep
  <2>2. ASSUME NEW esc, NEW tick \in 0 .. 1, Key(esc, tick), ~TimerTick PROVE TicksLeft' <= TicksLeft
    <3>1. Move(timer_counter + tick) /\ moving'
      BY <1>2, <2>2 DEF Key, OnItsWay
    <3>2. QED
      BY <1>2, <3>1, TicksStep
  <2>3. CASE UNCHANGED <<xi, yi, moving, timer_counter>> /\ ~TimerTick
    <3>1. TicksLeft' = TicksLeft
      BY <1>2, <2>3, ArgsFixed DEF TicksLeft, Ahead, Distance
    <3>2. TicksLeft \in Nat
      BY <1>1, <1>2
    <3>3. QED
      BY <2>3, <3>1, <3>2
  <2>4. QED
    BY <1>2, <2>1, <2>2, <2>3, LoopSteps
<1>3. QED
  BY <1>1, <1>2, CallInvAlways, MoveInvAlways, TicksInvInit, TicksInvNext, PTL
     DEF VideoSpec, ComesNearer

-------------------------------------------------------------------------------
(***************************************************************************)
(* Rectangles and patterns.                                                *)
(***************************************************************************)

LEMMA DivMod ==
  ASSUME NEW w \in Nat, NEW q \in Nat, NEW r \in Nat, r < w
  PROVE  (q * w + r) \div w = q /\ (q * w + r) % w = r
<1> DEFINE a == q * w + r
           p == a \div w
           s == a % w
<1>1. a \in Nat /\ w > 0
  OBVIOUS
<1> HIDE DEF a
<1>2. p \in Int /\ s \in 0 .. w - 1 /\ a = p * w + s
  BY <1>1
<1> HIDE DEF p, s
<1>3. (p - q) * w = r - s /\ (q - p) * w = s - r
  BY <1>2 DEF a
<1>4. (p - q >= 1 => (p - q) * w >= w) /\ (q - p >= 1 => (q - p) * w >= w)
  BY <1>1, <1>2
<1>5. p = q
  BY <1>2, <1>3, <1>4
<1>6. s = r
  BY <1>2, <1>3, <1>5
<1>7. QED
  BY <1>5, <1>6 DEF a, p, s

\* The place on the screen of an address that a rectangle writes.  The condition
\* of vg_drawline keeps it in its line.
LEMMA Inside ==
  ASSUME NEW x \in Nat, NEW y \in Nat, NEW w \in Nat, NEW h \in Nat,
         NEW a \in vg_drawrectangle(x, y, w, h)
  PROVE  a % Xres \in x .. x + w - 1 /\ a \div Xres \in y .. y + h - 1
<1>1. PICK i \in 0 .. h - 1 : a \in vg_drawline(x, y + i, w)
  BY DEF vg_drawrectangle
<1>2. PICK k \in 0 .. w - 1 : k + (x + k) < Xres /\ a = vg_drawpixel(x + k, y + i)
  BY <1>1 DEF vg_drawline
<1>3. /\ x + k \in Nat /\ y + i \in Nat /\ Xres \in Nat /\ x + k < Xres
  BY <1>2, VideoAssumption
<1>4. a = (y + i) * Xres + (x + k)
  BY <1>2 DEF vg_drawpixel
<1>5. a \div Xres = y + i /\ a % Xres = x + k
  BY ZenonT(40), <1>3, <1>4, DivMod
<1>6. QED
  BY <1>3, <1>5

\* Only the steps that draw change the screen of a test without a movement.
LEMMA ScreenKept ==
  ASSUME CallInv, [VideoNext]_videoVars, test # "move"
  PROVE  DrawRectangle \/ DrawImage \/ DrawPattern \/ UNCHANGED <<screen, done>>
BY SMTT(30) DEF VideoNext, ToLoop, vg_get_mode_info, vg_set_mode, PatternDrawn, subscribe_int,
   vg_get_mode_info_panic, Fail, TimerTick, Key, Move, PrefixKey, vg_exit, unsubscribe_int,
   Gone, videoVars

RectangleInv ==
    test = "rectangle" => DOMAIN screen \subseteq vg_drawrectangle(arg[1], arg[2], arg[3], arg[4])

LEMMA RectangleInvNext == CallInv /\ RectangleInv /\ [VideoNext]_videoVars => RectangleInv'
<1> SUFFICES ASSUME CallInv, RectangleInv, [VideoNext]_videoVars, test' = "rectangle"
             PROVE  RectangleInv'
  BY DEF RectangleInv
<1> DEFINE area == vg_drawrectangle(arg[1], arg[2], arg[3], arg[4])
<1>1. test = "rectangle" /\ arg' = arg
  BY ArgsKept DEF videoVars, args
<1>2. area' = area
  BY <1>1 DEF vg_drawrectangle, vg_drawline, vg_drawpixel
<1> HIDE DEF area
<1>3. CASE DrawRectangle
  <2>1. screen' = Paint(screen, area, "rectangle")
    BY <1>3 DEF DrawRectangle, area
  <2>2. DOMAIN screen' = area \cup DOMAIN screen
    BY <2>1 DEF Paint
  <2>3. DOMAIN screen' \subseteq area'
    BY <1>1, <1>2, <2>2 DEF RectangleInv, area
  <2>4. QED
    BY <2>3 DEF RectangleInv, area
<1>4. CASE UNCHANGED screen
  BY <1>1, <1>2, <1>4 DEF RectangleInv, area
<1>5. QED
  BY Zenon, <1>1, <1>3, <1>4, ScreenKept DEF DrawImage, DrawPattern

\* vg_drawrectangle paints no pixel outside the rectangle, however large it is
\* and however near to the right border it begins.
THEOREM NoSpillTheorem == VideoSpec => []NoSpill
<1>1. VideoInit => RectangleInv
  BY DEF VideoInit, RectangleInv
<1>2. ASSUME CallInv, RectangleInv PROVE NoSpill
  <2> SUFFICES ASSUME test = "rectangle", NEW a \in DOMAIN screen
               PROVE  /\ a % Xres \in arg[1] .. arg[1] + arg[3] - 1
                      /\ a \div Xres \in arg[2] .. arg[2] + arg[4] - 1
    BY DEF NoSpill
  <2>1. arg[1] \in Nat /\ arg[2] \in Nat /\ arg[3] \in Nat /\ arg[4] \in Nat
    <3>1. arg \in Rectangles
      BY <1>2 DEF CallInv, Arguments
    <3>2. arg \in Nat \X Nat \X Nat \X Nat
      BY <3>1, VideoAssumption
    <3>3. QED
      BY <3>2
  <2>2. a \in vg_drawrectangle(arg[1], arg[2], arg[3], arg[4])
    BY <1>2 DEF RectangleInv
  <2>3. QED
    BY Zenon, <2>1, <2>2, Inside
<1>3. QED
  BY <1>1, <1>2, CallInvInit, CallInvNext, RectangleInvNext, PTL DEF VideoSpec

\* All pixels of a cell of the grid tell its row and its column.
LEMMA CellOf ==
  ASSUME NEW row \in Nat, NEW col \in Nat, NEW w \in Nat, NEW h \in Nat,
         NEW a \in vg_drawrectangle(col * w, row * h, w, h)
  PROVE  (a \div Xres) \div h = row /\ (a % Xres) \div w = col
<1> DEFINE i == (a \div Xres) - row * h
           k == (a % Xres) - col * w
<1>1. col * w \in Nat /\ row * h \in Nat
  OBVIOUS
<1>2. a % Xres \in col * w .. col * w + w - 1 /\ a \div Xres \in row * h .. row * h + h - 1
  BY <1>1, Inside
<1>3. /\ i \in Nat /\ i < h /\ a \div Xres = row * h + i
      /\ k \in Nat /\ k < w /\ a % Xres = col * w + k
  BY <1>1, <1>2
<1> HIDE DEF i, k
<1>4. (row * h + i) \div h = row /\ (col * w + k) \div w = col
  BY Zenon, <1>3, DivMod
<1>5. QED
  BY <1>3, <1>4

\* A pixel is in the cell of its row and column.
LEMMA InCell ==
  ASSUME NEW n \in Nat, NEW w \in Nat, NEW x \in Nat, x < n * w
  PROVE  /\ x \div w \in Nat /\ x \div w < n
         /\ x - (x \div w) * w \in 0 .. w - 1
<1> DEFINE c == x \div w
           k == x % w
<1>1. w > 0
  OBVIOUS
<1>2. c \in Nat /\ k \in 0 .. w - 1 /\ x = c * w + k
  BY <1>1
<1> HIDE DEF c, k
<1>3. c >= n => c * w >= n * w
  BY <1>2
<1>4. c < n
  BY <1>2, <1>3
<1>5. QED
  BY <1>2, <1>4 DEF c

\* A cell whose lines are drawn to their end has no hole.
LEMMA NoHole ==
  ASSUME NEW x \in Nat, NEW y \in Nat, NEW x1 \in Nat, NEW y1 \in Nat, NEW w \in Nat, NEW h \in Nat,
         x - x1 \in 0 .. w - 1, y - y1 \in 0 .. h - 1, Whole(x1, w)
  PROVE  y * Xres + x \in vg_drawrectangle(x1, y1, w, h)
<1>1. Xres \in Nat
  BY VideoAssumption
<1>2. (x - x1) + (x1 + (x - x1)) < Xres
  BY <1>1 DEF Whole
<1>3. vg_drawpixel(x1 + (x - x1), y1 + (y - y1)) \in vg_drawline(x1, y1 + (y - y1), w)
  BY <1>2 DEF vg_drawline
<1>4. vg_drawpixel(x1 + (x - x1), y1 + (y - y1)) = y * Xres + x
  BY <1>1 DEF vg_drawpixel
<1>5. QED
  BY <1>3, <1>4 DEF vg_drawrectangle

\* The rectangle that vg_drawpattern draws in its m-th step.
Cell(m) ==
    vg_drawrectangle((m % no_rectangles) * RectangleWidth, (m \div no_rectangles) * RectangleHeight,
                     RectangleWidth, RectangleHeight)

PatternInv ==
    test = "pattern" =>
        /\ done \in Nat
        /\ pc \in {"kbd_subscribe_int", "loop"} => done = no_rectangles * no_rectangles
        /\ \A a \in DOMAIN screen :
             screen[a] = <<(a \div Xres) \div RectangleHeight, (a % Xres) \div RectangleWidth>>
        /\ \A m \in Nat : m < done => Cell(m) \subseteq DOMAIN screen

LEMMA GridFields ==
  ASSUME CallInv, test = "pattern"
  PROVE  /\ no_rectangles \in Nat /\ no_rectangles > 0
         /\ RectangleWidth \in Nat /\ RectangleHeight \in Nat
<1>1. PICK n \in Grids : arg = <<n, n, n, n>>
  BY DEF CallInv, Arguments
<1>2. no_rectangles \in Nat /\ no_rectangles > 0
  BY <1>1, VideoAssumption DEF no_rectangles
<1>3. Xres \in Nat /\ Yres \in Nat
  BY VideoAssumption
<1>4. QED
  BY <1>2, <1>3 DEF RectangleWidth, RectangleHeight

\* One rectangle of the pattern.
LEMMA DrawPatternKeeps ==
  ASSUME CallInv, PatternInv, DrawPattern
  PROVE  PatternInv'
<1> DEFINE row == done \div no_rectangles
           col == done % no_rectangles
<1>1. /\ test = "pattern" /\ arg' = arg /\ pc' = "draw" /\ done' = done + 1
      /\ screen' = Paint(screen, Cell(done), <<row, col>>)
  BY DEF DrawPattern, args, Cell
<1>2. row \in Nat /\ col \in Nat /\ done \in Nat
  BY <1>1, GridFields DEF PatternInv
<1> HIDE DEF row, col
<1>3. /\ no_rectangles' = no_rectangles /\ RectangleWidth' = RectangleWidth
      /\ RectangleHeight' = RectangleHeight
  BY <1>1 DEF no_rectangles, RectangleWidth, RectangleHeight
<1>4. \A m : Cell(m)' = Cell(m)
  BY <1>3 DEF Cell, vg_drawrectangle, vg_drawline, vg_drawpixel
<1>5. \A a \in Cell(done) : <<row, col>> = <<(a \div Xres) \div RectangleHeight,
                                              (a % Xres) \div RectangleWidth>>
  <2>1. Cell(done) = vg_drawrectangle(col * RectangleWidth, row * RectangleHeight,
                                      RectangleWidth, RectangleHeight)
    BY DEF Cell, row, col
  <2>2. QED
    BY <1>1, <1>2, <2>1, GridFields, CellOf
<1>6. /\ DOMAIN screen' = Cell(done) \cup DOMAIN screen
      /\ \A a \in DOMAIN screen' : screen'[a] = IF a \in Cell(done) THEN <<row, col>> ELSE screen[a]
  BY <1>1 DEF Paint
<1>7. \A a \in DOMAIN screen' :
         screen'[a] = <<(a \div Xres) \div RectangleHeight, (a % Xres) \div RectangleWidth>>
  BY <1>1, <1>5, <1>6 DEF PatternInv
<1>8. ASSUME NEW m \in Nat, m < done' PROVE Cell(m) \subseteq DOMAIN screen'
  <2>1. m < done \/ m = done
    BY <1>1, <1>2, <1>8
  <2>2. QED
    BY <1>1, <1>6, <2>1 DEF PatternInv
<1>9. QED
  BY <1>1, <1>2, <1>3, <1>4, <1>7, <1>8 DEF PatternInv

LEMMA PatternInvNext == CallInv /\ PatternInv /\ [VideoNext]_videoVars => PatternInv'
<1> SUFFICES ASSUME CallInv, PatternInv, [VideoNext]_videoVars, test' = "pattern"
             PROVE  PatternInv'
  BY DEF PatternInv
<1>1. test = "pattern" /\ arg' = arg
  BY ArgsKept DEF videoVars, args
<1>2. /\ no_rectangles' = no_rectangles /\ RectangleWidth' = RectangleWidth
      /\ RectangleHeight' = RectangleHeight
  BY <1>1 DEF no_rectangles, RectangleWidth, RectangleHeight
<1>3. \A m : Cell(m)' = Cell(m)
  BY <1>2 DEF Cell, vg_drawrectangle, vg_drawline, vg_drawpixel
<1>4. CASE UNCHANGED <<screen, done>>
  <2>1. \/ pc' \notin {"kbd_subscribe_int", "loop"}
        \/ pc \in {"kbd_subscribe_int", "loop"}
        \/ done = no_rectangles * no_rectangles
    <3>1. ASSUME NEW esc, NEW tick, Key(esc, tick) PROVE pc = "loop"
      BY <3>1 DEF Key
    <3>2. vg_get_mode_info \/ vg_set_mode \/ vg_exit \/ unsubscribe_int
          => pc' \notin {"kbd_subscribe_int", "loop"}
      BY <1>1, OrderShow DEF vg_get_mode_info, vg_set_mode, vg_exit, unsubscribe_int,
         CallInv, Places
    <3>3. Fail \/ vg_get_mode_info_panic => pc' \notin {"kbd_subscribe_int", "loop"}
      BY DEF Fail, vg_get_mode_info_panic
    <3>4. subscribe_int => pc \in {"kbd_subscribe_int", "loop"}
      BY <1>1 DEF subscribe_int, CallInv, Places
    <3>5. TimerTick \/ PrefixKey \/ Gone \/ UNCHANGED videoVars \/ DrawPattern => pc' = pc
      BY DEF TimerTick, PrefixKey, Gone, videoVars, DrawPattern
    <3>6. PatternDrawn => done = no_rectangles * no_rectangles
      BY DEF PatternDrawn
    <3>7. QED
      BY <1>1, <3>1, <3>2, <3>3, <3>4, <3>5, <3>6
         DEF VideoNext, ToLoop, DrawRectangle, DrawImage
  <2>2. QED
    BY <1>1, <1>2, <1>3, <1>4, <2>1 DEF PatternInv
<1>5. QED
  BY <1>1, <1>4, ScreenKept, DrawPatternKeeps DEF DrawRectangle, DrawImage

\* Once all cells are drawn there is no hole in those that vg_drawline can draw.
LEMMA PatternWhole ==
  ASSUME CallInv, PatternInv, test = "pattern", pc = "loop",
         NEW x \in Nat, NEW y \in Nat,
         x < no_rectangles * RectangleWidth, y < no_rectangles * RectangleHeight,
         Whole((x \div RectangleWidth) * RectangleWidth, RectangleWidth)
  PROVE  y * Xres + x \in DOMAIN screen
<1> DEFINE n == no_rectangles
           w == RectangleWidth
           h == RectangleHeight
           col == x \div w
           row == y \div h
           m == row * n + col
<1>1. n \in Nat /\ w \in Nat /\ h \in Nat
  BY GridFields
<1> HIDE DEF n, w, h
<1>2. /\ col \in Nat /\ col < n /\ x - col * w \in 0 .. w - 1
      /\ row \in Nat /\ row < n /\ y - row * h \in 0 .. h - 1
  BY Zenon, <1>1, InCell DEF n, w, h
<1> HIDE DEF col, row
<1>3. m \div n = row /\ m % n = col
  BY <1>1, <1>2, DivMod
<1>4. m \in Nat /\ m < n * n
  <2>1. (n - row) * n >= n
    BY <1>1, <1>2
  <2>2. QED
    BY <1>1, <1>2, <2>1
<1>5. col * w \in Nat /\ row * h \in Nat
  BY <1>1, <1>2
<1>6. Whole(col * w, w)
  BY DEF col, w
<1>7. y * Xres + x \in vg_drawrectangle(col * w, row * h, w, h)
  BY <1>1, <1>2, <1>5, <1>6, NoHole
<1> HIDE DEF m
<1>8. vg_drawrectangle(col * w, row * h, w, h) = Cell(m)
  BY <1>3 DEF Cell, n, w, h
<1>9. Cell(m) \subseteq DOMAIN screen
  BY <1>4 DEF PatternInv, n
<1>10. QED
  BY <1>7, <1>8, <1>9

\* vg_drawpattern gives every pixel the colour of its cell, and leaves no hole
\* in a cell whose lines vg_drawline can draw, on every screen and in every grid.
THEOREM PatternTheorem == VideoSpec => []PatternInPlace
<1>1. VideoInit => PatternInv
  BY DEF VideoInit, PatternInv
<1>2. ASSUME CallInv, PatternInv PROVE PatternInPlace
  <2> SUFFICES ASSUME test = "pattern" PROVE PatternInPlace
    BY DEF PatternInPlace
  <2>1. ASSUME pc = "loop",
               NEW x \in 0 .. no_rectangles * RectangleWidth - 1,
               NEW y \in 0 .. no_rectangles * RectangleHeight - 1,
               Whole((x \div RectangleWidth) * RectangleWidth, RectangleWidth)
        PROVE  y * Xres + x \in DOMAIN screen
    <3>1. /\ x \in Nat /\ x < no_rectangles * RectangleWidth
          /\ y \in Nat /\ y < no_rectangles * RectangleHeight
      BY <1>2, GridFields
    <3>2. QED
      BY <1>2, <2>1, <3>1, PatternWhole
  <2>2. \A a \in DOMAIN screen :
          screen[a] = <<(a \div Xres) \div RectangleHeight, (a % Xres) \div RectangleWidth>>
    BY <1>2 DEF PatternInv
  <2>3. QED
    BY <2>1, <2>2 DEF PatternInPlace, RectangleWidth, RectangleHeight, no_rectangles
<1>3. QED
  BY <1>1, <1>2, CallInvInit, CallInvNext, PatternInvNext, PTL DEF VideoSpec

===============================================================================
