-------------------------------- MODULE LabTests --------------------------------
(***************************************************************************)
(* The loops of the labs that wait for interrupts and count them:          *)
(*    timer_test_int        (lab2/lab2.c)  time seconds of interrupts;     *)
(*    kbd_test_scan         (lab3/lab3.c)  scan codes until ESC;           *)
(*    kbd_test_timed_scan   (lab3/lab3.c)  the same, but at most until no  *)
(*                                         key was used for n seconds;     *)
(*    mouse_test_packet     (lab4/lab4.c)  cnt packets of the mouse.       *)
(* A message of the kernel may carry the bits of several devices.  The     *)
(* seconds of kbd_test_timed_scan are counted by aux_counter, which starts *)
(* with whatever its place on the stack holds.                             *)
(***************************************************************************)
EXTENDS LabProgram

CONSTANTS
    n,         \* argument of the test: seconds or packets
    Garbage,   \* what aux_counter may start with
    MaxIdle    \* bound on the interrupts without a key; 60 n + 1 are not cut off

ASSUME LabAssumption ==
    /\ n \in 0 .. 255
    /\ Garbage \subseteq Nat
    /\ MaxIdle > 60 * n + 1

Tests == {"timer_int", "scan", "timed_scan", "packet"}

VARIABLES
    timer_counter,
    shown,           \* lines of elapsed time or packets printed
    before,          \* byte of the keyboard before scancode
    printed,         \* size of the scan code printed last, 0 before the first
    aux_counter,
    idle,            \* timer interrupts handled since the last whole scan code
    used,            \* there was one
    cnt,             \* packets still to come
    currenByte,      \* byte of the packet that is expected next, from 1 to 3
    ih_error,
    position,        \* byte of its packet the mouse sends next
    torn,            \* the bytes stored since the first are not one packet
    scanBit3,        \* BIT(3) of the byte in scancode of lab 4
    stuck            \* a byte of the mouse was left in OUT_BUF, without an error

timerVars == <<timer_counter, shown>>
keyVars == <<scancode, before, size, printed, used>>
idleVars == <<aux_counter, idle>>
mouseVars == <<cnt, currenByte, ih_error, position, torn, scanBit3, stuck>>
labVars == <<test, pc, rc, timerVars, keyVars, idleVars, mouseVars>>
ownVars == <<timerVars, before, printed, used, idleVars, mouseVars>>

KeyboardInit ==
    /\ before = "none"
    /\ printed = 0
    /\ used = FALSE
    /\ aux_counter \in Garbage
    /\ idle = 0

\* The mouse begins with the first byte of a packet when it is enabled.
MouseInit ==
    /\ cnt = n
    /\ currenByte = 1
    /\ ih_error = FALSE
    /\ position = 1
    /\ torn = FALSE
    /\ scanBit3 = FALSE
    /\ stuck = FALSE

OwnInit ==
    /\ timer_counter = 0
    /\ shown = 0
    /\ KeyboardInit
    /\ MouseInit

-------------------------------------------------------------------------------
(***************************************************************************)
(* Before and after the loop.                                              *)
(***************************************************************************)

\* The interrupts are subscribed and the mouse is enabled.
Start ==
    /\ pc = "start"
    /\ pc' = "loop"
    /\ UNCHANGED <<test, rc, timerVars, keyVars, idleVars, mouseVars>>

\* A call before or after the loop fails.
Fail ==
    /\ pc \in {"start", "end"}
    /\ pc' = "returned"
    /\ rc' = 1
    /\ UNCHANGED <<test, timerVars, keyVars, idleVars, mouseVars>>

\* Mutated form: || for &&.
LoopingMutant(t) ==
    \/ t = "timer_int" /\ timer_counter < n * 60
    \/ t = "scan" /\ scancode # "esc"
    \/ t = "timed_scan" /\ (scancode # "esc" \/ aux_counter <= n)
    \/ t = "packet" /\ cnt > 0

\* The condition of each loop.
Looping(t) ==
    \/ t = "timer_int" /\ timer_counter < n * 60
    \/ t = "scan" /\ scancode # "esc"
    \/ t = "timed_scan" /\ scancode # "esc" /\ aux_counter <= n
    \/ t = "packet" /\ cnt > 0

InLoop(t) == test = t /\ pc = "loop" /\ Looping(t)

Leave ==
    /\ pc = "loop"
    /\ ~Looping(test)
    /\ pc' = "end"
    /\ UNCHANGED <<test, rc, timerVars, keyVars, idleVars, mouseVars>>

\* The interrupts are unsubscribed and the mouse is disabled.
End ==
    /\ pc = "end"
    /\ pc' = "returned"
    /\ rc' = 0
    /\ UNCHANGED <<test, timerVars, keyVars, idleVars, mouseVars>>

Gone == pc = "returned" /\ UNCHANGED labVars

-------------------------------------------------------------------------------
(***************************************************************************)
(* timer_test_int.                                                         *)
(***************************************************************************)

timer_int_handler(counter) == counter + 1

Second(ticks) == ticks % 60 = 0

\* The counter is tested after it was incremented.
PrintsTime == Second(timer_int_handler(timer_counter))

TimerInt ==
    /\ InLoop("timer_int")
    /\ timer_counter' = timer_int_handler(timer_counter)
    /\ shown' = IF PrintsTime THEN shown + 1 ELSE shown
    /\ UNCHANGED <<test, pc, rc, keyVars, idleVars, mouseVars>>

-------------------------------------------------------------------------------
(***************************************************************************)
(* kbd_test_scan and kbd_test_timed_scan.                                  *)
(***************************************************************************)

\* Mutated form: the counters go on after a key.
ResetMutant(old) == old

\* A whole scan code sets both counters to 0.
Reset(old) == 0

\* The bit of the timer, with the counters as the keyboard has left them.
Tick(aux, ticks, since) ==
    /\ aux_counter' = (IF Second(ticks) THEN aux + 1 ELSE aux)
    /\ timer_counter' = timer_int_handler(ticks)
    /\ idle' = since + 1

TimerMessage ==
    /\ InLoop("timed_scan")
    /\ idle < MaxIdle
    /\ Tick(aux_counter, timer_counter, idle)
    /\ UNCHANGED <<test, pc, rc, shown, keyVars, mouseVars>>

kbc_ih(code) ==
    /\ before' = scancode
    /\ scancode' = code

\* The first byte of two: "continue" drops the bit of the timer, if there is one.
PrefixMessage ==
    \E code \in Codes :
        /\ InLoop("scan") \/ InLoop("timed_scan")
        /\ twoBytes(code)
        /\ kbc_ih(code)
        /\ size' = 2
        /\ UNCHANGED <<test, pc, rc, printed, used, timerVars, idleVars, mouseVars>>

\* Mutated form: the size is not set back to 1.
SizeAfterMutant == size

SizeAfter == 1

\* kbd_print_scancode, with one byte or with 0xE0 and another.
PrintCode(code) ==
    /\ ~twoBytes(code)
    /\ kbc_ih(code)
    /\ printed' = size
    /\ size' = SizeAfter
    /\ used' = TRUE

Key(code) ==
    /\ InLoop("scan")
    /\ PrintCode(code)
    /\ UNCHANGED <<test, pc, rc, timerVars, idleVars, mouseVars>>

TimedKey(code) ==
    /\ InLoop("timed_scan")
    /\ PrintCode(code)
    /\ aux_counter' = Reset(aux_counter)
    /\ timer_counter' = Reset(timer_counter)
    /\ idle' = 0
    /\ UNCHANGED <<test, pc, rc, shown, mouseVars>>

\* The message has the bit of the timer too.
TimedKeyAndTick(code) ==
    /\ InLoop("timed_scan")
    /\ PrintCode(code)
    /\ Tick(Reset(aux_counter), Reset(timer_counter), 0)
    /\ UNCHANGED <<test, pc, rc, shown, mouseVars>>

KeyboardMessage ==
    \/ PrefixMessage
    \/ \E code \in Codes : Key(code) \/ TimedKey(code) \/ TimedKeyAndTick(code)

-------------------------------------------------------------------------------
(***************************************************************************)
(* mouse_test_packet.  The mouse sends packets of three bytes, of which    *)
(* the first always has BIT(3) and the others may have it.                 *)
(***************************************************************************)

\* A byte of the mouse has come.  There is none after one that was left in OUT_BUF.
Interrupted == InLoop("packet") /\ ~stuck

\* The mouse goes on to the next byte.
Sent == position' = (position % 3) + 1

\* The status could not be read or is bad.  The byte is lost or comes again.
MouseError ==
    /\ Interrupted
    /\ ih_error' = TRUE
    /\ scanBit3' \in BOOLEAN
    /\ Sent \/ UNCHANGED position
    /\ torn' = (torn \/ currenByte # 1)
    /\ UNCHANGED <<test, pc, rc, cnt, currenByte, stuck, timerVars, keyVars, idleVars>>

\* Mutated form: mouse_ih sets ih_error to 0 when it has read a byte.
StoredMutant(bit3) == currenByte = 1 => bit3

\* The byte is not dropped by one of the two "continue".
Stored(bit3) == ~ih_error /\ (currenByte = 1 => bit3)

\* What the loop does with scancode; the third byte completes a packet.
Store(bit3, mixed) ==
    IF ~Stored(bit3)
    THEN UNCHANGED <<cnt, currenByte, torn, shown>>
    ELSE /\ currenByte' = (currenByte % 3) + 1
         /\ torn' = mixed
         /\ cnt' = (IF currenByte = 3 THEN cnt - 1 ELSE cnt)
         /\ shown' = (IF currenByte = 3 THEN shown + 1 ELSE shown)

MouseByte(bit3) ==
    /\ Interrupted
    /\ position = 1 => bit3
    /\ Sent
    /\ scanBit3' = bit3
    /\ Store(bit3, IF currenByte = 1 THEN position # 1 ELSE torn)
    /\ UNCHANGED <<test, pc, rc, ih_error, stuck, timer_counter, keyVars, idleVars>>

\* The read of OUT_BUF fails, which mouse_ih does not report: the loop goes on
\* with the byte of the interrupt before.
MouseStale ==
    /\ Interrupted
    /\ stuck' = TRUE
    /\ Store(scanBit3, TRUE)
    /\ UNCHANGED <<test, pc, rc, ih_error, position, scanBit3, timer_counter, keyVars, idleVars>>

\* driver_receive has no more messages of the mouse.
Silent == InLoop("packet") /\ stuck /\ UNCHANGED labVars

-------------------------------------------------------------------------------

MouseMessage == \E bit3 \in BOOLEAN : MouseByte(bit3)

LabNext ==
    \/ Start
    \/ Fail
    \/ TimerInt
    \/ TimerMessage
    \/ KeyboardMessage
    \/ MouseError
    \/ MouseMessage
    \/ MouseStale
    \/ Silent
    \/ Leave
    \/ End
    \/ Gone

-------------------------------------------------------------------------------

Done == pc \in {"end", "returned"}

(***************************************************************************)
(* After a key the loop of kbd_test_timed_scan is left without ESC as soon *)
(* as n seconds have passed and not before: with the first interrupt after *)
(* 60 n of them, although aux_counter is 1 after the first one already.    *)
(***************************************************************************)
TimesOut ==
    pc = "end" /\ test = "timed_scan" /\ used /\ scancode # "esc" => idle = 60 * n + 1

(***************************************************************************)
(* A scan code is printed with two bytes if and only if the byte before it *)
(* was 0xE0, whatever timer interrupts, errors and other keys came between *)
(* the two messages (size in kbd_test_scan and kbd_test_timed_scan).       *)
(***************************************************************************)
PrintsWhole == used /\ scancode # "prefix" => (printed = 2 <=> before = "prefix")

(***************************************************************************)
(* mouse_test_packet prints a packet put together from bytes of several    *)
(* packets at most once, as the last thing the mouse makes it do, although *)
(* bytes may be lost: after a bad status ih_error keeps it from storing    *)
(* any byte, and after a failed read of OUT_BUF, which mouse_ih does not   *)
(* report, there are no more interrupts.                                   *)
(***************************************************************************)
NoTornPacket == shown > 0 /\ currenByte = 1 /\ torn => stuck

(***************************************************************************)
(* timer_test_int ends.  kbd_test_timed_scan goes on for ever only if keys *)
(* are used for ever, whatever aux_counter started with.  While the mouse  *)
(* goes on sending, mouse_test_packet ends, unless there was an error.     *)
(***************************************************************************)
Ends ==
    /\ test = "timer_int" => <>Done
    /\ test = "timed_scan" => []<><<KeyboardMessage>>_labVars \/ <>Done
    /\ test = "packet" => ([]<><<MouseMessage>>_labVars => <>(Done \/ ih_error))

===============================================================================
