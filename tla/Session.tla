-------------------------------- MODULE Session --------------------------------
(***************************************************************************)
(* What game_loop (game.c) does before and after its loop: it maps the     *)
(* video memory and sets the graphics mode, subscribes the interrupts of   *)
(* the mouse, the keyboard, the timer and the RTC, enables the mouse and   *)
(* the RTC, and takes all of it back at the end.  Every call may fail and  *)
(* then game_loop returns 1 at once.                                       *)
(*                                                                         *)
(* A subscription gives the kernel the number of the bit it shall set in   *)
(* notifications and gets a hook id in the same variable.                  *)
(***************************************************************************)
EXTENDS Integers, FiniteSets

CONSTANTS
    Hooks,     \* hook ids of the kernel, positive numbers
    CmosBits   \* what the BIOS may have left in a bit of the CMOS

ASSUME SessionAssumption ==
    /\ Hooks \subseteq Nat \ {0}
    /\ Cardinality(Hooks) >= 4
    /\ CmosBits \subseteq 0 .. 1

Devices == {"mouse", "kbd", "timer", "rtc"}

\* mouse_hookid, kbd_hookid, timer_hookid and rtc_hook_id before they are used.
InitialHook == [mouse |-> 12, kbd |-> 1, timer |-> 0, rtc |-> 8]

\* The CMOS cell that controls the RTC, and the cell rtc.h takes it for.
RegisterB == 11
REG_B == 17

VARIABLES
    pc,       \* the call that comes next
    rc,       \* value returned, -1 before
    mode,     \* screen mode
    hook,     \* the four hook id variables
    bit_no,   \* the four bit numbers, -1 before
    hooks,    \* policies of the kernel
    pie       \* BIT(6) of the CMOS cells, as a number

sessionVars == <<pc, rc, mode, hook, bit_no, hooks, pie>>

SessionInit ==
    /\ pc = "vg_get_mode_info"
    /\ rc = -1
    /\ mode = "text"
    /\ hook = InitialHook
    /\ bit_no = [d \in Devices |-> -1]
    /\ hooks = {}
    /\ pie \in [{RegisterB, REG_B} -> CmosBits]

-------------------------------------------------------------------------------
(***************************************************************************)
(* The kernel (external): a free hook is taken for the bit in var, and a   *)
(* hook is given up by its id.                                             *)
(***************************************************************************)
sys_irqsetpolicy(d, bit, id) ==
    /\ id \notin {h.id : h \in hooks}
    /\ hooks' = hooks \cup {[id |-> id, dev |-> d, bit |-> bit]}

sys_irqrmpolicy(id) ==
    /\ id \in {h.id : h \in hooks}
    /\ hooks' = {h \in hooks : h.id # id}

-------------------------------------------------------------------------------

Then(from, to) == pc = from /\ pc' = to /\ rc' = rc

\* Any call that fails makes game_loop return 1.  The loop does not fail.
Fail ==
    /\ pc \notin {"loop", "returned", "panic"}
    /\ pc' = "returned"
    /\ rc' = 1
    /\ UNCHANGED <<mode, hook, bit_no, hooks, pie>>

vg_get_mode_info ==
    /\ Then("vg_get_mode_info", "vg_set_mode")
    /\ UNCHANGED <<mode, hook, bit_no, hooks, pie>>

\* The memory is not granted or not mapped.
vg_get_mode_info_panic ==
    /\ Then("vg_get_mode_info", "panic")
    /\ UNCHANGED <<mode, hook, bit_no, hooks, pie>>

vg_set_mode ==
    /\ Then("vg_set_mode", "mouse_subscribe_int")
    /\ mode' = "graphics"
    /\ UNCHANGED <<hook, bit_no, hooks, pie>>

\* Mutated form: the bit number is taken after the call.
bit_Mutant(d, id) == id

\* *bit_no = hookid, before sys_irqsetpolicy changes it.
bit_(d, id) == hook[d]

\* Mutated form: a copy of the hook id is passed to the kernel.
hook_Mutant(d, id) == hook[d]

\* What sys_irqsetpolicy stores in the variable it is given the address of.
hook_(d, id) == id

subscribe_int(d, from, to) ==
    /\ Then(from, to)
    /\ \E id \in Hooks :
         /\ sys_irqsetpolicy(d, hook[d], id)
         /\ bit_no' = [bit_no EXCEPT ![d] = bit_(d, id)]
         /\ hook' = [hook EXCEPT ![d] = hook_(d, id)]
    /\ UNCHANGED <<mode, pie>>

\* A call of send_mouse_command that returns 0; module MouseSession has the details.
MouseCall(from, to) ==
    /\ Then(from, to)
    /\ UNCHANGED <<mode, hook, bit_no, hooks, pie>>

\* data |= PIE
SetBit(b) == 1

rtc_enable ==
    /\ Then("rtc_enable", "loop")
    /\ pie' = [pie EXCEPT ![REG_B] = SetBit(@)]
    /\ UNCHANGED <<mode, hook, bit_no, hooks>>

\* The loop ends when gameState is EXIT (module Game).
Loop ==
    /\ Then("loop", "rtc_disable")
    /\ UNCHANGED <<mode, hook, bit_no, hooks, pie>>

\* data &= ~PIE
rtc_disable ==
    /\ Then("rtc_disable", "rtc_unsubscribe_int")
    /\ pie' = [pie EXCEPT ![REG_B] = 0]
    /\ UNCHANGED <<mode, hook, bit_no, hooks>>

\* A policy the kernel does not know is an error: see Fail.
unsubscribe_int(d, from, to) ==
    /\ Then(from, to)
    /\ sys_irqrmpolicy(hook[d])
    /\ UNCHANGED <<mode, hook, bit_no, pie>>

\* Mutated form: game_loop ends without vg_exit.
vg_exit_Mutant == mode

ModeAfter_vg_exit == "text"

vg_exit ==
    /\ pc = "vg_exit"
    /\ pc' = "returned"
    /\ rc' = 0
    /\ mode' = ModeAfter_vg_exit
    /\ UNCHANGED <<hook, bit_no, hooks, pie>>

Gone == pc \in {"returned", "panic"} /\ UNCHANGED sessionVars

-------------------------------------------------------------------------------

\* Before the loop, without the call of send_mouse_command,
SetUp ==
    \/ vg_get_mode_info
    \/ vg_get_mode_info_panic
    \/ vg_set_mode
    \/ subscribe_int("mouse", "mouse_subscribe_int", "ENABLE_MOUSE")
    \/ subscribe_int("kbd", "kbd_subscribe_int", "timer_subscribe_int")
    \/ subscribe_int("timer", "timer_subscribe_int", "rtc_subscribe_int")
    \/ subscribe_int("rtc", "rtc_subscribe_int", "rtc_enable")
    \/ rtc_enable

Unsubscribe == [mouse |-> "mouse_unsubscribe_int", kbd |-> "kbd_unsubscribe_int",
                timer |-> "timer_unsubscribe_int", rtc |-> "rtc_unsubscribe_int"]

\* and after it.
TakeDown ==
    \/ rtc_disable
    \/ unsubscribe_int("rtc", Unsubscribe["rtc"], "timer_unsubscribe_int")
    \/ unsubscribe_int("timer", Unsubscribe["timer"], "DISABLE_MOUSE")
    \/ unsubscribe_int("mouse", Unsubscribe["mouse"], "kbd_unsubscribe_int")
    \/ unsubscribe_int("kbd", Unsubscribe["kbd"], "vg_exit")
    \/ vg_exit

MouseCalls ==
    \/ MouseCall("ENABLE_MOUSE", "kbd_subscribe_int")
    \/ MouseCall("DISABLE_MOUSE", "mouse_unsubscribe_int")

SessionNext == SetUp \/ Loop \/ TakeDown \/ MouseCalls \/ Fail \/ Gone

SessionSpec == SessionInit /\ [][SessionNext]_sessionVars

-------------------------------------------------------------------------------

(***************************************************************************)
(* The loop tests for each device the bit the kernel sets for it, and no   *)
(* two devices share a bit, although each subscribe function uses one      *)
(* variable for the bit it asks for and for the hook id it gets.           *)
(***************************************************************************)
LoopKnowsBits ==
    pc = "loop" =>
        /\ \A d \in Devices : \E h \in hooks : h.dev = d /\ h.bit = bit_no[d]
        /\ \A d, e \in Devices : bit_no[d] = bit_no[e] => d = e

(***************************************************************************)
(* Each unsubscribe function gives up the policy of its own device, so     *)
(* that the kernel does not refuse it.                                     *)
(***************************************************************************)
UnsubscribesItsOwn ==
    \A d \in Devices : pc = Unsubscribe[d] => \E h \in hooks : h.dev = d /\ h.id = hook[d]

(***************************************************************************)
(* When game_loop returns 0 nothing of it is left: the screen is back in   *)
(* text mode and the kernel has no policy of the game.                     *)
(***************************************************************************)
CleanExit == rc = 0 => mode = "text" /\ hooks = {}

(***************************************************************************)
(* rtc.h:50: rtc_enable "Enables the rtc Periodic Interruptions": in the   *)
(* loop they are enabled in register B of the RTC.                         *)
(***************************************************************************)
RtcEnabled == pc = "loop" => pie[RegisterB] = 1

===============================================================================
