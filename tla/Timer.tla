--------------------------------- MODULE Timer ---------------------------------
(***************************************************************************)
(* The i8254 timer as lab 2 programs it (lab2/timer.c).  Two functions are *)
(* called again and again, for any of the three timers:                    *)
(*    timer_test_read_config  reads the status of a timer with the         *)
(*                            read-back command and displays a field of it;*)
(*    timer_set_frequency     reads it, writes a control word and then the *)
(*                            two bytes of the divisor.                    *)
(* Each access to a port is a step and may fail, so that the chip may be   *)
(* left between two of them.                                               *)
(***************************************************************************)
EXTENDS Integers

CONSTANTS
    Selected,      \* argument timer
    Frequencies,   \* argument freq
    Words          \* what the 4 LSBs of a timer may be when the program starts

TIMER_FREQ == 1193182

Timers == 0 .. 2

ASSUME TimerAssumption ==
    /\ Selected \subseteq 0 .. 255
    /\ Frequencies \subseteq Nat
    /\ Words \subseteq 0 .. 15

VARIABLES
    low,       \* chip: the 4 LSBs of each timer, counting mode and base
    access,    \* chip: how the divisor of each timer is written
    half,      \* chip: the next byte written to the timer is the second one
    count,     \* chip: the divisor, its two bytes
    latched,   \* chip: timers whose next byte read is the status
    pc, timer, freq, status,
    field,     \* argument of timer_test_read_config, "none" in the other function
    rc         \* value of the last call, -1 before the first

chip == <<low, access, half, count, latched>>
timerVars == <<chip, pc, timer, freq, status, field, rc>>

Fields == {"tsf_all", "tsf_initial", "tsf_mode", "tsf_base"}

\* The BIOS has programmed the timers, in any access mode; all count from 0.
TimerInit ==
    /\ low \in [Timers -> Words]
    /\ access = [t \in Timers |-> "other"]
    /\ half = [t \in Timers |-> FALSE]
    /\ count = [t \in Timers |-> [lsb |-> 0, msb |-> 0]]
    /\ latched = {}
    /\ pc = "idle"
    /\ timer = 0
    /\ freq \in Frequencies
    /\ status = 0
    /\ field = "none"
    /\ rc = -1

-------------------------------------------------------------------------------
(***************************************************************************)
(* The chip (external): a control word sets the low bits and the access    *)
(* mode and makes the next byte the first one.                             *)
(***************************************************************************)
ReadBackCommand(t) ==
    /\ latched' = latched \cup {t}
    /\ UNCHANGED <<low, access, half, count>>

ControlWord(t, word) ==
    /\ low' = [low EXCEPT ![t] = word % 16]
    /\ access' = [access EXCEPT ![t] = IF (word \div 16) % 4 = 3 THEN "lsb_msb" ELSE "other"]
    /\ half' = [half EXCEPT ![t] = FALSE]
    /\ UNCHANGED <<count, latched>>

CountByte(t, b) ==
    /\ count' = [count EXCEPT ![t] = IF half[t] THEN [@ EXCEPT !.msb = b]
                                               ELSE [@ EXCEPT !.lsb = b]]
    /\ half' = [half EXCEPT ![t] = ~@]
    /\ UNCHANGED <<low, access, latched>>

\* The status, if it was asked for: output pin, access mode, low bits; else a byte
\* of the counter.
StatusByte(t) ==
    IF t \in latched
    THEN {128 * out + 16 * acc + low[t] :
             out \in 0 .. 1, acc \in IF access[t] = "lsb_msb" THEN {3} ELSE {1, 2}}
    ELSE {count[t].lsb, count[t].msb}

-------------------------------------------------------------------------------

GoTo(next) == pc' = next /\ UNCHANGED <<timer, freq, field, rc>>

\* The local variable status is gone after a call.
Return(value) ==
    /\ pc' = "idle"
    /\ rc' = value
    /\ status' = 0
    /\ UNCHANGED <<timer, freq, field>>

Call ==
    /\ pc = "idle"
    /\ pc' = "called"
    /\ timer' \in Selected
    /\ freq' \in Frequencies
    /\ field' = "none"
    /\ UNCHANGED <<chip, status, rc>>

\* The timer is looked at by timer_get_conf.
timer_test_read_config ==
    /\ pc = "idle"
    /\ timer' \in Selected
    /\ field' \in Fields
    /\ \/ timer' <= 2 /\ pc' = "readBack" /\ UNCHANGED rc
       \/ timer' > 2 /\ rc' = 1 /\ UNCHANGED pc
    /\ UNCHANGED <<chip, freq, status>>

\* Mutated form: 18 Hz, the rate of the BIOS, is allowed.
InRangeMutant == freq >= 18 /\ freq <= TIMER_FREQ

\* The divisor of a slower timer does not fit in 16 bits.
InRange == freq >= 19 /\ freq <= TIMER_FREQ

CheckArguments ==
    /\ pc = "called"
    /\ \/ InRange /\ timer <= 2 /\ GoTo("readBack") /\ UNCHANGED status
       \/ ~(InRange /\ timer <= 2) /\ Return(1)
    /\ UNCHANGED chip

timer_get_conf_Command ==
    /\ pc = "readBack"
    /\ ReadBackCommand(timer)
    /\ GoTo("readStatus")
    /\ UNCHANGED status

timer_get_conf_Read ==
    /\ pc = "readStatus"
    /\ status' \in StatusByte(timer)
    /\ latched' = latched \ {timer}
    /\ GoTo(IF field = "none" THEN "control" ELSE "display")
    /\ UNCHANGED <<low, access, half, count>>

\* The bits of a byte.
Bits(b) == {i \in 0 .. 7 : (b \div 2^i) % 2 = 1}

\* What timer_display_conf hands over to be shown, as bits.  The masks are
\* themselves made with &, and the field is not shifted to bit 0.
Displayed ==
    IF field = "tsf_all" THEN Bits(status)
    ELSE IF field = "tsf_initial" THEN Bits(status) \cap {5} \cap {4}
    ELSE IF field = "tsf_mode" THEN Bits(status) \cap {1} \cap {2} \cap {3}
    ELSE Bits(status) \cap {0}

timer_display_conf ==
    /\ pc = "display"
    /\ Return(0)
    /\ UNCHANGED chip

\* Mutated form: the bits of the access mode are or-ed to the whole status, which
\* has the output pin where the control word has the number of the timer.
ControlledMutant == IF status >= 128 /\ timer = 0 THEN 2 ELSE timer

\* The timer the control word selects.
Controlled == timer

\* status & 0x0F, and TIMER_LSB_MSB.
ControlBits == (status % 16) + 48

WriteControl ==
    /\ pc = "control"
    /\ ControlWord(Controlled, ControlBits)
    /\ GoTo("lsb")
    /\ UNCHANGED status

\* uint16_t frequency
frequency == (TIMER_FREQ \div freq) % 65536

util_get_LSB(n) == n % 256

util_get_MSB(n) == n \div 256

WriteLsb ==
    /\ pc = "lsb"
    /\ CountByte(timer, util_get_LSB(frequency))
    /\ GoTo("msb")
    /\ UNCHANGED status

WriteMsb ==
    /\ pc = "msb"
    /\ CountByte(timer, util_get_MSB(frequency))
    /\ Return(0)

\* An access to a port fails and nothing reaches the chip, or
\* timer_print_config fails.
PortError ==
    /\ pc \in {"readBack", "readStatus", "display", "control", "lsb", "msb"}
    /\ Return(1)
    /\ UNCHANGED chip

-------------------------------------------------------------------------------

TimerNext ==
    \/ Call
    \/ timer_test_read_config
    \/ CheckArguments
    \/ timer_get_conf_Command
    \/ timer_get_conf_Read
    \/ timer_display_conf
    \/ WriteControl
    \/ WriteLsb
    \/ WriteMsb
    \/ PortError

TimerSpec == TimerInit /\ [][TimerNext]_timerVars

-------------------------------------------------------------------------------

\* Bit 0 of the control word: the timer counts in decimal digits of four bits.
Bcd(t) == low[t] % 2 = 1

\* What the two bytes mean to the chip (external).  A digit above 9, which a BCD
\* timer has no use for, is taken for what it is worth.
Divisor(t) ==
    LET Digits(b) == IF Bcd(t) THEN 10 * (b \div 16) + (b % 16) ELSE b
        base == IF Bcd(t) THEN 100 ELSE 256
    IN  Digits(count[t].lsb) + base * Digits(count[t].msb)

(***************************************************************************)
(* Neither function ever changes the 4 LSBs of the control word of a timer *)
(* (mode and base), whichever step of this or of an earlier call failed.   *)
(***************************************************************************)
KeepsMode == [][ low' = low ]_timerVars

(***************************************************************************)
(* A call of timer_set_frequency that returns 0 has made the timer at      *)
(* least as fast as it was asked to be, and to the accuracy of the divisor *)
(* no faster if it counts in binary, even if an earlier call was broken    *)
(* off between the two bytes.  The divisor is written in binary also to a  *)
(* timer whose BCD bit the function keeps, which then runs too fast.       *)
(***************************************************************************)
SetsFrequency ==
    pc = "idle" /\ rc = 0 /\ field = "none" =>
        /\ Divisor(timer) * freq <= TIMER_FREQ
        /\ ~Bcd(timer) => TIMER_FREQ < (Divisor(timer) + 1) * freq
        /\ ~half[timer]

(***************************************************************************)
(* lcom/timer.h:39 says what is displayed for tsf_mode is the "counting    *)
(* mode: 0, 1,.., 5" of the timer.                                         *)
(***************************************************************************)
DisplaysMode ==
    pc = "display" /\ field = "tsf_mode" => Displayed = Bits(low[timer] \div 2)

===============================================================================
