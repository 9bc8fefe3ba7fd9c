------------------------------ MODULE TimerProofs ------------------------------
(***************************************************************************)
(* For every frequency, every timer and whatever the BIOS has left in the  *)
(* chip: the functions of lab 2 keep the mode of the timers and set the    *)
(* frequency they are asked for, whichever port accesses fail.             *)
(***************************************************************************)
EXTENDS Timer, TLAPS

Half == [lsb : Nat, msb : Nat]

(***************************************************************************)
(* What each port access finds: the status that is read has been asked     *)
(* for, the low bits of the control word are those of the timer, and the   *)
(* control word has made the next byte the first of the two.               *)
(***************************************************************************)
TimerInv ==
    /\ low \in [Timers -> 0 .. 15]
    /\ access \in [Timers -> {"lsb_msb", "other"}]
    /\ half \in [Timers -> BOOLEAN]
    /\ count \in [Timers -> Half]
    /\ freq \in Nat
    /\ pc \in {"idle", "called", "readBack", "readStatus", "control", "display", "lsb", "msb"}
    /\ pc = "called" => timer \in 0 .. 255 /\ field = "none"
    /\ pc \in {"readBack", "readStatus", "control", "display", "lsb", "msb"} => timer \in Timers
    /\ pc \in {"control", "lsb", "msb"} => field = "none"
    /\ pc = "display" => field # "none"
    /\ field = "none" /\ pc \notin {"idle", "called"} => InRange
    /\ pc = "readStatus" => timer \in latched
    /\ pc = "control" => status % 16 = low[timer]
    /\ pc = "lsb" => ~half[timer]
    /\ pc = "msb" => half[timer] /\ count[timer].lsb = util_get_LSB(frequency)
    /\ pc = "idle" /\ rc = 0 /\ field = "none" =>
         /\ timer \in Timers /\ InRange /\ ~half[timer]
         /\ count[timer] = [lsb |-> util_get_LSB(frequency), msb |-> util_get_MSB(frequency)]

LEMMA TimerInvInit == TimerInit => TimerInv
<1> SUFFICES ASSUME TimerInit PROVE TimerInv
  OBVIOUS
<1> DEFINE zero == [lsb |-> 0, msb |-> 0]
<1>1. zero \in Half
  BY DEF Half
<1>2. count = [t \in Timers |-> zero]
  BY DEF TimerInit
<1> HIDE DEF zero
<1>3. count \in [Timers -> Half]
  BY <1>1, <1>2
<1>4. low \in [Timers -> 0 .. 15] /\ freq \in Nat
  BY ZenonT(40), TimerAssumption DEF TimerInit
<1>5. QED
  BY <1>3, <1>4 DEF TimerInit, TimerInv

\* The low bits of a status byte that was asked for are those of the timer.
LEMMA StatusLow ==
    ASSUME low \in [Timers -> 0 .. 15], NEW t \in Timers, t \in latched, NEW b \in StatusByte(t)
    PROVE  b \in Nat /\ b % 16 = low[t]
<1>1. PICK out \in 0 .. 1, acc \in {1, 2, 3} : b = 128 * out + 16 * acc + low[t]
  BY DEF StatusByte
<1>2. low[t] \in 0 .. 15
  OBVIOUS
<1>3. QED
  BY <1>1, <1>2

\* The control word gives the timer the low bits it had.
LEMMA ControlKeeps ==
    ASSUME TimerInv, WriteControl
    PROVE  low' = low
<1>1. timer \in Timers /\ low[timer] \in 0 .. 15 /\ status % 16 = low[timer]
  BY DEF TimerInv, WriteControl
<1>2. ControlBits % 16 = low[timer]
  BY <1>1 DEF ControlBits
<1>3. low' = [low EXCEPT ![timer] = low[timer]]
  BY Zenon, <1>2 DEF WriteControl, ControlWord, Controlled
<1>4. QED
  BY <1>1, <1>3 DEF TimerInv

\* A step that does not program the chip.
LEMMA ChipKept ==
    ASSUME TimerInv, UNCHANGED <<low, access, half, count>>, NEW v, Return(v),
           v = 0 => field # "none"
    PROVE  TimerInv'
BY DEF TimerInv, Return, InRange, frequency

\* The conversion to 16 bits, and the two bytes of 16 bits.
LEMMA Bytes ==
    ASSUME NEW m \in Nat
    PROVE  /\ m % 65536 \in Nat /\ m % 256 \in Nat /\ m \div 256 \in Nat
           /\ m <= 65535 => m % 65536 = m
           /\ (m % 256) + 256 * (m \div 256) = m
BY SMT

LEMMA BytesAreNat ==
    ASSUME freq \in Nat, InRange
    PROVE  /\ frequency \in Nat
           /\ util_get_LSB(frequency) \in Nat /\ util_get_MSB(frequency) \in Nat
<1>1. freq \in Nat \ {0} /\ TIMER_FREQ \in Nat
  BY SMT DEF InRange, TIMER_FREQ
<1>2. TIMER_FREQ \div freq \in Nat
  BY <1>1
<1> DEFINE q == TIMER_FREQ \div freq
<1>3. frequency = q % 65536
  BY DEF frequency
<1> HIDE DEF q
<1>4. frequency \in Nat
  BY <1>2, <1>3, Bytes DEF q
<1>5. QED
  BY <1>4, Bytes DEF util_get_LSB, util_get_MSB

LEMMA TimerInvNext == TimerInv /\ [TimerNext]_timerVars => TimerInv'
<1> SUFFICES ASSUME TimerInv, [TimerNext]_timerVars PROVE TimerInv'
  OBVIOUS
<1>1. Call => TimerInv'
  BY TimerAssumption DEF Call, chip, TimerInv
<1>2. timer_test_read_config => TimerInv'
  <2>1. \A t \in 0 .. 255 : t <= 2 => t \in Timers
    BY DEF Timers
  <2>2. QED
    BY <2>1, TimerAssumption DEF timer_test_read_config, chip, Fields, TimerInv, InRange, frequency
<1>3. CheckArguments => TimerInv'
  <2>1. CASE /\ pc = "called" /\ InRange /\ timer <= 2 /\ GoTo("readBack")
             /\ UNCHANGED <<status, chip>>
    <3>1. timer \in Timers
      BY <2>1 DEF TimerInv, Timers
    <3>2. QED
      BY <2>1, <3>1 DEF GoTo, chip, TimerInv, InRange, frequency
  <2>2. CASE Return(1) /\ UNCHANGED chip
    BY <2>2, ChipKept DEF chip
  <2>3. QED
    BY <2>1, <2>2 DEF CheckArguments
<1>4. timer_get_conf_Command => TimerInv'
  BY DEF timer_get_conf_Command, ReadBackCommand, GoTo, TimerInv, InRange
<1>5. ASSUME timer_get_conf_Read PROVE TimerInv'
  <2>1. status' % 16 = low[timer]
    BY <1>5, StatusLow DEF timer_get_conf_Read, TimerInv
  <2>2. QED
    BY <1>5, <2>1 DEF timer_get_conf_Read, GoTo, TimerInv, InRange
<1>6. timer_display_conf \/ PortError => TimerInv'
  <2>1. timer_display_conf => field # "none"
    BY DEF timer_display_conf, TimerInv
  <2>2. QED
    BY <2>1, ChipKept DEF timer_display_conf, PortError, chip
<1>7. ASSUME WriteControl PROVE TimerInv'
  <2>1. low' = low /\ timer \in Timers
    BY <1>7, ControlKeeps DEF TimerInv, WriteControl
  <2>2. /\ access' \in [Timers -> {"lsb_msb", "other"}]
        /\ half' \in [Timers -> BOOLEAN] /\ ~half'[timer]
    BY <1>7, <2>1 DEF WriteControl, ControlWord, Controlled, TimerInv
  <2>3. QED
    BY <1>7, <2>1, <2>2 DEF WriteControl, ControlWord, GoTo, TimerInv, InRange
<1>8. ASSUME WriteLsb PROVE TimerInv'
  <2> DEFINE b == util_get_LSB(frequency)
             c == [count[timer] EXCEPT !.lsb = b]
  <2>1. timer \in Timers /\ ~half[timer] /\ InRange /\ freq \in Nat /\ count[timer] \in Half
    BY <1>8 DEF WriteLsb, TimerInv
  <2>2. c \in Half /\ c.lsb = b
    <3>1. b \in Nat
      BY <2>1, BytesAreNat
    <3> HIDE DEF b
    <3>2. QED
      BY <2>1, <3>1 DEF Half
  <2>3. count' = [count EXCEPT ![timer] = c]
    BY <1>8, <2>1 DEF WriteLsb, CountByte
  <2> HIDE DEF c
  <2>4. count' \in [Timers -> Half] /\ count'[timer].lsb = b
    BY <2>1, <2>2, <2>3 DEF TimerInv
  <2>5. half' \in [Timers -> BOOLEAN] /\ half'[timer]
    BY Zenon, <1>8, <2>1 DEF WriteLsb, CountByte, TimerInv
  <2>6. QED
    BY <1>8, <2>4, <2>5 DEF WriteLsb, CountByte, GoTo, TimerInv, InRange, frequency
<1>9. ASSUME WriteMsb PROVE TimerInv'
  <2> DEFINE b == util_get_MSB(frequency)
             l == util_get_LSB(frequency)
             c == [count[timer] EXCEPT !.msb = b]
  <2>1. /\ timer \in Timers /\ half[timer] /\ InRange /\ freq \in Nat
        /\ count[timer] \in Half /\ count[timer].lsb = l /\ field = "none"
    BY <1>9 DEF WriteMsb, TimerInv
  <2>2. c \in Half /\ c = [lsb |-> l, msb |-> b]
    <3>1. b \in Nat /\ l \in Nat
      BY <2>1, BytesAreNat
    <3> HIDE DEF b, l
    <3>2. QED
      BY <2>1, <3>1 DEF Half
  <2>3. count' = [count EXCEPT ![timer] = c]
    BY <1>9, <2>1 DEF WriteMsb, CountByte
  <2> HIDE DEF c
  <2>4. count' \in [Timers -> Half] /\ count'[timer] = c
    BY <2>1, <2>2, <2>3 DEF TimerInv
  <2>5. half' \in [Timers -> BOOLEAN] /\ ~half'[timer]
    BY Zenon, <1>9, <2>1 DEF WriteMsb, CountByte, TimerInv
  <2>6. /\ UNCHANGED <<low, access, timer, freq, field>> /\ pc' = "idle"
        /\ InRange' = InRange /\ frequency' = frequency
    BY <1>9 DEF WriteMsb, CountByte, Return, InRange, frequency
  <2>7. QED
    BY <2>1, <2>2, <2>4, <2>5, <2>6 DEF TimerInv
<1>10. UNCHANGED timerVars => TimerInv'
  BY DEF timerVars, chip, TimerInv, InRange, frequency
<1>11. QED
  BY <1>1, <1>2, <1>3, <1>4, <1>5, <1>6, <1>7, <1>8, <1>9, <1>10 DEF TimerNext

\* No step changes the mode or the base of a timer, whichever step of this or
\* of an earlier call failed: the status that is written back was asked for.
THEOREM KeepsModeTheorem == TimerSpec => KeepsMode
<1>1. TimerInv /\ [TimerNext]_timerVars => [low' = low]_timerVars
  BY ControlKeeps DEF TimerNext, Call, timer_test_read_config, CheckArguments,
     timer_get_conf_Command, ReadBackCommand, timer_get_conf_Read, timer_display_conf,
     WriteLsb, WriteMsb, CountByte, PortError, chip, timerVars
<1>2. QED
  BY <1>1, TimerInvInit, TimerInvNext, PTL DEF TimerSpec, KeepsMode

\* A divisor is what is left of the frequency of the clock, rounded down.
LEMMA Rounded ==
    ASSUME NEW f \in Nat, f >= 19
    PROVE  /\ TIMER_FREQ \div f \in Nat /\ TIMER_FREQ \div f <= 65535
           /\ (TIMER_FREQ \div f) * f <= TIMER_FREQ
           /\ TIMER_FREQ < (TIMER_FREQ \div f + 1) * f
<1> DEFINE q == TIMER_FREQ \div f
           r == TIMER_FREQ % f
<1>1. TIMER_FREQ \in Nat /\ TIMER_FREQ <= 19 * 65535
  BY SMT DEF TIMER_FREQ
<1>2. q \in Nat /\ r \in 0 .. f - 1 /\ TIMER_FREQ = f * q + r
  BY <1>1, SMT
<1> HIDE DEF q, r
<1>3. f * q <= TIMER_FREQ /\ TIMER_FREQ < f * q + f
  BY <1>1, <1>2, SMT
<1>4. q <= 65535
  BY <1>1, <1>2, <1>3, SMT
<1>5. (q + 1) * f = f * q + f /\ q * f = f * q
  BY <1>2, SMT
<1>6. QED
  BY <1>2, <1>3, <1>4, <1>5, SMT DEF q

\* Read as decimal digits, a number is not larger than read in binary.
LEMMA FewerInBcd ==
    ASSUME NEW lsb \in 0 .. 255, NEW msb \in 0 .. 255
    PROVE  (10 * (lsb \div 16) + (lsb % 16)) + 100 * (10 * (msb \div 16) + (msb % 16))
             \in 0 .. lsb + 256 * msb
<1>1. ASSUME NEW b \in 0 .. 255 PROVE 10 * (b \div 16) + (b % 16) \in 0 .. b
  <2>1. b \div 16 \in Nat /\ b % 16 \in Nat /\ b = 16 * (b \div 16) + (b % 16)
    BY SMT
  <2>2. QED
    BY <2>1, SMT
<1> DEFINE D(b) == 10 * (b \div 16) + (b % 16)
<1>2. D(lsb) \in 0 .. lsb /\ D(msb) \in 0 .. msb
  BY <1>1
<1> HIDE DEF D
<1>3. D(lsb) + 100 * D(msb) \in 0 .. lsb + 256 * msb
  BY <1>2, SMT
<1>4. QED
  BY <1>3 DEF D

\* A call of timer_set_frequency that returns 0 has set the frequency that was
\* asked for if the timer counts in binary, and no lower one in any case, even
\* if an earlier call was broken off between the two bytes.
THEOREM SetsFrequencyTheorem == TimerSpec => []SetsFrequency
<1>1. ASSUME TimerInv PROVE SetsFrequency
  <2> SUFFICES ASSUME pc = "idle", rc = 0, field = "none"
               PROVE  /\ Divisor(timer) * freq <= TIMER_FREQ
                      /\ ~Bcd(timer) => TIMER_FREQ < (Divisor(timer) + 1) * freq
                      /\ ~half[timer]
    BY DEF SetsFrequency
  <2> DEFINE q == TIMER_FREQ \div freq
             lsb == q % 256
             msb == q \div 256
  <2>1. /\ freq \in Nat /\ freq >= 19 /\ ~half[timer]
        /\ count[timer] = [lsb |-> util_get_LSB(frequency), msb |-> util_get_MSB(frequency)]
    BY <1>1 DEF TimerInv, InRange
  <2>2. q \in Nat /\ q <= 65535 /\ q * freq <= TIMER_FREQ /\ TIMER_FREQ < (q + 1) * freq
    BY <2>1, Rounded
  <2>3. frequency = q % 65536
    BY DEF frequency
  <2> HIDE DEF q
  <2>4. frequency = q
    BY <2>2, <2>3, Bytes
  <2>5. count[timer].lsb = lsb /\ count[timer].msb = msb
    BY <2>1, <2>4 DEF util_get_LSB, util_get_MSB
  <2>6. lsb \in 0 .. 255 /\ msb \in 0 .. 255 /\ lsb + 256 * msb = q
    BY <2>2, Bytes
  <2> HIDE DEF lsb, msb
  <2>7. CASE ~Bcd(timer)
    <3>1. Divisor(timer) = q
      BY <2>5, <2>6, <2>7 DEF Divisor
    <3> QED
      BY <2>1, <2>2, <3>1
  <2>8. CASE Bcd(timer)
    <3>1. Divisor(timer) = (10 * (lsb \div 16) + (lsb % 16)) + 100 * (10 * (msb \div 16) + (msb % 16))
      BY <2>5, <2>8 DEF Divisor
    <3>2. Divisor(timer) \in 0 .. q
      <4>1. (10 * (lsb \div 16) + (lsb % 16)) + 100 * (10 * (msb \div 16) + (msb % 16))
              \in 0 .. lsb + 256 * msb
        BY Zenon, <2>6, FewerInBcd
      <4>2. Divisor(timer) \in 0 .. lsb + 256 * msb
        BY Zenon, <3>1, <4>1
      <4> QED
        BY Zenon, <2>6, <4>2
    <3>3. Divisor(timer) * freq <= q * freq /\ Divisor(timer) * freq \in Nat /\ q * freq \in Nat
      BY <2>1, <2>2, <3>2, SMT
    <3>4. TIMER_FREQ \in Nat
      BY DEF TIMER_FREQ
    <3> QED
      BY <2>1, <2>2, <2>8, <3>3, <3>4
  <2>9. QED
    BY <2>7, <2>8
<1>2. QED
  BY <1>1, TimerInvInit, TimerInvNext, PTL DEF TimerSpec

===============================================================================
