------------------------------ MODULE LabsProofs ------------------------------
(***************************************************************************)
(* The lab programs, for every argument n, whatever aux_counter starts     *)
(* with and however often the controller is asked.                         *)
(***************************************************************************)
EXTENDS Labs, TLAPS

-------------------------------------------------------------------------------
(***************************************************************************)
(* kbd_test_poll.                                                          *)
(***************************************************************************)

(***************************************************************************)
(* Where the bytes to and from the controller are.  After READ_COMMAND the *)
(* answer is on its way or is the byte in OUT_BUF, which nobody reads      *)
(* before readcommand does; WRITE_COMMAND is in the input buffer or taken  *)
(* when its argument is written.                                           *)
(***************************************************************************)
PollInv ==
    /\ test # "poll" => /\ inBuf = "empty" /\ enabled /\ otherBits = "own"
                        /\ pc \in {"start", "loop", "end", "returned"}
    /\ test = "poll" /\ rc = 0 => pc = "returned" /\ inBuf \in {"empty", "on"}
    /\ inBuf \in {"empty", "READ_COMMAND", "WRITE_COMMAND", "on"}
    /\ inBuf = "on" => pc = "returned" /\ rc = 0 /\ (awaits \/ overrun)
    /\ pc \in {"ask", "take"} => ~unread
    /\ pc = "take" => inBuf = "READ_COMMAND" \/ answer \/ (obf /\ outBuf = "config")
    /\ pc = "argument" => inBuf = "WRITE_COMMAND" \/ (inBuf = "empty" /\ awaits)
    /\ pc \in {"writecommand", "command", "argument"} \/ (test = "poll" /\ rc = 0)
         => commandByte = "config" \/ raced
    /\ test = "poll" /\ rc = 0 /\ inBuf = "empty" => enabled \/ overrun
    /\ otherBits # "own" => raced /\ test = "poll" /\ rc = 0

LEMMA PollInvInit == Init => PollInv
BY DEF Init, ProgramInit, DeviceInit, PollInv

\* The other tests do not touch the controller.
LEMMA PollInvTest == PollInv /\ InTest(LabNext) => PollInv'
<1>1. LabNext => test' = test /\ pc' \in {pc, "loop", "end", "returned"}
  <2>1. MouseError \/ MouseMessage \/ MouseStale \/ Silent => UNCHANGED <<test, pc>>
    BY DEF MouseError, MouseMessage, MouseByte, MouseStale, Silent, labVars
  <2>2. QED
    BY SMTT(30), <2>1 DEF LabNext, Start, Fail, TimerInt, TimerMessage, KeyboardMessage,
       PrefixMessage, Key, TimedKey, TimedKeyAndTick, Leave, End, Gone, labVars
<1>2. QED
  BY <1>1 DEF InTest, PollInv, deviceVars, commandVars, outputVars, inputVars, configVars

\* kbd_test_poll, the controller and the keyboard.
LEMMA PollInvPoll == PollInv /\ InPoll(PollNext) => PollInv'
<1> SUFFICES ASSUME PollInv, test = "poll", PollNext PROVE PollInv'
  BY DEF InPoll
<1> USE DEF PollInv, GoTo, commandVars, outputVars, inputVars, configVars, scanVars
<1>1. CASE lcf_start
  BY SMTT(30), <1>1 DEF lcf_start
<1>2. CASE kbd_test_poll
  <2>1. CASE PollStatus \/ LeavePoll
    BY <2>1 DEF PollStatus, LeavePoll
  <2>2. CASE kbc_ih_status \/ kbc_ih_read
    BY <2>2 DEF kbc_ih_status, kbc_ih_read, Handle, ReadOutBuf
  <2>3. CASE Wait("readcommand", "ask") \/ Wait("writecommand", "command")
    BY <2>3 DEF Wait, Busy, Return
  <2>4. CASE readcommand_Ask \/ writecommand_Command
    BY <2>4 DEF readcommand_Ask, writecommand_Command
  <2>5. CASE readcommand_Take
    BY Zenon, <2>5 DEF readcommand_Take, ReadOutBuf
  <2>6. CASE writecommand_Argument
    BY Zenon, <2>6 DEF writecommand_Argument, WithEnableKbd, Return
  <2>7. QED
    BY <1>2, <2>1, <2>2, <2>3, <2>4, <2>5, <2>6 DEF kbd_test_poll, kbd_reenable_int
<1>3. CASE PortError
  BY <1>3 DEF PortError, Return
<1>4. CASE kbc_ih_PortError
  BY <1>4 DEF kbc_ih_PortError, Handle
<1>5. CASE SendAnswer
  BY <1>5 DEF SendAnswer
<1>6. CASE TakeInput
  <2>1. CASE inBuf \in {"READ_COMMAND", "WRITE_COMMAND"}
    BY <1>6, <2>1 DEF TakeInput
  <2>2. CASE inBuf = "on"
    <3>1. ~awaits => overrun
      BY <2>2
    <3>2. awaits => enabled'
      BY <1>6, <2>2, Zenon DEF TakeInput
    <3>3. otherBits' # "own" => otherBits # "own" \/ commandByte # "config"
      BY <1>6, <2>2 DEF TakeInput
    <3>4. QED
      BY <1>6, <2>2, <3>1, <3>2, <3>3 DEF TakeInput
  <2>3. QED
    BY <1>6, <2>1, <2>2 DEF TakeInput
<1>7. ASSUME NEW code, KeyboardSends(code) PROVE PollInv'
  BY <1>7 DEF KeyboardSends
<1>8. CASE Returned
  BY <1>8 DEF Returned, pollVars, programVars, deviceVars
<1>9. QED
  BY Zenon, <1>1, <1>2, <1>3, <1>4, <1>5, <1>6, <1>7, <1>8 DEF PollNext, Controller

LEMMA PollInvAlways == LabsSpec => []PollInv
<1>1. UNCHANGED allVars /\ PollInv => PollInv'
  BY DEF allVars, programVars, deviceVars, PollInv, commandVars, outputVars, inputVars, configVars
<1>2. QED
  BY <1>1, PollInvInit, PollInvTest, PollInvPoll, PTL DEF LabsSpec, Next

\* When kbd_test_poll has returned 0 the keyboard interrupts again as soon as
\* the controller has taken its bytes, whatever readcommand took for the command
\* byte, unless the second byte of writecommand came too soon.
THEOREM ReenabledTheorem == Spec => []Reenabled
<1>1. PollInv => Reenabled
  BY DEF PollInv, Reenabled
<1>2. QED
  BY <1>1, PollInvAlways, PTL DEF Spec

\* The other bits of the command byte are lost only to a byte that came after
\* readcommand had looked at the status.
THEOREM BitsKeptTheorem == Spec => []BitsKept
<1>1. PollInv => BitsKept
  BY SMTT(30) DEF PollInv, BitsKept
<1>2. QED
  BY <1>1, PollInvAlways, PTL DEF Spec

-------------------------------------------------------------------------------
(***************************************************************************)
(* How kbd_test_poll comes to its end, and how it does not.                *)
(***************************************************************************)

Reenabling == pc \in {"readcommand", "ask", "take", "writecommand", "command", "argument"}

\* Accesses to the controller that are left to kbd_reenable_int at most.
Accesses ==
    CASE pc = "readcommand"  -> tries + MaxTries + 4
      [] pc = "ask"          -> MaxTries + 4
      [] pc = "take"         -> MaxTries + 3
      [] pc = "writecommand" -> tries + 2
      [] pc = "command"      -> 2
      [] pc = "argument"     -> 1
      [] OTHER               -> 0

\* Every access kbd_reenable_int makes is one less that is left, and nothing the
\* controller or the keyboard do in between makes them more.
AccessesSpent ==
    [][ test = "poll" /\ Reenabling =>
          /\ Accesses' <= Accesses
          /\ InPoll(kbd_test_poll) => Accesses' < Accesses ]_allVars

\* A try is left as long as the status is looked at.
TriesInv == pc \in {"readcommand", "writecommand"} => tries \in 1 .. MaxTries

\* What the steps of kbd_test_poll leave of the tries and the accesses.
LEMMA AccessesStep ==
    ASSUME TriesInv, PollNext
    PROVE  /\ TriesInv'
           /\ Reenabling => /\ Accesses' <= Accesses
                            /\ kbd_test_poll => Accesses' < Accesses
           /\ Accesses' <= 2 * MaxTries + 4
<1> USE TriesAssumption DEF TriesInv, Reenabling, Accesses, GoTo, commandVars
<1>1. CASE lcf_start
  BY <1>1 DEF lcf_start, kbd_test_poll, PollStatus, kbc_ih_status, kbc_ih_read, LeavePoll,
     kbd_reenable_int, Wait, readcommand_Ask, readcommand_Take, writecommand_Command,
     writecommand_Argument
<1>2. CASE PollStatus \/ LeavePoll \/ kbc_ih_status \/ kbc_ih_read \/ kbc_ih_PortError
  BY <1>2 DEF PollStatus, LeavePoll, kbc_ih_status, kbc_ih_read, kbc_ih_PortError, Handle
<1>3. CASE Wait("readcommand", "ask")
  BY <1>3 DEF Wait, Fewer, Return
<1>4. CASE Wait("writecommand", "command")
  BY <1>4 DEF Wait, Fewer, Return
<1>5. CASE readcommand_Ask \/ readcommand_Take
  BY <1>5 DEF readcommand_Ask, readcommand_Take
<1>6. CASE writecommand_Command \/ writecommand_Argument
  BY <1>6 DEF writecommand_Command, writecommand_Argument, Return
<1>7. ASSUME ~kbd_test_poll, UNCHANGED <<pc, tries>> \/ pc' = "returned"
      PROVE  /\ TriesInv'
             /\ Reenabling => /\ Accesses' <= Accesses
                              /\ kbd_test_poll => Accesses' < Accesses
             /\ Accesses' <= 2 * MaxTries + 4
  BY <1>7
<1>8. ~kbd_test_poll => lcf_start \/ kbc_ih_PortError \/ UNCHANGED <<pc, tries>> \/ pc' = "returned"
  BY DEF PollNext, PortError, Return, Controller, TakeInput, SendAnswer, KeyboardSends, Returned,
     pollVars, programVars, deviceVars
<1>9. QED
  BY Zenon, <1>1, <1>2, <1>3, <1>4, <1>5, <1>6, <1>7, <1>8 DEF kbd_test_poll, kbd_reenable_int

LEMMA TriesAlways == LabsSpec => [](TriesInv /\ Accesses <= 2 * MaxTries + 4)
<1> DEFINE Inv == TriesInv /\ Accesses <= 2 * MaxTries + 4
<1>1. Init => Inv
  BY TriesAssumption DEF Init, ProgramInit, TriesInv, Accesses
<1>2. Inv /\ InPoll(PollNext) => Inv'
  BY AccessesStep DEF InPoll
<1>3. PollInv /\ InTest(LabNext) => Inv'
  <2>1. PollInv /\ InTest(LabNext) => pc' \in {"start", "loop", "end", "returned"}
    BY DEF PollInv, InTest, LabNext, Start, Fail, TimerInt, TimerMessage, KeyboardMessage,
       PrefixMessage, Key, TimedKey, TimedKeyAndTick, MouseError, MouseMessage, MouseByte,
       MouseStale, Silent, Leave,
       End, Gone, labVars
  <2>2. QED
    BY <2>1, TriesAssumption DEF TriesInv, Accesses
<1>4. Inv /\ UNCHANGED allVars => Inv'
  BY DEF allVars, programVars, deviceVars, commandVars, TriesInv, Accesses
<1>5. QED
  BY <1>1, <1>2, <1>3, <1>4, PollInvAlways, PTL DEF LabsSpec, Next

\* Once ESC has been read, kbd_test_poll is at its end after at most
\* 2 MaxTries + 4 accesses to the controller, 24 in the code, whatever the
\* controller and the keyboard do meanwhile.
THEOREM AccessesTheorem == Spec => [](Accesses <= 2 * MaxTries + 4) /\ AccessesSpent
<1>1. TriesInv /\ [Next]_allVars =>
        [ test = "poll" /\ Reenabling =>
            /\ Accesses' <= Accesses
            /\ InPoll(kbd_test_poll) => Accesses' < Accesses ]_allVars
  <2> SUFFICES ASSUME TriesInv, Next, test = "poll", Reenabling
               PROVE  /\ Accesses' <= Accesses
                      /\ InPoll(kbd_test_poll) => Accesses' < Accesses
    OBVIOUS
  <2>1. PollNext
    BY DEF Next, InTest, InPoll
  <2>2. QED
    BY <2>1, AccessesStep DEF InPoll
<1>2. QED
  BY <1>1, TriesAlways, PTL DEF Spec, LabsSpec, AccessesSpent

\* The loop is about to look at the status while there is a byte to read, and
\* goes on without it: "(statuscode & (OBF_BIT | AUX_BIT)) != 0".
Spinning == test = "poll" /\ pc = "poll" /\ scancode # "esc" /\ obf

Failed == test = "poll" /\ pc = "returned" /\ rc = 1

\* Once the loop of kbd_test_poll looks at the status while there is a byte in
\* the buffer, it never does anything else: the byte is not read, so no other
\* arrives, and only a port access that fails ends the test, with an error.
THEOREM SpinsTheorem == Spec => [](Spinning => [](Spinning \/ Failed))
<1>1. ASSUME Spinning, Next PROVE Spinning' \/ Failed'
  <2>1. test = "poll" /\ PollNext
    BY <1>1 DEF Spinning, Next, InTest, InPoll
  <2>2. CASE PortError
    BY <1>1, <2>2 DEF Spinning, Failed, PortError, Return
  <2>3. CASE PollStatus
    BY <1>1, <2>3 DEF Spinning, PollStatus, GoTo, scanVars, outputVars
  <2>4. CASE TakeInput
    BY <1>1, <2>4 DEF Spinning, TakeInput, scanVars, outputVars
  <2>5. CASE Returned
    BY <1>1, <2>5 DEF Spinning, Returned
  <2>6. ~(lcf_start \/ kbc_ih_PortError \/ SendAnswer \/ \E code : KeyboardSends(code))
    BY <1>1 DEF Spinning, lcf_start, kbc_ih_PortError, SendAnswer, KeyboardSends
  <2>7. ~(kbc_ih_status \/ kbc_ih_read \/ LeavePoll \/ kbd_reenable_int)
    BY <1>1 DEF Spinning, kbc_ih_status, kbc_ih_read, LeavePoll, kbd_reenable_int, Wait,
       readcommand_Ask, readcommand_Take, writecommand_Command, writecommand_Argument
  <2>8. QED
    BY <2>1, <2>2, <2>3, <2>4, <2>5, <2>6, <2>7 DEF PollNext, kbd_test_poll, Controller
<1>2. ASSUME Failed, Next PROVE Failed'
  <2>1. test = "poll" /\ PollNext
    BY <1>2 DEF Failed, Next, InTest, InPoll
  <2>2. UNCHANGED <<test, pc, rc>>
    BY <1>2, <2>1 DEF Failed, PollNext, lcf_start, kbd_test_poll, PollStatus, kbc_ih_status,
       kbc_ih_read, LeavePoll, kbd_reenable_int, Wait, readcommand_Ask, readcommand_Take,
       writecommand_Command, writecommand_Argument, PortError, kbc_ih_PortError, Controller,
       TakeInput, SendAnswer, KeyboardSends, Returned, pollVars, programVars
  <2>3. QED
    BY <1>2, <2>2 DEF Failed
<1>3. UNCHANGED allVars => (Spinning => Spinning') /\ (Failed => Failed')
  BY DEF allVars, programVars, deviceVars, outputVars, Spinning, Failed
<1>4. QED
  BY <1>1, <1>2, <1>3, PTL DEF Spec, LabsSpec

-------------------------------------------------------------------------------
(***************************************************************************)
(* The tests with interrupts.                                              *)
(***************************************************************************)

\* size tells whether the last byte was the first of two.
KeyInv ==
    /\ size = (IF scancode = "prefix" THEN 2 ELSE 1)
    /\ test = "poll" => ~used
    /\ PrintsWhole

\* Without an error the test is at the byte the mouse is at.  After the first
\* one it stores nothing any more, not even what would complete a packet; after
\* a read of OUT_BUF that failed nothing comes.
PacketInv ==
    /\ position \in 1 .. 3
    /\ currenByte \in 1 .. 3
    /\ ~ih_error /\ ~stuck => ~torn /\ currenByte = position
    /\ currenByte = 1 /\ ~stuck => ~torn

\* aux_counter counts the seconds that have begun since the last key, and goes
\* no further than the first interrupt after n of them.
IdleInv ==
    test = "timed_scan" /\ used =>
        /\ idle \in Nat
        /\ timer_counter = idle
        /\ aux_counter = (idle + 59) \div 60
        /\ idle <= 60 * n + 1
        /\ pc = "end" /\ scancode # "esc" => idle = 60 * n + 1

LabInv == KeyInv /\ PacketInv /\ IdleInv

LEMMA LabInvInit == Init => LabInv
BY DEF Init, ProgramInit, OwnInit, KeyboardInit, MouseInit, LabInv, KeyInv, PacketInv, IdleInv,
   PrintsWhole

\* The first interrupt of a second counts it.
LEMMA SecondBegins ==
  ASSUME NEW ticks \in Nat
  PROVE  (IF ticks % 60 = 0 THEN (ticks + 59) \div 60 + 1 ELSE (ticks + 59) \div 60)
           = (ticks + 1 + 59) \div 60
OBVIOUS

\* n seconds have not passed while aux_counter is at most n.
LEMMA SecondsLeft ==
  ASSUME NEW ticks \in Nat
  PROVE  (ticks + 59) \div 60 <= n <=> ticks <= 60 * n
BY LabAssumption

LEMMA KeyNext == KeyInv /\ Next => KeyInv'
<1> SUFFICES ASSUME KeyInv, Next PROVE KeyInv'
  OBVIOUS
<1> USE DEF KeyInv, PrintsWhole, twoBytes
<1>1. CASE InTest(LabNext)
  <2>1. CASE Start \/ Fail \/ TimerInt \/ TimerMessage \/ MouseError \/ MouseMessage
             \/ MouseStale \/ Silent \/ Leave \/ End \/ Gone
    <3>1. UNCHANGED <<test, keyVars>>
      BY Zenon, <2>1 DEF Start, Fail, TimerInt, TimerMessage, MouseError, MouseMessage, MouseByte,
         MouseStale, Silent, Leave, End, Gone, labVars
    <3>2. QED
      BY <3>1 DEF keyVars
  <2>2. CASE PrefixMessage
    BY <2>2 DEF PrefixMessage, kbc_ih
  <2>3. ASSUME NEW code, Key(code) \/ TimedKey(code) \/ TimedKeyAndTick(code) PROVE KeyInv'
    BY <1>1, <2>3 DEF InTest, Key, TimedKey, TimedKeyAndTick, PrintCode, kbc_ih, SizeAfter
  <2>4. QED
    BY <1>1, <2>1, <2>2, <2>3 DEF InTest, LabNext, KeyboardMessage
<1>2. CASE InPoll(PollNext)
  <2>1. size' = (IF scancode' = "prefix" THEN 2 ELSE 1)
    BY SMTT(30), <1>2 DEF InPoll, PollNext, lcf_start, kbd_test_poll, PollStatus, kbc_ih_status, kbc_ih_read,
       LeavePoll, Handle, kbd_reenable_int, Wait, readcommand_Ask, readcommand_Take,
       writecommand_Command, writecommand_Argument, PortError, kbc_ih_PortError, Controller,
       TakeInput, SendAnswer, KeyboardSends, Returned, pollVars, programVars, scanVars
  <2>2. test' = test
    BY <1>2 DEF InPoll, PollNext, lcf_start, kbd_test_poll, PollStatus, kbc_ih_status, kbc_ih_read,
       LeavePoll, Handle, kbd_reenable_int, Wait, readcommand_Ask, readcommand_Take,
       writecommand_Command, writecommand_Argument, PortError, kbc_ih_PortError, Controller,
       TakeInput, SendAnswer, KeyboardSends, Returned, pollVars, programVars, GoTo, Return
  <2>3. QED
    BY SMTT(30), <1>2, <2>1, <2>2 DEF InPoll, ownVars
<1>3. QED
  BY <1>1, <1>2 DEF Next

LEMMA PacketNext == PacketInv /\ Next => PacketInv'
<1> SUFFICES ASSUME PacketInv, Next PROVE PacketInv'
  OBVIOUS
<1> USE DEF PacketInv
<1>1. CASE InTest(LabNext)
  <2>1. CASE Start \/ Fail \/ TimerInt \/ TimerMessage \/ KeyboardMessage \/ Silent \/ Leave
             \/ End \/ Gone
    BY <2>1 DEF Start, Fail, TimerInt, TimerMessage, KeyboardMessage, PrefixMessage, Key, TimedKey,
       TimedKeyAndTick, Silent, Leave, End, Gone, labVars, mouseVars
  <2>2. CASE MouseError
    <3>1. currenByte = 1 => ~torn'
      BY <2>2, Zenon DEF MouseError, Interrupted
    <3>2. QED
      BY <2>2, <3>1 DEF MouseError, Sent
  <2>3. ASSUME NEW bit3, MouseByte(bit3) PROVE PacketInv'
    <3>1. ~stuck /\ UNCHANGED <<ih_error, stuck>>
      BY <2>3 DEF MouseByte, Interrupted
    <3>2. CASE Stored(bit3)
      <4>1. currenByte # 1 => torn' = torn
        BY <2>3, <3>2 DEF MouseByte, Store
      <4>2. currenByte = 1 => position = 1 /\ torn' = (position # 1)
        BY <2>3, <3>1, <3>2 DEF MouseByte, Store, Stored
      <4>3. ~torn'
        BY <3>1, <3>2, <4>1, <4>2, Zenon DEF Stored
      <4>4. QED
        BY <2>3, <3>1, <3>2, <4>3 DEF MouseByte, Store, Sent, Stored
    <3>3. CASE ~Stored(bit3)
      BY <2>3, <3>1, <3>3 DEF MouseByte, Store, Sent, Stored
    <3>4. QED
      BY <3>2, <3>3
  <2>4. CASE MouseStale
    <3>1. stuck' = TRUE /\ position' = position
      BY <2>4 DEF MouseStale
    <3>2. currenByte' \in 1 .. 3
      BY <2>4 DEF MouseStale, Store
    <3>3. QED
      BY Zenon, <3>1, <3>2
  <2>5. QED
    BY <1>1, <2>1, <2>2, <2>3, <2>4 DEF InTest, LabNext, MouseMessage
<1>2. CASE InPoll(PollNext)
  BY <1>2 DEF InPoll, ownVars, mouseVars
<1>3. QED
  BY <1>1, <1>2 DEF Next


LEMMA IdleNext == KeyInv /\ IdleInv /\ Next => IdleInv'
<1> SUFFICES ASSUME KeyInv, IdleInv, Next PROVE IdleInv'
  OBVIOUS
<1>n. n \in Nat
  BY LabAssumption
<1>1. CASE InTest(LabNext)
  <2> USE <1>n DEF IdleInv
  <2>1. CASE Start \/ Fail \/ End \/ Gone \/ MouseError \/ MouseMessage \/ MouseStale \/ Silent
             \/ PrefixMessage
    BY Zenon, <2>1 DEF Start, Fail, End, Gone, MouseError, MouseMessage, MouseByte,
       MouseStale, Silent, PrefixMessage, InLoop,
       labVars, keyVars, timerVars, idleVars
  <2>2. CASE Leave
    <3> SUFFICES ASSUME test = "timed_scan", used PROVE IdleInv'
      BY <2>2 DEF Leave, keyVars
    <3>1. scancode # "esc" => ~(aux_counter <= n)
      BY <2>2 DEF Leave, Looping
    <3>2. scancode # "esc" => idle = 60 * n + 1
      BY <3>1, SecondsLeft
    <3>3. QED
      BY <2>2, <3>2 DEF Leave, keyVars, timerVars, idleVars
  <2>3. CASE TimerMessage
    <3> SUFFICES ASSUME used PROVE IdleInv'
      BY <2>3 DEF TimerMessage, keyVars
    <3>1. test = "timed_scan" /\ aux_counter <= n
      BY <2>3 DEF TimerMessage, InLoop, Looping
    <3>2. idle <= 60 * n
      BY <3>1, SecondsLeft
    <3>3. aux_counter' = (idle + 1 + 59) \div 60
      BY <2>3, <3>1, SecondBegins DEF TimerMessage, Tick, Second
    <3>4. QED
      BY <2>3, <3>1, <3>2, <3>3 DEF TimerMessage, Tick, InLoop, timer_int_handler
  <2>4. ASSUME NEW code, Key(code) \/ TimedKey(code) PROVE IdleInv'
    BY <2>4 DEF Key, TimedKey, InLoop, Reset
  <2>5. ASSUME NEW code, TimedKeyAndTick(code) PROVE IdleInv'
    <3>1. idle' = 1 /\ timer_counter' = 1 /\ aux_counter' = 1
      BY <2>5 DEF TimedKeyAndTick, Tick, Reset, Second, timer_int_handler
    <3>2. QED
      BY <2>5, <3>1 DEF TimedKeyAndTick, InLoop
  <2>6. CASE TimerInt
    BY <2>6 DEF TimerInt, InLoop
  <2>7. QED
    BY <1>1, <2>1, <2>2, <2>3, <2>4, <2>5, <2>6 DEF InTest, LabNext, KeyboardMessage
<1>2. CASE InPoll(PollNext)
  <2>1. ~used'
    BY <1>2 DEF InPoll, ownVars, KeyInv
  <2>2. QED
    BY <2>1 DEF IdleInv
<1>3. QED
  BY <1>1, <1>2 DEF Next

LEMMA LabInvAlways == LabsSpec => []LabInv
<1>1. UNCHANGED allVars /\ LabInv => LabInv'
  BY DEF allVars, programVars, ownVars, timerVars, idleVars, mouseVars, LabInv, KeyInv, PacketInv,
     IdleInv, PrintsWhole
<1>2. LabInv /\ Next => LabInv'
  BY KeyNext, PacketNext, IdleNext DEF LabInv
<1>3. QED
  BY <1>1, <1>2, LabInvInit, PTL DEF LabsSpec

\* A scan code is printed with two bytes if and only if 0xE0 came before it.
THEOREM PrintsWholeTheorem == Spec => []PrintsWhole
<1>1. LabInv => PrintsWhole
  BY DEF LabInv, KeyInv
<1>2. QED
  BY <1>1, LabInvAlways, PTL DEF Spec

\* mouse_test_packet prints no packet made of bytes of several packets, but for
\* one that a failed read of OUT_BUF, after which the mouse is silent, completes.
THEOREM NoTornPacketTheorem == Spec => []NoTornPacket
<1>1. LabInv => NoTornPacket
  BY DEF LabInv, PacketInv, NoTornPacket
<1>2. QED
  BY <1>1, LabInvAlways, PTL DEF Spec

\* kbd_test_timed_scan, once a key was used, is left without ESC with the first
\* interrupt after n seconds, for every n.
THEOREM TimesOutTheorem == Spec => []TimesOut
<1>1. LabInv => TimesOut
  BY DEF LabInv, IdleInv, TimesOut
<1>2. QED
  BY <1>1, LabInvAlways, PTL DEF Spec

-------------------------------------------------------------------------------
(***************************************************************************)
(* How long the tests with interrupts run, and what they have shown then.  *)
(***************************************************************************)

\* The interrupts counted by timer_test_int are those it has seen, and it is left
\* with the last one of its last second.
TimeInv ==
    test = "timer_int" =>
        /\ timer_counter \in 0 .. 60 * n
        /\ shown = timer_counter \div 60
        /\ pc = "end" \/ rc = 0 => timer_counter = 60 * n

\* Every packet is one less to come.
CountInv ==
    test = "packet" =>
        /\ cnt \in 0 .. n
        /\ shown = n - cnt
        /\ pc = "end" \/ rc = 0 => cnt = 0

\* Before the first key aux_counter may be too large already, but not too small.
WaitInv ==
    test = "timed_scan" =>
        /\ idle \in Nat
        /\ timer_counter = idle
        /\ aux_counter \in Nat
        /\ (idle + 59) \div 60 <= aux_counter
        /\ idle <= 60 * n + 1

LengthInv == TimeInv /\ CountInv /\ WaitInv

\* kbd_test_timed_scan waits for a key at most n seconds and one interrupt, from
\* the start or from the last key, whatever aux_counter started with.
Deadline ==
    test = "timed_scan" =>
        /\ idle <= 60 * n + 1
        /\ InLoop("timed_scan") => idle <= 60 * n

\* timer_test_int and mouse_test_packet have printed one line for each of the n
\* seconds or packets they were asked for when they return without an error.
AllShown == test \in {"timer_int", "packet"} /\ rc = 0 => shown = n

LEMMA LengthInvInit == Init => LengthInv
BY LabAssumption
   DEF Init, ProgramInit, OwnInit, KeyboardInit, MouseInit, LengthInv, TimeInv, CountInv, WaitInv

\* A second more has passed if and only if the counter has reached a multiple.
LEMMA WholeSeconds ==
  ASSUME NEW ticks \in Nat
  PROVE  (ticks + 1) \div 60
           = (IF (ticks + 1) % 60 = 0 THEN ticks \div 60 + 1 ELSE ticks \div 60)
OBVIOUS

LEMMA TimeNext == TimeInv /\ InTest(LabNext) => TimeInv'
<1> SUFFICES ASSUME TimeInv, LabNext, test = "timer_int" PROVE TimeInv'
  <2>1. LabNext => test' = test
    BY Zenon DEF LabNext, Start, Fail, TimerInt, TimerMessage, KeyboardMessage, PrefixMessage, Key,
       TimedKey, TimedKeyAndTick, MouseError, MouseMessage, MouseByte,
       MouseStale, Silent, Leave, End, Gone, labVars
  <2>2. QED
    BY SMTT(30), <2>1 DEF InTest, TimeInv
<1>n. n \in Nat
  BY LabAssumption
<1>1. CASE TimerInt
  <2>1. pc = "loop" /\ timer_counter < n * 60
    BY <1>1 DEF TimerInt, InLoop, Looping
  <2>2. shown' = (timer_counter + 1) \div 60
    BY <1>1, WholeSeconds DEF TimerInt, PrintsTime, Second, timer_int_handler, TimeInv
  <2>3. rc # 0
    BY <2>1, <1>n DEF TimeInv
  <2>4. QED
    BY <1>1, <1>n, <2>1, <2>2, <2>3 DEF TimerInt, timer_int_handler, TimeInv
<1>2. CASE Leave
  <2>1. ~(timer_counter < n * 60)
    BY <1>2 DEF Leave, Looping
  <2>2. QED
    BY <1>2, <1>n, <2>1 DEF Leave, TimeInv, timerVars
<1>3. CASE Start \/ Fail \/ End \/ Gone
  BY <1>3 DEF Start, Fail, End, Gone, labVars, timerVars, TimeInv
<1>4. ~(TimerMessage \/ KeyboardMessage \/ MouseError \/ MouseMessage \/ MouseStale \/ Silent)
  BY DEF TimerMessage, KeyboardMessage, PrefixMessage, Key, TimedKey, TimedKeyAndTick, MouseError,
     MouseMessage, MouseByte, MouseStale, Silent, Interrupted, InLoop
<1>5. QED
  BY <1>1, <1>2, <1>3, <1>4 DEF LabNext

LEMMA CountNext == CountInv /\ InTest(LabNext) => CountInv'
<1> SUFFICES ASSUME CountInv, LabNext, test = "packet" PROVE CountInv'
  <2>1. LabNext => test' = test
    BY Zenon DEF LabNext, Start, Fail, TimerInt, TimerMessage, KeyboardMessage, PrefixMessage, Key,
       TimedKey, TimedKeyAndTick, MouseError, MouseMessage, MouseByte,
       MouseStale, Silent, Leave, End, Gone, labVars
  <2>2. QED
    BY SMTT(30), <2>1 DEF InTest, CountInv
<1>n. n \in Nat
  BY LabAssumption
<1>1. ASSUME NEW bit3, NEW mixed, Interrupted, Store(bit3, mixed), UNCHANGED <<test, pc, rc>>
      PROVE  CountInv'
  <2>1. pc = "loop" /\ cnt > 0
    BY <1>1 DEF Interrupted, InLoop, Looping
  <2>2. UNCHANGED <<cnt, shown>> \/ (cnt' = cnt - 1 /\ shown' = shown + 1)
    BY <1>1 DEF Store
  <2>3. QED
    BY <1>1, <1>n, <2>1, <2>2 DEF CountInv
<1>2. CASE MouseError
  BY <1>2 DEF MouseError, CountInv, timerVars
<1>3. CASE Leave
  <2>1. ~(cnt > 0)
    BY <1>3 DEF Leave, Looping
  <2>2. QED
    BY <1>3, <1>n, <2>1 DEF Leave, CountInv, timerVars, mouseVars
<1>4. CASE Start \/ Fail \/ Silent \/ End \/ Gone
  BY <1>4 DEF Start, Fail, Silent, End, Gone, labVars, timerVars, mouseVars, CountInv
<1>5. ~(TimerInt \/ TimerMessage \/ KeyboardMessage)
  BY DEF TimerInt, TimerMessage, KeyboardMessage, PrefixMessage, Key, TimedKey, TimedKeyAndTick,
     InLoop
<1>6. CASE MouseStale \/ MouseMessage
  BY <1>1, <1>6 DEF MouseStale, MouseMessage, MouseByte
<1>7. QED
  BY <1>2, <1>3, <1>4, <1>5, <1>6 DEF LabNext

LEMMA WaitNext == WaitInv /\ InTest(LabNext) => WaitInv'
<1> SUFFICES ASSUME WaitInv, LabNext, test = "timed_scan" PROVE WaitInv'
  <2>1. LabNext => test' = test
    BY Zenon DEF LabNext, Start, Fail, TimerInt, TimerMessage, KeyboardMessage, PrefixMessage, Key,
       TimedKey, TimedKeyAndTick, MouseError, MouseMessage, MouseByte,
       MouseStale, Silent, Leave, End, Gone, labVars
  <2>2. QED
    BY SMTT(30), <2>1 DEF InTest, WaitInv
<1>n. n \in Nat
  BY LabAssumption
<1>1. CASE TimerMessage
  <2>1. aux_counter <= n
    BY <1>1 DEF TimerMessage, InLoop, Looping
  <2>2. idle <= 60 * n
    BY <1>n, <2>1, SecondsLeft DEF WaitInv
  <2>3. aux_counter' \in Nat /\ (idle + 1 + 59) \div 60 <= aux_counter'
    BY <1>1, SecondBegins DEF TimerMessage, Tick, Second, WaitInv
  <2>4. QED
    BY <1>1, <1>n, <2>2, <2>3 DEF TimerMessage, Tick, timer_int_handler, WaitInv
<1>2. ASSUME NEW code, TimedKey(code) PROVE WaitInv'
  BY <1>2, <1>n DEF TimedKey, Reset, WaitInv
<1>3. ASSUME NEW code, TimedKeyAndTick(code) PROVE WaitInv'
  <2>1. idle' = 1 /\ timer_counter' = 1 /\ aux_counter' = 1
    BY <1>3 DEF TimedKeyAndTick, Tick, Reset, Second, timer_int_handler
  <2>2. QED
    BY <1>n, <2>1 DEF WaitInv
<1>4. CASE Start \/ Fail \/ Leave \/ End \/ Gone \/ PrefixMessage
  BY <1>4 DEF Start, Fail, Leave, End, Gone, PrefixMessage, labVars, timerVars, idleVars, WaitInv
<1>5. ~(TimerInt \/ MouseError \/ MouseMessage \/ MouseStale \/ Silent
        \/ \E code \in Codes : Key(code))
  BY DEF TimerInt, MouseError, MouseMessage, MouseByte, MouseStale, Silent, Interrupted, Key, InLoop
<1>6. QED
  BY <1>1, <1>2, <1>3, <1>4, <1>5 DEF LabNext, KeyboardMessage

LEMMA LengthInvAlways == LabsSpec => []LengthInv
<1>1. LengthInv /\ InTest(LabNext) => LengthInv'
  BY TimeNext, CountNext, WaitNext DEF LengthInv
<1>2. InPoll(PollNext) => LengthInv'
  <2>1. InPoll(PollNext) => test' = "poll"
    BY Zenon DEF InPoll, PollNext, lcf_start, kbd_test_poll, PollStatus, kbc_ih_status, kbc_ih_read,
       LeavePoll, Handle, kbd_reenable_int, Wait, readcommand_Ask, readcommand_Take,
       writecommand_Command, writecommand_Argument, PortError, kbc_ih_PortError, Controller,
       TakeInput, SendAnswer, KeyboardSends, Returned, pollVars, programVars, GoTo, Return
  <2>2. QED
    BY SMTT(30), <2>1 DEF LengthInv, TimeInv, CountInv, WaitInv
<1>3. LengthInv /\ UNCHANGED allVars => LengthInv'
  BY DEF allVars, programVars, ownVars, timerVars, idleVars, mouseVars, LengthInv, TimeInv,
     CountInv, WaitInv
<1>4. QED
  BY <1>1, <1>2, <1>3, LengthInvInit, PTL DEF LabsSpec, Next

\* timer_test_int and mouse_test_packet print exactly the n lines they were asked
\* for, for every n: none is lost to the order of counting and testing.
THEOREM AllShownTheorem == Spec => []AllShown
<1>1. LengthInv => AllShown
  BY LabAssumption DEF LengthInv, TimeInv, CountInv, AllShown
<1>2. QED
  BY <1>1, LengthInvAlways, PTL DEF Spec

\* kbd_test_timed_scan never waits longer than n seconds and one interrupt for a
\* key, for every n and whatever aux_counter starts with.
THEOREM DeadlineTheorem == Spec => []Deadline
<1>1. LengthInv => Deadline
  BY SecondsLeft, LabAssumption DEF LengthInv, WaitInv, Deadline, InLoop, Looping
<1>2. QED
  BY <1>1, LengthInvAlways, PTL DEF Spec

===============================================================================
