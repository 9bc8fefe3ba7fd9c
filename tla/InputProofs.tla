------------------------------ MODULE InputProofs ------------------------------
(***************************************************************************)
(* Proofs about Input and Pointer: no byte is forgotten in the buffer of   *)
(* the controller, a good byte is read, mouse packets heal, and what a     *)
(* packet does to the pointer keeps it on the screen.                      *)
(***************************************************************************)
EXTENDS Input, Pointer, TLAPS

\* Where the program is says which bit it handles, and the byte of the mouse
\* in the buffer is the one before the next byte the mouse sends.
InputInv ==
    /\ InputTypeOK
    /\ pc = "receive" => intr = {}
    /\ pc \in {"mouse_ih", "mouse_read"} => "mouse" \in intr
    /\ pc \in {"kbc_ih", "kbc_read"} => intr = {"kbd"}
    /\ obf /\ outBuf.src = "mouse" =>
         /\ outBuf.pos \in 1 .. 3
         /\ mousePos = (outBuf.pos % 3) + 1
         /\ outBuf.pos = 1 => outBuf.val = "bit3"

LEMMA InputInvInit == InputInit => InputInv
<1> SUFFICES ASSUME InputInit PROVE InputInv
  OBVIOUS
<1>1. outBuf \in Byte
  BY DEF InputInit, Byte, Devices, Values
<1>2. obf \in BOOLEAN /\ err \in BOOLEAN /\ running \in BOOLEAN /\ skipped \in BOOLEAN
  BY Zenon DEF InputInit
<1>3. mouse_scancode \in Values
  BY DEF InputInit, Values
<1> QED
  BY <1>1, <1>2, <1>3 DEF InputInit, InputInv, InputTypeOK, Devices

\* A byte the controller delivers is recorded as sent.
LEMMA DeliverInv ==
    ASSUME InputInv, NEW v \in Values, MouseSends(v) \/ KeyboardSends(v)
    PROVE  InputInv'
<1>1. err' \in BOOLEAN /\ obf' \in BOOLEAN /\ running' \in BOOLEAN /\ skipped' \in BOOLEAN
  BY Zenon, ErrorsAssumption DEF MouseSends, KeyboardSends, Deliver, InputInv, InputTypeOK
<1>2. CASE MouseSends(v)
  <2> DEFINE b == [src |-> "mouse", pos |-> mousePos, val |-> v]
  <2>1. mousePos \in 1 .. 3
    BY DEF InputInv, InputTypeOK
  <2>2. b \in Byte /\ b.src = "mouse" /\ b.pos = mousePos /\ b.val = v
    BY <2>1 DEF Byte, Devices
  <2>3. outBuf' = b /\ pending' = pending \cup {b.src} /\ mousePos' = (mousePos % 3) + 1
        /\ (mousePos = 1 => v = "bit3")
    BY <1>2 DEF MouseSends, Deliver
  <2> HIDE DEF b
  <2>4. UNCHANGED <<intr, pc, mouse_scancode, currentByte>>
    BY <1>2 DEF MouseSends, Deliver
  <2> QED
    BY <1>1, <2>1, <2>2, <2>3, <2>4 DEF InputInv, InputTypeOK, Devices
<1>3. CASE KeyboardSends(v)
  <2> DEFINE b == [src |-> "kbd", pos |-> 0, val |-> v]
  <2>1. b \in Byte /\ b.src = "kbd"
    BY DEF Byte, Devices
  <2>2. outBuf' = b /\ pending' = pending \cup {b.src}
    BY <1>3 DEF KeyboardSends, Deliver
  <2> HIDE DEF b
  <2>3. UNCHANGED <<intr, pc, mouse_scancode, currentByte, mousePos>>
    BY <1>3 DEF KeyboardSends, Deliver
  <2> QED
    BY <1>1, <2>1, <2>2, <2>3 DEF InputInv, InputTypeOK, Devices
<1> QED
  BY <1>2, <1>3

\* Going on to the bits that are left keeps the position in the message.
LEMMA SectionInv ==
    ASSUME NEW bits \in SUBSET Devices, GoOn(bits)
    PROVE  /\ intr' = bits
           /\ pc' \in {"receive", "mouse_ih", "kbc_ih"}
           /\ pc' = "receive" => intr' = {}
           /\ pc' = "mouse_ih" => "mouse" \in intr'
           /\ pc' = "kbc_ih" => intr' = {"kbd"}
BY Zenon DEF GoOn, Section, Devices

\* A failed read of a port changes nothing in the controller.
LEMMA PortFailsInv ==
    ASSUME InputInv, PortFails
    PROVE  UNCHANGED kbcVars /\ skipped' \in BOOLEAN
BY DEF PortFails

\* A read of OUT_BUF takes out the byte, whatever is made of it.
LEMMA ReadInv ==
    ASSUME InputInv, ReadOutBuf
    PROVE  /\ ~obf' /\ obf' \in BOOLEAN /\ err' \in BOOLEAN /\ skipped' \in BOOLEAN
           /\ outBuf' \in Byte /\ outBuf.val \in Values
           /\ mousePos' \in 1 .. 3
           /\ pending' \in SUBSET Devices
<1>1. outBuf \in Byte /\ mousePos \in 1 .. 3 /\ pending \in SUBSET Devices
  BY DEF InputInv, InputTypeOK
<1>2. outBuf.val \in Values
  BY <1>1 DEF Byte
<1> QED
  BY Zenon, <1>1, <1>2 DEF ReadOutBuf

\* A scan code is put in its place or dropped, and the program goes on.
LEMMA StoreInv ==
    ASSUME InputInv, NEW v, Store(v)
    PROVE  /\ currentByte' \in 1 .. 3
           /\ running' = running
           /\ intr' \in SUBSET Devices
           /\ pc' \in {"receive", "mouse_ih", "kbc_ih"}
           /\ pc' = "receive" => intr' = {}
           /\ pc' = "mouse_ih" => "mouse" \in intr'
           /\ pc' = "kbc_ih" => intr' = {"kbd"}
<1>1. PICK bits \in SUBSET Devices : GoOn(bits)
  BY DEF Store, InputInv, InputTypeOK
<1>2. currentByte' \in 1 .. 3
  BY DEF Store, NextByte, InputInv, InputTypeOK
<1>3. running' = running
  BY DEF Store
<1> QED
  BY <1>1, <1>2, <1>3, SectionInv

\* A handler that ends without reading the byte.
LEMMA GivesUpInv ==
    ASSUME InputInv, mouse_ih_error \/ kbc_ih_error \/ KeyStale
    PROVE  /\ UNCHANGED <<kbcVars, currentByte, running>>
           /\ intr' = {} /\ pc' = "receive"
           /\ mouse_scancode' \in Values /\ skipped' \in BOOLEAN
<1>1. intr' = {} /\ pc' = "receive"
  BY DEF mouse_ih_error, kbc_ih_error, KeyStale, GoOn, Section
<1>2. UNCHANGED <<kbcVars, currentByte, running>>
  BY Zenon DEF mouse_ih_error, kbc_ih_error, KeyStale, PortFails
<1>3. mouse_scancode' \in Values
  BY DEF mouse_ih_error, kbc_ih_error, KeyStale, InputInv, InputTypeOK, Values
<1>4. skipped' \in BOOLEAN
  <2>1. skipped \in BOOLEAN
    BY DEF InputInv, InputTypeOK
  <2>2. skipped' = skipped \/ PortFails
    BY Zenon DEF mouse_ih_error, kbc_ih_error, KeyStale
  <2> QED
    BY Zenon, <2>1, <2>2, PortFailsInv
<1> QED
  BY <1>1, <1>2, <1>3, <1>4

LEMMA ProgramInv ==
    ASSUME InputInv, Program
    PROVE  InputInv'
<1>1. CASE Receive
  <2>1. pending \in SUBSET Devices
    BY DEF InputInv, InputTypeOK
  <2>2. GoOn(pending)
    BY <1>1 DEF Receive
  <2> QED
    BY <1>1, <2>1, <2>2, SectionInv DEF Receive, InputInv, InputTypeOK, Byte
<1>2. CASE mouse_ih
  BY <1>2 DEF mouse_ih, kbcVars, InputInv, InputTypeOK, Byte
<1>3. CASE mouse_ih_error \/ kbc_ih_error \/ KeyStale
  BY <1>3, GivesUpInv DEF kbcVars, InputInv, InputTypeOK
<1>4. CASE MouseByte
  <2>1. mouse_scancode' \in Values
    BY <1>4, ReadInv DEF MouseByte
  <2>2. running \in BOOLEAN
    BY DEF InputInv, InputTypeOK
  <2>3. InputTypeOK'
    BY Zenon, <1>4, <2>1, <2>2, ReadInv, StoreInv DEF MouseByte, InputTypeOK
  <2> QED
    BY Zenon, <1>4, <2>3, ReadInv, StoreInv DEF MouseByte, InputInv
<1>5. CASE MouseStale
  <2>1. UNCHANGED kbcVars /\ skipped' \in BOOLEAN /\ mouse_scancode' = mouse_scancode
    BY Zenon, <1>5, PortFailsInv DEF MouseStale
  <2>2. Store(mouse_scancode)
    BY <1>5 DEF MouseStale
  <2>3. InputTypeOK'
    BY Zenon, <2>1, <2>2, StoreInv DEF kbcVars, InputInv, InputTypeOK
  <2> QED
    BY <2>1, <2>2, <2>3, StoreInv DEF kbcVars, InputInv
<1>6. CASE kbc_ih
  BY <1>6 DEF kbc_ih, kbcVars, InputInv, InputTypeOK, Byte
<1>7. CASE KeyByte
  <2>1. intr' = {} /\ pc' = "receive"
    BY <1>7 DEF KeyByte, GoOn, Section
  <2>2. running' \in BOOLEAN /\ UNCHANGED <<mouse_scancode, currentByte>>
    BY <1>7 DEF KeyByte
  <2>3. InputTypeOK'
    BY Zenon, <1>7, <2>1, <2>2, ReadInv DEF KeyByte, InputInv, InputTypeOK
  <2> QED
    BY Zenon, <1>7, <2>1, <2>3, ReadInv DEF KeyByte, InputInv
<1> QED
  BY <1>1, <1>2, <1>3, <1>4, <1>5, <1>6, <1>7 DEF Program

LEMMA InputInvNext == InputInv /\ [InputNext]_vars => InputInv'
<1> SUFFICES ASSUME InputInv, [InputNext]_vars PROVE InputInv'
  OBVIOUS
<1>1. CASE Program
  BY <1>1, ProgramInv
<1>2. CASE Controller
  BY <1>2, DeliverInv DEF Controller
<1>3. CASE UNCHANGED vars
  BY <1>3 DEF vars, kbcVars, InputInv, InputTypeOK
<1> QED
  BY <1>1, <1>2, <1>3 DEF InputNext, Ended

(***************************************************************************)
(* No good byte is ever left in the buffer of the controller without a     *)
(* notification, although "continue" in game_loop drops bits, unless a     *)
(* read of a port has failed.                                              *)
(***************************************************************************)
THEOREM NoLostByteTheorem == InputSpec => []NoLostByte
<1>1. InputInit => NoLostByte
  BY DEF InputInit, NoLostByte
<1>2. InputInv /\ NoLostByte /\ [InputNext]_vars => NoLostByte'
  <2> SUFFICES ASSUME InputInv, NoLostByte, [InputNext]_vars PROVE NoLostByte'
    OBVIOUS
  <2>1. CASE Receive
    BY <2>1 DEF Receive, GoOn, NoLostByte, InputInv
  <2>2. CASE mouse_ih \/ kbc_ih
    BY Zenon, <2>2 DEF mouse_ih, kbc_ih, kbcVars, NoLostByte
  <2>3. ASSUME PortFails PROVE NoLostByte'
    BY Zenon, <2>3 DEF PortFails, kbcVars, NoLostByte
  <2>4. CASE mouse_ih_error \/ kbc_ih_error
    <3>1. CASE ~Ready /\ UNCHANGED <<kbcVars, skipped>>
      BY Zenon, <2>4, <3>1 DEF Ready, kbcVars, NoLostByte
    <3>2. CASE err /\ UNCHANGED <<kbcVars, skipped>>
      BY Zenon, <2>4, <3>2 DEF kbcVars, NoLostByte
    <3> QED
      BY Zenon, <2>3, <2>4, <3>1, <3>2 DEF mouse_ih_error, kbc_ih_error
  <2>5. CASE MouseByte \/ KeyByte
    BY <2>5 DEF MouseByte, KeyByte, ReadOutBuf, NoLostByte
  <2>6. CASE MouseStale \/ KeyStale
    BY <2>3, <2>6 DEF MouseStale, KeyStale
  <2>7. CASE Controller
    BY Zenon, <2>7 DEF Controller, MouseSends, KeyboardSends, Deliver, NoLostByte
  <2>8. CASE UNCHANGED vars
    BY <2>8 DEF vars, kbcVars, NoLostByte
  <2> QED
    BY <2>1, <2>2, <2>4, <2>5, <2>6, <2>7, <2>8 DEF InputNext, Program, Ended
<1> QED
  BY <1>1, <1>2, InputInvInit, InputInvNext, PTL DEF InputSpec

\* A byte of the mouse that is read brings the program no further from the
\* start of a packet.
LEMMA MouseByteNear ==
    ASSUME InputInv, Owed, MouseByte
    PROVE  Owed' /\ Distance' <= Distance
<1>1. obf /\ outBuf.src = "mouse" /\ pending = {} /\ intr = {"mouse"}
  BY DEF InputInv, Owed, MouseByte
<1>2. Owed'
  BY <1>1 DEF MouseByte, ReadOutBuf, Store, Owed, GoOn
<1>3. Distance = (currentByte - outBuf.pos) % 3 /\ Distance' = (currentByte' - mousePos) % 3
  BY <1>1 DEF MouseByte, ReadOutBuf, Distance
<1>4. /\ outBuf.pos \in {1, 2, 3}
      /\ currentByte \in {1, 2, 3}
      /\ mousePos = (outBuf.pos % 3) + 1
      /\ outBuf.pos = 1 => outBuf.val = "bit3"
  BY <1>1 DEF InputInv, InputTypeOK
<1>5. CASE Dropped(outBuf.val)
  <2>1. currentByte = 1 /\ currentByte' = 1 /\ outBuf.pos \in {2, 3}
    BY <1>4, <1>5 DEF MouseByte, Store, Dropped
  <2> QED
    BY <1>2, <1>3, <1>4, <2>1
<1>6. CASE ~Dropped(outBuf.val)
  <2>1. currentByte' = IF currentByte = 3 THEN 1 ELSE currentByte + 1
    BY <1>6 DEF MouseByte, Store, NextByte
  <2> QED
    BY <1>2, <1>3, <1>4, <2>1
<1> QED
  BY <1>5, <1>6

\* A failed read of the only byte a notification stands for is the last thing
\* that happens to it.
LEMMA StaleBlocks ==
    ASSUME InputInv, Owed, MouseStale
    PROVE  Owed' /\ Blocked'
<1>1. obf /\ outBuf.src = "mouse" /\ pending = {} /\ intr = {"mouse"}
  BY DEF InputInv, Owed, MouseStale
<1>2. UNCHANGED kbcVars
  BY DEF MouseStale, PortFails
<1>3. intr' = {} /\ pc' = "receive"
  BY <1>1 DEF MouseStale, Store, GoOn, Section
<1> QED
  BY <1>1, <1>2, <1>3 DEF kbcVars, Owed, Blocked

(***************************************************************************)
(* Weak fairness of Program with the condition under which it can take a   *)
(* step written out: handlers can always go on, and driver_receive returns *)
(* when there is a notification.                                           *)
(***************************************************************************)
CanGoOn == pc # "receive" \/ (running /\ pending # {})

ProgramRuns == []<>~CanGoOn \/ []<><<Program>>_vars

\* A good byte that is still to be read, and how many steps of the program it
\* may take: the handlers of the message at hand may fail to read it, those of
\* the next message too, and there is no message after that one, since no
\* interrupt comes before the byte is read.
Unread == obf /\ ~err /\ running /\ ~skipped

Steps ==
    (IF pending = {} THEN 0 ELSE 5)
    + (IF pc = "mouse_ih" THEN 4 ELSE IF pc = "mouse_read" THEN 3
       ELSE IF pc = "kbc_ih" THEN 2 ELSE IF pc = "kbc_read" THEN 1 ELSE 0)

Within(n) == Unread /\ Steps <= n

\* The byte is read, the program is at its end, or a failed read of a port has
\* used up the last notification of the byte.
Settled == ~obf \/ ~running \/ skipped

LEMMA StepsBound == Steps \in 0 .. 9 /\ Steps' \in 0 .. 9
BY DEF Steps

\* A handler that goes on to the next device or to the next message.
LEMMA GoOnSteps ==
    ASSUME InputInv, NEW bits \in SUBSET Devices, GoOn(bits), UNCHANGED pending,
           \/ pc = "mouse_ih" /\ "mouse" \notin bits
           \/ pc = "mouse_read" /\ "mouse" \notin bits
           \/ pc \in {"kbc_ih", "kbc_read"} /\ bits = {}
    PROVE  Steps' < Steps
<1>1. pc' \in (IF pc \in {"mouse_ih", "mouse_read"} THEN {"kbc_ih", "receive"} ELSE {"receive"})
  BY Zenon DEF GoOn, Section
<1> QED
  BY <1>1 DEF Steps

\* Nothing but the program's own step changes how far such a byte is from being
\* read, and that step brings it nearer.
LEMMA ByteAdvances ==
    ASSUME InputInv, NoLostByte, [InputNext]_vars, Unread
    PROVE  /\ CanGoOn
           /\ Settled' \/ (Unread' /\ Steps' <= Steps)
           /\ Program => Settled' \/ (Unread' /\ Steps' < Steps)
<1>0. Steps \in 0 .. 9 /\ Steps' \in 0 .. 9
  BY StepsBound
<1>1. CanGoOn
  BY DEF Unread, NoLostByte, InputInv, CanGoOn
<1>2. CASE ~Program
  <2>1. ~Controller
    BY Zenon DEF Controller, MouseSends, KeyboardSends, Deliver, Unread
  <2>2. UNCHANGED vars
    BY <1>2, <2>1 DEF InputNext, Ended
  <2>3. Unread'
    BY Zenon, <2>2 DEF vars, kbcVars, Unread
  <2>4. Steps' = Steps
    BY <2>2 DEF vars, kbcVars, Steps
  <2> QED
    BY <1>0, <1>1, <1>2, <2>3, <2>4
<1>3. ASSUME UNCHANGED <<kbcVars, running>> PROVE Settled' \/ Unread'
  BY Zenon, <1>3 DEF kbcVars, Unread, Settled
<1>4. CASE Receive
  <2>1. pending # {} /\ pending \in SUBSET Devices /\ pending' = {} /\ pc = "receive"
    BY <1>4 DEF Receive, InputInv, InputTypeOK
  <2>2. Unread'
    BY Zenon, <1>4 DEF Receive, Unread
  <2>3. Steps = 5
    BY <2>1 DEF Steps
  <2>4. Steps' <= 4
    BY <2>1 DEF Steps
  <2> QED
    BY <1>0, <1>1, <2>2, <2>3, <2>4
<1>5. CASE mouse_ih \/ kbc_ih
  <2>1. UNCHANGED <<kbcVars, running>>
    BY <1>5 DEF mouse_ih, kbc_ih
  <2>2. Steps' < Steps
    BY <1>5 DEF mouse_ih, kbc_ih, kbcVars, Steps
  <2> QED
    BY <1>0, <1>1, <1>3, <2>1, <2>2
<1>6. CASE mouse_ih_error \/ kbc_ih_error \/ KeyStale
  <2>1. UNCHANGED <<kbcVars, running>> /\ pc' = "receive"
    BY <1>6, GivesUpInv
  <2>2. pc \in {"mouse_ih", "kbc_ih", "kbc_read"}
    BY <1>6 DEF mouse_ih_error, kbc_ih_error, KeyStale
  <2>3. Steps' < Steps
    BY <2>1, <2>2 DEF kbcVars, Steps
  <2> QED
    BY <1>0, <1>1, <1>3, <2>1, <2>3
<1>7. CASE MouseByte \/ KeyByte
  BY Zenon, <1>1, <1>7 DEF MouseByte, KeyByte, ReadOutBuf, Settled
<1>8. CASE MouseStale
  <2>1. UNCHANGED <<kbcVars, running>> /\ pc = "mouse_read"
    BY <1>8 DEF MouseStale, PortFails, Store
  <2>2. PICK bits \in SUBSET Devices : GoOn(bits) /\ "mouse" \notin bits
    BY <1>8 DEF MouseStale, Store, InputInv, InputTypeOK
  <2>3. Steps' < Steps
    BY <2>1, <2>2, GoOnSteps DEF kbcVars
  <2> QED
    BY <1>0, <1>1, <1>3, <2>1, <2>3
<1> QED
  BY <1>2, <1>4, <1>5, <1>6, <1>7, <1>8 DEF Program

\* With n steps of the program to go, the next one leaves fewer.
LEMMA WithinStep ==
    ASSUME NEW n \in 1 .. 9, InputInv, NoLostByte, [InputNext]_vars, Within(n)
    PROVE  /\ CanGoOn
           /\ Settled' \/ Within(n)'
           /\ <<Program>>_vars => Settled' \/ Within(n - 1)'
<1>1. Steps \in 0 .. 9 /\ Steps' \in 0 .. 9
  BY StepsBound
<1>2. Unread /\ Steps <= n
  BY DEF Within
<1> QED
  BY <1>1, <1>2, ByteAdvances DEF Within

\* At the end there is nothing left to do but to read it.
LEMMA WithinZero == InputInv /\ NoLostByte => ~Within(0)
BY DEF Within, Steps, Unread, NoLostByte, InputInv, InputTypeOK

(***************************************************************************)
(* Every byte that arrived well is read as long as the program runs, after *)
(* at most nine steps of the program, whatever notifications of earlier    *)
(* bytes are left over and whichever of the two handlers reads it, unless  *)
(* failed reads of a port use up all its notifications.                    *)
(***************************************************************************)
THEOREM EveryByteReadTheorem == InputSpec /\ ProgramRuns => EveryByteRead
<1>1. InputSpec => [](InputInv /\ NoLostByte) /\ [][InputNext]_vars
  BY NoLostByteTheorem, InputInvInit, InputInvNext, PTL DEF InputSpec
<1>2. InputSpec /\ ProgramRuns => (Within(1) ~> Within(0) \/ Settled)
  <2>1. ASSUME InputInv, NoLostByte, [InputNext]_vars, Within(1)
        PROVE  /\ CanGoOn
               /\ Settled' \/ Within(1)'
               /\ <<Program>>_vars => Settled' \/ Within(0)'
    BY <2>1, WithinStep, 1 \in 1 .. 9, 1 - 1 = 0
  <2> QED
    BY <1>1, <2>1, PTL DEF ProgramRuns
<1>3. InputSpec /\ ProgramRuns => (Within(2) ~> Within(1) \/ Settled)
  <2>1. ASSUME InputInv, NoLostByte, [InputNext]_vars, Within(2)
        PROVE  /\ CanGoOn
               /\ Settled' \/ Within(2)'
               /\ <<Program>>_vars => Settled' \/ Within(1)'
    BY <2>1, WithinStep, 2 \in 1 .. 9, 2 - 1 = 1
  <2> QED
    BY <1>1, <2>1, PTL DEF ProgramRuns
<1>4. InputSpec /\ ProgramRuns => (Within(3) ~> Within(2) \/ Settled)
  <2>1. ASSUME InputInv, NoLostByte, [InputNext]_vars, Within(3)
        PROVE  /\ CanGoOn
               /\ Settled' \/ Within(3)'
               /\ <<Program>>_vars => Settled' \/ Within(2)'
    BY <2>1, WithinStep, 3 \in 1 .. 9, 3 - 1 = 2
  <2> QED
    BY <1>1, <2>1, PTL DEF ProgramRuns
<1>5. InputSpec /\ ProgramRuns => (Within(4) ~> Within(3) \/ Settled)
  <2>1. ASSUME InputInv, NoLostByte, [InputNext]_vars, Within(4)
        PROVE  /\ CanGoOn
               /\ Settled' \/ Within(4)'
               /\ <<Program>>_vars => Settled' \/ Within(3)'
    BY <2>1, WithinStep, 4 \in 1 .. 9, 4 - 1 = 3
  <2> QED
    BY <1>1, <2>1, PTL DEF ProgramRuns
<1>6. InputSpec /\ ProgramRuns => (Within(5) ~> Within(4) \/ Settled)
  <2>1. ASSUME InputInv, NoLostByte, [InputNext]_vars, Within(5)
        PROVE  /\ CanGoOn
               /\ Settled' \/ Within(5)'
               /\ <<Program>>_vars => Settled' \/ Within(4)'
    BY <2>1, WithinStep, 5 \in 1 .. 9, 5 - 1 = 4
  <2> QED
    BY <1>1, <2>1, PTL DEF ProgramRuns
<1>7. InputSpec /\ ProgramRuns => (Within(6) ~> Within(5) \/ Settled)
  <2>1. ASSUME InputInv, NoLostByte, [InputNext]_vars, Within(6)
        PROVE  /\ CanGoOn
               /\ Settled' \/ Within(6)'
               /\ <<Program>>_vars => Settled' \/ Within(5)'
    BY <2>1, WithinStep, 6 \in 1 .. 9, 6 - 1 = 5
  <2> QED
    BY <1>1, <2>1, PTL DEF ProgramRuns
<1>8. InputSpec /\ ProgramRuns => (Within(7) ~> Within(6) \/ Settled)
  <2>1. ASSUME InputInv, NoLostByte, [InputNext]_vars, Within(7)
        PROVE  /\ CanGoOn
               /\ Settled' \/ Within(7)'
               /\ <<Program>>_vars => Settled' \/ Within(6)'
    BY <2>1, WithinStep, 7 \in 1 .. 9, 7 - 1 = 6
  <2> QED
    BY <1>1, <2>1, PTL DEF ProgramRuns
<1>9. InputSpec /\ ProgramRuns => (Within(8) ~> Within(7) \/ Settled)
  <2>1. ASSUME InputInv, NoLostByte, [InputNext]_vars, Within(8)
        PROVE  /\ CanGoOn
               /\ Settled' \/ Within(8)'
               /\ <<Program>>_vars => Settled' \/ Within(7)'
    BY <2>1, WithinStep, 8 \in 1 .. 9, 8 - 1 = 7
  <2> QED
    BY <1>1, <2>1, PTL DEF ProgramRuns
<1>10. InputSpec /\ ProgramRuns => (Within(9) ~> Within(8) \/ Settled)
  <2>1. ASSUME InputInv, NoLostByte, [InputNext]_vars, Within(9)
        PROVE  /\ CanGoOn
               /\ Settled' \/ Within(9)'
               /\ <<Program>>_vars => Settled' \/ Within(8)'
    BY <2>1, WithinStep, 9 \in 1 .. 9, 9 - 1 = 8
  <2> QED
    BY <1>1, <2>1, PTL DEF ProgramRuns
<1>11. InputInv /\ NoLostByte => ~Within(0)
  BY WithinZero
<1>12. InputInv /\ obf /\ ~err => Settled \/ Within(9)
  <2> SUFFICES ASSUME InputInv, obf, ~err PROVE Settled \/ Within(9)
    OBVIOUS
  <2>1. Settled \/ Unread
    BY Zenon DEF Settled, Unread
  <2> QED
    BY <2>1, StepsBound DEF Within
<1>13. Settled => ~obf \/ ~running \/ skipped
  BY DEF Settled
<1> QED
  BY <1>1, <1>2, <1>3, <1>4, <1>5, <1>6, <1>7, <1>8, <1>9, <1>10, <1>11, <1>12, <1>13, PTL
     DEF EveryByteRead

(***************************************************************************)
(* Mouse packets heal and stay healed, whatever else is typed and whether  *)
(* or not transfers fail; a read of a port that fails unnoticed is the end *)
(* of the input.                                                           *)
(***************************************************************************)
THEOREM PacketsHealTheorem == InputSpec => PacketsHeal
<1>1. InputInv /\ [InputNext]_vars =>
        [Owed => Owed' /\ (Distance' <= Distance \/ Blocked')]_vars
  <2> SUFFICES ASSUME InputInv, InputNext, Owed
               PROVE  Owed' /\ (Distance' <= Distance \/ Blocked')
    OBVIOUS
  <2>0. Distance \in Int
    BY DEF Distance, InputInv, InputTypeOK, Byte
  <2>1. CASE Receive
    BY <2>0, <2>1 DEF Receive, GoOn, Owed, Distance, InputInv
  <2>2. CASE mouse_ih \/ kbc_ih
    BY <2>0, <2>2 DEF mouse_ih, kbc_ih, kbcVars, Owed, Distance
  <2>3. CASE mouse_ih_error \/ kbc_ih_error \/ KeyStale
    <3>1. UNCHANGED <<kbcVars, currentByte>> /\ intr' = {}
      BY <2>3, GivesUpInv
    <3> QED
      BY <2>0, <3>1 DEF kbcVars, Owed, Distance
  <2>4. CASE MouseByte
    BY <2>4, MouseByteNear
  <2>5. CASE KeyByte
    <3>1. obf /\ outBuf.src = "kbd" /\ pending = {}
      BY <2>5 DEF KeyByte, InputInv, Owed
    <3> QED
      BY <2>0, <2>5, <3>1 DEF KeyByte, ReadOutBuf, GoOn, Owed, Distance
  <2>6. CASE Controller
    <3> DEFINE b == outBuf'
    <3>1. /\ ~obf /\ obf' /\ pending' = pending \cup {b.src}
          /\ UNCHANGED <<intr, currentByte>>
          /\ \/ b.src = "mouse" /\ b.pos = mousePos
             \/ b.src = "kbd" /\ mousePos' = mousePos
      <4>1. PICK v \in Values : MouseSends(v) \/ KeyboardSends(v)
        BY <2>6 DEF Controller
      <4>2. CASE MouseSends(v)
        BY <4>2 DEF MouseSends, Deliver
      <4>3. CASE KeyboardSends(v)
        BY <4>3 DEF KeyboardSends, Deliver
      <4> QED
        BY <4>1, <4>2, <4>3
    <3>2. Owed'
      BY <3>1 DEF Owed
    <3>3. Distance' = Distance
      BY <3>1 DEF Distance
    <3> QED
      BY <2>0, <3>2, <3>3
  <2>7. CASE UNCHANGED vars
    BY <2>0, <2>7 DEF vars, kbcVars, Owed, Distance
  <2>8. CASE MouseStale
    BY <2>8, StaleBlocks
  <2> QED
    BY <2>1, <2>2, <2>3, <2>4, <2>5, <2>6, <2>7, <2>8 DEF InputNext, Program, Ended
<1>2. [InputNext]_vars => [Blocked => Blocked']_vars
  <2> SUFFICES ASSUME InputNext, Blocked PROVE Blocked'
    OBVIOUS
  <2>1. ~Program
    BY DEF Blocked, Program, Receive, mouse_ih, mouse_ih_error, MouseByte, MouseStale,
           kbc_ih, kbc_ih_error, KeyByte, KeyStale
  <2>2. ~Controller
    BY Zenon DEF Blocked, Controller, MouseSends, KeyboardSends, Deliver
  <2> QED
    BY <2>1, <2>2 DEF InputNext, Ended, vars, kbcVars, Blocked
<1>3. InputInv /\ [InputNext]_vars =>
        [ /\ Owed => Owed' /\ (Distance' <= Distance \/ Blocked')
          /\ Blocked => Blocked' ]_vars
  BY <1>1, <1>2
<1> QED
  BY <1>3, InputInvInit, InputInvNext, PTL DEF InputSpec, PacketsHeal

-------------------------------------------------------------------------------
(***************************************************************************)
(* The pointer, for screens and pointers of any size and for all           *)
(* displacements a packet can carry.                                       *)
(***************************************************************************)

\* The sign of a displacement is the sign bit of the packet, so that updateMouse
\* looks at the border the pointer moves to.
LEMMA PacketDelta ==
    ASSUME NEW p \in Packet
    PROVE  /\ delta(p.xSign, p.b1) \in (IF p.xSign THEN -256 .. -1 ELSE 0 .. 255)
           /\ delta(p.ySign, p.b2) \in (IF p.ySign THEN -256 .. -1 ELSE 0 .. 255)
<1>1. p.b1 \in 0 .. 255 /\ p.b2 \in 0 .. 255
  BY Zenon, ScreenAssumption DEF Packet
<1>2. delta(p.xSign, p.b1) \in (IF p.xSign THEN -256 .. -1 ELSE 0 .. 255)
  BY <1>1 DEF delta, int16, FILLMSB
<1>3. delta(p.ySign, p.b2) \in (IF p.ySign THEN -256 .. -1 ELSE 0 .. 255)
  BY <1>1 DEF delta, int16, FILLMSB
<1> QED
  BY <1>2, <1>3

LEMMA MoveOnScreen ==
    ASSUME PointerOnScreen, NEW p \in Packet, MouseMoves(p)
    PROVE  PointerOnScreen'
<1>1. X_RES \in Nat /\ Y_RES \in Nat /\ MOUSE_WIDTH \in Nat /\ MOUSE_HEIGHT \in Nat
  BY ScreenAssumption
<1> DEFINE dx == delta(p.xSign, p.b1)
           dy == delta(p.ySign, p.b2)
<1>2. dx \in (IF p.xSign THEN -256 .. -1 ELSE 0 .. 255)
  BY PacketDelta
<1>3. dy \in (IF p.ySign THEN -256 .. -1 ELSE 0 .. 255)
  BY PacketDelta
<1>4. /\ x' = IF p.xSign THEN (IF x + dx < 0 THEN 0 ELSE x + dx)
              ELSE (IF x + dx > X_RES - MOUSE_WIDTH THEN X_RES - MOUSE_WIDTH ELSE x + dx)
      /\ y' = IF p.ySign
              THEN (IF y - dy + MOUSE_HEIGHT > Y_RES THEN Y_RES - MOUSE_HEIGHT ELSE y - dy)
              ELSE (IF y - dy < 0 THEN 0 ELSE y - dy)
  BY DEF MouseMoves, NewX, NewY
<1> HIDE DEF dx, dy
<1>5. x' \in 0 .. X_RES - MOUSE_WIDTH
  BY <1>1, <1>2, <1>4 DEF PointerOnScreen
<1>6. y' \in 0 .. Y_RES - MOUSE_HEIGHT
  BY <1>1, <1>3, <1>4 DEF PointerOnScreen
<1> QED
  BY <1>5, <1>6 DEF PointerOnScreen

(***************************************************************************)
(* The image of the pointer never leaves the screen, so drawMouse never    *)
(* writes outside the frame buffer.                                        *)
(***************************************************************************)
THEOREM PointerOnScreenTheorem == PointerSpec => []PointerOnScreen
<1>1. PointerInit => PointerOnScreen
  BY ScreenAssumption DEF PointerInit, createMouse, PointerOnScreen
<1>2. PointerOnScreen /\ [PointerNext]_pointerVars => PointerOnScreen'
  <2> SUFFICES ASSUME PointerOnScreen, [PointerNext]_pointerVars PROVE PointerOnScreen'
    OBVIOUS
  <2>1. CASE \E p \in Packet : AtMenu(p) \/ AtInstructions(p) \/ InRound(p) \/ BetweenRounds(p)
    BY <2>1, MoveOnScreen DEF AtMenu, AtInstructions, InRound, BetweenRounds
  <2>2. CASE OtherSections
    BY <2>2 DEF OtherSections, PointerOnScreen
  <2>3. CASE UNCHANGED pointerVars
    BY <2>3 DEF pointerVars, PointerOnScreen
  <2> QED
    BY <2>1, <2>2, <2>3 DEF PointerNext, PointerEnded
<1> QED
  BY <1>1, <1>2, PTL DEF PointerSpec

\* The way back from the instructions is away from all buttons of the menu.
LEMMA ButtonsApart ==
    ASSUME NEW px \in Int, NEW py \in Int, getInstructionButton(px, py)
    PROVE  getButton(px, py) = "INITIAL"
BY DEF getInstructionButton, getButton

(***************************************************************************)
(* A click that changes the screen leaves the pointer on no button of the  *)
(* new one, wherever the pointer is.                                       *)
(***************************************************************************)
THEOREM ClickTheorem == PointerSpec => ClickDoesNotBounce
<1> DEFINE Bounce ==
      /\ gameState = "MENU_DISPLAY" /\ gameState' = "INSTRUCTIONS_DISPLAY"
           => ~getInstructionButton(x', y')
      /\ gameState = "INSTRUCTIONS_DISPLAY" /\ gameState' = "MENU_DISPLAY"
           => getButton(x', y') = "INITIAL"
<1>1. PointerOnScreen' /\ [PointerNext]_pointerVars => [Bounce]_pointerVars
  <2> SUFFICES ASSUME PointerOnScreen', PointerNext PROVE Bounce
    OBVIOUS
  <2>1. x' \in Int /\ y' \in Int
    BY DEF PointerOnScreen
  <2>2. ASSUME NEW p \in Packet, AtMenu(p)
        PROVE  Bounce
    <3>1. gameState' = "INSTRUCTIONS_DISPLAY" => getButton(x', y') # "INITIAL"
      BY <2>2 DEF AtMenu, MenuChoice
    <3> QED
      BY <2>1, <2>2, <3>1, ButtonsApart DEF AtMenu
  <2>3. ASSUME NEW p \in Packet, AtInstructions(p)
        PROVE  Bounce
    BY <2>1, <2>3, ButtonsApart DEF AtInstructions
  <2>4. ASSUME NEW p \in Packet, InRound(p) \/ BetweenRounds(p)
        PROVE  Bounce
    BY <2>4 DEF InRound, BetweenRounds
  <2>5. CASE OtherSections \/ PointerEnded
    BY <2>5 DEF OtherSections, PointerEnded, pointerVars
  <2> QED
    BY <2>2, <2>3, <2>4, <2>5 DEF PointerNext
<1> QED
  BY <1>1, PointerOnScreenTheorem, PTL DEF PointerSpec, ClickDoesNotBounce

===============================================================================
