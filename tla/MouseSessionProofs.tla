-------------------------- MODULE MouseSessionProofs --------------------------
(***************************************************************************)
(* For every set of hook ids, every value the local variable ack may start *)
(* with and any number of bytes that come in between: game_loop takes back *)
(* what it has set up, its two calls of send_mouse_command talk to the     *)
(* mouse only and stop it unless it refuses, and under fairness the calls  *)
(* return and game_loop goes on.                                           *)
(***************************************************************************)
EXTENDS MouseSession, TLAPS

-------------------------------------------------------------------------------
(***************************************************************************)
(* The composition does to game_loop's state what Session says.            *)
(***************************************************************************)

LEMMA SessionStep == [Next]_allVars => [SessionNext]_sessionVars
<1> USE DEF SessionNext
<1>1. Enter \/ Inside \/ LoopReads \/ Taken \/ Sent => UNCHANGED sessionVars
  BY DEF Enter, Inside, LoopReads, Taken, Sent
<1>2. Back \/ Other \/ OtherFails \/ LoopEnds => SessionNext
  BY DEF Back, Other, OtherFails, LoopEnds
<1>3. Over \/ UNCHANGED allVars => UNCHANGED sessionVars
  BY DEF Over, allVars
<1>4. QED
  BY <1>1, <1>2, <1>3 DEF Next

\* game_loop with the details of send_mouse_command implements game_loop
\* where a call of it succeeds or fails in one step.
THEOREM ImplementsSession == Spec => SessionSpec
<1>1. Init => SessionInit
  BY DEF Init
<1>2. QED
  BY <1>1, SessionStep, PTL DEF Spec, SessionSpec

-------------------------------------------------------------------------------

Policy(d) == [id |-> hook[d], dev |-> d, bit |-> InitialHook[d]]

\* The devices of S have a policy each, with the bit and the id in their variables.
Subscribed(S) ==
    /\ hooks = {Policy(d) : d \in S}
    /\ \A d \in S : bit_no[d] = InitialHook[d]
    /\ \A d, e \in S : hook[d] = hook[e] => d = e

\* The hook variables of the other devices have their first values.
Fresh(S) == \A d \in Devices \ S : hook[d] = InitialHook[d]

(***************************************************************************)
(* Which devices have a policy at each call of game_loop.                  *)
(***************************************************************************)
SessionInv ==
    /\ hook \in [Devices -> Nat] /\ bit_no \in [Devices -> Int]
    /\ pc \in {"vg_get_mode_info", "vg_set_mode", "mouse_subscribe_int"}
         => Subscribed({}) /\ Fresh({})
    /\ pc \in {"ENABLE_MOUSE", "kbd_subscribe_int"}
         => Subscribed({"mouse"}) /\ Fresh({"mouse"})
    /\ pc = "timer_subscribe_int"
         => Subscribed({"mouse", "kbd"}) /\ Fresh({"mouse", "kbd"})
    /\ pc = "rtc_subscribe_int"
         => Subscribed({"mouse", "kbd", "timer"}) /\ Fresh({"mouse", "kbd", "timer"})
    /\ pc \in {"rtc_enable", "loop", "rtc_disable", "rtc_unsubscribe_int"}
         => Subscribed(Devices)
    /\ pc = "timer_unsubscribe_int" => Subscribed({"mouse", "kbd", "timer"})
    /\ pc \in {"DISABLE_MOUSE", "mouse_unsubscribe_int"} => Subscribed({"mouse", "kbd"})
    /\ pc = "kbd_unsubscribe_int" => Subscribed({"kbd"})
    /\ pc = "vg_exit" => Subscribed({})
    /\ rc = 0 => pc = "returned" /\ hooks = {} /\ mode = "text"

\* A subscription adds a policy.
LEMMA Subscribe ==
    ASSUME hook \in [Devices -> Nat], bit_no \in [Devices -> Int],
           NEW S \in SUBSET Devices, NEW d \in Devices \ S, NEW from, NEW to,
           Subscribed(S), Fresh(S), subscribe_int(d, from, to)
    PROVE  /\ Subscribed(S \cup {d})' /\ Fresh(S \cup {d})'
           /\ hook' \in [Devices -> Nat] /\ bit_no' \in [Devices -> Int]
<1>1. PICK id \in Hooks :
        /\ id \notin {h.id : h \in hooks}
        /\ hooks' = hooks \cup {[id |-> id, dev |-> d, bit |-> hook[d]]}
        /\ bit_no' = [bit_no EXCEPT ![d] = hook[d]]
        /\ hook' = [hook EXCEPT ![d] = id]
  BY Zenon DEF subscribe_int, sys_irqsetpolicy, bit_, hook_
<1>2. /\ hook'[d] = id /\ bit_no'[d] = hook[d] /\ hook[d] = InitialHook[d]
      /\ \A e \in S : hook'[e] = hook[e] /\ bit_no'[e] = bit_no[e]
  BY <1>1 DEF Fresh
<1>3. \A e \in S : hook[e] # id
  <2> TAKE e \in S
  <2>1. Policy(e) \in hooks /\ Policy(e).id = hook[e]
    BY DEF Subscribed, Policy
  <2>2. QED
    BY <1>1, <2>1
<1>4. hooks' = {Policy(e)' : e \in S \cup {d}}
  <2>1. \A e \in S : Policy(e)' = Policy(e)
    BY <1>2 DEF Policy
  <2>2. Policy(d)' = [id |-> id, dev |-> d, bit |-> hook[d]]
    BY <1>2 DEF Policy
  <2>3. hooks = {Policy(e) : e \in S}
    BY DEF Subscribed
  <2>4. QED
    BY <1>1, <2>1, <2>2, <2>3
<1>5. Subscribed(S \cup {d})'
  BY <1>2, <1>3, <1>4 DEF Subscribed
<1>6. Fresh(S \cup {d})'
  BY <1>1 DEF Fresh
<1>7. id \in Nat /\ hook[d] \in Nat
  BY SessionAssumption
<1>8. QED
  BY <1>1, <1>5, <1>6, <1>7

\* Giving one up leaves those of the others.
LEMMA UnsubscribeOne ==
    ASSUME NEW S \in SUBSET Devices, NEW d \in S, NEW from, NEW to,
           Subscribed(S), unsubscribe_int(d, from, to)
    PROVE  Subscribed(S \ {d})'
<1>1. hooks' = {h \in hooks : h.id # hook[d]} /\ UNCHANGED <<hook, bit_no>>
  BY DEF unsubscribe_int, sys_irqrmpolicy
<1>2. \A e \in S : Policy(e)' = Policy(e) /\ Policy(e).id = hook[e]
  BY <1>1 DEF Policy
<1>3. hooks = {Policy(e) : e \in S} /\ \A e \in S : hook[e] = hook[d] => e = d
  BY DEF Subscribed
<1>4. hooks' = {Policy(e)' : e \in S \ {d}}
  BY <1>1, <1>2, <1>3
<1>5. QED
  BY <1>1, <1>4 DEF Subscribed

LEMMA SessionInvInit == SessionInit => SessionInv
<1>1. InitialHook \in [Devices -> Nat]
  BY DEF InitialHook, Devices
<1>2. QED
  BY <1>1 DEF SessionInit, SessionInv, Subscribed, Fresh

\* A step that leaves hooks and variables alone.
LEMMA Same ==
    ASSUME UNCHANGED <<hook, bit_no, hooks>>
    PROVE  \A S : Subscribed(S)' = Subscribed(S) /\ Fresh(S)' = Fresh(S)
BY DEF Subscribed, Fresh, Policy

LEMMA SessionInvNext == SessionInv /\ [SessionNext]_sessionVars => SessionInv'
<1> SUFFICES ASSUME SessionInv, [SessionNext]_sessionVars PROVE SessionInv'
  OBVIOUS
<1>1. SetUp => SessionInv'
  <2>1. vg_get_mode_info \/ vg_get_mode_info_panic => SessionInv'
    BY Same DEF vg_get_mode_info, vg_get_mode_info_panic, Then, SessionInv
  <2>2. vg_set_mode \/ rtc_enable => SessionInv'
    BY Same DEF vg_set_mode, rtc_enable, Then, SessionInv
  <2>3. ASSUME subscribe_int("mouse", "mouse_subscribe_int", "ENABLE_MOUSE")
        PROVE  SessionInv'
    <3>1. Subscribed({}) /\ Fresh({})
      BY <2>3 DEF subscribe_int, Then, SessionInv
    <3>2. /\ Subscribed({"mouse"})' /\ Fresh({"mouse"})'
          /\ hook' \in [Devices -> Nat] /\ bit_no' \in [Devices -> Int]
      <4>1. {} \cup {"mouse"} = {"mouse"} /\ "mouse" \in Devices \ {}
        BY DEF Devices
      <4>2. QED
        BY <2>3, <3>1, <4>1, Subscribe DEF SessionInv
    <3>3. QED
      BY <2>3, <3>2 DEF subscribe_int, Then, SessionInv
  <2>4. ASSUME subscribe_int("kbd", "kbd_subscribe_int", "timer_subscribe_int")
        PROVE  SessionInv'
    <3>1. Subscribed({"mouse"}) /\ Fresh({"mouse"})
      BY <2>4 DEF subscribe_int, Then, SessionInv
    <3>2. /\ Subscribed({"mouse", "kbd"})' /\ Fresh({"mouse", "kbd"})'
          /\ hook' \in [Devices -> Nat] /\ bit_no' \in [Devices -> Int]
      <4>1. /\ {"mouse"} \cup {"kbd"} = {"mouse", "kbd"}
            /\ "kbd" \in Devices \ {"mouse"} /\ {"mouse"} \in SUBSET Devices
        BY DEF Devices
      <4>2. QED
        BY Zenon, <2>4, <3>1, <4>1, Subscribe DEF SessionInv
    <3>3. QED
      BY <2>4, <3>2 DEF subscribe_int, Then, SessionInv
  <2>5. ASSUME subscribe_int("timer", "timer_subscribe_int", "rtc_subscribe_int")
        PROVE  SessionInv'
    <3> DEFINE S == {"mouse", "kbd"}
    <3>1. Subscribed(S) /\ Fresh(S)
      BY <2>5 DEF subscribe_int, Then, SessionInv
    <3>2. /\ Subscribed({"mouse", "kbd", "timer"})' /\ Fresh({"mouse", "kbd", "timer"})'
          /\ hook' \in [Devices -> Nat] /\ bit_no' \in [Devices -> Int]
      <4>1. /\ S \cup {"timer"} = {"mouse", "kbd", "timer"}
            /\ "timer" \in Devices \ S /\ S \in SUBSET Devices
        BY DEF Devices
      <4> HIDE DEF S
      <4>2. /\ Subscribed(S \cup {"timer"})' /\ Fresh(S \cup {"timer"})'
            /\ hook' \in [Devices -> Nat] /\ bit_no' \in [Devices -> Int]
        BY Zenon, <2>5, <3>1, <4>1, Subscribe DEF SessionInv
      <4>3. QED
        BY <4>1, <4>2
    <3>3. QED
      BY <2>5, <3>2 DEF subscribe_int, Then, SessionInv
  <2>6. ASSUME subscribe_int("rtc", "rtc_subscribe_int", "rtc_enable")
        PROVE  SessionInv'
    <3> DEFINE S == {"mouse", "kbd", "timer"}
    <3>1. Subscribed(S) /\ Fresh(S)
      BY <2>6 DEF subscribe_int, Then, SessionInv
    <3>2. /\ Subscribed(Devices)'
          /\ hook' \in [Devices -> Nat] /\ bit_no' \in [Devices -> Int]
      <4>1. /\ S \cup {"rtc"} = Devices
            /\ "rtc" \in Devices \ S /\ S \in SUBSET Devices
        BY DEF Devices
      <4> HIDE DEF S
      <4>2. QED
        BY <2>6, <3>1, <4>1, Subscribe DEF SessionInv
    <3>3. QED
      BY <2>6, <3>2 DEF subscribe_int, Then, SessionInv
  <2>7. QED
    BY <2>1, <2>2, <2>3, <2>4, <2>5, <2>6 DEF SetUp
<1>2. TakeDown => SessionInv'
  <2>1. rtc_disable => SessionInv'
    BY Same DEF rtc_disable, Then, SessionInv
  <2>2. vg_exit => SessionInv'
    BY DEF vg_exit, ModeAfter_vg_exit, SessionInv, Subscribed
  <2>3. ASSUME NEW S \in SUBSET Devices, NEW d \in S, NEW T, T = S \ {d}, NEW to,
               Subscribed(S), unsubscribe_int(d, Unsubscribe[d], to)
        PROVE  /\ Subscribed(T)' /\ UNCHANGED <<hook, bit_no>>
               /\ pc = Unsubscribe[d] /\ pc' = to /\ rc' = rc
    <3>1. Subscribed(S \ {d})'
      BY <2>3, UnsubscribeOne
    <3>2. QED
      BY <2>3, <3>1 DEF unsubscribe_int, Then
  <2> USE DEF Unsubscribe
  <2>4. ASSUME unsubscribe_int("rtc", Unsubscribe["rtc"], "timer_unsubscribe_int")
        PROVE  SessionInv'
    <3> DEFINE S == Devices
               T == {"mouse", "kbd", "timer"}
    <3>1. Subscribed(S)
      BY <2>4 DEF unsubscribe_int, Then, SessionInv
    <3>2. S \in SUBSET Devices /\ "rtc" \in S /\ T = S \ {"rtc"}
      BY DEF Devices
    <3> HIDE DEF S, T
    <3>3. /\ Subscribed(T)' /\ UNCHANGED <<hook, bit_no>>
          /\ pc = "rtc_unsubscribe_int" /\ pc' = "timer_unsubscribe_int" /\ rc' = rc
      BY <2>3, <2>4, <3>1, <3>2
    <3>4. QED
      BY <3>3 DEF SessionInv, T
  <2>5. ASSUME unsubscribe_int("timer", Unsubscribe["timer"], "DISABLE_MOUSE")
        PROVE  SessionInv'
    <3> DEFINE S == {"mouse", "kbd", "timer"}
               T == {"mouse", "kbd"}
    <3>1. Subscribed(S)
      BY <2>5 DEF unsubscribe_int, Then, SessionInv
    <3>2. S \in SUBSET Devices /\ "timer" \in S /\ T = S \ {"timer"}
      BY DEF Devices
    <3> HIDE DEF S, T
    <3>3. /\ Subscribed(T)' /\ UNCHANGED <<hook, bit_no>>
          /\ pc = "timer_unsubscribe_int" /\ pc' = "DISABLE_MOUSE" /\ rc' = rc
      BY <2>3, <2>5, <3>1, <3>2
    <3>4. QED
      BY <3>3 DEF SessionInv, T
  <2>6. ASSUME unsubscribe_int("mouse", Unsubscribe["mouse"], "kbd_unsubscribe_int")
        PROVE  SessionInv'
    <3> DEFINE S == {"mouse", "kbd"}
               T == {"kbd"}
    <3>1. Subscribed(S)
      BY <2>6 DEF unsubscribe_int, Then, SessionInv
    <3>2. S \in SUBSET Devices /\ "mouse" \in S /\ T = S \ {"mouse"}
      BY DEF Devices
    <3> HIDE DEF S, T
    <3>3. /\ Subscribed(T)' /\ UNCHANGED <<hook, bit_no>>
          /\ pc = "mouse_unsubscribe_int" /\ pc' = "kbd_unsubscribe_int" /\ rc' = rc
      BY <2>3, <2>6, <3>1, <3>2
    <3>4. QED
      BY <3>3 DEF SessionInv, T
  <2>7. ASSUME unsubscribe_int("kbd", Unsubscribe["kbd"], "vg_exit")
        PROVE  SessionInv'
    <3> DEFINE S == {"kbd"}
               T == {}
    <3>1. Subscribed(S)
      BY <2>7 DEF unsubscribe_int, Then, SessionInv
    <3>2. S \in SUBSET Devices /\ "kbd" \in S /\ T = S \ {"kbd"}
      BY DEF Devices
    <3> HIDE DEF S, T
    <3>3. /\ Subscribed(T)' /\ UNCHANGED <<hook, bit_no>>
          /\ pc = "kbd_unsubscribe_int" /\ pc' = "vg_exit" /\ rc' = rc
      BY Zenon, <2>3, <2>7, <3>1, <3>2
    <3>4. QED
      BY <3>3 DEF SessionInv, T
  <2>8. QED
    BY <2>1, <2>2, <2>4, <2>5, <2>6, <2>7 DEF TakeDown
<1>3. Loop \/ MouseCalls \/ Fail => SessionInv'
  BY Same DEF Loop, MouseCalls, MouseCall, Fail, Then, SessionInv
<1>4. Gone \/ UNCHANGED sessionVars => SessionInv'
  BY Same DEF Gone, sessionVars, SessionInv
<1>5. QED
  BY <1>1, <1>2, <1>3, <1>4 DEF SessionNext

LEMMA SessionInvAlways == Spec => []SessionInv
BY ImplementsSession, SessionInvInit, SessionInvNext, PTL DEF SessionSpec

\* The loop tests for each device the bit the kernel sets for it, and no two
\* devices share a bit, whatever ids the kernel hands out.
THEOREM LoopKnowsBitsTheorem == Spec => []LoopKnowsBits
<1>1. ASSUME SessionInv PROVE LoopKnowsBits
  <2> SUFFICES ASSUME pc = "loop" PROVE LoopKnowsBits
    BY DEF LoopKnowsBits
  <2>1. Subscribed(Devices)
    BY <1>1 DEF SessionInv
  <2>2. \A d \in Devices : Policy(d) \in hooks /\ Policy(d).dev = d /\ Policy(d).bit = bit_no[d]
    BY <2>1 DEF Subscribed, Policy
  <2>3. \A d, e \in Devices : InitialHook[d] = InitialHook[e] => d = e
    BY DEF Devices, InitialHook
  <2>4. QED
    BY <2>1, <2>2, <2>3 DEF LoopKnowsBits, Subscribed
<1>2. QED
  BY SessionInvAlways, <1>1, PTL

\* Each unsubscribe function gives up the policy of its own device: the kernel
\* still has one with the id in the variable of that device.
THEOREM UnsubscribesTheorem == Spec => []UnsubscribesItsOwn
<1>1. ASSUME SessionInv PROVE UnsubscribesItsOwn
  <2>1. ASSUME NEW S, NEW d \in S, Subscribed(S) PROVE \E h \in hooks : h.dev = d /\ h.id = hook[d]
    <3>1. Policy(d) \in hooks /\ Policy(d).dev = d /\ Policy(d).id = hook[d]
      BY <2>1 DEF Subscribed, Policy
    <3>2. QED
      BY <3>1
  <2>2. ASSUME NEW d \in Devices, pc = Unsubscribe[d]
        PROVE  \E S : d \in S /\ Subscribed(S)
    BY <1>1, <2>2 DEF SessionInv, Unsubscribe, Devices
  <2>3. QED
    BY <2>1, <2>2 DEF UnsubscribesItsOwn
<1>2. QED
  BY SessionInvAlways, <1>1, PTL

\* When game_loop returns 0 the screen is back in text mode and the kernel has
\* no policy of the game.
THEOREM CleanExitTheorem == Spec => []CleanExit
<1>1. SessionInv => CleanExit
  BY DEF SessionInv, CleanExit
<1>2. QED
  BY SessionInvAlways, <1>1, PTL

-------------------------------------------------------------------------------
(***************************************************************************)
(* Where the prefix 0xD4 and the command are.  The prefix is in the input  *)
(* buffer or taken from the moment it is written until the command has     *)
(* followed it; a command in the input buffer always has a taken prefix    *)
(* before it, the call that wrote it waits for it to be taken, and after   *)
(* the 20 ms the mouse has got it.                                         *)
(***************************************************************************)
PrefixFirst ==
    /\ step = "status2" => toMouse \/ inBuf = "D4"
    /\ step = "write2" => toMouse
    /\ inBuf = "cmd" => toMouse /\ step = "delay" /\ cmd # "none"
    /\ step = "delay" => inBuf \in {"cmd", "empty"}
    /\ step = "delay" /\ inBuf = "empty" => received
    /\ step = "read" => received
    /\ answered => received
    /\ ~astray

\* The mouse has carried out the command that runs, or its refusal is unread.
Obeyed(c) == obeyed = c \/ RefusalUnread

\* The command that runs is the one game_loop has come to.  When its answer is
\* read, the mouse has carried it out or the refusal is still to be read; what
\* makes the function return 0 is no refusal, so the same holds afterwards.
LastObeyed ==
    /\ cmd \in {"none", "ENABLE_MOUSE", "DISABLE_MOUSE"}
    /\ cmd # "none" => cmd = pc
    /\ cmd # "none" /\ step = "delay" /\ inBuf = "empty" => Obeyed(cmd)
    /\ cmd # "none" /\ step = "read" => Obeyed(cmd)
    /\ cmd # "none" /\ answered /\ ack = "ACK" => step \in {"test", "done"} /\ Obeyed(cmd)
    /\ ~answered => ack \in Garbage
    /\ ret = 0 => step = "done" /\ ack = "ACK"
    /\ cmd = "none" => step \in {"status1", "done"} /\ inBuf # "cmd"
    /\ pc \in {"mouse_unsubscribe_int", "kbd_unsubscribe_int", "vg_exit"} \/ rc = 0
         => cmd = "none" /\ ack = "ACK" /\ (answered => Obeyed("DISABLE_MOUSE"))

MouseInv == PrefixFirst /\ LastObeyed

\* What the mouse does alone can only add a refusal that nobody has read.
LEMMA ObeyedKept ==
    /\ UNCHANGED <<obeyed, refused, reply, outBuf, obf>> => \A c : Obeyed(c) => Obeyed(c)'
    /\ Sent => \A c : Obeyed(c) => Obeyed(c)'
<1> USE DEF Obeyed, RefusalUnread
<1>1. UNCHANGED <<obeyed, refused, reply, outBuf, obf>> => \A c : Obeyed(c) => Obeyed(c)'
  OBVIOUS
<1>2. Sent => \A c : Obeyed(c) => Obeyed(c)'
  <2>1. Sent => UNCHANGED <<obeyed, refused>> /\ ~obf /\ obf'
                /\ (UNCHANGED reply \/ outBuf' = reply)
    BY DEF Sent, SendReply, SendNoise, linkVars, mouseVars
  <2> QED
    BY <2>1
<1> QED
  BY <1>1, <1>2

\* What the function, the controller and the mouse do.
LEMMA MouseInvStep ==
    ASSUME MouseInv, Inside \/ Taken \/ Sent
    PROVE  MouseInv'
<1> USE DEF MouseInv, PrefixFirst, LastObeyed, progVars, mouseVars, bufVars, linkVars, sessionVars
<1>1. CASE Inside
  <2>1. CASE Status("status1", "write1") \/ Status("status2", "write2")
    BY <1>1, <2>1, ObeyedKept DEF Inside, Status, CanWrite
  <2>2. CASE WritePort("write1", "D4", "status2") \/ WritePort("write2", "cmd", "delay")
    BY <1>1, <2>2, ObeyedKept DEF Inside, WritePort
  <2>3. CASE tickdelay
    BY <1>1, <2>3, ObeyedKept DEF Inside, tickdelay, DelayOver
  <2>4. CASE Test
    BY <1>1, <2>4, ObeyedKept DEF Inside, Test, Retry
  <2>5. CASE PortError
    BY <1>1, <2>5, ObeyedKept DEF Inside, PortError
  <2>6. CASE ReadAck
    <3>1. Obeyed(cmd) /\ cmd' = cmd /\ cmd # "none"
      BY <1>1, <2>6 DEF Inside, ReadAck
    <3>2. ack' = "ACK" => Obeyed(cmd)'
      BY <1>1, <2>6, <3>1 DEF Inside, ReadAck, Obeyed, RefusalUnread
    <3> QED
      BY <1>1, <2>6, <3>1, <3>2 DEF Inside, ReadAck
  <2>7. QED
    BY <1>1, <2>1, <2>2, <2>3, <2>4, <2>5, <2>6 DEF Inside, send_mouse_command
<1>2. CASE Taken
  <2>1. CASE TakeEarlier \/ TakePrefix
    <3>1. inBuf # "cmd"
      BY <2>1 DEF TakeEarlier, TakePrefix
    <3>2. UNCHANGED <<obeyed, refused, reply, outBuf, obf>>
      BY <1>2, <2>1, <3>1 DEF Taken, TakeEarlier, TakePrefix
    <3> QED
      BY <1>2, <2>1, <3>2, ObeyedKept DEF Taken, TakeEarlier, TakePrefix
  <2>2. CASE TakeCommand
    <3>1. toMouse /\ step = "delay" /\ cmd # "none" /\ inBuf = "cmd"
      BY <2>2 DEF TakeCommand
    <3>2. Obeyed(cmd)' /\ cmd' = cmd
      BY Zenon, <1>2, <2>2, <3>1 DEF Taken, TakeCommand, Answer, Obeyed, RefusalUnread
    <3> QED
      BY <1>2, <2>2, <3>1, <3>2 DEF Taken, TakeCommand, Answer
  <2>3. QED
    BY <1>2, <2>1, <2>2 DEF Taken, TakeInput
<1>3. CASE Sent
  BY SMTT(30), <1>3, ObeyedKept DEF Sent, SendReply, SendNoise
<1>4. QED
  BY <1>1, <1>2, <1>3

\* What game_loop does.
LEMMA MouseInvNext == MouseInv /\ SessionInv /\ [Next]_allVars => MouseInv'
<1> SUFFICES ASSUME MouseInv, SessionInv, [Next]_allVars PROVE MouseInv'
  OBVIOUS
<1> USE DEF MouseInv, PrefixFirst, LastObeyed, progVars, mouseVars, bufVars, cmdVars, linkVars
<1>1. Enter => MouseInv'
  BY ObeyedKept DEF Enter, Command, sessionVars, SessionInv
<1>2. Back => MouseInv'
  BY ObeyedKept DEF Back, MouseCalls, MouseCall, Then, Fail, SessionInv
<1>3. Other => MouseInv'
  <2>1. SetUp => MouseInv' \/ ~Other
    BY ObeyedKept DEF Other, SetUp, vg_get_mode_info, vg_get_mode_info_panic, vg_set_mode,
           subscribe_int, rtc_enable, Then, SessionInv
  <2>2. TakeDown => MouseInv' \/ ~Other
    BY ObeyedKept DEF Other, TakeDown, rtc_disable, unsubscribe_int, Unsubscribe, vg_exit, Then,
           SessionInv
  <2>3. QED
    BY <2>1, <2>2 DEF Other
<1>4. OtherFails \/ LoopEnds \/ LoopReads => MouseInv'
  BY ObeyedKept DEF OtherFails, Fail, LoopEnds, Loop, Then, LoopReads, sessionVars, SessionInv
<1>5. Over \/ UNCHANGED allVars => MouseInv'
  BY ObeyedKept DEF Over, allVars, sessionVars
<1>6. QED
  BY <1>1, <1>2, <1>3, <1>4, <1>5, MouseInvStep DEF Next

LEMMA MouseInvAlways == Spec => []MouseInv
<1>1. Init => MouseInv
  BY DEF Init, SessionInit, CommandInit, MouseInv, PrefixFirst, LastObeyed
<1>2. QED
  BY <1>1, MouseInvNext, SessionInvAlways, PTL DEF Spec

\* A command is never taken for a byte to the keyboard, although
\* send_mouse_command may start again between the prefix and the command, and
\* the second call may find the prefix of the first one in the controller.
THEOREM ToMouseTheorem == Spec => []ToMouse
<1>1. MouseInv => ToMouse
  BY DEF MouseInv, PrefixFirst, ToMouse
<1>2. QED
  BY MouseInvAlways, <1>1, PTL

\* When game_loop has returned 0, the mouse has carried out DISABLE_MOUSE, or its
\* refusal is unread, or no answer was read and ack held ACK by chance.
THEOREM MouseStopsTheorem == Spec => []MouseStops
<1>1. MouseInv => MouseStops
  BY DEF MouseInv, LastObeyed, Obeyed, MouseStops
<1>2. QED
  BY MouseInvAlways, <1>1, PTL

-------------------------------------------------------------------------------
(***************************************************************************)
(* send_mouse_command returns and game_loop goes on.                       *)
(*                                                                         *)
(* The fairness of FairSpec, with the condition written out under which    *)
(* the program, the controller and the mouse can take their steps.         *)
(***************************************************************************)
Run == Enter \/ Inside \/ Back \/ Other

\* Only in its delay does send_mouse_command wait for the controller.
CanRun ==
    /\ pc \notin {"loop", "returned", "panic"}
    /\ cmd # "none" /\ step = "delay" => inBuf = "empty"

ProgramRuns == []<>~CanRun \/ []<><<Run>>_allVars

ControllerTakes == []<>(inBuf = "empty") \/ []<><<Taken>>_allVars

ReplySent == SendReply /\ UNCHANGED <<sessionVars, linkVars>>

MouseReplies == []<>~(reply # "none" /\ ~obf) \/ []<><<ReplySent>>_allVars

PrefixTaken == step = "status2" /\ TakePrefix /\ UNCHANGED <<sessionVars, linkVars>>

\* If 0xD4 is in the controller infinitely often when the second status is about
\* to be read, it is taken in time infinitely often.
PrefixInTime == <>[]~(step = "status2" /\ inBuf = "D4") \/ []<><<PrefixTaken>>_allVars

Fairly == ProgramRuns /\ ControllerTakes /\ MouseReplies /\ PrefixInTime

\* Errors and bytes of other origin come to an end, after any number of them.
NoiseEnds == <>[][noise' = noise]_allVars

Steps == {"status1", "write1", "status2", "write2", "delay", "read", "test", "done"}

Calls ==
    {"vg_get_mode_info", "vg_set_mode", "mouse_subscribe_int", "ENABLE_MOUSE",
     "kbd_subscribe_int", "timer_subscribe_int", "rtc_subscribe_int", "rtc_enable", "loop",
     "rtc_disable", "rtc_unsubscribe_int", "timer_unsubscribe_int", "DISABLE_MOUSE",
     "mouse_unsubscribe_int", "kbd_unsubscribe_int", "vg_exit", "returned", "panic"}

\* Where game_loop and send_mouse_command are.  Between its two statuses the
\* function finds nothing but its own 0xD4 in the controller.
PlaceInv ==
    /\ pc \in Calls
    /\ step \in Steps
    /\ noise \in Nat
    /\ step = "status2" => inBuf \in {"D4", "empty"}

Busy == cmd # "none"

\* Where a call of send_mouse_command is.
At(s) == cmd # "none" /\ step = s

Empty == inBuf = "empty"

\* While send_mouse_command runs, only it moves on, only the controller empties
\* the input buffer and only a write fills it.
LEMMA BusySteps ==
    ASSUME MouseInv, [Next]_allVars, Busy
    PROVE  \/ Inside
           \/ Back
           \/ UNCHANGED <<cmd, pc, step, ack>> /\ ~Run /\ (Taken \/ UNCHANGED inBuf)
<1> USE DEF Busy
<1>1. pc \in {"ENABLE_MOUSE", "DISABLE_MOUSE"} /\ ~Enter
  BY SMTT(30) DEF MouseInv, LastObeyed, Enter
<1>2. ~Other /\ ~OtherFails /\ ~LoopEnds /\ ~LoopReads /\ ~Over
  BY <1>1 DEF Other, SetUp, TakeDown, vg_get_mode_info, vg_get_mode_info_panic, vg_set_mode,
     subscribe_int, rtc_enable, rtc_disable, unsubscribe_int, Unsubscribe, vg_exit, Then,
     OtherFails, LoopEnds, Loop, LoopReads, Over
<1>3. Taken => UNCHANGED <<cmd, pc, step, ack>>
  BY DEF Taken, TakeInput, TakeEarlier, TakePrefix, TakeCommand, sessionVars, progVars
<1>4. Sent \/ UNCHANGED allVars => UNCHANGED <<cmd, pc, step, ack, inBuf>>
  BY DEF Sent, SendReply, SendNoise, allVars, cmdVars, sessionVars, progVars, linkVars
<1>5. QED
  BY <1>1, <1>2, <1>3, <1>4 DEF Next, Run

LEMMA PlaceInvAlways == Spec => []PlaceInv
<1> USE DEF PlaceInv
<1>1. Init => PlaceInv
  BY SMTT(30) DEF Init, SessionInit, CommandInit, Calls, Steps
<1>2. ASSUME PlaceInv, [Next]_allVars PROVE pc' \in Calls
  <2>1. [SessionNext]_sessionVars
    BY <1>2, SessionStep
  <2>2. QED
    BY <1>2, <2>1 DEF SessionNext, SetUp, Loop, TakeDown, MouseCalls, MouseCall, Fail, Gone,
       vg_get_mode_info, vg_get_mode_info_panic, vg_set_mode, subscribe_int, rtc_enable,
       rtc_disable, unsubscribe_int, Unsubscribe, vg_exit, Then, sessionVars, Calls
<1>3. ASSUME PlaceInv, [Next]_allVars
      PROVE  /\ step' \in Steps /\ noise' \in Nat
             /\ step' = "status2" => inBuf' \in {"D4", "empty"}
  <2>1. CASE Inside
    BY <1>3, <2>1 DEF Inside, send_mouse_command, Status, WritePort, tickdelay, ReadAck, Test,
       PortError, bufVars, Steps
  <2>2. CASE Taken
    BY <1>3, <2>2 DEF Taken, TakeInput, TakeEarlier, TakePrefix, TakeCommand, Answer, progVars,
       bufVars
  <2>3. CASE Sent
    BY <1>3, <2>3 DEF Sent, SendReply, SendNoise, progVars
  <2>4. CASE Enter
    BY <1>3, <2>4 DEF Enter, bufVars, Steps
  <2>5. CASE UNCHANGED <<step, noise, inBuf>>
    BY <1>3, <2>5
  <2>6. Back \/ Other \/ OtherFails \/ LoopEnds \/ LoopReads \/ Over \/ UNCHANGED allVars
        => UNCHANGED <<step, noise, inBuf>>
    BY DEF Back, Other, OtherFails, LoopEnds, LoopReads, Over, allVars, cmdVars, progVars, bufVars
  <2>7. QED
    BY <1>3, <2>1, <2>2, <2>3, <2>4, <2>5, <2>6 DEF Next
<1>4. PlaceInv /\ [Next]_allVars => PlaceInv'
  BY <1>2, <1>3
<1>5. QED
  BY <1>1, <1>4, PTL DEF Spec

\* What happens while a call of send_mouse_command takes no step itself.
LEMMA CallWaits ==
    ASSUME MouseInv, [Next]_allVars, Busy, ~Run
    PROVE  /\ \A s : At(s) => At(s)'
           /\ Empty => Empty'
           /\ UNCHANGED ack
<1>1. UNCHANGED <<cmd, step, ack>> /\ (Taken \/ UNCHANGED inBuf)
  BY BusySteps DEF Run
<1>2. Taken => Empty'
  BY DEF Taken, TakeInput, TakeEarlier, TakePrefix, TakeCommand, Empty
<1>3. QED
  BY <1>1, <1>2 DEF At, Empty

\* One step of it: the two statuses and writes,
LEMMA CallWrites ==
    ASSUME MouseInv, [Next]_allVars, Run, Busy
    PROVE  /\ At("status1") => At("done")' \/ (IF Empty THEN At("write1")' /\ Empty' ELSE At("test")')
           /\ At("write1") => At("done")' \/ At("status2")'
           /\ At("status2") => At("done")' \/ (IF Empty THEN At("write2")' ELSE At("test")')
           /\ At("write2") => At("done")' \/ (At("delay")' /\ inBuf' = "cmd")
<1> USE DEF At, Empty
<1> SUFFICES ASSUME step \in {"status1", "write1", "status2", "write2"}, Inside
             PROVE  /\ At("status1") => \/ At("done")'
                                        \/ (IF Empty THEN At("write1")' /\ Empty' ELSE At("test")')
                    /\ At("write1") => At("done")' \/ At("status2")'
                    /\ At("status2") => At("done")' \/ (IF Empty THEN At("write2")' ELSE At("test")')
                    /\ At("write2") => At("done")' \/ (At("delay")' /\ inBuf' = "cmd")
  BY BusySteps DEF Back
<1>1. UNCHANGED cmd
  BY DEF Inside, linkVars
<1>2. CASE PortError
  BY <1>1, <1>2 DEF PortError
<1>3. CASE Status("status1", "write1") \/ Status("status2", "write2")
  BY <1>1, <1>3 DEF Status, CanWrite
<1>4. CASE WritePort("write1", "D4", "status2") \/ WritePort("write2", "cmd", "delay")
  BY <1>1, <1>4 DEF WritePort
<1>5. QED
  BY <1>2, <1>3, <1>4 DEF Inside, send_mouse_command, tickdelay, ReadAck, Test

\* and the answer.
LEMMA CallReads ==
    ASSUME MouseInv, [Next]_allVars, Run, Busy
    PROVE  /\ At("delay") => At("read")' /\ Empty
           /\ At("read") => At("done")' \/ (At("test")' /\ ack' = outBuf /\ ~obf' /\ reply' = reply)
           /\ At("test") => At("done")' \/ (At("status1")' /\ ack # "ACK" /\ inBuf' = inBuf)
           /\ At("done") => ~Busy'
<1> USE DEF At, Empty
<1>1. CASE step = "done"
  <2>1. ~Inside
    BY <1>1 DEF Inside, send_mouse_command, Status, WritePort, tickdelay, ReadAck, Test, PortError
  <2>2. QED
    BY <1>1, <2>1, BusySteps DEF Back, Busy
<1>2. CASE step \in {"delay", "read", "test"}
  <2>1. Inside
    BY <1>2, BusySteps DEF Back
  <2>2. UNCHANGED cmd
    BY <2>1 DEF Inside, linkVars
  <2>3. CASE PortError
    BY <1>2, <2>2, <2>3 DEF PortError
  <2>4. CASE tickdelay \/ Test
    BY <2>2, <2>4 DEF tickdelay, DelayOver, Test, Retry
  <2>5. CASE ReadAck
    BY <2>2, <2>5 DEF ReadAck
  <2>6. QED
    BY <1>2, <2>1, <2>3, <2>4, <2>5 DEF Inside, send_mouse_command, Status, WritePort
<1>3. QED
  BY <1>1, <1>2

\* The function can always go on, but for its delay.
LEMMA CallCanRun ==
    ASSUME MouseInv, Busy
    PROVE  (step # "delay" \/ Empty) => CanRun
BY DEF MouseInv, LastObeyed, Busy, Empty, CanRun

(***************************************************************************)
(* A call of send_mouse_command comes to read an answer again and again    *)
(* until it is done: it does not write 0xD4 for ever, nor find the input   *)
(* buffer full for ever.                                                   *)
(***************************************************************************)
LEMMA ReadsAgain ==
    Spec /\ ProgramRuns /\ ControllerTakes /\ PrefixInTime
      => []<>(~Busy \/ At("read") \/ At("done"))
<1> DEFINE Inv == MouseInv /\ PlaceInv
<1>1. Inv /\ [Next]_allVars =>
        /\ At("status1") =>
             /\ CanRun
             /\ At("status1")' \/ At("write1")' \/ At("test")' \/ At("done")'
             /\ Empty => (At("status1")' /\ Empty') \/ At("write1")' \/ At("done")'
             /\ <<Run>>_allVars => ~At("status1")'
        /\ At("write1") =>
             /\ CanRun
             /\ At("write1")' \/ At("status2")' \/ At("done")'
             /\ <<Run>>_allVars => ~At("write1")'
  <2> SUFFICES ASSUME Inv, [Next]_allVars, At("status1") \/ At("write1")
               PROVE  /\ At("status1") =>
                           /\ CanRun
                           /\ At("status1")' \/ At("write1")' \/ At("test")' \/ At("done")'
                           /\ Empty => (At("status1")' /\ Empty') \/ At("write1")' \/ At("done")'
                           /\ Run => ~At("status1")'
                      /\ At("write1") =>
                           /\ CanRun
                           /\ At("write1")' \/ At("status2")' \/ At("done")'
                           /\ Run => ~At("write1")'
    BY DEF At
  <2>1. Busy /\ CanRun
    BY CallCanRun DEF At, Busy
  <2>2. CASE Run
    BY <2>1, <2>2, CallWrites DEF At
  <2>3. CASE ~Run
    BY <2>1, <2>3, CallWaits
  <2>4. QED
    BY <2>2, <2>3
<1>2. Inv /\ [Next]_allVars =>
        /\ At("status2") =>
             /\ CanRun /\ (Empty \/ (step = "status2" /\ inBuf = "D4"))
             /\ At("status2")' \/ At("write2")' \/ At("test")' \/ At("done")'
             /\ Empty => (At("status2")' /\ Empty') \/ At("write2")' \/ At("done")'
             /\ <<Run>>_allVars => ~At("status2")'
        /\ At("write2") =>
             /\ CanRun
             /\ At("write2")' \/ At("delay")' \/ At("done")'
             /\ <<Run>>_allVars => ~At("write2")'
  <2> SUFFICES ASSUME Inv, [Next]_allVars, At("status2") \/ At("write2")
               PROVE  /\ At("status2") =>
                           /\ CanRun /\ (Empty \/ (step = "status2" /\ inBuf = "D4"))
                           /\ At("status2")' \/ At("write2")' \/ At("test")' \/ At("done")'
                           /\ Empty => (At("status2")' /\ Empty') \/ At("write2")' \/ At("done")'
                           /\ Run => ~At("status2")'
                      /\ At("write2") =>
                           /\ CanRun
                           /\ At("write2")' \/ At("delay")' \/ At("done")'
                           /\ Run => ~At("write2")'
    BY DEF At
  <2>1. Busy /\ CanRun /\ (step = "status2" => Empty \/ inBuf = "D4")
    BY CallCanRun DEF At, Busy, PlaceInv, Empty
  <2>2. CASE Run
    BY <2>1, <2>2, CallWrites DEF At
  <2>3. CASE ~Run
    BY <2>1, <2>3, CallWaits DEF At
  <2>4. QED
    BY <2>2, <2>3
<1>3. Inv /\ [Next]_allVars =>
        /\ At("delay") =>
             /\ Empty => CanRun
             /\ (At("delay")' /\ (Empty => Empty')) \/ At("read")'
             /\ <<Run>>_allVars => At("read")'
        /\ At("test") =>
             /\ CanRun
             /\ ((At("test")' \/ At("status1")') /\ (Empty => Empty')) \/ At("done")'
             /\ <<Run>>_allVars => ~At("test")'
  <2> SUFFICES ASSUME Inv, [Next]_allVars, At("delay") \/ At("test")
               PROVE  /\ At("delay") =>
                           /\ Empty => CanRun
                           /\ (At("delay")' /\ (Empty => Empty')) \/ At("read")'
                           /\ Run => At("read")'
                      /\ At("test") =>
                           /\ CanRun
                           /\ ((At("test")' \/ At("status1")') /\ (Empty => Empty')) \/ At("done")'
                           /\ Run => ~At("test")'
    BY DEF At
  <2>1. Busy /\ (Empty \/ At("test") => CanRun)
    BY CallCanRun DEF At, Busy
  <2>2. CASE Run
    BY <2>1, <2>2, CallReads DEF At, Empty
  <2>3. CASE ~Run
    BY <2>1, <2>3, CallWaits DEF At
  <2>4. QED
    BY <2>2, <2>3
<1>4. /\ <<Taken>>_allVars => Empty'
      /\ <<PrefixTaken>>_allVars => Empty' /\ step = "status2" /\ step' = "status2" /\ cmd' = cmd
  BY DEF Taken, TakeInput, TakeEarlier, TakePrefix, TakeCommand, Empty, PrefixTaken, progVars,
     linkVars
<1>5. <<PrefixTaken>>_allVars => (Busy => At("status2")' /\ Empty')
  BY <1>4 DEF Busy, At
<1>6. Inv /\ Busy => \/ At("status1") \/ At("write1") \/ At("status2") \/ At("write2")
                     \/ At("delay") \/ At("read") \/ At("test") \/ At("done")
  BY DEF PlaceInv, Steps, Busy, At
<1>7. (inBuf = "empty") <=> Empty
  BY DEF Empty
<1>8. QED
  BY <1>1, <1>2, <1>3, <1>4, <1>5, <1>6, <1>7, MouseInvAlways, PlaceInvAlways, PTL
     DEF Spec, ProgramRuns, ControllerTakes, PrefixInTime

\* ACK has come out of the controller, and no other answer is on its way.
Acked == outBuf = "ACK" /\ reply \in {"none", "ACK"}

\* Without errors and bytes of other origin, an ACK comes out of the controller
\* and stays there, whatever else happens.
LEMMA AckStays ==
    ASSUME MouseInv, PlaceInv, [Next]_allVars, noise' = noise
    PROVE  /\ Acked => Acked'
           /\ reply = "ACK" => reply' = "ACK" \/ Acked'
           /\ reply = "ACK" /\ ~obf => (reply' = "ACK" /\ ~obf') \/ Acked'
           /\ reply = "ACK" /\ ReplySent => Acked'
           /\ At("delay") /\ inBuf = "cmd" =>
                /\ (At("delay")' /\ inBuf' = "cmd") \/ reply' = "ACK"
                /\ Taken => reply' = "ACK"
<1> USE DEF Acked
<1>1. CASE Taken
  <2>1. CASE TakeEarlier \/ TakePrefix
    BY <1>1, <2>1 DEF Taken, TakeEarlier, TakePrefix, bufVars, ReplySent, SendReply
  <2>2. CASE TakeCommand
    <3>1. reply' = "ACK" /\ UNCHANGED <<outBuf, obf>>
      BY <2>2 DEF TakeCommand, Answer, MouseInv, PrefixFirst, PlaceInv
    <3>2. QED
      BY <3>1 DEF ReplySent, SendReply
  <2>3. QED
    BY <1>1, <2>1, <2>2 DEF Taken, TakeInput
<1>2. CASE Sent
  <2>1. SendReply /\ UNCHANGED linkVars
    BY <1>2 DEF Sent, SendNoise, PlaceInv
  <2>2. QED
    BY Zenon, <2>1 DEF SendReply, linkVars, progVars, At, Taken, TakeInput, TakeEarlier, TakePrefix,
       TakeCommand
<1>3. CASE ~Taken /\ ~Sent
  <2>1. UNCHANGED <<reply, outBuf>> /\ (~obf => ~obf')
    BY <1>3 DEF Next, Enter, Inside, send_mouse_command, Status, WritePort, tickdelay, ReadAck, Test,
       PortError, Back, Other, OtherFails, LoopEnds, LoopReads, Over, allVars, cmdVars, bufVars
  <2>2. ~ReplySent
    BY <1>3 DEF ReplySent, Sent
  <2>3. ASSUME At("delay"), inBuf = "cmd" PROVE At("delay")' /\ inBuf' = "cmd"
    <3>1. Busy
      BY <2>3 DEF At, Busy
    <3>2. ~Run
      BY <2>3, <3>1, CallReads DEF Empty
    <3>3. QED
      BY <1>3, <2>3, <3>1, <3>2, BusySteps, CallWaits DEF Run
  <2>4. QED
    BY SMTT(30), <1>3, <2>1, <2>2, <2>3
<1>4. QED
  BY <1>1, <1>2, <1>3

(***************************************************************************)
(* send_mouse_command returns, however many bytes and errors have come in  *)
(* between and whatever ack held at first, if they come to an end and the  *)
(* controller takes 0xD4 in time now and then: the mouse then answers ACK, *)
(* and nothing takes the place of that answer before it is read.           *)
(***************************************************************************)
THEOREM CommandReturnsTheorem == Spec /\ Fairly /\ NoiseEnds => (Busy ~> ~Busy)
<1> DEFINE Inv == MouseInv /\ PlaceInv
           Got == At("test") /\ ack = "ACK"
           Written == At("delay") /\ inBuf = "cmd"
           Coming == reply = "ACK"
           Room == reply = "ACK" /\ ~obf
<1>1. Inv /\ [Next]_allVars =>
        /\ At("read") =>
             /\ CanRun
             /\ At("read")' \/ At("test")' \/ At("done")'
             /\ <<Run>>_allVars => ~At("read")'
             /\ Acked => At("read")' \/ Got' \/ At("done")'
             /\ Coming => (At("read")' \/ Room' \/ At("done")')
        /\ Got => Got' \/ At("done")'
        /\ Got /\ <<Run>>_allVars => At("done")'
  <2> SUFFICES ASSUME Inv, [Next]_allVars, At("read") \/ At("test")
               PROVE  /\ At("read") =>
                           /\ CanRun
                           /\ At("read")' \/ At("test")' \/ At("done")'
                           /\ Run => ~At("read")'
                           /\ Acked => At("read")' \/ Got' \/ At("done")'
                           /\ Coming => (At("read")' \/ Room' \/ At("done")')
                      /\ Got => Got' \/ At("done")'
                      /\ Got /\ Run => At("done")'
    BY DEF At
  <2>1. Busy /\ CanRun
    BY CallCanRun DEF At, Busy
  <2>2. CASE Run
    BY <2>1, <2>2, CallReads DEF At, Acked
  <2>3. CASE ~Run
    BY <2>1, <2>3, CallWaits
  <2>4. QED
    BY <2>2, <2>3
<1>2. Inv /\ [Next]_allVars =>
        /\ At("test") => CanRun /\ (At("test")' \/ At("status1")' \/ At("done")')
        /\ At("status1") => At("status1")' \/ At("write1")' \/ At("test")' \/ At("done")'
        /\ At("write1") => At("write1")' \/ At("status2")' \/ At("done")'
        /\ At("status2") => At("status2")' \/ At("write2")' \/ At("test")' \/ At("done")'
        /\ At("write2") => CanRun /\ (At("write2")' \/ Written' \/ At("done")')
        /\ At("write2") /\ <<Run>>_allVars => ~At("write2")'
        /\ At("done") => CanRun /\ (At("done")' \/ ~Busy')
        /\ At("done") /\ <<Run>>_allVars => ~Busy'
  <2> SUFFICES ASSUME Inv, [Next]_allVars, Busy, step # "delay"
               PROVE  /\ At("test") => CanRun /\ (At("test")' \/ At("status1")' \/ At("done")')
                      /\ At("status1") => At("status1")' \/ At("write1")' \/ At("test")' \/ At("done")'
                      /\ At("write1") => At("write1")' \/ At("status2")' \/ At("done")'
                      /\ At("status2") => At("status2")' \/ At("write2")' \/ At("test")' \/ At("done")'
                      /\ At("write2") => CanRun /\ (At("write2")' \/ Written' \/ At("done")')
                      /\ At("write2") /\ Run => ~At("write2")'
                      /\ At("done") => CanRun /\ (At("done")' \/ ~Busy')
                      /\ At("done") /\ Run => ~Busy'
    BY DEF At, Busy
  <2>1. CanRun
    BY CallCanRun
  <2>2. CASE Run
    BY <2>1, <2>2, CallReads, CallWrites DEF At
  <2>3. CASE ~Run
    BY <2>1, <2>3, CallWaits
  <2>4. QED
    BY <2>2, <2>3
<1>3. Inv /\ [Next]_allVars /\ [noise' = noise]_allVars =>
        /\ Acked => Acked'
        /\ Coming => Coming' \/ Acked'
        /\ Room => Room' \/ Acked'
        /\ Room /\ <<ReplySent>>_allVars => Acked'
        /\ Written => Written' \/ Coming'
        /\ Written /\ <<Taken>>_allVars => Coming'
  <2> SUFFICES ASSUME Inv, [Next]_allVars, noise' = noise
               PROVE  /\ Acked => Acked'
                      /\ Coming => Coming' \/ Acked'
                      /\ Room => Room' \/ Acked'
                      /\ Room /\ ReplySent => Acked'
                      /\ Written => Written' \/ Coming'
                      /\ Written /\ Taken => Coming'
    BY DEF allVars, cmdVars, bufVars
  <2>1. QED
    BY AckStays
<1>4. Inv /\ Busy => \/ At("status1") \/ At("write1") \/ At("status2") \/ At("write2")
                     \/ At("delay") \/ At("read") \/ At("test") \/ At("done")
  BY DEF PlaceInv, Steps, Busy, At
<1>5. /\ Room => reply # "none" /\ ~obf
      /\ Written => inBuf # "empty"
      /\ Got => At("test")
  OBVIOUS
<1>6. /\ At("read") => /\ ~At("test") /\ ~At("status1") /\ ~At("write1") /\ ~At("status2")
                       /\ ~At("write2") /\ ~At("delay") /\ Busy
      /\ Written => At("delay")
      /\ At("done") => Busy
  BY DEF At, Busy
<1>7. QED
  BY <1>1, <1>2, <1>3, <1>4, <1>5, <1>6, ReadsAgain, MouseInvAlways, PlaceInvAlways, PTL
     DEF Spec, Fairly, ProgramRuns, ControllerTakes, MouseReplies, PrefixInTime, NoiseEnds

\* The call game_loop has come to, and the states in which it waits or is over.
On(call) == pc = call

Out == pc \in {"loop", "returned", "panic"}

\* A call of another function than send_mouse_command is followed by the next.
LEMMA GameCalls ==
    ASSUME MouseInv, [Next]_allVars, ~Out, pc \notin {"ENABLE_MOUSE", "DISABLE_MOUSE"}
    PROVE  /\ CanRun
           /\ UNCHANGED pc \/ Out' \/ Other
           /\ Run => Other
<1>1. ~Busy
  BY DEF MouseInv, LastObeyed, Busy
<1>2. CanRun
  BY <1>1 DEF CanRun, Busy, Out
<1>3. ~Enter /\ ~Inside /\ ~Back /\ ~LoopEnds
  BY <1>1 DEF Busy, Enter, Inside, Back, LoopEnds, Loop, Then, Out
<1>4. OtherFails => Out'
  BY DEF OtherFails, Fail, Out
<1>5. LoopReads \/ Taken \/ Sent \/ Over \/ UNCHANGED allVars => UNCHANGED pc
  BY DEF LoopReads, Taken, Sent, Over, allVars, sessionVars
<1>6. QED
  BY <1>2, <1>3, <1>4, <1>5 DEF Next, Run

\* A call of send_mouse_command is entered, and when it is back game_loop goes on.
LEMMA MouseCallsGoOn ==
    ASSUME MouseInv, [Next]_allVars, pc \in {"ENABLE_MOUSE", "DISABLE_MOUSE"}
    PROVE  /\ ~Busy => CanRun /\ UNCHANGED pc /\ (Run => Busy')
           /\ Busy => \/ UNCHANGED pc /\ Busy'
                      \/ Out'
                      \/ On("ENABLE_MOUSE") /\ On("kbd_subscribe_int")'
                      \/ On("DISABLE_MOUSE") /\ On("mouse_unsubscribe_int")'
<1>1. ~Other /\ ~OtherFails /\ ~LoopEnds
  BY Zenon DEF Other, SetUp, TakeDown, vg_get_mode_info, vg_get_mode_info_panic, vg_set_mode,
     subscribe_int, rtc_enable, rtc_disable, unsubscribe_int, Unsubscribe, vg_exit, Then,
     OtherFails, LoopEnds, Loop
<1>2. Inside \/ LoopReads \/ Taken \/ Sent \/ Over \/ UNCHANGED allVars => UNCHANGED <<pc, cmd>>
  BY DEF Inside, LoopReads, Taken, Sent, Over, allVars, sessionVars, linkVars
<1>3. Enter => ~Busy /\ Busy' /\ UNCHANGED pc
  BY DEF Enter, Command, Busy, sessionVars
<1>4. Back => /\ Busy
              /\ \/ Out'
                 \/ On("ENABLE_MOUSE") /\ On("kbd_subscribe_int")'
                 \/ On("DISABLE_MOUSE") /\ On("mouse_unsubscribe_int")'
  BY DEF Back, Busy, MouseCalls, MouseCall, Then, Fail, Out, On
<1>5. ~Busy => CanRun /\ ~Inside
  BY DEF Busy, CanRun, Inside
<1>6. QED
  BY SMTT(30), <1>1, <1>2, <1>3, <1>4, <1>5 DEF Next, Run, Busy

(***************************************************************************)
(* game_loop gets to its loop or returns, and it returns after the loop.   *)
(***************************************************************************)
THEOREM GameLoopGoesOnTheorem == Spec /\ Fairly /\ NoiseEnds => GameLoopGoesOn
<1> USE DEF On
<1>1. MouseInv /\ [Next]_allVars =>
        /\ On("vg_get_mode_info") =>
             /\ CanRun /\ (On("vg_get_mode_info")' \/ On("vg_set_mode")' \/ Out')
             /\ <<Run>>_allVars => ~On("vg_get_mode_info")'
        /\ On("vg_set_mode") =>
             /\ CanRun /\ (On("vg_set_mode")' \/ On("mouse_subscribe_int")' \/ Out')
             /\ <<Run>>_allVars => ~On("vg_set_mode")'
        /\ On("mouse_subscribe_int") =>
             /\ CanRun /\ (On("mouse_subscribe_int")' \/ On("ENABLE_MOUSE")' \/ Out')
             /\ <<Run>>_allVars => ~On("mouse_subscribe_int")'
  BY ZenonT(40), GameCalls DEF Other, SetUp, TakeDown, vg_get_mode_info, vg_get_mode_info_panic, vg_set_mode,
     subscribe_int, rtc_enable, rtc_disable, unsubscribe_int, Unsubscribe, vg_exit, Then, Out
<1>2. MouseInv /\ [Next]_allVars =>
        /\ On("kbd_subscribe_int") =>
             /\ CanRun /\ (On("kbd_subscribe_int")' \/ On("timer_subscribe_int")' \/ Out')
             /\ <<Run>>_allVars => ~On("kbd_subscribe_int")'
        /\ On("timer_subscribe_int") =>
             /\ CanRun /\ (On("timer_subscribe_int")' \/ On("rtc_subscribe_int")' \/ Out')
             /\ <<Run>>_allVars => ~On("timer_subscribe_int")'
        /\ On("rtc_subscribe_int") =>
             /\ CanRun /\ (On("rtc_subscribe_int")' \/ On("rtc_enable")' \/ Out')
             /\ <<Run>>_allVars => ~On("rtc_subscribe_int")'
        /\ On("rtc_enable") =>
             /\ CanRun /\ (On("rtc_enable")' \/ Out')
             /\ <<Run>>_allVars => ~On("rtc_enable")'
  BY ZenonT(40), GameCalls DEF Other, SetUp, TakeDown, vg_get_mode_info, vg_get_mode_info_panic, vg_set_mode,
     subscribe_int, rtc_enable, rtc_disable, unsubscribe_int, Unsubscribe, vg_exit, Then, Out
<1>3. MouseInv /\ [Next]_allVars =>
        /\ On("rtc_disable") =>
             /\ CanRun /\ (On("rtc_disable")' \/ On("rtc_unsubscribe_int")' \/ Out')
             /\ <<Run>>_allVars => ~On("rtc_disable")'
        /\ On("rtc_unsubscribe_int") =>
             /\ CanRun /\ (On("rtc_unsubscribe_int")' \/ On("timer_unsubscribe_int")' \/ Out')
             /\ <<Run>>_allVars => ~On("rtc_unsubscribe_int")'
        /\ On("timer_unsubscribe_int") =>
             /\ CanRun /\ (On("timer_unsubscribe_int")' \/ On("DISABLE_MOUSE")' \/ Out')
             /\ <<Run>>_allVars => ~On("timer_unsubscribe_int")'
  BY ZenonT(40), GameCalls DEF Other, SetUp, TakeDown, vg_get_mode_info, vg_get_mode_info_panic, vg_set_mode,
     subscribe_int, rtc_enable, rtc_disable, unsubscribe_int, Unsubscribe, vg_exit, Then, Out
<1>4. MouseInv /\ [Next]_allVars =>
        /\ On("mouse_unsubscribe_int") =>
             /\ CanRun /\ (On("mouse_unsubscribe_int")' \/ On("kbd_unsubscribe_int")' \/ Out')
             /\ <<Run>>_allVars => ~On("mouse_unsubscribe_int")'
        /\ On("kbd_unsubscribe_int") =>
             /\ CanRun /\ (On("kbd_unsubscribe_int")' \/ On("vg_exit")' \/ Out')
             /\ <<Run>>_allVars => ~On("kbd_unsubscribe_int")'
        /\ On("vg_exit") =>
             /\ CanRun /\ (On("vg_exit")' \/ Out')
             /\ <<Run>>_allVars => ~On("vg_exit")'
  BY Zenon, GameCalls DEF Other, SetUp, TakeDown, vg_get_mode_info, vg_get_mode_info_panic, vg_set_mode,
     subscribe_int, rtc_enable, rtc_disable, unsubscribe_int, Unsubscribe, vg_exit, Then, Out
<1>5. MouseInv /\ [Next]_allVars =>
        /\ On("ENABLE_MOUSE") /\ ~Busy =>
             CanRun /\ On("ENABLE_MOUSE")' /\ (<<Run>>_allVars => Busy')
        /\ On("ENABLE_MOUSE") /\ Busy =>
             (On("ENABLE_MOUSE")' /\ Busy') \/ On("kbd_subscribe_int")' \/ Out'
        /\ On("DISABLE_MOUSE") /\ ~Busy =>
             CanRun /\ On("DISABLE_MOUSE")' /\ (<<Run>>_allVars => Busy')
        /\ On("DISABLE_MOUSE") /\ Busy =>
             (On("DISABLE_MOUSE")' /\ Busy') \/ On("mouse_unsubscribe_int")' \/ Out'
  BY MouseCallsGoOn
<1> DEFINE Starting ==
             \/ On("vg_get_mode_info") \/ On("vg_set_mode") \/ On("mouse_subscribe_int")
             \/ On("ENABLE_MOUSE")
             \/ On("kbd_subscribe_int") \/ On("timer_subscribe_int") \/ On("rtc_subscribe_int")
             \/ On("rtc_enable")
           Ending ==
             \/ On("rtc_disable") \/ On("rtc_unsubscribe_int") \/ On("timer_unsubscribe_int")
             \/ On("DISABLE_MOUSE")
             \/ On("mouse_unsubscribe_int") \/ On("kbd_unsubscribe_int") \/ On("vg_exit")
<1>6. PlaceInv => Out \/ Starting \/ Ending
  BY DEF PlaceInv, Calls, Out
<1>7. Out <=> pc \in {"loop", "returned", "panic"}
  BY DEF Out
<1>8. Spec /\ Fairly /\ NoiseEnds => (Starting ~> Out)
  BY <1>1, <1>2, <1>5, CommandReturnsTheorem, MouseInvAlways, PTL DEF Spec, Fairly, ProgramRuns
<1>9. Spec /\ Fairly /\ NoiseEnds => (Ending ~> Out)
  BY <1>3, <1>4, <1>5, CommandReturnsTheorem, MouseInvAlways, PTL DEF Spec, Fairly, ProgramRuns
<1>10. Spec /\ Fairly /\ NoiseEnds => []<>Out
  BY <1>6, <1>8, <1>9, PlaceInvAlways, PTL
<1>11. QED
  BY <1>7, <1>10, PTL DEF GameLoopGoesOn

===============================================================================
