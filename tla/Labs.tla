---------------------------------- MODULE Labs ----------------------------------
(***************************************************************************)
(* A lab program as it is run: lcf_start calls one of the tests of         *)
(* LabTests or, beside the keyboard controller of Poll, kbd_test_poll.     *)
(***************************************************************************)
EXTENDS LabTests, Poll

allVars == <<programVars, ownVars, deviceVars>>

Init == test \in Tests \cup {"poll"} /\ ProgramInit /\ OwnInit /\ DeviceInit

InTest(action) == test # "poll" /\ action /\ UNCHANGED deviceVars

InPoll(action) == test = "poll" /\ action /\ UNCHANGED ownVars

Next == InTest(LabNext) \/ InPoll(PollNext)

LabsSpec == Init /\ [][Next]_allVars

\* The timer goes on interrupting, the calls return, messages are handled and
\* the controller does what it is told.
Spec ==
    /\ LabsSpec
    /\ WF_allVars(InTest(Start))
    /\ WF_allVars(InTest(TimerInt))
    /\ WF_allVars(InTest(TimerMessage))
    /\ WF_allVars(InTest(Leave))
    /\ WF_allVars(InPoll(kbd_test_poll))
    /\ WF_allVars(InPoll(Controller))

===============================================================================
