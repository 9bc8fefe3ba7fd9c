------------------------------ MODULE MouseSession ------------------------------
(***************************************************************************)
(* game_loop (game.c) around its loop together with send_mouse_command     *)
(* (mouse.c): Session has the calls and MouseCommand what the two calls    *)
(* of send_mouse_command do with the controller, which runs on between     *)
(* them.  What one call leaves in the buffers, the other one finds there.  *)
(***************************************************************************)
EXTENDS Session, MouseCommand

VARIABLES
    cmd,    \* the call of send_mouse_command that runs, "none" if none does
    obeyed  \* history: the command the mouse carried out last

linkVars == <<cmd, obeyed>>
allVars == <<sessionVars, cmdVars, linkVars>>

Init == SessionInit /\ CommandInit /\ cmd = "none" /\ obeyed = "none"

\* Mutated form: game_loop enables the mouse once more when it ends.
CommandMutant(call) == "ENABLE_MOUSE"

\* The argument of the call.
Command(call) == call

\* send_mouse_command is called: its local variables are new.
Enter ==
    /\ cmd = "none"
    /\ pc \in {"ENABLE_MOUSE", "DISABLE_MOUSE"}
    /\ cmd' = Command(pc)
    /\ step' = "status1"
    /\ ack' \in Garbage
    /\ answered' = FALSE
    /\ received' = FALSE
    /\ ret' = -1
    /\ UNCHANGED <<sessionVars, obeyed, inBuf, toMouse, astray, refused, reply, bufVars>>

Inside ==
    /\ cmd # "none"
    /\ send_mouse_command
    /\ UNCHANGED <<sessionVars, linkVars>>

\* It returns, and game_loop goes on or returns as well.
Back ==
    /\ cmd # "none"
    /\ step = "done"
    /\ IF ret = 0 THEN MouseCalls ELSE Fail
    /\ cmd' = "none"
    /\ UNCHANGED <<cmdVars, obeyed>>

\* The calls of other functions.
Other ==
    /\ SetUp \/ TakeDown
    /\ UNCHANGED <<cmdVars, linkVars>>

OtherFails ==
    /\ pc \notin {"ENABLE_MOUSE", "DISABLE_MOUSE"}
    /\ Fail
    /\ UNCHANGED <<cmdVars, linkVars>>

LoopEnds == Loop /\ UNCHANGED <<cmdVars, linkVars>>

\* The handlers of the loop read the bytes that come (module Input).
LoopReads ==
    /\ pc = "loop"
    /\ obf
    /\ obf' = FALSE
    /\ UNCHANGED <<sessionVars, linkVars, progVars, inBuf, mouseVars, reply, outBuf, noise>>

\* The mouse carries out a command that it acknowledges, and no other.
Taken ==
    /\ TakeInput
    /\ obeyed' = (IF inBuf = "cmd" /\ toMouse /\ ~refused' THEN cmd ELSE obeyed)
    /\ UNCHANGED <<sessionVars, cmd>>

Sent == (SendReply \/ SendNoise) /\ UNCHANGED <<sessionVars, linkVars>>

Over == pc \in {"returned", "panic"} /\ UNCHANGED allVars

Next ==
    \/ Enter
    \/ Inside
    \/ Back
    \/ Other
    \/ OtherFails
    \/ LoopEnds
    \/ LoopReads
    \/ Taken
    \/ Sent
    \/ Over

Spec == Init /\ [][Next]_allVars

(***************************************************************************)
(* Calls return, the controller takes what it is given and hands on what   *)
(* the mouse answers.  Nobody has to end the game, to type or to move the  *)
(* mouse.                                                                  *)
(*                                                                         *)
(* The strong fairness is what send_mouse_command relies on without saying *)
(* so: the second status is read right after 0xD4 was written, and if the  *)
(* controller never takes that byte in between, the function writes 0xD4   *)
(* over and over and does not come to the command.                         *)
(***************************************************************************)
FairSpec ==
    /\ Spec
    /\ WF_allVars(Enter \/ Inside \/ Back \/ Other)
    /\ WF_allVars(Taken)
    /\ WF_allVars(SendReply /\ UNCHANGED <<sessionVars, linkVars>>)
    /\ SF_allVars(step = "status2" /\ TakePrefix /\ UNCHANGED <<sessionVars, linkVars>>)

-------------------------------------------------------------------------------

\* The mouse has refused the last command it got, and nobody has read its answer.
RefusalUnread ==
    /\ refused
    /\ reply \in {"NACK", "ERROR"} \/ (obf /\ outBuf \in {"NACK", "ERROR"})

(***************************************************************************)
(* When game_loop has returned 0, DISABLE_MOUSE is the last command the    *)
(* mouse has carried out, with two exceptions.  send_mouse_command may     *)
(* have read no answer at all (mouse.c:75, "continue") if ack held the     *)
(* value of ACK by chance.  Or it has taken a late answer to ENABLE_MOUSE  *)
(* or a byte of a movement for the answer: then the mouse may have refused *)
(* the command, but only if its refusal is still on the way or in OUT_BUF. *)
(* A refusal that was read is never passed over.                           *)
(***************************************************************************)
MouseStops ==
    rc = 0 /\ (answered \/ "ACK" \notin Garbage)
        => obeyed = "DISABLE_MOUSE" \/ RefusalUnread

(***************************************************************************)
(* game_loop gets to its loop or returns, and it returns after the loop,   *)
(* although send_mouse_command waits for the mouse twice without a limit,  *)
(* if errors and bytes of other origin come to an end and the controller   *)
(* takes 0xD4 in time now and then.                                        *)
(***************************************************************************)
GameLoopGoesOn == pc # "loop" ~> pc \in {"loop", "returned", "panic"}

===============================================================================
