----------------------------- MODULE MouseCommand -----------------------------
(***************************************************************************)
(* send_mouse_command (mouse.c): how game_loop enables the mouse when it   *)
(* starts and disables it when it ends.  The function writes 0xD4 to the   *)
(* controller and then the command, waits 20 ms, reads the answer and      *)
(* starts again until the answer is ACK.  It polls: the controller and the *)
(* mouse run beside it, and bytes nobody asked for come in between.        *)
(*                                                                         *)
(* "continue" in a do-while jumps to the condition, so the condition may   *)
(* read the local variable ack before anything was stored in it.           *)
(***************************************************************************)
EXTENDS Integers

CONSTANTS
    Garbage,    \* what ack may hold before it is assigned
    MaxNoise    \* bound: bytes that come in between, commands that arrive damaged

\* ACK_ERROR is "ERROR"; "other" is any byte that is no answer of the mouse.
Answers == {"ACK", "NACK", "ERROR"}
Bytes == Answers \cup {"other"}

ASSUME CommandAssumption ==
    /\ Garbage \subseteq Bytes
    /\ Garbage # {}
    /\ MaxNoise \in Nat

VARIABLES
    step,
    ack,
    answered,   \* ack was read from OUT_BUF
    ret,        \* value returned, -1 before
    inBuf,      \* byte in the input buffer of the controller (IBF_BIT)
    toMouse,    \* 0xD4 was taken: the next byte of port 0x60 goes to the mouse
    received,   \* the mouse got the command
    astray,     \* the command went to the keyboard
    refused,    \* the mouse refused the command the last time
    reply,      \* answer of the mouse that is not in OUT_BUF yet
    outBuf,     \* last byte put into OUT_BUF
    obf,        \* it has not been read
    noise

progVars == <<step, ack, answered, ret>>
mouseVars == <<toMouse, received, astray, refused>>
bufVars == <<outBuf, obf, noise>>
cmdVars == <<progVars, inBuf, mouseVars, reply, bufVars>>

\* The controller may still hold a byte written earlier, and OUT_BUF a byte that
\* was read already or that nobody has read.
CommandInit ==
    /\ step = "status1"
    /\ ack \in Garbage
    /\ answered = FALSE
    /\ ret = -1
    /\ inBuf \in {"empty", "earlier"}
    /\ toMouse = FALSE
    /\ received = FALSE
    /\ astray = FALSE
    /\ refused = FALSE
    /\ reply = "none"
    /\ outBuf \in Bytes
    /\ obf \in BOOLEAN
    /\ noise = 0

-------------------------------------------------------------------------------
(***************************************************************************)
(* The controller and the mouse (external).                                *)
(***************************************************************************)

\* The mouse refuses a byte that came with an error, and reports the second
\* refusal in a row with ACK_ERROR (i8042.h:37-39).
Answer ==
    \/ reply' = "ACK" /\ refused' = FALSE /\ UNCHANGED noise
    \/ /\ noise < MaxNoise
       /\ reply' = (IF refused THEN "ERROR" ELSE "NACK")
       /\ refused' = TRUE
       /\ noise' = noise + 1

\* The controller takes the byte in its input buffer.
TakeEarlier ==
    /\ inBuf = "earlier"
    /\ inBuf' = "empty"
    /\ UNCHANGED <<progVars, mouseVars, reply, bufVars>>

TakePrefix ==
    /\ inBuf = "D4"
    /\ inBuf' = "empty"
    /\ toMouse' = TRUE
    /\ UNCHANGED <<progVars, received, astray, refused, reply, bufVars>>

TakeCommand ==
    /\ inBuf = "cmd"
    /\ inBuf' = "empty"
    /\ toMouse' = FALSE
    /\ \/ toMouse /\ received' = TRUE /\ Answer /\ UNCHANGED astray
       \/ ~toMouse /\ astray' = TRUE /\ UNCHANGED <<received, refused, reply, noise>>
    /\ UNCHANGED <<progVars, outBuf, obf>>

SendReply ==
    /\ reply # "none"
    /\ ~obf
    /\ outBuf' = reply
    /\ obf' = TRUE
    /\ reply' = "none"
    /\ UNCHANGED <<progVars, inBuf, mouseVars, noise>>

\* A key, or a byte of a movement while the mouse is enabled: the latter can have
\* any value, also that of an answer.
SendNoise ==
    /\ noise < MaxNoise
    /\ ~obf
    /\ outBuf' \in Bytes
    /\ obf' = TRUE
    /\ noise' = noise + 1
    /\ UNCHANGED <<progVars, inBuf, mouseVars, reply>>

-------------------------------------------------------------------------------
(***************************************************************************)
(* The function.  Each port access is a step of its own.                   *)
(***************************************************************************)

\* Mutated form: IBF_BIT is not tested.
CanWriteMutant == TRUE

CanWrite == inBuf = "empty"

\* The status is read; if the input buffer is full, "continue" goes to the test.
Status(from, next) ==
    /\ step = from
    /\ step' = (IF CanWrite THEN next ELSE "test")
    /\ UNCHANGED <<ack, answered, ret, inBuf, mouseVars, reply, bufVars>>

WritePort(from, byte, next) ==
    /\ step = from
    /\ inBuf' = byte
    /\ step' = next
    /\ UNCHANGED <<ack, answered, ret, mouseVars, reply, bufVars>>

\* 20 ms are enough for the controller to take the command; they need not be
\* enough for the answer.
DelayOver == inBuf = "empty"

tickdelay ==
    /\ step = "delay"
    /\ DelayOver
    /\ step' = "read"
    /\ UNCHANGED <<ack, answered, ret, inBuf, mouseVars, reply, bufVars>>

\* OUT_BUF is read without a look at OBF_BIT; ACK_ERROR ends the function.
ReadAck ==
    /\ step = "read"
    /\ ack' = outBuf
    /\ answered' = TRUE
    /\ obf' = FALSE
    /\ \/ outBuf = "ERROR" /\ step' = "done" /\ ret' = 1
       \/ outBuf # "ERROR" /\ step' = "test" /\ UNCHANGED ret
    /\ UNCHANGED <<inBuf, mouseVars, reply, outBuf, noise>>

\* Mutated form: the loop waits for the wrong byte.
RetryMutant == ack # "ERROR"

Retry == ack # "ACK"

Test ==
    /\ step = "test"
    /\ \/ Retry /\ step' = "status1" /\ UNCHANGED ret
       \/ ~Retry /\ step' = "done" /\ ret' = 0
    /\ UNCHANGED <<ack, answered, inBuf, mouseVars, reply, bufVars>>

\* A port access fails.
PortError ==
    /\ step \in {"status1", "write1", "status2", "write2", "read"}
    /\ step' = "done"
    /\ ret' = 1
    /\ UNCHANGED <<ack, answered, inBuf, mouseVars, reply, bufVars>>

-------------------------------------------------------------------------------

send_mouse_command ==
    \/ Status("status1", "write1")
    \/ WritePort("write1", "D4", "status2")
    \/ Status("status2", "write2")
    \/ WritePort("write2", "cmd", "delay")
    \/ tickdelay
    \/ ReadAck
    \/ Test
    \/ PortError

TakeInput == TakeEarlier \/ TakePrefix \/ TakeCommand

-------------------------------------------------------------------------------

(***************************************************************************)
(* The command is never taken for a byte to the keyboard, however often    *)
(* send_mouse_command starts again and however slow the controller is.     *)
(***************************************************************************)
ToMouse == ~astray

===============================================================================
