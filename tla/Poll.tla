---------------------------------- MODULE Poll ----------------------------------
(***************************************************************************)
(* kbd_test_poll (lab3/lab3.c) reads scan codes without interrupts until   *)
(* ESC is released and then lets the controller interrupt again:           *)
(* kbd_reenable_int (lab3/kbc.c) reads the command byte of the controller, *)
(* sets ENABLE_KBD in it and writes it back.                               *)
(*                                                                         *)
(* The controller runs beside the function.  It has one byte of input and  *)
(* one of output; OUT_BUF keeps its byte after it was read.  The loop asks *)
(* kbc_ih for a byte only while OBF_BIT is clear, so that it gets either   *)
(* the old byte once more or one that came after its look at the status.   *)
(* The mouse is off in this lab: AUX_BIT is never set.                     *)
(***************************************************************************)
EXTENDS LabProgram

CONSTANT MaxTries   \* tries of readcommand and writecommand, 10 in the code

ASSUME TriesAssumption == MaxTries \in Nat \ {0}

VARIABLES
    tries,
    commandByte,   \* what readcommand took for the command byte
    unread,        \* a byte was there when the status let a command through
    raced,         \* commandByte was not the answer, which came late or after a
                   \* byte that was not there before
    overrun,       \* WRITE_COMMAND was written over before it was taken
    outBuf,        \* last byte put into OUT_BUF: a scan code or the command byte
    obf, err,      \* OBF_BIT; PARITY_BIT or TIMEOUT_BIT
    inBuf,         \* byte in the input buffer (IBF_BIT), "empty" if none
    awaits,        \* the controller takes the next byte for its command byte
    answer,        \* it has to send its command byte
    enabled,       \* ENABLE_KBD of the command byte,
    otherBits,     \* and where its other bits come from: "own" if unchanged
    released       \* the break code of ESC has arrived well

scanVars == <<scancode, size>>
commandVars == <<tries, commandByte, unread, raced, overrun>>
outputVars == <<outBuf, obf, err, released>>
configVars == <<awaits, enabled, otherBits>>
inputVars == <<inBuf, answer, configVars>>
deviceVars == <<commandVars, outputVars, inputVars>>
pollVars == <<programVars, deviceVars>>

\* A command typed at the terminal has started the program: its last byte has
\* been read by the system.
DeviceInit ==
    /\ tries = 0
    /\ commandByte = "none"
    /\ unread = FALSE
    /\ raced = FALSE
    /\ overrun = FALSE
    /\ outBuf = "other"
    /\ obf = FALSE
    /\ err = FALSE
    /\ inBuf = "empty"
    /\ awaits = FALSE
    /\ answer = FALSE
    /\ enabled = TRUE
    /\ otherBits = "own"
    /\ released = FALSE

PollInit == test = "poll" /\ ProgramInit /\ DeviceInit

-------------------------------------------------------------------------------
(***************************************************************************)
(* The controller and the keyboard (external).                             *)
(***************************************************************************)
KeyboardSends(code) ==
    /\ pc # "start"
    /\ ~obf
    /\ outBuf' = code
    /\ obf' = TRUE
    /\ err' \in BOOLEAN
    /\ released' = (released \/ (code = "esc" /\ ~err'))
    /\ UNCHANGED <<test, pc, rc, scanVars, commandVars, inputVars>>

SendAnswer ==
    /\ answer
    /\ ~obf
    /\ outBuf' = "config"
    /\ obf' = TRUE
    /\ err' = FALSE
    /\ answer' = FALSE
    /\ UNCHANGED <<test, pc, rc, scanVars, commandVars, released, inBuf, configVars>>

\* A byte of port 0x60 that follows no command goes to the keyboard.
TakeInput ==
    /\ inBuf # "empty"
    /\ inBuf' = "empty"
    /\ \/ inBuf = "READ_COMMAND" /\ answer' = TRUE /\ UNCHANGED configVars
       \/ inBuf = "WRITE_COMMAND" /\ awaits' = TRUE /\ UNCHANGED <<answer, enabled, otherBits>>
       \/ /\ inBuf \in {"on", "off"}
          /\ awaits' = FALSE
          /\ IF awaits
             THEN /\ enabled' = (inBuf = "on")
                  /\ otherBits' = (IF commandByte = "config" THEN otherBits ELSE commandByte)
             ELSE UNCHANGED <<enabled, otherBits>>
          /\ UNCHANGED answer
    /\ UNCHANGED <<test, pc, rc, scanVars, commandVars, outputVars>>

\* The framework turns the interrupts of the keyboard off and calls the test.
lcf_start ==
    /\ pc = "start"
    /\ pc' = "poll"
    /\ enabled' = FALSE
    /\ UNCHANGED <<test, rc, scanVars, commandVars, outputVars, inBuf, answer, awaits, otherBits>>

-------------------------------------------------------------------------------
(***************************************************************************)
(* The loop of kbd_test_poll.  Each port access is a step of its own.      *)
(***************************************************************************)
Return(value) == pc' = "returned" /\ rc' = value /\ UNCHANGED test

GoTo(next) == pc' = next /\ UNCHANGED <<test, rc>>

PollStatus ==
    /\ pc = "poll"
    /\ scancode # "esc"
    /\ \/ obf /\ GoTo("poll")
       \/ ~obf /\ GoTo("ih_status")
    /\ UNCHANGED <<scanVars, commandVars, outputVars, inputVars>>

\* kbd_print_scancode prints whatever is no first byte of two.
Handle(code) ==
    /\ scancode' = code
    /\ size' = (IF twoBytes(code) THEN 2 ELSE 1)
    /\ GoTo("poll")

\* A byte with an error stays where it is.
kbc_ih_status ==
    /\ pc = "ih_status"
    /\ \/ err /\ Handle("zero")
       \/ ~err /\ GoTo("ih_read") /\ UNCHANGED scanVars
    /\ UNCHANGED <<commandVars, outputVars, inputVars>>

\* The byte in OUT_BUF is taken out of it.
ReadOutBuf == obf' = FALSE /\ err' = FALSE /\ UNCHANGED <<outBuf, released>>

kbc_ih_read ==
    /\ pc = "ih_read"
    /\ Handle(outBuf)
    /\ ReadOutBuf
    /\ UNCHANGED <<commandVars, inputVars>>

\* A port access of kbc_ih fails and nobody looks at that: the status is then
\* whatever the stack holds, and the scan code stays as it was.
kbc_ih_PortError ==
    /\ \/ pc = "ih_status" /\ Handle("zero")
       \/ pc = "ih_status" /\ GoTo("ih_read") /\ UNCHANGED scanVars
       \/ pc = "ih_read" /\ Handle(scancode)
    /\ UNCHANGED <<commandVars, outputVars, inputVars>>

LeavePoll ==
    /\ pc = "poll"
    /\ scancode = "esc"
    /\ GoTo("readcommand")
    /\ tries' = MaxTries
    /\ UNCHANGED <<scanVars, commandByte, unread, raced, overrun, outputVars, inputVars>>

-------------------------------------------------------------------------------
(***************************************************************************)
(* kbd_reenable_int.  A status that cannot be read is asked for again, and *)
(* the try does not count: nothing changes.                                *)
(***************************************************************************)

\* Mutated form: only IBF_BIT is tested.
BusyMutant == inBuf # "empty"

\* statuscode & (IBF_BIT | OBF_BIT)
Busy == inBuf # "empty" \/ obf

\* Mutated form: a failed try is not counted.
FewerMutant == tries

Fewer == tries - 1

Wait(at, next) ==
    /\ pc = at
    /\ \/ ~Busy /\ GoTo(next) /\ unread' = obf /\ UNCHANGED tries
       \/ /\ Busy
          /\ tries' = Fewer
          /\ IF tries' = 0 THEN Return(1) ELSE GoTo(at)
          /\ UNCHANGED unread
    /\ UNCHANGED <<scanVars, commandByte, raced, overrun, outputVars, inputVars>>

readcommand_Ask ==
    /\ pc = "ask"
    /\ inBuf' = "READ_COMMAND"
    /\ GoTo("take")
    /\ UNCHANGED <<scanVars, commandVars, outputVars, answer, configVars>>

\* The answer is not waited for.
readcommand_Take ==
    /\ pc = "take"
    /\ commandByte' = outBuf
    /\ raced' = (~unread /\ (inBuf # "empty" \/ answer))
    /\ ReadOutBuf
    /\ tries' = MaxTries
    /\ GoTo("writecommand")
    /\ UNCHANGED <<scanVars, unread, overrun, inputVars>>

writecommand_Command ==
    /\ pc = "command"
    /\ inBuf' = "WRITE_COMMAND"
    /\ GoTo("argument")
    /\ UNCHANGED <<scanVars, commandVars, outputVars, answer, configVars>>

\* Mutated form: commandByte is written back as it was read.
WithEnableKbdMutant == IF commandByte = "esc" THEN "on" ELSE "off"

\* commandByte |= ENABLE_KBD
WithEnableKbd == "on"

\* IBF_BIT is not looked at again between the two writes.
writecommand_Argument ==
    /\ pc = "argument"
    /\ inBuf' = WithEnableKbd
    /\ overrun' = (inBuf # "empty")
    /\ Return(0)
    /\ UNCHANGED <<scanVars, tries, commandByte, unread, raced, outputVars, answer, configVars>>

\* An access to a port fails that is not tried again.
PortError ==
    /\ pc \in {"poll", "ask", "take", "command", "argument"}
    /\ pc = "poll" => scancode # "esc"
    /\ Return(1)
    /\ UNCHANGED <<scanVars, commandVars, outputVars, inputVars>>

Returned == pc = "returned" /\ UNCHANGED pollVars

-------------------------------------------------------------------------------

kbd_reenable_int ==
    \/ Wait("readcommand", "ask")
    \/ readcommand_Ask
    \/ readcommand_Take
    \/ Wait("writecommand", "command")
    \/ writecommand_Command
    \/ writecommand_Argument

kbd_test_poll == PollStatus \/ kbc_ih_status \/ kbc_ih_read \/ LeavePoll \/ kbd_reenable_int

Controller == TakeInput \/ SendAnswer

PollNext ==
    \/ lcf_start
    \/ kbd_test_poll
    \/ PortError
    \/ kbc_ih_PortError
    \/ Controller
    \/ \E code \in Codes \ {"zero"} : KeyboardSends(code)
    \/ Returned

PollSpec == PollInit /\ [][PollNext]_pollVars

\* The function runs on and the controller does what it is told; nobody has to
\* type, and no port access has to fail.
PollFairSpec == PollSpec /\ WF_pollVars(kbd_test_poll) /\ WF_pollVars(Controller)

-------------------------------------------------------------------------------

(***************************************************************************)
(* When kbd_test_poll has returned 0 the keyboard interrupts again as soon *)
(* as the controller has taken the bytes it was sent, whatever readcommand *)
(* took for the command byte, unless writecommand wrote its second byte    *)
(* before the first was taken.                                             *)
(***************************************************************************)
Reenabled == rc = 0 /\ inBuf = "empty" => enabled \/ overrun

(***************************************************************************)
(* The other bits of the command byte are those the controller had: only   *)
(* if the answer to READ_COMMAND was not yet in the buffer does            *)
(* kbd_reenable_int write a scan code in their place.  A byte that is      *)
(* there before the command is given is never taken for the answer.        *)
(***************************************************************************)
BitsKept == otherBits # "own" => raced

(***************************************************************************)
(* Once ESC has been read kbd_test_poll returns: MaxTries looks at the     *)
(* status bound the waiting for a controller whose buffers stay full, as   *)
(* they do when an answer arrives that nobody reads.                       *)
(***************************************************************************)
EndsAfterEsc == pc = "readcommand" ~> pc = "returned"

(***************************************************************************)
(* lcom/lab3.h:26 says of kbd_test_poll: "Exits upon release of the ESC    *)
(* key".                                                                   *)
(***************************************************************************)
ExitsUponEsc == released ~> pc = "returned"

===============================================================================
