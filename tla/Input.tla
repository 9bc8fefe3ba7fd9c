--------------------------------- MODULE Input ---------------------------------
(***************************************************************************)
(* The way of a byte from the keyboard and the mouse to the game: the      *)
(* keyboard controller with its one output buffer, the notifications of    *)
(* the kernel, the two interrupt handlers (mouse_ih in mouse.c, kbc_ih in  *)
(* keyboard.c) and the assembly of mouse packets in game_loop (game.c).    *)
(*                                                                         *)
(* The controller runs beside the program.  It puts a byte into the buffer *)
(* only when the program has read the last one, and interrupts; the kernel *)
(* remembers one bit per device until driver_receive takes all the bits.   *)
(* Neither handler asks whose byte it reads (AUX_BIT is not used), and     *)
(* kbc_ih does not ask whether there is one.  Every read of a port may     *)
(* fail; util_sys_inb then leaves its argument as it was.                  *)
(***************************************************************************)
EXTENDS Integers

CONSTANT Errors   \* TRUE if a transfer to the controller may fail

ASSUME ErrorsAssumption == Errors \in BOOLEAN

\* What the program can tell apart: the break code of ESC, the prefix 0xE0, a
\* byte with BIT(3) set, any other byte.
Values == {"esc", "prefix", "bit3", "plain"}

Devices == {"mouse", "kbd"}

VARIABLES
    outBuf,        \* last byte put into OUT_BUF: its sender, its place in a packet
    obf,           \* OBF_BIT: the byte has not been read
    err,           \* PARITY_BIT or TIMEOUT_BIT of that byte
    mousePos,      \* place in its packet of the next byte the mouse sends
    pending,       \* interrupts notified and not yet received
    intr,          \* bits of the message that are still to be handled
    pc,
    mouse_scancode,
    currentByte,   \* place the program expects
    running,       \* gameState # EXIT
    skipped        \* history: a read of a port has failed and left the byte in
                   \* OUT_BUF with no notification

kbcVars == <<outBuf, obf, err, mousePos, pending>>
vars == <<kbcVars, intr, pc, mouse_scancode, currentByte, running, skipped>>

Byte == [src : Devices, pos : 0 .. 3, val : Values]

InputTypeOK ==
    /\ outBuf \in Byte
    /\ obf \in BOOLEAN
    /\ err \in BOOLEAN
    /\ mousePos \in 1 .. 3
    /\ pending \in SUBSET Devices
    /\ intr \in SUBSET Devices
    /\ pc \in {"receive", "mouse_ih", "mouse_read", "kbc_ih", "kbc_read"}
    /\ mouse_scancode \in Values
    /\ currentByte \in 1 .. 3
    /\ running \in BOOLEAN
    /\ skipped \in BOOLEAN

(***************************************************************************)
(* The loop starts after send_mouse_command(ENABLE_MOUSE): the program has *)
(* read the acknowledgement, a byte with BIT(3) set, by polling, and the   *)
(* notification of its interrupt is still to be received.                  *)
(***************************************************************************)
InputInit ==
    /\ outBuf = [src |-> "mouse", pos |-> 0, val |-> "bit3"]
    /\ obf = FALSE
    /\ err = FALSE
    /\ mousePos = 1
    /\ pending = {"mouse"}
    /\ intr = {}
    /\ pc = "receive"
    /\ mouse_scancode = "plain"
    /\ currentByte = 1
    /\ running = TRUE
    /\ skipped = FALSE

-------------------------------------------------------------------------------
(***************************************************************************)
(* The controller (external).                                              *)
(***************************************************************************)
Deliver(b) ==
    /\ ~obf
    /\ outBuf' = b
    /\ obf' = TRUE
    /\ err' \in {FALSE, Errors}
    /\ pending' = pending \cup {b.src}
    /\ skipped' = FALSE
    /\ UNCHANGED <<intr, pc, mouse_scancode, currentByte, running>>

\* BIT(3) of the first byte of a packet is always set.
MouseSends(v) ==
    /\ mousePos = 1 => v = "bit3"
    /\ Deliver([src |-> "mouse", pos |-> mousePos, val |-> v])
    /\ mousePos' = (mousePos % 3) + 1

KeyboardSends(v) ==
    /\ Deliver([src |-> "kbd", pos |-> 0, val |-> v])
    /\ UNCHANGED mousePos

-------------------------------------------------------------------------------
(***************************************************************************)
(* The program.  Each port access is a step of its own.                    *)
(***************************************************************************)
Section(bits) ==
    IF "mouse" \in bits THEN "mouse_ih" ELSE IF "kbd" \in bits THEN "kbc_ih" ELSE "receive"

GoOn(bits) == intr' = bits /\ pc' = Section(bits)

Receive ==
    /\ pc = "receive"
    /\ running
    /\ pending # {}
    /\ GoOn(pending)
    /\ pending' = {}
    /\ UNCHANGED <<outBuf, obf, err, mousePos, mouse_scancode, currentByte, running, skipped>>

\* Reading OUT_BUF takes the byte out of the controller.
ReadOutBuf ==
    /\ obf' = FALSE
    /\ err' = FALSE
    /\ skipped' = FALSE
    /\ UNCHANGED <<outBuf, mousePos, pending>>

\* util_sys_inb fails: the byte, if there is one, stays where it is.
PortFails ==
    /\ skipped' = (obf /\ outBuf.src \notin pending \cup intr')
    /\ UNCHANGED kbcVars

\* Mutated form: AUX_BIT is tested as well, and the message still dropped.
ReadyMutant == obf /\ ~err /\ outBuf.src = "mouse"

\* The status says that there is a byte and that it arrived well.
Ready == obf /\ ~err

mouse_ih ==
    /\ pc = "mouse_ih"
    /\ Ready
    /\ pc' = "mouse_read"
    /\ UNCHANGED <<kbcVars, intr, mouse_scancode, currentByte, running, skipped>>

\* ih_error: the status cannot be read or is not that of a good byte.  The byte
\* stays where it is and the message is dropped.
mouse_ih_error ==
    /\ pc = "mouse_ih"
    /\ GoOn({})
    /\ \/ PortFails /\ UNCHANGED mouse_scancode
       \/ ~Ready /\ mouse_scancode' = "plain" /\ UNCHANGED <<kbcVars, skipped>>
    /\ UNCHANGED <<currentByte, running>>

\* Mutated form: every byte must have BIT(3) set.
DroppedMutant(v) == v # "bit3"

\* A byte without BIT(3) does not start a packet.
Dropped(v) == currentByte = 1 /\ v # "bit3"

NextByte == IF currentByte = 3 THEN 1 ELSE currentByte + 1

\* The scan code v is put in its place, or dropped with the message.
Store(v) ==
    /\ \/ Dropped(v) /\ GoOn({}) /\ UNCHANGED currentByte
       \/ ~Dropped(v) /\ GoOn(intr \ {"mouse"}) /\ currentByte' = NextByte
    /\ UNCHANGED running

MouseByte ==
    /\ pc = "mouse_read"
    /\ ReadOutBuf
    /\ mouse_scancode' = outBuf.val
    /\ Store(outBuf.val)

\* The failure is not looked at: the scan code of the last time is used again.
MouseStale ==
    /\ pc = "mouse_read"
    /\ Store(mouse_scancode)
    /\ PortFails
    /\ UNCHANGED mouse_scancode

\* The status shows no error, or it could not be read: then it is an
\* uninitialised variable, which may say anything (in kbc_ih_error too).
kbc_ih ==
    /\ pc = "kbc_ih"
    /\ pc' = "kbc_read"
    /\ UNCHANGED <<kbcVars, intr, mouse_scancode, currentByte, running, skipped>>

\* The scan code becomes 0, which is no key, and the byte stays where it is.
kbc_ih_error ==
    /\ pc = "kbc_ih"
    /\ GoOn({})
    /\ \/ err /\ UNCHANGED <<kbcVars, skipped>>
       \/ PortFails
    /\ UNCHANGED <<mouse_scancode, currentByte, running>>

\* Whatever OUT_BUF holds is the scan code, read or not.  ESC_BREAK ends the
\* loop; no other key changes what is read next.
KeyByte ==
    /\ pc = "kbc_read"
    /\ ReadOutBuf
    /\ running' = (outBuf.val # "esc")
    /\ GoOn({})
    /\ UNCHANGED <<mouse_scancode, currentByte>>

\* The failure is not looked at: the scan code is that of the last time, which
\* was not ESC_BREAK or the loop would have ended.
KeyStale ==
    /\ pc = "kbc_read"
    /\ GoOn({})
    /\ PortFails
    /\ UNCHANGED <<mouse_scancode, currentByte, running>>

Ended == pc = "receive" /\ ~running /\ UNCHANGED vars

-------------------------------------------------------------------------------

Program ==
    \/ Receive
    \/ mouse_ih
    \/ mouse_ih_error
    \/ MouseByte
    \/ MouseStale
    \/ kbc_ih
    \/ kbc_ih_error
    \/ KeyByte
    \/ KeyStale

Controller == \E v \in Values : MouseSends(v) \/ KeyboardSends(v)

InputNext == Program \/ Controller \/ Ended

InputSpec == InputInit /\ [][InputNext]_vars

\* The program goes on as long as it has something to do; nobody has to use the
\* mouse or the keyboard.
InputFairSpec == InputSpec /\ WF_vars(Program)
-------------------------------------------------------------------------------

\* No notification is left over: there is at most one, received or not, and it
\* stands for the byte in the buffer.
Owed ==
    /\ pending = {} \/ intr = {}
    /\ pending \cup intr \subseteq (IF obf THEN {outBuf.src} ELSE {})

\* Bytes of the mouse the program has to drop until it expects the byte that
\* comes next; 0 if the two agree.
Distance ==
    LET next == IF obf /\ outBuf.src = "mouse" THEN outBuf.pos ELSE mousePos
    IN  (currentByte - next) % 3

\* Nothing will be read any more, from neither device: the buffer is full and no
\* notification says so.
Blocked == obf /\ pending = {} /\ intr = {} /\ pc = "receive"

(***************************************************************************)
(* Mouse packets heal and stay healed: once no notification is left over,  *)
(* none ever is again, and from then on the test of BIT(3) in game_loop    *)
(* only brings the program nearer to the true start of a packet.  In       *)
(* particular a program that reads packets as the mouse sends them goes on *)
(* doing so, whatever is typed in between.  A failed read of OUT_BUF,      *)
(* which mouse_ih does not look at, can lead away from it by one byte, but *)
(* then no byte comes after it: what is blocked stays blocked.             *)
(***************************************************************************)
PacketsHeal ==
    [][ /\ Owed => Owed' /\ (Distance' <= Distance \/ Blocked')
        /\ Blocked => Blocked' ]_vars

(***************************************************************************)
(* No good byte is left in the buffer without a notification, although     *)
(* "continue" drops the bits of a message that were not handled, unless    *)
(* the handler could not read a port: the controller would wait for ever   *)
(* to have its byte read.                                                  *)
(***************************************************************************)
NoLostByte ==
    obf /\ ~err /\ ~skipped =>
        outBuf.src \in pending \cup intr \/ pc \in {"mouse_read", "kbc_read"}

(***************************************************************************)
(* As long as the program runs, every byte that arrived well is read, so   *)
(* that the next one can come, unless a failed read of a port uses up its  *)
(* last notification: whatever kbc_ih and mouse_ih drop, mouse and         *)
(* keyboard do not block each other.                                       *)
(***************************************************************************)
EveryByteRead == obf /\ ~err ~> ~obf \/ ~running \/ skipped

===============================================================================
