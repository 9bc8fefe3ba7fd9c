------------------------------- MODULE LabProgram -------------------------------
(***************************************************************************)
(* What the tests of the lab programs have in common.  A program hands its *)
(* arguments to lcf_start of the framework, which calls one test; the      *)
(* tests of the keyboard share the static variable scancode.               *)
(***************************************************************************)
EXTENDS Integers

\* Bytes of the keyboard as the tests tell them apart: the break code of ESC,
\* 0xE0, any other.  0 is what scancode starts with and what kbc_ih makes of a
\* byte that arrived with an error.
Codes == {"esc", "prefix", "other", "zero"}

VARIABLES
    test,       \* the test that runs
    pc,         \* how far it is
    rc,         \* what it has returned, -1 before
    scancode,   \* last byte of the keyboard
    size        \* bytes of the scan code that is being read

programVars == <<test, pc, rc, scancode, size>>

ProgramInit ==
    /\ pc = "start"
    /\ rc = -1
    /\ scancode = "zero"
    /\ size = 1

\* 0xE0 is the first byte of two.
twoBytes(code) == code = "prefix"

===============================================================================
