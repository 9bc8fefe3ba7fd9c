-------------------------------- MODULE Pointer --------------------------------
(***************************************************************************)
(* What a complete mouse packet does (game.c): getMousePacket and          *)
(* updateMouse (mouse.c) move the pointer, and the buttons of the screen   *)
(* under it (menu.c) change the screen.  The numbers of the menus are the  *)
(* program's.                                                              *)
(***************************************************************************)
EXTENDS Integers

CONSTANTS
    X_RES, Y_RES,               \* size of the screen
    MOUSE_WIDTH, MOUSE_HEIGHT,  \* size of the image of the pointer
    MOUSE_X0, MOUSE_Y0,         \* where createMouse puts it
    Displacements               \* second and third bytes of the packets

ASSUME ScreenAssumption ==
    /\ {X_RES, Y_RES, MOUSE_WIDTH, MOUSE_HEIGHT} \subseteq Nat
    /\ MOUSE_X0 \in 0 .. X_RES - MOUSE_WIDTH
    /\ MOUSE_Y0 \in 0 .. Y_RES - MOUSE_HEIGHT
    /\ Displacements \subseteq 0 .. 255

VARIABLES x, y, lb_pressed, gameState

pointerVars == <<x, y, lb_pressed, gameState>>

\* Buttons and displacement of a packet; the first byte has the signs.
Packet == [lb : BOOLEAN, xSign : BOOLEAN, ySign : BOOLEAN,
           b1 : Displacements, b2 : Displacements]

createMouse ==
    /\ x = MOUSE_X0
    /\ y = MOUSE_Y0
    /\ lb_pressed = FALSE

PointerInit == createMouse /\ gameState = "MENU_DISPLAY"

\* Conversion to 16 bits with a sign.
int16(n) == IF n >= 32768 THEN n - 65536 ELSE n

\* The upper eight of the sixteen bits.
FILLMSB == 65280

\* Mutated form: the sign bit does not reach the upper byte.
delta_Mutant(sign, b) == b

\* delta_x and delta_y of getMousePacket: a negative displacement has its upper
\* byte filled and is stored in 16 bits.
delta(sign, b) == IF sign THEN int16(FILLMSB + b) ELSE b

\* updateMouse: each branch of the test of the sign looks at one border only.
NewX(p) ==
    LET to == x + delta(p.xSign, p.b1)
    IN  IF p.xSign
        THEN (IF to < 0 THEN 0 ELSE to)
        ELSE (IF to > X_RES - MOUSE_WIDTH THEN X_RES - MOUSE_WIDTH ELSE to)

NewY(p) ==
    LET to == y - delta(p.ySign, p.b2)
    IN  IF p.ySign
        THEN (IF to + MOUSE_HEIGHT > Y_RES THEN Y_RES - MOUSE_HEIGHT ELSE to)
        ELSE (IF to < 0 THEN 0 ELSE to)

-------------------------------------------------------------------------------

\* The coordinates become uint16_t; on the screen they are the same numbers.
getButton(px, py) ==
    IF px > 392 /\ px < 632 /\ py > 288 /\ py < 345 THEN "START_BUTTON"
    ELSE IF px > 208 /\ px < 817 /\ py > 400 /\ py < 457 THEN "INSTRUCTIONS_BUTTON"
    ELSE IF px > 408 /\ px < 609 /\ py > 512 /\ py < 569 THEN "EXIT_BUTTON"
    ELSE "INITIAL"

\* Mutated form: the corner of the screen is measured from another image.
getInstructionButton_Mutant(px, py) == px > 512 /\ px < 992 /\ py > 372 /\ py < 736

getInstructionButton(px, py) == px > 912 /\ px < 992 /\ py > 672 /\ py < 736

\* The screen a click on a button of the menu leads to.
MenuChoice(b) ==
    IF b = "START_BUTTON" THEN "PLAYING"
    ELSE IF b = "INSTRUCTIONS_BUTTON" THEN "INSTRUCTIONS_DISPLAY"
    ELSE IF b = "EXIT_BUTTON" THEN "EXIT"
    ELSE "MENU_DISPLAY"

\* What the third byte of a packet sets off.
MouseMoves(p) ==
    /\ gameState # "EXIT"
    /\ x' = NewX(p)
    /\ y' = NewY(p)

AtMenu(p) ==
    /\ gameState = "MENU_DISPLAY"
    /\ MouseMoves(p)
    /\ lb_pressed' = p.lb
    /\ gameState' = IF p.lb THEN MenuChoice(getButton(x', y')) ELSE gameState

AtInstructions(p) ==
    /\ gameState = "INSTRUCTIONS_DISPLAY"
    /\ MouseMoves(p)
    /\ lb_pressed' = p.lb
    /\ gameState' = IF p.lb /\ getInstructionButton(x', y') THEN "MENU_DISPLAY" ELSE gameState

\* In a round a click shoots and is used up; the pointer moves unseen.
InRound(p) ==
    /\ gameState = "PLAYING"
    /\ MouseMoves(p)
    /\ lb_pressed' = FALSE
    /\ UNCHANGED gameState

BetweenRounds(p) ==
    /\ gameState = "NEXT_ROUND"
    /\ MouseMoves(p)
    /\ lb_pressed' = p.lb
    /\ UNCHANGED gameState

\* The other sections of game_loop: a round is cleared or lost, the next one
\* begins, ESC ends the program.
OtherSections ==
    /\ \/ gameState = "PLAYING" /\ gameState' \in {"MENU_DISPLAY", "NEXT_ROUND"}
       \/ gameState = "NEXT_ROUND" /\ gameState' = "PLAYING"
       \/ gameState # "EXIT" /\ gameState' = "EXIT"
    /\ UNCHANGED <<x, y, lb_pressed>>

PointerEnded == gameState = "EXIT" /\ UNCHANGED pointerVars

PointerNext ==
    \/ \E p \in Packet :
           AtMenu(p) \/ AtInstructions(p) \/ InRound(p) \/ BetweenRounds(p)
    \/ OtherSections
    \/ PointerEnded

PointerSpec == PointerInit /\ [][PointerNext]_pointerVars

-------------------------------------------------------------------------------

\* The whole image of the pointer stays on the screen: drawMouse writes to the
\* frame buffer at its coordinates without looking at the borders.
PointerOnScreen ==
    /\ x \in 0 .. X_RES - MOUSE_WIDTH
    /\ y \in 0 .. Y_RES - MOUSE_HEIGHT

\* A click that changes the menu for the instructions or back leaves the pointer
\* on no button of the new screen: packets that report the button still down do
\* not undo the change or make another one.
ClickDoesNotBounce ==
    [][ /\ gameState = "MENU_DISPLAY" /\ gameState' = "INSTRUCTIONS_DISPLAY"
            => ~getInstructionButton(x', y')
        /\ gameState = "INSTRUCTIONS_DISPLAY" /\ gameState' = "MENU_DISPLAY"
            => getButton(x', y') = "INITIAL" ]_pointerVars

===============================================================================
