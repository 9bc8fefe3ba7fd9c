------------------------------- MODULE GameFlow -------------------------------
(***************************************************************************)
(* What the player is promised: the screens of the game (game_state in     *)
(* game.h) and how rounds and lives follow each other, without aliens,     *)
(* bullets, interrupts or devices.  Game.tla implements this module.       *)
(***************************************************************************)
EXTENDS Integers

CONSTANT NUMLIVES

VARIABLES gameState, roundNum, lives

flowVars == <<gameState, roundNum, lives>>

FlowInit ==
    /\ gameState = "MENU_DISPLAY"
    /\ roundNum = 0
    /\ lives = NUMLIVES

Go(from, to) == gameState = from /\ gameState' = to

\* A game starts at the menu, always in round 0 and with all its lives.
Start ==
    /\ Go("MENU_DISPLAY", "PLAYING")
    /\ roundNum = 0
    /\ lives = NUMLIVES
    /\ UNCHANGED <<roundNum, lives>>

Instructions ==
    /\ \/ Go("MENU_DISPLAY", "INSTRUCTIONS_DISPLAY")
       \/ Go("INSTRUCTIONS_DISPLAY", "MENU_DISPLAY")
    /\ UNCHANGED <<roundNum, lives>>

LoseLife ==
    /\ gameState = "PLAYING"
    /\ lives > 1
    /\ lives' = lives - 1
    /\ UNCHANGED <<gameState, roundNum>>

\* The last life is lost or the aliens reach the territory.
GameOver ==
    /\ Go("PLAYING", "MENU_DISPLAY")
    /\ roundNum' = 0
    /\ lives' = NUMLIVES

\* All the aliens are dead.  Lives are kept from one round to the next.
ClearRound ==
    /\ Go("PLAYING", "NEXT_ROUND")
    /\ roundNum' = roundNum + 1
    /\ UNCHANGED lives

NextRound ==
    /\ Go("NEXT_ROUND", "PLAYING")
    /\ UNCHANGED <<roundNum, lives>>

Exit ==
    /\ gameState # "EXIT"
    /\ gameState' = "EXIT"
    /\ UNCHANGED <<roundNum, lives>>

FlowNext ==
    \/ Start
    \/ Instructions
    \/ LoseLife
    \/ GameOver
    \/ ClearRound
    \/ NextRound
    \/ Exit

FlowSpec == FlowInit /\ [][FlowNext]_flowVars

===============================================================================
