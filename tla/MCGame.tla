-------------------------------- MODULE MCGame --------------------------------
(***************************************************************************)
(* A small world for Game: two aliens two pixels wide in a field seven     *)
(* pixels wide, a ship that fits in three places and three bullet slots.   *)
(***************************************************************************)
EXTENDS Game

\* What drawScore may leave in a freed bullet: something far below the screen
\* that moves up fast, or a bullet that counts as spent.
MCJunk == {[x |-> 3, y |-> 9, speed |-> 4, hitAlien |-> FALSE],
           [x |-> 3, y |-> 9, speed |-> 4, hitAlien |-> TRUE]}

\* A heap that leaves only spent bullets behind.
MCMarked == {b \in MCJunk : b.hitAlien}

===============================================================================
