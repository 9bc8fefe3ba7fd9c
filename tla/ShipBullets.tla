------------------------------ MODULE ShipBullets ------------------------------
(***************************************************************************)
(* The bullets of the ship (shipBullet.c) and the part of the C heap they  *)
(* live in.  shipBullets is the program's array of pointers: a slot holds  *)
(* NULL or the chunk a ShipBullet was allocated in.  Nothing in the code   *)
(* takes a pointer out of the array when its bullet is freed, so a slot    *)
(* may hold a chunk that is no longer allocated and the program then reads *)
(* and writes what the chunk happens to contain.                           *)
(*                                                                         *)
(* The allocator (external, the C library) is modelled as follows: malloc  *)
(* returns any chunk that is not in use; free leaves the contents alone;   *)
(* freeing a free chunk has no effect; a free chunk may be overwritten by  *)
(* another user of the heap.  A chunk that is allocated but held by no     *)
(* slot is leaked for good; its name is used again for a fresh chunk,      *)
(* which the program cannot tell apart, so a few names are enough.         *)
(***************************************************************************)
EXTENDS Macros, FiniteSets

CONSTANTS
    Chunks,    \* names of heap chunks
    NULL,      \* the null pointer
    Junk       \* what another heap user may leave in a free chunk

Bullet == [x : Int, y : Int, speed : Int, hitAlien : BOOLEAN]

ASSUME HeapAssumption ==
    /\ NULL \notin Chunks
    /\ Junk \subseteq Bullet

VARIABLES
    shipBullets,   \* the array: Slots -> Chunks or NULL
    heap,          \* contents of each chunk
    allocated,     \* chunks malloc has handed out and free has not got back
    slot           \* index of the loop of updateShipBulletPosition

sbVars == <<shipBullets, heap, allocated, slot>>

SBTypeOK ==
    /\ shipBullets \in [Slots -> Chunks \cup {NULL}]
    /\ heap \in [Chunks -> Bullet]
    /\ allocated \in SUBSET Chunks
    /\ slot \in 0 .. MAX_SHIP_BULLETS

Held == {shipBullets[i] : i \in Slots} \ {NULL}

\* What the code tests before it moves, draws or collides a bullet.
InFlight(p) == p # NULL /\ ~heap[p].hitAlien

\* malloc may return chunk c (external).
malloc(c) == c \in allocated => c \notin Held

-------------------------------------------------------------------------------

initShipBullets == shipBullets = [i \in Slots |-> NULL]

SBInit ==
    /\ initShipBullets
    /\ heap \in [Chunks -> {[x |-> 0, y |-> 0, speed |-> 0, hitAlien |-> FALSE]}]
    /\ allocated = {}
    /\ slot = MAX_SHIP_BULLETS

\* The test of createShipBullet on slot i, with heap contents h.
FillsSlot(h, i) == shipBullets[i] = NULL \/ h[shipBullets[i]].hitAlien

(***************************************************************************)
(* A shot.  The bullet is filled in before the loop over the slots looks   *)
(* at hitAlien, so a slot that still points at chunk c sees the new value. *)
(* The loop does not stop at the first free slot: every slot that is NULL  *)
(* or holds a bullet that has hit gets the new pointer.                    *)
(***************************************************************************)
createShipBullet(c, x, y) ==
    LET b == [x |-> x, y |-> y, speed |-> SHIP_BULLET_SPEED, hitAlien |-> FALSE]
    IN  /\ slot = MAX_SHIP_BULLETS
        /\ malloc(c)
        /\ allocated' = allocated \cup {c}
        /\ heap' = [heap EXCEPT ![c] = b]
        /\ shipBullets' = [i \in Slots |-> IF FillsSlot(heap', i) THEN c ELSE shipBullets[i]]
        /\ UNCHANGED slot

\* free(shipBullet); the assignment of NULL reaches only the parameter.
removeShipBullet(p) == allocated' = allocated \ {p}

\* The call of updateShipBulletPosition: the loop starts at slot 0.
beginUpdate ==
    /\ slot = MAX_SHIP_BULLETS
    /\ slot' = 0
    /\ UNCHANGED <<shipBullets, heap, allocated>>

\* One iteration of the loop of updateShipBulletPosition.
updateShipBulletPosition ==
    LET p == shipBullets[slot]
    IN  /\ slot < MAX_SHIP_BULLETS
        /\ slot' = slot + 1
        /\ UNCHANGED shipBullets
        /\ \/ /\ ~InFlight(p)
              /\ UNCHANGED <<heap, allocated>>
           \/ /\ InFlight(p)
              /\ heap[p].y - heap[p].speed >= 0
              /\ heap' = [heap EXCEPT ![p].y = @ - heap[p].speed]
              /\ UNCHANGED allocated
           \/ /\ InFlight(p)
              /\ heap[p].y - heap[p].speed < 0
              /\ removeShipBullet(p)
              /\ UNCHANGED heap

\* Mutated form: the bullet is marked but its memory is not released.
spendBulletMutant(j) ==
    /\ heap' = [heap EXCEPT ![shipBullets[j]].hitAlien = TRUE]
    /\ UNCHANGED <<allocated, shipBullets, slot>>

\* Mutated form: the bullet is freed but not marked.
spendBulletUnmarked(j) ==
    /\ UNCHANGED heap
    /\ removeShipBullet(shipBullets[j])
    /\ UNCHANGED <<shipBullets, slot>>

\* The bullet's side of a collision found in slot j: the bullet is marked
\* and freed, and the slots keep the pointer.
spendBullet(j) ==
    /\ heap' = [heap EXCEPT ![shipBullets[j]].hitAlien = TRUE]
    /\ removeShipBullet(shipBullets[j])
    /\ UNCHANGED <<shipBullets, slot>>

\* Another user of the heap gets a free chunk, writes it and frees it again
\* (drawScore does so on every frame with a score to draw).  It matters only for
\* a chunk that a slot still holds: others are written before they are read.
overwriteFree(c, b) ==
    /\ c \notin allocated
    /\ heap' = [heap EXCEPT ![c] = b]
    /\ UNCHANGED <<shipBullets, allocated, slot>>

-------------------------------------------------------------------------------
(***************************************************************************)
(* The bullets on their own: shots from the ship's starting position,      *)
(* timer interrupts, collisions and other heap users in any order.  The x  *)
(* coordinate plays no part in this module.                                *)
(***************************************************************************)
Shoot == \E c \in Chunks :
    createShipBullet(c, SHIP_X0 + SHIP_WIDTH \div 2, SHIP_YPOS)

Collide == \E j \in Slots :
    /\ slot = MAX_SHIP_BULLETS
    /\ InFlight(shipBullets[j])
    /\ spendBullet(j)

OtherHeapUser == \E c \in Held, b \in Junk :
    /\ slot = MAX_SHIP_BULLETS
    /\ overwriteFree(c, b)

SBNext ==
    \/ Shoot
    \/ beginUpdate
    \/ updateShipBulletPosition
    \/ Collide
    \/ OtherHeapUser

SBSpec == SBInit /\ [][SBNext]_sbVars

-------------------------------------------------------------------------------

\* Every slot of the array holds the same pointer.  It is a fact of the loop of
\* createShipBullet, not something the program is meant to do (see ShotIsAdded);
\* the proofs use it.
OneBullet == \A i, j \in Slots : shipBullets[i] = shipBullets[j]

(***************************************************************************)
(* A bullet that is allocated and held by a slot is a bullet: it has not   *)
(* hit, it has the speed it was created with and it is on the screen.      *)
(* Only chunks that were freed can contain anything else, although slots   *)
(* keep pointing at freed chunks and free them again.                      *)
(***************************************************************************)
LiveBulletSound == \A p \in Held \cap allocated :
    /\ ~heap[p].hitAlien
    /\ heap[p].speed = SHIP_BULLET_SPEED
    /\ heap[p].y \in 0 .. SHIP_YPOS

(***************************************************************************)
(* shipBullet.h:35: createShipBullet "Creates a Ship Bullet object and     *)
(* adds it the array of ship bullets".  A shot fired while fewer than      *)
(* MAX_SHIP_BULLETS bullets are in flight is in the array afterwards.      *)
(***************************************************************************)
ShotIsAdded ==
    [][ \A c \in allocated' \ allocated :
            Cardinality({p \in Held : InFlight(p)}) < MAX_SHIP_BULLETS
            => \E i \in Slots : shipBullets'[i] = c ]_sbVars

===============================================================================
