-------------------------------- MODULE Heap --------------------------------
(***************************************************************************)
(* What malloc, free, realloc and reallocf promise to a program, without   *)
(* zones and lists: a set of blocks that do not overlap.  malloc adds one  *)
(* block, free removes the one it is given, and realloc first adds the new *)
(* block and later, other threads in between, removes the old one.  A call *)
(* that fails changes nothing.                                             *)
(*                                                                         *)
(* Once broken is set nothing is promised any more.                        *)
(***************************************************************************)
EXTENDS Integers

CONSTANTS
  Threads,  \* threads of the program
  Slots     \* the program's pointer variables

VARIABLES
  heap,    \* the allocated blocks
  held,    \* the block in each slot
  moving,  \* the slot and new block of a realloc in progress, per thread
  broken   \* has the allocator lost track of a block?

vars == <<heap, held, moving, broken>>

Block == [ptr: Nat, size: Nat \ {0}]

(* What an empty slot holds.                                               *)
NoBlock == [ptr |-> 0, size |-> 0]

NotMoving == [moves |-> FALSE]

Moving(i, b) == [moves |-> TRUE, slot |-> i, block |-> b]

InMove(i) == \E t \in Threads : moving[t].moves /\ moving[t].slot = i

Meet(b, c) == b.ptr < c.ptr + c.size /\ c.ptr < b.ptr + b.size

(* A block that is new to the heap and clear of every other.               *)
Add(b) ==
  /\ b \in Block
  /\ \A c \in heap : ~Meet(b, c)
  /\ heap' = heap \cup {b}

Remove(b) == b \in heap /\ heap' = heap \ {b}

-----------------------------------------------------------------------------
Malloc(i) ==
  /\ held[i] = NoBlock /\ ~InMove(i)
  /\ \E b \in heap' : Add(b) /\ held' = [held EXCEPT ![i] = b]
  /\ UNCHANGED moving

Free(i) ==
  /\ held[i] # NoBlock /\ ~InMove(i)
  /\ Remove(held[i])
  /\ held' = [held EXCEPT ![i] = NoBlock]
  /\ UNCHANGED moving

ReallocAdd(t, i) ==
  /\ held[i] # NoBlock /\ ~InMove(i)
  /\ moving[t] = NotMoving
  /\ \E b \in heap' : Add(b) /\ moving' = [moving EXCEPT ![t] = Moving(i, b)]
  /\ UNCHANGED held

ReallocRemove(t) ==
  /\ moving[t].moves
  /\ Remove(held[moving[t].slot])
  /\ held' = [held EXCEPT ![moving[t].slot] = moving[t].block]
  /\ moving' = [moving EXCEPT ![t] = NotMoving]

Init ==
  /\ heap = {}
  /\ held = [i \in Slots |-> NoBlock]
  /\ moving = [t \in Threads |-> NotMoving]
  /\ broken = FALSE

Operate ==
  \/ \E i \in Slots : Malloc(i) \/ Free(i)
  \/ \E t \in Threads : ReallocRemove(t) \/ \E i \in Slots : ReallocAdd(t, i)

Next == broken' \/ (~broken /\ ~broken' /\ Operate)

Spec == Init /\ [][Next]_vars

-----------------------------------------------------------------------------
(* What the program may rely on                                            *)

(* The heap is what the slots and the reallocs in progress hold: no block  *)
(* is lost and none is held twice; and no two blocks overlap.              *)
HeldBlocks == {held[i] : i \in {s \in Slots : held[s] # NoBlock}}

MovingBlocks == {moving[t].block : t \in {u \in Threads : moving[u].moves}}

HeapIsHeld == ~broken => heap = HeldBlocks \cup MovingBlocks

BlocksApart == ~broken => \A b, c \in heap : b # c => ~Meet(b, c)

HeldOnce ==
  ~broken =>
    /\ \A i, j \in Slots : held[i] # NoBlock /\ held[i] = held[j] => i = j
    /\ HeldBlocks \cap MovingBlocks = {}
    /\ \A t, u \in Threads :
         /\ moving[t].moves /\ moving[u].moves
         /\ moving[t].block = moving[u].block
         => t = u
=============================================================================
