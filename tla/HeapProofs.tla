----------------------------- MODULE HeapProofs -----------------------------
(***************************************************************************)
(* What a program may rely on follows from the abstract heap, for any      *)
(* number of threads and slots.  PoolSafetyProofs shows that the zones and *)
(* their lists implement the heap, which carries it over to them.          *)
(***************************************************************************)
EXTENDS Heap, TLAPS

Typed ==
  /\ heap \subseteq Block
  /\ held \in [Slots -> Block \cup {NoBlock}]
  /\ moving \in [Threads ->
       {NotMoving} \cup [moves: {TRUE}, slot: Slots, block: Block]]

Promises == HeapIsHeld /\ BlocksApart /\ HeldOnce

HeapInv == (~broken => Typed) /\ Promises

LEMMA NoBlockIsNone == NoBlock \notin Block
  BY DEF NoBlock, Block

(* A block that is added is new.                                           *)
LEMMA AddedIsNew ==
  ASSUME NEW b, Add(b)
  PROVE  b \in Block /\ b \notin heap /\ b # NoBlock
  <1>1. b \in Block
    BY DEF Add
  <1>2. Meet(b, b)
    BY <1>1 DEF Meet, Block
  <1> QED BY <1>1, <1>2, NoBlockIsNone DEF Add

LEMMA MeetIsMutual == ASSUME NEW b, NEW c PROVE Meet(b, c) <=> Meet(c, b)
  BY DEF Meet

LEMMA AddKeepsApart ==
  ASSUME ~broken, BlocksApart, NEW b, Add(b)
  PROVE  BlocksApart'
  <1>1. \A c \in heap : ~Meet(b, c) /\ ~Meet(c, b)
    BY MeetIsMutual DEF Add
  <1>2. \A c, d \in heap' : c # d => ~Meet(c, d)
    BY <1>1 DEF Add, BlocksApart
  <1> QED BY <1>2 DEF BlocksApart

LEMMA RemoveKeepsApart ==
  ASSUME ~broken, BlocksApart, NEW b, Remove(b)
  PROVE  BlocksApart'
  BY DEF Remove, BlocksApart

(* Blocks that are held or moving are in the heap.                         *)
LEMMA HeldInHeap ==
  ASSUME ~broken, Promises
  PROVE  /\ \A i \in Slots : held[i] # NoBlock => held[i] \in heap
         /\ \A t \in Threads : moving[t].moves => moving[t].block \in heap
         /\ \A i \in Slots, t \in Threads :
              held[i] # NoBlock /\ moving[t].moves => held[i] # moving[t].block
  BY DEF Promises, HeapIsHeld, HeldOnce, HeldBlocks, MovingBlocks

LEMMA NotMovingMoves == ~NotMoving.moves
  BY DEF NotMoving

LEMMA MovingFields ==
  ASSUME NEW i, NEW b
  PROVE  Moving(i, b).moves = TRUE /\ Moving(i, b).slot = i /\ Moving(i, b).block = b
  BY DEF Moving

-----------------------------------------------------------------------------
LEMMA MallocKeeps ==
  ASSUME HeapInv, ~broken, ~broken', NEW i \in Slots, Malloc(i)
  PROVE  HeapInv'
  <1>1. PICK b : Add(b) /\ held' = [held EXCEPT ![i] = b]
    BY DEF Malloc
  <1>2. b \in Block /\ b \notin heap /\ b # NoBlock
    BY <1>1, AddedIsNew
  <1>3. /\ heap' = heap \cup {b}
        /\ held'[i] = b /\ held[i] = NoBlock
        /\ \A j \in Slots : j # i => held'[j] = held[j]
        /\ moving' = moving
    BY <1>1 DEF Malloc, Add, HeapInv, Typed
  <1>4. Typed'
    BY <1>1, <1>2, <1>3 DEF HeapInv, Typed
  <1>5. BlocksApart'
    BY <1>1, AddKeepsApart DEF HeapInv, Promises
  <1>6. HeldBlocks' = HeldBlocks \cup {b}
    BY <1>2, <1>3 DEF HeldBlocks
  <1>7. MovingBlocks' = MovingBlocks
    BY <1>3 DEF MovingBlocks
  <1>8. HeapIsHeld'
    BY <1>3, <1>6, <1>7 DEF HeapInv, Promises, HeapIsHeld
  <1>9. HeldOnce'
    <2>1. \A j \in Slots : held[j] # NoBlock => held[j] # b
      BY <1>2, HeldInHeap DEF HeapInv
    <2>2. \A j, k \in Slots : held'[j] # NoBlock /\ held'[j] = held'[k] => j = k
      BY <1>2, <1>3, <2>1 DEF HeapInv, Promises, HeldOnce
    <2>3. b \notin MovingBlocks
      BY <1>2, HeldInHeap DEF HeapInv, MovingBlocks
    <2>4. (HeldBlocks \cap MovingBlocks)' = {}
      BY <1>6, <1>7, <2>3 DEF HeapInv, Promises, HeldOnce
    <2> QED BY <1>3, <2>2, <2>4 DEF HeapInv, Promises, HeldOnce
  <1> QED BY <1>4, <1>5, <1>8, <1>9 DEF HeapInv, Promises

LEMMA FreeKeeps ==
  ASSUME HeapInv, ~broken, ~broken', NEW i \in Slots, Free(i)
  PROVE  HeapInv'
  <1>1. /\ heap' = heap \ {held[i]} /\ held[i] \in heap
        /\ held'[i] = NoBlock /\ held[i] # NoBlock
        /\ \A j \in Slots : j # i => held'[j] = held[j]
        /\ moving' = moving
    BY DEF Free, Remove, HeapInv, Typed
  <1>2. Typed'
    BY DEF Free, Remove, HeapInv, Typed
  <1>3. BlocksApart'
    BY RemoveKeepsApart DEF Free, HeapInv, Promises
  <1>4. \A j \in Slots : j # i /\ held[j] # NoBlock => held[j] # held[i]
    BY <1>1 DEF HeapInv, Promises, HeldOnce
  <1>5. HeldBlocks' = HeldBlocks \ {held[i]}
    BY <1>1, <1>4 DEF HeldBlocks
  <1>6. MovingBlocks' = MovingBlocks
    BY <1>1 DEF MovingBlocks
  <1>7. held[i] \notin MovingBlocks
    BY <1>1, HeldInHeap DEF HeapInv, MovingBlocks
  <1>8. HeapIsHeld'
    BY <1>1, <1>5, <1>6, <1>7 DEF HeapInv, Promises, HeapIsHeld
  <1>9. HeldOnce'
    <2>1. \A j, k \in Slots : held'[j] # NoBlock /\ held'[j] = held'[k] => j = k
      BY <1>1 DEF HeapInv, Promises, HeldOnce
    <2>2. (HeldBlocks \cap MovingBlocks)' = {}
      BY <1>5, <1>6 DEF HeapInv, Promises, HeldOnce
    <2> QED BY <1>1, <2>1, <2>2 DEF HeapInv, Promises, HeldOnce
  <1> QED BY <1>2, <1>3, <1>8, <1>9 DEF HeapInv, Promises

LEMMA ReallocAddKeeps ==
  ASSUME HeapInv, ~broken, ~broken', NEW t \in Threads, NEW i \in Slots,
         ReallocAdd(t, i)
  PROVE  HeapInv'
  <1>1. PICK b : Add(b) /\ moving' = [moving EXCEPT ![t] = Moving(i, b)]
    BY DEF ReallocAdd
  <1>2. b \in Block /\ b \notin heap /\ b # NoBlock
    BY <1>1, AddedIsNew
  <1>3. /\ heap' = heap \cup {b}
        /\ moving'[t].moves = TRUE /\ moving'[t].block = b
        /\ ~moving[t].moves
        /\ \A u \in Threads : u # t => moving'[u] = moving[u]
        /\ held' = held
    <2> DEFINE m == Moving(i, b)
    <2>1. moving' = [moving EXCEPT ![t] = m] /\ t \in DOMAIN moving
          /\ DOMAIN moving = Threads
      BY <1>1 DEF HeapInv, Typed
    <2> HIDE DEF m
    <2>2. moving'[t] = Moving(i, b)
      BY <2>1 DEF m
    <2>3. \A u \in Threads : u # t => moving'[u] = moving[u]
      BY <2>1
    <2>4. heap' = heap \cup {b} /\ moving[t] = NotMoving /\ held' = held
      BY <1>1 DEF ReallocAdd, Add
    <2>5. Moving(i, b).moves = TRUE /\ Moving(i, b).block = b
      BY MovingFields
    <2>6. ~moving[t].moves
      BY <2>4, NotMovingMoves
    <2> QED BY <2>2, <2>3, <2>4, <2>5, <2>6
  <1>4. Typed'
    <2>1. Moving(i, b) \in [moves: {TRUE}, slot: Slots, block: Block]
      BY <1>2 DEF Moving
    <2> QED BY <1>1, <1>2, <1>3, <2>1 DEF HeapInv, Typed
  <1>5. BlocksApart'
    BY <1>1, AddKeepsApart DEF HeapInv, Promises
  <1>6. HeldBlocks' = HeldBlocks
    BY <1>3 DEF HeldBlocks
  <1>7. MovingBlocks' = MovingBlocks \cup {b}
    BY <1>3 DEF MovingBlocks
  <1>8. HeapIsHeld'
    BY <1>3, <1>6, <1>7 DEF HeapInv, Promises, HeapIsHeld
  <1>9. HeldOnce'
    <2>1. \A j \in Slots : held[j] # NoBlock => held[j] # b
      BY <1>2, HeldInHeap DEF HeapInv
    <2>2. b \notin HeldBlocks
      BY <2>1 DEF HeldBlocks
    <2>3. (HeldBlocks \cap MovingBlocks)' = {}
      BY <1>6, <1>7, <2>2 DEF HeapInv, Promises, HeldOnce
    <2>4. \A u \in Threads : moving[u].moves => moving[u].block # b
      BY <1>2, HeldInHeap DEF HeapInv
    <2>5. \A u, v \in Threads :
            moving'[u].moves /\ moving'[v].moves
            /\ moving'[u].block = moving'[v].block => u = v
      BY <1>3, <2>4 DEF HeapInv, Promises, HeldOnce
    <2> QED BY <1>3, <2>3, <2>5 DEF HeapInv, Promises, HeldOnce
  <1> QED BY <1>4, <1>5, <1>8, <1>9 DEF HeapInv, Promises

LEMMA ReallocRemoveKeeps ==
  ASSUME HeapInv, ~broken, ~broken', NEW t \in Threads, ReallocRemove(t)
  PROVE  HeapInv'
  <1> DEFINE i == moving[t].slot
             b == moving[t].block
  <1>1. moving[t] \in [moves: {TRUE}, slot: Slots, block: Block]
    BY NotMovingMoves DEF ReallocRemove, HeapInv, Typed
  <1>2. i \in Slots /\ b \in Block /\ b # NoBlock /\ moving[t].moves
    BY <1>1, NoBlockIsNone
  <1>3. /\ heap' = heap \ {held[i]} /\ held[i] \in heap
        /\ held'[i] = b /\ held[i] # NoBlock
        /\ \A j \in Slots : j # i => held'[j] = held[j]
        /\ ~moving'[t].moves
        /\ \A u \in Threads : u # t => moving'[u] = moving[u]
    BY <1>2, NotMovingMoves, NoBlockIsNone
       DEF ReallocRemove, Remove, HeapInv, Typed
  <1>4. Typed'
    BY <1>2 DEF ReallocRemove, Remove, HeapInv, Typed
  <1> HIDE DEF i, b
  <1>5. BlocksApart'
    BY RemoveKeepsApart DEF ReallocRemove, HeapInv, Promises
  <1>6. /\ \A j \in Slots : j # i /\ held[j] # NoBlock => held[j] # held[i]
        /\ \A u \in Threads : moving[u].moves => moving[u].block # held[i]
        /\ \A j \in Slots : held[j] # NoBlock => held[j] # b
        /\ \A u \in Threads : u # t /\ moving[u].moves => moving[u].block # b
        /\ held[i] # b
    BY <1>2, <1>3, HeldInHeap DEF HeapInv, Promises, HeldOnce, b
  <1>7. HeldBlocks' = (HeldBlocks \ {held[i]}) \cup {b}
    BY <1>2, <1>3, <1>6 DEF HeldBlocks
  <1>8. MovingBlocks' = MovingBlocks \ {b}
    <2>1. MovingBlocks' \subseteq MovingBlocks \ {b}
      BY <1>3, <1>6 DEF MovingBlocks
    <2>2. MovingBlocks \ {b} \subseteq MovingBlocks'
      BY <1>3 DEF MovingBlocks, b
    <2> QED BY <2>1, <2>2
  <1>9. b \in MovingBlocks /\ held[i] \notin MovingBlocks
    BY <1>2, <1>6 DEF MovingBlocks, b
  <1>10. HeapIsHeld'
    BY <1>3, <1>6, <1>7, <1>8, <1>9 DEF HeapInv, Promises, HeapIsHeld
  <1>11. HeldOnce'
    <2>1. \A j, k \in Slots : held'[j] # NoBlock /\ held'[j] = held'[k] => j = k
      BY <1>2, <1>3, <1>6 DEF HeapInv, Promises, HeldOnce
    <2>2. (HeldBlocks \cap MovingBlocks)' = {}
      BY <1>7, <1>8 DEF HeapInv, Promises, HeldOnce
    <2>3. \A u, v \in Threads :
            moving'[u].moves /\ moving'[v].moves
            /\ moving'[u].block = moving'[v].block => u = v
      BY <1>3 DEF HeapInv, Promises, HeldOnce
    <2> QED BY <2>1, <2>2, <2>3 DEF HeldOnce
  <1> QED BY <1>4, <1>5, <1>10, <1>11 DEF HeapInv, Promises

-----------------------------------------------------------------------------
(* No block is lost, none is held twice and none overlaps another, as long *)
(* as the allocator has not lost track of one: whatever the threads do.    *)
THEOREM HeapKeepsPromises == Spec => [](HeapIsHeld /\ BlocksApart /\ HeldOnce)
  <1>1. Init => HeapInv
    BY NotMovingMoves
       DEF Init, HeapInv, Typed, Promises, HeapIsHeld, BlocksApart, HeldOnce,
           HeldBlocks, MovingBlocks
  <1>2. ASSUME HeapInv, [Next]_vars
        PROVE  HeapInv'
    <2>1. CASE UNCHANGED vars
      <3>1. /\ heap' = heap /\ held' = held
            /\ moving' = moving /\ broken' = broken
        BY <2>1 DEF vars
      <3>2. HeldBlocks' = HeldBlocks /\ MovingBlocks' = MovingBlocks
        BY <3>1 DEF HeldBlocks, MovingBlocks
      <3>3. ~broken' => Typed'
        BY <1>2, <3>1 DEF HeapInv, Typed
      <3>4. Promises'
        <4>1. HeapIsHeld'
          BY <1>2, <3>1, <3>2 DEF HeapInv, Promises, HeapIsHeld
        <4>2. BlocksApart'
          BY <1>2, <3>1 DEF HeapInv, Promises, BlocksApart, Meet
        <4>3. HeldOnce'
          BY <1>2, <3>1, <3>2 DEF HeapInv, Promises, HeldOnce
        <4> QED BY <4>1, <4>2, <4>3 DEF Promises
      <3> QED BY <1>2, <3>1, <3>3, <3>4 DEF HeapInv
    <2>2. CASE broken'
      BY <1>2, <2>2
         DEF HeapInv, Promises, HeapIsHeld, BlocksApart, HeldOnce
    <2>3. CASE ~broken /\ ~broken' /\ Operate
      BY <1>2, <2>3, MallocKeeps, FreeKeeps, ReallocAddKeeps, ReallocRemoveKeeps
         DEF Operate
    <2> QED BY <1>2, <2>1, <2>2, <2>3 DEF Next
  <1>3. HeapInv => HeapIsHeld /\ BlocksApart /\ HeldOnce
    BY DEF HeapInv, Promises
  <1> QED BY <1>1, <1>2, <1>3, PTL DEF Spec
=============================================================================
