----------------------------- MODULE ListStores -----------------------------
(***************************************************************************)
(* The allocation list of one zone in memory: headers with next and prev   *)
(* pointers, written one store at a time by malloc and free.               *)
(*                                                                         *)
(* The thread in malloc or free holds _mutex_lock, but the handler of      *)
(* SIGINT takes no lock: it may stop the thread between any two stores and *)
(* walk the list from alloc_pool for its leak report.                      *)
(*                                                                         *)
(* heap maps an address to the header last written there.  An address is   *)
(* outside its domain when no header was written there, or when the client *)
(* has been given the bytes since.                                         *)
(***************************************************************************)
EXTENDS AllocList, SequencesExt

CONSTANTS
  Base,   \* the address the zone is mapped at
  Sizes   \* the sizes of the requests, rounded up

ASSUME ListStoresAssumption ==
  /\ Base \in Nat \ {0}
  /\ Sizes \subseteq Nat \ {0}
  /\ \A s \in Sizes : SetZoneType(s) = "tiny"

VARIABLES
  heap,        \* the headers in memory
  alloc_pool,  \* zone->alloc_pool
  free_mem,    \* zone->free_mem_size
  op,          \* the call in progress: the stores it has yet to make
  before       \* history: the zone when the call in progress began

vars == <<heap, alloc_pool, free_mem, op, before>>

NoOp == [how |-> "none", block |-> NULL, todo |-> << >>]

-----------------------------------------------------------------------------
(* Walking the list                                                        *)

(* The address a walk from alloc_pool reaches in its n-th step.            *)
Reached ==
  LET at[n \in 1..(Cardinality(DOMAIN heap) + 1)] ==
        IF n = 1 THEN alloc_pool
        ELSE IF at[n - 1] \in DOMAIN heap THEN heap[at[n - 1]].next ELSE NULL
  IN  at

(* The headers the walk visits; one that leads in a circle fills the range *)
(* of Reached.  No header lies at NULL, so what follows NULL is NULL.      *)
Walk == [n \in {m \in DOMAIN Reached : Reached[m] # NULL} |-> Reached[n]]

(* The zone as its headers describe it.                                    *)
ZoneInMemory ==
  [base   |-> Base,
   type   |-> "tiny",
   free   |-> free_mem,
   allocs |-> [i \in DOMAIN Walk |->
                 [at |-> Walk[i], prev |-> heap[Walk[i]].prev,
                  size |-> heap[Walk[i]].size, cap |-> heap[Walk[i]].cap]]]

-----------------------------------------------------------------------------
(* Stores                                                                  *)

SetAlloc(at, next, prev, size) ==
  [kind |-> "header", at |-> at,
   val |-> [next |-> next, prev |-> prev, size |-> size, cap |-> size]]

SetNext(at, val) == [kind |-> "next", at |-> at, val |-> val]

SetPrev(at, val) == [kind |-> "prev", at |-> at, val |-> val]

SetPool(val) == [kind |-> "pool", at |-> NULL, val |-> val]

(* _update_free_mem_size with the zone length its caller has computed.     *)
SetFree(len) == [kind |-> "free", at |-> NULL, val |-> len]

(* The stores of _get_alloc that give a block of some size its place.      *)
EndOf(at) == at + AllocHdr + heap[at].size

HoleAfter(size) ==
  FirstOf({i \in 1..(Len(Walk) - 1) :
             heap[Walk[i]].next > EndOf(Walk[i]) + size + AllocHdr})

(* Mutant: the list starts at the new block before the block is set.       *)
FrontStoresPoolFirst(size) ==
  LET at == Base + ZoneHdr
  IN  [how |-> "front", block |-> at, todo |->
         <<SetPool(at), SetAlloc(at, alloc_pool, NULL, size)>>
           \o (IF alloc_pool = NULL THEN << >> ELSE <<SetPrev(alloc_pool, at)>>)]

FrontStores(size) ==
  LET at == Base + ZoneHdr
  IN  [how |-> "front", block |-> at, todo |->
         <<SetAlloc(at, alloc_pool, NULL, size), SetPool(at)>>
           \o (IF alloc_pool = NULL THEN << >> ELSE <<SetPrev(alloc_pool, at)>>)]

BetweenStores(size, i) ==
  LET head == Walk[i]
      at   == EndOf(head)
  IN  [how |-> "between", block |-> at, todo |->
         <<SetAlloc(at, heap[head].next, head, size),
           SetPrev(heap[head].next, at),
           SetPrev(head, at)>>]

(* Here the list reaches the new block before the block is set.            *)
BehindStores(size) ==
  LET head == Last(Walk)
      at   == EndOf(head)
  IN  [how |-> "behind", block |-> at, todo |->
         <<SetNext(head, at), SetAlloc(at, NULL, head, size)>>]

PlaceStores(size) ==
  IF \/ alloc_pool = NULL
     \/ alloc_pool > Base + ZoneHdr + AllocHdr + size
  THEN {FrontStores(size)}
  ELSE IF HoleAfter(size) # {}
       THEN {BetweenStores(size, i) : i \in HoleAfter(size)}
       ELSE IF Base + ZoneMemSize(size, "tiny")
                 >= EndOf(Last(Walk)) + size + AllocHdr
            THEN {BehindStores(size)} ELSE {}

(* Mutant: the block behind keeps its prev pointer.                        *)
UnlinkStoresOneWay(at) ==
  LET next == heap[at].next
      prev == heap[at].prev
  IN  IF prev # NULL THEN <<SetNext(prev, next)>>
      ELSE <<SetPool(next)>>
             \o (IF next = NULL THEN << >> ELSE <<SetPrev(next, NULL)>>)

(* The stores of free that take a block off the list.                      *)
UnlinkStores(at) ==
  LET next == heap[at].next
      prev == heap[at].prev
  IN  <<IF prev # NULL THEN SetNext(prev, next) ELSE SetPool(next)>>
        \o (IF next = NULL THEN << >> ELSE <<SetPrev(next, prev)>>)

-----------------------------------------------------------------------------
(* The bytes from lo to hi are the client's now: headers there are lost.   *)
Wipe(h, lo, hi) ==
  Restrict(h, {a \in DOMAIN h : a + AllocHdr <= lo \/ hi <= a})

(* A header is written over whatever headers it overlaps.                  *)
WriteHeader(at, header) ==
  LET rest == Wipe(heap, at, at + AllocHdr)
  IN  [a \in DOMAIN rest \cup {at} |-> IF a = at THEN header ELSE rest[a]]

(* A store to a field of a header the client has overwritten since changes *)
(* none of the headers.                                                    *)
WriteField(at, field, val) ==
  IF at \notin DOMAIN heap THEN heap
  ELSE [heap EXCEPT ![at] = IF field = "next" THEN [@ EXCEPT !.next = val]
                                              ELSE [@ EXCEPT !.prev = val]]

Begin(call) ==
  /\ op' = call
  /\ before' = ZoneInMemory
  /\ UNCHANGED <<heap, alloc_pool, free_mem>>

BeginMalloc(size) ==
  /\ op = NoOp
  /\ \E call \in PlaceStores(size) :
       Begin([call EXCEPT !.todo =
                Append(@, SetFree(ZoneMemSize(size, "tiny")))])

BeginFree(at) ==
  /\ op = NoOp
  /\ Begin([how |-> "free", block |-> at, todo |->
              Append(UnlinkStores(at),
                     SetFree(ZoneMemSize(heap[alloc_pool].size, "tiny")))])

(* Every store but the last, which is the one to free_mem_size.            *)
Store ==
  /\ Len(op.todo) > 1
  /\ LET s == Head(op.todo)
     IN  /\ alloc_pool' = IF s.kind = "pool" THEN s.val ELSE alloc_pool
         /\ heap' = CASE s.kind = "header" -> WriteHeader(s.at, s.val)
                      [] s.kind = "pool"   -> heap
                      [] OTHER             -> WriteField(s.at, s.kind, s.val)
  /\ op' = [op EXCEPT !.todo = Tail(@)]
  /\ UNCHANGED <<free_mem, before>>

(* The call returns; from here on the client writes to the chunk malloc    *)
(* has returned.                                                           *)
Return ==
  /\ Len(op.todo) = 1
  /\ free_mem' = UpdateFreeMemSize(ZoneInMemory, ZoneInMemory.allocs,
                                   Head(op.todo).val).free
  /\ heap' = IF op.how = "free" THEN heap
             ELSE Wipe(heap, op.block + AllocHdr, EndOf(op.block))
  /\ op' = NoOp
  /\ UNCHANGED <<alloc_pool, before>>

Init ==
  /\ heap = << >>
  /\ alloc_pool = NULL
  /\ \E size \in Sizes : free_mem = ZoneMemSize(size, "tiny") - ZoneHdr
  /\ op = NoOp
  /\ before = ZoneInMemory

Next ==
  \/ \E size \in Sizes : BeginMalloc(size)
  \/ \E i \in DOMAIN Walk : BeginFree(Walk[i])
  \/ Store
  \/ Return

Spec == Init /\ [][Next]_vars

-----------------------------------------------------------------------------
(* Properties                                                              *)

(* malloc and free as a whole: while a call is in progress the zone counts *)
(* as it was before.                                                       *)
Calls == INSTANCE ZoneList WITH
           zone <- IF op = NoOp THEN ZoneInMemory ELSE before

(* The stores of _get_alloc and free, one by one and through whatever      *)
(* pointers they find in memory, add up to the atomic list operations of   *)
(* ZoneList: also when prev pointers dangle and free writes through them.  *)
ImplementsZoneList == Calls!ZoneSpec

Listed(zone) == {zone.allocs[j].at : j \in DOMAIN zone.allocs}

(* _get_alloc has made the last block point to the new one and is about to *)
(* set the new one.                                                        *)
HalfBehind == op.how = "behind" /\ Len(op.todo) = 2

(* Wherever SIGINT stops malloc or free, the handler's walk ends and finds *)
(* every block but the one the call is about exactly as if there were no   *)
(* call.  The exception is the placement behind the last block.            *)
HandlerSeesOthers ==
  ~HalfBehind =>
    /\ IsInjective(Walk)
    /\ ToSet(Walk) \subseteq DOMAIN heap
    /\ op # NoOp =>
         ToSet(Walk) \ {op.block} = Listed(before) \ {op.block}
=============================================================================
