----------------------------- MODULE MemPoolInv -----------------------------
(***************************************************************************)
(* What the allocator core promises: its type invariant, the invariants of *)
(* the lists, the promises to the client, and the statements of its own    *)
(* comments, messages and tests.                                           *)
(***************************************************************************)
EXTENDS MemPool

(* The type invariant.  free_mem_size is a uint64_t that is assigned from  *)
(* signed differences: it stays a natural number.                          *)
TypeOK ==
  /\ pool \in Seq(Zone)
  /\ mapped \subseteq Int
  /\ held \in [Slots -> [ptr: Nat, size: Nat]]
  /\ calls \in [Threads -> Calls]
  /\ lock \in Threads \cup {Nobody}
  /\ status \in {"running", "aborted"}
  /\ events \subseteq Events

-----------------------------------------------------------------------------
(* The allocation lists                                                    *)

(* The comment over _get_alloc: the previous and next pointers stay        *)
(* consistent.                                                             *)
LinksConsistent == \A k \in DOMAIN pool : Linked(pool[k])

(* A prev pointer names the block right in front or nothing in the list,   *)
(* broken or not: the unlinking of free never drops a block other than the *)
(* one freed and never ties the list into a cycle.                         *)
FreeDropsOnlyItsBlock ==
  \A k \in DOMAIN pool : \A j \in DOMAIN pool[k].allocs :
    PrevIndex(pool[k].allocs, j) \subseteq {j - 1}

(* A list lies in ascending address order inside its zone and its prev     *)
(* pointers are in place or dangle harmlessly, also when the links are     *)
(* broken: _get_alloc measures gaps between neighbours and takes the last  *)
(* listed block for the one at the end.  The prev pointers agree with the  *)
(* list until _get_alloc first places a block between two others: no other *)
(* path of malloc, free or realloc breaks them.  Listed blocks do not      *)
(* overlap until realloc has shrunk one in place: a block can then be      *)
(* grown back over its neighbour.  Inductive.                              *)
ListsSound ==
  \A k \in DOMAIN pool :
    /\ Sorted(pool[k])
    /\ LinksSound(pool[k])
    /\ "interior" \notin events => Linked(pool[k])
    /\ "shrunk" \notin events => Ordered(pool[k])

-----------------------------------------------------------------------------
(* The list of zones                                                       *)

(* A zone of type large is made for one block, is never offered to another *)
(* and goes away with it, so none is ever empty.                           *)
LargeZonesHoldOneBlock ==
  \A k \in DOMAIN pool : pool[k].type = "large" => Len(pool[k].allocs) = 1

EmptyZones(type) ==
  {k \in DOMAIN pool : pool[k].type = type /\ pool[k].allocs = << >>}

(* free means to keep one spare zone of a type; its walk does not see the  *)
(* last zone, so two can be kept, but never three.                         *)
AtMostTwoEmptyZones ==
  \A type \in {"tiny", "small"} : Cardinality(EmptyZones(type)) <= 2

(* Giving zones back never removes the last zone of type tiny or small.    *)
KeepsAZone ==
  [][\A k \in DOMAIN pool :
       Len(pool') < Len(pool) /\ pool[k].type # "large"
         => \E m \in DOMAIN pool' : pool'[m].type = pool[k].type]_vars

(* A zone _get_alloc_zone picks by its free_mem_size has room: the comment *)
(* over it promises an appropriate chunk, and malloc does not look further *)
(* when the zone turns out to be full.                                     *)
FreeSizeHonest ==
  \A k \in DOMAIN pool, s \in Sizes :
    /\ SetZoneType(RoundUp(s)) = pool[k].type
    /\ pool[k].type # "large"
    /\ pool[k].free > RoundUp(s) + AllocHdr
    => Carve(pool[k], RoundUp(s)) # {}

-----------------------------------------------------------------------------
(* The promises to the client                                              *)

(* The paths that lose track of a block: a block carved between two others *)
(* is not listed, a block shrunk in place is freed under its owner, and    *)
(* reallocf frees a second time what realloc has freed.                    *)
Clean == events \cap {"interior", "shrunk", "twice"} = {}

Disjoint ==
  \A x, y \in Owned :
    x # y => ~Overlap(x[2].ptr, x[2].size, y[2].ptr, y[2].size)

(* Blocks handed out by malloc and realloc to all threads never overlap    *)
(* one another, a header in use, or memory that is not mapped.             *)
OwnedSafe == Clean => Disjoint /\ ~Trampled

(* What the lists hold is what the client owns: no block is leaked by a    *)
(* realloc that gives up half way, none is released while owned.           *)
ViewsAgree ==
  Clean /\ "missed" \notin events =>
    {<<Chunk(a), a.cap>> : a \in ListedAllocs}
      = {<<o[2].ptr, o[2].size>> : o \in Owned}

(* The length a zone was mapped with, when every size of its type gives    *)
(* the same, and its pages.                                                *)
ZoneLen(z) ==
  LET size == IF z.allocs # << >> THEN z.allocs[1].cap
              ELSE RoundUp(CHOOSE s \in Sizes : SetZoneType(RoundUp(s)) = z.type)
  IN  ZoneMemSize(size, z.type)

ZonePages(z) == PagesOf(z.base, ZoneLen(z))

(* Every mapped page belongs to a zone of the list and every page of a     *)
(* zone is mapped, although no length is recorded and free recomputes it   *)
(* for munmap: until munmap itself fails.                                  *)
MappedExact ==
  Clean /\ "kept" \notin events =>
    mapped = UNION {ZonePages(pool[k]) : k \in DOMAIN pool}

Descending == \A k, m \in DOMAIN pool : k < m => pool[k].base > pool[m].base

(* free and realloc find every block the client holds by its pointer.      *)
FindsHeld ==
  Clean => \A i \in Slots : held[i] # NoBlock => Find(held[i].ptr) # {}

(* They do while the kernel hands out zones downwards: the estimate of a   *)
(* zone's end, taken from its free size, can reach over the zone above it, *)
(* which then comes earlier in the list, and never cuts a block off.       *)
FoundWhenDescending == Descending => FindsHeld

(* free and realloc say "the passed in pointer was not allocated" only of  *)
(* pointers that were not: the client passes none of those.                *)
OnlyStrangersRefused == Clean => "missed" \notin events

(* The abstract heap: the listed blocks, what the slots hold, and the new  *)
(* blocks of the reallocs in progress.                                     *)
ListedBlocks == {[ptr |-> Chunk(a), size |-> a.cap] : a \in ListedAllocs}

HeapMoves(t) ==
  IF t \in InFlight
  THEN [moves |-> TRUE, slot |-> calls[t].slot,
        block |-> [ptr |-> calls[t].new, size |-> calls[t].size]]
  ELSE [moves |-> FALSE]

TheHeap == INSTANCE Heap WITH
  heap   <- ListedBlocks,
  moving <- [t \in Threads |-> HeapMoves(t)],
  broken <- ~Clean \/ Trampled

(* The zones and their lists implement the heap: each critical section of  *)
(* malloc, free, realloc and reallocf adds one block that is clear of all  *)
(* others, removes exactly the block it was asked to remove, or changes    *)
(* nothing that a program can tell.                                        *)
ImplementsHeap == TheHeap!Spec

(* The second free of reallocf finds something to free only if the address *)
(* has been handed out again since the first: otherwise it is refused.     *)
SecondFreeTakesReissued ==
  [][Clean /\ "twice" \in events' =>
       \E t \in Threads :
         /\ calls[t].stage = "drop" /\ calls'[t] = Idle
         /\ \E o \in Owned : o[2].ptr = calls[t].old]_vars

(* The block realloc works on across its critical sections stays listed    *)
(* with its capacity, whatever other threads do in between: ptr_alloc is   *)
(* read again after the lock was given back.                               *)
ReallocKeepsItsBlock ==
  Clean /\ "missed" \notin events =>
    \A t \in Threads : calls[t].stage \in {"move", "finish"} =>
      \E a \in ListedAllocs :
        Chunk(a) = calls[t].old /\ a.cap = held[calls[t].slot].size

-----------------------------------------------------------------------------
(* The inductive invariant behind the promises                             *)

RoundedSizes == {RoundUp(s) : s \in Sizes}

(* The condition under which they hold: no two sizes the program asks for  *)
(* make tiny, or small, zones of different lengths, and a zone has room    *)
(* for the block it is made for, which it has when TINY_ZONE is 2 or more. *)
SizesAgree ==
  /\ \A s, r \in RoundedSizes :
       SetZoneType(s) = SetZoneType(r) /\ SetZoneType(s) # "large"
         => ZoneMemSize(s, SetZoneType(s)) = ZoneMemSize(r, SetZoneType(s))
  /\ \A s \in RoundedSizes :
       ZoneHdr + AllocHdr + s <= ZoneMemSize(s, SetZoneType(s))

(* The condition under which pointers are found: the last place a zone     *)
(* has for a block lies below the least estimate of the zone's end.        *)
EstimateReaches ==
  /\ \A s \in RoundedSizes :
       LET type == SetZoneType(s)
       IN  type # "large" => ZoneMemSize(s, type) - s < ZoneMemSize(0, type)
  /\ ZoneHdr + AllocHdr < ZoneMemSize(0, "large")

(* The sizes found in the headers of a zone are sizes of its type, so that *)
(* its length comes out the same from each of them.                        *)
SizedZone(z) ==
  /\ \E s \in RoundedSizes : SetZoneType(s) = z.type
  /\ \A j \in DOMAIN z.allocs : \A s \in {z.allocs[j].size, z.allocs[j].cap} :
       s \in RoundedSizes /\ SetZoneType(s) = z.type

(* free_mem_size is what _update_free_mem_size computes of the list.       *)
FreeExact(z) == z = UpdateFreeMemSize(z, z.allocs, ZoneLen(z))

SizesSound ==
  /\ \A k \in DOMAIN pool :
       SizedZone(pool[k]) /\ (pool[k].type # "large" => FreeExact(pool[k]))
  /\ \A t \in Threads :
       calls[t].stage \in {"move", "finish"} => calls[t].size \in RoundedSizes

(* A zone has room for its blocks ...                                      *)
RoomyZone(z) ==
  /\ Linked(z) /\ Ordered(z)
  /\ z.type = "large" => Len(z.allocs) = 1 /\ z.allocs[1].at = FirstSlot(z)
  /\ \A j \in DOMAIN z.allocs :
       /\ z.allocs[j].size = z.allocs[j].cap
       /\ End(z.allocs[j]) <= z.base + ZoneLen(z)

(* ... and pages of its own.                                               *)
ZonesSound ==
  Clean =>
    /\ \A k \in DOMAIN pool : RoomyZone(pool[k]) /\ ZonePages(pool[k]) \subseteq mapped
    /\ \A k, m \in DOMAIN pool :
         k # m => ZonePages(pool[k]) \cap ZonePages(pool[m]) = {}

(* The new block of a realloc in progress.                                 *)
NewBlock(t) == [ptr |-> calls[t].new, size |-> calls[t].size]

(* Each slot and each realloc in progress has a listed block of its own,   *)
(* and each call in progress a slot of its own.                            *)
OwnersSound ==
  Clean =>
    /\ \A i \in Slots : held[i] # NoBlock => held[i] \in ListedBlocks
    /\ \A i, m \in Slots : held[i] # NoBlock /\ held[i] = held[m] => i = m
    /\ \A t \in Threads :
         /\ calls[t].stage \in {"move", "finish"} =>
              held[calls[t].slot] # NoBlock
         /\ calls[t].stage # "idle" /\ held[calls[t].slot] # NoBlock =>
              calls[t].old = held[calls[t].slot].ptr
         /\ calls[t].stage = "finish" =>
              /\ NewBlock(t) \in ListedBlocks
              /\ \A i \in Slots : held[i] # NewBlock(t)
    /\ \A t, u \in Threads : t # u =>
         /\ calls[t].stage # "idle" /\ calls[u].stage # "idle" =>
              calls[t].slot # calls[u].slot
         /\ calls[t].stage = "finish" /\ calls[u].stage = "finish" =>
              NewBlock(t) # NewBlock(u)

(* No listed block is without an owner.                                    *)
NothingLost ==
  Clean /\ "missed" \notin events =>
    \A b \in ListedBlocks :
      \/ \E i \in Slots : held[i] = b
      \/ \E t \in Threads : calls[t].stage = "finish" /\ NewBlock(t) = b

-----------------------------------------------------------------------------
(* Statements of the repository the code does not keep                     *)

(* realloc returns a block its caller owns.                                *)
ReallocReturnsListedBlock ==
  events \subseteq {"shrunk"} =>
    \A i \in Slots : held[i] # NoBlock =>
      \E a \in ListedAllocs : Chunk(a) = held[i].ptr

(* A zone is mapped with the memory size its blocks require.               *)
BlocksMapped ==
  Clean => \A o \in Owned : Backed(o[2].ptr, o[2].size)
=============================================================================
