------------------------------- MODULE MemPool -------------------------------
(***************************************************************************)
(* The allocator core: the list of zones behind _mem_pool.pool and the     *)
(* calls malloc, free, realloc and reallocf of several threads on it.      *)
(*                                                                         *)
(* The list of zones is touched only with _mutex_lock held, so a critical  *)
(* section is one step.  realloc and reallocf take the lock several times; *)
(* each of their critical sections is a step of its own and other threads  *)
(* run in between.  The kernel is external: mmap returns any free range of *)
(* pages, or refuses when KernelMayRefuse.                                 *)
(*                                                                         *)
(* The client is a program that keeps its pointers in Slots and passes     *)
(* only pointers it holds.  It may write to every byte it holds: once such *)
(* a byte is also a header of the allocator, or is not mapped, what the    *)
(* program does next is undefined, and the model stops there (Trampled).   *)
(***************************************************************************)
EXTENDS AllocList, SequencesExt

CONSTANTS
  Threads,          \* threads of the program
  Slots,            \* the client's pointer variables
  Sizes,            \* sizes the client asks for
  Apis,             \* the entry points the client uses
  NumPages,         \* bound: pages 1..NumPages are the address space
  KernelMayRefuse,  \* may mmap and munmap fail?
  KernelTopDown,    \* does mmap pick the highest free range?
  AbortOnErr,       \* is DBG_ENV_ABORT_ON_ERR set to 1?
  Nobody            \* the mutex is free

ASSUME PoolAssumption ==
  /\ Sizes \subseteq Nat \ {0}
  /\ NumPages \in Nat
  /\ Apis \subseteq {"realloc", "reallocf"}
  /\ KernelMayRefuse \in BOOLEAN
  /\ KernelTopDown \in BOOLEAN
  /\ AbortOnErr \in BOOLEAN
  /\ Nobody \notin Threads

VARIABLES
  pool,     \* the zones, in the order of the list _mem_pool.pool
  mapped,   \* pages the kernel has mapped for the allocator
  held,     \* what each slot of the client points to
  calls,    \* the realloc or reallocf each thread is in the middle of
  lock,     \* the thread that left _mutex_lock locked, or Nobody
  status,   \* "running", or "aborted" after _abort_program
  events    \* history: the exceptional paths of the code that have run

vars == <<pool, mapped, held, calls, lock, status, events>>

NoBlock == [ptr |-> NULL, size |-> 0]

Idle == [stage |-> "idle"]

(* move:   realloc found the block and gave the lock back before malloc    *)
(* finish: realloc has its result and is about to copy and free the block  *)
(* drop:   reallocf got NULL from realloc and is about to free the block   *)
Calls ==
  {Idle}
  \cup [stage: {"move"}, api: Apis, slot: Slots, old: Nat, size: Nat]
  \cup [stage: {"finish"}, slot: Slots, old: Nat, new: Nat, size: Nat]
  \cup [stage: {"drop"}, slot: Slots, old: Nat]

Events == {"interior", "shrunk", "missed", "refused", "kept", "twice"}

Busy(i) == \E t \in Threads : calls[t].stage # "idle" /\ calls[t].slot = i

(***************************************************************************)
(* What the program owns: the blocks in its slots, and the new block a     *)
(* realloc in progress is going to return.                                 *)
(***************************************************************************)
InFlight == {t \in Threads : calls[t].stage = "finish"
                               /\ calls[t].new # calls[t].old}

Owned ==
  {<<i, held[i]>> : i \in {s \in Slots : held[s] # NoBlock}}
  \cup {<<t, [ptr |-> calls[t].new, size |-> calls[t].size]>> : t \in InFlight}

Overlap(a, n, b, m) == a < b + m /\ b < a + n

Backed(a, n) == (a \div Page)..((a + n - 1) \div Page) \subseteq mapped

ListedAllocs == UNION {{pool[k].allocs[j] : j \in DOMAIN pool[k].allocs}
                         : k \in DOMAIN pool}

(* The headers the code still reads or writes: those of the zones, of the  *)
(* listed blocks, and of the block a realloc is about to copy and free.    *)
Headers ==
  {<<pool[k].base, ZoneHdr>> : k \in DOMAIN pool}
  \cup {<<a.at, AllocHdr>> : a \in ListedAllocs}
  \cup {<<calls[t].old - AllocHdr, AllocHdr>> :
          t \in {u \in Threads : calls[u].stage = "finish"}}

Trampled ==
  \/ \E h \in Headers :
       \/ ~Backed(h[1], h[2])
       \/ \E o \in Owned : Overlap(o[2].ptr, o[2].size, h[1], h[2])
  \/ \E o \in Owned : ~Backed(o[2].ptr, o[2].size)

-----------------------------------------------------------------------------
(* malloc                                                                  *)

(* _get_alloc_zone: the first zone of the type that says it has room.      *)
GetAllocZone(size) ==
  FirstOf({k \in DOMAIN pool :
             /\ SetZoneType(size) # "large"
             /\ pool[k].type = SetZoneType(size)
             /\ pool[k].free > size + AllocHdr})

PagesOf(base, len) == (base \div Page)..((base + len - 1) \div Page)

(* mmap picks the place.                                                   *)
FreePages(len) ==
  {p \in 1..NumPages :
     /\ p + (len \div Page) - 1 <= NumPages
     /\ PagesOf(Page * p, len) \cap mapped = {}}

FreeBases(len) ==
  {Page * p : p \in {q \in FreePages(len) :
                       KernelTopDown => \A r \in FreePages(len) : r <= q}}

InZone(k, size) ==
  IF Carve(pool[k], size) = {}
  THEN {[pool |-> pool, mapped |-> mapped, ptr |-> NULL, listed |-> TRUE]}
  ELSE {[pool |-> [pool EXCEPT ![k] = c.zone], mapped |-> mapped,
         ptr |-> c.ptr, listed |-> c.listed] : c \in Carve(pool[k], size)}

InNewZone(base, size) ==
  {[pool   |-> Append(pool, c.zone),
    mapped |-> mapped \cup
                 PagesOf(base, ZoneMemSize(size, SetZoneType(size))),
    ptr    |-> c.ptr,
    listed |-> c.listed] : c \in Carve(FreshZone(base, size), size)}

(* The ways the critical section of malloc can end with the mutex free.    *)
MallocOutcomes(size) ==
  IF GetAllocZone(size) # {}
  THEN UNION {InZone(k, size) : k \in GetAllocZone(size)}
  ELSE UNION {InNewZone(b, size) :
                b \in FreeBases(ZoneMemSize(size, SetZoneType(size)))}

Serve(o) ==
  /\ pool' = o.pool
  /\ mapped' = o.mapped
  /\ events' = IF o.listed THEN events ELSE events \cup {"interior"}
  /\ UNCHANGED <<lock, status>>

(* mmap fails: _abort_program ends the program if it is told to; otherwise *)
(* malloc returns NULL from inside the critical section.                   *)
Refuse(t, size) ==
  /\ KernelMayRefuse
  /\ GetAllocZone(size) = {}
  /\ IF AbortOnErr THEN status' = "aborted" /\ UNCHANGED lock
                   ELSE lock' = t /\ UNCHANGED status
  /\ events' = events \cup {"refused"}
  /\ UNCHANGED <<pool, mapped>>

Malloc(t, i, size) ==
  /\ calls[t] = Idle
  /\ held[i] = NoBlock /\ ~Busy(i)
  /\ \/ \E o \in MallocOutcomes(RoundUp(size)) :
          /\ Serve(o)
          /\ held' = [held EXCEPT ![i] =
               IF o.ptr = NULL THEN NoBlock
               ELSE [ptr |-> o.ptr, size |-> RoundUp(size)]]
     \/ Refuse(t, RoundUp(size)) /\ UNCHANGED held
  /\ UNCHANGED calls

-----------------------------------------------------------------------------
(* free                                                                    *)

(* Mutant: the first chunk of a zone is taken to lie outside it.           *)
FindZoneBehindFirst(ptr) ==
  FirstOf({k \in DOMAIN pool :
             /\ pool[k].allocs # << >>
             /\ ptr > pool[k].base + ZoneHdr + AllocHdr
             /\ ptr < pool[k].base
                        + ZoneMemSize(pool[k].free, pool[k].type)})

(* _find_ptr_mem_zone: the end of a zone is estimated from its free size.  *)
FindZone(ptr) ==
  FirstOf({k \in DOMAIN pool :
             /\ pool[k].allocs # << >>
             /\ ptr >= pool[k].base + ZoneHdr + AllocHdr
             /\ ptr < pool[k].base
                        + ZoneMemSize(pool[k].free, pool[k].type)})

Find(ptr) ==
  UNION {{<<k, j>> : j \in FindAlloc(pool[k], ptr)} : k \in FindZone(ptr)}

(* Mutants: a second spare zone is kept, and none is kept.                 *)
IsTwoOrLess(type) ==
  Cardinality({k \in 1..(Len(pool) - 1) : pool[k].type = type}) <= 2

IsNone(type) ==
  Cardinality({k \in 1..(Len(pool) - 1) : pool[k].type = type}) < 1

(* is_only_one_or_less_zone_with_type: the walk ends before the last zone. *)
IsOnlyOneOrLess(type) ==
  Cardinality({k \in 1..(Len(pool) - 1) : pool[k].type = type}) <= 1

(* Mutant: an empty large zone is kept like any other.                     *)
UnmapsNoLarge(z, j) ==
  /\ FreedZone(z, j).free = FreedZoneSize(z) - ZoneHdr
  /\ ~IsOnlyOneOrLess(z.type)

(* Mutant: a zone with room for another block of its type is given back.   *)
UnmapsWithRoom(z, j) ==
  /\ FreedZone(z, j).free > z.allocs[j].cap + AllocHdr
  /\ z.type = "large" \/ ~IsOnlyOneOrLess(z.type)

Unmaps(z, j) ==
  /\ FreedZone(z, j).free = FreedZoneSize(z) - ZoneHdr
  /\ z.type = "large" \/ ~IsOnlyOneOrLess(z.type)

Release(k, j) ==
  IF Unmaps(pool[k], j)
  THEN /\ pool' = RemoveAt(pool, k)
       /\ \/ /\ mapped' = mapped \ PagesOf(pool[k].base, FreedZoneSize(pool[k]))
             /\ UNCHANGED status
          \/ /\ KernelMayRefuse
             /\ status' = IF AbortOnErr THEN "aborted" ELSE status
             /\ UNCHANGED mapped
  ELSE /\ pool' = [pool EXCEPT ![k] = FreedZone(@, j)]
       /\ UNCHANGED <<mapped, status>>

(* munmap fails: the zone has left the list but not the address space.     *)
LeftMapped ==
  IF Len(pool') < Len(pool) /\ mapped' = mapped THEN {"kept"} ELSE {}

(* The pointer is not found: an error is reported, nothing is changed.     *)
Missed ==
  /\ status' = IF AbortOnErr THEN "aborted" ELSE status
  /\ events' = events \cup {"missed"}
  /\ UNCHANGED <<pool, mapped, lock>>

FreePtr(ptr) ==
  \/ /\ \E loc \in Find(ptr) : Release(loc[1], loc[2])
     /\ events' = events \cup LeftMapped
     /\ UNCHANGED lock
  \/ Find(ptr) = {} /\ Missed

Free(t, i) ==
  /\ calls[t] = Idle
  /\ held[i] # NoBlock /\ ~Busy(i)
  /\ FreePtr(held[i].ptr)
  /\ held' = [held EXCEPT ![i] = NoBlock]
  /\ UNCHANGED calls

-----------------------------------------------------------------------------
(* realloc and reallocf                                                    *)

(* The first critical section.  realloc of a null pointer is malloc and    *)
(* realloc to size 0 is free; both are the actions above.                  *)
FoundAlloc(loc) == pool[loc[1]].allocs[loc[2]]

FitsInPlace(a, size) == SetZoneType(a.cap) = SetZoneType(size) /\ size < a.cap

(* _find_and_set_new_allocation; growing in place never succeeds, because  *)
(* the limit it compares with is a product that is always zero.            *)
Shrink(k, j, size) ==
  LET shrunk == [pool[k].allocs EXCEPT ![j].size = size]
  IN  pool' = [pool EXCEPT ![k] =
        UpdateFreeMemSize(@, shrunk, ZoneMemSize(size, @.type))]

Realloc(t, api, i, size) ==
  /\ calls[t] = Idle
  /\ held[i] # NoBlock /\ ~Busy(i)
  /\ \/ \E loc \in Find(held[i].ptr) :
          /\ FoundAlloc(loc).cap = RoundUp(size)
          /\ held' = [held EXCEPT ![i].size = RoundUp(size)]
          /\ UNCHANGED <<pool, mapped, calls, lock, status, events>>
     \/ \E loc \in Find(held[i].ptr) :
          /\ FoundAlloc(loc).cap # RoundUp(size)
          /\ IF FitsInPlace(FoundAlloc(loc), RoundUp(size))
             THEN /\ Shrink(loc[1], loc[2], RoundUp(size))
                  /\ events' = events \cup {"shrunk"}
                  /\ calls' = [calls EXCEPT ![t] =
                       [stage |-> "finish", slot |-> i, old |-> held[i].ptr,
                        new |-> held[i].ptr, size |-> RoundUp(size)]]
             ELSE /\ calls' = [calls EXCEPT ![t] =
                       [stage |-> "move", api |-> api, slot |-> i,
                        old |-> held[i].ptr, size |-> RoundUp(size)]]
                  /\ UNCHANGED <<pool, events>>
          /\ UNCHANGED <<mapped, held, lock, status>>
     \/ /\ Find(held[i].ptr) = {}
        /\ Missed
        /\ calls' = [calls EXCEPT ![t] =
             IF api = "reallocf" /\ ~AbortOnErr
             THEN [stage |-> "drop", slot |-> i, old |-> held[i].ptr]
             ELSE Idle]
        /\ UNCHANGED held

(* What follows when realloc returns NULL with the old block untouched.    *)
GiveUp(t) ==
  calls' = [calls EXCEPT ![t] =
    IF @.api = "reallocf" THEN [stage |-> "drop", slot |-> @.slot, old |-> @.old]
                          ELSE Idle]

ReallocMove(t) ==
  /\ calls[t].stage = "move"
  /\ \/ \E o \in MallocOutcomes(calls[t].size) :
          /\ Serve(o)
          /\ IF o.ptr = NULL THEN GiveUp(t)
             ELSE calls' = [calls EXCEPT ![t] =
                    [stage |-> "finish", slot |-> @.slot, old |-> @.old,
                     new |-> o.ptr, size |-> @.size]]
     \/ Refuse(t, calls[t].size) /\ GiveUp(t)
  /\ UNCHANGED held

(* Mutant: the block that was just filled is freed, not the old one.       *)
ReallocFinishFreesNew(t) ==
  /\ calls[t].stage = "finish"
  /\ FreePtr(calls[t].new)
  /\ held' = [held EXCEPT ![calls[t].slot] =
                [ptr |-> calls[t].new, size |-> calls[t].size]]
  /\ calls' = [calls EXCEPT ![t] = Idle]

(* The copy, in a critical section that changes no list, then the free of  *)
(* the old block: also when the block was shrunk where it is.              *)
ReallocFinish(t) ==
  /\ calls[t].stage = "finish"
  /\ FreePtr(calls[t].old)
  /\ held' = [held EXCEPT ![calls[t].slot] =
                [ptr |-> calls[t].new, size |-> calls[t].size]]
  /\ calls' = [calls EXCEPT ![t] = Idle]

(* reallocf to size 0: realloc frees the block and returns NULL.           *)
ReallocfZero(t, i) ==
  /\ "reallocf" \in Apis
  /\ calls[t] = Idle
  /\ held[i] # NoBlock /\ ~Busy(i)
  /\ FreePtr(held[i].ptr)
  /\ held' = [held EXCEPT ![i] = NoBlock]
  /\ calls' = [calls EXCEPT ![t] =
       [stage |-> "drop", slot |-> i, old |-> held[i].ptr]]

(* reallocf frees the pointer it was given whenever realloc returned NULL. *)
ReallocfDrop(t) ==
  /\ calls[t].stage = "drop"
  /\ \/ /\ \E loc \in Find(calls[t].old) : Release(loc[1], loc[2])
        /\ events' = events \cup LeftMapped
                      \cup (IF held[calls[t].slot] = NoBlock
                             THEN {"twice"} ELSE {})
        /\ UNCHANGED lock
     \/ Find(calls[t].old) = {} /\ Missed
  /\ held' = [held EXCEPT ![calls[t].slot] = NoBlock]
  /\ calls' = [calls EXCEPT ![t] = Idle]

-----------------------------------------------------------------------------
Init ==
  /\ pool = << >>
  /\ mapped = {}
  /\ held = [i \in Slots |-> NoBlock]
  /\ calls = [t \in Threads |-> Idle]
  /\ lock = Nobody
  /\ status = "running"
  /\ events = {}

(* Every step is a critical section: it starts only if the program runs    *)
(* and the mutex is free.                                                  *)
Runnable ==
  /\ status = "running"
  /\ lock = Nobody
  /\ ~Trampled

Step(t) ==
  \/ \E i \in Slots :
       \/ Free(t, i)
       \/ ReallocfZero(t, i)
       \/ \E size \in Sizes :
            \/ Malloc(t, i, size)
            \/ \E api \in Apis : Realloc(t, api, i, size)
  \/ ReallocMove(t)
  \/ ReallocFinish(t)
  \/ ReallocfDrop(t)

Next == Runnable /\ \E t \in Threads : Step(t)

Spec == Init /\ [][Next]_vars
=============================================================================
