# tiny_malloc in TLA+

A verification development for tiny_malloc, a C re-implementation of `malloc`,
`realloc`, `calloc` and `free` (`src/README.md`). TLA+ modules model the
allocator, TLC checks them on small instances, and TLAPS proves the most
important theorems for every value of the constants. All paths below are those
of the repository (`src/src/*.c` is the allocator, `src/libft` its string
library).

## 1. The system

| Component | State | Operations | Talks to |
|---|---|---|---|
| Size arithmetic (`init.c`, `malloc.h`) | two thresholds, set on the first call | round up, `_set_zone_type`, `_get_zone_mem_size` | every other part |
| Allocation list of a zone (`malloc.c`, `init.c`, `free.c`) | `alloc_pool`, the `next`/`prev`/`size`/`capacity` of each header, `free_mem_size` | `_get_alloc`, `_set_new_alloc`, `_update_free_mem_size`, `_creat_client_mem_ptr`, the unlinking in `free` | called with `_mutex_lock` held |
| Memory pool (`malloc.c`, `free.c`, `realloc.c`, `reallocf.c`, `init.c`) | the list `_mem_pool.pool` of zones, `_mutex_lock` | `malloc`, `free`, `realloc`, `reallocf` | `mmap`/`munmap`, the client's threads, `_abort_program` |
| Locks of the entry points (all `.c` files) | the owner of `_mutex_lock` | lock, unlock, nested calls and every early return of `malloc`, `free`, `realloc`, `reallocf`, `calloc`, `show_alloc_mem` | each other |
| `calloc` (`calloc.c`) | none | overflow test, `malloc`, zeroing | `malloc` |
| `show_alloc_mem` (`show_alloc_mem.c`) | a line of text on the stack | prints zones by address and a total | reads the pool with the mutex |
| Debug environment and exit (`dbg_env_handler.c`) | three flags, read once; a message on the stack | `_is_dbg_env_set`, `_abort_program`, the leak report, the handler of SIGINT, `_clear` | reads and unmaps the pool **without** the mutex |
| libft | none | `ft_memmove`, `ft_memset`, `ft_strlcat`, `ft_atoi`, ... | called by all |

Three type classes of zones exist (tiny, small, large). A zone is one mapping; it
starts with a `zone_info_t`, and blocks (an `alloc_info_t` and the client's
chunk) are placed in it first fit in address order. **No length is recorded for
a zone**: `_get_zone_mem_size` recomputes it, each time from whichever size is at
hand - the request, the first listed block, or the free size. Most of what is
hard in this code comes from there.

What is hard:

* *long sequences of legal calls*: links bent by a placement between two blocks,
  lengths recomputed from other sizes, spare zones kept and given back;
* *interleavings*: `realloc` takes the mutex up to four times and goes on with a
  pointer it found before; `reallocf` frees after `realloc` has returned; the
  exit walk and the signal handler take no lock at all;
* *partial failure*: `mmap` and `munmap` fail in the middle of a critical
  section; `realloc` gives up half way;
* *order of stores*: SIGINT may stop a thread between any two stores of a list
  operation, and its handler walks that list;
* *numbers*: off-by-one in the zone count, signed maxima stored unsigned, sums
  and products that wrap;
* *locks*: `realloc` gives the mutex back in one function or in another,
  depending on the path, and `malloc` returns with it when `mmap` fails;
* *bytes*: copies between blocks that overlap, sizes before and after rounding;
  messages appended to a fixed array by three conventions of keeping its length.

What makes each component correct:

* arithmetic: a block is as long as asked for, its zone has room for it;
* list: sorted, without overlap, `prev` and `next` agree, `free` drops one block;
* pool: blocks of the client never overlap each other, a header, or unmapped
  memory; the lists hold exactly what the client owns; `munmap` returns what
  `mmap` took; spare zones are bounded and never all given away; a held pointer
  is found; `realloc`'s block stays put while it is being copied;
* locks: each path unlocks once what it locked, no thread waits for itself, and
  every call comes back;
* bytes: `calloc`'s block is zero, `realloc`'s holds what the old one held, and
  neither changes a byte of another block;
* text: messages come out whole and stay inside their array; the flags are those
  the process was started with;
* exit: the report is exact, `_clear` unmaps whole zones and stays on its list;
* signal handler: its walk ends and sees every block that is not being changed.

## 2. The modules

```
ZoneSizes ------- AllocList ------- MemPool ------- MemPoolInv ------- MCMemPool
   |                 |                 |                | (implements Heap)
   |                 +--- ZoneList     +--- Report ---- ProcessExit -- MCProcessExit
   |                 +--- ListStores (implements ZoneList)
   +--- Requests ---- Contents

Locks        Messages ---- MCMessages

AllocListProofs --- PoolSafetyProofs --- ExitProofs
   |                       + (INSTANCE) HeapProofs
   +--- ListStoresProofs
   +--- ContentsProofs            LocksProofs        MessagesProofs
```

* **ZoneSizes** - rounding, thresholds, zone types and lengths as functions on
  the natural numbers. Constants stand for the page size, `TINY_ZONE`,
  `SMALL_ZONE`, the two header sizes and the alignment.
* **AllocList** - pure operators on one zone `[base, type, free, allocs]`.
  `allocs` is the list as a walk from `alloc_pool` along `next` sees it; `prev`
  is kept in every element because `free` and `_get_alloc` write it and it can
  disagree with the list. `GetAlloc` is `_get_alloc` with its three placements
  (`PlaceFront`, `PlaceBetween`, `PlaceBehind`) and its mistake of linking the
  middle placement through `head->prev`; `Unlink` follows `prev` as it is found,
  listed or not; `UpdateFreeMemSize` takes the zone length its caller computed.
* **MemPool** - the core. `pool` is the zone list, `mapped` the kernel's view,
  `held` the client's pointers, `calls` the `realloc` or `reallocf` each thread
  is in, `lock` the thread that left the mutex locked, `status` the effect of
  `_abort_program`, `events` a history of the exceptional paths. One critical
  section is one action, since the pool is touched only under `_mutex_lock`:

  | Action | Code |
  |---|---|
  | `Malloc` | all of `malloc`: pick a zone, or map one and append it, carve; `Refuse` is the return from inside the section when `mmap` fails |
  | `Free` (`FreePtr`, `Release`, `Missed`) | all of `free`: the lookup, the unlinking, the new free size, and giving back the zone |
  | `Realloc` | first section of `realloc`: same capacity, shrink in place, go on, or not found |
  | `ReallocMove` | its `malloc` |
  | `ReallocFinish` | its copy and its `free` of the old block, also after a shrink |
  | `ReallocfZero`, `ReallocfDrop` | `reallocf`'s two frees |

  `realloc(NULL, n)` is `Malloc` and `realloc(p, 0)` is `Free`. Once a chunk of
  the client overlaps a header the code still uses, or is not mapped, the next
  write of the client is undefined behaviour: the model stops there (`Trampled`).
* **MemPoolInv** - the properties of the core. Those about the client are stated
  for behaviours without the three paths that lose track of a block (`Clean`: no
  placement between two blocks, no shrink in place, no second free by
  `reallocf`). Each of the three is a finding or a hazard of its own. The module
  also holds the inductive invariant behind these promises and the two conditions
  on the constants under which they hold, `SizesAgree` and `EstimateReaches`
  (section 4).
* **Heap** - the abstract specification of the allocator: a set of blocks that do
  not overlap. `malloc` adds one, `free` removes the one it is given, `realloc`
  adds the new block in one step and removes the old one in a later step.
  `MemPoolInv!TheHeap` instantiates it: its blocks are the listed blocks of all
  zones, and a `realloc` past its `malloc` is one that moves. After the core has
  lost track of a block (`~Clean`) it promises nothing.
* **ZoneList** - the abstract specification of one zone: `malloc` and `free` as
  single steps. It is built from the same `Carve` and `FreedZone` as `MemPool`.
* **ListStores** - the same zone in memory: a heap of headers, `alloc_pool`,
  and calls that are sequences of single stores in the order of the code. The
  client overwrites the headers that lie in a chunk it is given, and a store
  through a pointer to such a header changes no header.
* **Report** - `show_alloc_mem`'s search for the next zone and the sums.
* **ProcessExit** - `MemPool` with one thread leaving (`exit`, or SIGINT and then
  `exit`): the leak report and `_clear` one zone per step while the other
  threads go on (`Others`). Two history fields belong to no code: `alone`, that no
  other thread has run since the exit began, and `steady`, that none has given
  back the zone a walk comes to next.
* **Requests** - sizes modulo `Word`: `calloc`'s product and test, `malloc`'s
  rounding, the length given to `mmap`.
* **Contents** - `Requests` with memory: the loops of `ft_memset`, `ft_memmove`
  and `ft_memcpy` behind `calloc` and `realloc`, one byte per step, with sizes as
  asked for and as rounded. Blocks may lie anywhere, also over one another: the
  zones do place them so (`DocZoneSize`), and a block shrunk in place is copied
  onto itself. An address beyond the last stops the loop.
* **Locks** - every entry point as a program counter and a stack of return
  places: which lock and unlock and which calls lie on each of its paths. What
  a critical section does to the lists is left open (found or not, in place or
  not, a block or none), so every path of the code is taken.
* **Messages** - `_show_program_leaks`, `_abort_program` and the lines of
  `show_alloc_mem` as scripts of appends, in the order of the code, on an array
  of `BUFF_SIZE` characters and the length the code keeps of it; `ft_strlcat`
  as it is called (with the size of the whole array wherever it starts); the
  digits of numbers and addresses; `_is_dbg_env_set` and `ft_atoi` on the
  environment, which the program may change. A literal is its length in copies
  of one symbol, so that a lost or overwritten character shows.
* **MCMessages** - the environments: values that read as 1 and values that
  nearly do.
* **MCMemPool**, **MCProcessExit** - the symmetry of slots and of threads. Sound:
  no definition distinguishes two of them, and all properties are state or
  action properties.

External and modelled by how the code uses them: `mmap`/`munmap` (any free range
of pages, or the highest; refusal when `KernelMayRefuse`), the client (it passes
only pointers it holds, writes only to its chunks) and the other threads.

## 3. The runs

Every passing run explores its whole state space; the number of states is given.
In all of them the addresses are small and the headers one or two bytes, so that
a zone is one to four pages long. Where it matters that a zone holds several
blocks of different sizes, the sizes are chosen for it: in `PoolZones` a tiny zone
is two pages of 8 bytes, with room for two blocks or three, in `ProcessExit` one
page of 16 bytes, with as many.
`ListStores` also shows that a call in progress can always be finished: TLC
checks it for deadlock. The others do stop: the pool runs in an aborted program,
with the mutex left locked, after undefined behaviour or with all slots full;
`ProcessExit` when the process is gone; `Locks` when all calls are made or the
mutex is left locked; `Contents` after its one call; `Messages` after an abort
message. Their configurations switch the check off.

| Run | Bounds | Shows |
|---|---|---|
| `PoolZones` (691 k) | 1 thread, 3 slots, sizes 4 and 6 (tiny) and 24 (large), 6 pages, `mmap`/`munmap` may fail, any free range | `LargeZonesHoldOneBlock`, `AtMostTwoEmptyZones`, `ZonesSound`, `MappedExact`, `FoundWhenDescending`, `ViewsAgree`, `KeepsAZone` |
| `PoolLists` (508 k) | 2 threads, 3 slots, sizes 2 and 8 whose zones differ in length, 5 pages | `TypeOK`, `ListsSound`, `FreeDropsOnlyItsBlock`, also on the paths that lose track of blocks |
| `PoolThreads` (269 k) | 2 threads, 3 slots, sizes 2 and 4, `realloc` and `reallocf`, failing `mmap` | `OwnedSafe`, `ViewsAgree`, `FreeSizeHonest`, `ReallocKeepsItsBlock`, `OwnersSound`, `ImplementsHeap` (refinement), `SecondFreeTakesReissued` |
| `ListStores` (624 k) | one zone of 3 pages of 8 bytes, headers of 2, sizes 2 and 4 | `ImplementsZoneList` (refinement), `HandlerSeesOthers` |
| `ProcessExit` (1.74 M) | 2 threads, 2 slots, sizes 4 and 6 (tiny), 3 pages, failing kernel, both debug flags set | `ReportIsExact`, `WalkSound`, `ShowsEachZoneOnce` |
| `Locks` (257 k) | 2 threads of 2 calls each, any arguments, failing `mmap` and `munmap` | `MutexDiscipline`, `RefusalIsFinal`, `CallsReturn` (liveness) |
| `Contents` (91 k) | a word of 256 values, every size and pair of factors, blocks of three capacities at three places, two of which overlap | `NeverShort`, `ZoneHoldsBlockBelowWrap`, `NumbersSuffice`, `CallocZeroes`, `ReallocKeepsContents` |
| `Messages` (119 k) | five numbers, two addresses, all reasons, 11 environments | `ReadsAsMeant`, `StaysInside`, `FlagsAsStarted` |

Why these bounds are enough to meet the cases. Three slots let a block be freed
between two others and its hole be filled. Two threads suffice for every
interleaving of the sections of one `realloc` with another thread's calls, as
properties relate at most two callers. `NumPages` bounds the address space, so
exhaustion is reached as well: with `KernelMayRefuse` false a `malloc` that finds
no pages is simply not taken, with it true it fails.

The states of `PoolZones` include those its properties are about: two zones kept
empty at once, which takes the miscounting walk of
`is_only_one_or_less_zone_with_type`; a zone whose first block is not of the size
it was mapped for, so that its length is recomputed from another; such a zone
given back by `free`; a zone whose estimated end reaches over its neighbour,
whichever of the two is listed first, and a large one whose estimated end is cut
short; an allocated pointer that is not found. Those of `ProcessExit` include
walks that are lost to the other thread, walks that go on although it has
allocated and freed in between, and zones of several sizes that `_clear` unmaps.

The sizes of `PoolZones`, `PoolThreads` and `ProcessExit` agree on the length of a
zone of their type (`SizesAgree`), those of `PoolLists` do not. With the latter the
code hands out memory beyond a zone, and `free` and `_clear` unmap more or less
than was mapped (`free.c:46`, `free.c:85`, `dbg_env_handler.c:93`). No promise to
the client is left then: `DocZoneSize` shows how it breaks on the way out of
`malloc`, before anything is unmapped. The promises are checked on the former, the
structure of the lists on the latter.

`Locks` needs two threads, one that holds the mutex and one that waits, and two
calls, one of which finds what the other has left. `Contents` has the smallest
word in which `calloc`'s product, the rounding and the zone's length can each
wrap on their own; its loops are walked for every length. The numbers of
`Messages` have one, two, four and five digits, 0 and a power of ten among them,
its addresses two and six, with inner zeros; the theorems of section 4 cover all
others. `ft_atoi` is modelled for values an `int` holds. One
zone with one block stands for the repetition in `show_alloc_mem`, whose line is
written out and cleared each time. In `Locks` the abort flag is off, because an
abort only ends a behaviour early; its `TypeOK` is left to its theorem.

The other four runs end in a counterexample: each checks one statement the
repository makes of itself.

| Run | Statement | What happens |
|---|---|---|
| `DocLinks` | "the linked list of alloc stays consistent" (`malloc.c:5`) | three mallocs, a free in the middle, a smaller malloc: `head->prev` is set instead of `head->next`, the block is on no list |
| `DocRealloc` | a re-implementation of libc `realloc` (`README.md:3`) | after a shrink in place the block is copied onto itself, freed and returned |
| `DocZoneSize` | "returns the memory size required for a zone" (`init.c:59`) | a larger request of the type sees a longer zone than was mapped |
| `DocNotAllocated` | "the passed in pointer was not allocated" (`free.c:42`) | the estimated end of a zone reaches over the next one, so an allocated pointer is refused |

Fairness is assumed in `Locks` only: a thread that can take its next step inside
a call takes it at last (`WF_vars(Step(t))` for each thread), which is what the
scheduler of an operating system grants. Nothing is assumed of the order in
which waiting threads get the mutex, and a program need not make a call. That
`CallsReturn` holds under weak fairness although a default mutex may be
overtaken rests on `MaxCalls`: with calls without end another thread could win
the mutex each time. `CallsReturn` excepts the program's end and the `malloc`
that `mmap` refused; `RefusalIsFinal` says that the latter is for good. The other
specifications state safety only.

## 4. What is proved

TLAPS checks these for every number of threads and slots, every set of sizes,
every page, header and zone size and any behaviour of the kernel. They rest on
the named assumptions on the constants (`SizesAssumption`, `PoolAssumption`,
`ListStoresAssumption`, `RequestsAssumption`, `ContentsAssumption`,
`LocksAssumption`, `ExitAssumption`, `MessagesAssumption`), which TLC evaluates in
the runs.

* `PoolSafetyProofs!TypeCorrect`: `Spec => []TypeOK`. `TypeOK` is inductive. The
  interesting conjunct is that `free_mem_size`, assigned from a signed maximum,
  stays a natural number: `AllocListProofs!UpdateFreeMemSizeType` shows the
  clamping at zero, over `MaxOfFinite` and `GapsFinite`.
* `ListsCorrect`: `Spec => []ListsSound`, and from it `FreeDropsCorrect`. That
  `free` drops only its own block is not inductive. A block placed between two
  others leaves its neighbours' `prev` pointing at a header on no list; later calls
  may move the list around it. `ListsSound` says what is left of the order: every
  list is sorted, and each `prev` pointer is either in
  place (`InPlace`) or *dangles* harmlessly (`Dangles`): it names a place inside
  the zone, clear of every listed header, below its own block or below the next
  one, whose link is lost as well. The second alternative is what `PlaceBetween`
  does to `head`. `AllocListProofs` shows that each list operation keeps it:
  `GetAllocKeepsList` (three placements), `UnlinkKeepsList`, `ResizeKeepsList`;
  `PrevIndexInPlace` then gives that `free` never splices out another block.
  `PoolSafetyProofs` lifts this to one step per action.
* `LargeCorrect`: `Spec => []LargeZonesHoldOneBlock`, inductive relative to the
  two invariants above: removing the only block brings the free size to its
  empty value, and a large zone with that value is unmapped.
* `KeepsAZoneCorrect`: `Spec => [][KeepsAZone's action]_vars`, by counting: if
  more than one zone of the type precedes the last, one is left after a removal.
* `EmptyZonesCorrect`: `Spec => []AtMostTwoEmptyZones`, by counting as well: a
  removal maps the empty zones that are left one to one to empty zones there were
  (`EmptiesRemoved`); a zone is kept empty only if at most one of its type
  precedes the last, so with the last there are two (`EmptiesReleased`); and
  `malloc` empties none.
* `LocksProofs!MutexDisciplineCorrect`, `RefusalIsFinalCorrect`: for any number
  of threads and calls. Both are inductive over the type invariant, with the
  return places on the stack kept out of the critical sections; a thread that
  returns therefore never lands in one.
* `HeapProofs!HeapKeepsPromises`: whatever implements `Heap` keeps its blocks
  apart, holds each in one slot or one `realloc`, and has no others. It is a
  theorem about the abstract specification; `PoolSafetyProofs` carries it to the
  pool.
* `PoolSafetyProofs`: the promises to the client, below.
* `ContentsProofs!CallocZeroesCorrect`, `ReallocKeepsContentsCorrect`: the
  invariant of the loops, for any word, sizes and places: the bytes done hold what
  they shall, and the bytes of the source still to be read are as they were, which
  is where the direction of `ft_memmove` comes in: upwards when the destination
  lies below, downwards when above.
* `ContentsProofs!NeverShortCorrect`, `NumbersSufficeCorrect`,
  `ZoneHoldsBlockCorrect` (the last for tiny zones of two pages or more, which
  `TINY_ZONE` satisfies): every reply with a block is what `malloc` replies to
  the size that was asked for (`BlockComesFromMalloc`, which uses that `calloc`'s
  division test implies the product is exact, and that rounding twice, as
  `realloc` does, is rounding once); rounding keeps a size or gives 0; below
  the limit nothing wraps, so words are numbers.

### The promises to the client

`PoolSafetyProofs` proves, for any threads, slots and kernel, what the code
promises of blocks and zones. Its theorems assume `SizesAgree`: that no two sizes
the program asks for make tiny, or small, zones of different lengths, and that a
zone has room for the block it is made for. Without the first half the promises
fail: `DocZoneSize` is the counterexample. The second half is a lemma
(`RoomForBlock`) once `TINY_ZONE` is at least 2; the code has 32. When a program
keeps to the first half is said by `PageProgramsAgree`: for one if it asks for no
tiny or small block longer than a page less a zone header, which is 4056 bytes on
a page of 4096. Large blocks may have any size.

The invariant is built up in three layers, each inductive relative to those
before it and `TypeOK` and `ListsSound`. TLC checked every layer before its proof.

1. `SizesSound` (`SizesCorrect`): the sizes found in the headers of a zone are
   sizes of its type, so `_get_zone_mem_size` gives the length of the zone
   (`ZoneLen`) from whichever header it is asked with, and `free_mem_size` is
   exactly what `_update_free_mem_size` computes of the present list, also after
   a placement that is not listed and after a shrink that changes a header in
   place (`ResizedSized`). With it `FreeSizeCorrect` follows: the free size
   that `_get_alloc_zone` picks a zone by is the width of a gap that `_get_alloc`
   then finds.
2. `ZonesSound` and `MappedExact` (`ZonesCorrect`, `MappedCorrect`): every block
   ends inside its zone, every zone is mapped, no two share a page, and nothing
   else is mapped. They need each other: a new zone shares no page with a listed
   one because `mmap` hands out unmapped pages and the listed ones are mapped;
   `munmap` leaves the other zones alone because they share no page with this
   one. That `free` gives a zone back only when no block is left in it rests on
   the free size of a list with a block being smaller than that of an empty one
   (`FullGapIsEmpty`).
3. `OwnersSound` and `NothingLost` (`OwnersCorrect`): each slot and each call in
   progress has a listed block of its own, and no listed block is without one.
   Layer 2 makes the blocks of all zones disjoint (`PoolBlocksApart`), so that
   a pointer names one block, and the block `free` unlinks is the one the client
   passed. From it follow `OwnedSafe`, `ViewsAgree` and `ReallocKeepsItsBlock`.

`FoundCorrect` proves `FoundWhenDescending`. It assumes `EstimateReaches` as well:
the last place a zone has for a block lies below the least end that
`_find_ptr_mem_zone` can estimate for the zone. `PageProgramsAgree` gives this
condition too. That zones descend is a condition on the kernel, not on the
constants; when they do not, the estimate can cover the next zone, and an
allocated pointer is refused (`DocNotAllocated`).

`HeapImplemented` is the refinement: `Spec /\ []FindsHeld => ImplementsHeap`. Each
action of the pool maps to one step of `Heap` or a stutter, with the invariant of
all three layers on both sides of the step. It is conditional on held pointers
being found, because a `free` that refuses an allocated pointer is a step no heap
has; `HeapImplementedDescending` replaces the condition by `[]Descending`.
`HeapPromisesKept` then cites `HeapKeepsPromises` through an instance of
`HeapProofs`. `SecondFreeCorrect` needs `FindsHeld` for the same reason: if the
first `free` was refused, the second may find the block that is still there.

### One zone in memory

`ListStoresProofs` proves of `ListStores` that its stores add up to the list
operations of `ZoneList`, which `MemPool` is built from, and that the handler of
SIGINT finds the other blocks. It does so for zones of any length, any sizes and
any history of calls, including those after which `prev` pointers dangle.

Everything rests on one relation, `Shows(h, pool, L, end)`: the headers in memory
`h`, read from the pointer `pool`, are those of the list `L`, and its last `next`
is `end`. `WalkOf` proves that a walk then visits exactly the blocks of `L`, in
order, and ends, also when memory holds headers that are on no list.
`StoresInv` (`StoresInvariant`, by `StepKeeps`) states between two calls that
memory shows some sound list (sorted, with every `prev` in place or dangling, as in
`ListsSound`), and during a call which list it shows after each store: the one the
call began with, with the new block in front, with one `prev` changed, with a block
bypassed, and so on (`FrontCall`, `BetweenCall`, `BehindCall`, `FreeCall`). `end` is
NULL except after the first store of the placement behind, when it is the address
of the block that is not yet set (`BehindHalf`): this is the exception that
`HandlerSeesOthers` makes.

The argument has two parts. Each store changes only the header it is meant for:
a new header lies clear of the listed ones (`PlaceFrontClear`, `PlaceBetweenClear`,
`PlaceBehindClear`, `WriteHeaderKeeps`), a store through a dangling `prev` hits no
listed header (`StoreElsewhere`), and the client's chunk, whose bytes are lost as
headers when `malloc` returns, covers none (`WipeKeeps`). And what all the stores
of a call leave is the list that `GetAlloc` or `Unlink` returns (`PlaceFrontAs`,
`PlaceBetweenAs`, `UnlinkAs`). `HandlerSeesOthersCorrect` follows from `StoresInv`
alone. In `ImplementsZoneListCorrect` the zone of `ZoneList` is the zone in memory
between calls and the zone before the call during one, so that only the last store
is a step of it.

### The end of the process

`ExitProofs` extends the layers above to `ExitSpec`, again under `SizesAgree`.
`WalkSoundCorrect` covers the interleavings of a walk with the calls of other
threads. During the report the allocator is as its threads leave it (`PoolOK`), and
`ExitInv` says that a walk which is `steady` holds the address of a position of the
list, or the end. A call of another thread appends a zone behind that position or
takes one out before or after it, and the position moves along (`StaysOn`,
`OthersKeep`). `_clear` changes the picture: once it has unmapped a page of a listed
zone, no other thread can enter the allocator without touching that page
(`UnmappedTramples`), so that either `PoolOK` still holds or the others are
`Trampled`. What a steady walk of `_clear` needs is that the zones from its
position on are mapped (`Facing`), and each of its steps keeps that (`ClearKeeps`);
without other threads what is mapped is exactly what it has to leave at that
position (`Left`). Three facts carry all this: no zone lies on page
0, so that its address is not the null pointer that ends a walk (`NullUnmapped`);
zones have pages of their own, so an address names one zone (`FitBases`) and
unmapping one leaves the others readable (`ClearedLeft`); and the length taken from
the first block is the zone's (`ClearedZone`).

`ReportIsExactCorrect` adds to it that each block has one owner when the walk
begins (`OwnersStep`) and that a walk has counted the *places* (zone, element) in
front of it (`ReportInv`). Places, listed blocks and owned blocks correspond one to
one (`OwnedFigures`), so they are as many and add up to the same bytes. The sums
are those of the model, `MapThenSumSet`: that its recursion has a solution, that
there is one only, and that a sum is the same in any order, splits over disjoint
sets and is kept by a bijection are lemmas of this module.

`ShowsEachZoneOnceCorrect` needs no condition on the sizes. Every thread that
allocates finds all zone headers mapped (otherwise it is `Trampled`), so a new zone
never lies at the address of another; the n-th search then leaves exactly
`Len(pool) - n` zones above, which is shown for every n (`ShownInOrder`).

### The texts and the environment

`MessagesProofs` proves all three properties of `Messages`. The run has a handful
of numbers and environments; here `MessagesAssumption` is all there is: numbers of
at most 20 decimal digits, addresses (with a block behind them) of at most 16
hexadecimal ones, which is what a word of 64 bits holds, and values of the
environment whose digits fit an `int`.

*What the conversions compute.* The digits come out of recursions: `Decimal` and
`PutNbr` divide by ten, `FormatAdder` shifts by four and skips zeros, `Value` is the
loop of `ft_atoi`, `Visible` drops NULs. `RecursionExists` and `IterationExists` show
that such a recursion has a solution (the CHOOSE behind a recursive function has
none by itself). With the laws of powers (`PowerIs`, `PowersGrow`) `DecimalIs`,
`HexDigitsAre` and `FormatAdderIs` reduce each to the digits `(n \div b^i) % b` below
the width of the number, and `DecimalIsNumeral` and `AdderIsHex` identify them with
the reference `Numeral`. `AtoiIsOne` says that `ft_atoi` gives 1 for the values
`ReadsOne` describes and for no others: it follows the blanks, the sign and the
digits (`AtoiParts`) and shows that a value is 1 only if its last digit is and all
before it are 0 (`ValueIsOne`).

*The flags.* `FlagsAsStartedCorrect` is inductive with one more conjunct: until the
variables are read, the environment is the one at the start. It needs
`_init_leak_handler` to run before main, the first to read them.

*The messages.* `TextInv` relates the array to the part of the script that is done
(`Telling`): the array holds a text `c` and NULs behind it, nothing was written
further than one character behind `c`, and what the text and the output show
together is what the done operations were to show (`said`). How the length the code
keeps relates to `c` depends on the last operation (`Settled`): it is the text's
after an append; after a number it may be shorter (the digit of a 0 lies beyond it),
but no NUL lies beyond it; and it reaches up to the whole array after the closing line
of the abort message, whose length was added twice. That is why the order of operations
matters, and `Fitting` says which may follow which: a number only an append that
looks for the end of the text itself, the double count only the `write`. Appends to
the start of the array find the end of the text only if no NUL lies in it, so a
script with them has no number (`Plain`).

`ScriptStep` shows that each operation that fits keeps `TextInv` (`CatGoes`,
`NumberGoes`, `CopyGoes`, `WriteTextGoes`, `WriteGoes`); `LeaksTold`, `AbortTold` and
`ShowTold` show that the three scripts of the code fit, operation by operation, with
a bound on the text after each (at most 153 characters in the leak report), and
that what they show is the message meant. `StaysInsideCorrect` and
`ReadsAsMeantCorrect` follow (`TextInvSays`).

### Limits

Where a proof goes by induction - on a number of zones, on the size of a set, on
digits - it takes a least counterexample (`LeastNumber`, `LeastSet`): the library's
induction theorems have an operator as a parameter, which the provers cannot
instantiate.

The leaves cite few facts each, and nearly all hold at half the provers' usual time
limits; the few that do not (a tuple of fourteen operations, the associativity of
concatenation) say how long they may take.

Only model-checked is `CallsReturn`: liveness and `ENABLED` are out of the provers'
reach. Every other property of a passing run has a theorem. No module with a
theorem reaches a RECURSIVE operator.

## 5. What is not modelled

* The rest of libft: what the allocator does not call (`ft_split`, `ft_itoa`,
  `ft_strtrim`, lists, ...). It keeps no state, and most of it allocates only for
  its caller. Modelled are the functions on whose results the allocator relies:
  `ft_memmove`, `ft_memcpy`, `ft_memset`, `ft_strlcat`, `ft_strlen`, `ft_atoi`,
  `ft_putnbr_fd`.
* The wording of messages, and a `write` that writes less than it is asked to:
  the code does not look at what `write` returns.
* Failures of `pthread_mutex_lock`/`unlock` themselves, which a default mutex
  does not report, and the tests and build files.
* Between two stores of a call other threads are held off by the mutex; the
  order in which a processor makes stores visible matters only to the handler,
  which runs on the same thread.

Known of the code and left without a run of its own: a spare zone too many is
kept (`free.c:11`; `AtMostTwoEmptyZones` is the bound that holds), `malloc`
returns with the mutex locked when `mmap` fails (`malloc.c:85`; `Locks` says what
follows), `reallocf(p, 0)` frees twice (`reallocf.c:7`;
`SecondFreeTakesReissued` says when that does harm), with mixed sizes a zone can
promise room it lacks (`malloc.c:50`), `calloc(0, n)` divides by zero
(`calloc.c:5`; a thread that stops in `Locks`), the chunk of the second block of a
zone lies 40 bytes behind a multiple of 16, and the length of a large zone wraps
for sizes within both headers and a page of 2^64 (`init.c:65`;
`ZoneHoldsBlockBelowWrap` is what holds).

## 6. Plan

Done, in this order: sizes and list, the pool and its threads, their proofs; one
zone store by store and its refinement; exit and signals; words; the abstract
heap; the locks and that calls return; the bytes of `calloc` and `realloc`; the
text of messages and the environment; the proofs of the promises to the client
and of the refinement of the heap; the proofs about the end of the process; the
proofs about one zone in memory and its refinement; the proofs about the texts and
the environment.

Next: several zones in `ListStores`, with the stores of `malloc` and `free` to the
list of zones, for the handler's outer walk; and the arithmetic of `ft_atoi` beyond
an `int`, where the code leaves it to the compiler.
