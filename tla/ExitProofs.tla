----------------------------- MODULE ExitProofs -----------------------------
(***************************************************************************)
(* Theorems about the end of a process, for every value of the constants   *)
(* under which SizesAgree holds: a walk of the leak report or of _clear    *)
(* stays on the list unless another thread gives back the zone it comes to *)
(* next; while no other thread runs the report is exact, and _clear leaves *)
(* exactly the spare zones mapped.  show_alloc_mem shows each zone once    *)
(* for every value of the constants.                                       *)
(***************************************************************************)
EXTENDS ProcessExit, PoolSafetyProofs

-----------------------------------------------------------------------------
(* The null pointer                                                        *)

(* mmap hands out no range that starts on page 0.                          *)
LEMMA NoZoneOnNull ==
  ASSUME NEW len \in Nat, NEW base \in FreeBases(len)
  PROVE  0 \notin PagesOf(base, len)
  <1>1. PICK p \in 1..NumPages : base = Page * p
    BY DEF FreeBases, FreePages
  <1>2. p \in Nat /\ p >= 1  BY <1>1, PoolAssumption
  <1>3. base \div Page = p
    <2>1. (Page * p + 0) \div Page = p  BY <1>2, DivOfMultiple, SizesAssumption
    <2>2. Page * p + 0 = Page * p  BY <1>2, SizesAssumption
    <2>. QED  BY <1>1, <2>1, <2>2
  <1>4. ASSUME NEW q, 0 \in p..q PROVE FALSE
    BY <1>2, <1>4
  <1>. QED  BY <1>3, <1>4 DEF PagesOf

(* malloc, free, realloc and reallocf leave page 0 unmapped: the address   *)
(* of a zone is never the null pointer that ends a walk.                   *)
LEMMA NullUnmapped ==
  ASSUME TypeOK, 0 \notin mapped, NEW t \in Threads, Step(t)
  PROVE  0 \notin mapped'
  <1>1. PoolTypeOK /\ \A u \in Threads : calls[u] \in Calls
    BY DEF TypeOK, PoolTypeOK
  <1>2. ASSUME NEW size \in Nat, NEW o \in MallocOutcomes(size), Serve(o)
        PROVE  0 \notin mapped'
    <2>1. mapped' = o.mapped  BY <1>2 DEF Serve
    <2>2. ASSUME NEW k \in DOMAIN pool, NEW c \in Carve(pool[k], size),
                 o = [pool |-> [pool EXCEPT ![k] = c.zone], mapped |-> mapped,
                      ptr |-> c.ptr, listed |-> c.listed]
          PROVE  0 \notin mapped'
      BY <2>1, <2>2
    <2>3. CASE o = [pool |-> pool, mapped |-> mapped, ptr |-> NULL,
                    listed |-> TRUE]
      BY <2>1, <2>3
    <2> DEFINE len == ZoneMemSize(size, SetZoneType(size))
    <2>4. ASSUME NEW base \in FreeBases(len),
                 o.mapped = mapped \cup PagesOf(base, len)
          PROVE  0 \notin mapped'
      <3>1. len \in Nat  BY ZoneTypeIsType, ZoneMemSizeBounds
      <3> HIDE DEF len
      <3>2. 0 \notin PagesOf(base, len)  BY <3>1, NoZoneOnNull
      <3>. QED  BY <2>1, <2>4, <3>2
    <2>. QED  BY <2>2, <2>3, <2>4, MallocOutcomesCases
  <1>3. /\ \A size : Refuse(t, size) => mapped' = mapped
        /\ Missed => mapped' = mapped
        /\ \A k, j : Release(k, j) => mapped' \subseteq mapped
        /\ \A ptr : FreePtr(ptr) => mapped' \subseteq mapped
    BY DEF Refuse, Missed, Release, FreePtr
  <1>4. ASSUME NEW i \in Slots, NEW size \in Sizes, Malloc(t, i, size)
        PROVE  0 \notin mapped'
    <2>1. RoundUp(size) \in Nat  BY SizesType
    <2>. QED  BY <1>2, <1>3, <1>4, <2>1 DEF Malloc
  <1>5. ASSUME NEW i \in Slots, Free(t, i) \/ ReallocfZero(t, i)
        PROVE  0 \notin mapped'
    BY <1>3, <1>5 DEF Free, ReallocfZero
  <1>6. ASSUME NEW i \in Slots, NEW size \in Sizes, NEW api \in Apis,
               Realloc(t, api, i, size)
        PROVE  0 \notin mapped'
    BY <1>3, <1>6 DEF Realloc
  <1>7. ASSUME ReallocMove(t) PROVE 0 \notin mapped'
    <2>1. calls[t].size \in Nat  BY <1>1, <1>7, CallFields DEF ReallocMove
    <2>. QED  BY <1>2, <1>3, <1>7, <2>1 DEF ReallocMove
  <1>8. ReallocFinish(t) => 0 \notin mapped'  BY <1>3 DEF ReallocFinish
  <1>9. ReallocfDrop(t) => 0 \notin mapped'  BY <1>3 DEF ReallocfDrop
  <1>. QED  BY <1>4, <1>5, <1>6, <1>7, <1>8, <1>9 DEF Step

-----------------------------------------------------------------------------
(* The list a walk goes over                                               *)

(* What is known of the allocator while its threads run.                   *)
PoolOK ==
  /\ TypeOK /\ ListsSound /\ SizesSound
  /\ ZonesSound /\ MappedExact
  /\ 0 \notin mapped

(* It holds of the empty pool.                                             *)
LEMMA PoolOKInit == Init => PoolOK
  <1> SUFFICES ASSUME Init PROVE PoolOK  OBVIOUS
  <1>1. DOMAIN << >> = {}  BY EmptySeq, LenProperties
  <1>2. TypeOK  BY TypeInit
  <1>3. ListsSound /\ SizesSound /\ ZonesSound /\ MappedExact /\ 0 \notin mapped
    BY <1>1 DEF Init, ListsSound, SizesSound, ZonesSound, MappedExact, Idle
  <1>. QED  BY <1>2, <1>3 DEF PoolOK

(* Every critical section keeps it: PoolSafetyProofs, layer by layer, and  *)
(* page 0.                                                                 *)
LEMMA PoolOKStep ==
  ASSUME SizesAgree, PoolOK, [Next]_vars
  PROVE  PoolOK'
  <1>1. TypeOK' /\ ListsSound' /\ SizesSound' /\ ZonesSound' /\ MappedExact'
    BY TypeStep, ListsStep, SizesStep, ZonesStep DEF PoolOK
  <1>2. 0 \notin mapped'
    <2>1. CASE UNCHANGED vars  BY <2>1 DEF PoolOK, vars
    <2>2. CASE Next  BY <2>2, NullUnmapped DEF PoolOK, Next
    <2>. QED  BY <2>1, <2>2
  <1>. QED  BY <1>1, <1>2 DEF PoolOK

(* A list of zones that are sized, have room, have pages of their own and  *)
(* lie at addresses other than the null pointer.                           *)
Fit(p) ==
  /\ p \in Seq(Zone)
  /\ ZonesSized(p)
  /\ PoolSound(p, AllPages(p))
  /\ \A k \in DOMAIN p : p[k].base # NULL

(* The pool is such a list as long as no block has been lost track of, and *)
(* what is mapped is its pages.                                            *)
LEMMA FitPool ==
  ASSUME PoolOK, Tracked
  PROVE  Fit(pool) /\ mapped = AllPages(pool)
  <1>1. Clean /\ "kept" \notin events  BY DEF Tracked
  <1>2. mapped = AllPages(pool)
    BY <1>1 DEF PoolOK, MappedExact, AllPages
  <1>3. PoolSound(pool, AllPages(pool))
    BY <1>1, <1>2, ZonesSoundIsPoolSound DEF PoolOK
  <1>4. pool \in Seq(Zone) /\ ZonesSized(pool)
    BY SizesSoundParts DEF PoolOK, TypeOK
  <1>5. ASSUME NEW k \in DOMAIN pool PROVE pool[k].base # NULL
    <2>1. pool[k] \in Zone /\ SizedZone(pool[k]) /\ RoomyZone(pool[k])
      BY <1>3, <1>4, LenProperties, ElementOfSeq DEF ZonesSized, PoolSound
    <2>2. /\ ZoneLen(pool[k]) \in Nat \ {0}
          /\ ZonePages(pool[k]) = PagesOf(pool[k].base, ZoneLen(pool[k]))
      BY <2>1, RoomyLen
    <2>3. 0 \div Page = 0
      <3>1. (Page * 0 + 0) \div Page = 0  BY DivOfMultiple, SizesAssumption
      <3>2. Page * 0 + 0 = 0  BY SizesAssumption
      <3>. QED  BY <3>1, <3>2
    <2>4. 0 \in PagesOf(0, ZoneLen(pool[k]))
      <3>1. 0 < 0 + ZoneLen(pool[k])  BY <2>2
      <3>2. 0 \div Page \in PagesOf(0, ZoneLen(pool[k]))
        BY <2>2, <3>1, PageOfByte
      <3>. QED  BY <2>3, <3>2
    <2>5. ZonePages(pool[k]) \subseteq mapped  BY <1>2 DEF AllPages
    <2>. QED  BY <2>2, <2>4, <2>5 DEF PoolOK, NULL
  <1>. QED  BY <1>2, <1>3, <1>4, <1>5 DEF Fit

(* A zone of such a list.                                                  *)
LEMMA FitZone ==
  ASSUME NEW p, Fit(p), NEW k \in DOMAIN p
  PROVE  /\ p[k] \in Zone /\ RoomyZone(p[k])
         /\ p[k].base \in Nat \ {NULL}
         /\ ZoneLen(p[k]) \in Nat \ {0} /\ ZoneHdr <= ZoneLen(p[k])
         /\ ZonePages(p[k]) = PagesOf(p[k].base, ZoneLen(p[k]))
  <1>1. p[k] \in Zone /\ SizedZone(p[k]) /\ RoomyZone(p[k])
    BY LenProperties, ElementOfSeq DEF Fit, ZonesSized, PoolSound
  <1>. QED  BY <1>1, RoomyLen DEF Fit

(* No two zones of it lie at the same address.                             *)
LEMMA FitBases ==
  ASSUME NEW p, Fit(p), NEW k \in DOMAIN p, NEW m \in DOMAIN p,
         p[k].base = p[m].base
  PROVE  k = m
  <1> DEFINE page == p[k].base \div Page
  <1>1. ASSUME NEW i \in DOMAIN p, p[i].base = p[k].base
        PROVE  page \in ZonePages(p[i])
    <2>1. /\ p[i].base \in Nat /\ ZoneLen(p[i]) \in Nat \ {0}
          /\ ZonePages(p[i]) = PagesOf(p[i].base, ZoneLen(p[i]))
      BY FitZone
    <2>2. p[i].base < p[i].base + ZoneLen(p[i])  BY <2>1
    <2>3. p[i].base \div Page \in PagesOf(p[i].base, ZoneLen(p[i]))
      BY <2>1, <2>2, PageOfByte
    <2>. QED  BY <1>1, <2>1, <2>3
  <1>2. page \in ZonePages(p[k]) /\ page \in ZonePages(p[m])  BY <1>1
  <1>. QED  BY <1>2 DEF Fit, PoolSound

(* A walk finds the zone it comes to as long as its pages are mapped.      *)
LEMMA FitAt ==
  ASSUME Fit(pool), NEW k \in DOMAIN pool, ZonePages(pool[k]) \subseteq mapped
  PROVE  ZoneAt(pool[k].base) = {k}
  <1>1. /\ pool[k].base \in Nat
        /\ ZoneLen(pool[k]) \in Nat \ {0} /\ ZoneHdr <= ZoneLen(pool[k])
        /\ PagesOf(pool[k].base, ZoneLen(pool[k])) \subseteq mapped
    BY FitZone
  <1>2. pool[k].base + ZoneHdr <= pool[k].base + ZoneLen(pool[k])
    BY <1>1, SizesAssumption
  <1>3. Backed(pool[k].base, ZoneHdr)
    BY <1>1, <1>2, PartBacked, SizesAssumption
  <1>. QED  BY <1>3, FitBases DEF ZoneAt

(* The pages of the zones _clear leaves mapped from a position on.         *)
Left(p, k) ==
  UNION {ZonePages(p[m]) :
           m \in {n \in DOMAIN p : n >= k \/ p[n].allocs = << >>}}

(* ProcessExit says the same of the pool.                                  *)
LEMMA LeftFromIsLeft == \A k : LeftFrom(k) = Left(pool, k)
  BY DEF LeftFrom, Left

(* Nothing has been unmapped when a walk begins.                           *)
LEMMA LeftAtFirst ==
  ASSUME NEW p, Fit(p)
  PROVE  Left(p, 1) = AllPages(p)
  <1>1. DOMAIN p = 1..Len(p)  BY LenProperties DEF Fit
  <1>2. \A n \in DOMAIN p : n >= 1  BY <1>1
  <1>. QED  BY <1>2 DEF Left, AllPages

(* The length _clear recomputes for a zone with a block is the zone's.     *)
LEMMA ClearedZone ==
  ASSUME NEW z \in Zone, RoomyZone(z)
  PROVE  ClearedPages(z) = IF z.allocs = << >> THEN {} ELSE ZonePages(z)
  <1>1. CASE z.allocs = << >>  BY <1>1 DEF ClearedPages
  <1>2. CASE z.allocs # << >>
    <2>1. 1 \in DOMAIN z.allocs  BY <1>2, EmptySeq, LenProperties DEF Zone
    <2>2. z.allocs[1].size = z.allocs[1].cap  BY <2>1 DEF RoomyZone
    <2>3. FreedZoneSize(z) = ZoneLen(z)  BY <1>2, <2>2 DEF FreedZoneSize, ZoneLen
    <2>. QED  BY <1>2, <2>3 DEF ClearedPages, ZonePages
  <1>. QED  BY <1>1, <1>2

(* Clearing a zone takes its pages, and no others, from those left.        *)
LEMMA ClearedLeft ==
  ASSUME NEW p, Fit(p), NEW k \in DOMAIN p
  PROVE  Left(p, k) \ ClearedPages(p[k]) = Left(p, k + 1)
  <1>1. /\ DOMAIN p = 1..Len(p) /\ Len(p) \in Nat  BY LenProperties DEF Fit
  <1>2. \A n \in DOMAIN p : n >= k <=> n = k \/ n >= k + 1
    BY <1>1
  <1>3. ClearedPages(p[k])
          = IF p[k].allocs = << >> THEN {} ELSE ZonePages(p[k])
    BY FitZone, ClearedZone
  <1>4. \A n \in DOMAIN p : n # k => ZonePages(p[n]) \cap ZonePages(p[k]) = {}
    BY DEF Fit, PoolSound
  <1>5. ~(k >= k + 1)  BY <1>1
  <1>6. CASE p[k].allocs = << >>
    <2>1. \A n \in DOMAIN p :
            (n >= k \/ p[n].allocs = << >>) <=> (n >= k + 1 \/ p[n].allocs = << >>)
      BY <1>2, <1>6
    <2>2. {n \in DOMAIN p : n >= k \/ p[n].allocs = << >>}
            = {n \in DOMAIN p : n >= k + 1 \/ p[n].allocs = << >>}
      BY <2>1
    <2>. QED  BY <1>3, <1>6, <2>2 DEF Left
  <1>7. CASE p[k].allocs # << >>
    <2>1. \A n \in DOMAIN p :
            (n >= k + 1 \/ p[n].allocs = << >>)
              <=> n # k /\ (n >= k \/ p[n].allocs = << >>)
      BY <1>2, <1>5, <1>7
    <2>2. ASSUME NEW x \in Left(p, k) \ ZonePages(p[k])
          PROVE  x \in Left(p, k + 1)
      BY <2>1, <2>2 DEF Left
    <2>3. ASSUME NEW x \in Left(p, k + 1)
          PROVE  x \in Left(p, k) \ ZonePages(p[k])
      <3>1. PICK n \in DOMAIN p :
              (n >= k + 1 \/ p[n].allocs = << >>) /\ x \in ZonePages(p[n])
        BY <2>3 DEF Left
      <3>2. n # k /\ (n >= k \/ p[n].allocs = << >>)  BY <2>1, <3>1
      <3>3. x \in Left(p, k)  BY <3>1, <3>2 DEF Left
      <3>4. x \notin ZonePages(p[k])  BY <1>4, <3>1, <3>2
      <3>. QED  BY <3>3, <3>4
    <2>. QED  BY <1>3, <1>7, <2>2, <2>3
  <1>. QED  BY <1>6, <1>7

-----------------------------------------------------------------------------
(* The inductive invariant                                                 *)

(* exit is a record of its fields.                                         *)
ExitTypeOK ==
  /\ exit = [f \in DOMAIN NotLeaving |-> exit[f]]
  /\ exit.stage \in Stages
  /\ exit.signal \in BOOLEAN
  /\ exit.alone \in BOOLEAN
  /\ exit.steady \in BOOLEAN
  /\ exit.alone => exit.steady

(* A walk with address x comes to position k of a list.                    *)
At(p, x, k) == x = IF k = Len(p) + 1 THEN NULL ELSE p[k].base

(* A walk of the leak report or of _clear, at some position of the list.   *)
Reporting(p, x) == \E k \in 1..(Len(p) + 1) : At(p, x, k)

Clearing(p, m, x) ==
  /\ Fit(p)
  /\ \E k \in 1..(Len(p) + 1) : At(p, x, k) /\ m = Left(p, k)

(* A walk that has every zone in front of it mapped.                       *)
Facing(p, m, x) ==
  /\ Fit(p)
  /\ \E k \in 1..(Len(p) + 1) :
       /\ At(p, x, k)
       /\ \A n \in DOMAIN p : n >= k => ZonePages(p[n]) \subseteq m

(* Until _clear unmaps a zone the allocator is as its threads left it, and *)
(* from then on none of them can run.  A walk is on the list as long as    *)
(* the zone it came to next has been, and not lost.                        *)
ExitInv ==
  /\ ExitTypeOK
  /\ exit.stage \in {"no", "report", "told"} => PoolOK
  /\ exit.stage = "report" /\ exit.steady => Reporting(pool, exit.next)
  /\ exit.stage = "clear" /\ Tracked =>
       /\ PoolOK \/ Trampled
       /\ exit.steady => Facing(pool, mapped, exit.next)
       /\ exit.alone => Clearing(pool, mapped, exit.next)
  /\ exit.stage = "lost" /\ exit.steady => ~Tracked

(* The start of a walk.                                                    *)
LEMMA FirstIsAt ==
  ASSUME NEW p \in Seq(Zone)
  PROVE  /\ Len(p) \in Nat /\ 1 \in 1..(Len(p) + 1)
         /\ At(p, IF p = << >> THEN NULL ELSE p[1].base, 1)
  <1>1. Len(p) \in Nat /\ (p = << >> <=> Len(p) = 0)
    BY EmptySeq, LenProperties
  <1>2. 1 = Len(p) + 1 <=> p = << >>  BY <1>1
  <1>. QED  BY <1>1, <1>2 DEF At

(* The position after a zone.                                              *)
LEMMA AfterIsAt ==
  ASSUME pool \in Seq(Zone), NEW k \in DOMAIN pool
  PROVE  k + 1 \in 1..(Len(pool) + 1) /\ At(pool, ZoneAfter(k), k + 1)
  <1>1. Len(pool) \in Nat /\ k \in 1..Len(pool)  BY LenProperties
  <1>2. k + 1 = Len(pool) + 1 <=> k = Len(pool)  BY <1>1
  <1>. QED  BY <1>1, <1>2 DEF At, ZoneAfter

(* A walk of _clear that is not at the end of the list is at a zone it     *)
(* finds, and at no other.                                                 *)
LEMMA ClearingFinds ==
  ASSUME Clearing(pool, mapped, exit.next), exit.next # NULL
  PROVE  \E k \in DOMAIN pool : ZoneAt(exit.next) = {k} /\ mapped = Left(pool, k)
  <1>1. PICK k \in 1..(Len(pool) + 1) :
          At(pool, exit.next, k) /\ mapped = Left(pool, k)
    BY DEF Clearing
  <1>2. /\ Fit(pool) /\ Len(pool) \in Nat /\ DOMAIN pool = 1..Len(pool)
    BY LenProperties DEF Clearing, Fit
  <1>3. k # Len(pool) + 1 /\ exit.next = pool[k].base  BY <1>1 DEF At
  <1>4. k \in DOMAIN pool /\ k >= k  BY <1>2, <1>3
  <1>5. ZonePages(pool[k]) \subseteq mapped  BY <1>1, <1>4 DEF Left
  <1>6. ZoneAt(exit.next) = {k}  BY <1>2, <1>3, <1>4, <1>5, FitAt
  <1>. QED  BY <1>1, <1>4, <1>6

(* A report that is not at the end of the list is at a zone it finds, as   *)
(* long as no block has been lost track of.                                *)
LEMMA ReportingFinds ==
  ASSUME PoolOK, Tracked, Reporting(pool, exit.next), exit.next # NULL
  PROVE  ZoneAt(exit.next) # {}
  <1>1. PICK k \in 1..(Len(pool) + 1) : At(pool, exit.next, k)
    BY DEF Reporting
  <1>2. /\ Fit(pool) /\ mapped = AllPages(pool)
        /\ Len(pool) \in Nat /\ DOMAIN pool = 1..Len(pool)
    BY FitPool, LenProperties DEF Fit
  <1>3. k # Len(pool) + 1 /\ exit.next = pool[k].base  BY <1>1 DEF At
  <1>4. k \in DOMAIN pool  BY <1>2, <1>3
  <1>5. ZonePages(pool[k]) \subseteq mapped  BY <1>2, <1>4 DEF AllPages
  <1>. QED  BY <1>2, <1>3, <1>4, <1>5, FitAt

(* So is a walk that has every zone in front of it mapped.                 *)
LEMMA FacingFinds ==
  ASSUME Facing(pool, mapped, exit.next), exit.next # NULL
  PROVE  \E k \in DOMAIN pool :
           /\ ZoneAt(exit.next) = {k}
           /\ \A n \in DOMAIN pool : n >= k => ZonePages(pool[n]) \subseteq mapped
  <1>1. PICK k \in 1..(Len(pool) + 1) :
          /\ At(pool, exit.next, k)
          /\ \A n \in DOMAIN pool : n >= k => ZonePages(pool[n]) \subseteq mapped
    BY DEF Facing
  <1>2. /\ Fit(pool) /\ Len(pool) \in Nat /\ DOMAIN pool = 1..Len(pool)
    BY LenProperties DEF Facing, Fit
  <1>3. k # Len(pool) + 1 /\ exit.next = pool[k].base  BY <1>1 DEF At
  <1>4. k \in DOMAIN pool /\ k >= k  BY <1>2, <1>3
  <1>5. ZonePages(pool[k]) \subseteq mapped  BY <1>1, <1>4
  <1>6. ZoneAt(exit.next) = {k}  BY <1>2, <1>3, <1>4, <1>5, FitAt
  <1>. QED  BY <1>1, <1>4, <1>6

(* A walk whose next zone is still on the list is on the list.             *)
LEMMA StaysOn ==
  ASSUME NEW p \in Seq(Zone), NEW x,
         x = NULL \/ \E k \in DOMAIN p : p[k].base = x
  PROVE  Reporting(p, x)
  <1>1. Len(p) \in Nat /\ DOMAIN p = 1..Len(p)  BY LenProperties
  <1>2. CASE x = NULL
    <2>1. Len(p) + 1 \in 1..(Len(p) + 1) /\ At(p, x, Len(p) + 1)
      BY <1>1, <1>2 DEF At
    <2>. QED  BY <2>1 DEF Reporting
  <1>3. ASSUME NEW k \in DOMAIN p, p[k].base = x PROVE Reporting(p, x)
    <2>1. k \in 1..(Len(p) + 1) /\ k # Len(p) + 1  BY <1>1
    <2>. QED  BY <1>3, <2>1 DEF Reporting, At
  <1>. QED  BY <1>2, <1>3

(* With every zone mapped, it has those in front of it mapped.             *)
LEMMA WholeIsFaced ==
  ASSUME PoolOK, Tracked, NEW x, Reporting(pool, x)
  PROVE  Facing(pool, mapped, x)
  BY FitPool DEF Facing, Reporting, AllPages

(* Once a header is no longer mapped no other thread can run.              *)
LEMMA UnmappedTramples ==
  ASSUME NEW k \in DOMAIN pool', NEW b \in Nat, pool'[k].base = b,
         b \div Page \notin mapped'
  PROVE  Trampled'
  <1>1. <<b, ZoneHdr>> \in Headers'  BY DEF Headers
  <1>2. ~Backed(b, ZoneHdr)'
    <2>1. b < b + ZoneHdr /\ ZoneHdr \in Nat \ {0}  BY SizesAssumption
    <2>2. b \div Page \in PagesOf(b, ZoneHdr)  BY <2>1, PageOfByte
    <2>. QED  BY <2>2 DEF Backed, PagesOf
  <1>. QED  BY <1>1, <1>2 DEF Trampled

(* A report and _clear start on the list.                                  *)
LEMMA StartsSound ==
  ASSUME ExitTypeOK, PoolOK
  PROVE  /\ \A signal \in BOOLEAN :
              /\ StartReport(signal)
                   = [f \in DOMAIN NotLeaving |-> StartReport(signal)[f]]
              /\ StartReport(signal).stage = "report"
              /\ StartReport(signal).signal = signal
              /\ StartReport(signal).alone = exit.alone
              /\ StartReport(signal).steady = TRUE
              /\ Reporting(pool, StartReport(signal).next)
         /\ StartClear = [f \in DOMAIN NotLeaving |-> StartClear[f]]
         /\ StartClear.stage \in {"clear", "gone"}
         /\ StartClear.signal = exit.signal
         /\ StartClear.alone = exit.alone
         /\ StartClear.steady \in BOOLEAN
         /\ StartClear.alone => StartClear.steady
         /\ StartClear.stage = "clear" /\ Tracked
              => /\ Facing(pool, mapped, StartClear.next)
                 /\ Clearing(pool, mapped, StartClear.next)
  <1>1. pool \in Seq(Zone)  BY DEF PoolOK, TypeOK
  <1>2. FirstZone = IF pool = << >> THEN NULL ELSE pool[1].base
    BY DEF FirstZone
  <1>3. 1 \in 1..(Len(pool) + 1) /\ At(pool, FirstZone, 1)
    BY <1>1, <1>2, FirstIsAt
  <1>4. Reporting(pool, FirstZone)  BY <1>3 DEF Reporting
  <1>5. Tracked => Clearing(pool, mapped, FirstZone)
    BY <1>3, FitPool, LeftAtFirst DEF Clearing
  <1>6. Tracked => Facing(pool, mapped, FirstZone)  BY <1>4, WholeIsFaced
  <1>7. ASSUME NEW signal \in BOOLEAN
        PROVE  /\ StartReport(signal)
                    = [f \in DOMAIN NotLeaving |-> StartReport(signal)[f]]
               /\ StartReport(signal).stage = "report"
               /\ StartReport(signal).signal = signal
               /\ StartReport(signal).alone = exit.alone
               /\ StartReport(signal).steady = TRUE
               /\ StartReport(signal).next = FirstZone
    BY DEF StartReport, ExitTypeOK, NotLeaving
  <1>8. /\ StartClear = [f \in DOMAIN NotLeaving |-> StartClear[f]]
        /\ StartClear.stage \in {"clear", "gone"}
        /\ StartClear.signal = exit.signal
        /\ StartClear.alone = exit.alone
        /\ StartClear.steady \in {exit.steady, TRUE}
        /\ StartClear.stage = "clear" => StartClear.next = FirstZone
    BY DEF StartClear, ExitTypeOK, NotLeaving
  <1>9. StartClear.steady \in BOOLEAN /\ (StartClear.alone => StartClear.steady)
    BY <1>8 DEF ExitTypeOK
  <1>. QED  BY <1>4, <1>5, <1>7, <1>8, <1>6, <1>9

(* A step of the leaving thread that leaves the allocator alone.           *)
LEMMA AllocatorKept ==
  ASSUME SizesAgree, UNCHANGED vars
  PROVE  /\ pool' = pool /\ mapped' = mapped
         /\ Tracked' <=> Tracked
         /\ PoolOK => PoolOK'
  <1>1. pool' = pool /\ mapped' = mapped /\ events' = events  BY DEF vars
  <1>. QED  BY <1>1, PoolOKStep DEF Tracked, Clean

(* The history of exceptional paths grows: what is tracked was tracked.    *)
LEMMA TrackedBefore ==
  ASSUME events \subseteq events', Tracked'
  PROVE  Tracked
  BY DEF Tracked, Clean

(* ExitInv holds before the first call.                                    *)
THEOREM ExitInvInit == ExitInit => ExitInv
  <1> SUFFICES ASSUME ExitInit PROVE ExitInv  OBVIOUS
  <1>1. PoolOK  BY PoolOKInit DEF ExitInit
  <1>2. exit = NotLeaving  BY DEF ExitInit
  <1>3. ExitTypeOK  BY <1>2 DEF ExitTypeOK, NotLeaving, Stages
  <1>4. exit.stage = "no"  BY <1>2 DEF NotLeaving
  <1>. QED  BY <1>1, <1>3, <1>4 DEF ExitInv

(* The start of a report or of _clear keeps ExitInv.                       *)
LEMMA StartsWalk ==
  ASSUME SizesAgree, ExitInv, UNCHANGED vars, exit.stage \in {"no", "told"},
         NEW x, x = StartClear \/ \E signal \in BOOLEAN : x = StartReport(signal),
         exit' = x \/ \E t : exit' = [x EXCEPT !.by = t]
  PROVE  ExitInv'
  <1>1. ExitTypeOK /\ PoolOK  BY DEF ExitInv
  <1>2. /\ x = [f \in DOMAIN NotLeaving |-> x[f]]
        /\ x.stage \in {"report", "clear", "gone"}
        /\ x.signal \in BOOLEAN /\ x.alone \in BOOLEAN /\ x.steady \in BOOLEAN
        /\ x.alone => x.steady
        /\ x.stage = "report" => Reporting(pool, x.next)
        /\ x.stage = "clear" /\ Tracked
             => Facing(pool, mapped, x.next) /\ Clearing(pool, mapped, x.next)
    <2>1. exit.signal \in BOOLEAN /\ exit.alone \in BOOLEAN
      BY <1>1 DEF ExitTypeOK
    <2>2. ASSUME NEW signal \in BOOLEAN, x = StartReport(signal)
          PROVE  /\ x = [f \in DOMAIN NotLeaving |-> x[f]]
                 /\ x.stage = "report" /\ x.signal = signal
                 /\ x.alone = exit.alone /\ x.steady = TRUE
                 /\ Reporting(pool, x.next)
      BY <1>1, <2>2, StartsSound
    <2>3. ASSUME x = StartClear
          PROVE  /\ x = [f \in DOMAIN NotLeaving |-> x[f]]
                 /\ x.stage \in {"clear", "gone"} /\ x.signal = exit.signal
                 /\ x.alone = exit.alone /\ x.steady \in BOOLEAN
                 /\ x.alone => x.steady
                 /\ x.stage = "clear" /\ Tracked
                      => /\ Facing(pool, mapped, x.next)
                         /\ Clearing(pool, mapped, x.next)
      BY <1>1, <2>3, StartsSound
    <2>. QED  BY <2>1, <2>2, <2>3
  <1>3. /\ exit' = [f \in DOMAIN NotLeaving |-> exit'[f]]
        /\ exit'.stage = x.stage /\ exit'.signal = x.signal
        /\ exit'.alone = x.alone /\ exit'.steady = x.steady
        /\ exit'.next = x.next
    BY <1>2 DEF NotLeaving
  <1>4. ExitTypeOK'
    BY <1>1, <1>2, <1>3 DEF ExitTypeOK, Stages, NotLeaving
  <1>5. /\ pool' = pool /\ mapped' = mapped
        /\ (Tracked' <=> Tracked) /\ PoolOK'
    BY <1>1, AllocatorKept
  <1>. QED  BY <1>2, <1>3, <1>4, <1>5 DEF ExitInv

(* What another thread does to a walk: unless it is the zone the walk      *)
(* comes to next that is given back, the walk stays on the list.           *)
LEMMA OthersKeep ==
  ASSUME SizesAgree, ExitInv, Others, exit.stage # "no"
  PROVE  ExitInv'
  <1>1. /\ exit = [f \in DOMAIN NotLeaving |-> exit[f]]
        /\ exit.stage \in Stages
        /\ exit.signal \in BOOLEAN /\ exit.steady \in BOOLEAN
    BY DEF ExitInv, ExitTypeOK
  <1>2. exit' = [exit EXCEPT !.alone = FALSE, !.count = 0, !.bytes = 0,
                             !.steady = @ /\ NextStays]
    BY DEF Others
  <1>3. /\ exit' = [f \in DOMAIN NotLeaving |-> exit'[f]]
        /\ exit'.stage = exit.stage /\ exit'.signal = exit.signal
        /\ exit'.alone = FALSE /\ exit'.next = exit.next
        /\ exit'.steady = (exit.steady /\ NextStays)
    BY <1>1, <1>2 DEF NotLeaving
  <1>4. exit.stage \notin {"gone", "lost"} /\ ~Trampled /\ Next
    BY DEF Others, Runnable, Next
  <1>5. events \subseteq events'
    BY <1>4, HistoryGrows DEF Next
  <1>6. Tracked' => Tracked  BY <1>5, TrackedBefore
  <1>7. exit.stage \in {"report", "told"} \/ Tracked' => PoolOK'
    <2>1. PoolOK => PoolOK'  BY <1>4, PoolOKStep
    <2>2. exit.stage \in {"report", "told"} => PoolOK  BY DEF ExitInv
    <2>3. exit.stage = "clear" /\ Tracked => PoolOK  BY <1>4 DEF ExitInv
    <2>. QED  BY <1>1, <1>4, <1>6, <2>1, <2>2, <2>3 DEF Stages
  <1>8. ASSUME PoolOK', exit'.steady PROVE Reporting(pool', exit'.next)
    <2>1. pool' \in Seq(Zone)  BY <1>8 DEF PoolOK, TypeOK
    <2>2. exit'.next = NULL \/ \E k \in DOMAIN pool' : pool'[k].base = exit'.next
      BY <1>3, <1>8 DEF NextStays
    <2>. QED  BY <2>1, <2>2, StaysOn
  <1>9. ASSUME PoolOK', Tracked', exit'.steady
        PROVE  Facing(pool', mapped', exit'.next)
    <2>1. Fit(pool)' /\ (mapped = AllPages(pool))'
      BY <1>9, FitPool, PTL
    <2>2. Reporting(pool', exit'.next)  BY <1>8, <1>9
    <2>. QED  BY <2>1, <2>2 DEF Facing, Reporting, AllPages
  <1>10. ExitTypeOK'  BY <1>1, <1>3 DEF ExitTypeOK
  <1>. QED  BY <1>1, <1>3, <1>4, <1>7, <1>8, <1>9, <1>10 DEF ExitInv

(* What _clear does to its walk when it comes to a zone.                   *)
LEMMA ClearKeeps ==
  ASSUME SizesAgree, ExitInv, ClearZone
  PROVE  ExitInv'
  <1>1. /\ exit = [f \in DOMAIN NotLeaving |-> exit[f]]
        /\ exit.stage \in Stages
        /\ exit.signal \in BOOLEAN /\ exit.alone \in BOOLEAN
        /\ exit.steady \in BOOLEAN /\ (exit.alone => exit.steady)
    BY DEF ExitInv, ExitTypeOK
  <1>2. PICK k \in ZoneAt(exit.next) :
          /\ exit' = [exit EXCEPT !.next = ZoneAfter(k)]
          /\ \/ /\ mapped' = mapped \ ClearedPages(pool[k])
                /\ UNCHANGED <<status, events>>
             \/ events' = events \cup {"kept"}
    BY DEF ClearZone
  <1>3. /\ exit' = [f \in DOMAIN NotLeaving |-> exit'[f]]
        /\ exit'.stage = exit.stage /\ exit'.signal = exit.signal
        /\ exit'.alone = exit.alone /\ exit'.steady = exit.steady
        /\ exit'.next = ZoneAfter(k)
    BY <1>1, <1>2 DEF NotLeaving
  <1>4. /\ exit.stage = "clear" /\ exit.next # NULL
        /\ UNCHANGED <<pool, held, calls, lock>>
    BY DEF ClearZone
  <1>5. k \in DOMAIN pool  BY DEF ZoneAt
  <1>6. ExitTypeOK'  BY <1>1, <1>3 DEF ExitTypeOK
  <1>7. ASSUME Tracked'
        PROVE  /\ PoolOK' \/ Trampled'
               /\ exit.steady => Facing(pool', mapped', exit'.next)
               /\ exit.alone => Clearing(pool', mapped', exit'.next)
    <2>1. /\ mapped' = mapped \ ClearedPages(pool[k])
          /\ UNCHANGED <<status, events>>
      BY <1>2, <1>7 DEF Tracked
    <2>2. Tracked  BY <1>7, <2>1, TrackedBefore
    <2>3. PoolOK' \/ Trampled'
      <3>1. CASE Trampled
        <4>1. mapped' \subseteq mapped  BY <2>1
        <4>. QED  BY <1>4, <3>1, <4>1 DEF Trampled, Headers, ListedAllocs, Owned, InFlight, Backed
      <3>2. CASE PoolOK /\ pool[k].allocs = << >>
        <4>1. mapped' = mapped  BY <2>1, <3>2 DEF ClearedPages
        <4>2. UNCHANGED vars  BY <1>4, <2>1, <4>1 DEF vars
        <4>. QED  BY <3>2, <4>2, AllocatorKept
      <3>3. CASE PoolOK /\ pool[k].allocs # << >>
        <4>1. Fit(pool)  BY <2>2, <3>3, FitPool
        <4>2. /\ pool[k] \in Zone /\ RoomyZone(pool[k])
              /\ pool[k].base \in Nat /\ ZoneLen(pool[k]) \in Nat \ {0}
              /\ ZonePages(pool[k]) = PagesOf(pool[k].base, ZoneLen(pool[k]))
          BY <1>5, <4>1, FitZone
        <4>3. ClearedPages(pool[k]) = ZonePages(pool[k])
          BY <3>3, <4>2, ClearedZone
        <4>4. pool[k].base < pool[k].base + ZoneLen(pool[k])  BY <4>2
        <4>5. pool[k].base \div Page \in ZonePages(pool[k])
          BY <4>2, <4>4, PageOfByte
        <4>6. pool[k].base \div Page \notin mapped'  BY <2>1, <4>3, <4>5
        <4>. QED  BY <1>4, <1>5, <4>2, <4>6, UnmappedTramples
      <3>. QED  BY <1>4, <2>2, <3>1, <3>2, <3>3 DEF ExitInv
    <2>4. ASSUME exit.steady PROVE Facing(pool', mapped', exit'.next)
      <3>1. Facing(pool, mapped, exit.next)
        BY <1>4, <2>2, <2>4 DEF ExitInv
      <3>2. \A n \in DOMAIN pool : n >= k => ZonePages(pool[n]) \subseteq mapped
        BY <1>4, <3>1, FacingFinds
      <3>3. Fit(pool) /\ pool \in Seq(Zone) /\ DOMAIN pool = 1..Len(pool)
            /\ Len(pool) \in Nat
        BY <3>1, LenProperties DEF Facing, Fit
      <3>4. k + 1 \in 1..(Len(pool) + 1) /\ At(pool, exit'.next, k + 1)
        BY <1>3, <1>5, <3>3, AfterIsAt
      <3>5. ClearedPages(pool[k]) \subseteq ZonePages(pool[k])
        BY <1>5, <3>3, FitZone, ClearedZone
      <3>6. ASSUME NEW n \in DOMAIN pool, n >= k + 1
            PROVE  ZonePages(pool[n]) \subseteq mapped'
        <4>1. n >= k /\ n # k  BY <1>5, <3>3, <3>6
        <4>2. ZonePages(pool[n]) \cap ZonePages(pool[k]) = {}
          BY <1>5, <3>3, <4>1 DEF Fit, PoolSound
        <4>. QED  BY <2>1, <3>2, <3>5, <4>1, <4>2
      <3>. QED  BY <1>4, <3>3, <3>4, <3>6 DEF Facing
    <2>5. ASSUME exit.alone PROVE Clearing(pool', mapped', exit'.next)
      <3>1. Clearing(pool, mapped, exit.next)
        BY <1>4, <2>2, <2>5 DEF ExitInv
      <3>2. mapped = Left(pool, k)  BY <1>4, <3>1, ClearingFinds
      <3>3. Fit(pool) /\ pool \in Seq(Zone)  BY <3>1 DEF Clearing, Fit
      <3>4. mapped' = Left(pool, k + 1)
        BY <1>5, <2>1, <3>2, <3>3, ClearedLeft
      <3>5. k + 1 \in 1..(Len(pool) + 1) /\ At(pool, exit'.next, k + 1)
        BY <1>3, <1>5, <3>3, AfterIsAt
      <3>. QED  BY <1>4, <3>3, <3>4, <3>5 DEF Clearing
    <2>. QED  BY <2>3, <2>4, <2>5
  <1>. QED  BY <1>3, <1>4, <1>6, <1>7 DEF ExitInv

(* Every step of the leaving thread and of the others keeps ExitInv.       *)
THEOREM ExitInvStep ==
  ASSUME SizesAgree
  PROVE  ExitInv /\ [ExitNext]_exitVars => ExitInv'
  <1> SUFFICES ASSUME ExitInv, [ExitNext]_exitVars PROVE ExitInv'
    OBVIOUS
  <1>1. /\ exit = [f \in DOMAIN NotLeaving |-> exit[f]]
        /\ exit.stage \in Stages
        /\ exit.signal \in BOOLEAN /\ exit.alone \in BOOLEAN
        /\ exit.steady \in BOOLEAN /\ (exit.alone => exit.steady)
    BY DEF ExitInv, ExitTypeOK
  <1>2. CASE UNCHANGED exitVars
    <2>1. exit' = exit /\ UNCHANGED vars  BY <1>2 DEF exitVars, vars
    <2>2. /\ pool' = pool /\ mapped' = mapped /\ held' = held /\ calls' = calls
          /\ (Tracked' <=> Tracked) /\ (PoolOK => PoolOK')
      BY <2>1, AllocatorKept DEF vars
    <2>3. Trampled => Trampled'
      BY <2>2 DEF Trampled, Headers, ListedAllocs, Owned, InFlight, Backed
    <2>. QED  BY <2>1, <2>2, <2>3 DEF ExitInv, ExitTypeOK
  <1>3. CASE Others
    <2>1. CASE exit.stage = "no"
      <3>1. exit' = exit /\ Next  BY <1>3, <2>1 DEF Others, Next
      <3>2. PoolOK => PoolOK'  BY <3>1, PoolOKStep
      <3>. QED  BY <2>1, <3>1, <3>2 DEF ExitInv, ExitTypeOK
    <2>. QED  BY <1>3, <2>1, OthersKeep
  <1>4. ASSUME NEW t \in Threads, Leave(t) PROVE ExitInv'
    <2> DEFINE x == IF ShowLeaks THEN StartReport(FALSE) ELSE StartClear
    <2>1. /\ exit.stage = "no" /\ UNCHANGED vars
          /\ exit' = [x EXCEPT !.by = t]
          /\ x = StartClear \/ x = StartReport(FALSE)
      BY <1>4 DEF Leave
    <2> HIDE DEF x
    <2>. QED  BY <2>1, StartsWalk
  <1>5. ASSUME NEW t \in Threads, Interrupt(t) PROVE ExitInv'
    <2> DEFINE x == StartReport(TRUE)
    <2>1. /\ exit.stage = "no" /\ UNCHANGED vars
          /\ exit' = [x EXCEPT !.by = t]
          /\ x = StartReport(TRUE)
      BY <1>5 DEF Interrupt
    <2> HIDE DEF x
    <2>. QED  BY <2>1, StartsWalk
  <1>6. CASE ReportZone
    <2>1. PICK k \in ZoneAt(exit.next) :
            exit' = [exit EXCEPT
              !.next  = ReportNext(k),
              !.count = IF exit.alone THEN @ + Len(pool[k].allocs) ELSE @,
              !.bytes = IF exit.alone THEN @ + ListedBytes(pool[k].allocs) ELSE @]
      BY <1>6 DEF ReportZone
    <2>2. /\ exit' = [f \in DOMAIN NotLeaving |-> exit'[f]]
          /\ exit'.stage = exit.stage /\ exit'.signal = exit.signal
          /\ exit'.alone = exit.alone /\ exit'.steady = exit.steady
          /\ exit'.next = ReportNext(k)
      BY <1>1, <2>1 DEF NotLeaving
    <2>3. exit.stage = "report" /\ UNCHANGED vars  BY <1>6 DEF ReportZone
    <2>4. /\ PoolOK /\ pool' = pool /\ mapped' = mapped /\ PoolOK'
      BY <2>3, AllocatorKept DEF ExitInv
    <2>5. Reporting(pool, exit'.next)
      <3>1. pool \in Seq(Zone)  BY <2>4 DEF PoolOK, TypeOK
      <3>2. k \in DOMAIN pool  BY DEF ZoneAt
      <3>. QED  BY <2>2, <3>1, <3>2, AfterIsAt DEF Reporting, ReportNext
    <2>. QED  BY <1>1, <2>2, <2>3, <2>4, <2>5 DEF ExitInv, ExitTypeOK
  <1>7. CASE Tell
    <2>1. /\ exit' = [exit EXCEPT !.stage = "told"]
          /\ exit.stage = "report" /\ UNCHANGED vars
      BY <1>7 DEF Tell
    <2>2. /\ exit' = [f \in DOMAIN NotLeaving |-> exit'[f]]
          /\ exit'.stage = "told" /\ exit'.signal = exit.signal
          /\ exit'.alone = exit.alone /\ exit'.steady = exit.steady
      BY <1>1, <2>1 DEF NotLeaving
    <2>3. PoolOK'  BY <2>1, AllocatorKept DEF ExitInv
    <2>. QED  BY <1>1, <2>1, <2>2, <2>3 DEF ExitInv, ExitTypeOK, Stages
  <1>8. CASE AfterReport
    BY <1>8, StartsWalk DEF AfterReport
  <1>9. CASE ClearZone  BY <1>9, ClearKeeps
  <1>10. CASE ClearDone
    <2>1. exit' = [exit EXCEPT !.stage = "gone"]  BY <1>10 DEF ClearDone
    <2>2. /\ exit' = [f \in DOMAIN NotLeaving |-> exit'[f]]
          /\ exit'.stage = "gone" /\ exit'.signal = exit.signal
          /\ exit'.alone = exit.alone /\ exit'.steady = exit.steady
      BY <1>1, <2>1 DEF NotLeaving
    <2>. QED  BY <1>1, <2>2 DEF ExitInv, ExitTypeOK, Stages
  <1>11. CASE GetLost
    <2>1. /\ exit' = [exit EXCEPT !.stage = "lost"] /\ UNCHANGED vars
          /\ exit.stage \in {"report", "clear"}
          /\ exit.next # NULL /\ ZoneAt(exit.next) = {}
      BY <1>11 DEF GetLost
    <2>2. /\ exit' = [f \in DOMAIN NotLeaving |-> exit'[f]]
          /\ exit'.stage = "lost" /\ exit'.signal = exit.signal
          /\ exit'.alone = exit.alone /\ exit'.steady = exit.steady
      BY <1>1, <2>1 DEF NotLeaving
    <2>3. ASSUME exit.steady, Tracked PROVE FALSE
      <3>1. CASE exit.stage = "report"
        BY <2>1, <2>3, <3>1, ReportingFinds DEF ExitInv
      <3>2. CASE exit.stage = "clear"
        BY <2>1, <2>3, <3>2, FacingFinds DEF ExitInv
      <3>. QED  BY <2>1, <3>1, <3>2
    <2>4. Tracked' <=> Tracked  BY <2>1, AllocatorKept
    <2>. QED  BY <1>1, <2>1, <2>2, <2>3, <2>4 DEF ExitInv, ExitTypeOK, Stages
  <1>. QED
    BY <1>2, <1>3, <1>4, <1>5, <1>6, <1>7, <1>8, <1>9, <1>10, <1>11 DEF ExitNext

-----------------------------------------------------------------------------
(* Theorems                                                                *)

(* So it holds to the end of the process.                                  *)
LEMMA ExitInvCorrect ==
  ASSUME SizesAgree
  PROVE  ExitSpec => []ExitInv
  BY ExitInvInit, ExitInvStep, PTL DEF ExitSpec

(* Whatever other threads do in between, the walks of the report and of    *)
(* _clear stand on the list with everything in front of them mapped, and   *)
(* are not lost, unless the zone they came to next was itself given back;  *)
(* with no other thread running, _clear has given back whole each zone     *)
(* with a block behind it, and no other page.                              *)
THEOREM WalkSoundCorrect ==
  ASSUME SizesAgree
  PROVE  ExitSpec => []WalkSound
  <1>1. ExitInv => WalkSound
    <2> SUFFICES ASSUME ExitInv, Tracked
                 PROVE  /\ exit.steady /\ exit.stage \in {"report", "clear"} =>
                             \E k \in 1..(Len(pool) + 1) :
                               /\ WalkAt(k)
                               /\ \A m \in DOMAIN pool :
                                    m >= k => ZonePages(pool[m]) \subseteq mapped
                        /\ exit.alone /\ exit.stage = "clear" =>
                             \E k \in 1..(Len(pool) + 1) :
                               WalkAt(k) /\ mapped = LeftFrom(k)
      BY DEF WalkSound, ExitInv
    <2>1. \A k : (WalkAt(k) <=> At(pool, exit.next, k)) /\ LeftFrom(k) = Left(pool, k)
      BY LeftFromIsLeft DEF WalkAt, At
    <2>2. exit.steady /\ exit.stage \in {"report", "clear"}
            => Facing(pool, mapped, exit.next)
      BY WholeIsFaced DEF ExitInv
    <2>3. exit.alone /\ exit.stage = "clear" => Clearing(pool, mapped, exit.next)
      BY DEF ExitInv
    <2>. QED  BY <2>1, <2>2, <2>3 DEF Facing, Clearing
  <1>. QED  BY <1>1, ExitInvCorrect, PTL

-----------------------------------------------------------------------------
(* show_alloc_mem                                                          *)

(* Every set of numbers that has one has a least one.                      *)
LEMMA LeastNumber ==
  ASSUME NEW S \in SUBSET Nat, S # {}
  PROVE  \E n \in S : \A m \in S : n <= m
  <1>1. PICK s \in S : TRUE  OBVIOUS
  <1> DEFINE T == {i \in 1..(s + 1) : i - 1 \in S}
  <1>2. s \in Nat /\ s + 1 \in T /\ (s + 1) - 1 = s  BY <1>1
  <1>3. FirstOf(T) # {}
    <2>1. T \in SUBSET (1..(s + 1)) /\ T # {} /\ s + 1 \in Nat  BY <1>2
    <2> HIDE DEF T
    <2>. QED  BY <2>1, FirstOfSome
  <1>4. PICK i \in T : \A j \in T : i <= j  BY <1>3 DEF FirstOf
  <1>5. i - 1 \in S /\ i \in 1..(s + 1)  BY <1>4
  <1>6. ASSUME NEW m \in S PROVE i - 1 <= m
    <2>1. m \in Nat  OBVIOUS
    <2>2. CASE m <= s
      <3>1. m + 1 \in 1..(s + 1) /\ (m + 1) - 1 = m  BY <1>2, <2>1, <2>2
      <3>2. m + 1 \in T  BY <3>1
      <3>3. i <= m + 1  BY <1>4, <3>2
      <3>. QED  BY <1>2, <1>5, <2>1, <3>3
    <2>3. CASE m > s  BY <1>2, <1>5, <2>1, <2>3
    <2>. QED  BY <1>2, <2>1, <2>2, <2>3
  <1>. QED  BY <1>5, <1>6

(* Zones lie at addresses of their own, none at the null pointer.          *)
BasesOK(p) ==
  /\ \A k \in DOMAIN p : p[k].base # NULL
  /\ \A k, m \in DOMAIN p : k # m => p[k].base # p[m].base

(* A request is served from a zone that stays where it is, or from a new   *)
(* zone: mmap hands out no page that holds a header still in use.          *)
LEMMA BasesServed ==
  ASSUME TypeOK, BasesOK(pool), ~Trampled,
         NEW size \in Nat, NEW o \in MallocOutcomes(size)
  PROVE  BasesOK(o.pool)
  <1>1. pool \in Seq(Zone) /\ Len(pool) \in Nat /\ DOMAIN pool = 1..Len(pool)
    BY LenProperties DEF TypeOK
  <1>2. ASSUME NEW k \in DOMAIN pool, NEW c \in Carve(pool[k], size),
               o.pool = [pool EXCEPT ![k] = c.zone]
        PROVE  BasesOK(o.pool)
    <2>1. pool[k] \in Zone  BY <1>1, ElementOfSeq
    <2>2. c.zone.base = pool[k].base  BY <2>1, CarveKeepsZone
    <2>3. /\ DOMAIN o.pool = DOMAIN pool
          /\ \A m \in DOMAIN pool : o.pool[m].base = pool[m].base
      BY <1>2, <2>2
    <2>. QED  BY <2>3 DEF BasesOK
  <1>3. CASE o.pool = pool  BY <1>3
  <1> DEFINE len == ZoneMemSize(size, SetZoneType(size))
  <1>4. ASSUME NEW base \in Nat, NEW c \in Carve(FreshZone(base, size), size),
               base \in FreeBases(len), o.pool = Append(pool, c.zone)
        PROVE  BasesOK(o.pool)
    <2>1. len \in Nat /\ len >= ZoneHdr  BY ZoneTypeIsType, ZoneMemSizeBounds
    <2>2. c.zone \in Zone /\ c.zone.base = base
      <3>1. FreshZone(base, size) \in Zone  BY FreshZoneType
      <3>2. FreshZone(base, size).base = base  BY DEF FreshZone
      <3>. QED  BY <3>1, <3>2, CarveKeepsZone
    <2>3. base \div Page \in PagesOf(base, len)
      <3>1. base < base + len  BY <2>1, SizesAssumption
      <3> HIDE DEF len
      <3>. QED  BY <2>1, <3>1, PageOfByte
    <2>4. PagesOf(base, len) \cap mapped = {} /\ 0 \notin PagesOf(base, len)
      <3>1. 0 \notin PagesOf(base, len)
        <4> HIDE DEF len
        <4>. QED  BY <1>4, <2>1, NoZoneOnNull
      <3>2. PagesOf(base, len) \cap mapped = {}
        BY <1>4 DEF FreeBases, FreePages
      <3>. QED  BY <3>1, <3>2
    <2>5. base # NULL
      <3>1. 0 \div Page = 0
        <4>1. (Page * 0 + 0) \div Page = 0  BY DivOfMultiple, SizesAssumption
        <4>2. Page * 0 + 0 = 0  BY SizesAssumption
        <4>. QED  BY <4>1, <4>2
      <3>. QED  BY <2>3, <2>4, <3>1 DEF NULL
    <2>6. ASSUME NEW k \in DOMAIN pool PROVE pool[k].base # base
      <3>1. pool[k].base \in Nat
        <4>1. pool[k] \in Zone  BY <1>1, ElementOfSeq
        <4>. QED  BY <4>1 DEF Zone
      <3>2. <<pool[k].base, ZoneHdr>> \in Headers  BY DEF Headers
      <3>3. Backed(pool[k].base, ZoneHdr)  BY <3>2 DEF Trampled
      <3>4. pool[k].base \div Page \in PagesOf(pool[k].base, ZoneHdr)
        <4>1. pool[k].base < pool[k].base + ZoneHdr  BY <3>1, SizesAssumption
        <4>. QED  BY <3>1, <4>1, PageOfByte, SizesAssumption
      <3>5. pool[k].base \div Page \in mapped
        BY <3>3, <3>4 DEF Backed, PagesOf
      <3>. QED  BY <2>3, <2>4, <3>5
    <2>7. /\ Len(o.pool) = Len(pool) + 1
          /\ DOMAIN o.pool = 1..(Len(pool) + 1)
          /\ \A k \in DOMAIN pool : o.pool[k] = pool[k]
          /\ o.pool[Len(pool) + 1] = c.zone
      BY <1>1, <1>4, <2>2, AppendProperties, LenProperties
    <2>8. \A k \in DOMAIN o.pool : k \in DOMAIN pool \/ k = Len(pool) + 1
      BY <1>1, <2>7
    <2>. QED  BY <2>2, <2>5, <2>6, <2>7, <2>8 DEF BasesOK
  <1>. QED  BY <1>2, <1>3, <1>4, MallocOutcomesCases

(* A release takes a zone away or leaves all where they are.               *)
LEMMA BasesReleased ==
  ASSUME TypeOK, BasesOK(pool), NEW ptr, NEW loc \in Find(ptr),
         Release(loc[1], loc[2])
  PROVE  BasesOK(pool')
  <1> DEFINE k == loc[1]
             j == loc[2]
  <1>1. /\ pool \in Seq(Zone) /\ Len(pool) \in Nat /\ DOMAIN pool = 1..Len(pool)
        /\ k \in 1..Len(pool) /\ j \in 1..Len(pool[k].allocs)
        /\ pool[k] \in Zone
    BY FindInPool, LenProperties, ElementOfSeq DEF TypeOK
  <1>2. j \in DOMAIN pool[k].allocs  BY <1>1, LenProperties DEF Zone
  <1>3. /\ pool' \in Seq(Zone)
        /\ \/ /\ Len(pool') = Len(pool) - 1
              /\ \A m \in DOMAIN pool' :
                   pool'[m] = pool[IF m < k THEN m ELSE m + 1]
           \/ /\ Len(pool') = Len(pool)
              /\ \A m \in DOMAIN pool' :
                   pool'[m] = IF m = k THEN FreedZone(pool[k], j) ELSE pool[m]
    <2>1. Release(k, j) /\ k \in DOMAIN pool  BY <1>1
    <2>2. mapped \subseteq Int /\ status \in {"running", "aborted"}
      BY DEF TypeOK
    <2> HIDE DEF k, j
    <2>. QED  BY <1>1, <1>2, <2>1, <2>2, ReleaseSteps
  <1>4. DOMAIN pool' = 1..Len(pool')  BY <1>3, LenProperties
  <1>5. FreedZone(pool[k], j).base = pool[k].base  BY <1>1, FreedZoneType
  <1> HIDE DEF k, j
  <1>6. CASE /\ Len(pool') = Len(pool) - 1
             /\ \A m \in DOMAIN pool' :
                  pool'[m] = pool[IF m < k THEN m ELSE m + 1]
    <2> DEFINE from(m) == IF m < k THEN m ELSE m + 1
    <2>1. /\ \A m \in DOMAIN pool' : from(m) \in DOMAIN pool
          /\ \A m, n \in DOMAIN pool' : m # n => from(m) # from(n)
      BY <1>1, <1>4, <1>6
    <2>2. \A m \in DOMAIN pool' : pool'[m].base = pool[from(m)].base
      BY <1>6
    <2> HIDE DEF from
    <2>. QED  BY <2>1, <2>2 DEF BasesOK
  <1>7. CASE /\ Len(pool') = Len(pool)
             /\ \A m \in DOMAIN pool' :
                  pool'[m] = IF m = k THEN FreedZone(pool[k], j) ELSE pool[m]
    <2>1. /\ DOMAIN pool' = DOMAIN pool
          /\ \A m \in DOMAIN pool' : pool'[m].base = pool[m].base
      BY <1>1, <1>4, <1>5, <1>7
    <2>. QED  BY <2>1 DEF BasesOK
  <1>. QED  BY <1>3, <1>6, <1>7

(* Every critical section leaves the zones at addresses of their own.      *)
LEMMA BasesStep ==
  ASSUME TypeOK, BasesOK(pool), Next
  PROVE  BasesOK(pool')
  <1>1. PICK t \in Threads : Step(t)  BY DEF Next
  <1>2. ~Trampled  BY DEF Next, Runnable
  <1>3. PoolTypeOK /\ \A u \in Threads : calls[u] \in Calls
    BY DEF TypeOK, PoolTypeOK
  <1>4. ASSUME NEW size \in Nat, NEW o \in MallocOutcomes(size), Serve(o)
        PROVE  BasesOK(pool')
    BY <1>2, <1>4, BasesServed DEF Serve
  <1>5. /\ \A size : Refuse(t, size) => pool' = pool
        /\ Missed => pool' = pool
    BY DEF Refuse, Missed
  <1>6. ASSUME NEW ptr, NEW loc \in Find(ptr), Release(loc[1], loc[2])
        PROVE  BasesOK(pool')
    BY <1>6, BasesReleased
  <1>7. ASSUME NEW ptr, FreePtr(ptr) PROVE BasesOK(pool')
    BY <1>5, <1>6, <1>7 DEF FreePtr
  <1>8. ASSUME NEW i \in Slots, NEW size \in Sizes, Malloc(t, i, size)
        PROVE  BasesOK(pool')
    <2>1. RoundUp(size) \in Nat  BY SizesType
    <2>. QED  BY <1>4, <1>5, <1>8, <2>1 DEF Malloc
  <1>9. ASSUME NEW i \in Slots, Free(t, i) \/ ReallocfZero(t, i)
        PROVE  BasesOK(pool')
    BY <1>7, <1>9 DEF Free, ReallocfZero
  <1>10. ASSUME NEW i \in Slots, NEW size \in Sizes, NEW api \in Apis,
                Realloc(t, api, i, size)
         PROVE  BasesOK(pool')
    <2>1. ASSUME NEW loc \in Find(held[i].ptr),
                 Shrink(loc[1], loc[2], RoundUp(size))
          PROVE  BasesOK(pool')
      <3>1. /\ DOMAIN pool' = DOMAIN pool
            /\ \A m \in DOMAIN pool : pool'[m].base = pool[m].base
        BY <2>1, FindInPool, SizesType, ShrinkSteps DEF TypeOK
      <3>. QED  BY <3>1 DEF BasesOK
    <2>. QED  BY <1>5, <1>10, <2>1 DEF Realloc
  <1>11. ASSUME ReallocMove(t) PROVE BasesOK(pool')
    <2>1. calls[t].size \in Nat  BY <1>3, <1>11, CallFields DEF ReallocMove
    <2>. QED  BY <1>4, <1>5, <1>11, <2>1 DEF ReallocMove
  <1>12. ASSUME ReallocFinish(t) PROVE BasesOK(pool')
    BY <1>7, <1>12 DEF ReallocFinish
  <1>13. ASSUME ReallocfDrop(t) PROVE BasesOK(pool')
    BY <1>5, <1>6, <1>13 DEF ReallocfDrop
  <1>. QED  BY <1>1, <1>8, <1>9, <1>10, <1>11, <1>12, <1>13 DEF Step

(* The walk of show_alloc_mem does what it is said to: the recursion has a *)
(* solution on every stretch 1..m, and so on the whole.                    *)
LEMMA ShownSteps ==
  ASSUME pool \in Seq(Zone)
  PROVE  \A n \in 1..(Len(pool) + 1) :
           Shown[n] = SmallestAbove(IF n = 1 THEN 0 ELSE Shown[n - 1])
  <1> DEFINE N == Len(pool) + 1
             Solves(g, m) ==
               g = [n \in 1..m |-> SmallestAbove(IF n = 1 THEN 0 ELSE g[n - 1])]
             Bad == {m \in 0..N : ~\E g : Solves(g, m)}
  <1>1. N \in Nat  BY LenProperties
  <1>2. ASSUME Bad # {} PROVE FALSE
    <2>1. PICK m \in Bad : \A k \in Bad : m <= k
      <3>1. Bad \in SUBSET Nat  OBVIOUS
      <3> HIDE DEF Bad
      <3>. QED  BY <1>2, <3>1, LeastNumber
    <2>2. m \in 0..N /\ ~\E g : Solves(g, m)  OBVIOUS
    <2>3. m # 0
      <3> SUFFICES ASSUME m = 0 PROVE FALSE  OBVIOUS
      <3> DEFINE h == [n \in 1..m |-> 0]
      <3>1. Solves(h, m)  OBVIOUS
      <3>. QED  BY <2>2, <3>1
    <2>4. m - 1 \in 0..N /\ ~(m <= m - 1)  BY <1>1, <2>2, <2>3
    <2>5. m - 1 \notin Bad  BY <2>1, <2>4
    <2>6. PICK g : Solves(g, m - 1)  BY <2>4, <2>5
    <2> DEFINE h == [n \in 1..m |->
                      SmallestAbove(IF n = 1 THEN 0 ELSE g[n - 1])]
    <2>7. ASSUME NEW n \in 1..m
          PROVE  h[n] = SmallestAbove(IF n = 1 THEN 0 ELSE h[n - 1])
      <3>1. CASE n = 1  BY <3>1
      <3>2. CASE n # 1
        <4>1. n - 1 \in 1..(m - 1) /\ n - 1 \in 1..m  BY <2>2, <3>2
        <4>2. h[n - 1] = g[n - 1]
          <5>1. g[n - 1] = SmallestAbove(IF n - 1 = 1 THEN 0 ELSE g[(n - 1) - 1])
            BY <2>6, <4>1
          <5>2. h[n - 1] = SmallestAbove(IF n - 1 = 1 THEN 0 ELSE g[(n - 1) - 1])
            BY <4>1
          <5>. QED  BY <5>1, <5>2
        <4>. QED  BY <3>2, <4>2
      <3>. QED  BY <3>1, <3>2
    <2>8. h = [n \in 1..m |-> h[n]]  OBVIOUS
    <2>9. Solves(h, m)
      <3> HIDE DEF h
      <3>. QED  BY <2>7, <2>8
    <2>. QED  BY <2>2, <2>9
  <1>3. \E g : Solves(g, N)
    <2>1. N \in 0..N /\ N \notin Bad  BY <1>1, <1>2
    <2>. QED  BY <2>1
  <1>4. Shown = CHOOSE g : Solves(g, N)  BY DEF Shown
  <1>5. Solves(Shown, N)  BY <1>3, <1>4
  <1>. QED  BY <1>5

(* The zone shown next is above the last one, and no zone lies between.    *)
LEMMA NextAbove ==
  ASSUME pool \in Seq(Zone), NEW x \in Nat, ZonesAbove(x) # {}
  PROVE  /\ SmallestAbove(x) \in ZonesAbove(x)
         /\ ZonesAbove(SmallestAbove(x)) = ZonesAbove(x) \ {SmallestAbove(x)}
  <1> DEFINE S == ZonesAbove(x)
             least == Min(S)
  <1>1. \A k \in DOMAIN pool : pool[k].base \in Nat
    <2>1. \A k \in DOMAIN pool : pool[k] \in Zone
      BY LenProperties, ElementOfSeq
    <2>. QED  BY <2>1 DEF Zone
  <1>2. S \in SUBSET Nat /\ S # {}  BY <1>1 DEF ZonesAbove
  <1>3. least \in S /\ \A y \in S : least <= y
    <2> HIDE DEF S
    <2>1. \E z \in S : \A y \in S : z <= y  BY <1>2, LeastNumber
    <2>. QED  BY <2>1 DEF Min
  <1>4. SmallestAbove(x) = least  BY <1>2 DEF SmallestAbove
  <1> HIDE DEF least
  <1>5. ASSUME NEW z PROVE z \in ZonesAbove(least) <=> z \in S \ {least}
    <2>1. CASE z \in {pool[k].base : k \in DOMAIN pool}
      <3>1. z \in Nat  BY <1>1, <2>1
      <3>2. z \in S <=> z > x  BY <2>1 DEF ZonesAbove
      <3>3. z \in ZonesAbove(least) <=> z > least  BY <2>1 DEF ZonesAbove
      <3>4. least \in Nat /\ least > x  BY <1>2, <1>3 DEF ZonesAbove
      <3>5. z \in S => least <= z  BY <1>3
      <3>6. z > least => z > x  BY <3>1, <3>4
      <3>7. z \in S /\ z # least => z > least  BY <3>1, <3>4, <3>5
      <3>8. ~(z > least /\ z = least)  BY <3>1, <3>4
      <3>. QED  BY <3>2, <3>3, <3>6, <3>7, <3>8
    <2>2. CASE z \notin {pool[k].base : k \in DOMAIN pool}
      BY <2>2 DEF ZonesAbove
    <2>. QED  BY <2>1, <2>2
  <1>. QED  BY <1>3, <1>4, <1>5

(* As many zones are above null as the list has, each at its own address;  *)
(* each step shows one of them, the next in ascending order.               *)
LEMMA ShownInOrder ==
  ASSUME pool \in Seq(Zone), BasesOK(pool)
  PROVE  ShowsEachZoneOnce
  <1> DEFINE N == Len(pool)
             B == {pool[k].base : k \in DOMAIN pool}
             Prior(n) == IF n = 1 THEN 0 ELSE Shown[n - 1]
             More(n) == ZonesAbove(Prior(n))
             Fine(n) == /\ Prior(n) \in Nat
                        /\ IsFiniteSet(More(n))
                        /\ Cardinality(More(n)) = (N + 1) - n
             Bad == {n \in 1..(N + 1) : ~Fine(n)}
  <1>1. N \in Nat /\ DOMAIN pool = 1..N  BY LenProperties
  <1>2. \A k \in 1..N : pool[k].base \in Nat
    <2>1. \A k \in DOMAIN pool : pool[k] \in Zone
      BY LenProperties, ElementOfSeq
    <2>. QED  BY <1>1, <2>1 DEF Zone
  <1>3. \A n \in 1..(N + 1) : Shown[n] = SmallestAbove(Prior(n))
    BY ShownSteps
  <1>4. Fine(1)
    <2>1. More(1) = B
      <3>1. \A k \in DOMAIN pool : pool[k].base > 0
        BY <1>1, <1>2 DEF BasesOK, NULL
      <3>. QED  BY <3>1 DEF ZonesAbove
    <2>2. IsFiniteSet(B) /\ Cardinality(B) = N
      <3> DEFINE f == [k \in 1..N |-> pool[k].base]
      <3>1. f \in Bijection(1..N, B)
        <4>1. f \in [1..N -> B] /\ \A b \in B : \E k \in 1..N : f[k] = b
          BY <1>1
        <4>2. \A k, m \in 1..N : f[k] = f[m] => k = m
          BY <1>1 DEF BasesOK
        <4>. QED  BY <4>1, <4>2 DEF Bijection, Injection, Surjection, IsInjective
      <3>2. IsFiniteSet(1..N) /\ Cardinality(1..N) = N  BY <1>1, FS_Interval
      <3>3. ExistsBijection(1..N, B)  BY <3>1 DEF ExistsBijection
      <3> HIDE DEF B, N
      <3>. QED  BY <3>2, <3>3, FS_Bijection
    <2> HIDE DEF N, B
    <2>. QED  BY <1>1, <2>1, <2>2
  <1>5. ASSUME NEW n \in 1..N, Fine(n)
        PROVE  /\ Fine(n + 1)
               /\ Shown[n] \in B
               /\ n > 1 => Shown[n - 1] < Shown[n]
    <2>1. (N + 1) - n # 0 /\ n \in Nat /\ n \in 1..(N + 1)  BY <1>1
    <2>2. More(n) # {}
      <3> HIDE DEF N, More
      <3>. QED  BY <1>5, <2>1, FS_EmptySet
    <2>3. Prior(n) \in Nat /\ Shown[n] = SmallestAbove(Prior(n))
      BY <1>3, <1>5, <2>1
    <2>4. /\ Shown[n] \in More(n)
          /\ ZonesAbove(Shown[n]) = More(n) \ {Shown[n]}
      <3> HIDE DEF Prior
      <3>. QED  BY <2>2, <2>3, NextAbove
    <2>5. Prior(n + 1) = Shown[n]
      <3>1. n + 1 # 1 /\ (n + 1) - 1 = n  BY <2>1
      <3>. QED  BY <3>1
    <2>6. Shown[n] \in B /\ Shown[n] > Prior(n)  BY <2>4 DEF ZonesAbove
    <2>7. Shown[n] \in Nat  BY <1>1, <1>2, <2>6
    <2>8. n > 1 => Shown[n - 1] < Shown[n]
      <3> SUFFICES ASSUME n > 1 PROVE Shown[n - 1] < Shown[n]  OBVIOUS
      <3>1. Prior(n) = Shown[n - 1]  BY <2>1
      <3> HIDE DEF Prior
      <3>. QED  BY <2>3, <2>6, <2>7, <3>1
    <2>9. /\ IsFiniteSet(More(n + 1))
          /\ Cardinality(More(n + 1)) = (N + 1) - (n + 1)
      <3>1. More(n + 1) = More(n) \ {Shown[n]}  BY <2>4, <2>5
      <3>2. /\ IsFiniteSet(More(n) \ {Shown[n]})
            /\ Cardinality(More(n) \ {Shown[n]}) = Cardinality(More(n)) - 1
        <4> HIDE DEF More
        <4>. QED  BY <1>5, <2>4, FS_RemoveElement
      <3>3. ((N + 1) - n) - 1 = (N + 1) - (n + 1)  BY <1>1, <2>1
      <3> HIDE DEF More, N
      <3>. QED  BY <1>5, <3>1, <3>2, <3>3
    <2> HIDE DEF More
    <2>. QED  BY <2>5, <2>6, <2>7, <2>8, <2>9
  <1>6. ASSUME Bad # {} PROVE FALSE
    <2>1. PICK n \in Bad : \A m \in Bad : n <= m
      <3>1. Bad \in SUBSET Nat  BY <1>1
      <3> HIDE DEF Bad
      <3>. QED  BY <1>6, <3>1, LeastNumber
    <2>2. n \in 1..(N + 1) /\ ~Fine(n)  OBVIOUS
    <2>3. n # 1
      <3> HIDE DEF Fine
      <3>. QED  BY <1>4, <2>2
    <2>4. n - 1 \in 1..N /\ n - 1 \in 1..(N + 1) /\ ~(n <= n - 1) /\ (n - 1) + 1 = n
      BY <1>1, <2>2, <2>3
    <2>5. n - 1 \notin Bad  BY <2>1, <2>4
    <2> HIDE DEF Fine
    <2>6. Fine(n - 1)  BY <2>4, <2>5
    <2>7. Fine((n - 1) + 1)  BY <1>5, <2>4, <2>6
    <2>. QED  BY <2>2, <2>4, <2>7
  <1>7. \A n \in 1..(N + 1) : Fine(n)
    <2> HIDE DEF Fine
    <2>. QED  BY <1>6
  <1>8. Shown[N + 1] = NULL
    <2>1. N + 1 \in 1..(N + 1) /\ (N + 1) - (N + 1) = 0  BY <1>1
    <2>2. IsFiniteSet(More(N + 1)) /\ Cardinality(More(N + 1)) = 0
      BY <1>7, <2>1
    <2>3. More(N + 1) = {}
      <3> HIDE DEF More, N
      <3>. QED  BY <2>2, FS_EmptySet
    <2>4. Shown[N + 1] = SmallestAbove(Prior(N + 1))  BY <1>3, <2>1
    <2> HIDE DEF N, Prior
    <2>. QED  BY <2>3, <2>4 DEF SmallestAbove
  <1>9. \A n \in 1..N : /\ \E k \in DOMAIN pool : pool[k].base = Shown[n]
                        /\ n > 1 => Shown[n - 1] < Shown[n]
    <2>1. \A n \in 1..N : n \in 1..(N + 1)  BY <1>1
    <2> HIDE DEF Fine, N
    <2>2. \A n \in 1..N : Shown[n] \in B /\ (n > 1 => Shown[n - 1] < Shown[n])
      BY <1>5, <1>7, <2>1
    <2>. QED  BY <2>2
  <1>. QED  BY <1>8, <1>9 DEF ShowsEachZoneOnce

(* The types of the allocator hold to the end of the process, and its      *)
(* zones lie at addresses of their own: the other threads allocate only as *)
(* long as every zone they see is mapped.                                  *)
LEMMA ZonesApartToTheEnd ==
  ExitSpec => [](TypeOK /\ BasesOK(pool))
  <1>1. ExitInit => TypeOK /\ BasesOK(pool)
    <2>1. DOMAIN << >> = {}  BY EmptySeq, LenProperties
    <2>. QED  BY <2>1, TypeInit DEF ExitInit, Init, BasesOK
  <1>2. TypeOK /\ BasesOK(pool) /\ [ExitNext]_exitVars => (TypeOK /\ BasesOK(pool))'
    <2> SUFFICES ASSUME TypeOK, BasesOK(pool), [ExitNext]_exitVars
                 PROVE  TypeOK' /\ BasesOK(pool')
      OBVIOUS
    <2>1. CASE UNCHANGED vars
      <3>1. TypeOK'  BY <2>1, TypeStep
      <3>. QED  BY <2>1, <3>1 DEF vars
    <2>2. CASE Others
      <3>1. Next  BY <2>2 DEF Others, Next
      <3>. QED  BY <3>1, TypeStep, BasesStep
    <2>3. CASE ClearZone
      <3>1. /\ UNCHANGED <<pool, held, calls, lock>>
            /\ mapped' \subseteq mapped
            /\ status' \in {status, "aborted"}
            /\ events' \subseteq events \cup {"kept"}
        BY <2>3 DEF ClearZone
      <3>. QED  BY <3>1 DEF TypeOK, Events
    <2>4. CASE ClearDone
      <3>1. pool' = << >> /\ UNCHANGED <<mapped, held, calls, lock, status, events>>
        BY <2>4 DEF ClearDone
      <3>2. << >> \in Seq(Zone) /\ DOMAIN << >> = {}  BY EmptySeq, LenProperties
      <3>. QED  BY <3>1, <3>2 DEF TypeOK, BasesOK
    <2>5. \/ UNCHANGED vars \/ Others \/ ClearZone \/ ClearDone
      BY DEF ExitNext, exitVars, vars, Leave, Interrupt, ReportZone, Tell,
             AfterReport, GetLost
    <2>. QED  BY <2>1, <2>2, <2>3, <2>4, <2>5
  <1>. QED  BY <1>1, <1>2, PTL DEF ExitSpec

(* show_alloc_mem shows every zone once, in ascending address order, and   *)
(* then stops, in whatever order the list is left, and whatever paths that *)
(* lose track of a block have run: for every program, also one for which   *)
(* SizesAgree does not hold.                                               *)
THEOREM ShowsEachZoneOnceCorrect == ExitSpec => []ShowsEachZoneOnce
  <1>1. TypeOK /\ BasesOK(pool) => ShowsEachZoneOnce
    BY ShownInOrder DEF TypeOK
  <1>. QED  BY <1>1, ZonesApartToTheEnd, PTL

-----------------------------------------------------------------------------
(* Sums over finite sets                                                   *)

(* What MapThenSumSet computes, with a function in the place of its        *)
(* operator: the sum over each subset, from that of the subset without the *)
(* element chosen first.                                                   *)
Chosen(s) == CHOOSE x \in s : TRUE

SumsUp(G, D, g) ==
  g = [s \in D |-> IF s = {} THEN 0 ELSE G[Chosen(s)] + g[s \ {Chosen(s)}]]

(* A solution on the subsets of a set, and the sum over the set.           *)
Solves(G, S, g) == SumsUp(G, SUBSET S, g)

SumOf(G, S) == (CHOOSE g : Solves(G, S, g))[S]

(* A function that gives natural numbers on a set.                         *)
NatOn(G, S) == \A x \in S : G[x] \in Nat

(* The element chosen is one of the set.                                   *)
LEMMA ChosenIn ==
  ASSUME NEW s, s # {}
  PROVE  Chosen(s) \in s
  BY DEF Chosen

(* Among subsets of a finite set there is one with fewest elements.        *)
LEMMA LeastSet ==
  ASSUME NEW S, IsFiniteSet(S), NEW Q \in SUBSET (SUBSET S), Q # {}
  PROVE  \E s \in Q : /\ IsFiniteSet(s)
                     /\ \A t \in Q : Cardinality(s) <= Cardinality(t)
  <1>1. \A s \in Q : IsFiniteSet(s) /\ Cardinality(s) \in Nat
    BY FS_Subset, FS_CardinalityType
  <1>2. {Cardinality(s) : s \in Q} \in SUBSET Nat /\ {Cardinality(s) : s \in Q} # {}
    BY <1>1
  <1>3. \E n \in {Cardinality(s) : s \in Q} :
          \A m \in {Cardinality(s) : s \in Q} : n <= m
    BY <1>2, LeastNumber
  <1>. QED  BY <1>1, <1>3

(* A subset without one of its elements is a smaller one.                  *)
LEMMA SmallerSet ==
  ASSUME NEW S, IsFiniteSet(S), NEW s \in SUBSET S, NEW x \in s
  PROVE  /\ s \ {x} \in SUBSET S
         /\ Cardinality(s \ {x}) \in Nat /\ Cardinality(s) \in Nat
         /\ Cardinality(s) = Cardinality(s \ {x}) + 1
  <1>1. IsFiniteSet(s)  BY FS_Subset
  <1>2. /\ Cardinality(s) \in Nat
        /\ IsFiniteSet(s \ {x}) /\ Cardinality(s \ {x}) = Cardinality(s) - 1
    BY <1>1, FS_CardinalityType, FS_RemoveElement
  <1>3. Cardinality(s \ {x}) \in Nat  BY <1>2, FS_CardinalityType
  <1>. QED  BY <1>2, <1>3

(* The recursion has a solution on the subsets of a finite set: on those   *)
(* of up to n elements, for every n.                                       *)
LEMMA SumsExist ==
  ASSUME NEW G, NEW S, IsFiniteSet(S)
  PROVE  \E g : Solves(G, S, g)
  <1> DEFINE Small(n) == {s \in SUBSET S : Cardinality(s) <= n}
             Bad == {n \in Nat : ~\E g : SumsUp(G, Small(n), g)}
  <1>1. \A s \in SUBSET S : IsFiniteSet(s) /\ Cardinality(s) \in Nat
    BY FS_Subset, FS_CardinalityType
  <1>2. ASSUME NEW n \in Nat, NEW s \in Small(n), s # {}
        PROVE  s \ {Chosen(s)} \in Small(n) /\ s \ {Chosen(s)} \in Small(n - 1)
    <2>1. Chosen(s) \in s  BY <1>2, ChosenIn
    <2>2. s \in SUBSET S /\ Cardinality(s) <= n  OBVIOUS
    <2>3. /\ s \ {Chosen(s)} \in SUBSET S
          /\ Cardinality(s \ {Chosen(s)}) \in Nat
          /\ Cardinality(s) = Cardinality(s \ {Chosen(s)}) + 1
      BY <2>1, <2>2, SmallerSet
    <2>. QED  BY <2>2, <2>3
  <1>3. ASSUME NEW n \in Nat, NEW g, n = 0 \/ SumsUp(G, Small(n - 1), g)
        PROVE  \E h : SumsUp(G, Small(n), h)
    <2> DEFINE h == [s \in Small(n) |->
                      IF s = {} THEN 0 ELSE G[Chosen(s)] + g[s \ {Chosen(s)}]]
    <2>1. ASSUME NEW s \in Small(n), s # {}
          PROVE  h[s \ {Chosen(s)}] = g[s \ {Chosen(s)}]
      <3> DEFINE t == s \ {Chosen(s)}
      <3>1. t \in Small(n) /\ t \in Small(n - 1)  BY <1>2, <2>1
      <3>2. n # 0
        <4>1. Cardinality(t) \in Nat /\ Cardinality(t) <= n - 1
          BY <1>1, <3>1
        <4>. QED  BY <4>1
      <3>3. SumsUp(G, Small(n - 1), g)  BY <1>3, <3>2
      <3> HIDE DEF t
      <3>4. g[t] = IF t = {} THEN 0 ELSE G[Chosen(t)] + g[t \ {Chosen(t)}]
        BY <3>1, <3>3 DEF SumsUp
      <3>5. h[t] = IF t = {} THEN 0 ELSE G[Chosen(t)] + g[t \ {Chosen(t)}]
        BY <3>1
      <3>. QED  BY <3>4, <3>5 DEF t
    <2>2. h = [s \in Small(n) |->
                IF s = {} THEN 0 ELSE G[Chosen(s)] + h[s \ {Chosen(s)}]]
      BY <2>1
    <2> HIDE DEF h
    <2>. QED  BY <2>2 DEF SumsUp
  <1>4. ASSUME Bad # {} PROVE FALSE
    <2>1. PICK n \in Bad : \A m \in Bad : n <= m
      <3>1. Bad \in SUBSET Nat  OBVIOUS
      <3> HIDE DEF Bad
      <3>. QED  BY <1>4, <3>1, LeastNumber
    <2>2. n \in Nat /\ ~\E g : SumsUp(G, Small(n), g)  OBVIOUS
    <2>3. n # 0  BY <1>3, <2>2
    <2>4. n - 1 \in Nat /\ ~(n <= n - 1)  BY <2>2, <2>3
    <2>5. PICK g : SumsUp(G, Small(n - 1), g)  BY <2>1, <2>4
    <2> HIDE DEF Small
    <2>. QED  BY <1>3, <2>2, <2>5
  <1>5. Cardinality(S) \in Nat /\ Small(Cardinality(S)) = SUBSET S
    <2>1. S \in SUBSET S  OBVIOUS
    <2>2. \A s \in SUBSET S : Cardinality(s) <= Cardinality(S)
      BY FS_Subset
    <2>. QED  BY <1>1, <2>1, <2>2
  <1>6. \E g : SumsUp(G, Small(Cardinality(S)), g)
    <2>1. Cardinality(S) \notin Bad
      <3> HIDE DEF Bad
      <3>. QED  BY <1>4
    <2> HIDE DEF Small
    <2>. QED  BY <1>5, <2>1
  <1> HIDE DEF Small
  <1>. QED  BY <1>5, <1>6 DEF Solves

(* Solutions on the subsets of two sets agree on what is a subset of both. *)
LEMMA SumsAgree ==
  ASSUME NEW S, IsFiniteSet(S), NEW T, IsFiniteSet(T), NEW R \in SUBSET S,
         R \in SUBSET T, NEW G,
         NEW g, Solves(G, S, g), NEW h, Solves(G, T, h)
  PROVE  g[R] = h[R]
  <1> DEFINE Bad == {s \in SUBSET R : g[s] # h[s]}
  <1>1. \A s \in SUBSET R :
          /\ g[s] = IF s = {} THEN 0 ELSE G[Chosen(s)] + g[s \ {Chosen(s)}]
          /\ h[s] = IF s = {} THEN 0 ELSE G[Chosen(s)] + h[s \ {Chosen(s)}]
    BY DEF Solves, SumsUp
  <1>2. IsFiniteSet(R)  BY FS_Subset
  <1>3. ASSUME Bad # {} PROVE FALSE
    <2>1. PICK s \in Bad : \A t \in Bad : Cardinality(s) <= Cardinality(t)
      <3>1. Bad \in SUBSET (SUBSET R)  OBVIOUS
      <3> HIDE DEF Bad
      <3>. QED  BY <1>2, <1>3, <3>1, LeastSet
    <2>2. s \in SUBSET R /\ g[s] # h[s]  OBVIOUS
    <2>3. s # {}  BY <1>1, <2>2
    <2>4. Chosen(s) \in s  BY <2>3, ChosenIn
    <2> DEFINE t == s \ {Chosen(s)}
    <2>5. /\ t \in SUBSET R /\ Cardinality(t) \in Nat
          /\ Cardinality(s) = Cardinality(t) + 1
      BY <1>2, <2>2, <2>4, SmallerSet
    <2>6. ~(Cardinality(s) <= Cardinality(t))  BY <2>5
    <2>7. g[t] = h[t]  BY <2>1, <2>5, <2>6
    <2>. QED  BY <1>1, <2>2, <2>3, <2>7
  <1>. QED  BY <1>3


(* A solution adds up whichever element is taken out last.                 *)
Additive(G, S, g) ==
  \A s \in SUBSET S : g[s] \in Nat /\ \A x \in s : g[s] = G[x] + g[s \ {x}]

(* It does on each subset as well.                                         *)
LEMMA NatOnSubset ==
  ASSUME NEW G, NEW S, NatOn(G, S), NEW R \in SUBSET S
  PROVE  NatOn(G, R)
  BY DEF NatOn

(* The sum of natural numbers is one, whatever element is added last.      *)
LEMMA SumStep ==
  ASSUME NEW S, IsFiniteSet(S), NEW G, NatOn(G, S),
         NEW g, Solves(G, S, g)
  PROVE  Additive(G, S, g)
  <1> DEFINE Bad == {s \in SUBSET S :
                       ~(g[s] \in Nat /\ \A x \in s : g[s] = G[x] + g[s \ {x}])}
  <1>1. \A s \in SUBSET S :
          g[s] = IF s = {} THEN 0 ELSE G[Chosen(s)] + g[s \ {Chosen(s)}]
    BY DEF Solves, SumsUp
  <1>2. \A x \in S : G[x] \in Nat  BY DEF NatOn
  <1>3. ASSUME Bad # {} PROVE FALSE
    <2>1. PICK s \in Bad : \A t \in Bad : Cardinality(s) <= Cardinality(t)
      <3>1. Bad \in SUBSET (SUBSET S)  OBVIOUS
      <3> HIDE DEF Bad
      <3>. QED  BY <1>3, <3>1, LeastSet
    <2>2. s \in SUBSET S  OBVIOUS
    <2>3. ASSUME NEW x \in s
          PROVE  /\ s \ {x} \in SUBSET S /\ g[s \ {x}] \in Nat
                 /\ \A y \in s \ {x} : g[s \ {x}] = G[y] + g[(s \ {x}) \ {y}]
      <3> DEFINE t == s \ {x}
      <3>1. /\ t \in SUBSET S /\ Cardinality(t) \in Nat
            /\ Cardinality(s) = Cardinality(t) + 1
        BY <2>2, SmallerSet
      <3>2. ~(Cardinality(s) <= Cardinality(t))  BY <3>1
      <3>3. t \notin Bad  BY <2>1, <3>2
      <3>. QED  BY <3>1, <3>3
    <2>4. ASSUME s = {} PROVE FALSE
      <3>1. g[s] = 0  BY <1>1, <2>2, <2>4
      <3>. QED  BY <2>2, <2>4, <3>1
    <2> DEFINE c == Chosen(s)
    <2>5. c \in s /\ c \in S  BY <2>2, <2>4, ChosenIn
    <2>6. g[s] = G[c] + g[s \ {c}]  BY <1>1, <2>2, <2>4
    <2> HIDE DEF c
    <2>7. g[s] \in Nat  BY <1>2, <2>3, <2>5, <2>6
    <2>8. ASSUME NEW x \in s PROVE g[s] = G[x] + g[s \ {x}]
      <3>1. CASE x = c  BY <2>6, <3>1
      <3>2. CASE x # c
        <4>1. x \in s \ {c} /\ c \in s \ {x}  BY <2>5, <3>2
        <4>2. g[s \ {c}] = G[x] + g[(s \ {c}) \ {x}]  BY <2>3, <2>5, <4>1
        <4>3. g[s \ {x}] = G[c] + g[(s \ {x}) \ {c}]  BY <2>3, <4>1
        <4>4. (s \ {c}) \ {x} = (s \ {x}) \ {c}  OBVIOUS
        <4>5. g[(s \ {c}) \ {x}] \in Nat
          <5>1. (s \ {c}) \ {x} \in SUBSET S  BY <2>2
          <5> DEFINE u == (s \ {c}) \ {x}
          <5>2. /\ Cardinality(s \ {c}) \in Nat
                /\ Cardinality(s) = Cardinality(s \ {c}) + 1
            BY <2>2, <2>5, SmallerSet
          <5>3. s \ {c} \in SUBSET S  BY <2>2
          <5>4. /\ Cardinality(u) \in Nat
                /\ Cardinality(s \ {c}) = Cardinality(u) + 1
            BY <4>1, <5>3, SmallerSet
          <5>5. ~(Cardinality(s) <= Cardinality(u))
            <6> HIDE DEF u
            <6>. QED  BY <5>2, <5>4
          <5>6. u \notin Bad  BY <2>1, <5>5
          <5>. QED  BY <5>1, <5>6
        <4>6. G[x] \in Nat /\ G[c] \in Nat  BY <1>2, <2>2, <2>5
        <4> DEFINE rest == g[(s \ {c}) \ {x}]
        <4>7. g[s \ {c}] = G[x] + rest /\ g[s \ {x}] = G[c] + rest /\ rest \in Nat
          BY <4>2, <4>3, <4>4, <4>5
        <4> HIDE DEF rest
        <4>. QED  BY <2>6, <4>6, <4>7
      <3>. QED  BY <3>1, <3>2
    <2>. QED  BY <2>2, <2>7, <2>8
  <1>. QED  BY <1>3 DEF Additive

(* Any solution on the subsets of a set gives the sum over each of them.   *)
LEMMA SumOfSolution ==
  ASSUME NEW S, IsFiniteSet(S), NEW G, NEW R \in SUBSET S,
         NEW g, Solves(G, S, g)
  PROVE  SumOf(G, R) = g[R]
  <1>1. IsFiniteSet(R)  BY FS_Subset
  <1>2. Solves(G, R, CHOOSE h : Solves(G, R, h))
    BY <1>1, SumsExist
  <1> DEFINE h == CHOOSE h : Solves(G, R, h)
  <1>3. Solves(G, R, h) /\ SumOf(G, R) = h[R]  BY <1>2 DEF SumOf
  <1> HIDE DEF h
  <1>4. h[R] = g[R]
    <2>1. R \in SUBSET R  OBVIOUS
    <2>. QED  BY <1>1, <1>3, <2>1, SumsAgree
  <1>. QED  BY <1>3, <1>4

(* The same of SumOf.                                                      *)
LEMMA SumOfStep ==
  ASSUME NEW S, IsFiniteSet(S), NEW G, NatOn(G, S)
  PROVE  /\ SumOf(G, {}) = 0
         /\ SumOf(G, S) \in Nat
         /\ \A x \in S : SumOf(G, S) = G[x] + SumOf(G, S \ {x})
  <1>1. PICK g : Solves(G, S, g)  BY SumsExist
  <1>2. S \in SUBSET S /\ {} \in SUBSET S /\ \A x \in S : S \ {x} \in SUBSET S
    OBVIOUS
  <1>3. \A s \in SUBSET S : SumOf(G, s) = g[s]  BY <1>1, SumOfSolution
  <1>4. g[{}] = 0  BY <1>1, <1>2 DEF Solves, SumsUp
  <1>5. \A s \in SUBSET S :
          g[s] \in Nat /\ \A x \in s : g[s] = G[x] + g[s \ {x}]
    <2>1. Additive(G, S, g)  BY <1>1, SumStep
    <2>. QED  BY <2>1 DEF Additive
  <1>. QED  BY <1>2, <1>3, <1>4, <1>5

(* The sum over two sets without a common element.                         *)
LEMMA SumOfUnion ==
  ASSUME NEW S, IsFiniteSet(S), NEW T, IsFiniteSet(T), S \cap T = {},
         NEW G, NatOn(G, S \cup T)
  PROVE  SumOf(G, S \cup T) = SumOf(G, S) + SumOf(G, T)
  <1> DEFINE Bad == {t \in SUBSET T :
                       SumOf(G, S \cup t) # SumOf(G, S) + SumOf(G, t)}
  <1>1. ASSUME Bad # {} PROVE FALSE
    <2>1. PICK t \in Bad : /\ IsFiniteSet(t)
                           /\ \A u \in Bad : Cardinality(t) <= Cardinality(u)
      <3>1. Bad \in SUBSET (SUBSET T)  OBVIOUS
      <3> HIDE DEF Bad
      <3>. QED  BY <1>1, <3>1, LeastSet
    <2>2. t \in SUBSET T /\ SumOf(G, S \cup t) # SumOf(G, S) + SumOf(G, t)
      OBVIOUS
    <2>3. /\ SumOf(G, {}) = 0 /\ SumOf(G, S) \in Nat
      <3>1. S \in SUBSET (S \cup T)  OBVIOUS
      <3>2. NatOn(G, S)  BY <3>1, NatOnSubset
      <3>. QED  BY <3>2, SumOfStep
    <2>4. t # {}
      <3>1. ASSUME t = {} PROVE FALSE
        <4>1. S \cup t = S  BY <3>1
        <4>. QED  BY <2>2, <2>3, <3>1, <4>1
      <3>. QED  BY <3>1
    <2>5. PICK x \in t : TRUE  BY <2>4
    <2> DEFINE u == t \ {x}
    <2>6. /\ u \in SUBSET T /\ Cardinality(u) \in Nat
          /\ Cardinality(t) = Cardinality(u) + 1
      BY <2>2, SmallerSet
    <2>7. ~(Cardinality(t) <= Cardinality(u))
      <3> HIDE DEF u
      <3>. QED  BY <2>6
    <2>8. SumOf(G, S \cup u) = SumOf(G, S) + SumOf(G, u)  BY <2>1, <2>6, <2>7
    <2>9. /\ IsFiniteSet(S \cup t) /\ x \in S \cup t /\ (S \cup t) \ {x} = S \cup u
          /\ NatOn(G, S \cup t) /\ NatOn(G, t) /\ NatOn(G, u)
      <3>1. IsFiniteSet(S \cup t)  BY <2>1, FS_Union
      <3>2. /\ S \cup t \in SUBSET (S \cup T) /\ t \in SUBSET (S \cup T)
            /\ u \in SUBSET (S \cup T)
        BY <2>2
      <3>3. NatOn(G, S \cup t) /\ NatOn(G, t) /\ NatOn(G, u)
        BY <3>2, NatOnSubset
      <3>. QED  BY <2>2, <3>1, <3>3
    <2>10. SumOf(G, S \cup t) = G[x] + SumOf(G, S \cup u)  BY <2>9, SumOfStep
    <2>11. SumOf(G, t) = G[x] + SumOf(G, u)
      BY <2>1, <2>9, SumOfStep
    <2>12. SumOf(G, u) \in Nat /\ G[x] \in Nat
      <3>1. IsFiniteSet(u)  BY <2>6, FS_Subset
      <3>2. SumOf(G, u) \in Nat  BY <2>9, <3>1, SumOfStep
      <3>. QED  BY <2>9, <3>2 DEF NatOn
    <2> HIDE DEF u
    <2>. QED  BY <2>2, <2>3, <2>8, <2>10, <2>11, <2>12
  <1>2. T \in SUBSET T  OBVIOUS
  <1>. QED  BY <1>1, <1>2

(* The sum is that over an image under an injection.                       *)
LEMMA SumOfImage ==
  ASSUME NEW S, IsFiniteSet(S), NEW T, NEW f \in Bijection(S, T),
         NEW G, NEW H, \A x \in S : G[x] \in Nat /\ H[f[x]] = G[x]
  PROVE  SumOf(H, T) = SumOf(G, S)
  <1> DEFINE Image(s) == {y \in T : \E x \in s : f[x] = y}
             Bad == {s \in SUBSET S : SumOf(H, Image(s)) # SumOf(G, s)}
  <1>1. /\ \A x \in S : f[x] \in T
        /\ \A x, y \in S : f[x] = f[y] => x = y
        /\ \A y \in T : \E x \in S : f[x] = y
    BY DEF Bijection, Injection, Surjection, IsInjective
  <1>2. IsFiniteSet(T)  BY FS_Bijection DEF ExistsBijection
  <1>3. ASSUME Bad # {} PROVE FALSE
    <2>1. PICK s \in Bad : /\ IsFiniteSet(s)
                           /\ \A t \in Bad : Cardinality(s) <= Cardinality(t)
      <3>1. Bad \in SUBSET (SUBSET S)  OBVIOUS
      <3> HIDE DEF Bad
      <3>. QED  BY <1>3, <3>1, LeastSet
    <2>2. s \in SUBSET S /\ SumOf(H, Image(s)) # SumOf(G, s)
      OBVIOUS
    <2>3. s # {}
      <3>1. ASSUME s = {} PROVE FALSE
        <4>1. Image(s) = {}  BY <3>1
        <4>2. IsFiniteSet({})  BY FS_EmptySet
        <4>3. NatOn(G, {}) /\ NatOn(H, {})  BY DEF NatOn
        <4>4. SumOf(H, {}) = 0 /\ SumOf(G, {}) = 0  BY <4>2, <4>3, SumOfStep
        <4>. QED  BY <2>2, <3>1, <4>1, <4>4
      <3>. QED  BY <3>1
    <2>4. PICK x \in s : TRUE  BY <2>3
    <2> DEFINE t == s \ {x}
    <2>5. /\ t \in SUBSET S /\ Cardinality(t) \in Nat
          /\ Cardinality(s) = Cardinality(t) + 1
      BY <2>2, SmallerSet
    <2>6. ~(Cardinality(s) <= Cardinality(t))
      <3> HIDE DEF t
      <3>. QED  BY <2>5
    <2>7. SumOf(H, Image(t)) = SumOf(G, t)  BY <2>1, <2>5, <2>6
    <2>8. Image(s) \ {f[x]} = Image(t) /\ f[x] \in Image(s)
      BY <1>1, <2>2, <2>4
    <2>9. IsFiniteSet(Image(s)) /\ NatOn(H, Image(s)) /\ NatOn(G, s)
      <3>1. Image(s) \in SUBSET T  OBVIOUS
      <3>2. IsFiniteSet(Image(s))  BY <1>2, <3>1, FS_Subset
      <3>. QED  BY <2>2, <3>2 DEF NatOn
    <2>10. SumOf(H, Image(s)) = H[f[x]] + SumOf(H, Image(t))
      <3> DEFINE im == Image(s)
                 y == f[x]
      <3>1. y \in im /\ im \ {y} = Image(t)  BY <2>8
      <3>2. IsFiniteSet(im) /\ NatOn(H, im)  BY <2>9
      <3> HIDE DEF im, y
      <3>3. SumOf(H, im) = H[y] + SumOf(H, im \ {y})  BY <3>1, <3>2, SumOfStep
      <3> HIDE DEF Image, t
      <3>. QED  BY <3>1, <3>3 DEF im, y
    <2>11. SumOf(G, s) = G[x] + SumOf(G, t)
      BY <2>1, <2>9, SumOfStep
    <2>. QED  BY <2>2, <2>4, <2>7, <2>10, <2>11
  <1>4. S \in SUBSET S /\ Image(S) = T  BY <1>1
  <1> HIDE DEF Image
  <1>. QED  BY <1>3, <1>4


(* What MapThenSumSet computes is such a sum.                              *)
LEMMA ListedBytesIsSum ==
  ASSUME NEW allocs, IsFiniteSet(DOMAIN allocs)
  PROVE  ListedBytes(allocs)
           = SumOf([j \in DOMAIN allocs |-> allocs[j].cap], DOMAIN allocs)
  <1> DEFINE G == [j \in DOMAIN allocs |-> allocs[j].cap]
             S == DOMAIN allocs
             Eq(g) == g = [s \in SUBSET S |->
                             IF s = {} THEN 0
                             ELSE LET x == CHOOSE x \in s : TRUE
                                  IN  allocs[x].cap + g[s \ {x}]]
             iter == CHOOSE g : Eq(g)
  <1>1. ListedBytes(allocs) = iter[S]
    BY DEF ListedBytes, MapThenSumSet, MapThenFoldSet
  <1>2. ASSUME NEW g PROVE Eq(g) <=> Solves(G, S, g)
    <2>1. \A s \in SUBSET S : s # {} => G[Chosen(s)] = allocs[Chosen(s)].cap
      BY ChosenIn
    <2> HIDE DEF G
    <2>2. \A s \in SUBSET S :
            (IF s = {} THEN 0
             ELSE LET x == CHOOSE x \in s : TRUE IN allocs[x].cap + g[s \ {x}])
            = IF s = {} THEN 0 ELSE G[Chosen(s)] + g[s \ {Chosen(s)}]
      BY <2>1 DEF Chosen
    <2>. QED  BY <2>2 DEF Solves, SumsUp
  <1>3. \E g : Eq(g)
    <2> HIDE DEF Eq, G, S
    <2>1. \E g : Solves(G, S, g)  BY SumsExist DEF S
    <2>. QED  BY <1>2, <2>1
  <1>4. Solves(G, S, iter)
    <2> HIDE DEF Eq, G, S
    <2>1. Eq(iter)  BY <1>3
    <2> HIDE DEF iter
    <2>. QED  BY <1>2, <2>1
  <1> HIDE DEF iter, G
  <1>5. S \in SUBSET S  OBVIOUS
  <1>6. SumOf(G, S) = iter[S]  BY <1>4, <1>5, SumOfSolution
  <1>. QED  BY <1>1, <1>6 DEF G

(* The same of the sizes of what the client owns.                          *)
LEMMA OwnedBytesIsSum ==
  ASSUME IsFiniteSet(Owned)
  PROVE  MapThenSumSet(LAMBDA o : o[2].size, Owned)
           = SumOf([o \in Owned |-> o[2].size], Owned)
  <1> DEFINE G == [o \in Owned |-> o[2].size]
             S == Owned
             Eq(g) == g = [s \in SUBSET S |->
                             IF s = {} THEN 0
                             ELSE LET x == CHOOSE x \in s : TRUE
                                  IN  x[2].size + g[s \ {x}]]
             iter == CHOOSE g : Eq(g)
  <1>1. MapThenSumSet(LAMBDA o : o[2].size, Owned) = iter[S]
    BY DEF MapThenSumSet, MapThenFoldSet
  <1>2. ASSUME NEW g PROVE Eq(g) <=> Solves(G, S, g)
    <2>1. \A s \in SUBSET S : s # {} => G[Chosen(s)] = Chosen(s)[2].size
      BY ChosenIn
    <2> HIDE DEF G
    <2>2. \A s \in SUBSET S :
            (IF s = {} THEN 0
             ELSE LET x == CHOOSE x \in s : TRUE IN x[2].size + g[s \ {x}])
            = IF s = {} THEN 0 ELSE G[Chosen(s)] + g[s \ {Chosen(s)}]
      BY <2>1 DEF Chosen
    <2>. QED  BY <2>2 DEF Solves, SumsUp
  <1>3. \E g : Eq(g)
    <2> HIDE DEF Eq, G, S
    <2>1. \E g : Solves(G, S, g)  BY SumsExist DEF S
    <2>. QED  BY <1>2, <2>1
  <1>4. Solves(G, S, iter)
    <2> HIDE DEF Eq, G, S
    <2>1. Eq(iter)  BY <1>3
    <2> HIDE DEF iter
    <2>. QED  BY <1>2, <2>1
  <1> HIDE DEF iter, G
  <1>5. S \in SUBSET S  OBVIOUS
  <1>6. SumOf(G, S) = iter[S]  BY <1>4, <1>5, SumOfSolution
  <1>. QED  BY <1>1, <1>6 DEF G


-----------------------------------------------------------------------------
(* The figures of the leak report                                          *)

(* The places of the blocks of a zone, and of the zones in front of a      *)
(* position; what the lists say of the size of the block at a place.       *)
Row(p, m) == {<<m, j>> : j \in DOMAIN p[m].allocs}

Places(p, k) == UNION {Row(p, m) : m \in {n \in DOMAIN p : n < k}}

Caps(p) == [e \in Places(p, Len(p) + 1) |-> p[e[1]].allocs[e[2]].cap]

(* All places of a list of zones.                                          *)
LEMMA PlaceOf ==
  ASSUME NEW p \in Seq(Zone), NEW e
  PROVE  e \in Places(p, Len(p) + 1)
           <=> \E m \in DOMAIN p : \E j \in DOMAIN p[m].allocs : e = <<m, j>>
  <1>1. \A n \in DOMAIN p : n < Len(p) + 1  BY LenProperties
  <1>. QED  BY <1>1 DEF Places, Row

(* One row of places.                                                      *)
LEMMA RowOf ==
  ASSUME NEW p \in Seq(Zone), NEW k \in DOMAIN p
  PROVE  /\ IsFiniteSet(Row(p, k))
         /\ Cardinality(Row(p, k)) = Len(p[k].allocs)
         /\ SumOf(Caps(p), Row(p, k)) = ListedBytes(p[k].allocs)
         /\ Len(p[k].allocs) \in Nat
  <1>1. p[k] \in Zone  BY LenProperties, ElementOfSeq
  <1> DEFINE allocs == p[k].allocs
             D == DOMAIN allocs
             G == [j \in D |-> allocs[j].cap]
             f == [j \in D |-> <<k, j>>]
             R == Row(p, k)
  <1>2. allocs \in Seq(Alloc)  BY <1>1 DEF Zone
  <1>3. Len(allocs) \in Nat /\ D = 1..Len(allocs)
    <2> HIDE DEF allocs
    <2>. QED  BY <1>2, LenProperties
  <1>4. IsFiniteSet(D) /\ Cardinality(D) = Len(allocs)
    <2> HIDE DEF allocs, D
    <2>1. 1 \in Int /\ Len(allocs) \in Int  BY <1>3
    <2>2. IsFiniteSet(D) /\ Cardinality(D)
            = IF 1 > Len(allocs) THEN 0 ELSE Len(allocs) - 1 + 1
      BY <1>3, <2>1, FS_Interval
    <2>. QED  BY <1>3, <2>2
  <1>5. f \in Bijection(D, R)
    BY DEF Row, Bijection, Injection, Surjection, IsInjective
  <1>6. IsFiniteSet(R) /\ Cardinality(R) = Cardinality(D)
    <2> HIDE DEF D, R, f
    <2>. QED  BY <1>4, <1>5, FS_Bijection DEF ExistsBijection
  <1>7. \A j \in D : G[j] \in Nat
    <2>1. \A j \in DOMAIN allocs : allocs[j] \in Alloc
      <3> HIDE DEF allocs
      <3>. QED  BY <1>2, LenProperties, ElementOfSeq
    <2>. QED  BY <2>1 DEF Alloc
  <1>8. \A j \in D : Caps(p)[f[j]] = G[j]
    <2> SUFFICES ASSUME NEW j \in D PROVE Caps(p)[f[j]] = G[j]  OBVIOUS
    <2>1. <<k, j>> \in Places(p, Len(p) + 1)  BY PlaceOf
    <2>2. Caps(p)[<<k, j>>] = p[<<k, j>>[1]].allocs[<<k, j>>[2]].cap
      BY <2>1 DEF Caps
    <2>. QED  BY <2>2
  <1>9. SumOf(Caps(p), R) = SumOf(G, D)
    <2> HIDE DEF D, R, f, G
    <2>. QED  BY <1>4, <1>5, <1>7, <1>8, SumOfImage
  <1>10. ListedBytes(allocs) = SumOf(G, D)
    <2> HIDE DEF allocs
    <2>. QED  BY <1>4, ListedBytesIsSum
  <1>. QED  BY <1>3, <1>4, <1>6, <1>9, <1>10

(* There are finitely many places, and each has a size.                    *)
LEMMA PlacesFinite ==
  ASSUME NEW p \in Seq(Zone)
  PROVE  /\ \A k : IsFiniteSet(Places(p, k))
         /\ \A k : NatOn(Caps(p), Places(p, k))
         /\ \A k : Places(p, k) \subseteq Places(p, Len(p) + 1)
  <1> DEFINE D == DOMAIN p
             Rows == {Row(p, m) : m \in D}
             f == [m \in D |-> Row(p, m)]
  <1>1. IsFiniteSet(D)
    <2>1. D = 1..Len(p) /\ 1 \in Int /\ Len(p) \in Int  BY LenProperties
    <2>. QED  BY <2>1, FS_Interval
  <1>2. f \in Surjection(D, Rows)  BY DEF Surjection
  <1>3. IsFiniteSet(Rows)
    <2> HIDE DEF D, Rows, f
    <2>. QED  BY <1>1, <1>2, FS_Surjection
  <1>4. \A r \in Rows : IsFiniteSet(r)  BY RowOf
  <1>5. IsFiniteSet(UNION Rows)
    <2> HIDE DEF Rows
    <2>. QED  BY <1>3, <1>4, FS_UNION
  <1>6. \A k : Places(p, k) \subseteq UNION Rows  BY DEF Places
  <1>7. \A k : IsFiniteSet(Places(p, k))
    <2> HIDE DEF Rows
    <2>. QED  BY <1>5, <1>6, FS_Subset
  <1>8. \A k : Places(p, k) \subseteq Places(p, Len(p) + 1)
    <2>1. \A n \in DOMAIN p : n < Len(p) + 1  BY LenProperties
    <2>. QED  BY <2>1 DEF Places
  <1>9. ASSUME NEW e \in Places(p, Len(p) + 1) PROVE Caps(p)[e] \in Nat
    <2>1. PICK m \in DOMAIN p : \E j \in DOMAIN p[m].allocs : e = <<m, j>>
      BY PlaceOf
    <2>2. PICK j \in DOMAIN p[m].allocs : e = <<m, j>>  BY <2>1
    <2>3. p[m] \in Zone  BY LenProperties, ElementOfSeq
    <2>4. p[m].allocs[j] \in Alloc
      <3>1. p[m].allocs \in Seq(Alloc)  BY <2>3 DEF Zone
      <3>. QED  BY <3>1, LenProperties, ElementOfSeq
    <2>5. Caps(p)[e] = p[m].allocs[j].cap  BY <2>2 DEF Caps
    <2>. QED  BY <2>4, <2>5 DEF Alloc
  <1>10. \A k : NatOn(Caps(p), Places(p, k))  BY <1>8, <1>9 DEF NatOn
  <1>. QED  BY <1>7, <1>8, <1>10

(* A zone adds its row to the places in front.                             *)
LEMMA PlacesStep ==
  ASSUME NEW p \in Seq(Zone), NEW k \in DOMAIN p
  PROVE  /\ Cardinality(Places(p, k + 1))
              = Cardinality(Places(p, k)) + Len(p[k].allocs)
         /\ SumOf(Caps(p), Places(p, k + 1))
              = SumOf(Caps(p), Places(p, k)) + ListedBytes(p[k].allocs)
  <1> DEFINE A == Places(p, k)
             R == Row(p, k)
  <1>1. /\ \A n \in DOMAIN p : n \in Nat
        /\ k \in Nat
    BY LenProperties
  <1>2. \A n \in DOMAIN p : n < k + 1 <=> n < k \/ n = k  BY <1>1
  <1>3. Places(p, k + 1) = A \cup R  BY <1>2 DEF Places
  <1>4. A \cap R = {}
    <2>1. ~(k < k)  BY <1>1
    <2>. QED  BY <2>1 DEF Places, Row
  <1>5. /\ IsFiniteSet(A) /\ NatOn(Caps(p), A \cup R)
    BY <1>3, PlacesFinite
  <1>6. /\ IsFiniteSet(R) /\ Cardinality(R) = Len(p[k].allocs)
        /\ SumOf(Caps(p), R) = ListedBytes(p[k].allocs)
        /\ Len(p[k].allocs) \in Nat
    BY RowOf
  <1> HIDE DEF A, R
  <1>7. Cardinality(A \cup R) = Cardinality(A) + Cardinality(R)
    <2>1. Cardinality(A \cup R)
            = Cardinality(A) + Cardinality(R) - Cardinality(A \cap R)
      BY <1>5, <1>6, FS_Union
    <2>2. Cardinality(A \cap R) = 0  BY <1>4, FS_EmptySet
    <2>3. Cardinality(A) \in Nat /\ Cardinality(R) \in Nat
      BY <1>5, <1>6, FS_CardinalityType
    <2>. QED  BY <2>1, <2>2, <2>3
  <1>8. SumOf(Caps(p), A \cup R) = SumOf(Caps(p), A) + SumOf(Caps(p), R)
    BY <1>4, <1>5, <1>6, SumOfUnion
  <1>. QED  BY <1>3, <1>6, <1>7, <1>8 DEF A

(* There are none in front of the first zone.                              *)
LEMMA PlacesBegin ==
  ASSUME NEW p \in Seq(Zone)
  PROVE  Cardinality(Places(p, 1)) = 0 /\ SumOf(Caps(p), Places(p, 1)) = 0
  <1>1. \A n \in DOMAIN p : ~(n < 1)  BY LenProperties
  <1>2. Places(p, 1) = {}  BY <1>1 DEF Places
  <1>3. IsFiniteSet({}) /\ NatOn(Caps(p), {})  BY FS_EmptySet DEF NatOn
  <1>. QED  BY <1>2, <1>3, FS_EmptySet, SumOfStep


(* On a clean run in which no pointer was missed the places of the list    *)
(* and what the client owns are as many, of the same total size: both      *)
(* correspond one to one to the listed blocks.                             *)
LEMMA OwnedFigures ==
  ASSUME PoolOK, Tracked, OwnersSound, NothingLost
  PROVE  LET all == Places(pool, Len(pool) + 1) IN
         /\ Cardinality(all) = Cardinality(Owned)
         /\ SumOf(Caps(pool), all) = MapThenSumSet(LAMBDA o : o[2].size, Owned)
  <1> DEFINE P == Places(pool, Len(pool) + 1)
             B == PoolBlocks(pool)
             Size == [b \in B |-> b.size]
             S == [o \in Owned |-> o[2].size]
             f == [e \in P |-> BlockOf(pool[e[1]].allocs[e[2]])]
             g == [o \in Owned |-> o[2]]
  <1>1. /\ TypeOK /\ pool \in Seq(Zone) /\ Clean /\ "missed" \notin events
        /\ Fit(pool) /\ ZonesSized(pool) /\ PoolSound(pool, AllPages(pool))
    BY FitPool DEF PoolOK, TypeOK, Tracked, Fit
  <1>2. ZonesKept(pool, mapped, events)
    BY ZonesKeptParts DEF PoolOK
  <1>3. /\ \A b \in B : b \in [ptr: Nat, size: Nat \ {0}]
        /\ \A k, l \in DOMAIN pool : \A b \in ZoneBlocks(pool[k]) :
             b \in ZoneBlocks(pool[l]) => k = l
    BY <1>1, PoolBlocksApart
  <1>4. \A m \in DOMAIN pool : \A j \in DOMAIN pool[m].allocs :
          /\ <<m, j>> \in P
          /\ f[<<m, j>>] = BlockOf(pool[m].allocs[j])
          /\ f[<<m, j>>] \in ZoneBlocks(pool[m])
          /\ Caps(pool)[<<m, j>>] = pool[m].allocs[j].cap
    <2> SUFFICES ASSUME NEW m \in DOMAIN pool, NEW j \in DOMAIN pool[m].allocs
                 PROVE  /\ <<m, j>> \in P
                        /\ f[<<m, j>>] = BlockOf(pool[m].allocs[j])
                        /\ f[<<m, j>>] \in ZoneBlocks(pool[m])
                        /\ Caps(pool)[<<m, j>>] = pool[m].allocs[j].cap
      OBVIOUS
    <2>1. <<m, j>> \in P  BY <1>1, PlaceOf
    <2>2. <<m, j>>[1] = m /\ <<m, j>>[2] = j  OBVIOUS
    <2>3. f[<<m, j>>] = BlockOf(pool[m].allocs[j])
      <3> HIDE DEF P
      <3>. QED  BY <2>1, <2>2
    <2>4. Caps(pool)[<<m, j>>] = pool[m].allocs[j].cap
      BY <2>1, <2>2 DEF Caps
    <2>. QED  BY <2>1, <2>3, <2>4 DEF ZoneBlocks
  <1>5. \A e \in P : \E m \in DOMAIN pool : \E j \in DOMAIN pool[m].allocs :
          e = <<m, j>>
    BY <1>1, PlaceOf
  <1>6. \A m \in DOMAIN pool :
          pool[m] \in Zone /\ SizedZone(pool[m]) /\ RoomyZone(pool[m])
    BY <1>1, LenProperties, ElementOfSeq DEF ZonesSized, PoolSound
  <1>7. f \in Bijection(P, B)
    <2>1. \A e \in P : f[e] \in B
      <3> SUFFICES ASSUME NEW e \in P PROVE f[e] \in B  OBVIOUS
      <3> HIDE DEF f, P
      <3>. QED  BY <1>4, <1>5 DEF PoolBlocks
    <2>2. ASSUME NEW d \in P, NEW e \in P, f[d] = f[e] PROVE d = e
      <3> HIDE DEF f, P
      <3>1. PICK m \in DOMAIN pool : \E j \in DOMAIN pool[m].allocs : d = <<m, j>>
        BY <1>5
      <3>2. PICK j \in DOMAIN pool[m].allocs : d = <<m, j>>  BY <3>1
      <3>3. PICK n \in DOMAIN pool : \E i \in DOMAIN pool[n].allocs : e = <<n, i>>
        BY <1>5
      <3>4. PICK i \in DOMAIN pool[n].allocs : e = <<n, i>>  BY <3>3
      <3>5. m = n  BY <1>3, <1>4, <2>2, <3>2, <3>4
      <3>6. BlockOf(pool[m].allocs[j]) = BlockOf(pool[m].allocs[i])
        BY <1>4, <2>2, <3>2, <3>4, <3>5
      <3>7. i \in DOMAIN pool[m].allocs  BY <3>5
      <3>8. i = j  BY <1>6, <3>6, <3>7, RoomyApart
      <3>. QED  BY <3>2, <3>4, <3>5, <3>8
    <2>3. ASSUME NEW b \in B PROVE \E e \in P : f[e] = b
      <3>1. PICK m \in DOMAIN pool : b \in ZoneBlocks(pool[m])  BY DEF PoolBlocks
      <3>2. PICK j \in DOMAIN pool[m].allocs : b = BlockOf(pool[m].allocs[j])
        BY <3>1 DEF ZoneBlocks
      <3> HIDE DEF f, P
      <3>. QED  BY <1>4, <3>2
    <2>4. f \in [P -> B]
      <3>1. f = [e \in P |-> f[e]]  OBVIOUS
      <3> HIDE DEF f, P, B
      <3>. QED  BY <2>1, <3>1
    <2> HIDE DEF f, P, B
    <2>. QED
      BY <2>2, <2>3, <2>4 DEF Bijection, Injection, Surjection, IsInjective
  <1>8. \A e \in P : Caps(pool)[e] \in Nat /\ Size[f[e]] = Caps(pool)[e]
    <2> SUFFICES ASSUME NEW e \in P
                 PROVE  Caps(pool)[e] \in Nat /\ Size[f[e]] = Caps(pool)[e]
      OBVIOUS
    <2>1. NatOn(Caps(pool), P)  BY <1>1, PlacesFinite
    <2>2. Caps(pool)[e] \in Nat  BY <2>1 DEF NatOn
    <2> HIDE DEF f, P
    <2>3. PICK m \in DOMAIN pool : \E j \in DOMAIN pool[m].allocs : e = <<m, j>>
      BY <1>5
    <2>4. PICK j \in DOMAIN pool[m].allocs : e = <<m, j>>  BY <2>3
    <2>5. f[e] = BlockOf(pool[m].allocs[j]) /\ f[e] \in B
      BY <1>4, <2>4 DEF PoolBlocks
    <2>6. Size[f[e]] = pool[m].allocs[j].cap  BY <2>5 DEF BlockOf
    <2>. QED  BY <1>4, <2>2, <2>4, <2>6
  <1>9. IsFiniteSet(P)  BY <1>1, PlacesFinite
  <1>10. /\ SumOf(Size, B) = SumOf(Caps(pool), P)
         /\ IsFiniteSet(B) /\ Cardinality(B) = Cardinality(P)
    <2> HIDE DEF f, P, B, Size
    <2>1. SumOf(Size, B) = SumOf(Caps(pool), P)
      BY <1>7, <1>8, <1>9, SumOfImage
    <2>. QED  BY <1>7, <1>9, <2>1, FS_Bijection DEF ExistsBijection
  <1>11. g \in Bijection(Owned, B)
    <2>1. /\ \A o \in Owned : o[2] \in B
          /\ \A x, y \in Owned : x # y => x[2] # y[2]
      BY <1>1, OwnedBlocks
    <2>2. ASSUME NEW b \in B PROVE \E o \in Owned : o[2] = b
      <3>1. b \in ListedBlocks  BY ListedBlocksOfPool
      <3>2. \/ \E i \in Slots : held[i] = b
            \/ \E t \in Threads : calls[t].stage = "finish" /\ NewBlock(t) = b
        BY <1>1, <3>1 DEF NothingLost
      <3>3. CASE \E i \in Slots : held[i] = b
        <4>1. PICK i \in Slots : held[i] = b  BY <3>3
        <4>2. b # NoBlock  BY <1>3 DEF NoBlock
        <4>3. <<i, held[i]>> \in Owned  BY <4>1, <4>2 DEF Owned
        <4>. QED  BY <4>1, <4>3
      <3>4. CASE \E t \in Threads : calls[t].stage = "finish" /\ NewBlock(t) = b
        <4>1. PICK t \in Threads : calls[t].stage = "finish" /\ NewBlock(t) = b
          BY <3>4
        <4>2. t \in InFlight  BY <1>1, <1>2, <4>1, FinishIsInFlight
        <4>3. <<t, NewBlock(t)>> \in Owned  BY <4>2 DEF Owned, NewBlock
        <4>. QED  BY <4>1, <4>3
      <3>. QED  BY <3>2, <3>3, <3>4
    <2>3. g \in [Owned -> B]  BY <2>1
    <2>4. \A o \in Owned : g[o] = o[2]  OBVIOUS
    <2> HIDE DEF g, B
    <2>. QED
      BY <2>1, <2>2, <2>3, <2>4 DEF Bijection, Injection, Surjection, IsInjective
  <1>12. IsFiniteSet(Owned) /\ Cardinality(Owned) = Cardinality(B)
    <2> HIDE DEF g, B
    <2>1. g \in Injection(Owned, B)  BY <1>11 DEF Bijection
    <2>2. IsFiniteSet(Owned)  BY <1>10, <2>1, FS_Injection
    <2>. QED  BY <1>11, <2>2, FS_Bijection DEF ExistsBijection
  <1>13. \A o \in Owned : S[o] \in Nat /\ Size[g[o]] = S[o]
    <2> SUFFICES ASSUME NEW o \in Owned PROVE S[o] \in Nat /\ Size[g[o]] = S[o]
      OBVIOUS
    <2>1. o[2] \in B  BY <1>1, OwnedBlocks
    <2>2. o[2] \in [ptr: Nat, size: Nat \ {0}]  BY <1>3, <2>1
    <2>. QED  BY <2>1, <2>2
  <1>14. SumOf(Size, B) = SumOf(S, Owned)
    <2> HIDE DEF g, B, S, Size
    <2>. QED  BY <1>11, <1>12, <1>13, SumOfImage
  <1>15. MapThenSumSet(LAMBDA o : o[2].size, Owned) = SumOf(S, Owned)
    BY <1>12, OwnedBytesIsSum
  <1> HIDE DEF P, B, Size, S
  <1>. QED  BY <1>10, <1>12, <1>14, <1>15 DEF P


(* The figures a walk has to have at a position of a list.                 *)
Figures(p, count, bytes, k) ==
  /\ count = Cardinality(Places(p, k))
  /\ bytes = SumOf(Caps(p), Places(p, k))

Counted(p, x, count, bytes) ==
  \E k \in 1..(Len(p) + 1) : At(p, x, k) /\ Figures(p, count, bytes, k)

(* Until another thread runs each block has one owner, as the threads left *)
(* it, and a walk has counted the blocks of the zones in front of it.      *)
ReportInv ==
  exit.alone =>
    /\ exit.stage \in {"no", "report", "told"} => OwnersSound /\ NothingLost
    /\ exit.stage = "report" /\ Tracked =>
         Counted(pool, exit.next, exit.count, exit.bytes)
    /\ exit.stage = "told" /\ Tracked =>
         Figures(pool, exit.count, exit.bytes, Len(pool) + 1)

(* ReportInv holds before the first call.                                  *)
LEMMA ReportInvInit == ExitInit => ReportInv
  <1> SUFFICES ASSUME ExitInit PROVE ReportInv  OBVIOUS
  <1>1. DOMAIN << >> = {}  BY EmptySeq, LenProperties
  <1>2. ListedBlocks = {}
    BY <1>1 DEF ExitInit, Init, ListedBlocks, ListedAllocs
  <1>3. OwnersSound /\ NothingLost
    BY <1>2 DEF ExitInit, Init, OwnersSound, NothingLost, Idle
  <1>4. exit.stage = "no"  BY DEF ExitInit, NotLeaving
  <1>. QED  BY <1>3, <1>4 DEF ReportInv

(* The start of a report or of _clear keeps ReportInv.                     *)
LEMMA StartsCount ==
  ASSUME SizesAgree, ExitInv, ReportInv, UNCHANGED vars,
         exit.stage \in {"no", "told"},
         OwnersSound /\ NothingLost => (OwnersSound /\ NothingLost)',
         NEW x, x = StartClear \/ \E signal \in BOOLEAN : x = StartReport(signal),
         exit' = x \/ \E t : exit' = [x EXCEPT !.by = t]
  PROVE  ReportInv'
  <1>1. exit = [f \in DOMAIN NotLeaving |-> exit[f]]
    BY DEF ExitInv, ExitTypeOK
  <1>2. \/ /\ x.stage = "report" /\ x.alone = exit.alone
           /\ x.next = FirstZone /\ x.count = 0 /\ x.bytes = 0
           /\ x = [f \in DOMAIN NotLeaving |-> x[f]]
        \/ /\ x.stage \in {"clear", "gone"} /\ x.alone = exit.alone
           /\ x = [f \in DOMAIN NotLeaving |-> x[f]]
    <2>1. ASSUME NEW signal \in BOOLEAN, x = StartReport(signal)
          PROVE  /\ x.stage = "report" /\ x.alone = exit.alone
                 /\ x.next = FirstZone /\ x.count = 0 /\ x.bytes = 0
                 /\ x = [f \in DOMAIN NotLeaving |-> x[f]]
      BY <1>1, <2>1 DEF StartReport, NotLeaving
    <2>2. ASSUME x = StartClear
          PROVE  /\ x.stage \in {"clear", "gone"} /\ x.alone = exit.alone
                 /\ x = [f \in DOMAIN NotLeaving |-> x[f]]
      BY <1>1, <2>2 DEF StartClear, NotLeaving
    <2>. QED  BY <2>1, <2>2
  <1>3. /\ exit'.stage = x.stage /\ exit'.alone = x.alone /\ exit'.next = x.next
        /\ exit'.count = x.count /\ exit'.bytes = x.bytes
    BY <1>2 DEF NotLeaving
  <1>4. pool' = pool  BY DEF vars
  <1>5. ASSUME exit.alone, x.stage = "report"
        PROVE  Counted(pool, exit'.next, exit'.count, exit'.bytes)
    <2>1. pool \in Seq(Zone)  BY <1>5 DEF ExitInv, PoolOK, TypeOK
    <2>2. FirstZone = IF pool = << >> THEN NULL ELSE pool[1].base
      BY DEF FirstZone
    <2>3. 1 \in 1..(Len(pool) + 1) /\ At(pool, FirstZone, 1)
      BY <2>1, <2>2, FirstIsAt
    <2>4. Figures(pool, 0, 0, 1)  BY <2>1, PlacesBegin DEF Figures
    <2>. QED  BY <1>2, <1>3, <1>5, <2>3, <2>4 DEF Counted
  <1>6. exit.alone => (OwnersSound /\ NothingLost)'  BY DEF ReportInv
  <1>. QED  BY <1>2, <1>3, <1>4, <1>5, <1>6 DEF ReportInv

(* Every step keeps ReportInv.                                             *)
THEOREM ReportInvStep ==
  ASSUME SizesAgree
  PROVE  ExitInv /\ ReportInv /\ [ExitNext]_exitVars => ReportInv'
  <1> SUFFICES ASSUME ExitInv, ReportInv, [ExitNext]_exitVars PROVE ReportInv'
    OBVIOUS
  <1>1. exit = [f \in DOMAIN NotLeaving |-> exit[f]] /\ exit.stage \in Stages
    BY DEF ExitInv, ExitTypeOK
  <1>2. ASSUME [Next]_vars, exit.alone, exit.stage \in {"no", "report", "told"}
        PROVE  (OwnersSound /\ NothingLost)'
    <2>1. /\ TypeOK /\ SizesSound /\ ZonesSound /\ MappedExact
      BY <1>2 DEF ExitInv, PoolOK
    <2>2. OwnersSound /\ NothingLost  BY <1>2 DEF ReportInv
    <2>. QED  BY <1>2, <2>1, <2>2, OwnersStep
  <1>3. CASE UNCHANGED exitVars
    <2>1. exit' = exit /\ UNCHANGED vars  BY <1>3 DEF exitVars, vars
    <2>2. pool' = pool /\ (Tracked' <=> Tracked)  BY <2>1, AllocatorKept
    <2>. QED  BY <1>2, <2>1, <2>2 DEF ReportInv
  <1>4. CASE Others
    <2>1. Next  BY <1>4 DEF Others, Next
    <2>2. CASE exit.stage = "no"
      <3>1. exit' = exit  BY <1>4, <2>2 DEF Others
      <3>. QED  BY <1>2, <2>1, <2>2, <3>1 DEF ReportInv
    <2>3. CASE exit.stage # "no"
      <3>1. exit' = [exit EXCEPT !.alone = FALSE, !.count = 0, !.bytes = 0,
                                 !.steady = @ /\ NextStays]
        BY <1>4, <2>3 DEF Others
      <3>2. exit'.alone = FALSE  BY <1>1, <3>1 DEF NotLeaving
      <3>. QED  BY <3>2 DEF ReportInv
    <2>. QED  BY <2>2, <2>3
  <1>5. ASSUME NEW x,
               x = StartClear \/ \E signal \in BOOLEAN : x = StartReport(signal),
               exit' = x \/ \E t : exit' = [x EXCEPT !.by = t],
               UNCHANGED vars, exit.stage \in {"no", "told"}
        PROVE  ReportInv'
    <2>1. CASE exit.alone
      BY <1>2, <1>5, <2>1, StartsCount
    <2>2. CASE ~exit.alone
      <3>1. x.alone = exit.alone /\ x = [f \in DOMAIN NotLeaving |-> x[f]]
        BY <1>1, <1>5 DEF StartReport, StartClear, NotLeaving
      <3>2. exit'.alone = exit.alone  BY <1>5, <3>1 DEF NotLeaving
      <3>. QED  BY <2>2, <3>2 DEF ReportInv
    <2>. QED  BY <2>1, <2>2
  <1>6. ASSUME NEW t \in Threads, Leave(t) PROVE ReportInv'
    <2> DEFINE x == IF ShowLeaks THEN StartReport(FALSE) ELSE StartClear
    <2>1. /\ exit.stage = "no" /\ UNCHANGED vars
          /\ exit' = [x EXCEPT !.by = t]
          /\ x = StartClear \/ x = StartReport(FALSE)
      BY <1>6 DEF Leave
    <2> HIDE DEF x
    <2>. QED  BY <1>5, <2>1
  <1>7. ASSUME NEW t \in Threads, Interrupt(t) PROVE ReportInv'
    <2> DEFINE x == StartReport(TRUE)
    <2>1. /\ exit.stage = "no" /\ UNCHANGED vars
          /\ exit' = [x EXCEPT !.by = t]
          /\ x = StartReport(TRUE)
      BY <1>7 DEF Interrupt
    <2> HIDE DEF x
    <2>. QED  BY <1>5, <2>1
  <1>8. CASE ReportZone
    <2>1. PICK k \in ZoneAt(exit.next) :
            exit' = [exit EXCEPT
              !.next  = ReportNext(k),
              !.count = IF exit.alone THEN @ + Len(pool[k].allocs) ELSE @,
              !.bytes = IF exit.alone THEN @ + ListedBytes(pool[k].allocs) ELSE @]
      BY <1>8 DEF ReportZone
    <2>2. exit.stage = "report" /\ exit.next # NULL /\ UNCHANGED vars
      BY <1>8 DEF ReportZone
    <2>3. /\ exit'.stage = "report" /\ exit'.alone = exit.alone
          /\ exit'.next = ReportNext(k)
          /\ exit.alone => /\ exit'.count = exit.count + Len(pool[k].allocs)
                           /\ exit'.bytes = exit.bytes + ListedBytes(pool[k].allocs)
      BY <1>1, <2>1, <2>2 DEF NotLeaving
    <2>4. pool' = pool /\ (Tracked' <=> Tracked)  BY <2>2, AllocatorKept
    <2>5. ASSUME exit.alone, Tracked
          PROVE  Counted(pool, exit'.next, exit'.count, exit'.bytes)
      <3>1. PoolOK /\ Counted(pool, exit.next, exit.count, exit.bytes)
        BY <2>2, <2>5 DEF ExitInv, ReportInv
      <3>2. PICK m \in 1..(Len(pool) + 1) :
              At(pool, exit.next, m) /\ Figures(pool, exit.count, exit.bytes, m)
        BY <3>1 DEF Counted
      <3>3. /\ Fit(pool) /\ pool \in Seq(Zone)
            /\ Len(pool) \in Nat /\ DOMAIN pool = 1..Len(pool)
        BY <2>5, <3>1, FitPool, LenProperties DEF Fit
      <3>4. m # Len(pool) + 1 /\ exit.next = pool[m].base
        BY <2>2, <3>2 DEF At
      <3>5. m \in DOMAIN pool  BY <3>3, <3>4
      <3>6. k \in DOMAIN pool /\ pool[k].base = exit.next  BY DEF ZoneAt
      <3>7. k = m  BY <3>3, <3>4, <3>5, <3>6, FitBases
      <3>8. /\ k + 1 \in 1..(Len(pool) + 1)
            /\ At(pool, exit'.next, k + 1)
        BY <2>3, <3>3, <3>6, AfterIsAt DEF ReportNext
      <3>9. Figures(pool, exit'.count, exit'.bytes, k + 1)
        BY <2>3, <2>5, <3>2, <3>3, <3>6, <3>7, PlacesStep DEF Figures
      <3>. QED  BY <3>8, <3>9 DEF Counted
    <2>. QED  BY <1>2, <2>2, <2>3, <2>4, <2>5 DEF ReportInv
  <1>9. CASE Tell
    <2>1. /\ exit' = [exit EXCEPT !.stage = "told"]
          /\ exit.stage = "report" /\ exit.next = NULL /\ UNCHANGED vars
      BY <1>9 DEF Tell
    <2>2. /\ exit'.stage = "told" /\ exit'.alone = exit.alone
          /\ exit'.count = exit.count /\ exit'.bytes = exit.bytes
      BY <1>1, <2>1 DEF NotLeaving
    <2>3. pool' = pool /\ (Tracked' <=> Tracked)  BY <2>1, AllocatorKept
    <2>4. ASSUME exit.alone, Tracked
          PROVE  Figures(pool, exit.count, exit.bytes, Len(pool) + 1)
      <3>1. PoolOK /\ Counted(pool, exit.next, exit.count, exit.bytes)
        BY <2>1, <2>4 DEF ExitInv, ReportInv
      <3>2. PICK m \in 1..(Len(pool) + 1) :
              At(pool, exit.next, m) /\ Figures(pool, exit.count, exit.bytes, m)
        BY <3>1 DEF Counted
      <3>3. Fit(pool) /\ Len(pool) \in Nat /\ DOMAIN pool = 1..Len(pool)
        BY <2>4, <3>1, FitPool, LenProperties DEF Fit
      <3>4. m = Len(pool) + 1
        <4>1. CASE m \in DOMAIN pool
          <5>1. pool[m].base # NULL  BY <3>3, <4>1 DEF Fit
          <5>. QED  BY <2>1, <3>2, <5>1 DEF At
        <4>. QED  BY <3>3, <4>1
      <3>. QED  BY <3>2, <3>4
    <2>. QED  BY <1>2, <2>1, <2>2, <2>3, <2>4 DEF ReportInv
  <1>10. CASE AfterReport
    <2>1. exit.stage = "told" /\ UNCHANGED vars
          /\ exit' = IF exit.signal THEN StartReport(FALSE) ELSE StartClear
      BY <1>10 DEF AfterReport
    <2>. QED  BY <1>5, <2>1
  <1>11. CASE ClearZone \/ ClearDone \/ GetLost
    <2>1. exit'.stage \in {"clear", "gone", "lost"}
      BY <1>1, <1>11 DEF ClearZone, ClearDone, GetLost, NotLeaving
    <2>. QED  BY <2>1 DEF ReportInv
  <1>. QED
    BY <1>3, <1>4, <1>6, <1>7, <1>8, <1>9, <1>10, <1>11 DEF ExitNext

(* The leak report of SIGINT or of exit counts exactly the blocks that the *)
(* client has and has not freed, and adds up exactly their sizes, when no  *)
(* other thread runs between the steps of its walk.                        *)
THEOREM ReportIsExactCorrect ==
  ASSUME SizesAgree
  PROVE  ExitSpec => []ReportIsExact
  <1>1. ExitInv /\ ReportInv => ReportIsExact
    <2> SUFFICES ASSUME ExitInv, ReportInv, exit.stage = "told", exit.alone,
                        Tracked
                 PROVE  /\ exit.count = Cardinality(Owned)
                        /\ exit.bytes = MapThenSumSet(LAMBDA o : o[2].size, Owned)
      BY DEF ReportIsExact
    <2>1. PoolOK /\ OwnersSound /\ NothingLost
      BY DEF ExitInv, ReportInv
    <2>2. Figures(pool, exit.count, exit.bytes, Len(pool) + 1)
      BY DEF ReportInv
    <2>. QED  BY <2>1, <2>2, OwnedFigures DEF Figures
  <1>2. ExitInv /\ ReportInv /\ [ExitNext]_exitVars => ReportInv'
    BY ReportInvStep
  <1>. QED  BY <1>1, <1>2, ReportInvInit, ExitInvCorrect, PTL DEF ExitSpec
=============================================================================
