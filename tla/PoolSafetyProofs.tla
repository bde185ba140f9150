-------------------------- MODULE PoolSafetyProofs --------------------------
(***************************************************************************)
(* Theorems about the allocator core, for every value of the constants:    *)
(* its type invariant, the invariant of the allocation lists with what it  *)
(* implies, and what happens to zones.  Then, under SizesAgree, its        *)
(* promises to the client: blocks are safe to write to and none is lost,   *)
(* the free size of a zone is what it says, the mapped pages are those of  *)
(* the zones, and the zones with their lists implement the heap.           *)
(***************************************************************************)
EXTENDS MemPoolInv, AllocListProofs

-----------------------------------------------------------------------------
(* The critical section of malloc                                        *)

(* A zone fresh from mmap is a zone of the type of the request, with an  *)
(* empty list.                                                           *)
LEMMA FreshZoneType ==
  ASSUME NEW base \in Nat, NEW size \in Nat
  PROVE  /\ FreshZone(base, size) \in Zone
         /\ FreshZone(base, size).type = SetZoneType(size)
         /\ FreshZone(base, size).allocs = << >>
  <1>1. SetZoneType(size) \in ZoneTypes  BY ZoneTypeIsType
  <1>2. ZoneMemSize(size, SetZoneType(size)) - ZoneHdr \in Nat
    BY <1>1, ZoneMemSizeBounds, SizesAssumption
  <1>3. << >> \in Seq(Alloc)  BY EmptySeq
  <1>. QED  BY <1>1, <1>2, <1>3 DEF FreshZone, Zone

(* A block comes from a zone of its type that is not large, from none    *)
(* because the zone picked turns out to be full, or from a new zone.     *)
LEMMA MallocOutcomesCases ==
  ASSUME NEW size \in Nat, NEW o \in MallocOutcomes(size)
  PROVE  \/ \E k \in DOMAIN pool : \E c \in Carve(pool[k], size) :
              /\ pool[k].type # "large" /\ pool[k].type = SetZoneType(size)
              /\ o = [pool |-> [pool EXCEPT ![k] = c.zone], mapped |-> mapped,
                      ptr |-> c.ptr, listed |-> c.listed]
         \/ o = [pool |-> pool, mapped |-> mapped, ptr |-> NULL, listed |-> TRUE]
         \/ \E base \in Nat : \E c \in Carve(FreshZone(base, size), size) :
              /\ base \in FreeBases(ZoneMemSize(size, SetZoneType(size)))
              /\ o.pool = Append(pool, c.zone)
              /\ o.mapped = mapped \cup
                   PagesOf(base, ZoneMemSize(size, SetZoneType(size)))
              /\ o.ptr = c.ptr
              /\ o.listed = c.listed
  <1>1. CASE GetAllocZone(size) # {}
    <2>1. PICK k \in GetAllocZone(size) : o \in InZone(k, size)
      BY <1>1 DEF MallocOutcomes
    <2>2. /\ k \in DOMAIN pool
          /\ pool[k].type # "large" /\ pool[k].type = SetZoneType(size)
      BY DEF GetAllocZone, FirstOf
    <2>3. CASE Carve(pool[k], size) = {}
      BY <2>1, <2>3 DEF InZone
    <2>4. CASE Carve(pool[k], size) # {}
      BY <2>1, <2>2, <2>4 DEF InZone
    <2>. QED  BY <2>3, <2>4
  <1>2. CASE GetAllocZone(size) = {}
    <2>1. PICK base \in FreeBases(ZoneMemSize(size, SetZoneType(size))) :
            o \in InNewZone(base, size)
      BY <1>2 DEF MallocOutcomes
    <2>2. base \in Nat
      BY PoolAssumption, SizesAssumption DEF FreeBases, FreePages
    <2>. QED  BY <2>1, <2>2 DEF InNewZone
  <1>. QED  BY <1>1, <1>2

(* The pages of an address range are page numbers.                       *)
LEMMA PagesOfType ==
  ASSUME NEW base \in Nat, NEW len \in Nat
  PROVE  PagesOf(base, len) \subseteq Int
  BY SizesAssumption DEF PagesOf

(* Serving a block leaves every zone as it was but the one it comes      *)
(* from.                                                                 *)
LEMMA MallocOutcomesType ==
  ASSUME pool \in Seq(Zone), mapped \subseteq Int,
         NEW size \in Nat, NEW o \in MallocOutcomes(size)
  PROVE  /\ o.pool \in Seq(Zone)
         /\ o.mapped \subseteq Int
         /\ o.ptr \in Nat
         /\ Len(o.pool) \in Nat /\ Len(o.pool) >= Len(pool)
         /\ \A m \in DOMAIN o.pool :
              \/ m \in DOMAIN pool /\ o.pool[m] = pool[m]
              \/ /\ m \in DOMAIN pool /\ pool[m].type # "large"
                 /\ \E c \in Carve(pool[m], size) :
                      o.pool[m] = c.zone /\ o.listed = c.listed
              \/ \E base \in Nat : \E c \in Carve(FreshZone(base, size), size) :
                   o.pool[m] = c.zone /\ o.listed = c.listed
  <1>1. ASSUME NEW k \in DOMAIN pool, NEW c \in Carve(pool[k], size),
               pool[k].type # "large",
               o = [pool |-> [pool EXCEPT ![k] = c.zone], mapped |-> mapped,
                    ptr |-> c.ptr, listed |-> c.listed]
        PROVE  /\ o.pool \in Seq(Zone) /\ Len(o.pool) = Len(pool)
               /\ o.mapped \subseteq Int /\ o.ptr \in Nat
               /\ \A m \in DOMAIN o.pool :
                    /\ m \in DOMAIN pool
                    /\ o.pool[m] = IF m = k THEN c.zone ELSE pool[m]
    <2>1. k \in 1..Len(pool) /\ pool[k] \in Zone
      BY LenProperties, ElementOfSeq
    <2>2. c.zone \in Zone /\ c.ptr \in Nat  BY <2>1, CarveKeepsZone
    <2>. QED  BY <1>1, <2>1, <2>2, ExceptSeq, LenProperties
  <1>2. ASSUME NEW base \in Nat, NEW c \in Carve(FreshZone(base, size), size),
               o.pool = Append(pool, c.zone),
               o.mapped = mapped \cup
                 PagesOf(base, ZoneMemSize(size, SetZoneType(size))),
               o.ptr = c.ptr
        PROVE  /\ o.pool \in Seq(Zone) /\ Len(o.pool) = Len(pool) + 1
               /\ o.mapped \subseteq Int /\ o.ptr \in Nat
               /\ \A m \in DOMAIN o.pool :
                    \/ m \in DOMAIN pool /\ o.pool[m] = pool[m]
                    \/ o.pool[m] = c.zone
    <2>1. c.zone \in Zone /\ c.ptr \in Nat
      BY FreshZoneType, CarveKeepsZone
    <2>2. PagesOf(base, ZoneMemSize(size, SetZoneType(size))) \subseteq Int
      BY ZoneTypeIsType, ZoneMemSizeBounds, PagesOfType
    <2>3. /\ o.pool \in Seq(Zone) /\ Len(o.pool) = Len(pool) + 1
          /\ \A i \in 1..Len(pool) : o.pool[i] = pool[i]
          /\ o.pool[Len(pool) + 1] = c.zone
      BY <1>2, <2>1, AppendProperties
    <2>4. /\ Len(pool) \in Nat /\ DOMAIN pool = 1..Len(pool)
          /\ DOMAIN o.pool = 1..(Len(pool) + 1)
      BY <2>3, LenProperties
    <2>5. \A i \in 1..(Len(pool) + 1) : i = Len(pool) + 1 \/ i \in 1..Len(pool)
      BY <2>4
    <2>6. \A m \in DOMAIN o.pool :
            \/ m \in DOMAIN pool /\ o.pool[m] = pool[m]
            \/ o.pool[m] = c.zone
      BY <2>3, <2>4, <2>5
    <2>7. o.mapped \subseteq Int  BY <1>2, <2>2
    <2>. QED  BY <1>2, <2>1, <2>3, <2>6, <2>7
  <1>3. CASE o = [pool |-> pool, mapped |-> mapped, ptr |-> NULL,
                  listed |-> TRUE]
    <2>1. Len(pool) \in Nat  BY LenProperties
    <2>2. o.pool = pool /\ o.mapped = mapped /\ o.ptr = 0
      BY <1>3, Zenon DEF NULL
    <2>. QED  BY <2>1, <2>2
  <1>4. Len(pool) \in Nat  BY LenProperties
  <1>5. ASSUME NEW k \in DOMAIN pool, NEW c \in Carve(pool[k], size),
               pool[k].type # "large",
               o = [pool |-> [pool EXCEPT ![k] = c.zone], mapped |-> mapped,
                    ptr |-> c.ptr, listed |-> c.listed]
        PROVE  \A m \in DOMAIN o.pool :
                 \/ m \in DOMAIN pool /\ o.pool[m] = pool[m]
                 \/ /\ m \in DOMAIN pool /\ pool[m].type # "large"
                    /\ \E b \in Carve(pool[m], size) :
                         o.pool[m] = b.zone /\ o.listed = b.listed
    <2>1. \A m \in DOMAIN o.pool :
            m \in DOMAIN pool /\ o.pool[m] = IF m = k THEN c.zone ELSE pool[m]
      BY <1>1, <1>5
    <2>2. o.listed = c.listed  BY <1>5
    <2>. QED  BY <1>5, <2>1, <2>2
  <1>6. CASE \E k \in DOMAIN pool : \E c \in Carve(pool[k], size) :
               /\ pool[k].type # "large" /\ pool[k].type = SetZoneType(size)
               /\ o = [pool |-> [pool EXCEPT ![k] = c.zone], mapped |-> mapped,
                       ptr |-> c.ptr, listed |-> c.listed]
    <2>1. PICK k \in DOMAIN pool : \E c \in Carve(pool[k], size) :
            /\ pool[k].type # "large"
            /\ o = [pool |-> [pool EXCEPT ![k] = c.zone], mapped |-> mapped,
                    ptr |-> c.ptr, listed |-> c.listed]
      BY <1>6
    <2>2. PICK c \in Carve(pool[k], size) :
            o = [pool |-> [pool EXCEPT ![k] = c.zone], mapped |-> mapped,
                 ptr |-> c.ptr, listed |-> c.listed]
      BY <2>1
    <2>. QED  BY <1>1, <1>4, <1>5, <2>1, <2>2
  <1>7. CASE \E base \in Nat : \E c \in Carve(FreshZone(base, size), size) :
               /\ base \in FreeBases(ZoneMemSize(size, SetZoneType(size)))
               /\ o.pool = Append(pool, c.zone)
               /\ o.mapped = mapped \cup
                    PagesOf(base, ZoneMemSize(size, SetZoneType(size)))
               /\ o.ptr = c.ptr
               /\ o.listed = c.listed
    <2>1. PICK base \in Nat : \E c \in Carve(FreshZone(base, size), size) :
            /\ o.pool = Append(pool, c.zone)
            /\ o.mapped = mapped \cup
                 PagesOf(base, ZoneMemSize(size, SetZoneType(size)))
            /\ o.ptr = c.ptr
            /\ o.listed = c.listed
      BY <1>7
    <2>2. PICK c \in Carve(FreshZone(base, size), size) :
            /\ o.pool = Append(pool, c.zone)
            /\ o.mapped = mapped \cup
                 PagesOf(base, ZoneMemSize(size, SetZoneType(size)))
            /\ o.ptr = c.ptr
            /\ o.listed = c.listed
      BY <2>1
    <2>. QED  BY <1>2, <1>4, <2>2
  <1>. QED  BY <1>3, <1>6, <1>7, MallocOutcomesCases

-----------------------------------------------------------------------------
(* The critical section of free                                          *)

(* The list of zones without one of them, element by element.            *)
LEMMA RemoveAtList ==
  ASSUME NEW S, NEW s \in Seq(S), NEW k \in 1..Len(s)
  PROVE  /\ RemoveAt(s, k) \in Seq(S)
         /\ Len(RemoveAt(s, k)) = Len(s) - 1
         /\ \A i \in 1..(Len(s) - 1) :
              RemoveAt(s, k)[i] = s[IF i < k THEN i ELSE i + 1]
  <1> DEFINE n == Len(s)
             a == SubSeq(s, 1, k - 1)
             b == SubSeq(s, k + 1, n)
  <1>1. n \in Nat /\ \A i \in 1..n : s[i] \in S  BY ElementOfSeq
  <1>2. /\ a \in Seq(S) /\ Len(a) = k - 1
        /\ \A i \in 1..(k - 1) : a[i] = s[i]
    BY <1>1, SubSeqProperties
  <1>3. /\ b \in Seq(S) /\ Len(b) = n - k
        /\ \A i \in 1..(n - k) : b[i] = s[k + i]
    <2>1. \A i \in (k + 1)..n : s[i] \in S  BY <1>1
    <2>2. n - (k + 1) + 1 = n - k
          /\ (k + 1 <= n \/ n - k = 0)
          /\ \A i \in 1..(n - k) : (k + 1) + i - 1 = k + i
      BY <1>1
    <2>3. /\ b \in Seq(S)
          /\ Len(b) = IF k + 1 <= n THEN n - (k + 1) + 1 ELSE 0
          /\ \A i \in 1..(n - (k + 1) + 1) : b[i] = s[(k + 1) + i - 1]
      <3>1. k + 1 \in Int /\ n \in Int  BY <1>1
      <3>. QED  BY <2>1, <3>1, SubSeqProperties
    <2> HIDE DEF b
    <2>. QED  BY <2>2, <2>3
  <1>4. RemoveAt(s, k) = a \o b  BY DEF RemoveAt
  <1> HIDE DEF a, b
  <1>5. Len(a) + Len(b) = n - 1  BY <1>1, <1>2, <1>3
  <1>6. /\ a \o b \in Seq(S) /\ Len(a \o b) = n - 1
        /\ \A i \in 1..(n - 1) :
             (a \o b)[i] = IF i <= k - 1 THEN a[i] ELSE b[i - (k - 1)]
    <2>1. /\ a \o b \in Seq(S) /\ Len(a \o b) = Len(a) + Len(b)
          /\ \A i \in 1..(Len(a) + Len(b)) :
               (a \o b)[i] = IF i <= Len(a) THEN a[i] ELSE b[i - Len(a)]
      BY <1>2, <1>3, ConcatProperties
    <2>2. Len(a) = k - 1  BY <1>2
    <2>. QED  BY <1>5, <2>1, <2>2
  <1>7. ASSUME NEW i \in 1..(n - 1)
        PROVE  (a \o b)[i] = s[IF i < k THEN i ELSE i + 1]
    <2>1. CASE i < k  BY <1>1, <1>2, <1>6, <2>1
    <2>2. CASE ~(i < k)
      <3>1. i - (k - 1) \in 1..(n - k) /\ k + (i - (k - 1)) = i + 1
            /\ ~(i <= k - 1)
        BY <1>1, <2>2
      <3>. QED  BY <1>3, <1>6, <2>2, <3>1
    <2>. QED  BY <2>1, <2>2
  <1>. QED  BY <1>4, <1>6, <1>7

(* The zone after the unlinking of free, with its free size recomputed.  *)
LEMMA FreedZoneType ==
  ASSUME NEW z \in Zone, NEW j \in 1..Len(z.allocs)
  PROVE  /\ FreedZoneSize(z) \in Nat /\ FreedZoneSize(z) >= ZoneHdr
         /\ FreedZone(z, j) \in Zone
         /\ FreedZone(z, j).base = z.base
         /\ FreedZone(z, j).type = z.type
         /\ FreedZone(z, j).allocs = Unlink(z.allocs, j)
         /\ FreedZone(z, j).allocs = << >> =>
              FreedZone(z, j).free = FreedZoneSize(z) - ZoneHdr
  <1>1. z.allocs \in Seq(Alloc) /\ z.type \in ZoneTypes /\ 1 \in 1..Len(z.allocs)
    BY DEF Zone
  <1>2. z.allocs[1].size \in Nat  BY <1>1, ElementOfSeq, AllocAddresses
  <1>3. FreedZoneSize(z) \in Nat /\ FreedZoneSize(z) >= ZoneHdr
    BY <1>1, <1>2, ZoneMemSizeBounds, SizesAssumption DEF FreedZoneSize
  <1>4. Unlink(z.allocs, j) \in Seq(Alloc)  BY <1>1, UnlinkType
  <1>5. FreedZone(z, j).allocs = << >> =>
          FreedZone(z, j).free = FreedZoneSize(z) - ZoneHdr
    <2>1. /\ FreedZone(z, j).allocs = Unlink(z.allocs, j)
          /\ FreedZone(z, j) =
               UpdateFreeMemSize(z, Unlink(z.allocs, j), FreedZoneSize(z))
      BY <1>3, <1>4, UpdateFreeMemSizeType DEF FreedZone
    <2>2. ASSUME Unlink(z.allocs, j) = << >>
          PROVE  FreedZone(z, j).free = FreedZoneSize(z) - ZoneHdr
      BY <2>1, <2>2 DEF UpdateFreeMemSize, Zone
    <2>. QED  BY <2>1, <2>2
  <1>. QED  BY <1>3, <1>4, <1>5, UpdateFreeMemSizeType DEF FreedZone

(* Releasing a block leaves every zone as it was but the one it is in.   *)
LEMMA ReleaseSteps ==
  ASSUME pool \in Seq(Zone), mapped \subseteq Int,
         status \in {"running", "aborted"},
         NEW k \in DOMAIN pool, NEW j \in DOMAIN pool[k].allocs,
         Release(k, j)
  PROVE  /\ pool' \in Seq(Zone)
         /\ mapped' \subseteq Int
         /\ status' \in {"running", "aborted"}
         /\ \/ /\ Unmaps(pool[k], j)
               /\ Len(pool') = Len(pool) - 1
               /\ \A m \in DOMAIN pool' :
                    pool'[m] = pool[IF m < k THEN m ELSE m + 1]
            \/ /\ ~Unmaps(pool[k], j)
               /\ Len(pool') = Len(pool)
               /\ \A m \in DOMAIN pool' :
                    pool'[m] = IF m = k THEN FreedZone(pool[k], j) ELSE pool[m]
  <1>1. k \in 1..Len(pool) /\ pool[k] \in Zone /\ Len(pool) \in Nat
    BY LenProperties, ElementOfSeq
  <1>2. j \in 1..Len(pool[k].allocs)
    BY <1>1, LenProperties DEF Zone
  <1>3. FreedZone(pool[k], j) \in Zone  BY <1>1, <1>2, FreedZoneType
  <1>4. CASE Unmaps(pool[k], j)
    <2>1. pool' = RemoveAt(pool, k)  BY <1>4 DEF Release
    <2>2. /\ pool' \in Seq(Zone) /\ Len(pool') = Len(pool) - 1
          /\ \A m \in 1..(Len(pool) - 1) :
               pool'[m] = pool[IF m < k THEN m ELSE m + 1]
      BY <1>1, <2>1, RemoveAtList
    <2>3. DOMAIN pool' = 1..(Len(pool) - 1)  BY <2>2, LenProperties
    <2>4. mapped' \subseteq Int /\ status' \in {"running", "aborted"}
      BY <1>4 DEF Release
    <2>. QED  BY <1>4, <2>2, <2>3, <2>4
  <1>5. CASE ~Unmaps(pool[k], j)
    <2>1. /\ pool' = [pool EXCEPT ![k] = FreedZone(pool[k], j)]
          /\ mapped' = mapped /\ status' = status
      BY <1>1, <1>5 DEF Release
    <2>2. /\ pool' \in Seq(Zone) /\ Len(pool') = Len(pool)
          /\ \A m \in 1..Len(pool) :
               pool'[m] = IF m = k THEN FreedZone(pool[k], j) ELSE pool[m]
      BY <1>1, <1>3, <2>1, ExceptSeq
    <2>3. DOMAIN pool' = 1..Len(pool)  BY <2>2, LenProperties
    <2>. QED  BY <1>5, <2>1, <2>2, <2>3
  <1>. QED  BY <1>4, <1>5

(* What the lookup finds is a listed block of a listed zone.             *)
LEMMA FindInPool ==
  ASSUME NEW ptr, NEW loc \in Find(ptr)
  PROVE  /\ loc[1] \in DOMAIN pool
         /\ loc[2] \in 1..Len(pool[loc[1]].allocs)
  BY DEF Find, FindZone, FindAlloc, FirstOf

(* The same of a block that was found, without positions.                *)
LEMMA ReleaseZones ==
  ASSUME pool \in Seq(Zone), mapped \subseteq Int,
         status \in {"running", "aborted"},
         NEW ptr, NEW loc \in Find(ptr), Release(loc[1], loc[2])
  PROVE  \A m \in DOMAIN pool' :
           \/ \E l \in DOMAIN pool : pool'[m] = pool[l]
           \/ /\ ~Unmaps(pool[loc[1]], loc[2])
              /\ pool'[m] = FreedZone(pool[loc[1]], loc[2])
  <1> DEFINE k == loc[1]
             j == loc[2]
  <1>1. /\ Len(pool) \in Nat /\ DOMAIN pool = 1..Len(pool)
        /\ k \in DOMAIN pool /\ j \in 1..Len(pool[k].allocs)
        /\ pool[k] \in Zone
    BY FindInPool, LenProperties, ElementOfSeq
  <1>2. j \in DOMAIN pool[k].allocs  BY <1>1, LenProperties DEF Zone
  <1>3. Release(k, j)  OBVIOUS
  <1> HIDE DEF k, j
  <1>4. /\ pool' \in Seq(Zone)
        /\ \/ /\ Len(pool') = Len(pool) - 1
              /\ \A m \in DOMAIN pool' :
                   pool'[m] = pool[IF m < k THEN m ELSE m + 1]
           \/ /\ ~Unmaps(pool[k], j)
              /\ Len(pool') = Len(pool)
              /\ \A m \in DOMAIN pool' :
                   pool'[m] = IF m = k THEN FreedZone(pool[k], j) ELSE pool[m]
    BY <1>1, <1>2, <1>3, ReleaseSteps
  <1>5. DOMAIN pool' = 1..Len(pool')  BY <1>4, LenProperties
  <1>6. SUFFICES ASSUME NEW m \in DOMAIN pool'
                 PROVE  \/ \E l \in DOMAIN pool : pool'[m] = pool[l]
                        \/ /\ ~Unmaps(pool[k], j)
                           /\ pool'[m] = FreedZone(pool[k], j)
    BY DEF k, j
  <1>7. CASE /\ Len(pool') = Len(pool) - 1
             /\ pool'[m] = pool[IF m < k THEN m ELSE m + 1]
    <2>1. m \in 1..(Len(pool) - 1) /\ k \in 1..Len(pool)
      BY <1>1, <1>5, <1>7
    <2>2. (IF m < k THEN m ELSE m + 1) \in 1..Len(pool)  BY <1>1, <2>1
    <2>. QED  BY <1>1, <1>7, <2>2
  <1>8. CASE /\ ~Unmaps(pool[k], j)
             /\ Len(pool') = Len(pool)
             /\ pool'[m] = IF m = k THEN FreedZone(pool[k], j) ELSE pool[m]
    BY <1>1, <1>5, <1>8
  <1>. QED  BY <1>4, <1>7, <1>8

-----------------------------------------------------------------------------
(* Type correctness                                                      *)

(* The part of the type invariant that belongs to the allocator.         *)
PoolTypeOK ==
  /\ pool \in Seq(Zone)
  /\ mapped \subseteq Int
  /\ lock \in Threads \cup {Nobody}
  /\ status \in {"running", "aborted"}
  /\ events \subseteq Events

(* Serving a request keeps the types.                                    *)
LEMMA ServeType ==
  ASSUME PoolTypeOK, NEW size \in Nat, NEW o \in MallocOutcomes(size), Serve(o)
  PROVE  PoolTypeOK' /\ o.ptr \in Nat
  <1>1. o.pool \in Seq(Zone) /\ o.mapped \subseteq Int /\ o.ptr \in Nat
    BY MallocOutcomesType DEF PoolTypeOK
  <1>2. events' \subseteq Events  BY DEF Serve, PoolTypeOK, Events
  <1>. QED  BY <1>1, <1>2 DEF Serve, PoolTypeOK

(* A refused mmap keeps the types.                                       *)
LEMMA RefuseType ==
  ASSUME PoolTypeOK, NEW t \in Threads, NEW size, Refuse(t, size)
  PROVE  PoolTypeOK'
  BY DEF Refuse, PoolTypeOK, Events

(* Releasing a block keeps the types.                                    *)
LEMMA ReleaseType ==
  ASSUME PoolTypeOK, NEW ptr, NEW loc \in Find(ptr), Release(loc[1], loc[2]),
         events' \subseteq Events, lock' = lock
  PROVE  PoolTypeOK'
  <1>1. /\ pool \in Seq(Zone) /\ mapped \subseteq Int
        /\ status \in {"running", "aborted"} /\ lock \in Threads \cup {Nobody}
    BY DEF PoolTypeOK
  <1>2. loc[1] \in DOMAIN pool /\ loc[2] \in DOMAIN pool[loc[1]].allocs
    <2>1. pool[loc[1]] \in Zone
      BY <1>1, FindInPool, LenProperties, ElementOfSeq
    <2>. QED  BY <2>1, FindInPool, LenProperties DEF Zone
  <1>3. /\ pool' \in Seq(Zone) /\ mapped' \subseteq Int
        /\ status' \in {"running", "aborted"}
    BY <1>1, <1>2, ReleaseSteps
  <1>. QED  BY <1>1, <1>3 DEF PoolTypeOK

(* Reporting an unknown pointer keeps the types.                         *)
LEMMA MissedType ==
  ASSUME PoolTypeOK, Missed PROVE PoolTypeOK'
  BY DEF Missed, PoolTypeOK, Events

(* The critical section of free keeps the types.                         *)
LEMMA FreePtrType ==
  ASSUME PoolTypeOK, NEW ptr, FreePtr(ptr)
  PROVE  PoolTypeOK'
  <1>1. CASE Find(ptr) = {} /\ Missed  BY <1>1, MissedType
  <1>2. ASSUME NEW loc \in Find(ptr), Release(loc[1], loc[2]),
               events' = events \cup LeftMapped, UNCHANGED lock
        PROVE  PoolTypeOK'
    <2>1. events' \subseteq Events
      BY <1>2 DEF PoolTypeOK, LeftMapped, Events
    <2>. QED  BY <1>2, <2>1, ReleaseType
  <1>. QED  BY <1>1, <1>2 DEF FreePtr

(* Shrinking a block in place changes its size and the free size of its  *)
(* zone, nothing else.                                                   *)
LEMMA ShrinkSteps ==
  ASSUME pool \in Seq(Zone), NEW k \in DOMAIN pool,
         NEW j \in 1..Len(pool[k].allocs), NEW size \in Nat, Shrink(k, j, size)
  PROVE  /\ pool' \in Seq(Zone) /\ Len(pool') = Len(pool)
         /\ DOMAIN pool' = DOMAIN pool
         /\ \A m \in DOMAIN pool : m # k => pool'[m] = pool[m]
         /\ pool'[k].base = pool[k].base
         /\ pool'[k].type = pool[k].type
         /\ pool'[k].allocs = [pool[k].allocs EXCEPT ![j].size = size]
         /\ Len(pool'[k].allocs) = Len(pool[k].allocs)
  <1> DEFINE z == pool[k]
             a == [z.allocs[j] EXCEPT !.size = size]
             shrunk == [z.allocs EXCEPT ![j].size = size]
             y == UpdateFreeMemSize(z, shrunk, ZoneMemSize(size, z.type))
  <1>1. z \in Zone /\ k \in 1..Len(pool) /\ DOMAIN pool = 1..Len(pool)
    BY LenProperties, ElementOfSeq
  <1>2. z.allocs \in Seq(Alloc) /\ z.type \in ZoneTypes /\ z.allocs[j] \in Alloc
    BY <1>1, ElementOfSeq DEF Zone
  <1>3. a \in Alloc  BY <1>2 DEF Alloc
  <1>4. shrunk = [z.allocs EXCEPT ![j] = a]  OBVIOUS
  <1>5. shrunk \in Seq(Alloc) /\ Len(shrunk) = Len(z.allocs)
    <2> HIDE DEF a, shrunk
    <2>. QED  BY <1>2, <1>3, <1>4, ExceptSeq
  <1>6. ZoneMemSize(size, z.type) \in Nat /\ ZoneMemSize(size, z.type) >= ZoneHdr
    BY <1>2, ZoneMemSizeBounds, SizesAssumption
  <1>7. pool' = [pool EXCEPT ![k] = y]  BY <1>1 DEF Shrink
  <1> HIDE DEF shrunk
  <1>8. y \in Zone /\ y.base = z.base /\ y.type = z.type /\ y.allocs = shrunk
    BY <1>1, <1>5, <1>6, UpdateFreeMemSizeType
  <1> HIDE DEF y
  <1>9. /\ pool' \in Seq(Zone) /\ Len(pool') = Len(pool)
        /\ \A m \in 1..Len(pool) : pool'[m] = IF m = k THEN y ELSE pool[m]
    BY <1>1, <1>7, <1>8, ExceptSeq
  <1>10. DOMAIN pool' = DOMAIN pool  BY <1>1, <1>9, LenProperties
  <1>. QED  BY <1>1, <1>5, <1>8, <1>9, <1>10 DEF shrunk

(* The fields of a realloc in progress, by its stage.                    *)
LEMMA CallFields ==
  ASSUME NEW c \in Calls
  PROVE  /\ c.stage = "move" =>
              c.api \in Apis /\ c.slot \in Slots /\ c.old \in Nat /\ c.size \in Nat
         /\ c.stage = "finish" =>
              c.slot \in Slots /\ c.old \in Nat /\ c.new \in Nat /\ c.size \in Nat
         /\ c.stage = "drop" => c.slot \in Slots /\ c.old \in Nat
  BY DEF Calls, Idle

(* The records a step of realloc or reallocf leaves behind.              *)
LEMMA CallTypes ==
  ASSUME NEW i \in Slots, NEW old \in Nat, NEW size \in Nat
  PROVE  /\ Idle \in Calls
         /\ \A api \in Apis : [stage |-> "move", api |-> api, slot |-> i,
                               old |-> old, size |-> size] \in Calls
         /\ \A new \in Nat : [stage |-> "finish", slot |-> i, old |-> old,
                              new |-> new, size |-> size] \in Calls
         /\ [stage |-> "drop", slot |-> i, old |-> old] \in Calls
  BY DEF Calls

(* A rounded request is a natural number.                                *)
LEMMA SizesType ==
  ASSUME NEW size \in Sizes PROVE RoundUp(size) \in Nat
  BY PoolAssumption, RoundUpBounds

(* An empty slot has the type of a slot.                                 *)
LEMMA NoBlockType == NoBlock \in [ptr: Nat, size: Nat]
  BY DEF NoBlock, NULL

(* The type invariant holds before the first call.                       *)
THEOREM TypeInit == Init => TypeOK
  <1> SUFFICES ASSUME Init PROVE TypeOK  OBVIOUS
  <1>1. pool \in Seq(Zone)  BY EmptySeq DEF Init
  <1>2. held \in [Slots -> [ptr: Nat, size: Nat]]  BY NoBlockType DEF Init
  <1>3. calls \in [Threads -> Calls]  BY DEF Init, Calls
  <1>. QED  BY <1>1, <1>2, <1>3 DEF Init, TypeOK, Events

(* Every critical section of malloc, free, realloc and reallocf keeps    *)
(* the type invariant.                                                   *)
THEOREM TypeStep == TypeOK /\ [Next]_vars => TypeOK'
  <1> SUFFICES ASSUME TypeOK, [Next]_vars PROVE TypeOK'  OBVIOUS
  <1> USE DEF PoolTypeOK
  <1> DEFINE Block == [ptr: Nat, size: Nat]
             Clients == held' \in [Slots -> Block] /\ calls' \in [Threads -> Calls]
  <1>1. /\ PoolTypeOK
        /\ held \in [Slots -> Block] /\ calls \in [Threads -> Calls]
    BY DEF TypeOK
  <1>2. ASSUME NEW t \in Threads, NEW i \in Slots, NEW size \in Sizes,
               Malloc(t, i, size)
        PROVE  PoolTypeOK' /\ Clients
    <2>1. RoundUp(size) \in Nat  BY SizesType
    <2>2. CASE \E o \in MallocOutcomes(RoundUp(size)) :
                 /\ Serve(o)
                 /\ held' = [held EXCEPT ![i] =
                      IF o.ptr = NULL THEN NoBlock
                      ELSE [ptr |-> o.ptr, size |-> RoundUp(size)]]
      <3>1. PICK o \in MallocOutcomes(RoundUp(size)) :
              /\ Serve(o)
              /\ held' = [held EXCEPT ![i] =
                   IF o.ptr = NULL THEN NoBlock
                   ELSE [ptr |-> o.ptr, size |-> RoundUp(size)]]
        BY <2>2
      <3>2. PoolTypeOK' /\ o.ptr \in Nat  BY <1>1, <2>1, <3>1, ServeType
      <3>3. (IF o.ptr = NULL THEN NoBlock
             ELSE [ptr |-> o.ptr, size |-> RoundUp(size)]) \in Block
        BY <2>1, <3>2, NoBlockType
      <3>. QED  BY <1>1, <1>2, <3>1, <3>2, <3>3 DEF Malloc
    <2>3. CASE Refuse(t, RoundUp(size)) /\ UNCHANGED held
      <3>1. PoolTypeOK'  BY <1>1, <2>3, RefuseType
      <3>. QED  BY <1>1, <1>2, <2>3, <3>1 DEF Malloc
    <2>. QED  BY <1>2, <2>2, <2>3 DEF Malloc
  <1>3. ASSUME NEW t \in Threads, NEW i \in Slots, Free(t, i)
        PROVE  PoolTypeOK' /\ Clients
    <2>1. PoolTypeOK'  BY <1>1, <1>3, FreePtrType DEF Free
    <2>. QED  BY <1>1, <1>3, <2>1, NoBlockType DEF Free
  <1>4. ASSUME NEW t \in Threads, NEW i \in Slots, ReallocfZero(t, i)
        PROVE  PoolTypeOK' /\ Clients
    <2>1. PoolTypeOK'  BY <1>1, <1>4, FreePtrType DEF ReallocfZero
    <2>2. [stage |-> "drop", slot |-> i, old |-> held[i].ptr] \in Calls
      BY <1>1, CallTypes
    <2>. QED  BY <1>1, <1>4, <2>1, <2>2, NoBlockType DEF ReallocfZero
  <1>5. ASSUME NEW t \in Threads, NEW i \in Slots, NEW size \in Sizes,
               NEW api \in Apis, Realloc(t, api, i, size)
        PROVE  PoolTypeOK' /\ Clients
    <2>1. RoundUp(size) \in Nat /\ held[i].ptr \in Nat
      BY <1>1, SizesType
    <2>2. Idle \in Calls  BY <2>1, CallTypes
    <2>3. ASSUME NEW loc \in Find(held[i].ptr),
                 Shrink(loc[1], loc[2], RoundUp(size)),
                 events' = events \cup {"shrunk"},
                 calls' = [calls EXCEPT ![t] =
                   [stage |-> "finish", slot |-> i, old |-> held[i].ptr,
                    new |-> held[i].ptr, size |-> RoundUp(size)]],
                 UNCHANGED <<mapped, held, lock, status>>
          PROVE  PoolTypeOK' /\ Clients
      <3>1. pool' \in Seq(Zone)
        BY <1>1, <2>1, <2>3, FindInPool, ShrinkSteps
      <3>2. [stage |-> "finish", slot |-> i, old |-> held[i].ptr,
             new |-> held[i].ptr, size |-> RoundUp(size)] \in Calls
        BY <2>1, CallTypes
      <3>3. events' \subseteq Events  BY <1>1, <2>3 DEF Events
      <3>. QED  BY <1>1, <2>1, <2>3, <3>1, <3>2, <3>3
    <2>4. ASSUME calls' = [calls EXCEPT ![t] =
                   [stage |-> "move", api |-> api, slot |-> i,
                    old |-> held[i].ptr, size |-> RoundUp(size)]],
                 UNCHANGED <<pool, events, mapped, held, lock, status>>
          PROVE  PoolTypeOK' /\ Clients
      <3>1. [stage |-> "move", api |-> api, slot |-> i,
             old |-> held[i].ptr, size |-> RoundUp(size)] \in Calls
        BY <2>1, CallTypes
      <3>. QED  BY <1>1, <2>1, <2>4, <3>1
    <2>5. ASSUME Missed,
                 calls' = [calls EXCEPT ![t] =
                   IF api = "reallocf" /\ ~AbortOnErr
                   THEN [stage |-> "drop", slot |-> i, old |-> held[i].ptr]
                   ELSE Idle],
                 UNCHANGED held
          PROVE  PoolTypeOK' /\ Clients
      <3>1. [stage |-> "drop", slot |-> i, old |-> held[i].ptr] \in Calls
        BY <2>1, CallTypes
      <3>2. PoolTypeOK'  BY <1>1, <2>5, MissedType
      <3>. QED  BY <1>1, <2>1, <2>2, <2>5, <3>1, <3>2
    <2>6. ASSUME held' = [held EXCEPT ![i].size = RoundUp(size)],
                 UNCHANGED <<pool, mapped, calls, lock, status, events>>
          PROVE  PoolTypeOK' /\ Clients
      BY <1>1, <2>1, <2>6
    <2>. QED  BY <1>5, <2>3, <2>4, <2>5, <2>6 DEF Realloc
  <1>6. ASSUME NEW t \in Threads, ReallocMove(t)
        PROVE  PoolTypeOK' /\ Clients
    <2>1. /\ calls[t].api \in Apis /\ calls[t].slot \in Slots
          /\ calls[t].old \in Nat /\ calls[t].size \in Nat
          /\ held' = held
      BY <1>1, <1>6, CallFields DEF ReallocMove
    <2>2. ASSUME GiveUp(t) PROVE Clients
      <3>1. [stage |-> "drop", slot |-> calls[t].slot, old |-> calls[t].old]
              \in Calls /\ Idle \in Calls
        BY <2>1, CallTypes
      <3>. QED  BY <1>1, <2>1, <2>2, <3>1 DEF GiveUp
    <2>3. ASSUME NEW o \in MallocOutcomes(calls[t].size), Serve(o),
                 IF o.ptr = NULL THEN GiveUp(t)
                 ELSE calls' = [calls EXCEPT ![t] =
                        [stage |-> "finish", slot |-> @.slot, old |-> @.old,
                         new |-> o.ptr, size |-> @.size]]
          PROVE  PoolTypeOK' /\ Clients
      <3>1. PoolTypeOK' /\ o.ptr \in Nat  BY <1>1, <2>1, <2>3, ServeType
      <3>2. [stage |-> "finish", slot |-> calls[t].slot, old |-> calls[t].old,
             new |-> o.ptr, size |-> calls[t].size] \in Calls
        BY <2>1, <3>1, CallTypes
      <3>3. CASE o.ptr = NULL  BY <2>2, <2>3, <3>1, <3>3
      <3>4. CASE o.ptr # NULL  BY <1>1, <2>1, <2>3, <3>1, <3>2, <3>4
      <3>. QED  BY <3>3, <3>4
    <2>4. CASE Refuse(t, calls[t].size) /\ GiveUp(t)
      BY <1>1, <2>2, <2>4, RefuseType
    <2>. QED  BY <1>6, <2>3, <2>4 DEF ReallocMove
  <1>7. ASSUME NEW t \in Threads, ReallocFinish(t)
        PROVE  PoolTypeOK' /\ Clients
    <2>1. /\ calls[t].slot \in Slots /\ calls[t].new \in Nat
          /\ calls[t].old \in Nat /\ calls[t].size \in Nat
      BY <1>1, <1>7, CallFields DEF ReallocFinish
    <2>2. PoolTypeOK'  BY <1>1, <1>7, FreePtrType DEF ReallocFinish
    <2>3. Idle \in Calls  BY <2>1, CallTypes
    <2>. QED  BY <1>1, <1>7, <2>1, <2>2, <2>3 DEF ReallocFinish
  <1>8. ASSUME NEW t \in Threads, ReallocfDrop(t)
        PROVE  PoolTypeOK' /\ Clients
    <2>1. calls[t].slot \in Slots /\ calls[t].old \in Nat
      BY <1>1, <1>8, CallFields DEF ReallocfDrop
    <2>2. Idle \in Calls  BY <2>1, CallTypes
    <2>3. Clients  BY <1>1, <1>8, <2>1, <2>2, NoBlockType DEF ReallocfDrop
    <2>4. CASE Missed  BY <1>1, <2>3, <2>4, MissedType
    <2>5. ASSUME NEW loc \in Find(calls[t].old), Release(loc[1], loc[2]),
                 events' = events \cup LeftMapped
                             \cup (IF held[calls[t].slot] = NoBlock
                                    THEN {"twice"} ELSE {}),
                 UNCHANGED lock
          PROVE  PoolTypeOK'
      <3>1. events' \subseteq Events  BY <1>1, <2>5 DEF Events, LeftMapped
      <3>. QED  BY <1>1, <2>5, <3>1, ReleaseType
    <2>. QED  BY <1>8, <2>3, <2>4, <2>5 DEF ReallocfDrop
  <1>9. CASE UNCHANGED vars
    BY <1>1, <1>9 DEF TypeOK, vars
  <1>10. CASE Next
    <2>1. PoolTypeOK' /\ Clients
      BY <1>2, <1>3, <1>4, <1>5, <1>6, <1>7, <1>8, <1>10 DEF Next, Step
    <2>. QED  BY <2>1 DEF TypeOK
  <1>. QED  BY <1>9, <1>10

(* The type invariant holds for every number of threads and slots, every *)
(* size and every page and header size.                                  *)
THEOREM TypeCorrect == Spec => []TypeOK
  BY TypeInit, TypeStep, PTL DEF Spec

-----------------------------------------------------------------------------
(* The allocation lists                                                  *)

(* What ListsSound says of one zone.                                     *)
Sound(z, happened) ==
  /\ Sorted(z)
  /\ LinksSound(z)
  /\ "interior" \notin happened => Linked(z)
  /\ "shrunk" \notin happened => Ordered(z)

(* ListsSound, zone by zone.                                             *)
LEMMA ListsSoundIsSound ==
  ListsSound <=> \A k \in DOMAIN pool : Sound(pool[k], events)
  BY DEF ListsSound, Sound

(* A sound zone stays sound when more has happened.                      *)
LEMMA SoundLater ==
  ASSUME NEW z, NEW S, NEW T, S \subseteq T, Sound(z, S)
  PROVE  Sound(z, T)
  BY DEF Sound

(* An empty list is sound.                                               *)
LEMMA EmptyIsSound ==
  ASSUME NEW z \in Zone, z.allocs = << >>
  PROVE  Sorted(z) /\ LinksSound(z) /\ Linked(z) /\ Ordered(z)
  BY DEF Sorted, LinksSound, Linked, Ordered

(* Carving a block out of a sound zone leaves it sound, given what the   *)
(* step records as having happened.                                      *)
LEMMA CarveSound ==
  ASSUME NEW z \in Zone, Sound(z, events),
         NEW size \in Nat, NEW c \in Carve(z, size),
         events' = IF c.listed THEN events ELSE events \cup {"interior"}
  PROVE  Sound(c.zone, events')
  <1>1. /\ Sorted(c.zone) /\ LinksSound(c.zone)
        /\ Linked(z) /\ c.listed => Linked(c.zone)
        /\ Ordered(z) => Ordered(c.zone)
    BY CarveKeepsZone DEF Sound
  <1>2. "shrunk" \notin events' => "shrunk" \notin events  OBVIOUS
  <1>3. "interior" \notin events' => c.listed /\ "interior" \notin events
    OBVIOUS
  <1>. QED  BY <1>1, <1>2, <1>3 DEF Sound

(* Serving a request keeps every list sound.                             *)
LEMMA ServeSound ==
  ASSUME PoolTypeOK, ListsSound,
         NEW size \in Nat, NEW o \in MallocOutcomes(size), Serve(o)
  PROVE  ListsSound'
  <1>1. ASSUME NEW m \in DOMAIN o.pool PROVE Sound(o.pool[m], events')
    <2>1. /\ pool \in Seq(Zone) /\ mapped \subseteq Int
          /\ \A k \in DOMAIN pool : pool[k] \in Zone /\ Sound(pool[k], events)
      BY ListsSoundIsSound, LenProperties, ElementOfSeq DEF PoolTypeOK
    <2>2. events' = IF o.listed THEN events ELSE events \cup {"interior"}
      BY DEF Serve
    <2>3. CASE m \in DOMAIN pool /\ o.pool[m] = pool[m]
      <3>1. events \subseteq events'  BY <2>2
      <3>. QED  BY <2>1, <2>3, <3>1, SoundLater
    <2>4. ASSUME m \in DOMAIN pool, NEW c \in Carve(pool[m], size),
                 o.pool[m] = c.zone, o.listed = c.listed
          PROVE  Sound(o.pool[m], events')
      BY <2>1, <2>2, <2>4, CarveSound
    <2>5. ASSUME NEW base \in Nat, NEW c \in Carve(FreshZone(base, size), size),
                 o.pool[m] = c.zone, o.listed = c.listed
          PROVE  Sound(o.pool[m], events')
      <3>1. FreshZone(base, size) \in Zone /\ Sound(FreshZone(base, size), events)
        BY FreshZoneType, EmptyIsSound DEF Sound
      <3>. QED  BY <2>2, <2>5, <3>1, CarveSound
    <2>. QED  BY <2>1, <2>3, <2>4, <2>5, MallocOutcomesType
  <1>. QED  BY <1>1 DEF Serve, ListsSound, Sound

(* free keeps every list as it should be, whatever zone is given back.   *)
LEMMA ReleaseSound ==
  ASSUME PoolTypeOK, ListsSound,
         NEW ptr, NEW loc \in Find(ptr), Release(loc[1], loc[2]),
         events \subseteq events'
  PROVE  ListsSound'
  <1> DEFINE k == loc[1]
             j == loc[2]
  <1>1. \A m \in DOMAIN pool : pool[m] \in Zone /\ Sound(pool[m], events)
    BY ListsSoundIsSound, LenProperties, ElementOfSeq DEF PoolTypeOK
  <1>2. k \in DOMAIN pool /\ j \in 1..Len(pool[k].allocs)
    BY FindInPool
  <1>3. Sound(FreedZone(pool[k], j), events)
    <2>1. /\ pool[k] \in Zone /\ FreedZone(pool[k], j) \in Zone
          /\ FreedZone(pool[k], j).base = pool[k].base
          /\ FreedZone(pool[k], j).allocs = Unlink(pool[k].allocs, j)
      BY <1>1, <1>2, FreedZoneType
    <2>. QED  BY <1>1, <1>2, <2>1, UnlinkKeepsList DEF Sound
  <1>4. \A m \in DOMAIN pool' :
          \/ \E l \in DOMAIN pool : pool'[m] = pool[l]
          \/ pool'[m] = FreedZone(pool[k], j)
    BY ReleaseZones DEF PoolTypeOK
  <1> HIDE DEF k, j
  <1>5. \A m \in DOMAIN pool' : Sound(pool'[m], events)
    BY <1>1, <1>3, <1>4
  <1>. QED  BY <1>5, SoundLater DEF ListsSound, Sound

(* The critical section of free keeps every list sound.                  *)
LEMMA FreePtrSound ==
  ASSUME PoolTypeOK, ListsSound, NEW ptr, FreePtr(ptr)
  PROVE  ListsSound'
  <1>1. CASE Missed  BY <1>1 DEF Missed, ListsSound
  <1>2. ASSUME NEW loc \in Find(ptr), Release(loc[1], loc[2]),
               events' = events \cup LeftMapped
        PROVE  ListsSound'
    BY <1>2, ReleaseSound
  <1>. QED  BY <1>1, <1>2 DEF FreePtr

(* Shrinking a block in place keeps every list sound.                    *)
LEMMA ShrinkSound ==
  ASSUME PoolTypeOK, ListsSound, NEW k \in DOMAIN pool,
         NEW j \in 1..Len(pool[k].allocs), NEW size \in Nat,
         Shrink(k, j, size), events' = events \cup {"shrunk"}
  PROVE  ListsSound'
  <1>1. /\ pool \in Seq(Zone)
        /\ \A m \in DOMAIN pool : pool[m] \in Zone /\ Sound(pool[m], events)
    BY ListsSoundIsSound, LenProperties, ElementOfSeq DEF PoolTypeOK
  <1>2. /\ pool' \in Seq(Zone) /\ DOMAIN pool' = DOMAIN pool
        /\ \A m \in DOMAIN pool : m # k => pool'[m] = pool[m]
        /\ pool'[k].base = pool[k].base
        /\ pool'[k].allocs = [pool[k].allocs EXCEPT ![j].size = size]
    BY <1>1, ShrinkSteps
  <1>3. pool'[k] \in Zone  BY <1>2, LenProperties, ElementOfSeq
  <1>4. Sound(pool'[k], events')
    <2>1. pool[k] \in Zone /\ Sound(pool[k], events)  BY <1>1
    <2>. QED  BY <1>2, <1>3, <2>1, ResizeKeepsList DEF Sound
  <1>5. ASSUME NEW m \in DOMAIN pool' PROVE Sound(pool'[m], events')
    BY <1>1, <1>2, <1>4, SoundLater
  <1>. QED  BY <1>5 DEF ListsSound, Sound

(* Every critical section of malloc, free, realloc and reallocf keeps    *)
(* the lists sound: the inductive step of ListsCorrect.                  *)
THEOREM ListsStep == TypeOK /\ ListsSound /\ [Next]_vars => ListsSound'
  <1> SUFFICES ASSUME TypeOK, ListsSound, [Next]_vars PROVE ListsSound'
    OBVIOUS
  <1>1. /\ PoolTypeOK
        /\ \A t \in Threads : calls[t] \in Calls
        /\ \A i \in Slots : held[i].ptr \in Nat
    BY DEF TypeOK, PoolTypeOK
  <1>2. ASSUME UNCHANGED <<pool, events>> PROVE ListsSound'
    BY <1>2 DEF ListsSound
  <1>3. ASSUME UNCHANGED pool, events \subseteq events' PROVE ListsSound'
    BY <1>3 DEF ListsSound
  <1>4. ASSUME NEW t \in Threads, NEW i \in Slots, NEW size \in Sizes,
               Malloc(t, i, size)
        PROVE  ListsSound'
    <2>1. CASE Refuse(t, RoundUp(size))  BY <1>3, <2>1 DEF Refuse
    <2>2. ASSUME NEW o \in MallocOutcomes(RoundUp(size)), Serve(o)
          PROVE  ListsSound'
      BY <1>1, <2>2, SizesType, ServeSound
    <2>. QED  BY <1>4, <2>1, <2>2 DEF Malloc
  <1>5. ASSUME NEW t \in Threads, NEW i \in Slots, Free(t, i)
        PROVE  ListsSound'
    BY <1>1, <1>5, FreePtrSound DEF Free
  <1>6. ASSUME NEW t \in Threads, NEW i \in Slots, ReallocfZero(t, i)
        PROVE  ListsSound'
    BY <1>1, <1>6, FreePtrSound DEF ReallocfZero
  <1>7. ASSUME NEW t \in Threads, NEW i \in Slots, NEW size \in Sizes,
               NEW api \in Apis, Realloc(t, api, i, size)
        PROVE  ListsSound'
    <2>1. CASE Missed  BY <1>3, <2>1 DEF Missed
    <2>2. CASE UNCHANGED <<pool, events>>  BY <1>2, <2>2
    <2>3. ASSUME NEW loc \in Find(held[i].ptr),
                 Shrink(loc[1], loc[2], RoundUp(size)),
                 events' = events \cup {"shrunk"}
          PROVE  ListsSound'
      BY <1>1, <2>3, SizesType, FindInPool, ShrinkSound
    <2>. QED  BY <1>7, <2>1, <2>2, <2>3 DEF Realloc
  <1>8. ASSUME NEW t \in Threads, ReallocMove(t) PROVE ListsSound'
    <2>1. calls[t].size \in Nat  BY <1>1, <1>8, CallFields DEF ReallocMove
    <2>2. CASE Refuse(t, calls[t].size)  BY <1>3, <2>2 DEF Refuse
    <2>3. ASSUME NEW o \in MallocOutcomes(calls[t].size), Serve(o)
          PROVE  ListsSound'
      BY <1>1, <2>1, <2>3, ServeSound
    <2>. QED  BY <1>8, <2>2, <2>3 DEF ReallocMove
  <1>9. ASSUME NEW t \in Threads, ReallocFinish(t) PROVE ListsSound'
    BY <1>1, <1>9, FreePtrSound DEF ReallocFinish
  <1>10. ASSUME NEW t \in Threads, ReallocfDrop(t) PROVE ListsSound'
    <2>1. CASE Missed  BY <1>3, <2>1 DEF Missed
    <2>2. ASSUME NEW loc \in Find(calls[t].old), Release(loc[1], loc[2]),
                 events \subseteq events'
          PROVE  ListsSound'
      BY <1>1, <2>2, ReleaseSound
    <2>. QED  BY <1>10, <2>1, <2>2 DEF ReallocfDrop
  <1>11. CASE UNCHANGED vars  BY <1>2, <1>11 DEF vars
  <1>12. CASE Next
    BY <1>4, <1>5, <1>6, <1>7, <1>8, <1>9, <1>10, <1>12 DEF Next, Step
  <1>. QED  BY <1>11, <1>12

(* Lists stay ascending, with prev pointers in place or harmless; they   *)
(* stay in place until a block is placed between two others, and listed  *)
(* blocks stay disjoint until realloc has shrunk one in place.           *)
THEOREM ListsCorrect == Spec => []ListsSound
  <1>1. Init => ListsSound  BY DEF Init, ListsSound
  <1>. QED  BY <1>1, ListsStep, TypeCorrect, PTL DEF Spec

(* free never unlinks a block other than the one it was asked for, also  *)
(* after prev pointers have been broken.                                 *)
THEOREM FreeDropsCorrect == Spec => []FreeDropsOnlyItsBlock
  <1>1. TypeOK /\ ListsSound => FreeDropsOnlyItsBlock
    <2> SUFFICES ASSUME TypeOK, ListsSound,
                        NEW k \in DOMAIN pool, NEW j \in DOMAIN pool[k].allocs
                 PROVE  PrevIndex(pool[k].allocs, j) \subseteq {j - 1}
      BY DEF FreeDropsOnlyItsBlock
    <2>1. pool[k] \in Zone  BY LenProperties, ElementOfSeq DEF TypeOK
    <2>2. j \in 1..Len(pool[k].allocs)  BY <2>1, LenProperties DEF Zone
    <2>3. Sorted(pool[k]) /\ LinksSound(pool[k])  BY DEF ListsSound
    <2>. QED  BY <2>1, <2>2, <2>3, PrevIndexInPlace
  <1>. QED  BY <1>1, TypeCorrect, ListsCorrect, PTL

-----------------------------------------------------------------------------
(* Zones                                                                 *)

(* A large zone that loses its block is unmapped in the same critical    *)
(* section; one whose block could not be unlinked keeps it.              *)
LEMMA LargeReleased ==
  ASSUME PoolTypeOK, ListsSound, LargeZonesHoldOneBlock,
         NEW ptr, NEW loc \in Find(ptr), Release(loc[1], loc[2])
  PROVE  LargeZonesHoldOneBlock'
  <1> DEFINE k == loc[1]
             j == loc[2]
             z == pool[k]
             y == FreedZone(z, j)
  <1>1. k \in DOMAIN pool /\ z \in Zone /\ j \in 1..Len(z.allocs)
        /\ Sorted(z) /\ LinksSound(z)
    BY FindInPool, LenProperties, ElementOfSeq DEF PoolTypeOK, ListsSound
  <1>2. /\ FreedZoneSize(z) \in Nat /\ y \in Zone /\ y.type = z.type
        /\ y.allocs = Unlink(z.allocs, j)
        /\ y.allocs = << >> => y.free = FreedZoneSize(z) - ZoneHdr
    BY <1>1, FreedZoneType
  <1>3. ASSUME y.type = "large", ~Unmaps(z, j) PROVE Len(y.allocs) = 1
    <2>1. y.allocs # << >>
      BY <1>2, <1>3 DEF Unmaps
    <2>2. Len(z.allocs) = 1  BY <1>1, <1>2, <1>3 DEF LargeZonesHoldOneBlock
    <2>3. Len(y.allocs) \in {0, 1}
      <3>1. Len(y.allocs) = IF InPlace(z, j) THEN Len(z.allocs) - 1
                                             ELSE Len(z.allocs)
        <4> HIDE DEF z, y, j
        <4>. QED  BY <1>1, <1>2, UnlinkList
      <3>. QED  BY <2>2, <3>1
    <2>4. y.allocs \in Seq(Alloc)  BY <1>2 DEF Zone
    <2>. QED  BY <2>1, <2>3, <2>4, EmptySeq
  <1>4. \A m \in DOMAIN pool' :
          \/ \E l \in DOMAIN pool : pool'[m] = pool[l]
          \/ ~Unmaps(z, j) /\ pool'[m] = y
    BY ReleaseZones DEF PoolTypeOK
  <1> HIDE DEF y, z
  <1>. QED  BY <1>3, <1>4 DEF LargeZonesHoldOneBlock

(* free leaves no large zone empty.                                      *)
LEMMA LargeFreed ==
  ASSUME PoolTypeOK, ListsSound, LargeZonesHoldOneBlock,
         NEW ptr, FreePtr(ptr)
  PROVE  LargeZonesHoldOneBlock'
  BY LargeReleased DEF FreePtr, Missed, LargeZonesHoldOneBlock

(* malloc puts no second block into a large zone.                        *)
LEMMA LargeServed ==
  ASSUME PoolTypeOK, LargeZonesHoldOneBlock,
         NEW size \in Nat, NEW o \in MallocOutcomes(size), Serve(o)
  PROVE  LargeZonesHoldOneBlock'
  <1>1. ASSUME NEW m \in DOMAIN o.pool
        PROVE  o.pool[m].type = "large" => Len(o.pool[m].allocs) = 1
    <2>1. CASE m \in DOMAIN pool /\ o.pool[m] = pool[m]
      BY <2>1 DEF LargeZonesHoldOneBlock
    <2>2. ASSUME m \in DOMAIN pool, pool[m].type # "large",
                 NEW c \in Carve(pool[m], size), o.pool[m] = c.zone
          PROVE  o.pool[m].type # "large"
      <3>1. pool[m] \in Zone  BY <2>2, LenProperties, ElementOfSeq DEF PoolTypeOK
      <3>. QED  BY <2>2, <3>1, CarveKeepsZone
    <2>3. ASSUME NEW base \in Nat, NEW c \in Carve(FreshZone(base, size), size),
                 o.pool[m] = c.zone
          PROVE  Len(o.pool[m].allocs) = 1
      BY <2>3, FreshZoneType, CarveKeepsZone
    <2>. QED  BY <2>1, <2>2, <2>3, MallocOutcomesType DEF PoolTypeOK
  <1>. QED  BY <1>1 DEF Serve, LargeZonesHoldOneBlock

(* Shrinking a block in place leaves the number of blocks as it is.      *)
LEMMA LargeShrunk ==
  ASSUME PoolTypeOK, LargeZonesHoldOneBlock, NEW k \in DOMAIN pool,
         NEW j \in 1..Len(pool[k].allocs), NEW size \in Nat, Shrink(k, j, size)
  PROVE  LargeZonesHoldOneBlock'
  <1>1. /\ DOMAIN pool' = DOMAIN pool
        /\ \A m \in DOMAIN pool : m # k => pool'[m] = pool[m]
        /\ pool'[k].type = pool[k].type
        /\ Len(pool'[k].allocs) = Len(pool[k].allocs)
    BY ShrinkSteps DEF PoolTypeOK
  <1>. QED  BY <1>1 DEF LargeZonesHoldOneBlock

(* Every critical section keeps one block in each large zone.            *)
THEOREM LargeStep ==
  TypeOK /\ ListsSound /\ LargeZonesHoldOneBlock /\ [Next]_vars
    => LargeZonesHoldOneBlock'
  <1> SUFFICES ASSUME TypeOK, ListsSound, LargeZonesHoldOneBlock, [Next]_vars
               PROVE  LargeZonesHoldOneBlock'
    OBVIOUS
  <1>1. PoolTypeOK /\ \A t \in Threads : calls[t] \in Calls
    BY DEF TypeOK, PoolTypeOK
  <1>2. ASSUME UNCHANGED pool PROVE LargeZonesHoldOneBlock'
    BY <1>2 DEF LargeZonesHoldOneBlock
  <1>3. ASSUME NEW t \in Threads, NEW i \in Slots, NEW size \in Sizes,
               Malloc(t, i, size)
        PROVE  LargeZonesHoldOneBlock'
    BY <1>1, <1>2, <1>3, SizesType, LargeServed DEF Malloc, Refuse
  <1>4. ASSUME NEW t \in Threads, NEW i \in Slots,
               Free(t, i) \/ ReallocfZero(t, i)
        PROVE  LargeZonesHoldOneBlock'
    BY <1>1, <1>4, LargeFreed DEF Free, ReallocfZero
  <1>5. ASSUME NEW t \in Threads, NEW i \in Slots, NEW size \in Sizes,
               NEW api \in Apis, Realloc(t, api, i, size)
        PROVE  LargeZonesHoldOneBlock'
    <2>1. ASSUME NEW loc \in Find(held[i].ptr),
                 Shrink(loc[1], loc[2], RoundUp(size))
          PROVE  LargeZonesHoldOneBlock'
      BY <1>1, <2>1, SizesType, FindInPool, LargeShrunk
    <2>. QED  BY <1>2, <1>5, <2>1 DEF Realloc, Missed
  <1>6. ASSUME NEW t \in Threads, ReallocMove(t) PROVE LargeZonesHoldOneBlock'
    <2>1. calls[t].size \in Nat  BY <1>1, <1>6, CallFields DEF ReallocMove
    <2>. QED  BY <1>1, <1>2, <1>6, <2>1, LargeServed DEF ReallocMove, Refuse
  <1>7. ASSUME NEW t \in Threads, ReallocFinish(t) PROVE LargeZonesHoldOneBlock'
    BY <1>1, <1>7, LargeFreed DEF ReallocFinish
  <1>8. ASSUME NEW t \in Threads, ReallocfDrop(t) PROVE LargeZonesHoldOneBlock'
    BY <1>1, <1>2, <1>8, LargeReleased DEF ReallocfDrop, Missed
  <1>9. CASE UNCHANGED vars  BY <1>2, <1>9 DEF vars
  <1>10. CASE Next
    BY <1>3, <1>4, <1>5, <1>6, <1>7, <1>8, <1>10 DEF Next, Step
  <1>. QED  BY <1>9, <1>10

(* A zone of type large holds exactly one block for as long as it        *)
(* exists.                                                               *)
THEOREM LargeCorrect == Spec => []LargeZonesHoldOneBlock
  <1>1. Init => LargeZonesHoldOneBlock  BY DEF Init, LargeZonesHoldOneBlock
  <1>. QED  BY <1>1, LargeStep, TypeCorrect, ListsCorrect, PTL DEF Spec

(* What KeepsAZone says of one step.                                     *)
KeepsAZoneNow ==
  \A k \in DOMAIN pool :
    Len(pool') < Len(pool) /\ pool[k].type # "large"
      => \E m \in DOMAIN pool' : pool'[m].type = pool[k].type

(* A step that loses no zone keeps a zone of each type.                  *)
LEMMA NoZoneLost ==
  ASSUME pool \in Seq(Zone), pool' \in Seq(Zone), Len(pool') >= Len(pool)
  PROVE  KeepsAZoneNow
  BY LenProperties DEF KeepsAZoneNow

(* A tiny or small zone is given back only if                            *)
(* is_only_one_or_less_zone_with_type has counted two of its type, one   *)
(* of which is another.                                                  *)
LEMMA ReleaseKeepsAZone ==
  ASSUME PoolTypeOK, NEW ptr, NEW loc \in Find(ptr), Release(loc[1], loc[2])
  PROVE  KeepsAZoneNow
  <1> DEFINE k == loc[1]
             j == loc[2]
             n == Len(pool)
  <1>1. /\ n \in Nat /\ DOMAIN pool = 1..n
        /\ k \in 1..n /\ j \in 1..Len(pool[k].allocs)
        /\ pool[k] \in Zone /\ Release(k, j)
    BY FindInPool, LenProperties, ElementOfSeq DEF PoolTypeOK
  <1>2. j \in DOMAIN pool[k].allocs  BY <1>1, LenProperties DEF Zone
  <1> HIDE DEF k, j
  <1>3. /\ pool' \in Seq(Zone)
        /\ \/ /\ Unmaps(pool[k], j)
              /\ Len(pool') = n - 1
              /\ \A m \in DOMAIN pool' :
                   pool'[m] = pool[IF m < k THEN m ELSE m + 1]
           \/ Len(pool') = n
    BY <1>1, <1>2, ReleaseSteps DEF PoolTypeOK
  <1>4. DOMAIN pool' = 1..Len(pool')  BY <1>3, LenProperties
  <1>5. CASE Len(pool') = n  BY <1>1, <1>3, <1>5, NoZoneLost DEF PoolTypeOK
  <1>6. CASE /\ Unmaps(pool[k], j)
             /\ Len(pool') = n - 1
             /\ \A m \in DOMAIN pool' :
                  pool'[m] = pool[IF m < k THEN m ELSE m + 1]
    <2>1. ASSUME NEW l \in 1..n, l # k
          PROVE  \E m \in DOMAIN pool' : pool'[m].type = pool[l].type
      <3>1. CASE l < k
        <4>1. l \in 1..(n - 1)  BY <1>1, <3>1
        <4>. QED  BY <1>4, <1>6, <3>1, <4>1
      <3>2. CASE ~(l < k)
        <4>1. l - 1 \in 1..(n - 1) /\ ~(l - 1 < k) /\ (l - 1) + 1 = l
          BY <1>1, <2>1, <3>2
        <4>. QED  BY <1>4, <1>6, <4>1
      <3>. QED  BY <3>1, <3>2
    <2>2. ASSUME pool[k].type # "large"
          PROVE  \E m \in DOMAIN pool' : pool'[m].type = pool[k].type
      <3> DEFINE same == {l \in 1..(n - 1) : pool[l].type = pool[k].type}
      <3>1. ~(Cardinality(same) <= 1)
        BY <1>6, <2>2 DEF Unmaps, IsOnlyOneOrLess
      <3>2. ~(same \subseteq {k})
        <4>1. IsFiniteSet({k}) /\ Cardinality({k}) = 1  BY FS_Singleton
        <4> HIDE DEF same
        <4>2. ASSUME same \subseteq {k} PROVE Cardinality(same) <= 1
          BY <4>1, <4>2, FS_Subset
        <4>. QED  BY <3>1, <4>2
      <3>3. PICK l \in same : l # k  BY <3>2
      <3>4. l \in 1..n  BY <1>1
      <3>. QED  BY <2>1, <3>3, <3>4
    <2>. QED  BY <1>1, <2>1, <2>2 DEF KeepsAZoneNow
  <1>. QED  BY <1>3, <1>5, <1>6

(* Every critical section keeps a zone of each of the types tiny and small *)
(* it found.                                                             *)
THEOREM KeepsAZoneStep == TypeOK /\ [Next]_vars => KeepsAZoneNow
  <1> SUFFICES ASSUME TypeOK, [Next]_vars PROVE KeepsAZoneNow  OBVIOUS
  <1>1. /\ PoolTypeOK /\ pool \in Seq(Zone)
        /\ \A t \in Threads : calls[t] \in Calls
    BY DEF TypeOK, PoolTypeOK
  <1>2. ASSUME UNCHANGED pool PROVE KeepsAZoneNow
    <2>1. Len(pool) \in Nat  BY <1>1, LenProperties
    <2>. QED  BY <1>1, <1>2, <2>1, NoZoneLost
  <1>3. ASSUME NEW size \in Nat, NEW o \in MallocOutcomes(size), Serve(o)
        PROVE  KeepsAZoneNow
    <2>1. /\ pool' = o.pool /\ o.pool \in Seq(Zone)
          /\ Len(o.pool) >= Len(pool)
      BY <1>1, <1>3, MallocOutcomesType DEF PoolTypeOK, Serve
    <2>. QED  BY <1>1, <2>1, NoZoneLost
  <1>4. ASSUME NEW ptr, FreePtr(ptr) PROVE KeepsAZoneNow
    BY <1>1, <1>2, <1>4, ReleaseKeepsAZone DEF FreePtr, Missed
  <1>5. ASSUME NEW t \in Threads, NEW i \in Slots, NEW size \in Sizes,
               Malloc(t, i, size)
        PROVE  KeepsAZoneNow
    BY <1>2, <1>3, <1>5, SizesType DEF Malloc, Refuse
  <1>6. ASSUME NEW t \in Threads, NEW i \in Slots,
               Free(t, i) \/ ReallocfZero(t, i)
        PROVE  KeepsAZoneNow
    BY <1>4, <1>6 DEF Free, ReallocfZero
  <1>7. ASSUME NEW t \in Threads, NEW i \in Slots, NEW size \in Sizes,
               NEW api \in Apis, Realloc(t, api, i, size)
        PROVE  KeepsAZoneNow
    <2>1. ASSUME NEW loc \in Find(held[i].ptr),
                 Shrink(loc[1], loc[2], RoundUp(size))
          PROVE  KeepsAZoneNow
      <3>1. pool' \in Seq(Zone) /\ Len(pool') = Len(pool) /\ Len(pool) \in Nat
        BY <1>1, <2>1, SizesType, FindInPool, ShrinkSteps, LenProperties
      <3>. QED  BY <1>1, <3>1, NoZoneLost
    <2>. QED  BY <1>2, <1>7, <2>1 DEF Realloc, Missed
  <1>8. ASSUME NEW t \in Threads, ReallocMove(t) PROVE KeepsAZoneNow
    <2>1. calls[t].size \in Nat  BY <1>1, <1>8, CallFields DEF ReallocMove
    <2>. QED  BY <1>2, <1>3, <1>8, <2>1 DEF ReallocMove, Refuse
  <1>9. ASSUME NEW t \in Threads, ReallocFinish(t) PROVE KeepsAZoneNow
    BY <1>4, <1>9 DEF ReallocFinish
  <1>10. ASSUME NEW t \in Threads, ReallocfDrop(t) PROVE KeepsAZoneNow
    BY <1>1, <1>2, <1>10, ReleaseKeepsAZone DEF ReallocfDrop, Missed
  <1>11. CASE UNCHANGED vars  BY <1>2, <1>11 DEF vars
  <1>12. CASE Next
    BY <1>5, <1>6, <1>7, <1>8, <1>9, <1>10, <1>12 DEF Next, Step
  <1>. QED  BY <1>11, <1>12

(* No step that gives a zone back takes the last tiny or the last small  *)
(* one, wherever in the list the freed zone stands.                      *)
THEOREM KeepsAZoneCorrect == Spec => KeepsAZone
  <1>1. TypeOK /\ [Next]_vars => [KeepsAZoneNow]_vars  BY KeepsAZoneStep
  <1>. QED  BY <1>1, TypeCorrect, PTL DEF Spec, KeepsAZone, KeepsAZoneNow

-----------------------------------------------------------------------------
(* Empty zones                                                           *)

(* The zones of a type that stand empty in a list of zones.              *)
Empties(p, type) ==
  {k \in DOMAIN p : p[k].type = type /\ p[k].allocs = << >>}

(* They can be counted.                                                  *)
LEMMA EmptiesFinite ==
  ASSUME NEW p \in Seq(Zone), NEW type
  PROVE  IsFiniteSet(Empties(p, type)) /\ Cardinality(Empties(p, type)) \in Nat
  <1>1. IsFiniteSet(1..Len(p))  BY LenProperties, FS_Interval
  <1>2. Empties(p, type) \subseteq 1..Len(p)  BY LenProperties DEF Empties
  <1>. QED  BY <1>1, <1>2, FS_Subset, FS_CardinalityType

(* A list whose empty zones stand where another's do has no more of them. *)
LEMMA EmptiesSubset ==
  ASSUME NEW p \in Seq(Zone), NEW q, NEW type,
         Empties(q, type) \subseteq Empties(p, type)
  PROVE  Cardinality(Empties(q, type)) <= Cardinality(Empties(p, type))
  BY EmptiesFinite, FS_Subset

(* Taking a zone out of a list adds no empty one.                        *)
LEMMA EmptiesRemoved ==
  ASSUME NEW p \in Seq(Zone), NEW q \in Seq(Zone), NEW type,
         NEW k \in 1..Len(p), Len(q) = Len(p) - 1,
         \A m \in DOMAIN q : q[m] = p[IF m < k THEN m ELSE m + 1]
  PROVE  Cardinality(Empties(q, type)) <= Cardinality(Empties(p, type))
  <1> DEFINE S == Empties(q, type)
             T == Empties(p, type)
             f == [m \in S |-> IF m < k THEN m ELSE m + 1]
  <1>1. /\ Len(p) \in Nat /\ DOMAIN p = 1..Len(p)
        /\ DOMAIN q = 1..(Len(p) - 1)
    BY LenProperties
  <1>2. ASSUME NEW m \in S
        PROVE  m \in 1..(Len(p) - 1) /\ f[m] \in T
    <2>1. m \in 1..(Len(p) - 1) /\ q[m].type = type /\ q[m].allocs = << >>
      BY <1>1 DEF Empties
    <2>2. f[m] \in 1..Len(p)  BY <1>1, <2>1
    <2>3. p[f[m]] = q[m]  BY <1>1, <2>1
    <2>. QED  BY <1>1, <2>1, <2>2, <2>3 DEF Empties
  <1>3. ASSUME NEW m \in S, NEW l \in S, f[m] = f[l] PROVE m = l
    <2>1. m \in Int /\ l \in Int  BY <1>2
    <2> HIDE DEF S
    <2>. QED  BY <1>1, <1>3, <2>1
  <1>4. f \in [S -> T]  BY <1>2
  <1> HIDE DEF S, T, f
  <1>5. f \in Injection(S, T)  BY <1>3, <1>4 DEF Injection, IsInjective
  <1>6. IsFiniteSet(T)  BY EmptiesFinite DEF T
  <1>. QED  BY <1>5, <1>6, FS_Injection DEF S, T

(* What AtMostTwoEmptyZones says of a list.                              *)
FewEmpties(p) ==
  \A type \in {"tiny", "small"} : Cardinality(Empties(p, type)) <= 2

(* malloc empties no zone: the zone a block comes from holds it.         *)
LEMMA EmptiesServed ==
  ASSUME PoolTypeOK, FewEmpties(pool),
         NEW size \in Nat, NEW o \in MallocOutcomes(size), Serve(o)
  PROVE  FewEmpties(pool')
  <1>1. ASSUME NEW type PROVE Empties(o.pool, type) \subseteq Empties(pool, type)
    <2> SUFFICES ASSUME NEW m \in DOMAIN o.pool,
                        o.pool[m].type = type, o.pool[m].allocs = << >>
                 PROVE  m \in DOMAIN pool /\ o.pool[m] = pool[m]
      BY DEF Empties
    <2>1. ASSUME m \in DOMAIN pool, NEW c \in Carve(pool[m], size),
                 o.pool[m] = c.zone
          PROVE  FALSE
      <3>1. pool[m] \in Zone  BY <2>1, LenProperties, ElementOfSeq DEF PoolTypeOK
      <3>. QED  BY <2>1, <3>1, CarveKeepsZone
    <2>2. ASSUME NEW base \in Nat, NEW c \in Carve(FreshZone(base, size), size),
                 o.pool[m] = c.zone
          PROVE  FALSE
      BY <2>2, FreshZoneType, CarveKeepsZone
    <2>. QED  BY <2>1, <2>2, MallocOutcomesType DEF PoolTypeOK
  <1>2. o.pool \in Seq(Zone) /\ pool \in Seq(Zone) /\ pool' = o.pool
    BY MallocOutcomesType DEF PoolTypeOK, Serve
  <1>3. ASSUME NEW type
        PROVE  Cardinality(Empties(o.pool, type)) <= Cardinality(Empties(pool, type))
    BY <1>1, <1>2, EmptiesSubset
  <1>4. \A type : /\ Cardinality(Empties(o.pool, type)) \in Nat
                  /\ Cardinality(Empties(pool, type)) \in Nat
    BY <1>2, EmptiesFinite
  <1>. QED  BY <1>2, <1>3, <1>4 DEF FewEmpties

(* free keeps a zone it has emptied only if the walk of                  *)
(* is_only_one_or_less_zone_with_type counts at most one of its type in  *)
(* front of the last: with the last there are two.                       *)
LEMMA EmptiesReleased ==
  ASSUME PoolTypeOK, FewEmpties(pool),
         NEW ptr, NEW loc \in Find(ptr), Release(loc[1], loc[2])
  PROVE  FewEmpties(pool')
  <1> DEFINE k == loc[1]
             j == loc[2]
             n == Len(pool)
             z == pool[k]
             y == FreedZone(z, j)
  <1>1. /\ n \in Nat /\ DOMAIN pool = 1..n
        /\ k \in 1..n /\ j \in 1..Len(z.allocs)
        /\ z \in Zone /\ Release(k, j) /\ pool \in Seq(Zone)
    BY FindInPool, LenProperties, ElementOfSeq DEF PoolTypeOK
  <1>2. j \in DOMAIN z.allocs  BY <1>1, LenProperties DEF Zone
  <1>3. y.type = z.type
        /\ (y.allocs = << >> => y.free = FreedZoneSize(z) - ZoneHdr)
    BY <1>1, FreedZoneType
  <1> HIDE DEF k, j
  <1>4. /\ pool' \in Seq(Zone)
        /\ \/ /\ Unmaps(z, j)
              /\ Len(pool') = n - 1
              /\ \A m \in DOMAIN pool' :
                   pool'[m] = pool[IF m < k THEN m ELSE m + 1]
           \/ /\ ~Unmaps(z, j)
              /\ Len(pool') = n
              /\ \A m \in DOMAIN pool' : pool'[m] = IF m = k THEN y ELSE pool[m]
    <2>1. /\ mapped \subseteq Int /\ status \in {"running", "aborted"}
          /\ k \in DOMAIN pool
      BY <1>1 DEF PoolTypeOK
    <2>. QED  BY <1>1, <1>2, <2>1, ReleaseSteps
  <1>5. \A type : /\ Cardinality(Empties(pool', type)) \in Nat
                  /\ Cardinality(Empties(pool, type)) \in Nat
    BY <1>1, <1>4, EmptiesFinite
  <1> HIDE DEF y
  <1>6. CASE /\ Len(pool') = n - 1
             /\ \A m \in DOMAIN pool' :
                  pool'[m] = pool[IF m < k THEN m ELSE m + 1]
    <2>1. ASSUME NEW type
          PROVE  Cardinality(Empties(pool', type)) <= Cardinality(Empties(pool, type))
      BY <1>1, <1>4, <1>6, EmptiesRemoved
    <2>. QED  BY <1>5, <2>1 DEF FewEmpties
  <1>7. CASE /\ ~Unmaps(z, j)
             /\ Len(pool') = n
             /\ \A m \in DOMAIN pool' : pool'[m] = IF m = k THEN y ELSE pool[m]
    <2>1. DOMAIN pool' = 1..n  BY <1>4, <1>7, LenProperties
    <2> SUFFICES ASSUME NEW type \in {"tiny", "small"}
                 PROVE  Cardinality(Empties(pool', type)) <= 2
      BY DEF FewEmpties
    <2>2. CASE y.allocs # << >> \/ z.type # type
      <3>1. Empties(pool', type) \subseteq Empties(pool, type)
        BY <1>1, <1>3, <1>7, <2>1, <2>2 DEF Empties
      <3>. QED  BY <1>1, <1>5, <3>1, EmptiesSubset DEF FewEmpties
    <2>3. CASE y.allocs = << >> /\ z.type = type
      <3> DEFINE same == {l \in 1..(n - 1) : pool[l].type = type}
      <3>1. Cardinality(same) <= 1
        BY <1>3, <1>7, <2>3 DEF Unmaps, IsOnlyOneOrLess, y
      <3>2. IsFiniteSet(same)
        <4>1. IsFiniteSet(1..(n - 1))  BY <1>1, FS_Interval
        <4>. QED  BY <4>1, FS_Subset
      <3>3. Empties(pool', type) \subseteq same \cup {n}
        <4> SUFFICES ASSUME NEW m \in 1..n, pool'[m].type = type
                     PROVE  m \in same \cup {n}
          BY <2>1 DEF Empties
        <4>1. pool[m].type = type  BY <1>7, <2>1, <2>3
        <4>2. m = n \/ m \in 1..(n - 1)
          <5>1. n \in Nat  BY <1>1
          <5> HIDE DEF n
          <5>. QED  BY <5>1
        <4>. QED  BY <4>1, <4>2
      <3> HIDE DEF same
      <3>4. /\ IsFiniteSet(same \cup {n})
            /\ Cardinality(same \cup {n}) <= 2
        <4>1. Cardinality(same) \in Nat  BY <3>2, FS_CardinalityType
        <4>2. /\ IsFiniteSet(same \cup {n})
              /\ \/ Cardinality(same \cup {n}) = Cardinality(same)
                 \/ Cardinality(same \cup {n}) = Cardinality(same) + 1
          BY <3>2, FS_AddElement
        <4>. QED  BY <3>1, <4>1, <4>2
      <3>5. Cardinality(Empties(pool', type)) <= Cardinality(same \cup {n})
        BY <3>3, <3>4, FS_Subset
      <3>6. Cardinality(same \cup {n}) \in Nat  BY <3>4, FS_CardinalityType
      <3>. QED  BY <1>5, <3>4, <3>5, <3>6
    <2>. QED  BY <2>2, <2>3
  <1>. QED  BY <1>4, <1>6, <1>7

(* Shrinking a block in place empties no zone.                           *)
LEMMA EmptiesShrunk ==
  ASSUME PoolTypeOK, FewEmpties(pool), NEW k \in DOMAIN pool,
         NEW j \in 1..Len(pool[k].allocs), NEW size \in Nat, Shrink(k, j, size)
  PROVE  FewEmpties(pool')
  <1>1. /\ pool \in Seq(Zone) /\ pool' \in Seq(Zone)
        /\ DOMAIN pool' = DOMAIN pool
        /\ \A m \in DOMAIN pool : m # k => pool'[m] = pool[m]
        /\ Len(pool'[k].allocs) = Len(pool[k].allocs)
        /\ pool[k] \in Zone
    <2>1. pool \in Seq(Zone)  BY DEF PoolTypeOK
    <2>2. pool[k] \in Zone  BY <2>1, LenProperties, ElementOfSeq
    <2>. QED  BY <2>1, <2>2, ShrinkSteps
  <1>2. pool'[k].allocs # << >>
    <2>1. Len(pool'[k].allocs) # 0
      <3>1. Len(pool[k].allocs) \in Nat  BY <1>1, LenProperties DEF Zone
      <3>. QED  BY <1>1, <3>1
    <2>. QED  BY <2>1
  <1>3. ASSUME NEW type PROVE Empties(pool', type) \subseteq Empties(pool, type)
    BY <1>1, <1>2 DEF Empties
  <1>4. ASSUME NEW type
        PROVE  Cardinality(Empties(pool', type)) <= Cardinality(Empties(pool, type))
    BY <1>1, <1>3, EmptiesSubset
  <1>5. \A type : /\ Cardinality(Empties(pool', type)) \in Nat
                  /\ Cardinality(Empties(pool, type)) \in Nat
    BY <1>1, EmptiesFinite
  <1>. QED  BY <1>4, <1>5 DEF FewEmpties

(* Every critical section leaves at most two empty zones of a type.      *)
THEOREM EmptiesStep == TypeOK /\ FewEmpties(pool) /\ [Next]_vars
                         => FewEmpties(pool')
  <1> SUFFICES ASSUME TypeOK, FewEmpties(pool), [Next]_vars
               PROVE  FewEmpties(pool')
    OBVIOUS
  <1>1. PoolTypeOK /\ \A t \in Threads : calls[t] \in Calls
    BY DEF TypeOK, PoolTypeOK
  <1>2. ASSUME UNCHANGED pool PROVE FewEmpties(pool')  BY <1>2
  <1>3. ASSUME NEW ptr, FreePtr(ptr) PROVE FewEmpties(pool')
    BY <1>1, <1>2, <1>3, EmptiesReleased DEF FreePtr, Missed
  <1>4. ASSUME NEW t \in Threads, NEW i \in Slots, NEW size \in Sizes,
               Malloc(t, i, size)
        PROVE  FewEmpties(pool')
    BY <1>1, <1>2, <1>4, SizesType, EmptiesServed DEF Malloc, Refuse
  <1>5. ASSUME NEW t \in Threads, NEW i \in Slots,
               Free(t, i) \/ ReallocfZero(t, i)
        PROVE  FewEmpties(pool')
    BY <1>3, <1>5 DEF Free, ReallocfZero
  <1>6. ASSUME NEW t \in Threads, NEW i \in Slots, NEW size \in Sizes,
               NEW api \in Apis, Realloc(t, api, i, size)
        PROVE  FewEmpties(pool')
    <2>1. ASSUME NEW loc \in Find(held[i].ptr),
                 Shrink(loc[1], loc[2], RoundUp(size))
          PROVE  FewEmpties(pool')
      BY <1>1, <2>1, SizesType, FindInPool, EmptiesShrunk
    <2>. QED  BY <1>2, <1>6, <2>1 DEF Realloc, Missed
  <1>7. ASSUME NEW t \in Threads, ReallocMove(t) PROVE FewEmpties(pool')
    <2>1. calls[t].size \in Nat  BY <1>1, <1>7, CallFields DEF ReallocMove
    <2>. QED  BY <1>1, <1>2, <1>7, <2>1, EmptiesServed DEF ReallocMove, Refuse
  <1>8. ASSUME NEW t \in Threads, ReallocFinish(t) PROVE FewEmpties(pool')
    BY <1>3, <1>8 DEF ReallocFinish
  <1>9. ASSUME NEW t \in Threads, ReallocfDrop(t) PROVE FewEmpties(pool')
    BY <1>1, <1>2, <1>9, EmptiesReleased DEF ReallocfDrop, Missed
  <1>10. CASE UNCHANGED vars  BY <1>2, <1>10 DEF vars
  <1>11. CASE Next
    BY <1>4, <1>5, <1>6, <1>7, <1>8, <1>9, <1>11 DEF Next, Step
  <1>. QED  BY <1>10, <1>11

(* free never lets a third empty zone of type tiny or small stand.       *)
THEOREM EmptyZonesCorrect == Spec => []AtMostTwoEmptyZones
  <1>1. Init => FewEmpties(pool)
    <2>1. ASSUME Init, NEW type PROVE Empties(pool, type) = {}
      BY <2>1 DEF Init, Empties
    <2>. QED  BY <2>1, FS_EmptySet DEF FewEmpties
  <1>2. FewEmpties(pool) => AtMostTwoEmptyZones
    BY DEF FewEmpties, AtMostTwoEmptyZones, Empties, EmptyZones
  <1>3. TypeOK /\ FewEmpties(pool) /\ [Next]_vars => FewEmpties(pool)'
    BY EmptiesStep
  <1>. QED  BY <1>1, <1>2, <1>3, TypeCorrect, PTL DEF Spec

-----------------------------------------------------------------------------
(* Sizes and lengths                                                       *)

(* A request is rounded to a size that is not 0.                           *)
LEMMA RoundedSizesType ==
  /\ RoundedSizes \subseteq Nat \ {0}
  /\ \A s \in Sizes : RoundUp(s) \in RoundedSizes
  BY PoolAssumption, RoundUpBounds DEF RoundedSizes

(* TINY_ZONE and SMALL_ZONE of two pages or more leave room in a new zone  *)
(* for the block it is made for.                                           *)
LEMMA RoomForBlock ==
  ASSUME TinyZone >= 2, NEW size \in Nat, NEW type \in ZoneTypes
  PROVE  ZoneHdr + AllocHdr + size <= ZoneMemSize(size, type)
  <1>1. ASSUME NEW n \in Nat, n >= 2
        PROVE  ZoneHdr + AllocHdr + size
                 <= Page * ((n * Page + size + ZoneHdr) \div Page)
    <2>1. n * Page \in Nat /\ n * Page >= Page + Page
      BY <1>1, SizesAssumption
    <2>2. /\ n * Page + size + ZoneHdr \in Nat
          /\ n * Page + size + ZoneHdr >= Page + Page + size + ZoneHdr
      BY <2>1, SizesAssumption
    <2>3. /\ Page * ((n * Page + size + ZoneHdr) \div Page) \in Nat
          /\ n * Page + size + ZoneHdr
               < Page * ((n * Page + size + ZoneHdr) \div Page) + Page
      BY <2>2, DivBounds, SizesAssumption
    <2>. QED  BY <2>2, <2>3, SizesAssumption
  <1>2. CASE type = "large"
    <2>1. ZoneMemSize(size, type) >= size + AllocHdr + ZoneHdr
          /\ ZoneMemSize(size, type) \in Nat
      BY <1>2, ZoneMemSizeBounds
    <2>. QED  BY <2>1, SizesAssumption
  <1>3. SmallZone >= 2  BY SizesAssumption
  <1>4. CASE type = "tiny"
    BY <1>1, <1>4, SizesAssumption DEF ZoneMemSize
  <1>5. CASE type = "small"
    BY <1>1, <1>3, <1>5, SizesAssumption DEF ZoneMemSize
  <1>. QED  BY <1>2, <1>4, <1>5 DEF ZoneTypes

(* The length of a tiny or small zone comes out the same from every size   *)
(* of its type.                                                            *)
LEMMA LenOfType ==
  ASSUME SizesAgree, NEW z \in Zone, SizedZone(z), z.type # "large",
         NEW s \in RoundedSizes, SetZoneType(s) = z.type
  PROVE  ZoneMemSize(s, z.type) = ZoneLen(z)
  <1> DEFINE first == z.allocs[1].cap
             any == RoundUp(CHOOSE r \in Sizes : SetZoneType(RoundUp(r)) = z.type)
  <1>1. any \in RoundedSizes /\ SetZoneType(any) = z.type
    <2>1. \E r \in Sizes : SetZoneType(RoundUp(r)) = z.type
      BY DEF RoundedSizes
    <2>2. /\ (CHOOSE r \in Sizes : SetZoneType(RoundUp(r)) = z.type) \in Sizes
          /\ SetZoneType(any) = z.type
      BY <2>1
    <2>. QED  BY <2>2 DEF RoundedSizes
  <1>2. ASSUME z.allocs # << >>
        PROVE  first \in RoundedSizes /\ SetZoneType(first) = z.type
    <2>1. 1 \in DOMAIN z.allocs
      BY <1>2, EmptySeq, LenProperties DEF Zone
    <2>. QED  BY <2>1 DEF SizedZone
  <1> HIDE DEF any, first
  <1>3. CASE z.allocs = << >>
    <2>1. ZoneLen(z) = ZoneMemSize(any, z.type)  BY <1>3 DEF ZoneLen, any
    <2>. QED  BY <1>1, <2>1 DEF SizesAgree
  <1>4. CASE z.allocs # << >>
    <2>1. ZoneLen(z) = ZoneMemSize(first, z.type)  BY <1>4 DEF ZoneLen, first
    <2>. QED  BY <1>2, <1>4, <2>1 DEF SizesAgree
  <1>. QED  BY <1>3, <1>4

(* A zone keeps its length while it keeps its type, if it is not large.    *)
LEMMA LenKept ==
  ASSUME SizesAgree, NEW z \in Zone, SizedZone(z), z.type # "large",
         NEW y \in Zone, SizedZone(y), y.type = z.type
  PROVE  ZoneLen(y) = ZoneLen(z)
  <1>1. PICK s \in RoundedSizes : SetZoneType(s) = z.type  BY DEF SizedZone
  <1>. QED  BY <1>1, LenOfType

(* A zone is long enough for its header.                                   *)
LEMMA ZoneLenType ==
  ASSUME NEW z \in Zone, SizedZone(z), z.type = "large" => z.allocs # << >>
  PROVE  ZoneLen(z) \in Nat /\ ZoneLen(z) >= ZoneHdr
  <1>1. z.type \in ZoneTypes  BY DEF Zone
  <1>2. ASSUME NEW s \in RoundedSizes
        PROVE  ZoneMemSize(s, z.type) \in Nat /\ ZoneMemSize(s, z.type) >= ZoneHdr
    BY <1>1, RoundedSizesType, ZoneMemSizeBounds
  <1>3. CASE z.allocs # << >>
    <2>1. 1 \in DOMAIN z.allocs
      BY <1>3, EmptySeq, LenProperties DEF Zone
    <2>2. z.allocs[1].cap \in RoundedSizes  BY <2>1 DEF SizedZone
    <2>. QED  BY <1>2, <1>3, <2>2 DEF ZoneLen
  <1>4. CASE z.allocs = << >>
    <2>1. \E r \in Sizes : SetZoneType(RoundUp(r)) = z.type
      BY DEF SizedZone, RoundedSizes
    <2>2. (CHOOSE r \in Sizes : SetZoneType(RoundUp(r)) = z.type) \in Sizes
      BY <2>1
    <2>. QED  BY <1>2, <1>4, <2>2, RoundedSizesType DEF ZoneLen
  <1>. QED  BY <1>3, <1>4

(* Fewer bytes than a page do not make a zone of some pages longer.        *)
LEMMA PagesAndLess ==
  ASSUME NEW n \in Nat, NEW x \in Nat, x < Page
  PROVE  Page * ((n * Page + x) \div Page) = n * Page
  <1>1. n * Page = Page * n /\ n * Page \in Nat  BY SizesAssumption
  <1>2. (Page * n + x) \div Page = n  BY DivOfMultiple, SizesAssumption
  <1>. QED  BY <1>1, <1>2

(* The conditions under which the theorems of this module hold are met,    *)
(* with TINY_ZONE 2 or more, by every program that asks for no tiny or     *)
(* small block longer than a page less a zone header: its tiny zones and   *)
(* its small zones are as many pages long as malloc.h says.                *)
THEOREM PageProgramsAgree ==
  ASSUME TinyZone >= 2, ZoneHdr + AllocHdr < Page,
         \A s \in RoundedSizes : SetZoneType(s) # "large" => s + ZoneHdr < Page
  PROVE  SizesAgree /\ EstimateReaches
  <1>1. ASSUME NEW s \in Nat, s + ZoneHdr < Page
        PROVE  /\ ZoneMemSize(s, "tiny") = TinyZone * Page
               /\ ZoneMemSize(s, "small") = SmallZone * Page
    <2>1. s + ZoneHdr \in Nat  BY SizesAssumption
    <2>2. /\ Page * ((TinyZone * Page + (s + ZoneHdr)) \div Page) = TinyZone * Page
          /\ Page * ((SmallZone * Page + (s + ZoneHdr)) \div Page) = SmallZone * Page
      BY <1>1, <2>1, PagesAndLess, SizesAssumption
    <2>3. /\ TinyZone * Page + (s + ZoneHdr) = TinyZone * Page + s + ZoneHdr
          /\ SmallZone * Page + (s + ZoneHdr) = SmallZone * Page + s + ZoneHdr
      BY SizesAssumption
    <2>. QED  BY <2>2, <2>3 DEF ZoneMemSize
  <1>2. ASSUME NEW s \in RoundedSizes, SetZoneType(s) # "large"
        PROVE  /\ s \in Nat \ {0}
               /\ SetZoneType(s) \in {"tiny", "small"}
               /\ ZoneMemSize(s, SetZoneType(s)) = ZoneMemSize(0, SetZoneType(s))
               /\ ZoneMemSize(s, SetZoneType(s)) \in Nat
    <2>1. s \in Nat \ {0} /\ s + ZoneHdr < Page  BY <1>2, RoundedSizesType
    <2>2. 0 \in Nat /\ 0 + ZoneHdr < Page  BY SizesAssumption
    <2>3. SetZoneType(s) \in {"tiny", "small"}
      BY <1>2, ZoneTypeIsType DEF ZoneTypes
    <2>4. ZoneMemSize(s, SetZoneType(s)) \in Nat
      BY <2>1, ZoneTypeIsType, ZoneMemSizeBounds
    <2>. QED  BY <1>1, <2>1, <2>2, <2>3, <2>4
  <1>3. ASSUME NEW s \in RoundedSizes
        PROVE  ZoneHdr + AllocHdr + s <= ZoneMemSize(s, SetZoneType(s))
    BY RoomForBlock, ZoneTypeIsType, RoundedSizesType
  <1>4. SizesAgree
    BY <1>2, <1>3 DEF SizesAgree
  <1>5. ZoneHdr + AllocHdr < ZoneMemSize(0, "large")
    <2>1. 0 + AllocHdr + ZoneHdr + Page - 1 \in Nat
      BY SizesAssumption
    <2>2. /\ Page * ((0 + AllocHdr + ZoneHdr + Page - 1) \div Page) \in Nat
          /\ 0 + AllocHdr + ZoneHdr + Page - 1
               < Page * ((0 + AllocHdr + ZoneHdr + Page - 1) \div Page) + Page
      BY <2>1, DivBounds, SizesAssumption
    <2>3. ZoneMemSize(0, "large")
            = Page * ((0 + AllocHdr + ZoneHdr + Page - 1) \div Page)
      BY DEF ZoneMemSize
    <2>4. PICK q \in Nat : ZoneMemSize(0, "large") = Page * q
      BY <2>1, <2>3, DivBounds, SizesAssumption
    <2>5. q # 0
      <3>1. ASSUME q = 0 PROVE FALSE
        <4>1. Page * q = 0  BY <3>1, SizesAssumption
        <4>. QED  BY <2>2, <2>3, <2>4, <4>1, SizesAssumption
      <3>. QED  BY <3>1
    <2>6. Page * q >= Page
      <3>1. PICK d \in Nat : q = d + 1
        <4>1. q - 1 \in Nat /\ q = (q - 1) + 1  BY <2>5
        <4>. QED  BY <4>1
      <3>2. Page * q = Page * d + Page /\ Page * d \in Nat
        BY <3>1, SizesAssumption
      <3>. QED  BY <3>2, SizesAssumption
    <2>. QED  BY <2>4, <2>6, SizesAssumption
  <1>6. ASSUME NEW s \in RoundedSizes, SetZoneType(s) # "large"
        PROVE  ZoneMemSize(s, SetZoneType(s)) - s < ZoneMemSize(0, SetZoneType(s))
    BY <1>2, <1>6
  <1>7. EstimateReaches
    BY <1>5, <1>6 DEF EstimateReaches
  <1>. QED  BY <1>4, <1>7

-----------------------------------------------------------------------------
(* The elements of a list                                                  *)

(* Two list elements that describe the same block.                         *)
Same(a, b) == a.at = b.at /\ a.size = b.size /\ a.cap = b.cap

(* The list after _get_alloc, element by element: the old blocks, and the  *)
(* new one when it is listed.                                              *)
LEMMA PlacedElements ==
  ASSUME NEW z \in Zone, NEW size \in Nat, NEW p \in GetAlloc(z, size)
  PROVE  \/ /\ Len(p.allocs) = Len(z.allocs)
            /\ \A m \in 1..Len(z.allocs) : Same(p.allocs[m], z.allocs[m])
         \/ /\ Len(p.allocs) = Len(z.allocs) + 1
            /\ z.allocs = << >> \/ FitsFront(z, size)
            /\ p.at = FirstSlot(z)
            /\ p.allocs[1] = NewAlloc(p.at, NULL, size)
            /\ \A m \in 1..Len(z.allocs) : Same(p.allocs[m + 1], z.allocs[m])
         \/ /\ Len(p.allocs) = Len(z.allocs) + 1
            /\ z.allocs # << >> /\ FitsBehind(z, size)
            /\ p.at = End(z.allocs[Len(z.allocs)])
            /\ p.allocs[Len(z.allocs) + 1] =
                 NewAlloc(p.at, z.allocs[Len(z.allocs)].at, size)
            /\ \A m \in 1..Len(z.allocs) : Same(p.allocs[m], z.allocs[m])
  <1>1. CASE /\ z.allocs = << >> \/ FitsFront(z, size)
             /\ p = PlaceFront(z, size)
    <2>1. /\ Len(p.allocs) = Len(z.allocs) + 1
          /\ p.at = FirstSlot(z)
          /\ p.allocs[1] = NewAlloc(p.at, NULL, size)
          /\ \A m \in 1..Len(z.allocs) :
               /\ p.allocs[m + 1].at = z.allocs[m].at
               /\ p.allocs[m + 1].size = z.allocs[m].size
               /\ p.allocs[m + 1].cap = z.allocs[m].cap
      BY <1>1, PlaceFrontList
    <2>2. \A m \in 1..Len(z.allocs) : Same(p.allocs[m + 1], z.allocs[m])
      BY <2>1 DEF Same
    <2>. QED  BY <1>1, <2>1, <2>2
  <1>2. ASSUME NEW i \in 1..(Len(z.allocs) - 1), p = PlaceBetween(z, size, i)
        PROVE  /\ Len(p.allocs) = Len(z.allocs)
               /\ \A m \in 1..Len(z.allocs) : Same(p.allocs[m], z.allocs[m])
    <2>1. /\ Len(p.allocs) = Len(z.allocs)
          /\ \A m \in 1..Len(z.allocs) :
               /\ p.allocs[m].at = z.allocs[m].at
               /\ p.allocs[m].size = z.allocs[m].size
               /\ p.allocs[m].cap = z.allocs[m].cap
      BY <1>2, PlaceBetweenList
    <2>. QED  BY <2>1 DEF Same
  <1>3. CASE z.allocs # << >> /\ FitsBehind(z, size) /\ p = PlaceBehind(z, size)
    BY <1>3, PlaceBehindList DEF Same
  <1>. QED  BY <1>1, <1>2, <1>3, GetAllocCases

(* The n-th element of a carved list is the new block, in front of the     *)
(* list or behind it, and the others are those that were there before.     *)
NewElement(z, size, c, n) ==
  /\ Chunk(c.zone.allocs[n]) = c.ptr
  /\ c.zone.allocs[n].size = size
  /\ c.zone.allocs[n].cap = size
  /\ \/ /\ z.allocs = << >>
        /\ End(c.zone.allocs[n]) = z.base + ZoneHdr + AllocHdr + size
     \/ z.allocs # << >> /\ End(c.zone.allocs[n]) <= z.allocs[1].at
     \/ /\ z.allocs # << >>
        /\ End(c.zone.allocs[n]) <= z.base + ZoneMemSize(size, z.type)
  /\ \A i \in DOMAIN c.zone.allocs :
       i # n => \E m \in DOMAIN z.allocs : Same(c.zone.allocs[i], z.allocs[m])
  /\ \A m \in DOMAIN z.allocs :
       \E i \in DOMAIN c.zone.allocs :
         i # n /\ Same(c.zone.allocs[i], z.allocs[m])

(* A carved zone holds what the zone held, and the new block at one place  *)
(* of the list if it is listed.                                            *)
LEMMA CarvedElements ==
  ASSUME NEW z \in Zone, NEW size \in Nat, NEW c \in Carve(z, size)
  PROVE  /\ c.zone = UpdateFreeMemSize(z, c.zone.allocs, ZoneMemSize(size, z.type))
         /\ ~c.listed =>
              \A i \in DOMAIN c.zone.allocs : \E m \in DOMAIN z.allocs :
                Same(c.zone.allocs[i], z.allocs[m])
         /\ c.listed =>
              \E n \in DOMAIN c.zone.allocs : NewElement(z, size, c, n)
  <1> DEFINE N == Len(z.allocs)
             L == c.zone.allocs
  <1>1. PICK p \in GetAlloc(z, size) :
          c = [zone |-> UpdateFreeMemSize(z, p.allocs, ZoneMemSize(size, z.type)),
               ptr  |-> p.at + AllocHdr,
               listed |-> Len(p.allocs) > Len(z.allocs)]
    BY DEF Carve
  <1>2. p.at \in Nat /\ p.allocs \in Seq(Alloc)
    BY GetAllocType
  <1>3. ZoneMemSize(size, z.type) \in Nat /\ ZoneMemSize(size, z.type) >= ZoneHdr
    BY ZoneMemSizeBounds, SizesAssumption DEF Zone
  <1>4. c.zone.allocs = p.allocs
    BY <1>1, <1>2, <1>3, UpdateFreeMemSizeType
  <1>5. c.zone = UpdateFreeMemSize(z, c.zone.allocs, ZoneMemSize(size, z.type))
    BY <1>1, <1>4
  <1>6. c.listed = (Len(p.allocs) > Len(z.allocs)) /\ c.ptr = p.at + AllocHdr
    BY <1>1, Zenon
  <1>7. /\ N \in Nat /\ DOMAIN z.allocs = 1..N
        /\ DOMAIN L = 1..Len(L) /\ L = p.allocs
        /\ z.base \in Nat
        /\ \A i \in 1..N : z.allocs[i].at \in Nat /\ End(z.allocs[i]) \in Nat
    BY <1>2, <1>4, LenProperties, ElementOfSeq, AllocAddresses DEF Zone
  <1>8. ASSUME NEW at \in Nat, NEW prev
        PROVE  /\ Chunk(NewAlloc(at, prev, size)) = at + AllocHdr
               /\ NewAlloc(at, prev, size).size = size
               /\ NewAlloc(at, prev, size).cap = size
               /\ End(NewAlloc(at, prev, size)) = at + AllocHdr + size
    BY DEF Chunk, End, NewAlloc
  <1>9. N = 0 <=> z.allocs = << >>  BY EmptySeq DEF Zone
  <1> HIDE DEF N, L
  <1>10. CASE /\ Len(L) = N /\ \A m \in 1..N : Same(L[m], z.allocs[m])
    <2>1. ~(Len(p.allocs) > Len(z.allocs))  BY <1>7, <1>10 DEF N
    <2>2. ~c.listed  BY <1>6, <2>1, Zenon
    <2>3. \A i \in DOMAIN L : \E m \in DOMAIN z.allocs : Same(L[i], z.allocs[m])
      BY <1>7, <1>10
    <2>. QED  BY <1>5, <2>2, <2>3, Zenon DEF L
  <1>11. CASE /\ Len(L) = N + 1
              /\ z.allocs = << >> \/ FitsFront(z, size)
              /\ p.at = FirstSlot(z)
              /\ L[1] = NewAlloc(p.at, NULL, size)
              /\ \A m \in 1..N : Same(L[m + 1], z.allocs[m])
    <2>1. c.listed
      <3>1. Len(p.allocs) > Len(z.allocs)  BY <1>7, <1>11 DEF N
      <3>. QED  BY <1>6, <3>1, Zenon
    <2>2. /\ 1 \in DOMAIN L
          /\ \A i \in DOMAIN L : i # 1 => i - 1 \in 1..N /\ (i - 1) + 1 = i
          /\ \A m \in 1..N : m + 1 \in DOMAIN L /\ m + 1 # 1
      BY <1>7, <1>11
    <2>3. \A i \in DOMAIN L : i # 1 => Same(L[i], z.allocs[i - 1])
      BY <1>11, <2>2
    <2>4. /\ Chunk(L[1]) = c.ptr /\ L[1].size = size /\ L[1].cap = size
          /\ End(L[1]) = p.at + AllocHdr + size
      BY <1>2, <1>6, <1>8, <1>11
    <2>5. z.allocs = << >> => End(L[1]) = z.base + ZoneHdr + AllocHdr + size
      BY <1>7, <1>11, <2>4, SizesAssumption DEF FirstSlot
    <2>6. ASSUME z.allocs # << >> PROVE End(L[1]) <= z.allocs[1].at
      <3>1. 1 \in 1..N  BY <1>7, <1>9, <2>6
      <3>2. z.allocs[1].at > p.at + AllocHdr + size
        BY <1>11, <2>6 DEF FitsFront
      <3>3. z.allocs[1].at \in Nat  BY <1>7, <3>1
      <3>. QED  BY <1>2, <2>4, <3>2, <3>3, SizesAssumption
    <2>7. NewElement(z, size, c, 1)
      BY <1>7, <1>11, <2>2, <2>3, <2>4, <2>5, <2>6 DEF NewElement, L
    <2>. QED  BY <1>5, <2>1, <2>2, <2>7, Zenon DEF L
  <1>12. CASE /\ Len(L) = N + 1
              /\ z.allocs # << >> /\ FitsBehind(z, size)
              /\ p.at = End(z.allocs[N])
              /\ L[N + 1] = NewAlloc(p.at, z.allocs[N].at, size)
              /\ \A m \in 1..N : Same(L[m], z.allocs[m])
    <2>1. c.listed
      <3>1. Len(p.allocs) > Len(z.allocs)  BY <1>7, <1>12 DEF N
      <3>. QED  BY <1>6, <3>1, Zenon
    <2>2. /\ N + 1 \in DOMAIN L
          /\ \A i \in DOMAIN L : i # N + 1 => i \in 1..N
          /\ \A m \in 1..N : m \in DOMAIN L /\ m # N + 1
      BY <1>7, <1>12
    <2>3. /\ Chunk(L[N + 1]) = c.ptr /\ L[N + 1].size = size
          /\ L[N + 1].cap = size
          /\ End(L[N + 1]) = p.at + AllocHdr + size
      BY <1>2, <1>6, <1>8, <1>12
    <2>4. End(L[N + 1]) <= z.base + ZoneMemSize(size, z.type)
      <3>1. z.base + ZoneMemSize(size, z.type)
              >= p.at + size + AllocHdr
        BY <1>12 DEF FitsBehind, N
      <3>. QED  BY <1>2, <1>3, <1>7, <2>3, <3>1, SizesAssumption
    <2>5. NewElement(z, size, c, N + 1)
      BY <1>7, <1>12, <2>2, <2>3, <2>4 DEF NewElement, L
    <2>. QED  BY <1>5, <2>1, <2>2, <2>5, Zenon DEF L
  <1>. QED  BY <1>7, <1>10, <1>11, <1>12, PlacedElements DEF N, L

(* The list after the unlinking of free: the same blocks, without the one  *)
(* freed if its link is in place.                                          *)
LEMMA FreedElements ==
  ASSUME NEW z \in Zone, Sorted(z), LinksSound(z), NEW j \in 1..Len(z.allocs)
  PROVE  LET u == Unlink(z.allocs, j)
         IN  /\ u \in Seq(Alloc)
             /\ \A i \in DOMAIN u : \E m \in DOMAIN z.allocs :
                  Same(u[i], z.allocs[m]) /\ (InPlace(z, j) => m # j)
             /\ \A m \in DOMAIN z.allocs : m # j =>
                  \E i \in DOMAIN u : Same(u[i], z.allocs[m])
             /\ InPlace(z, j) => Len(u) = Len(z.allocs) - 1
  <1> DEFINE n == Len(z.allocs)
             u == Unlink(z.allocs, j)
  <1>1. /\ u \in Seq(Alloc) /\ n \in Nat
        /\ DOMAIN z.allocs = 1..n /\ DOMAIN u = 1..Len(u)
    BY UnlinkType, LenProperties DEF Zone
  <1> HIDE DEF u
  <1>2. CASE InPlace(z, j)
    <2>1. /\ Len(u) = n - 1
          /\ \A m \in 1..(n - 1) : Same(u[m], z.allocs[IF m < j THEN m ELSE m + 1])
      BY <1>2, UnlinkList DEF u, Same
    <2> HIDE DEF n
    <2>2. ASSUME NEW i \in 1..(n - 1)
          PROVE  (IF i < j THEN i ELSE i + 1) \in 1..n
                 /\ (IF i < j THEN i ELSE i + 1) # j
      BY <1>1
    <2>3. ASSUME NEW m \in 1..n, m # j
          PROVE  \E i \in 1..(n - 1) : (IF i < j THEN i ELSE i + 1) = m
      <3>1. j \in 1..n  BY DEF n
      <3>2. CASE m < j  BY <1>1, <2>3, <3>1, <3>2
      <3>3. CASE m > j
        <4>1. m - 1 \in 1..(n - 1) /\ ~(m - 1 < j) /\ (m - 1) + 1 = m
          BY <1>1, <2>3, <3>1, <3>3
        <4>. QED  BY <4>1
      <3>. QED  BY <2>3, <3>1, <3>2, <3>3
    <2>4. \A i \in 1..(n - 1) : \E m \in 1..n : Same(u[i], z.allocs[m]) /\ m # j
      BY <2>1, <2>2
    <2>5. \A m \in 1..n : m # j => \E i \in 1..(n - 1) : Same(u[i], z.allocs[m])
      BY <2>1, <2>3
    <2>. QED  BY <1>1, <2>1, <2>4, <2>5 DEF n, u
  <1>3. CASE ~InPlace(z, j)
    <2>1. Len(u) = n /\ \A m \in 1..n : Same(u[m], z.allocs[m])
      BY <1>3, UnlinkList DEF u, Same
    <2>. QED  BY <1>1, <1>3, <2>1 DEF u
  <1>. QED  BY <1>2, <1>3

-----------------------------------------------------------------------------
(* Sizes in the headers, and the free size of a zone                       *)

(* A zone is exact when its free size has just been computed.              *)
LEMMA UpdateExact ==
  ASSUME NEW z \in Zone, NEW allocs \in Seq(Alloc),
         NEW len \in Nat, len >= ZoneHdr,
         ZoneLen(UpdateFreeMemSize(z, allocs, len)) = len
  PROVE  FreeExact(UpdateFreeMemSize(z, allocs, len))
  <1> DEFINE y == UpdateFreeMemSize(z, allocs, len)
             free == IF allocs = << >> THEN len - ZoneHdr
                     ELSE Max(Gaps(allocs, z.base + len) \cup {0})
  <1>1. y \in Zone /\ y.base = z.base /\ y.allocs = allocs
    BY UpdateFreeMemSizeType
  <1>2. y = [z EXCEPT !.allocs = allocs, !.free = free]
    BY DEF UpdateFreeMemSize
  <1>3. UpdateFreeMemSize(y, allocs, len) = [y EXCEPT !.allocs = allocs, !.free = free]
    BY <1>1 DEF UpdateFreeMemSize
  <1> HIDE DEF y, free
  <1>4. [y EXCEPT !.allocs = allocs, !.free = free] = y
    BY <1>1, <1>2 DEF Zone
  <1>5. y = UpdateFreeMemSize(y, y.allocs, ZoneLen(y))
    BY <1>1, <1>3, <1>4 DEF y
  <1>. QED  BY <1>5 DEF FreeExact, y

(* A size found in a header of a sized zone.                               *)
LEMMA SizedSize ==
  ASSUME NEW z \in Zone, SizedZone(z), NEW j \in DOMAIN z.allocs
  PROVE  /\ z.allocs[j].size \in RoundedSizes
         /\ SetZoneType(z.allocs[j].size) = z.type
         /\ z.allocs[j].cap \in RoundedSizes
         /\ SetZoneType(z.allocs[j].cap) = z.type
  BY DEF SizedZone

(* A list made of elements of a sized zone and of blocks of a size of its  *)
(* type is sized.                                                          *)
LEMMA SizedList ==
  ASSUME NEW z \in Zone, SizedZone(z), NEW y \in Zone, y.type = z.type,
         NEW size \in RoundedSizes, SetZoneType(size) = z.type,
         \A i \in DOMAIN y.allocs :
           \/ \E m \in DOMAIN z.allocs : Same(y.allocs[i], z.allocs[m])
           \/ y.allocs[i].size = size /\ y.allocs[i].cap = size
  PROVE  SizedZone(y)
  <1>1. ASSUME NEW i \in DOMAIN y.allocs,
               NEW s \in {y.allocs[i].size, y.allocs[i].cap}
        PROVE  s \in RoundedSizes /\ SetZoneType(s) = y.type
    BY SizedSize DEF Same
  <1>. QED  BY <1>1 DEF SizedZone

(* A block carved out of a zone of its type leaves the zone sized and,     *)
(* unless it is large, its free size exact.                                *)
LEMMA CarveSized ==
  ASSUME SizesAgree, NEW z \in Zone, SizedZone(z),
         z.type = "large" => z.allocs = << >>,
         NEW size \in RoundedSizes, SetZoneType(size) = z.type,
         NEW c \in Carve(z, size)
  PROVE  /\ c.zone \in Zone /\ SizedZone(c.zone)
         /\ ZoneLen(c.zone) = ZoneMemSize(size, z.type)
         /\ FreeExact(c.zone)
  <1> DEFINE y == c.zone
             len == ZoneMemSize(size, z.type)
  <1>1. size \in Nat /\ z.type \in ZoneTypes
    BY RoundedSizesType DEF Zone
  <1>2. /\ y \in Zone /\ y.type = z.type /\ y.allocs # << >>
        /\ (z.allocs = << >> => Len(y.allocs) = 1 /\ c.listed)
    BY <1>1, CarveKeepsZone
  <1>3. \A i \in DOMAIN y.allocs :
          \/ \E m \in DOMAIN z.allocs : Same(y.allocs[i], z.allocs[m])
          \/ y.allocs[i].size = size /\ y.allocs[i].cap = size
    BY <1>1, CarvedElements DEF NewElement
  <1>4. SizedZone(y)  BY <1>2, <1>3, SizedList
  <1>5. ZoneLen(y) = len
    <2>1. CASE z.type # "large"
      BY <1>2, <1>4, <2>1, LenOfType
    <2>2. CASE z.type = "large"
      <3>1. z.allocs = << >> /\ 1 \in DOMAIN y.allocs
        BY <1>2, <2>2, LenProperties DEF Zone
      <3>2. DOMAIN z.allocs = {}
        BY <3>1, EmptySeq, LenProperties DEF Zone
      <3>3. y.allocs[1].cap = size  BY <1>3, <3>1, <3>2
      <3>. QED  BY <1>2, <3>3 DEF ZoneLen
    <2>. QED  BY <2>1, <2>2
  <1>6. len \in Nat /\ len >= ZoneHdr  BY <1>1, ZoneMemSizeBounds
  <1>7. y = UpdateFreeMemSize(z, y.allocs, len)
    BY <1>1, CarvedElements
  <1>8. y.allocs \in Seq(Alloc)  BY <1>2 DEF Zone
  <1> HIDE DEF y, len
  <1>9. FreeExact(y)  BY <1>5, <1>6, <1>7, <1>8, UpdateExact
  <1>. QED  BY <1>2, <1>4, <1>5, <1>9 DEF y, len

(* free recomputes the length of a tiny or small zone right, and leaves    *)
(* the zone sized and its free size exact.                                 *)
LEMMA FreedSized ==
  ASSUME SizesAgree, NEW z \in Zone, SizedZone(z), Sorted(z), LinksSound(z),
         NEW j \in 1..Len(z.allocs)
  PROVE  /\ FreedZone(z, j) \in Zone /\ SizedZone(FreedZone(z, j))
         /\ z.type # "large" =>
              /\ FreedZoneSize(z) = ZoneLen(z)
              /\ ZoneLen(FreedZone(z, j)) = ZoneLen(z)
              /\ FreeExact(FreedZone(z, j))
  <1> DEFINE y == FreedZone(z, j)
             len == FreedZoneSize(z)
  <1>1. /\ len \in Nat /\ len >= ZoneHdr
        /\ y \in Zone /\ y.type = z.type
        /\ y.allocs = Unlink(z.allocs, j)
    BY FreedZoneType
  <1>2. y = UpdateFreeMemSize(z, y.allocs, len)
    BY <1>1 DEF FreedZone
  <1>3. \A i \in DOMAIN y.allocs :
          \E m \in DOMAIN z.allocs : Same(y.allocs[i], z.allocs[m])
    <2>1. \A i \in DOMAIN Unlink(z.allocs, j) : \E m \in DOMAIN z.allocs :
            Same(Unlink(z.allocs, j)[i], z.allocs[m])
      BY FreedElements
    <2>. QED  BY <1>1, <2>1
  <1>4. 1 \in DOMAIN z.allocs
    BY LenProperties DEF Zone
  <1> HIDE DEF y
  <1>5. PICK s \in RoundedSizes : SetZoneType(s) = z.type  BY DEF SizedZone
  <1>6. SizedZone(y)  BY <1>1, <1>3, <1>5, SizedList
  <1>7. ASSUME z.type # "large"
        PROVE  len = ZoneLen(z) /\ ZoneLen(y) = ZoneLen(z)
    <2>1. z.allocs[1].size \in RoundedSizes
          /\ SetZoneType(z.allocs[1].size) = z.type
      BY <1>4, SizedSize
    <2>2. ZoneMemSize(z.allocs[1].size, z.type) = ZoneLen(z)
      BY <1>7, <2>1, LenOfType
    <2>. QED  BY <1>1, <1>6, <1>7, <2>2, LenKept DEF FreedZoneSize
  <1>8. ASSUME z.type # "large" PROVE FreeExact(y)
    <2>1. len = ZoneLen(y) /\ y.allocs \in Seq(Alloc)
      BY <1>1, <1>7, <1>8 DEF Zone
    <2> HIDE DEF len
    <2>. QED  BY <1>1, <1>2, <2>1, UpdateExact
  <1>. QED  BY <1>1, <1>6, <1>7, <1>8 DEF y

(* A block shrunk in place leaves the zone sized and its free size exact.  *)
LEMMA ResizedSized ==
  ASSUME SizesAgree, NEW z \in Zone, SizedZone(z), NEW j \in 1..Len(z.allocs),
         NEW size \in RoundedSizes, SetZoneType(size) = z.type
  PROVE  LET y == UpdateFreeMemSize(z, [z.allocs EXCEPT ![j].size = size],
                                    ZoneMemSize(size, z.type))
         IN  SizedZone(y) /\ (z.type # "large" => FreeExact(y))
  <1> DEFINE a == [z.allocs[j] EXCEPT !.size = size]
             shrunk == [z.allocs EXCEPT ![j].size = size]
             len == ZoneMemSize(size, z.type)
             y == UpdateFreeMemSize(z, shrunk, len)
  <1>1. /\ size \in Nat /\ z.type \in ZoneTypes /\ z.allocs \in Seq(Alloc)
        /\ z.allocs[j] \in Alloc /\ DOMAIN z.allocs = 1..Len(z.allocs)
    BY RoundedSizesType, LenProperties, ElementOfSeq DEF Zone
  <1>2. a \in Alloc /\ a.size = size /\ a.cap = z.allocs[j].cap
    BY <1>1 DEF Alloc
  <1>3. shrunk = [z.allocs EXCEPT ![j] = a]  OBVIOUS
  <1>4. len \in Nat /\ len >= ZoneHdr  BY <1>1, ZoneMemSizeBounds
  <1> HIDE DEF a, shrunk, len
  <1>5. /\ shrunk \in Seq(Alloc) /\ Len(shrunk) = Len(z.allocs)
        /\ \A m \in 1..Len(z.allocs) :
             shrunk[m] = IF m = j THEN a ELSE z.allocs[m]
    BY <1>1, <1>2, <1>3, ExceptSeq
  <1>6. y \in Zone /\ y.type = z.type /\ y.allocs = shrunk
    BY <1>4, <1>5, UpdateFreeMemSizeType
  <1>7. DOMAIN shrunk = 1..Len(z.allocs)  BY <1>5, LenProperties
  <1>8. ASSUME NEW i \in DOMAIN y.allocs,
               NEW s \in {y.allocs[i].size, y.allocs[i].cap}
        PROVE  s \in RoundedSizes /\ SetZoneType(s) = y.type
    <2>1. i \in 1..Len(z.allocs)  BY <1>6, <1>7
    <2>2. CASE i = j  BY <1>1, <1>2, <1>5, <1>6, <2>2, SizedSize
    <2>3. CASE i # j  BY <1>1, <1>5, <1>6, <2>1, <2>3, SizedSize
    <2>. QED  BY <2>2, <2>3
  <1>9. SizedZone(y)  BY <1>6, <1>8 DEF SizedZone
  <1>10. ASSUME z.type # "large" PROVE FreeExact(y)
    <2>1. ZoneLen(y) = len
      BY <1>6, <1>9, <1>10, LenOfType DEF len
    <2>. QED  BY <1>4, <1>5, <2>1, UpdateExact
  <1>. QED  BY <1>9, <1>10 DEF shrunk, len

(* What SizesSound says of a list of zones.                                *)
ZonesSized(p) ==
  \A k \in DOMAIN p :
    SizedZone(p[k]) /\ (p[k].type # "large" => FreeExact(p[k]))

(* ... and of the calls.                                                   *)
CallsSized(c) ==
  \A t \in Threads : c[t].stage \in {"move", "finish"} => c[t].size \in RoundedSizes

LEMMA SizesSoundParts == SizesSound <=> ZonesSized(pool) /\ CallsSized(calls)
  BY DEF SizesSound, ZonesSized, CallsSized

(* A new zone is of the type of the request it is made for.                *)
LEMMA FreshZoneSized ==
  ASSUME NEW base \in Nat, NEW size \in RoundedSizes
  PROVE  /\ FreshZone(base, size) \in Zone /\ SizedZone(FreshZone(base, size))
         /\ FreshZone(base, size).type = SetZoneType(size)
         /\ FreshZone(base, size).base = base
         /\ FreshZone(base, size).allocs = << >>
  <1>1. size \in Nat  BY RoundedSizesType
  <1>2. /\ FreshZone(base, size) \in Zone
        /\ FreshZone(base, size).type = SetZoneType(size)
        /\ FreshZone(base, size).allocs = << >>
    BY <1>1, FreshZoneType
  <1>3. DOMAIN << >> = {}  BY EmptySeq, LenProperties
  <1>4. FreshZone(base, size).base = base  BY DEF FreshZone
  <1>. QED  BY <1>2, <1>3, <1>4 DEF SizedZone

(* Serving a request leaves every zone sized.                              *)
LEMMA ServeSized ==
  ASSUME SizesAgree, PoolTypeOK, ZonesSized(pool),
         NEW size \in RoundedSizes, NEW o \in MallocOutcomes(size)
  PROVE  ZonesSized(o.pool)
  <1>1. /\ size \in Nat /\ pool \in Seq(Zone)
        /\ \A k \in DOMAIN pool : pool[k] \in Zone
    BY RoundedSizesType, LenProperties, ElementOfSeq DEF PoolTypeOK
  <1>2. ASSUME NEW k \in DOMAIN pool, NEW c \in Carve(pool[k], size),
               pool[k].type # "large", pool[k].type = SetZoneType(size),
               o.pool = [pool EXCEPT ![k] = c.zone]
        PROVE  ZonesSized(o.pool)
    <2>1. SizedZone(c.zone) /\ FreeExact(c.zone)
      BY <1>1, <1>2, CarveSized DEF ZonesSized
    <2>2. DOMAIN o.pool = DOMAIN pool
          /\ \A m \in DOMAIN pool : o.pool[m] = IF m = k THEN c.zone ELSE pool[m]
      BY <1>2
    <2>. QED  BY <2>1, <2>2 DEF ZonesSized
  <1>3. ASSUME NEW base \in Nat, NEW c \in Carve(FreshZone(base, size), size),
               o.pool = Append(pool, c.zone)
        PROVE  ZonesSized(o.pool)
    <2>1. c.zone \in Zone /\ SizedZone(c.zone) /\ FreeExact(c.zone)
      BY FreshZoneSized, CarveSized
    <2>2. /\ o.pool \in Seq(Zone) /\ Len(o.pool) = Len(pool) + 1
          /\ \A i \in 1..Len(pool) : o.pool[i] = pool[i]
          /\ o.pool[Len(pool) + 1] = c.zone
      BY <1>1, <1>3, <2>1, AppendProperties
    <2>3. /\ Len(pool) \in Nat /\ DOMAIN pool = 1..Len(pool)
          /\ DOMAIN o.pool = 1..(Len(pool) + 1)
      BY <1>1, <2>2, LenProperties
    <2>4. \A i \in DOMAIN o.pool : i = Len(pool) + 1 \/ i \in DOMAIN pool
      BY <2>3
    <2>. QED  BY <2>1, <2>2, <2>3, <2>4 DEF ZonesSized
  <1>4. CASE o = [pool |-> pool, mapped |-> mapped, ptr |-> NULL, listed |-> TRUE]
    BY <1>4
  <1>. QED  BY <1>1, <1>2, <1>3, <1>4, MallocOutcomesCases

(* So does the release of a block ...                                      *)
LEMMA ReleaseSized ==
  ASSUME SizesAgree, PoolTypeOK, ListsSound, ZonesSized(pool),
         NEW ptr, NEW loc \in Find(ptr), Release(loc[1], loc[2])
  PROVE  ZonesSized(pool')
  <1> DEFINE z == pool[loc[1]]
             y == FreedZone(z, loc[2])
  <1>1. /\ loc[1] \in DOMAIN pool /\ loc[2] \in 1..Len(z.allocs)
        /\ z \in Zone /\ Sorted(z) /\ LinksSound(z) /\ SizedZone(z)
    BY FindInPool, LenProperties, ElementOfSeq
       DEF PoolTypeOK, ListsSound, ZonesSized
  <1>2. y \in Zone /\ SizedZone(y) /\ (z.type # "large" => FreeExact(y))
        /\ y.type = z.type
    BY <1>1, FreedSized, FreedZoneType
  <1>3. \A m \in DOMAIN pool' :
          (\E l \in DOMAIN pool : pool'[m] = pool[l]) \/ pool'[m] = y
    BY ReleaseZones DEF PoolTypeOK
  <1> HIDE DEF y, z
  <1>. QED  BY <1>2, <1>3 DEF ZonesSized

(* ... and the shrinking of one in place.                                  *)
LEMMA ShrinkSized ==
  ASSUME SizesAgree, PoolTypeOK, ZonesSized(pool),
         NEW ptr, NEW loc \in Find(ptr), NEW size \in RoundedSizes,
         FitsInPlace(FoundAlloc(loc), size), Shrink(loc[1], loc[2], size)
  PROVE  ZonesSized(pool')
  <1> DEFINE k == loc[1]
             j == loc[2]
             z == pool[k]
             y == UpdateFreeMemSize(z, [z.allocs EXCEPT ![j].size = size],
                                    ZoneMemSize(size, z.type))
  <1>1. /\ k \in DOMAIN pool /\ j \in 1..Len(z.allocs) /\ z \in Zone
        /\ SizedZone(z) /\ size \in Nat /\ pool \in Seq(Zone)
    BY FindInPool, LenProperties, ElementOfSeq, RoundedSizesType
       DEF PoolTypeOK, ZonesSized
  <1>2. SetZoneType(size) = z.type
    <2>1. j \in DOMAIN z.allocs  BY <1>1, LenProperties DEF Zone
    <2>. QED  BY <1>1, <2>1, SizedSize DEF FitsInPlace, FoundAlloc
  <1>3. SizedZone(y) /\ (z.type # "large" => FreeExact(y))
    BY <1>1, <1>2, ResizedSized
  <1>4. pool' = [pool EXCEPT ![k] = y]  BY <1>1 DEF Shrink
  <1>5. y.type = z.type
    <2>1. pool'[k].type = z.type  BY <1>1, ShrinkSteps
    <2>. QED  BY <1>1, <1>4, <2>1
  <1> HIDE DEF y, k, j
  <1>6. DOMAIN pool' = DOMAIN pool
        /\ \A m \in DOMAIN pool : pool'[m] = IF m = k THEN y ELSE pool[m]
    BY <1>1, <1>4
  <1>. QED  BY <1>3, <1>5, <1>6 DEF ZonesSized

(* Every critical section leaves sizes of their zone's type in the         *)
(* headers, exact free sizes, and rounded sizes in the calls: the          *)
(* inductive step of SizesCorrect.                                         *)
THEOREM SizesStep ==
  ASSUME SizesAgree
  PROVE  TypeOK /\ ListsSound /\ SizesSound /\ [Next]_vars => SizesSound'
  <1> SUFFICES ASSUME TypeOK, ListsSound, ZonesSized(pool), CallsSized(calls),
                      [Next]_vars
               PROVE  ZonesSized(pool') /\ CallsSized(calls')
    BY DEF SizesSound, ZonesSized, CallsSized
  <1>1. /\ PoolTypeOK /\ calls \in [Threads -> Calls]
        /\ \A t \in Threads : calls[t] \in Calls
    BY DEF TypeOK, PoolTypeOK
  <1>2. ASSUME NEW ptr, FreePtr(ptr) PROVE ZonesSized(pool')
    BY <1>1, <1>2, ReleaseSized DEF FreePtr, Missed
  <1>3. ASSUME NEW size \in RoundedSizes,
               \/ \E o \in MallocOutcomes(size) : Serve(o)
               \/ \E t \in Threads : Refuse(t, size)
        PROVE  ZonesSized(pool')
    BY <1>1, <1>3, ServeSized DEF Serve, Refuse
  <1>4. ASSUME NEW t \in Threads, NEW c, calls' = [calls EXCEPT ![t] = c],
               c.stage \in {"move", "finish"} => c.size \in RoundedSizes
        PROVE  CallsSized(calls')
    BY <1>1, <1>4 DEF CallsSized
  <1>5. ASSUME NEW t \in Threads, calls' = [calls EXCEPT ![t] = Idle]
        PROVE  CallsSized(calls')
    BY <1>4, <1>5 DEF Idle
  <1>6. ASSUME NEW t \in Threads, NEW i \in Slots, NEW size \in Sizes,
               Malloc(t, i, size)
        PROVE  ZonesSized(pool') /\ CallsSized(calls')
    <2>1. RoundUp(size) \in RoundedSizes  BY RoundedSizesType
    <2>2. calls' = calls  BY <1>6 DEF Malloc
    <2>3. ZonesSized(pool')  BY <1>3, <1>6, <2>1 DEF Malloc
    <2>. QED  BY <2>2, <2>3
  <1>7. ASSUME NEW t \in Threads, NEW i \in Slots, Free(t, i)
        PROVE  ZonesSized(pool') /\ CallsSized(calls')
    BY <1>2, <1>7 DEF Free
  <1>8. ASSUME NEW t \in Threads, NEW i \in Slots, ReallocfZero(t, i)
        PROVE  ZonesSized(pool') /\ CallsSized(calls')
    <2>1. ZonesSized(pool')  BY <1>2, <1>8 DEF ReallocfZero
    <2>2. CallsSized(calls')  BY <1>4, <1>8 DEF ReallocfZero
    <2>. QED  BY <2>1, <2>2
  <1>9. ASSUME NEW t \in Threads, NEW i \in Slots, NEW size \in Sizes,
               NEW api \in Apis, Realloc(t, api, i, size)
        PROVE  ZonesSized(pool') /\ CallsSized(calls')
    <2>1. RoundUp(size) \in RoundedSizes  BY RoundedSizesType
    <2>2. CASE UNCHANGED <<pool, calls>>
      BY <2>2
    <2>3. ASSUME NEW loc \in Find(held[i].ptr),
                 FitsInPlace(FoundAlloc(loc), RoundUp(size)),
                 Shrink(loc[1], loc[2], RoundUp(size)),
                 calls' = [calls EXCEPT ![t] =
                   [stage |-> "finish", slot |-> i, old |-> held[i].ptr,
                    new |-> held[i].ptr, size |-> RoundUp(size)]]
          PROVE  ZonesSized(pool') /\ CallsSized(calls')
      BY <1>1, <1>4, <2>1, <2>3, ShrinkSized
    <2>4. ASSUME calls' = [calls EXCEPT ![t] =
                   [stage |-> "move", api |-> api, slot |-> i,
                    old |-> held[i].ptr, size |-> RoundUp(size)]],
                 UNCHANGED pool
          PROVE  ZonesSized(pool') /\ CallsSized(calls')
      BY <1>4, <2>1, <2>4
    <2>5. ASSUME Missed,
                 calls' = [calls EXCEPT ![t] =
                   IF api = "reallocf" /\ ~AbortOnErr
                   THEN [stage |-> "drop", slot |-> i, old |-> held[i].ptr]
                   ELSE Idle]
          PROVE  ZonesSized(pool') /\ CallsSized(calls')
      BY <1>4, <2>5 DEF Missed, Idle
    <2>. QED  BY <1>9, <2>2, <2>3, <2>4, <2>5 DEF Realloc
  <1>10. ASSUME NEW t \in Threads, ReallocMove(t)
         PROVE  ZonesSized(pool') /\ CallsSized(calls')
    <2>1. calls[t].size \in RoundedSizes
      BY <1>10 DEF ReallocMove, CallsSized
    <2>2. ASSUME GiveUp(t) PROVE CallsSized(calls')
      BY <1>1, <1>4, <2>2 DEF GiveUp, Idle
    <2>3. ASSUME NEW o, calls' = [calls EXCEPT ![t] =
                          [stage |-> "finish", slot |-> @.slot, old |-> @.old,
                           new |-> o.ptr, size |-> @.size]]
          PROVE  CallsSized(calls')
      BY <1>1, <1>4, <2>1, <2>3
    <2>4. ZonesSized(pool')  BY <1>3, <1>10, <2>1 DEF ReallocMove
    <2>5. CallsSized(calls')  BY <1>10, <2>2, <2>3 DEF ReallocMove
    <2>. QED  BY <2>4, <2>5
  <1>11. ASSUME NEW t \in Threads, ReallocFinish(t)
         PROVE  ZonesSized(pool') /\ CallsSized(calls')
    <2>1. ZonesSized(pool')  BY <1>2, <1>11 DEF ReallocFinish
    <2>2. CallsSized(calls')  BY <1>5, <1>11 DEF ReallocFinish
    <2>. QED  BY <2>1, <2>2
  <1>12. ASSUME NEW t \in Threads, ReallocfDrop(t)
         PROVE  ZonesSized(pool') /\ CallsSized(calls')
    <2>1. ZonesSized(pool')  BY <1>1, <1>12, ReleaseSized DEF ReallocfDrop, Missed
    <2>2. CallsSized(calls')  BY <1>5, <1>12 DEF ReallocfDrop
    <2>. QED  BY <2>1, <2>2
  <1>13. CASE UNCHANGED vars  BY <1>13 DEF vars
  <1>14. CASE Next
    BY <1>6, <1>7, <1>8, <1>9, <1>10, <1>11, <1>12, <1>14 DEF Next, Step
  <1>. QED  BY <1>13, <1>14

(* The sizes found in the headers of a zone all give its length, and the   *)
(* free size of a tiny or small zone is exact.                             *)
THEOREM SizesCorrect ==
  ASSUME SizesAgree
  PROVE  Spec => []SizesSound
  <1>1. Init => SizesSound
    <2>1. DOMAIN << >> = {}  BY EmptySeq, LenProperties
    <2>. QED  BY <2>1 DEF Init, SizesSound, Idle
  <1>2. TypeOK /\ ListsSound /\ SizesSound /\ [Next]_vars => SizesSound'
    BY SizesStep
  <1>. QED  BY <1>1, <1>2, TypeCorrect, ListsCorrect, PTL DEF Spec

(* A block that is smaller than the exact free size of a zone of its type, *)
(* with its header, can be carved out of the zone.                         *)
LEMMA HonestZone ==
  ASSUME SizesAgree, NEW z \in Zone, SizedZone(z), FreeExact(z),
         z.type # "large",
         NEW size \in RoundedSizes, SetZoneType(size) = z.type,
         z.free > size + AllocHdr
  PROVE  Carve(z, size) # {}
  <1> DEFINE N == Len(z.allocs)
             gaps == Gaps(z.allocs, z.base + ZoneLen(z))
  <1>1. SUFFICES GetAlloc(z, size) # {}  BY DEF Carve
  <1>2. CASE z.allocs = << >> \/ FitsFront(z, size)
    BY <1>2 DEF GetAlloc
  <1>3. CASE FitsBetween(z, size) # {}
    <2>1. N \in Nat  BY LenProperties DEF Zone
    <2>2. N - 1 \in Nat
      <3>1. N # 0  BY <1>3, <2>1 DEF FitsBetween
      <3>. QED  BY <2>1, <3>1
    <2>3. FitsBetween(z, size) \in SUBSET (1..(N - 1))  BY DEF FitsBetween
    <2>4. FirstOf(FitsBetween(z, size)) # {}
      BY <1>3, <2>2, <2>3, FirstOfSome
    <2>. QED  BY <1>3, <2>4 DEF GetAlloc
  <1>4. CASE z.allocs # << >> /\ FitsBetween(z, size) = {}
    <2>1. /\ size \in Nat /\ z.base \in Nat /\ z.allocs \in Seq(Alloc)
          /\ N \in Nat \ {0} /\ z.free \in Nat
          /\ ZoneLen(z) \in Nat
      BY <1>4, EmptySeq, RoundedSizesType, ZoneLenType DEF Zone
    <2>2. z.free = Max(gaps \cup {0})
      <3>1. UpdateFreeMemSize(z, z.allocs, ZoneLen(z)).free = Max(gaps \cup {0})
        BY <1>4 DEF UpdateFreeMemSize, Zone
      <3>. QED  BY <3>1 DEF FreeExact
    <2>3. gaps \subseteq Int /\ IsFiniteSet(gaps \cup {0})
      <3>1. z.base + ZoneLen(z) \in Int  BY <2>1
      <3>2. gaps \subseteq Int /\ IsFiniteSet(gaps)  BY <1>4, <2>1, <3>1, GapsFinite
      <3> HIDE DEF gaps
      <3>. QED  BY <3>2, FS_AddElement
    <2>4. z.free \in gaps
      <3> HIDE DEF gaps
      <3>1. Max(gaps \cup {0}) \in gaps \cup {0}  BY <2>3, MaxOfFinite
      <3>2. z.free # 0  BY <2>1, SizesAssumption
      <3>. QED  BY <2>2, <3>1, <3>2
    <2>5. \A i \in 1..N : z.allocs[i].at \in Nat /\ End(z.allocs[i]) \in Nat
      BY <2>1, ElementOfSeq, AllocAddresses
    <2>6. \A i \in 1..(N - 1) : z.free # z.allocs[i + 1].at - End(z.allocs[i])
      <3> SUFFICES ASSUME NEW i \in 1..(N - 1),
                          z.free = z.allocs[i + 1].at - End(z.allocs[i])
                   PROVE  FALSE
        OBVIOUS
      <3>1. i \in 1..N /\ i + 1 \in 1..N  BY <2>1
      <3>2. z.allocs[i + 1].at \in Nat /\ End(z.allocs[i]) \in Nat
        BY <2>5, <3>1
      <3>3. z.allocs[i + 1].at > End(z.allocs[i]) + size + AllocHdr
        <4> DEFINE at == z.allocs[i + 1].at
                   e  == End(z.allocs[i])
                   f  == z.free
        <4>1. at \in Nat /\ e \in Nat /\ f = at - e  BY <3>2
        <4>2. f > size + AllocHdr /\ size \in Nat  BY <2>1
        <4> HIDE DEF at, e, f
        <4>3. at > e + size + AllocHdr  BY <4>1, <4>2, SizesAssumption
        <4>. QED  BY <4>3 DEF at, e
      <3>. QED  BY <1>4, <3>3 DEF FitsBetween
    <2>7. z.free = (z.base + ZoneLen(z)) - End(z.allocs[N])
      <3> DEFINE inner == {z.allocs[i + 1].at - End(z.allocs[i]) : i \in 1..(N - 1)}
                 last == (z.base + ZoneLen(z)) - End(z.allocs[N])
      <3>1. gaps = inner \cup {last}  BY DEF Gaps
      <3>2. z.free \notin inner  BY <2>6
      <3> HIDE DEF gaps, inner
      <3>. QED  BY <2>4, <3>1, <3>2
    <2>8. ZoneMemSize(size, z.type) = ZoneLen(z)  BY LenOfType
    <2>9. FitsBehind(z, size)
      <3>1. End(z.allocs[N]) \in Nat  BY <2>1, <2>5
      <3> DEFINE e == End(z.allocs[N])
                 l == ZoneLen(z)
      <3> HIDE DEF e, l, N
      <3>2. z.base + l >= e + size + AllocHdr
        BY <2>1, <2>7, <3>1, SizesAssumption DEF e, l
      <3>. QED  BY <2>8, <3>2 DEF FitsBehind, e, l, N
    <2>. QED  BY <1>4, <2>9 DEF GetAlloc
  <1>. QED  BY <1>2, <1>3, <1>4

(* A zone _get_alloc_zone picks by its free_mem_size has room for the      *)
(* request: malloc never gives up in a zone that is full.                  *)
THEOREM FreeSizeCorrect ==
  ASSUME SizesAgree
  PROVE  Spec => []FreeSizeHonest
  <1>1. TypeOK /\ SizesSound => FreeSizeHonest
    <2> SUFFICES ASSUME TypeOK, SizesSound, NEW k \in DOMAIN pool, NEW s \in Sizes,
                        SetZoneType(RoundUp(s)) = pool[k].type,
                        pool[k].type # "large",
                        pool[k].free > RoundUp(s) + AllocHdr
                 PROVE  Carve(pool[k], RoundUp(s)) # {}
      BY DEF FreeSizeHonest
    <2>1. pool[k] \in Zone  BY LenProperties, ElementOfSeq DEF TypeOK
    <2>2. RoundUp(s) \in RoundedSizes  BY RoundedSizesType
    <2>3. SizedZone(pool[k]) /\ FreeExact(pool[k])  BY DEF SizesSound
    <2>. QED  BY <2>1, <2>2, <2>3, HonestZone
  <1>. QED  BY <1>1, SizesCorrect, TypeCorrect, PTL

-----------------------------------------------------------------------------
(* The blocks of a zone with room for them                                 *)

(* The block a list element describes, the blocks of a zone and those of a *)
(* list of zones.                                                          *)
BlockOf(a) == [ptr |-> Chunk(a), size |-> a.cap]

ZoneBlocks(z) == {BlockOf(z.allocs[j]) : j \in DOMAIN z.allocs}

PoolBlocks(p) == UNION {ZoneBlocks(p[k]) : k \in DOMAIN p}

LEMMA ListedBlocksOfPool == ListedBlocks = PoolBlocks(pool)
  <1>1. ASSUME NEW b \in ListedBlocks PROVE b \in PoolBlocks(pool)
    BY DEF ListedBlocks, ListedAllocs, PoolBlocks, ZoneBlocks, BlockOf
  <1>2. ASSUME NEW b \in PoolBlocks(pool) PROVE b \in ListedBlocks
    BY DEF ListedBlocks, ListedAllocs, PoolBlocks, ZoneBlocks, BlockOf
  <1>. QED  BY <1>1, <1>2

(* Two blocks that do not overlap, their headers included.                 *)
Apart(b, c) ==
  \/ b.ptr + b.size + AllocHdr <= c.ptr
  \/ c.ptr + c.size + AllocHdr <= b.ptr

(* A list without a block, and a zone with room, are sound.                *)
LEMMA RoomySorted ==
  ASSUME NEW z \in Zone, RoomyZone(z) \/ z.allocs = << >>
  PROVE  Linked(z) /\ Ordered(z) /\ Sorted(z) /\ LinksSound(z)
  <1>1. CASE z.allocs = << >>  BY <1>1, EmptyIsSound
  <1>2. CASE RoomyZone(z)
    <2>1. Linked(z) /\ Ordered(z)  BY <1>2 DEF RoomyZone
    <2>2. LinksSound(z)  BY <2>1 DEF Linked, LinksSound
    <2>3. /\ \A j \in DOMAIN z.allocs : z.allocs[j] \in Alloc
          /\ \A j \in DOMAIN z.allocs :
               /\ z.allocs[j].at \in Nat /\ End(z.allocs[j]) \in Nat
               /\ End(z.allocs[j]) > z.allocs[j].at
      BY LenProperties, ElementOfSeq, AllocAddresses DEF Zone
    <2>4. Sorted(z)  BY <2>1, <2>3 DEF Ordered, Sorted
    <2>. QED  BY <2>1, <2>2, <2>4
  <1>. QED  BY <1>1, <1>2

(* A block of a sized zone with room lies behind the header of the zone,   *)
(* with its own header, and ends inside the zone.                          *)
LEMMA RoomyElement ==
  ASSUME NEW z \in Zone, SizedZone(z), RoomyZone(z), NEW j \in DOMAIN z.allocs
  PROVE  /\ z.allocs[j] \in Alloc /\ z.allocs[j].at \in Nat
         /\ BlockOf(z.allocs[j]).ptr = z.allocs[j].at + AllocHdr
         /\ BlockOf(z.allocs[j]).ptr \in Nat
         /\ BlockOf(z.allocs[j]).size \in Nat \ {0}
         /\ BlockOf(z.allocs[j]).size = z.allocs[j].size
         /\ End(z.allocs[j])
              = BlockOf(z.allocs[j]).ptr + BlockOf(z.allocs[j]).size
         /\ z.base + ZoneHdr <= z.allocs[j].at
         /\ End(z.allocs[j]) <= z.base + ZoneLen(z)
  <1>1. /\ z.allocs[j] \in Alloc /\ z.allocs[j].at \in Nat
    BY LenProperties, ElementOfSeq, AllocAddresses DEF Zone
  <1>2. /\ z.allocs[j].size = z.allocs[j].cap
        /\ End(z.allocs[j]) <= z.base + ZoneLen(z)
        /\ z.allocs[j].at >= z.base + ZoneHdr
    BY DEF RoomyZone, Ordered, FirstSlot
  <1>3. z.allocs[j].cap \in Nat \ {0}
    BY SizedSize, RoundedSizesType
  <1>. QED  BY <1>1, <1>2, <1>3, SizesAssumption DEF BlockOf, Chunk, End, Zone

(* Blocks at different places of its list are apart.                       *)
LEMMA RoomyApart ==
  ASSUME NEW z \in Zone, SizedZone(z), RoomyZone(z),
         NEW i \in DOMAIN z.allocs, NEW j \in DOMAIN z.allocs, i # j
  PROVE  /\ Apart(BlockOf(z.allocs[i]), BlockOf(z.allocs[j]))
         /\ BlockOf(z.allocs[i]) # BlockOf(z.allocs[j])
  <1> DEFINE b(k) == BlockOf(z.allocs[k])
  <1>1. \A k \in DOMAIN z.allocs :
          /\ b(k).ptr \in Nat /\ b(k).size \in Nat
          /\ b(k).ptr = z.allocs[k].at + AllocHdr
          /\ z.allocs[k].at \in Nat
          /\ End(z.allocs[k]) = b(k).ptr + b(k).size
    BY RoomyElement
  <1>2. i \in Nat /\ j \in Nat  BY LenProperties DEF Zone
  <1>3. i < j => End(z.allocs[i]) <= z.allocs[j].at  BY DEF RoomyZone, Ordered
  <1>4. j < i => End(z.allocs[j]) <= z.allocs[i].at  BY DEF RoomyZone, Ordered
  <1> HIDE DEF b
  <1>5. Apart(b(i), b(j))
    <2>1. CASE i < j
      BY <1>1, <1>3, <2>1, SizesAssumption DEF Apart
    <2>2. CASE j < i
      BY <1>1, <1>4, <2>2, SizesAssumption DEF Apart
    <2>. QED  BY <1>2, <2>1, <2>2
  <1>6. b(i) # b(j)
    <2> SUFFICES ASSUME b(i) = b(j) PROVE FALSE  OBVIOUS
    <2>. QED  BY <1>1, <1>5, SizesAssumption DEF Apart
  <1>. QED  BY <1>5, <1>6 DEF b

(* A block carved out of a zone with room, and listed, is a new block of   *)
(* the zone, which still has room.                                         *)
LEMMA CarveRoomy ==
  ASSUME SizesAgree, NEW z \in Zone, SizedZone(z),
         RoomyZone(z) \/ z.allocs = << >>,
         z.type = "large" => z.allocs = << >>,
         NEW size \in RoundedSizes, SetZoneType(size) = z.type,
         NEW c \in Carve(z, size), c.listed
  PROVE  /\ RoomyZone(c.zone)
         /\ [ptr |-> c.ptr, size |-> size] \notin ZoneBlocks(z)
         /\ ZoneBlocks(c.zone)
              = ZoneBlocks(z) \cup {[ptr |-> c.ptr, size |-> size]}
  <1> DEFINE y == c.zone
             len == ZoneMemSize(size, z.type)
             new == [ptr |-> c.ptr, size |-> size]
  <1>1. size \in Nat /\ z.type \in ZoneTypes /\ z.base \in Nat
    BY RoundedSizesType DEF Zone
  <1>2. Linked(z) /\ Ordered(z) /\ Sorted(z) /\ LinksSound(z)
    BY RoomySorted
  <1>3. /\ y \in Zone /\ y.base = z.base /\ y.type = z.type
        /\ Linked(y) /\ Ordered(y)
        /\ (z.allocs = << >> => Len(y.allocs) = 1)
    BY <1>1, <1>2, CarveKeepsZone
  <1>4. ZoneLen(y) = len /\ SizedZone(y)  BY CarveSized
  <1>5. len \in Nat /\ ZoneHdr + AllocHdr + size <= len
    BY <1>1, ZoneMemSizeBounds DEF SizesAgree
  <1>6. PICK n \in DOMAIN y.allocs : NewElement(z, size, c, n)
    BY <1>1, CarvedElements
  <1>7. /\ \A i \in DOMAIN y.allocs :
             y.allocs[i] \in Alloc /\ y.allocs[i].at \in Nat
               /\ End(y.allocs[i]) \in Nat /\ End(y.allocs[i]) > y.allocs[i].at
        /\ \A i \in DOMAIN z.allocs :
             z.allocs[i] \in Alloc /\ z.allocs[i].at \in Nat
               /\ End(z.allocs[i]) \in Nat /\ End(z.allocs[i]) > z.allocs[i].at
    BY <1>3, LenProperties, ElementOfSeq, AllocAddresses DEF Zone
  <1>8. ASSUME NEW m \in DOMAIN z.allocs
        PROVE  /\ z.allocs[m].size = z.allocs[m].cap
               /\ End(z.allocs[m]) <= z.base + len
    <2>1. z.allocs # << >>  BY EmptySeq, LenProperties
    <2>2. RoomyZone(z) /\ z.type # "large"  BY <2>1
    <2>3. ZoneLen(z) = len  BY <2>2, LenOfType
    <2>. QED  BY <2>2, <2>3 DEF RoomyZone
  <1> HIDE DEF y, len
  <1>9. End(y.allocs[n]) <= z.base + len
    <2>1. CASE End(y.allocs[n]) = z.base + ZoneHdr + AllocHdr + size
      <3> DEFINE b == z.base
      <3>1. b \in Nat  BY <1>1
      <3> HIDE DEF b
      <3>2. b + ZoneHdr + AllocHdr + size <= b + len
        BY <1>1, <1>5, <3>1, SizesAssumption
      <3>. QED  BY <2>1, <3>2 DEF b
    <2>2. CASE z.allocs # << >> /\ End(y.allocs[n]) <= z.allocs[1].at
      <3>1. 1 \in DOMAIN z.allocs
        BY <2>2, EmptySeq, LenProperties DEF Zone
      <3>. QED  BY <1>1, <1>5, <1>6, <1>7, <1>8, <2>2, <3>1
    <2>3. CASE End(y.allocs[n]) <= z.base + ZoneMemSize(size, z.type)
      BY <2>3 DEF len
    <2>. QED  BY <1>6, <2>1, <2>2, <2>3 DEF NewElement, y
  <1>10. ASSUME NEW i \in DOMAIN y.allocs, i # n
         PROVE  /\ BlockOf(y.allocs[i]) \in ZoneBlocks(z)
                /\ y.allocs[i].size = y.allocs[i].cap
                /\ End(y.allocs[i]) <= z.base + len
    <2>1. PICK m \in DOMAIN z.allocs : Same(y.allocs[i], z.allocs[m])
      BY <1>6, <1>10 DEF NewElement, y
    <2>. QED  BY <1>8, <2>1 DEF Same, End, Chunk, BlockOf, ZoneBlocks
  <1>11. /\ BlockOf(y.allocs[n]) = new
         /\ y.allocs[n].size = y.allocs[n].cap
    BY <1>6 DEF NewElement, BlockOf, y
  <1>12. RoomyZone(y)
    <2>1. \A i \in DOMAIN y.allocs :
            y.allocs[i].size = y.allocs[i].cap /\ End(y.allocs[i]) <= z.base + len
      BY <1>9, <1>10, <1>11
    <2>2. ASSUME y.type = "large"
          PROVE  Len(y.allocs) = 1 /\ y.allocs[1].at = FirstSlot(y)
      <3>1. z.allocs = << >> /\ Len(y.allocs) = 1  BY <1>3, <2>2
      <3>2. n = 1  BY <1>3, <3>1, LenProperties DEF Zone
      <3>3. /\ End(y.allocs[1]) = z.base + ZoneHdr + AllocHdr + size
            /\ y.allocs[1].size = size
        BY <1>6, <3>1, <3>2 DEF NewElement, y
      <3>4. y.allocs[1].at = z.base + ZoneHdr
        <4>1. y.allocs[1].at \in Nat  BY <1>7, <3>2
        <4>2. End(y.allocs[1]) = y.allocs[1].at + AllocHdr + size
          BY <3>3 DEF End, Chunk
        <4> DEFINE at == y.allocs[1].at
                   b  == z.base
        <4>3. /\ at \in Nat /\ b \in Nat /\ size \in Nat
              /\ at + AllocHdr + size = b + ZoneHdr + AllocHdr + size
          BY <1>1, <3>3, <4>1, <4>2
        <4> HIDE DEF at, b
        <4>4. at = b + ZoneHdr  BY <4>3, SizesAssumption
        <4>. QED  BY <4>4 DEF at, b
      <3>. QED  BY <1>3, <3>1, <3>4 DEF FirstSlot
    <2>. QED  BY <1>3, <1>4, <2>1, <2>2 DEF RoomyZone
  <1>13. ASSUME NEW m \in DOMAIN z.allocs
         PROVE  \E i \in DOMAIN y.allocs :
                  i # n /\ BlockOf(y.allocs[i]) = BlockOf(z.allocs[m])
    <2>1. PICK i \in DOMAIN y.allocs : i # n /\ Same(y.allocs[i], z.allocs[m])
      BY <1>6 DEF NewElement, y
    <2>. QED  BY <2>1 DEF Same, BlockOf, Chunk
  <1> HIDE DEF new
  <1>14. new \notin ZoneBlocks(z)
    <2> SUFFICES ASSUME NEW m \in DOMAIN z.allocs, new = BlockOf(z.allocs[m])
                 PROVE  FALSE
      BY DEF ZoneBlocks
    <2>1. PICK i \in DOMAIN y.allocs :
            i # n /\ BlockOf(y.allocs[i]) = BlockOf(z.allocs[m])
      BY <1>13
    <2>. QED  BY <1>3, <1>4, <1>11, <1>12, <2>1, RoomyApart
  <1>15. ZoneBlocks(y) = ZoneBlocks(z) \cup {new}
    <2>1. ASSUME NEW b \in ZoneBlocks(y) PROVE b \in ZoneBlocks(z) \cup {new}
      BY <1>10, <1>11 DEF ZoneBlocks
    <2>2. ASSUME NEW b \in ZoneBlocks(z) PROVE b \in ZoneBlocks(y)
      BY <1>13 DEF ZoneBlocks
    <2>3. new \in ZoneBlocks(y)  BY <1>11 DEF ZoneBlocks
    <2>. QED  BY <2>1, <2>2, <2>3
  <1>. QED  BY <1>12, <1>14, <1>15 DEF y, new

(* free takes one block out of a zone with room: exactly that one, and the *)
(* others stay.                                                            *)
LEMMA FreedBlocks ==
  ASSUME NEW z \in Zone, SizedZone(z), RoomyZone(z), NEW j \in 1..Len(z.allocs)
  PROVE  ZoneBlocks(FreedZone(z, j)) = ZoneBlocks(z) \ {BlockOf(z.allocs[j])}
  <1> DEFINE u == Unlink(z.allocs, j)
  <1>1. Linked(z) /\ Sorted(z) /\ LinksSound(z) /\ j \in DOMAIN z.allocs
    BY RoomySorted, LenProperties DEF Zone
  <1>2. InPlace(z, j)  BY <1>1 DEF Linked
  <1>3. /\ \A i \in DOMAIN u : \E m \in DOMAIN z.allocs :
             Same(u[i], z.allocs[m]) /\ m # j
        /\ \A m \in DOMAIN z.allocs : m # j =>
             \E i \in DOMAIN u : Same(u[i], z.allocs[m])
    BY <1>1, <1>2, FreedElements
  <1>4. FreedZone(z, j).allocs = u  BY FreedZoneType
  <1> HIDE DEF u
  <1>5. ASSUME NEW i \in DOMAIN u
        PROVE  /\ BlockOf(u[i]) \in ZoneBlocks(z)
               /\ BlockOf(u[i]) # BlockOf(z.allocs[j])
    <2>1. PICK m \in DOMAIN z.allocs : Same(u[i], z.allocs[m]) /\ m # j
      BY <1>3
    <2>2. BlockOf(u[i]) = BlockOf(z.allocs[m])
      BY <2>1 DEF Same, BlockOf, Chunk
    <2>3. BlockOf(z.allocs[m]) # BlockOf(z.allocs[j])
      BY <1>1, <2>1, RoomyApart
    <2>. QED  BY <2>2, <2>3 DEF ZoneBlocks
  <1>6. ASSUME NEW m \in DOMAIN z.allocs, BlockOf(z.allocs[m]) # BlockOf(z.allocs[j])
        PROVE  \E i \in DOMAIN u : BlockOf(u[i]) = BlockOf(z.allocs[m])
    <2>1. PICK i \in DOMAIN u : Same(u[i], z.allocs[m])  BY <1>3, <1>6
    <2>. QED  BY <2>1 DEF Same, BlockOf, Chunk
  <1>7. ZoneBlocks(FreedZone(z, j)) = {BlockOf(u[i]) : i \in DOMAIN u}
    BY <1>4 DEF ZoneBlocks
  <1>8. ASSUME NEW b \in ZoneBlocks(z), b # BlockOf(z.allocs[j])
        PROVE  b \in {BlockOf(u[i]) : i \in DOMAIN u}
    <2>1. PICK m \in DOMAIN z.allocs : b = BlockOf(z.allocs[m])  BY DEF ZoneBlocks
    <2>. QED  BY <1>6, <1>8, <2>1
  <1>. QED  BY <1>5, <1>7, <1>8

(* The zone it was in has room as before, if it is not large ...           *)
LEMMA FreedRoomy ==
  ASSUME SizesAgree, NEW z \in Zone, SizedZone(z), RoomyZone(z),
         NEW j \in 1..Len(z.allocs), z.type # "large"
  PROVE  /\ RoomyZone(FreedZone(z, j))
         /\ ZoneLen(FreedZone(z, j)) = ZoneLen(z)
  <1> DEFINE y == FreedZone(z, j)
  <1>1. /\ Linked(z) /\ Ordered(z) /\ Sorted(z) /\ LinksSound(z)
        /\ j \in DOMAIN z.allocs
    BY RoomySorted, LenProperties DEF Zone
  <1>2. /\ y \in Zone /\ y.base = z.base /\ y.type = z.type
        /\ y.allocs = Unlink(z.allocs, j)
    BY FreedZoneType
  <1>3. ZoneLen(y) = ZoneLen(z)  BY <1>1, FreedSized
  <1>4. \A i \in DOMAIN y.allocs :
          \E m \in DOMAIN z.allocs : Same(y.allocs[i], z.allocs[m])
    <2>1. \A i \in DOMAIN Unlink(z.allocs, j) : \E m \in DOMAIN z.allocs :
            Same(Unlink(z.allocs, j)[i], z.allocs[m])
      BY <1>1, FreedElements
    <2>. QED  BY <1>2, <2>1
  <1> HIDE DEF y
  <1>5. Linked(y) /\ Ordered(y)  BY <1>1, <1>2, UnlinkKeepsList
  <1>6. ASSUME NEW i \in DOMAIN y.allocs
        PROVE  /\ y.allocs[i].size = y.allocs[i].cap
               /\ End(y.allocs[i]) <= y.base + ZoneLen(y)
    <2>1. PICK m \in DOMAIN z.allocs : Same(y.allocs[i], z.allocs[m])  BY <1>4
    <2>2. /\ z.allocs[m].size = z.allocs[m].cap
          /\ End(z.allocs[m]) <= z.base + ZoneLen(z)
      BY DEF RoomyZone
    <2>. QED  BY <1>2, <1>3, <2>1, <2>2 DEF Same, End, Chunk
  <1>. QED  BY <1>2, <1>3, <1>5, <1>6 DEF RoomyZone, y

(* No list of blocks leaves a gap as wide as the zone without its header:  *)
(* only an empty list has the free size that makes free give a zone back.  *)
LEMMA FullGapIsEmpty ==
  ASSUME NEW z \in Zone, SizedZone(z), RoomyZone(z), z.allocs # << >>
  PROVE  /\ ZoneLen(z) \in Nat
         /\ Max(Gaps(z.allocs, z.base + ZoneLen(z)) \cup {0})
              < ZoneLen(z) - ZoneHdr
  <1> DEFINE N == Len(z.allocs)
             len == ZoneLen(z)
             gaps == Gaps(z.allocs, z.base + len)
  <1>1. /\ N \in Nat \ {0} /\ z.base \in Nat /\ len \in Nat
        /\ z.allocs \in Seq(Alloc) /\ DOMAIN z.allocs = 1..N
    BY EmptySeq, LenProperties, ZoneLenType DEF Zone
  <1>2. \A i \in 1..N :
          /\ z.allocs[i].at \in Nat /\ End(z.allocs[i]) \in Nat
          /\ z.base + ZoneHdr + AllocHdr <= End(z.allocs[i])
          /\ z.allocs[i].at < End(z.allocs[i])
          /\ End(z.allocs[i]) <= z.base + len
    <2> SUFFICES ASSUME NEW i \in 1..N
                 PROVE  /\ z.allocs[i].at \in Nat /\ End(z.allocs[i]) \in Nat
                        /\ z.base + ZoneHdr + AllocHdr <= End(z.allocs[i])
                        /\ z.allocs[i].at < End(z.allocs[i])
                        /\ End(z.allocs[i]) <= z.base + len
      OBVIOUS
    <2>1. /\ z.allocs[i] \in Alloc /\ z.base + ZoneHdr <= z.allocs[i].at
          /\ End(z.allocs[i]) <= z.base + len
      BY <1>1, RoomyElement
    <2>2. /\ z.allocs[i].at \in Nat /\ End(z.allocs[i]) \in Nat
          /\ End(z.allocs[i]) > z.allocs[i].at
          /\ End(z.allocs[i]) >= z.allocs[i].at + AllocHdr
      BY <2>1, AllocAddresses
    <2> DEFINE at == z.allocs[i].at
               e  == End(z.allocs[i])
               b  == z.base
    <2>3. /\ b \in Nat /\ at \in Nat /\ e \in Nat
          /\ b + ZoneHdr <= at /\ e >= at + AllocHdr
      BY <1>1, <2>1, <2>2
    <2> HIDE DEF at, e, b
    <2>4. b + ZoneHdr + AllocHdr <= e  BY <2>3, SizesAssumption
    <2>5. z.base + ZoneHdr + AllocHdr <= End(z.allocs[i])  BY <2>4 DEF b, e
    <2>6. z.allocs[i].at < End(z.allocs[i])  BY <2>2
    <2> HIDE DEF len
    <2>. QED  BY <2>1, <2>2, <2>5, <2>6
  <1>3. gaps \subseteq Int /\ IsFiniteSet(gaps \cup {0})
    <2>1. z.base + len \in Int  BY <1>1
    <2>2. gaps \subseteq Int /\ IsFiniteSet(gaps)  BY <1>1, <2>1, GapsFinite
    <2> HIDE DEF gaps
    <2>. QED  BY <2>2, FS_AddElement
  <1> HIDE DEF len
  <1>4. \A g \in gaps \cup {0} : g < len - ZoneHdr
    <2>1. ASSUME NEW i \in 1..(N - 1)
          PROVE  z.allocs[i + 1].at - End(z.allocs[i]) < len - ZoneHdr
      <3>1. i \in 1..N /\ i + 1 \in 1..N  BY <1>1
      <3> DEFINE a == z.allocs[i + 1].at
                 f == End(z.allocs[i + 1])
                 e == End(z.allocs[i])
      <3>2. /\ a \in Nat /\ f \in Nat /\ e \in Nat /\ a < f
            /\ f <= z.base + len /\ z.base + ZoneHdr + AllocHdr <= e
        BY <1>2, <3>1
      <3> HIDE DEF a, e, f
      <3>3. a - e < len - ZoneHdr  BY <1>1, <3>2, SizesAssumption
      <3>. QED  BY <3>3 DEF a, e
    <2>2. (z.base + len) - End(z.allocs[N]) < len - ZoneHdr
      <3> DEFINE e == End(z.allocs[N])
      <3>1. e \in Nat /\ z.base + ZoneHdr + AllocHdr <= e  BY <1>1, <1>2
      <3> HIDE DEF e, N
      <3>2. (z.base + len) - e < len - ZoneHdr  BY <1>1, <3>1, SizesAssumption
      <3>. QED  BY <3>2 DEF e
    <2>3. 0 < len - ZoneHdr
      <3> DEFINE e == End(z.allocs[N])
      <3>1. e \in Nat /\ z.base + ZoneHdr + AllocHdr <= e /\ e <= z.base + len
        BY <1>1, <1>2
      <3> HIDE DEF e, N
      <3>. QED  BY <1>1, <3>1, SizesAssumption
    <2>4. gaps = {z.allocs[i + 1].at - End(z.allocs[i]) : i \in 1..(N - 1)}
                   \cup {(z.base + len) - End(z.allocs[N])}
      BY DEF Gaps
    <2> HIDE DEF gaps
    <2>. QED  BY <2>1, <2>2, <2>3, <2>4
  <1> HIDE DEF gaps
  <1>5. Max(gaps \cup {0}) \in gaps \cup {0}
    <2>1. gaps \cup {0} \in SUBSET Int /\ gaps \cup {0} # {}  BY <1>3
    <2>. QED  BY <1>3, <2>1, MaxOfFinite
  <1>. QED  BY <1>1, <1>4, <1>5 DEF gaps, len

(* ... and free gives the zone back only when the block was its last, as   *)
(* it is in a large zone; the length it passes to munmap is the zone's.    *)
LEMMA UnmapsEmptied ==
  ASSUME SizesAgree, NEW z \in Zone, SizedZone(z), RoomyZone(z),
         NEW j \in 1..Len(z.allocs)
  PROVE  /\ FreedZoneSize(z) = ZoneLen(z)
         /\ FreedZone(z, j).free = FreedZoneSize(z) - ZoneHdr =>
              ZoneBlocks(z) = {BlockOf(z.allocs[j])}
         /\ z.type = "large" =>
              FreedZone(z, j).free = FreedZoneSize(z) - ZoneHdr
  <1> DEFINE y == FreedZone(z, j)
             u == Unlink(z.allocs, j)
             N == Len(z.allocs)
  <1>1. /\ Linked(z) /\ Sorted(z) /\ LinksSound(z)
        /\ N \in Nat /\ DOMAIN z.allocs = 1..N /\ 1 \in 1..N /\ z.allocs # << >>
    BY RoomySorted, EmptySeq, LenProperties DEF Zone
  <1>2. /\ y \in Zone /\ y.base = z.base /\ y.type = z.type /\ y.allocs = u
        /\ (y.allocs = << >> => y.free = FreedZoneSize(z) - ZoneHdr)
        /\ FreedZoneSize(z) \in Nat
    BY FreedZoneType
  <1>3. u \in Seq(Alloc) /\ Len(u) = N - 1
    <2>1. InPlace(z, j)  BY <1>1 DEF Linked
    <2>. QED  BY <1>1, <2>1, FreedElements
  <1>4. u = << >> <=> N = 1
    <2>1. u = << >> <=> Len(u) = 0  BY <1>3, EmptySeq
    <2> HIDE DEF u, N
    <2>. QED  BY <1>1, <1>3, <2>1
  <1>5. FreedZoneSize(z) = ZoneLen(z)
    <2>1. z.allocs[1].size = z.allocs[1].cap  BY <1>1 DEF RoomyZone
    <2>. QED  BY <1>1, <2>1 DEF FreedZoneSize, ZoneLen
  <1>6. z.type = "large" => y.free = FreedZoneSize(z) - ZoneHdr
    BY <1>2, <1>4 DEF RoomyZone
  <1>7. ASSUME u # << >> PROVE y.free # FreedZoneSize(z) - ZoneHdr
    <2>1. z.type # "large"  BY <1>4, <1>7 DEF RoomyZone
    <2>2. /\ RoomyZone(y) /\ ZoneLen(y) = ZoneLen(z) /\ SizedZone(y)
          /\ FreeExact(y)
      BY <1>1, <2>1, FreedRoomy, FreedSized
    <2> HIDE DEF y
    <2>3. y.free = Max(Gaps(y.allocs, y.base + ZoneLen(y)) \cup {0})
      <3>1. UpdateFreeMemSize(y, y.allocs, ZoneLen(y)).free
              = Max(Gaps(y.allocs, y.base + ZoneLen(y)) \cup {0})
        BY <1>2, <1>7 DEF UpdateFreeMemSize, Zone
      <3>. QED  BY <2>2, <3>1 DEF FreeExact
    <2>4. ZoneLen(y) \in Nat /\ y.free < ZoneLen(y) - ZoneHdr
      BY <1>2, <1>7, <2>2, <2>3, FullGapIsEmpty
    <2>5. y.free \in Nat  BY <1>2 DEF Zone
    <2>. QED  BY <1>5, <2>2, <2>4, <2>5, SizesAssumption
  <1>8. N = 1 => ZoneBlocks(z) = {BlockOf(z.allocs[j])}
    BY <1>1 DEF ZoneBlocks
  <1>. QED  BY <1>4, <1>5, <1>6, <1>7, <1>8

-----------------------------------------------------------------------------
(* Pages                                                                   *)

(* A later byte lies on no earlier page.                                   *)
LEMMA PageOrder ==
  ASSUME NEW a \in Nat, NEW b \in Nat, a <= b
  PROVE  a \div Page \in Nat /\ b \div Page \in Nat
         /\ a \div Page <= b \div Page
  <1> DEFINE p == a \div Page
             q == b \div Page
  <1>1. /\ p \in Nat /\ q \in Nat
        /\ Page * p <= a /\ b < Page * q + Page
    BY SizesAssumption, DivBounds
  <1> HIDE DEF p, q
  <1>2. p <= q
    <2> SUFFICES ASSUME p >= q + 1 PROVE FALSE  BY <1>1
    <2>1. Page * p >= Page * (q + 1)  BY <1>1, SizesAssumption
    <2>2. Page * (q + 1) = Page * q + Page  BY <1>1, SizesAssumption
    <2>3. Page * p \in Nat /\ Page * q \in Nat  BY <1>1, SizesAssumption
    <2>. QED  BY <1>1, <2>1, <2>2, <2>3, SizesAssumption
  <1>. QED  BY <1>1, <1>2 DEF p, q

(* The page of a byte of a range is one of the pages of the range.         *)
LEMMA PageOfByte ==
  ASSUME NEW base \in Nat, NEW len \in Nat, NEW x \in Nat,
         base <= x, x < base + len
  PROVE  x \div Page \in PagesOf(base, len)
  <1>1. base + len - 1 \in Nat /\ x <= base + len - 1  OBVIOUS
  <1>2. /\ base \div Page \in Nat /\ x \div Page \in Nat
        /\ base \div Page <= x \div Page
    BY PageOrder
  <1>3. /\ (base + len - 1) \div Page \in Nat
        /\ x \div Page <= (base + len - 1) \div Page
    BY <1>1, PageOrder
  <1>. QED  BY <1>2, <1>3 DEF PagesOf

(* Ranges without a page in common do not overlap.                         *)
LEMMA RangesApart ==
  ASSUME NEW a \in Nat, NEW n \in Nat \ {0}, NEW b \in Nat, NEW m \in Nat \ {0},
         PagesOf(a, n) \cap PagesOf(b, m) = {}
  PROVE  a + n <= b \/ b + m <= a
  <1>1. CASE a <= b /\ b < a + n
    <2>1. b \div Page \in PagesOf(a, n)  BY <1>1, PageOfByte
    <2>2. b \div Page \in PagesOf(b, m)  BY PageOfByte
    <2>. QED  BY <2>1, <2>2
  <1>2. CASE b <= a /\ a < b + m
    <2>1. a \div Page \in PagesOf(b, m)  BY <1>2, PageOfByte
    <2>2. a \div Page \in PagesOf(a, n)  BY PageOfByte
    <2>. QED  BY <2>1, <2>2
  <1>. QED  BY <1>1, <1>2

(* A part of a mapped range is mapped.                                     *)
LEMMA PartBacked ==
  ASSUME NEW base \in Nat, NEW len \in Nat, PagesOf(base, len) \subseteq mapped,
         NEW a \in Nat, NEW n \in Nat \ {0}, base <= a, a + n <= base + len
  PROVE  Backed(a, n)
  <1>1. /\ a + n - 1 \in Nat /\ base + len - 1 \in Nat
        /\ a + n - 1 <= base + len - 1
    OBVIOUS
  <1>2. /\ base \div Page \in Nat /\ a \div Page \in Nat
        /\ base \div Page <= a \div Page
    BY PageOrder
  <1>3. /\ (base + len - 1) \div Page \in Nat /\ (a + n - 1) \div Page \in Nat
        /\ (a + n - 1) \div Page <= (base + len - 1) \div Page
    BY <1>1, PageOrder
  <1>4. (a \div Page)..((a + n - 1) \div Page) \subseteq PagesOf(base, len)
    BY <1>2, <1>3 DEF PagesOf
  <1>. QED  BY <1>4 DEF Backed

-----------------------------------------------------------------------------
(* Lists of zones                                                          *)

(* What ZonesSound says of a list of zones and a set of mapped pages.      *)
PoolSound(p, m) ==
  /\ \A k \in DOMAIN p : RoomyZone(p[k]) /\ ZonePages(p[k]) \subseteq m
  /\ \A k, l \in DOMAIN p : k # l => ZonePages(p[k]) \cap ZonePages(p[l]) = {}

LEMMA ZonesSoundIsPoolSound == ZonesSound <=> (Clean => PoolSound(pool, mapped))
  BY DEF ZonesSound, PoolSound

AllPages(p) == UNION {ZonePages(p[k]) : k \in DOMAIN p}

(* A zone with room has a length and a place in memory.                    *)
LEMMA RoomyLen ==
  ASSUME NEW z \in Zone, SizedZone(z), RoomyZone(z)
  PROVE  /\ z.base \in Nat /\ ZoneLen(z) \in Nat \ {0} /\ ZoneHdr <= ZoneLen(z)
         /\ ZonePages(z) = PagesOf(z.base, ZoneLen(z))
  <1>1. z.type = "large" => z.allocs # << >>
    <2>1. z.allocs = << >> <=> Len(z.allocs) = 0  BY EmptySeq DEF Zone
    <2>. QED  BY <2>1 DEF RoomyZone
  <1>. QED  BY <1>1, ZoneLenType, SizesAssumption DEF Zone, ZonePages

(* Where a block is, with its header and the header of its zone.           *)
LEMMA BlockInZone ==
  ASSUME NEW z \in Zone, SizedZone(z), RoomyZone(z), NEW b \in ZoneBlocks(z)
  PROVE  /\ b \in [ptr: Nat, size: Nat \ {0}]
         /\ z.base + ZoneHdr + AllocHdr <= b.ptr
         /\ b.ptr + b.size <= z.base + ZoneLen(z)
  <1>1. PICK j \in DOMAIN z.allocs : b = BlockOf(z.allocs[j])  BY DEF ZoneBlocks
  <1>2. /\ b.ptr \in Nat /\ b.size \in Nat \ {0}
        /\ b.ptr = z.allocs[j].at + AllocHdr
        /\ z.allocs[j].at \in Nat
        /\ z.base + ZoneHdr <= z.allocs[j].at
        /\ End(z.allocs[j]) = b.ptr + b.size
        /\ End(z.allocs[j]) <= z.base + ZoneLen(z)
    BY <1>1, RoomyElement
  <1>3. b = [ptr |-> b.ptr, size |-> b.size]  BY <1>1 DEF BlockOf
  <1>4. z.base \in Nat  BY DEF Zone
  <1>. QED  BY <1>2, <1>3, <1>4, SizesAssumption

(* A list of sized zones with pages of their own: the blocks are apart,    *)
(* and each is in one zone.                                                *)
LEMMA PoolBlocksApart ==
  ASSUME NEW p \in Seq(Zone), ZonesSized(p), NEW m, PoolSound(p, m)
  PROVE  /\ \A b \in PoolBlocks(p) : b \in [ptr: Nat, size: Nat \ {0}]
         /\ \A b, c \in PoolBlocks(p) : b # c => Apart(b, c)
         /\ \A b, c \in PoolBlocks(p) : b.ptr = c.ptr => b = c
         /\ \A k, l \in DOMAIN p : \A b \in ZoneBlocks(p[k]) :
              b \in ZoneBlocks(p[l]) => k = l
  <1>1. \A k \in DOMAIN p : p[k] \in Zone /\ SizedZone(p[k]) /\ RoomyZone(p[k])
    BY LenProperties, ElementOfSeq DEF ZonesSized, PoolSound
  <1>2. ASSUME NEW b \in PoolBlocks(p) PROVE b \in [ptr: Nat, size: Nat \ {0}]
    BY <1>1, BlockInZone DEF PoolBlocks
  <1>3. ASSUME NEW k \in DOMAIN p, NEW l \in DOMAIN p, k # l,
               NEW b \in ZoneBlocks(p[k]), NEW c \in ZoneBlocks(p[l])
        PROVE  Apart(b, c)
    <2>1. /\ p[k].base \in Nat /\ ZoneLen(p[k]) \in Nat \ {0}
          /\ p[l].base \in Nat /\ ZoneLen(p[l]) \in Nat \ {0}
          /\ ZonePages(p[k]) = PagesOf(p[k].base, ZoneLen(p[k]))
          /\ ZonePages(p[l]) = PagesOf(p[l].base, ZoneLen(p[l]))
      BY <1>1, RoomyLen
    <2>2. PagesOf(p[k].base, ZoneLen(p[k])) \cap PagesOf(p[l].base, ZoneLen(p[l])) = {}
      BY <1>3, <2>1 DEF PoolSound
    <2>3. \/ p[k].base + ZoneLen(p[k]) <= p[l].base
          \/ p[l].base + ZoneLen(p[l]) <= p[k].base
      BY <2>1, <2>2, RangesApart
    <2>4. /\ b.ptr \in Nat /\ b.size \in Nat
          /\ p[k].base + ZoneHdr + AllocHdr <= b.ptr
          /\ b.ptr + b.size <= p[k].base + ZoneLen(p[k])
      BY <1>1, BlockInZone
    <2>5. /\ c.ptr \in Nat /\ c.size \in Nat
          /\ p[l].base + ZoneHdr + AllocHdr <= c.ptr
          /\ c.ptr + c.size <= p[l].base + ZoneLen(p[l])
      BY <1>1, BlockInZone
    <2> DEFINE bk == p[k].base
               bl == p[l].base
               nk == ZoneLen(p[k])
               nl == ZoneLen(p[l])
               pb == b.ptr
               pc == c.ptr
               sb == b.size
               sc == c.size
    <2> HIDE DEF bk, bl, nk, nl, pb, pc, sb, sc
    <2>6. /\ bk \in Nat /\ bl \in Nat /\ nk \in Nat /\ nl \in Nat
          /\ pb \in Nat /\ pc \in Nat /\ sb \in Nat /\ sc \in Nat
          /\ bk + nk <= bl \/ bl + nl <= bk
          /\ bk + ZoneHdr + AllocHdr <= pb /\ pb + sb <= bk + nk
          /\ bl + ZoneHdr + AllocHdr <= pc /\ pc + sc <= bl + nl
      BY <2>1, <2>3, <2>4, <2>5 DEF bk, bl, nk, nl, pb, pc, sb, sc
    <2>7. CASE bk + nk <= bl
      <3>1. pb + sb + AllocHdr <= pc
        BY <2>6, <2>7, SizesAssumption
      <3>. QED  BY <3>1 DEF Apart, pb, sb, pc
    <2>8. CASE bl + nl <= bk
      <3>1. pc + sc + AllocHdr <= pb
        BY <2>6, <2>8, SizesAssumption
      <3>. QED  BY <3>1 DEF Apart, pb, sc, pc
    <2>. QED  BY <2>6, <2>7, <2>8
  <1>4. ASSUME NEW b, NEW c, b \in [ptr: Nat, size: Nat \ {0}],
               c \in [ptr: Nat, size: Nat \ {0}], Apart(b, c)
        PROVE  b.ptr # c.ptr
    BY <1>4, SizesAssumption DEF Apart
  <1>5. ASSUME NEW b \in PoolBlocks(p), NEW c \in PoolBlocks(p), b # c
        PROVE  Apart(b, c)
    <2>1. PICK k \in DOMAIN p : b \in ZoneBlocks(p[k])  BY DEF PoolBlocks
    <2>2. PICK l \in DOMAIN p : c \in ZoneBlocks(p[l])  BY DEF PoolBlocks
    <2>3. CASE k # l  BY <1>3, <2>1, <2>2, <2>3
    <2>4. CASE k = l
      <3>1. PICK i \in DOMAIN p[k].allocs : b = BlockOf(p[k].allocs[i])
        BY <2>1 DEF ZoneBlocks
      <3>2. PICK j \in DOMAIN p[k].allocs : c = BlockOf(p[k].allocs[j])
        BY <2>2, <2>4 DEF ZoneBlocks
      <3>. QED  BY <1>1, <1>5, <3>1, <3>2, RoomyApart
    <2>. QED  BY <2>3, <2>4
  <1>6. ASSUME NEW b \in PoolBlocks(p), NEW c \in PoolBlocks(p), b.ptr = c.ptr
        PROVE  b = c
    BY <1>2, <1>4, <1>5, <1>6
  <1>7. ASSUME NEW k \in DOMAIN p, NEW l \in DOMAIN p, NEW b \in ZoneBlocks(p[k]),
               b \in ZoneBlocks(p[l]), k # l
        PROVE  FALSE
    <2>1. b \in [ptr: Nat, size: Nat \ {0}]  BY <1>2, <1>7 DEF PoolBlocks
    <2>. QED  BY <1>3, <1>4, <1>7, <2>1
  <1>. QED  BY <1>2, <1>5, <1>6, <1>7

(* A list with one zone changed: pages, and blocks.                        *)
LEMMA ZoneReplaced ==
  ASSUME NEW p \in Seq(Zone), ZonesSized(p), NEW m, PoolSound(p, m),
         NEW k \in DOMAIN p, NEW y \in Zone, RoomyZone(y),
         ZonePages(y) = ZonePages(p[k]),
         NEW q, DOMAIN q = DOMAIN p,
         \A l \in DOMAIN p : q[l] = IF l = k THEN y ELSE p[l]
  PROVE  /\ PoolSound(q, m)
         /\ AllPages(q) = AllPages(p)
         /\ PoolBlocks(q) = (PoolBlocks(p) \ ZoneBlocks(p[k])) \cup ZoneBlocks(y)
  <1>1. \A l \in DOMAIN p : ZonePages(q[l]) = ZonePages(p[l])  OBVIOUS
  <1>2. PoolSound(q, m)  BY <1>1 DEF PoolSound
  <1>3. AllPages(q) = AllPages(p)  BY <1>1 DEF AllPages
  <1>4. ASSUME NEW b \in PoolBlocks(q)
        PROVE  b \in (PoolBlocks(p) \ ZoneBlocks(p[k])) \cup ZoneBlocks(y)
    <2>1. PICK l \in DOMAIN p : b \in ZoneBlocks(q[l])  BY DEF PoolBlocks
    <2>2. CASE l = k  BY <2>1, <2>2
    <2>3. CASE l # k
      <3>1. b \in ZoneBlocks(p[l])  BY <2>1, <2>3
      <3>2. b \notin ZoneBlocks(p[k])  BY <2>3, <3>1, PoolBlocksApart
      <3>. QED  BY <3>1, <3>2 DEF PoolBlocks
    <2>. QED  BY <2>2, <2>3
  <1>5. ASSUME NEW b \in (PoolBlocks(p) \ ZoneBlocks(p[k])) \cup ZoneBlocks(y)
        PROVE  b \in PoolBlocks(q)
    <2>1. CASE b \in ZoneBlocks(y)  BY <2>1 DEF PoolBlocks
    <2>2. CASE b \in PoolBlocks(p) /\ b \notin ZoneBlocks(p[k])
      <3>1. PICK l \in DOMAIN p : b \in ZoneBlocks(p[l])  BY <2>2 DEF PoolBlocks
      <3>2. b \in ZoneBlocks(q[l])  BY <2>2, <3>1
      <3>. QED  BY <3>2 DEF PoolBlocks
    <2>. QED  BY <2>1, <2>2
  <1>. QED  BY <1>2, <1>3, <1>4, <1>5

(* A list with a zone on pages that were not mapped put behind it.         *)
LEMMA ZoneAppended ==
  ASSUME NEW p \in Seq(Zone), NEW m, PoolSound(p, m),
         NEW y \in Zone, RoomyZone(y), ZonePages(y) \cap m = {}
  PROVE  /\ PoolSound(Append(p, y), m \cup ZonePages(y))
         /\ AllPages(Append(p, y)) = AllPages(p) \cup ZonePages(y)
         /\ PoolBlocks(Append(p, y)) = PoolBlocks(p) \cup ZoneBlocks(y)
  <1> DEFINE q == Append(p, y)
             n == Len(p) + 1
  <1>1. /\ q \in Seq(Zone) /\ Len(q) = n
        /\ \A i \in 1..Len(p) : q[i] = p[i]
        /\ q[n] = y
    BY AppendProperties
  <1>2. /\ Len(p) \in Nat /\ DOMAIN p = 1..Len(p) /\ DOMAIN q = 1..n
    BY <1>1, LenProperties
  <1>3. /\ n \notin DOMAIN p /\ DOMAIN q = DOMAIN p \cup {n}
        /\ \A i \in DOMAIN p : q[i] = p[i]
    BY <1>1, <1>2
  <1> HIDE DEF q, n
  <1>4. PoolSound(q, m \cup ZonePages(y))
    <2>1. \A k \in DOMAIN q :
            RoomyZone(q[k]) /\ ZonePages(q[k]) \subseteq m \cup ZonePages(y)
      BY <1>1, <1>3 DEF PoolSound
    <2>2. ASSUME NEW k \in DOMAIN p PROVE ZonePages(p[k]) \cap ZonePages(y) = {}
      BY DEF PoolSound
    <2>3. \A k, l \in DOMAIN q : k # l => ZonePages(q[k]) \cap ZonePages(q[l]) = {}
      BY <1>1, <1>3, <2>2 DEF PoolSound
    <2>. QED  BY <2>1, <2>3 DEF PoolSound
  <1>5. AllPages(q) = AllPages(p) \cup ZonePages(y)
    BY <1>1, <1>3 DEF AllPages
  <1>6. PoolBlocks(q) = PoolBlocks(p) \cup ZoneBlocks(y)
    BY <1>1, <1>3 DEF PoolBlocks
  <1>. QED  BY <1>4, <1>5, <1>6 DEF q

(* A list with one zone taken out, whether its pages are unmapped or not.  *)
LEMMA ZoneRemoved ==
  ASSUME NEW p \in Seq(Zone), ZonesSized(p), NEW m, PoolSound(p, m),
         NEW k \in DOMAIN p
  PROVE  /\ PoolSound(RemoveAt(p, k), m)
         /\ PoolSound(RemoveAt(p, k), m \ ZonePages(p[k]))
         /\ AllPages(RemoveAt(p, k)) = AllPages(p) \ ZonePages(p[k])
         /\ PoolBlocks(RemoveAt(p, k)) = PoolBlocks(p) \ ZoneBlocks(p[k])
  <1> DEFINE q == RemoveAt(p, k)
             f(i) == IF i < k THEN i ELSE i + 1
             n == Len(p)
  <1>1. n \in Nat /\ DOMAIN p = 1..n /\ k \in 1..n
    BY LenProperties
  <1>2. /\ q \in Seq(Zone) /\ Len(q) = n - 1
        /\ \A i \in 1..(n - 1) : q[i] = p[f(i)]
    BY <1>1, RemoveAtList
  <1>3. DOMAIN q = 1..(n - 1)  BY <1>2, LenProperties
  <1> HIDE DEF q, n
  <1>4. \A i \in DOMAIN q : f(i) \in DOMAIN p /\ f(i) # k /\ q[i] = p[f(i)]
    BY <1>1, <1>2, <1>3
  <1>5. \A i, j \in DOMAIN q : i # j => f(i) # f(j)
    BY <1>1, <1>3
  <1>6. ASSUME NEW l \in DOMAIN p, l # k PROVE \E i \in DOMAIN q : f(i) = l
    <2>1. CASE l < k
      <3>1. l \in 1..(n - 1)  BY <1>1, <1>6, <2>1
      <3>. QED  BY <1>3, <2>1, <3>1
    <2>2. CASE l > k
      <3>1. l - 1 \in 1..(n - 1) /\ ~(l - 1 < k) /\ (l - 1) + 1 = l
        BY <1>1, <1>6, <2>2
      <3>. QED  BY <1>3, <3>1
    <2>. QED  BY <1>1, <1>6, <2>1, <2>2
  <1> HIDE DEF f
  <1>7. \A i \in DOMAIN q : ZonePages(q[i]) \cap ZonePages(p[k]) = {}
    BY <1>4 DEF PoolSound
  <1>8. PoolSound(q, m) /\ PoolSound(q, m \ ZonePages(p[k]))
    <2>1. \A i \in DOMAIN q : RoomyZone(q[i]) /\ ZonePages(q[i]) \subseteq m
      BY <1>4 DEF PoolSound
    <2>2. \A i, j \in DOMAIN q : i # j => ZonePages(q[i]) \cap ZonePages(q[j]) = {}
      BY <1>4, <1>5 DEF PoolSound
    <2>. QED  BY <1>7, <2>1, <2>2 DEF PoolSound
  <1>9. AllPages(q) = AllPages(p) \ ZonePages(p[k])
    <2>1. ASSUME NEW x \in AllPages(q) PROVE x \in AllPages(p) \ ZonePages(p[k])
      BY <1>4, <1>7 DEF AllPages
    <2>2. ASSUME NEW x \in AllPages(p), x \notin ZonePages(p[k])
          PROVE  x \in AllPages(q)
      <3>1. PICK l \in DOMAIN p : x \in ZonePages(p[l])  BY DEF AllPages
      <3>2. PICK i \in DOMAIN q : f(i) = l  BY <1>6, <2>2, <3>1
      <3>3. x \in ZonePages(q[i])  BY <1>4, <3>1, <3>2
      <3>. QED  BY <3>3 DEF AllPages
    <2>. QED  BY <2>1, <2>2
  <1>10. PoolBlocks(q) = PoolBlocks(p) \ ZoneBlocks(p[k])
    <2>1. ASSUME NEW b \in PoolBlocks(q)
          PROVE  b \in PoolBlocks(p) /\ b \notin ZoneBlocks(p[k])
      <3>1. PICK i \in DOMAIN q : b \in ZoneBlocks(q[i])  BY DEF PoolBlocks
      <3>2. f(i) \in DOMAIN p /\ f(i) # k /\ b \in ZoneBlocks(p[f(i)])
        BY <1>4, <3>1
      <3>. QED  BY <3>2, PoolBlocksApart DEF PoolBlocks
    <2>2. ASSUME NEW b \in PoolBlocks(p), b \notin ZoneBlocks(p[k])
          PROVE  b \in PoolBlocks(q)
      <3>1. PICK l \in DOMAIN p : b \in ZoneBlocks(p[l])  BY DEF PoolBlocks
      <3>2. PICK i \in DOMAIN q : f(i) = l  BY <1>6, <2>2, <3>1
      <3>3. b \in ZoneBlocks(q[i])  BY <1>4, <3>1, <3>2
      <3>. QED  BY <3>3 DEF PoolBlocks
    <2>. QED  BY <2>1, <2>2
  <1>. QED  BY <1>8, <1>9, <1>10 DEF q

(* Serving a request with a listed block adds one block that was not there *)
(* to the pool, or gives up and changes nothing; every zone keeps pages of *)
(* its own, and the mapped pages stay those of the zones.                  *)
LEMMA ServeBlocks ==
  ASSUME SizesAgree, PoolTypeOK, ZonesSized(pool), PoolSound(pool, mapped),
         NEW size \in RoundedSizes, NEW o \in MallocOutcomes(size), o.listed
  PROVE  /\ PoolSound(o.pool, o.mapped)
         /\ mapped = AllPages(pool) => o.mapped = AllPages(o.pool)
         /\ \/ o.ptr = NULL /\ o.pool = pool
            \/ /\ o.ptr # NULL
               /\ [ptr |-> o.ptr, size |-> size] \notin PoolBlocks(pool)
               /\ PoolBlocks(o.pool)
                    = PoolBlocks(pool) \cup {[ptr |-> o.ptr, size |-> size]}
  <1> DEFINE new == [ptr |-> o.ptr, size |-> size]
  <1>1. /\ size \in Nat /\ pool \in Seq(Zone)
        /\ \A k \in DOMAIN pool :
             pool[k] \in Zone /\ SizedZone(pool[k]) /\ RoomyZone(pool[k])
    BY RoundedSizesType, LenProperties, ElementOfSeq
       DEF PoolTypeOK, ZonesSized, PoolSound
  <1>2. o.pool \in Seq(Zone) /\ ZonesSized(o.pool)
    BY <1>1, ServeSized, MallocOutcomesType DEF PoolTypeOK
  <1>3. ASSUME PoolSound(o.pool, o.mapped), new \in PoolBlocks(o.pool)
        PROVE  o.ptr # NULL
    <2>1. PICK k \in DOMAIN o.pool : new \in ZoneBlocks(o.pool[k])
      BY <1>3 DEF PoolBlocks
    <2>2. o.pool[k] \in Zone /\ SizedZone(o.pool[k]) /\ RoomyZone(o.pool[k])
      BY <1>2, <1>3, LenProperties, ElementOfSeq DEF ZonesSized, PoolSound
    <2>3. /\ o.pool[k].base \in Nat /\ new.ptr \in Nat
          /\ o.pool[k].base + ZoneHdr + AllocHdr <= new.ptr
      BY <2>1, <2>2, BlockInZone DEF Zone
    <2>. QED  BY <2>3, SizesAssumption DEF NULL
  <1>4. ASSUME NEW k \in DOMAIN pool, NEW c \in Carve(pool[k], size),
               pool[k].type # "large", pool[k].type = SetZoneType(size),
               o.pool = [pool EXCEPT ![k] = c.zone], o.mapped = mapped,
               o.ptr = c.ptr, o.listed = c.listed
        PROVE  /\ PoolSound(o.pool, o.mapped)
               /\ mapped = AllPages(pool) => o.mapped = AllPages(o.pool)
               /\ o.ptr # NULL /\ new \notin PoolBlocks(pool)
               /\ PoolBlocks(o.pool) = PoolBlocks(pool) \cup {new}
    <2> DEFINE z == pool[k]
               y == c.zone
    <2>1. z \in Zone /\ SizedZone(z) /\ RoomyZone(z)  BY <1>1
    <2>2. /\ y \in Zone /\ y.base = z.base /\ SizedZone(y)
          /\ ZoneLen(y) = ZoneMemSize(size, z.type)
      BY <1>1, <1>4, <2>1, CarveKeepsZone, CarveSized
    <2>3. /\ RoomyZone(y) /\ new \notin ZoneBlocks(z)
          /\ ZoneBlocks(y) = ZoneBlocks(z) \cup {new}
      BY <1>4, <2>1, CarveRoomy
    <2>4. ZoneLen(y) = ZoneLen(z)  BY <1>4, <2>1, <2>2, LenOfType
    <2>5. ZonePages(y) = ZonePages(z)  BY <2>2, <2>4 DEF ZonePages
    <2> HIDE DEF y, z, new
    <2>6. /\ DOMAIN o.pool = DOMAIN pool
          /\ \A l \in DOMAIN pool : o.pool[l] = IF l = k THEN y ELSE pool[l]
      BY <1>4 DEF y
    <2>7. /\ PoolSound(o.pool, mapped)
          /\ AllPages(o.pool) = AllPages(pool)
          /\ PoolBlocks(o.pool) = (PoolBlocks(pool) \ ZoneBlocks(z)) \cup ZoneBlocks(y)
      BY <1>1, <2>2, <2>3, <2>5, <2>6, ZoneReplaced DEF z
    <2>8. new \notin PoolBlocks(pool)
      <3> SUFFICES ASSUME NEW l \in DOMAIN pool, new \in ZoneBlocks(pool[l])
                   PROVE  FALSE
        BY DEF PoolBlocks
      <3>1. l # k  BY <2>3 DEF z
      <3>2. new \in ZoneBlocks(o.pool[l]) /\ new \in ZoneBlocks(o.pool[k])
        BY <2>3, <2>6, <3>1
      <3>. QED  BY <1>2, <2>6, <2>7, <3>1, <3>2, PoolBlocksApart
    <2>9. PoolBlocks(o.pool) = PoolBlocks(pool) \cup {new}
      BY <2>3, <2>7 DEF PoolBlocks, z
    <2>10. o.ptr # NULL  BY <1>3, <1>4, <2>7, <2>9
    <2>. QED  BY <1>4, <2>7, <2>8, <2>9, <2>10
  <1>5. ASSUME NEW base \in Nat, NEW c \in Carve(FreshZone(base, size), size),
               base \in FreeBases(ZoneMemSize(size, SetZoneType(size))),
               o.pool = Append(pool, c.zone),
               o.mapped = mapped \cup
                 PagesOf(base, ZoneMemSize(size, SetZoneType(size))),
               o.ptr = c.ptr, o.listed = c.listed
        PROVE  /\ PoolSound(o.pool, o.mapped)
               /\ mapped = AllPages(pool) => o.mapped = AllPages(o.pool)
               /\ o.ptr # NULL /\ new \notin PoolBlocks(pool)
               /\ PoolBlocks(o.pool) = PoolBlocks(pool) \cup {new}
    <2> DEFINE z == FreshZone(base, size)
               y == c.zone
               len == ZoneMemSize(size, SetZoneType(size))
    <2>1. /\ z \in Zone /\ SizedZone(z) /\ z.allocs = << >>
          /\ z.type = SetZoneType(size) /\ z.base = base
      BY FreshZoneSized
    <2>2. /\ y \in Zone /\ y.base = base /\ SizedZone(y) /\ ZoneLen(y) = len
      BY <1>1, <1>5, <2>1, CarveKeepsZone, CarveSized
    <2>3. /\ RoomyZone(y) /\ ZoneBlocks(y) = ZoneBlocks(z) \cup {new}
      <3>1. c.listed  BY <1>5, Zenon
      <3>2. new = [ptr |-> c.ptr, size |-> size]  BY <1>5
      <3>3. /\ c \in Carve(z, size) /\ SetZoneType(size) = z.type
            /\ z \in Zone /\ SizedZone(z) /\ z.allocs = << >>
        BY <2>1
      <3> HIDE DEF z, new
      <3>. QED  BY <3>1, <3>2, <3>3, CarveRoomy
    <2>4. ZoneBlocks(z) = {}
      <3>1. DOMAIN z.allocs = {}  BY <2>1, EmptySeq, LenProperties
      <3>. QED  BY <3>1 DEF ZoneBlocks
    <2>5. ZonePages(y) = PagesOf(base, len)  BY <2>2 DEF ZonePages
    <2>6. PagesOf(base, len) \cap mapped = {}
      BY <1>5 DEF FreeBases, FreePages
    <2> HIDE DEF y, z, len, new
    <2>7. ZonePages(y) \cap mapped = {}  BY <2>5, <2>6
    <2>8. /\ o.pool = Append(pool, y)
          /\ o.mapped = mapped \cup ZonePages(y)
      BY <1>5, <2>5 DEF y, len
    <2>9. /\ PoolSound(o.pool, o.mapped)
          /\ AllPages(o.pool) = AllPages(pool) \cup ZonePages(y)
          /\ PoolBlocks(o.pool) = PoolBlocks(pool) \cup ZoneBlocks(y)
      <3>1. pool \in Seq(Zone) /\ y \in Zone /\ RoomyZone(y)
        BY <1>1, <2>2, <2>3
      <3>2. /\ PoolSound(Append(pool, y), mapped \cup ZonePages(y))
            /\ AllPages(Append(pool, y)) = AllPages(pool) \cup ZonePages(y)
            /\ PoolBlocks(Append(pool, y)) = PoolBlocks(pool) \cup ZoneBlocks(y)
        BY <3>1, <2>7, ZoneAppended
      <3>. QED  BY <2>8, <3>2
    <2>10. PoolBlocks(o.pool) = PoolBlocks(pool) \cup {new}
      BY <2>3, <2>4, <2>9
    <2>11. new \notin PoolBlocks(pool)
      <3> SUFFICES ASSUME NEW l \in DOMAIN pool, new \in ZoneBlocks(pool[l])
                   PROVE  FALSE
        BY DEF PoolBlocks
      <3>1. /\ Len(pool) \in Nat /\ DOMAIN pool = 1..Len(pool)
            /\ o.pool[l] = pool[l] /\ o.pool[Len(pool) + 1] = y
            /\ DOMAIN o.pool = 1..(Len(pool) + 1)
        BY <1>1, <1>2, <2>2, <2>8, LenProperties, AppendProperties
      <3>2. l # Len(pool) + 1 /\ l \in DOMAIN o.pool /\ Len(pool) + 1 \in DOMAIN o.pool
        BY <3>1
      <3>3. new \in ZoneBlocks(o.pool[l]) /\ new \in ZoneBlocks(o.pool[Len(pool) + 1])
        BY <2>3, <3>1
      <3>. QED  BY <1>2, <2>9, <3>2, <3>3, PoolBlocksApart
    <2>12. o.ptr # NULL  BY <1>3, <2>9, <2>10
    <2>. QED  BY <2>8, <2>9, <2>10, <2>11, <2>12
  <1>6. CASE o = [pool |-> pool, mapped |-> mapped, ptr |-> NULL, listed |-> TRUE]
    BY <1>6
  <1> HIDE DEF new
  <1>7. CASE \E k \in DOMAIN pool : \E c \in Carve(pool[k], size) :
              /\ pool[k].type # "large" /\ pool[k].type = SetZoneType(size)
              /\ o = [pool |-> [pool EXCEPT ![k] = c.zone], mapped |-> mapped,
                      ptr |-> c.ptr, listed |-> c.listed]
    <2>1. PICK k \in DOMAIN pool : \E c \in Carve(pool[k], size) :
              /\ pool[k].type # "large" /\ pool[k].type = SetZoneType(size)
              /\ o = [pool |-> [pool EXCEPT ![k] = c.zone], mapped |-> mapped,
                      ptr |-> c.ptr, listed |-> c.listed]
      BY <1>7
    <2>2. PICK c \in Carve(pool[k], size) :
              /\ pool[k].type # "large" /\ pool[k].type = SetZoneType(size)
              /\ o = [pool |-> [pool EXCEPT ![k] = c.zone], mapped |-> mapped,
                      ptr |-> c.ptr, listed |-> c.listed]
      BY <2>1
    <2>3. /\ o.pool = [pool EXCEPT ![k] = c.zone] /\ o.mapped = mapped
          /\ o.ptr = c.ptr /\ o.listed = c.listed
      BY <2>2, Zenon
    <2>. QED  BY <1>4, <2>2, <2>3 DEF new
  <1>. QED  BY <1>1, <1>5, <1>6, <1>7, MallocOutcomesCases DEF new

(* Releasing the block a pointer names takes exactly that block out of the *)
(* pool; the mapped pages stay those of the zones unless munmap fails.     *)
LEMMA ReleaseBlocks ==
  ASSUME SizesAgree, PoolTypeOK, ZonesSized(pool), PoolSound(pool, mapped),
         NEW ptr, NEW loc \in Find(ptr), Release(loc[1], loc[2])
  PROVE  /\ PoolSound(pool', mapped')
         /\ mapped = AllPages(pool) =>
              mapped' = AllPages(pool') \/ "kept" \in LeftMapped
         /\ \E b \in PoolBlocks(pool) :
              b.ptr = ptr /\ PoolBlocks(pool') = PoolBlocks(pool) \ {b}
  <1> DEFINE k == loc[1]
             j == loc[2]
             z == pool[k]
             y == FreedZone(z, j)
             b == BlockOf(z.allocs[j])
  <1>1. /\ pool \in Seq(Zone) /\ k \in DOMAIN pool /\ j \in 1..Len(z.allocs)
        /\ z \in Zone /\ SizedZone(z) /\ RoomyZone(z)
    BY FindInPool, LenProperties, ElementOfSeq
       DEF PoolTypeOK, ZonesSized, PoolSound
  <1>2. j \in DOMAIN z.allocs  BY <1>1, LenProperties DEF Zone
  <1>3. b.ptr = ptr
    <2>1. Chunk(z.allocs[j]) = ptr  BY DEF Find, FindAlloc, FirstOf
    <2>. QED  BY <2>1 DEF BlockOf
  <1>4. b \in ZoneBlocks(z) /\ b \in PoolBlocks(pool)
    BY <1>1, <1>2 DEF ZoneBlocks, PoolBlocks
  <1>5. /\ FreedZoneSize(z) = ZoneLen(z)
        /\ y.free = FreedZoneSize(z) - ZoneHdr => ZoneBlocks(z) = {b}
        /\ z.type = "large" => y.free = FreedZoneSize(z) - ZoneHdr
    BY <1>1, UnmapsEmptied
  <1>6. Release(k, j)  OBVIOUS
  <1>7. Len(pool) \in Nat /\ k \in 1..Len(pool)  BY <1>1, LenProperties
  <1> HIDE DEF k, j
  <1>8. CASE Unmaps(z, j)
    <2>1. ZoneBlocks(z) = {b}  BY <1>5, <1>8 DEF Unmaps
    <2>2. /\ pool' = RemoveAt(pool, k)
          /\ \/ mapped' = mapped \ ZonePages(z)
             \/ mapped' = mapped
      BY <1>5, <1>6, <1>8 DEF Release, ZonePages
    <2>3. /\ PoolSound(pool', mapped) /\ PoolSound(pool', mapped \ ZonePages(z))
          /\ AllPages(pool') = AllPages(pool) \ ZonePages(z)
          /\ PoolBlocks(pool') = PoolBlocks(pool) \ {b}
      BY <1>1, <2>1, <2>2, ZoneRemoved
    <2>4. mapped' = mapped => "kept" \in LeftMapped
      <3>1. Len(pool') = Len(pool) - 1  BY <1>1, <1>7, <2>2, RemoveAtList
      <3>. QED  BY <1>7, <3>1 DEF LeftMapped
    <2>. QED  BY <1>3, <1>4, <2>2, <2>3, <2>4
  <1>9. CASE ~Unmaps(z, j)
    <2>1. z.type # "large"  BY <1>5, <1>9 DEF Unmaps
    <2>2. /\ y \in Zone /\ y.base = z.base
          /\ RoomyZone(y) /\ ZoneLen(y) = ZoneLen(z)
          /\ ZoneBlocks(y) = ZoneBlocks(z) \ {b}
      BY <1>1, <2>1, FreedZoneType, FreedRoomy, FreedBlocks
    <2>3. ZonePages(y) = ZonePages(z)  BY <2>2 DEF ZonePages
    <2>4. /\ pool' = [pool EXCEPT ![k] = y] /\ mapped' = mapped
      BY <1>6, <1>9 DEF Release
    <2> HIDE DEF y, z, b
    <2>5. /\ DOMAIN pool' = DOMAIN pool
          /\ \A l \in DOMAIN pool : pool'[l] = IF l = k THEN y ELSE pool[l]
      BY <2>4
    <2>6. /\ PoolSound(pool', mapped) /\ AllPages(pool') = AllPages(pool)
          /\ PoolBlocks(pool') = (PoolBlocks(pool) \ ZoneBlocks(z)) \cup ZoneBlocks(y)
      BY <1>1, <2>2, <2>3, <2>5, ZoneReplaced DEF z
    <2>7. PoolBlocks(pool') = PoolBlocks(pool) \ {b}
      <3>1. ZoneBlocks(z) \subseteq PoolBlocks(pool)
        BY <1>1 DEF PoolBlocks, z
      <3>. QED  BY <1>4, <2>2, <2>6, <3>1
    <2>. QED  BY <1>3, <1>4, <2>4, <2>6, <2>7
  <1>. QED  BY <1>8, <1>9

-----------------------------------------------------------------------------
(* The zones and their pages                                               *)

(* The clean runs among those that lead to a set of events.                *)
CleanOf(e) == e \cap {"interior", "shrunk", "twice"} = {}

(* ZonesSound and MappedExact of a list of zones, mapped pages and events. *)
ZonesKept(p, m, e) ==
  CleanOf(e) =>
    /\ PoolSound(p, m)
    /\ "kept" \notin e => m = AllPages(p)

LEMMA ZonesKeptParts ==
  /\ Clean <=> CleanOf(events)
  /\ ZonesSound /\ MappedExact <=> ZonesKept(pool, mapped, events)
  BY DEF ZonesSound, MappedExact, ZonesKept, PoolSound, AllPages, Clean, CleanOf

(* A step that leaves zones and pages alone keeps them sound.              *)
LEMMA ZonesUntouched ==
  ASSUME ZonesKept(pool, mapped, events), pool' = pool, mapped' = mapped,
         events \subseteq events'
  PROVE  ZonesKept(pool', mapped', events')
  BY DEF ZonesKept, CleanOf

(* The effect of serving a request on a clean run.                         *)
LEMMA ServeEffect ==
  ASSUME SizesAgree, PoolTypeOK, ZonesSized(pool), ZonesKept(pool, mapped, events),
         NEW size \in RoundedSizes, NEW o \in MallocOutcomes(size), Serve(o)
  PROVE  /\ ZonesKept(pool', mapped', events')
         /\ CleanOf(events') =>
              /\ events' = events
              /\ \/ o.ptr = NULL /\ PoolBlocks(pool') = PoolBlocks(pool)
                 \/ /\ o.ptr # NULL
                    /\ [ptr |-> o.ptr, size |-> size] \notin PoolBlocks(pool)
                    /\ PoolBlocks(pool')
                         = PoolBlocks(pool) \cup {[ptr |-> o.ptr, size |-> size]}
  <1>1. pool' = o.pool /\ mapped' = o.mapped  BY DEF Serve
  <1>2. CASE ~CleanOf(events')  BY <1>2 DEF ZonesKept
  <1>3. CASE CleanOf(events')
    <2>1. o.listed /\ events' = events
      <3>1. ~o.listed => "interior" \in events'  BY DEF Serve
      <3>2. o.listed  BY <1>3, <3>1 DEF CleanOf
      <3>3. events' = events  BY <3>2 DEF Serve
      <3>. QED  BY <3>2, <3>3
    <2>2. PoolSound(pool, mapped) /\ ("kept" \notin events => mapped = AllPages(pool))
      BY <1>3, <2>1 DEF ZonesKept
    <2>3. /\ PoolSound(o.pool, o.mapped)
          /\ mapped = AllPages(pool) => o.mapped = AllPages(o.pool)
          /\ \/ o.ptr = NULL /\ o.pool = pool
             \/ /\ o.ptr # NULL
                /\ [ptr |-> o.ptr, size |-> size] \notin PoolBlocks(pool)
                /\ PoolBlocks(o.pool)
                     = PoolBlocks(pool) \cup {[ptr |-> o.ptr, size |-> size]}
      BY <2>1, <2>2, ServeBlocks
    <2>4. ZonesKept(pool', mapped', events')
      BY <1>1, <2>1, <2>2, <2>3 DEF ZonesKept
    <2>. QED  BY <1>1, <2>1, <2>3, <2>4
  <1>. QED  BY <1>2, <1>3

(* The effect of releasing a block that was found.                         *)
LEMMA ReleaseEffect ==
  ASSUME SizesAgree, PoolTypeOK, ZonesSized(pool), ZonesKept(pool, mapped, events),
         NEW ptr, NEW loc \in Find(ptr), Release(loc[1], loc[2]),
         events \cup LeftMapped \subseteq events'
  PROVE  /\ ZonesKept(pool', mapped', events')
         /\ CleanOf(events') =>
              \E b \in PoolBlocks(pool) :
                b.ptr = ptr /\ PoolBlocks(pool') = PoolBlocks(pool) \ {b}
  <1>1. CASE ~CleanOf(events')  BY <1>1 DEF ZonesKept
  <1>2. CASE CleanOf(events')
    <2>1. PoolSound(pool, mapped) /\ ("kept" \notin events => mapped = AllPages(pool))
      BY <1>2 DEF ZonesKept, CleanOf
    <2>2. /\ PoolSound(pool', mapped')
          /\ mapped = AllPages(pool) =>
               mapped' = AllPages(pool') \/ "kept" \in LeftMapped
          /\ \E b \in PoolBlocks(pool) :
               b.ptr = ptr /\ PoolBlocks(pool') = PoolBlocks(pool) \ {b}
      BY <2>1, ReleaseBlocks
    <2>3. ZonesKept(pool', mapped', events')
      BY <2>1, <2>2 DEF ZonesKept
    <2>. QED  BY <2>2, <2>3
  <1>. QED  BY <1>1, <1>2

(* The effect of the free of a pointer, found or not.                      *)
LEMMA FreeEffect ==
  ASSUME SizesAgree, PoolTypeOK, ZonesSized(pool), ZonesKept(pool, mapped, events),
         NEW ptr, FreePtr(ptr)
  PROVE  /\ ZonesKept(pool', mapped', events')
         /\ CleanOf(events') =>
              \/ \E b \in PoolBlocks(pool) :
                   b.ptr = ptr /\ PoolBlocks(pool') = PoolBlocks(pool) \ {b}
              \/ /\ Find(ptr) = {} /\ "missed" \in events'
                 /\ PoolBlocks(pool') = PoolBlocks(pool)
         /\ events \subseteq events'
  <1>1. ASSUME NEW loc \in Find(ptr), Release(loc[1], loc[2]),
               events' = events \cup LeftMapped
        PROVE  /\ ZonesKept(pool', mapped', events')
               /\ CleanOf(events') =>
                    \E b \in PoolBlocks(pool) :
                      b.ptr = ptr /\ PoolBlocks(pool') = PoolBlocks(pool) \ {b}
               /\ events \subseteq events'
    BY <1>1, ReleaseEffect
  <1>2. ASSUME Find(ptr) = {}, Missed
        PROVE  /\ ZonesKept(pool', mapped', events')
               /\ Find(ptr) = {} /\ "missed" \in events'
               /\ PoolBlocks(pool') = PoolBlocks(pool)
               /\ events \subseteq events'
    BY <1>2, ZonesUntouched DEF Missed
  <1>. QED  BY <1>1, <1>2 DEF FreePtr

(* Every critical section of a clean run leaves every zone with room for   *)
(* its blocks and pages of its own, and no page mapped without a zone: the *)
(* inductive step of ZonesCorrect.                                         *)
THEOREM ZonesStep ==
  ASSUME SizesAgree
  PROVE  /\ TypeOK /\ SizesSound /\ ZonesSound /\ MappedExact /\ [Next]_vars
         => ZonesSound' /\ MappedExact'
  <1> SUFFICES ASSUME TypeOK, ZonesSized(pool), CallsSized(calls),
                      ZonesKept(pool, mapped, events), [Next]_vars
               PROVE  ZonesKept(pool', mapped', events')
    BY SizesSoundParts, ZonesKeptParts
       DEF ZonesSound, MappedExact, ZonesKept, PoolSound, AllPages, Clean, CleanOf
  <1>1. PoolTypeOK  BY DEF TypeOK, PoolTypeOK
  <1>2. ASSUME NEW ptr, FreePtr(ptr) PROVE ZonesKept(pool', mapped', events')
    BY <1>1, <1>2, FreeEffect
  <1>3. ASSUME NEW size \in RoundedSizes, NEW o \in MallocOutcomes(size), Serve(o)
        PROVE  ZonesKept(pool', mapped', events')
    BY <1>1, <1>3, ServeEffect
  <1>4. ASSUME NEW t \in Threads, NEW size, Refuse(t, size)
        PROVE  ZonesKept(pool', mapped', events')
    BY <1>4, ZonesUntouched DEF Refuse
  <1>5. ASSUME Missed PROVE ZonesKept(pool', mapped', events')
    BY <1>5, ZonesUntouched DEF Missed
  <1>6. ASSUME NEW t \in Threads, NEW i \in Slots, NEW size \in Sizes,
               Malloc(t, i, size)
        PROVE  ZonesKept(pool', mapped', events')
    <2>1. RoundUp(size) \in RoundedSizes  BY RoundedSizesType
    <2>. QED  BY <1>3, <1>4, <1>6, <2>1 DEF Malloc
  <1>7. ASSUME NEW t \in Threads, NEW i \in Slots, Free(t, i)
        PROVE  ZonesKept(pool', mapped', events')
    BY <1>2, <1>7 DEF Free
  <1>8. ASSUME NEW t \in Threads, NEW i \in Slots, ReallocfZero(t, i)
        PROVE  ZonesKept(pool', mapped', events')
    BY <1>2, <1>8 DEF ReallocfZero
  <1>9. ASSUME NEW t \in Threads, NEW i \in Slots, NEW size \in Sizes,
               NEW api \in Apis, Realloc(t, api, i, size)
        PROVE  ZonesKept(pool', mapped', events')
    <2>1. CASE UNCHANGED <<pool, mapped, events>>
      BY <2>1, ZonesUntouched
    <2>2. CASE events' = events \cup {"shrunk"}
      BY <2>2 DEF ZonesKept, CleanOf
    <2>3. CASE Missed  BY <1>5, <2>3
    <2>. QED  BY <1>9, <2>1, <2>2, <2>3 DEF Realloc
  <1>10. ASSUME NEW t \in Threads, ReallocMove(t)
         PROVE  ZonesKept(pool', mapped', events')
    <2>1. calls[t].size \in RoundedSizes
      BY <1>10 DEF ReallocMove, CallsSized
    <2>. QED  BY <1>3, <1>4, <1>10, <2>1 DEF ReallocMove
  <1>11. ASSUME NEW t \in Threads, ReallocFinish(t)
         PROVE  ZonesKept(pool', mapped', events')
    BY <1>2, <1>11 DEF ReallocFinish
  <1>12. ASSUME NEW t \in Threads, ReallocfDrop(t)
         PROVE  ZonesKept(pool', mapped', events')
    <2>1. ASSUME NEW loc \in Find(calls[t].old), Release(loc[1], loc[2]),
                 events \cup LeftMapped \subseteq events'
          PROVE  ZonesKept(pool', mapped', events')
      BY <1>1, <2>1, ReleaseEffect
    <2>. QED  BY <1>5, <1>12, <2>1 DEF ReallocfDrop
  <1>13. CASE UNCHANGED vars  BY <1>13, ZonesUntouched DEF vars
  <1>14. CASE Next
    BY <1>6, <1>7, <1>8, <1>9, <1>10, <1>11, <1>12, <1>14 DEF Next, Step
  <1>. QED  BY <1>13, <1>14

(* While no path that loses track of a block has run, every zone has room  *)
(* for its blocks and pages of its own ...                                 *)
THEOREM ZonesCorrect ==
  ASSUME SizesAgree
  PROVE  Spec => []ZonesSound /\ []MappedExact
  <1>1. Init => ZonesSound /\ MappedExact
    <2>1. DOMAIN << >> = {}  BY EmptySeq, LenProperties
    <2>. QED  BY <2>1 DEF Init, ZonesSound, MappedExact
  <1>2. /\ TypeOK /\ SizesSound /\ ZonesSound /\ MappedExact /\ [Next]_vars
        => ZonesSound' /\ MappedExact'
    BY ZonesStep
  <1>. QED  BY <1>1, <1>2, TypeCorrect, SizesCorrect, PTL DEF Spec

(* ... and free has unmapped every page that no zone uses and no other.    *)
THEOREM MappedCorrect ==
  ASSUME SizesAgree
  PROVE  Spec => []MappedExact
  BY ZonesCorrect, PTL

-----------------------------------------------------------------------------
(* Who owns the blocks                                                     *)

Blocks == [ptr: Nat, size: Nat]

(* The new block of a call.                                                *)
NewOf(d) == [ptr |-> d.new, size |-> d.size]

(* OwnersSound of a set of blocks H, what the slots hold and the calls:    *)
(* each slot has a block of H of its own, ...                              *)
SlotsOwn(H, h) ==
  /\ \A i \in Slots : h[i] # NoBlock => h[i] \in H
  /\ \A i, m \in Slots : h[i] # NoBlock /\ h[i] = h[m] => i = m

(* ... and so has each call, next to the block of the slot it works on, ...*)
CallOwns(H, h, d) ==
  /\ d.stage \in {"move", "finish"} => h[d.slot] # NoBlock
  /\ d.stage # "idle" /\ h[d.slot] # NoBlock => d.old = h[d.slot].ptr
  /\ d.stage = "finish" => NewOf(d) \in H /\ \A i \in Slots : h[i] # NewOf(d)

(* ... which no other call works on.                                       *)
CallsApart(d, e) ==
  /\ d.stage # "idle" /\ e.stage # "idle" => d.slot # e.slot
  /\ d.stage = "finish" /\ e.stage = "finish" => NewOf(d) # NewOf(e)

Owners(H, h, c) ==
  /\ SlotsOwn(H, h)
  /\ \A t \in Threads : CallOwns(H, h, c[t])
  /\ \A t, u \in Threads : t # u => CallsApart(c[t], c[u])

(* Nothing is lost: each block belongs to a slot or a call.                *)
AllOwned(H, h, c) ==
  \A b \in H :
    \/ \E i \in Slots : h[i] = b
    \/ \E t \in Threads : c[t].stage = "finish" /\ NewOf(c[t]) = b

(* No call but that of thread t works on slot i.                           *)
OnlyCallOn(c, t, i) == \A u \in Threads \ {t} : c[u].stage # "idle" => c[u].slot # i

(* The slot of a call is a slot.                                           *)
LEMMA CallSlot ==
  ASSUME NEW c \in [Threads -> Calls], NEW t \in Threads
  PROVE  /\ c[t].stage \in {"idle", "move", "finish", "drop"}
         /\ c[t].stage # "idle" => c[t].slot \in Slots
         /\ c[t].stage = "idle" <=> c[t] = Idle
  <1>1. c[t] \in Calls  OBVIOUS
  <1>. QED  BY <1>1 DEF Calls, Idle

(* The calls but one are left alone.                                       *)
LEMMA OneCallChanged ==
  ASSUME NEW H, NEW h, NEW c \in [Threads -> Calls], Owners(H, h, c),
         NEW t \in Threads, NEW d,
         NEW J, NEW g,
         SlotsOwn(J, g), CallOwns(J, g, d),
         \A u \in Threads \ {t} : CallOwns(J, g, c[u]) /\ CallsApart(d, c[u])
  PROVE  Owners(J, g, [c EXCEPT ![t] = d])
  <1> DEFINE e == [c EXCEPT ![t] = d]
  <1>1. e[t] = d /\ \A u \in Threads \ {t} : e[u] = c[u]  OBVIOUS
  <1> HIDE DEF e
  <1>2. \A u \in Threads : CallOwns(J, g, e[u])  BY <1>1
  <1>3. ASSUME NEW u \in Threads, NEW v \in Threads, u # v
        PROVE  CallsApart(e[u], e[v])
    <2>1. CASE u # t /\ v # t
      BY <1>1, <1>3, <2>1 DEF Owners
    <2>2. CASE u = t
      <3>1. CallsApart(d, c[v])  BY <1>3, <2>2
      <3>. QED  BY <1>1, <1>3, <2>2, <3>1
    <2>3. CASE v = t
      <3>1. CallsApart(d, c[u])  BY <1>3, <2>3
      <3>2. CallsApart(c[u], d)  BY <3>1 DEF CallsApart
      <3>. QED  BY <1>1, <1>3, <2>3, <3>2
    <2>. QED  BY <2>1, <2>2, <2>3
  <1>. QED  BY <1>2, <1>3 DEF Owners, e

(* malloc puts a new block into an empty slot that no call works on.       *)
LEMMA SlotFilled ==
  ASSUME NEW H, NEW h \in [Slots -> Blocks], NEW c \in [Threads -> Calls],
         Owners(H, h, c), NEW i \in Slots, h[i] = NoBlock,
         \A u \in Threads : c[u].stage # "idle" => c[u].slot # i,
         NoBlock \notin H, NEW b \in Blocks, b \notin H, b # NoBlock
  PROVE  /\ Owners(H \cup {b}, [h EXCEPT ![i] = b], c)
         /\ AllOwned(H, h, c) => AllOwned(H \cup {b}, [h EXCEPT ![i] = b], c)
  <1> DEFINE g == [h EXCEPT ![i] = b]
             J == H \cup {b}
  <1>1. g[i] = b /\ \A m \in Slots \ {i} : g[m] = h[m]  OBVIOUS
  <1> HIDE DEF g
  <1>2. SlotsOwn(J, g)  BY <1>1 DEF Owners, SlotsOwn
  <1>3. ASSUME NEW u \in Threads PROVE CallOwns(J, g, c[u])
    <2>1. CallOwns(H, h, c[u])  BY DEF Owners
    <2>2. c[u].stage # "idle" => g[c[u].slot] = h[c[u].slot]
      BY <1>1, CallSlot
    <2>3. c[u].stage = "finish" =>
            NewOf(c[u]) \in J /\ \A m \in Slots : g[m] # NewOf(c[u])
      BY <1>1, <2>1 DEF CallOwns
    <2>4. c[u].stage \in {"move", "finish"} => c[u].stage # "idle"  OBVIOUS
    <2>. QED  BY <2>1, <2>2, <2>3, <2>4 DEF CallOwns
  <1>4. AllOwned(H, h, c) => AllOwned(J, g, c)
    <2> SUFFICES ASSUME AllOwned(H, h, c), NEW x \in H
                 PROVE  \/ \E m \in Slots : g[m] = x
                        \/ \E t \in Threads : c[t].stage = "finish" /\ NewOf(c[t]) = x
      BY <1>1 DEF AllOwned
    <2>1. CASE \E m \in Slots : h[m] = x
      <3>1. PICK m \in Slots : h[m] = x  BY <2>1
      <3>2. m # i  BY <3>1
      <3>. QED  BY <1>1, <3>1, <3>2
    <2>. QED  BY <2>1 DEF AllOwned
  <1>. QED  BY <1>2, <1>3, <1>4 DEF Owners, g

(* A slot is emptied, whether its block was found and released or not; the *)
(* call that did it ends, or goes on to drop the pointer once more.        *)
LEMMA SlotEmptied ==
  ASSUME NEW H, NEW h \in [Slots -> Blocks], NEW c \in [Threads -> Calls],
         Owners(H, h, c), NEW t \in Threads, NEW i \in Slots, OnlyCallOn(c, t, i),
         NoBlock \notin H, NEW J, J = H \/ J = H \ {h[i]},
         NEW d, d.stage = "idle" \/ (d.stage = "drop" /\ d.slot = i)
  PROVE  /\ Owners(J, [h EXCEPT ![i] = NoBlock], [c EXCEPT ![t] = d])
         /\ AllOwned(H, h, c) /\ J = H \ {h[i]} /\ c[t].stage # "finish" =>
              AllOwned(J, [h EXCEPT ![i] = NoBlock], [c EXCEPT ![t] = d])
  <1> DEFINE g == [h EXCEPT ![i] = NoBlock]
             e == [c EXCEPT ![t] = d]
  <1>1. g[i] = NoBlock /\ \A m \in Slots \ {i} : g[m] = h[m]  OBVIOUS
  <1>2. e[t] = d /\ \A u \in Threads \ {t} : e[u] = c[u]  OBVIOUS
  <1> HIDE DEF g, e
  <1>3. SlotsOwn(J, g)  BY <1>1 DEF Owners, SlotsOwn
  <1>4. CallOwns(J, g, d)  BY <1>1 DEF CallOwns
  <1>5. ASSUME NEW u \in Threads \ {t}
        PROVE  CallOwns(J, g, c[u]) /\ CallsApart(d, c[u])
    <2>1. CallOwns(H, h, c[u])  BY DEF Owners
    <2>2. c[u].stage # "idle" => g[c[u].slot] = h[c[u].slot] /\ c[u].slot # i
      BY <1>1, CallSlot DEF OnlyCallOn
    <2>3. c[u].stage = "finish" =>
            NewOf(c[u]) \in J /\ \A m \in Slots : g[m] # NewOf(c[u])
      <3> SUFFICES ASSUME c[u].stage = "finish"
                   PROVE  NewOf(c[u]) \in J /\ \A m \in Slots : g[m] # NewOf(c[u])
        OBVIOUS
      <3>1. /\ NewOf(c[u]) \in H /\ \A m \in Slots : h[m] # NewOf(c[u])
            /\ h[c[u].slot] # NoBlock
        BY <2>1 DEF CallOwns
      <3>2. NewOf(c[u]) # NoBlock
        BY <3>1
      <3>. QED  BY <1>1, <3>1, <3>2
    <2>4. c[u].stage \in {"move", "finish"} => c[u].stage # "idle"  OBVIOUS
    <2>5. CallOwns(J, g, c[u])  BY <2>1, <2>2, <2>3, <2>4 DEF CallOwns
    <2>6. CallsApart(d, c[u])  BY <2>2 DEF CallsApart
    <2>. QED  BY <2>5, <2>6
  <1>6. Owners(J, g, e)  BY <1>3, <1>4, <1>5, OneCallChanged DEF e
  <1>7. ASSUME AllOwned(H, h, c), J = H \ {h[i]}, c[t].stage # "finish"
        PROVE  AllOwned(J, g, e)
    <2> SUFFICES ASSUME NEW x \in H, x # h[i]
                 PROVE  \/ \E m \in Slots : g[m] = x
                        \/ \E u \in Threads : e[u].stage = "finish" /\ NewOf(e[u]) = x
      BY <1>7 DEF AllOwned
    <2>1. CASE \E m \in Slots : h[m] = x  BY <1>1, <2>1
    <2>2. CASE \E u \in Threads : c[u].stage = "finish" /\ NewOf(c[u]) = x
      BY <1>2, <1>7, <2>2
    <2>. QED  BY <1>7, <2>1, <2>2 DEF AllOwned
  <1>. QED  BY <1>6, <1>7 DEF g, e

(* A call starts, is given up or goes on: neither slots nor blocks change. *)
LEMMA CallChanged ==
  ASSUME NEW H, NEW h \in [Slots -> Blocks], NEW c \in [Threads -> Calls],
         Owners(H, h, c), NEW t \in Threads, NEW i \in Slots, OnlyCallOn(c, t, i),
         NEW d, \/ d.stage = "idle"
                \/ /\ d.stage \in {"move", "drop"} /\ d.slot = i
                   /\ d.stage = "move" => h[i] # NoBlock
                   /\ h[i] # NoBlock => d.old = h[i].ptr
  PROVE  /\ Owners(H, h, [c EXCEPT ![t] = d])
         /\ AllOwned(H, h, c) /\ c[t].stage # "finish" =>
              AllOwned(H, h, [c EXCEPT ![t] = d])
  <1>1. SlotsOwn(H, h)  BY DEF Owners
  <1>2. CallOwns(H, h, d)  BY DEF CallOwns
  <1>3. ASSUME NEW u \in Threads \ {t}
        PROVE  CallOwns(H, h, c[u]) /\ CallsApart(d, c[u])
    <2>1. CallOwns(H, h, c[u])  BY DEF Owners
    <2>2. c[u].stage # "idle" => c[u].slot # i  BY DEF OnlyCallOn
    <2>3. CallsApart(d, c[u])  BY <2>2 DEF CallsApart
    <2>. QED  BY <2>1, <2>3
  <1>4. Owners(H, h, [c EXCEPT ![t] = d])  BY <1>1, <1>2, <1>3, OneCallChanged
  <1>5. ASSUME AllOwned(H, h, c), c[t].stage # "finish"
        PROVE  AllOwned(H, h, [c EXCEPT ![t] = d])
    BY <1>5 DEF AllOwned
  <1>. QED  BY <1>4, <1>5

(* A realloc in progress gets its new block.                               *)
LEMMA CallServed ==
  ASSUME NEW H, NEW h \in [Slots -> Blocks], NEW c \in [Threads -> Calls],
         Owners(H, h, c), NEW t \in Threads, c[t].stage = "move",
         NEW d, d.stage = "finish", d.slot = c[t].slot, d.old = c[t].old,
         NewOf(d) \notin H, NewOf(d) # NoBlock
  PROVE  /\ Owners(H \cup {NewOf(d)}, h, [c EXCEPT ![t] = d])
         /\ AllOwned(H, h, c) =>
              AllOwned(H \cup {NewOf(d)}, h, [c EXCEPT ![t] = d])
  <1> DEFINE J == H \cup {NewOf(d)}
             e == [c EXCEPT ![t] = d]
  <1>1. \A u \in Threads : CallOwns(H, h, c[u])  BY DEF Owners
  <1>2. \A m \in Slots : h[m] # NewOf(d)  BY DEF Owners, SlotsOwn
  <1>3. SlotsOwn(J, h)  BY DEF Owners, SlotsOwn
  <1>4. CallOwns(J, h, d)  BY <1>1, <1>2 DEF CallOwns
  <1>5. ASSUME NEW u \in Threads \ {t}
        PROVE  CallOwns(J, h, c[u]) /\ CallsApart(d, c[u])
    <2>1. CallOwns(H, h, c[u]) /\ CallsApart(c[t], c[u])  BY DEF Owners
    <2>2. CallOwns(J, h, c[u])  BY <2>1 DEF CallOwns
    <2>3. c[u].stage = "finish" => NewOf(d) # NewOf(c[u])  BY <2>1 DEF CallOwns
    <2>4. CallsApart(d, c[u])  BY <2>1, <2>3 DEF CallsApart
    <2>. QED  BY <2>2, <2>4
  <1>6. Owners(J, h, e)  BY <1>3, <1>4, <1>5, OneCallChanged
  <1>7. ASSUME AllOwned(H, h, c) PROVE AllOwned(J, h, e)
    <2>1. e[t] = d /\ \A u \in Threads \ {t} : e[u] = c[u]  OBVIOUS
    <2> HIDE DEF e
    <2>. QED  BY <1>7, <2>1 DEF AllOwned
  <1>. QED  BY <1>6, <1>7

(* realloc returns: the old block is released or was not found, and the    *)
(* new one goes to the slot.                                               *)
LEMMA CallReturned ==
  ASSUME NEW H, NEW h \in [Slots -> Blocks], NEW c \in [Threads -> Calls],
         Owners(H, h, c), NEW t \in Threads, c[t].stage = "finish",
         NEW i, i = c[t].slot, NEW b, b = NewOf(c[t]),
         NEW J, J = H \/ J = H \ {h[i]}
  PROVE  /\ Owners(J, [h EXCEPT ![i] = b], [c EXCEPT ![t] = Idle])
         /\ AllOwned(H, h, c) /\ J = H \ {h[i]} =>
              AllOwned(J, [h EXCEPT ![i] = b], [c EXCEPT ![t] = Idle])
  <1> DEFINE g == [h EXCEPT ![i] = b]
             e == [c EXCEPT ![t] = Idle]
  <1>1. i \in Slots  BY CallSlot
  <1>2. g[i] = b /\ \A m \in Slots \ {i} : g[m] = h[m]  BY <1>1
  <1>3. e[t] = Idle /\ \A u \in Threads \ {t} : e[u] = c[u]  OBVIOUS
  <1> HIDE DEF g, e
  <1>4. b \in H /\ (\A m \in Slots : h[m] # b) /\ h[i] # NoBlock
    BY DEF Owners, CallOwns
  <1>5. SlotsOwn(J, g)
    <2>1. \A m \in Slots \ {i} : h[m] # NoBlock => h[m] # h[i]
      BY <1>1 DEF Owners, SlotsOwn
    <2>. QED  BY <1>1, <1>2, <1>4, <2>1 DEF Owners, SlotsOwn
  <1>6. CallOwns(J, g, Idle)  BY DEF CallOwns, Idle
  <1>7. ASSUME NEW u \in Threads \ {t}
        PROVE  CallOwns(J, g, c[u]) /\ CallsApart(Idle, c[u])
    <2>1. CallOwns(H, h, c[u]) /\ CallsApart(c[t], c[u])  BY DEF Owners
    <2>2. c[u].stage # "idle" => c[u].slot # i /\ g[c[u].slot] = h[c[u].slot]
      BY <1>2, <2>1, CallSlot DEF CallsApart
    <2>3. c[u].stage = "finish" =>
            NewOf(c[u]) \in J /\ \A m \in Slots : g[m] # NewOf(c[u])
      BY <1>1, <1>2, <2>1 DEF CallOwns, CallsApart
    <2>4. c[u].stage \in {"move", "finish"} => c[u].stage # "idle"  OBVIOUS
    <2>5. CallOwns(J, g, c[u])  BY <2>1, <2>2, <2>3, <2>4 DEF CallOwns
    <2>6. CallsApart(Idle, c[u])  BY DEF CallsApart, Idle
    <2>. QED  BY <2>5, <2>6
  <1>8. Owners(J, g, e)  BY <1>5, <1>6, <1>7, OneCallChanged DEF e
  <1>9. ASSUME AllOwned(H, h, c), J = H \ {h[i]} PROVE AllOwned(J, g, e)
    <2> SUFFICES ASSUME NEW x \in H, x # h[i]
                 PROVE  \/ \E m \in Slots : g[m] = x
                        \/ \E u \in Threads : e[u].stage = "finish" /\ NewOf(e[u]) = x
      BY <1>9 DEF AllOwned
    <2>1. CASE \E m \in Slots : h[m] = x  BY <1>2, <2>1
    <2>2. CASE \E u \in Threads : c[u].stage = "finish" /\ NewOf(c[u]) = x
      BY <1>1, <1>2, <1>3, <2>2
    <2>. QED  BY <1>9, <2>1, <2>2 DEF AllOwned
  <1>. QED  BY <1>8, <1>9 DEF g, e

(* OwnersSound and NothingLost of blocks, slots, calls and events.         *)
OwnersKept(H, h, c, e) ==
  CleanOf(e) => Owners(H, h, c) /\ ("missed" \notin e => AllOwned(H, h, c))

LEMMA OwnersKeptParts ==
  OwnersSound /\ NothingLost
    <=> OwnersKept(PoolBlocks(pool), held, calls, events)
  <1>1. ListedBlocks = PoolBlocks(pool)  BY ListedBlocksOfPool
  <1>2. Clean <=> CleanOf(events)  BY DEF Clean, CleanOf
  <1>3. OwnersSound <=> (CleanOf(events) => Owners(PoolBlocks(pool), held, calls))
    BY <1>1, <1>2
       DEF OwnersSound, Owners, SlotsOwn, CallOwns, CallsApart, NewBlock, NewOf
  <1>4. NothingLost <=> (CleanOf(events) /\ "missed" \notin events =>
                           AllOwned(PoolBlocks(pool), held, calls))
    BY <1>1, <1>2 DEF NothingLost, AllOwned, NewBlock, NewOf
  <1>. QED  BY <1>3, <1>4 DEF OwnersKept

(* The blocks of sound zones: no null block, no two at one address.        *)
LEMMA CleanBlocks ==
  ASSUME TypeOK, ZonesSized(pool), ZonesKept(pool, mapped, events), CleanOf(events)
  PROVE  /\ NoBlock \notin PoolBlocks(pool)
         /\ \A b \in PoolBlocks(pool) : b \in [ptr: Nat, size: Nat \ {0}]
         /\ \A b, d \in PoolBlocks(pool) : b.ptr = d.ptr => b = d
         /\ \A b, d \in PoolBlocks(pool) : b # d => Apart(b, d)
  <1>1. PoolSound(pool, mapped) /\ pool \in Seq(Zone)  BY DEF ZonesKept, TypeOK
  <1>2. /\ \A b \in PoolBlocks(pool) : b \in [ptr: Nat, size: Nat \ {0}]
        /\ \A b, d \in PoolBlocks(pool) : b.ptr = d.ptr => b = d
        /\ \A b, d \in PoolBlocks(pool) : b # d => Apart(b, d)
    BY <1>1, PoolBlocksApart
  <1>3. NoBlock \notin [ptr: Nat, size: Nat \ {0}]  BY DEF NoBlock
  <1>. QED  BY <1>2, <1>3

(* The free of a pointer a slot holds takes the block of that slot out of  *)
(* the pool, unless the pointer is not found.                              *)
LEMMA FreeOwned ==
  ASSUME SizesAgree, TypeOK, ZonesSized(pool), ZonesKept(pool, mapped, events),
         OwnersKept(PoolBlocks(pool), held, calls, events),
         NEW i \in Slots, held[i] # NoBlock, FreePtr(held[i].ptr), CleanOf(events')
  PROVE  /\ Owners(PoolBlocks(pool), held, calls)
         /\ NoBlock \notin PoolBlocks(pool)
         /\ \/ /\ Find(held[i].ptr) = {} /\ "missed" \in events'
               /\ PoolBlocks(pool') = PoolBlocks(pool)
            \/ PoolBlocks(pool') = PoolBlocks(pool) \ {held[i]}
         /\ "missed" \notin events' => AllOwned(PoolBlocks(pool), held, calls)
  <1>1. /\ \/ \E b \in PoolBlocks(pool) :
                /\ b.ptr = held[i].ptr
                /\ PoolBlocks(pool') = PoolBlocks(pool) \ {b}
           \/ /\ Find(held[i].ptr) = {} /\ "missed" \in events'
              /\ PoolBlocks(pool') = PoolBlocks(pool)
        /\ events \subseteq events'
    BY FreeEffect DEF TypeOK, PoolTypeOK
  <1>2. CleanOf(events) /\ ("missed" \notin events' => "missed" \notin events)
    BY <1>1 DEF CleanOf
  <1>3. /\ Owners(PoolBlocks(pool), held, calls)
        /\ "missed" \notin events' => AllOwned(PoolBlocks(pool), held, calls)
    BY <1>2 DEF OwnersKept
  <1>4. held[i] \in PoolBlocks(pool)  BY <1>3 DEF Owners, SlotsOwn
  <1>5. \A b \in PoolBlocks(pool) : b.ptr = held[i].ptr => b = held[i]
    BY <1>2, <1>4, CleanBlocks
  <1>6. NoBlock \notin PoolBlocks(pool)  BY <1>2, CleanBlocks
  <1>. QED  BY <1>1, <1>3, <1>5, <1>6

(* A step that leaves zones, slots and calls alone keeps the owners.       *)
LEMMA OwnersUntouched ==
  ASSUME OwnersKept(PoolBlocks(pool), held, calls, events),
         pool' = pool, held' = held, calls' = calls, events \subseteq events'
  PROVE  OwnersKept(PoolBlocks(pool'), held', calls', events')
  BY DEF OwnersKept, CleanOf

(* So does one that changes a call.                                        *)
LEMMA CallChangedKept ==
  ASSUME TypeOK, OwnersKept(PoolBlocks(pool), held, calls, events),
         PoolBlocks(pool') = PoolBlocks(pool), held' = held,
         events \subseteq events',
         NEW t \in Threads, NEW i \in Slots, calls[t].stage # "finish",
         CleanOf(events') => OnlyCallOn(calls, t, i),
         NEW d, calls' = [calls EXCEPT ![t] = d],
         CleanOf(events') =>
           \/ d.stage = "idle"
           \/ /\ d.stage \in {"move", "drop"} /\ d.slot = i
              /\ d.stage = "move" => held[i] # NoBlock
              /\ held[i] # NoBlock => d.old = held[i].ptr
  PROVE  OwnersKept(PoolBlocks(pool'), held', calls', events')
  <1> SUFFICES ASSUME CleanOf(events')
               PROVE  /\ Owners(PoolBlocks(pool), held, calls')
                      /\ "missed" \notin events' =>
                           AllOwned(PoolBlocks(pool), held, calls')
    BY DEF OwnersKept
  <1>1. CleanOf(events) /\ ("missed" \notin events' => "missed" \notin events)
    BY DEF CleanOf
  <1>2. /\ Owners(PoolBlocks(pool), held, calls)
        /\ "missed" \notin events' => AllOwned(PoolBlocks(pool), held, calls)
    BY <1>1 DEF OwnersKept
  <1>3. held \in [Slots -> Blocks] /\ calls \in [Threads -> Calls]
    BY DEF TypeOK, Blocks
  <1>. QED  BY <1>2, <1>3, CallChanged

(* Serving a request, or refusing it, only adds to the events.             *)
LEMMA EventsGrow ==
  ASSUME \/ \E o : Serve(o)
         \/ \E t \in Threads, size \in Nat : Refuse(t, size)
         \/ \E ptr : FreePtr(ptr)
         \/ Missed
  PROVE  events \subseteq events'
  BY DEF Serve, Refuse, FreePtr, Missed

(* On a clean run no other call works on the slot of a call in progress.   *)
LEMMA SlotOfCall ==
  ASSUME TypeOK, OwnersKept(PoolBlocks(pool), held, calls, events),
         CleanOf(events), NEW t \in Threads, calls[t].stage # "idle"
  PROVE  OnlyCallOn(calls, t, calls[t].slot) /\ calls[t].slot \in Slots
  <1>1. Owners(PoolBlocks(pool), held, calls)  BY DEF OwnersKept
  <1>2. OnlyCallOn(calls, t, calls[t].slot)
    BY <1>1 DEF Owners, CallsApart, OnlyCallOn
  <1>3. calls[t].slot \in Slots  BY CallSlot DEF TypeOK
  <1>. QED  BY <1>2, <1>3

(* The block a lookup finds is listed, at the address looked for.          *)
LEMMA FoundBlock ==
  ASSUME PoolTypeOK, NEW ptr, NEW loc \in Find(ptr)
  PROVE  /\ BlockOf(FoundAlloc(loc)) \in PoolBlocks(pool)
         /\ BlockOf(FoundAlloc(loc)).ptr = ptr
         /\ BlockOf(FoundAlloc(loc)).size = FoundAlloc(loc).cap
  <1>1. /\ loc[1] \in DOMAIN pool /\ loc[2] \in 1..Len(pool[loc[1]].allocs)
        /\ pool[loc[1]] \in Zone
    BY FindInPool, LenProperties, ElementOfSeq DEF PoolTypeOK
  <1>2. loc[2] \in DOMAIN pool[loc[1]].allocs  BY <1>1, LenProperties DEF Zone
  <1>3. BlockOf(FoundAlloc(loc)) \in PoolBlocks(pool)
    BY <1>1, <1>2 DEF PoolBlocks, ZoneBlocks, FoundAlloc
  <1>4. Chunk(FoundAlloc(loc)) = ptr  BY DEF Find, FindAlloc, FirstOf, FoundAlloc
  <1>. QED  BY <1>3, <1>4 DEF BlockOf

(* Every critical section of a clean run hands a new block to one owner,   *)
(* takes a block from the one it had, or passes it on: the inductive step  *)
(* of OwnersCorrect.                                                       *)
THEOREM OwnersStep ==
  ASSUME SizesAgree
  PROVE  /\ TypeOK /\ SizesSound /\ ZonesSound /\ MappedExact
         /\ OwnersSound /\ NothingLost /\ [Next]_vars
         => OwnersSound' /\ NothingLost'
  <1> DEFINE H == PoolBlocks(pool)
             Kept == OwnersKept(PoolBlocks(pool), held, calls, events)
  <1>1. /\ Kept => OwnersSound /\ NothingLost
        /\ OwnersSound /\ NothingLost => Kept
    BY OwnersKeptParts
  <1>2. (Kept => OwnersSound /\ NothingLost)'  BY <1>1, PTL
  <1> SUFFICES ASSUME TypeOK, ZonesSized(pool), CallsSized(calls),
                      ZonesKept(pool, mapped, events), Kept, [Next]_vars
               PROVE  Kept'
    BY <1>1, <1>2, SizesSoundParts, ZonesKeptParts
  <1>3. /\ PoolTypeOK /\ held \in [Slots -> Blocks] /\ calls \in [Threads -> Calls]
    BY DEF TypeOK, PoolTypeOK, Blocks
  <1>4. CleanOf(events') /\ events \subseteq events' =>
          /\ CleanOf(events) /\ Owners(H, held, calls)
          /\ NoBlock \notin H
          /\ "missed" \notin events' => AllOwned(H, held, calls)
    BY CleanBlocks DEF CleanOf, OwnersKept
  <1>5. ASSUME NEW t \in Threads, calls[t] = Idle, NEW i \in Slots, ~Busy(i)
        PROVE  /\ OnlyCallOn(calls, t, i) /\ calls[t].stage = "idle"
               /\ \A u \in Threads : calls[u].stage # "idle" => calls[u].slot # i
    BY <1>5 DEF OnlyCallOn, Busy, Idle
  <1>6. ASSUME NEW t \in Threads, NEW i \in Slots, OnlyCallOn(calls, t, i),
                calls[t].stage # "finish", held[i] # NoBlock, FreePtr(held[i].ptr),
                held' = [held EXCEPT ![i] = NoBlock],
                NEW d, d.stage = "idle" \/ (d.stage = "drop" /\ d.slot = i),
                calls' = [calls EXCEPT ![t] = d]
         PROVE  Kept'
    <2> SUFFICES ASSUME CleanOf(events')
                 PROVE  /\ Owners(H', held', calls')
                        /\ "missed" \notin events' => AllOwned(H', held', calls')
      BY DEF OwnersKept
    <2>1. /\ Owners(H, held, calls) /\ NoBlock \notin H
          /\ (H' = H /\ "missed" \in events') \/ H' = H \ {held[i]}
          /\ "missed" \notin events' => AllOwned(H, held, calls)
      BY <1>6, FreeOwned
    <2> HIDE DEF H
    <2>. QED  BY <1>3, <1>6, <2>1, SlotEmptied
  <1>7. ASSUME NEW t \in Threads, NEW i \in Slots, NEW size \in Sizes,
               Malloc(t, i, size)
        PROVE  Kept'
    <2> DEFINE req == RoundUp(size)
    <2>1. /\ req \in RoundedSizes /\ req \in Nat /\ calls' = calls
          /\ held[i] = NoBlock
          /\ \A u \in Threads : calls[u].stage # "idle" => calls[u].slot # i
      BY <1>5, <1>7, RoundedSizesType DEF Malloc
    <2> HIDE DEF req
    <2>2. ASSUME NEW o \in MallocOutcomes(req), Serve(o),
                 held' = [held EXCEPT ![i] =
                   IF o.ptr = NULL THEN NoBlock ELSE [ptr |-> o.ptr, size |-> req]],
                 CleanOf(events')
          PROVE  /\ Owners(H', held', calls')
                 /\ "missed" \notin events' => AllOwned(H', held', calls')
      <3> DEFINE b == [ptr |-> o.ptr, size |-> req]
      <3>1. /\ CleanOf(events) /\ Owners(H, held, calls) /\ NoBlock \notin H
            /\ "missed" \notin events' => AllOwned(H, held, calls)
        BY <1>4, <2>2, EventsGrow
      <3>2. \/ o.ptr = NULL /\ H' = H
            \/ o.ptr # NULL /\ b \notin H /\ H' = H \cup {b}
        BY <1>3, <2>1, <2>2, ServeEffect
      <3>3. CASE o.ptr = NULL
        <4>1. held' = held  BY <1>3, <2>1, <2>2, <3>3
        <4>2. H' = H  BY <3>2, <3>3
        <4>. QED  BY <2>1, <3>1, <4>1, <4>2
      <3>4. CASE o.ptr # NULL
        <4>1. b \in Blocks /\ b # NoBlock
          BY <2>1, <2>2, <1>3, <3>4, MallocOutcomesType DEF PoolTypeOK, Blocks, NoBlock
        <4>2. held' = [held EXCEPT ![i] = b]  BY <2>2, <3>4
        <4>3. b \notin H /\ H' = H \cup {b}  BY <3>2, <3>4
        <4> HIDE DEF b, H
        <4>. QED  BY <1>3, <2>1, <3>1, <4>1, <4>2, <4>3, SlotFilled
      <3>. QED  BY <3>3, <3>4
    <2>3. ASSUME Refuse(t, req), UNCHANGED held PROVE Kept'
      BY <2>1, <2>3, EventsGrow, OwnersUntouched DEF Refuse
    <2>. QED  BY <1>7, <2>2, <2>3 DEF Malloc, OwnersKept, req
  <1>8. ASSUME NEW t \in Threads, NEW i \in Slots, Free(t, i)
        PROVE  Kept'
    <2> DEFINE d == Idle
    <2>1. /\ held[i] # NoBlock /\ FreePtr(held[i].ptr)
          /\ held' = [held EXCEPT ![i] = NoBlock]
          /\ OnlyCallOn(calls, t, i) /\ calls[t].stage = "idle"
          /\ calls' = [calls EXCEPT ![t] = d] /\ d.stage = "idle"
      BY <1>3, <1>5, <1>8 DEF Free, Idle
    <2> HIDE DEF d
    <2>. QED  BY <1>6, <2>1
  <1>9. ASSUME NEW t \in Threads, NEW i \in Slots, ReallocfZero(t, i)
        PROVE  Kept'
    <2>1. /\ held[i] # NoBlock /\ FreePtr(held[i].ptr)
          /\ held' = [held EXCEPT ![i] = NoBlock]
          /\ OnlyCallOn(calls, t, i) /\ calls[t].stage = "idle"
          /\ calls' = [calls EXCEPT ![t] =
               [stage |-> "drop", slot |-> i, old |-> held[i].ptr]]
      BY <1>5, <1>9 DEF ReallocfZero
    <2>. QED  BY <1>6, <2>1
  <1>10. ASSUME NEW t \in Threads, NEW i \in Slots, NEW size \in Sizes,
               NEW api \in Apis, Realloc(t, api, i, size)
        PROVE  Kept'
    <2> DEFINE req == RoundUp(size)
    <2>1. /\ held[i] # NoBlock /\ OnlyCallOn(calls, t, i)
          /\ calls[t].stage # "finish"
      BY <1>5, <1>10 DEF Realloc
    <2>2. ASSUME NEW loc \in Find(held[i].ptr), FoundAlloc(loc).cap = req,
                 held' = [held EXCEPT ![i].size = req],
                 UNCHANGED <<pool, mapped, calls, lock, status, events>>
          PROVE  Kept'
      <3>1. CASE CleanOf(events)
        <4>1. Owners(H, held, calls)  BY <3>1 DEF OwnersKept
        <4>2. held[i] \in H  BY <2>1, <4>1 DEF Owners, SlotsOwn
        <4>3. held[i].size = req
          BY <1>3, <2>2, <3>1, <4>2, FoundBlock, CleanBlocks
        <4>4. held' = held  BY <1>3, <2>2, <4>3 DEF Blocks
        <4>. QED  BY <2>2, <4>4, OwnersUntouched
      <3>2. CASE ~CleanOf(events)  BY <2>2, <3>2 DEF OwnersKept
      <3>. QED  BY <3>1, <3>2
    <2>3. CASE events' = events \cup {"shrunk"}
      BY <2>3 DEF OwnersKept, CleanOf
    <2>4. ASSUME calls' = [calls EXCEPT ![t] =
                   [stage |-> "move", api |-> api, slot |-> i,
                    old |-> held[i].ptr, size |-> req]],
                 UNCHANGED <<pool, held, events>>
          PROVE  Kept'
      BY <2>1, <2>4, CallChangedKept
    <2>5. ASSUME Missed,
                 calls' = [calls EXCEPT ![t] =
                   IF api = "reallocf" /\ ~AbortOnErr
                   THEN [stage |-> "drop", slot |-> i, old |-> held[i].ptr]
                   ELSE Idle],
                 UNCHANGED held
          PROVE  Kept'
      <3> DEFINE d == IF api = "reallocf" /\ ~AbortOnErr
                      THEN [stage |-> "drop", slot |-> i, old |-> held[i].ptr]
                      ELSE Idle
      <3>1. /\ d.stage \in {"idle", "drop"}
            /\ d.stage = "drop" => d.slot = i /\ d.old = held[i].ptr
        BY DEF Idle
      <3>2. /\ calls' = [calls EXCEPT ![t] = d]
            /\ pool' = pool /\ events \subseteq events'
        BY <2>5 DEF Missed
      <3> HIDE DEF d
      <3>3. PoolBlocks(pool') = PoolBlocks(pool)  BY <3>2
      <3>4. /\ CleanOf(events') => OnlyCallOn(calls, t, i)
            /\ CleanOf(events') =>
                 \/ d.stage = "idle"
                 \/ /\ d.stage \in {"move", "drop"} /\ d.slot = i
                    /\ d.stage = "move" => held[i] # NoBlock
                    /\ held[i] # NoBlock => d.old = held[i].ptr
        BY <2>1, <3>1
      <3>5. held' = held /\ events \subseteq events'  BY <2>5, <3>2
      <3>. QED  BY <2>1, <3>2, <3>3, <3>4, <3>5, CallChangedKept
    <2>. QED  BY <1>10, <2>2, <2>3, <2>4, <2>5 DEF Realloc
  <1>11. ASSUME NEW t \in Threads, ReallocMove(t) PROVE Kept'
    <2> DEFINE i == calls[t].slot
               req == calls[t].size
    <2>1. calls[t].stage = "move" /\ req \in RoundedSizes /\ req \in Nat
      BY <1>11, RoundedSizesType DEF ReallocMove, CallsSized
    <2>2. CleanOf(events) =>
            /\ OnlyCallOn(calls, t, i) /\ i \in Slots
            /\ Owners(H, held, calls)
            /\ held[i] # NoBlock /\ calls[t].old = held[i].ptr
      BY <2>1, SlotOfCall DEF OwnersKept, Owners, CallOwns
    <2>3. ASSUME GiveUp(t), PoolBlocks(pool') = PoolBlocks(pool), UNCHANGED held,
                 events \subseteq events', CleanOf(events')
          PROVE  Kept'
      <3> DEFINE d == IF calls[t].api = "reallocf"
                      THEN [stage |-> "drop", slot |-> i, old |-> calls[t].old]
                      ELSE Idle
      <3>1. /\ d.stage \in {"idle", "drop"}
            /\ d.stage = "drop" => d.slot = i /\ d.old = calls[t].old
        BY DEF Idle
      <3>2. calls' = [calls EXCEPT ![t] = d]  BY <1>3, <2>3 DEF GiveUp
      <3>3. CleanOf(events)  BY <2>3 DEF CleanOf
      <3> HIDE DEF d, i
      <3>. QED  BY <2>1, <2>2, <2>3, <3>1, <3>2, <3>3, CallChangedKept
    <2>4. ASSUME NEW o \in MallocOutcomes(req), Serve(o),
                 IF o.ptr = NULL THEN GiveUp(t)
                 ELSE calls' = [calls EXCEPT ![t] =
                        [stage |-> "finish", slot |-> @.slot, old |-> @.old,
                         new |-> o.ptr, size |-> @.size]],
                 UNCHANGED held, CleanOf(events')
          PROVE  Kept'
      <3> DEFINE b == [ptr |-> o.ptr, size |-> req]
                 d == [stage |-> "finish", slot |-> calls[t].slot,
                       old |-> calls[t].old, new |-> o.ptr, size |-> calls[t].size]
      <3>1. /\ CleanOf(events) /\ Owners(H, held, calls) /\ NoBlock \notin H
            /\ "missed" \notin events' => AllOwned(H, held, calls)
            /\ events \subseteq events'
        BY <1>4, <2>4, EventsGrow
      <3>2. \/ o.ptr = NULL /\ H' = H
            \/ o.ptr # NULL /\ b \notin H /\ H' = H \cup {b}
        BY <1>3, <2>1, <2>4, ServeEffect
      <3>3. CASE o.ptr = NULL
        <4>1. GiveUp(t) /\ H' = H  BY <2>4, <3>2, <3>3
        <4>. QED  BY <2>3, <2>4, <3>1, <4>1
      <3>4. CASE o.ptr # NULL
        <4>1. /\ calls' = [calls EXCEPT ![t] = d]
              /\ d.stage = "finish" /\ d.slot = calls[t].slot
              /\ d.old = calls[t].old /\ NewOf(d) = b
          BY <1>3, <2>4, <3>4 DEF NewOf
        <4>2. b # NoBlock  BY <3>4 DEF NoBlock
        <4>3. b \notin H /\ H' = H \cup {b}  BY <3>2, <3>4
        <4> HIDE DEF b, d, H
        <4>4. /\ Owners(H', held, calls')
              /\ AllOwned(H, held, calls) => AllOwned(H', held, calls')
          BY <1>3, <2>1, <3>1, <4>1, <4>2, <4>3, CallServed
        <4>. QED  BY <2>4, <3>1, <4>4 DEF OwnersKept, H
      <3>. QED  BY <3>3, <3>4
    <2>5. ASSUME Refuse(t, req), GiveUp(t), UNCHANGED held, CleanOf(events')
          PROVE  Kept'
      <3>1. PoolBlocks(pool') = PoolBlocks(pool) /\ events \subseteq events'
        BY <2>1, <2>5, EventsGrow DEF Refuse
      <3>. QED  BY <2>3, <2>5, <3>1
    <2>6. CASE ~CleanOf(events')  BY <2>6 DEF OwnersKept
    <2>. QED  BY <1>11, <2>4, <2>5, <2>6 DEF ReallocMove
  <1>12. ASSUME NEW t \in Threads, ReallocFinish(t) PROVE Kept'
    <2> DEFINE i == calls[t].slot
               b == NewOf(calls[t])
    <2>1. /\ calls[t].stage = "finish" /\ FreePtr(calls[t].old)
          /\ held' = [held EXCEPT ![i] = b]
          /\ calls' = [calls EXCEPT ![t] = Idle]
          /\ events \subseteq events'
      BY <1>12, EventsGrow DEF ReallocFinish, NewOf
    <2> SUFFICES ASSUME CleanOf(events')
                 PROVE  /\ Owners(H', held', calls')
                        /\ "missed" \notin events' => AllOwned(H', held', calls')
      BY DEF OwnersKept
    <2>2. CleanOf(events) /\ Owners(H, held, calls)  BY <1>4, <2>1
    <2>3. i \in Slots /\ held[i] # NoBlock /\ calls[t].old = held[i].ptr
      BY <2>1, <2>2, SlotOfCall DEF Owners, CallOwns
    <2>4. /\ (H' = H /\ "missed" \in events') \/ H' = H \ {held[i]}
          /\ "missed" \notin events' => AllOwned(H, held, calls)
      BY <2>1, <2>3, FreeOwned
    <2> HIDE DEF H
    <2>. QED  BY <1>3, <2>1, <2>2, <2>3, <2>4, CallReturned
  <1>13. ASSUME NEW t \in Threads, ReallocfDrop(t) PROVE Kept'
    <2> DEFINE i == calls[t].slot
               d == Idle
    <2>1. /\ calls[t].stage = "drop" /\ held' = [held EXCEPT ![i] = NoBlock]
          /\ calls' = [calls EXCEPT ![t] = d] /\ d.stage = "idle"
      BY <1>13 DEF ReallocfDrop, Idle
    <2> HIDE DEF d
    <2>2. events \subseteq events'  BY <1>13 DEF ReallocfDrop, Missed
    <2>3. CASE ~CleanOf(events')  BY <2>3 DEF OwnersKept
    <2>4. CASE CleanOf(events')
      <3>1. CleanOf(events) /\ Owners(H, held, calls) /\ NoBlock \notin H
        BY <1>4, <2>2, <2>4
      <3>2. OnlyCallOn(calls, t, i) /\ i \in Slots  BY <2>1, <3>1, SlotOfCall
      <3>3. CASE held[i] # NoBlock
        <4>1. calls[t].old = held[i].ptr
          BY <2>1, <3>1, <3>3 DEF Owners, CallOwns
        <4>2. FreePtr(held[i].ptr)
          <5>1. \/ /\ \E loc \in Find(calls[t].old) : Release(loc[1], loc[2])
                   /\ events' = events \cup LeftMapped \cup {}
                   /\ UNCHANGED lock
                \/ Find(calls[t].old) = {} /\ Missed
            BY <1>13, <3>3 DEF ReallocfDrop
          <5>. QED  BY <4>1, <5>1 DEF FreePtr
        <4> HIDE DEF i
        <4>3. calls[t].stage # "finish"  BY <2>1
        <4>. QED  BY <1>6, <2>1, <3>2, <3>3, <4>2, <4>3
      <3>4. CASE held[i] = NoBlock
        <4>1. /\ Missed
          BY <1>13, <2>4, <3>4 DEF ReallocfDrop, CleanOf
        <4>2. H' = H /\ "missed" \in events'  BY <4>1 DEF Missed
        <4> HIDE DEF H, i
        <4>3. Owners(H', held', calls')
          BY <1>3, <2>1, <3>1, <3>2, <4>2, SlotEmptied
        <4>. QED  BY <4>2, <4>3 DEF OwnersKept, H
      <3>. QED  BY <3>3, <3>4
    <2>. QED  BY <2>3, <2>4
  <1>14. CASE UNCHANGED vars
    BY <1>14, OwnersUntouched DEF vars
  <1>15. CASE Next
    BY <1>7, <1>8, <1>9, <1>10, <1>11, <1>12, <1>13, <1>15 DEF Next, Step
  <1>. QED  BY <1>14, <1>15

(* Each slot and each realloc in progress has a listed block of its own,   *)
(* and unless a pointer was not found each listed block has such an owner. *)
THEOREM OwnersCorrect ==
  ASSUME SizesAgree
  PROVE  Spec => []OwnersSound /\ []NothingLost
  <1>1. Init => OwnersSound /\ NothingLost
    <2>1. DOMAIN << >> = {}  BY EmptySeq, LenProperties
    <2>2. Init => ListedBlocks = {}
      BY <2>1 DEF Init, ListedBlocks, ListedAllocs
    <2>. QED  BY <2>2 DEF Init, OwnersSound, NothingLost, Idle
  <1>2. /\ TypeOK /\ SizesSound /\ ZonesSound /\ MappedExact
        /\ OwnersSound /\ NothingLost /\ [Next]_vars
        => OwnersSound' /\ NothingLost'
    BY OwnersStep
  <1>. QED
    BY <1>1, <1>2, TypeCorrect, SizesCorrect, ZonesCorrect, PTL DEF Spec

-----------------------------------------------------------------------------
(* The promises to the client                                              *)

(* What the program owns on a clean run: listed blocks, each once.         *)
LEMMA OwnedBlocks ==
  ASSUME TypeOK, OwnersSound, Clean
  PROVE  /\ \A x \in Owned : x[2] \in PoolBlocks(pool)
         /\ \A x, y \in Owned : x # y => x[2] # y[2]
  <1>1. ASSUME NEW x \in Owned
        PROVE  \/ \E i \in Slots : x = <<i, held[i]>> /\ held[i] # NoBlock
               \/ \E t \in Threads : x = <<t, NewBlock(t)>> /\ calls[t].stage = "finish"
    BY DEF Owned, InFlight, NewBlock
  <1>2. /\ \A i \in Slots : held[i] # NoBlock => held[i] \in PoolBlocks(pool)
        /\ \A i, m \in Slots : held[i] # NoBlock /\ held[i] = held[m] => i = m
        /\ \A t \in Threads : calls[t].stage = "finish" =>
             /\ NewBlock(t) \in PoolBlocks(pool)
             /\ \A i \in Slots : held[i] # NewBlock(t)
        /\ \A t, u \in Threads :
             calls[t].stage = "finish" /\ calls[u].stage = "finish" /\ t # u =>
               NewBlock(t) # NewBlock(u)
    BY ListedBlocksOfPool DEF OwnersSound
  <1>. QED  BY <1>1, <1>2

(* On a clean run realloc never finishes with the block it started with.   *)
LEMMA FinishIsInFlight ==
  ASSUME TypeOK, ZonesSized(pool), ZonesKept(pool, mapped, events), OwnersSound,
         Clean, NEW t \in Threads, calls[t].stage = "finish"
  PROVE  t \in InFlight
  <1>1. calls[t].slot \in Slots  BY CallSlot DEF TypeOK
  <1>2. /\ held[calls[t].slot] \in PoolBlocks(pool) /\ NewBlock(t) \in PoolBlocks(pool)
        /\ held[calls[t].slot] # NewBlock(t)
        /\ calls[t].old = held[calls[t].slot].ptr
    BY <1>1, ListedBlocksOfPool DEF OwnersSound
  <1>3. held[calls[t].slot].ptr # NewBlock(t).ptr
    BY <1>2, ZonesKeptParts, CleanBlocks
  <1>. QED  BY <1>2, <1>3 DEF InFlight, NewBlock

(* The place and length of a zone of a clean run, and its header.          *)
LEMMA ZoneInMemory ==
  ASSUME TypeOK, ZonesSized(pool), ZonesKept(pool, mapped, events), CleanOf(events),
         NEW k \in DOMAIN pool
  PROVE  /\ pool[k] \in Zone /\ SizedZone(pool[k]) /\ RoomyZone(pool[k])
         /\ pool[k].base \in Nat /\ ZoneLen(pool[k]) \in Nat \ {0}
         /\ ZoneHdr <= ZoneLen(pool[k])
         /\ ZonePages(pool[k]) = PagesOf(pool[k].base, ZoneLen(pool[k]))
         /\ PagesOf(pool[k].base, ZoneLen(pool[k])) \subseteq mapped
         /\ Backed(pool[k].base, ZoneHdr)
  <1>1. PoolSound(pool, mapped)  BY DEF ZonesKept
  <1>2. pool[k] \in Zone /\ SizedZone(pool[k]) /\ RoomyZone(pool[k])
    BY <1>1, LenProperties, ElementOfSeq DEF TypeOK, ZonesSized, PoolSound
  <1>3. ZonePages(pool[k]) \subseteq mapped  BY <1>1 DEF PoolSound
  <1>4. /\ pool[k].base \in Nat /\ ZoneLen(pool[k]) \in Nat \ {0}
        /\ ZoneHdr <= ZoneLen(pool[k])
        /\ ZonePages(pool[k]) = PagesOf(pool[k].base, ZoneLen(pool[k]))
    BY <1>2, RoomyLen
  <1>5. Backed(pool[k].base, ZoneHdr)
    BY <1>3, <1>4, PartBacked, SizesAssumption
  <1>. QED  BY <1>2, <1>3, <1>4, <1>5

(* The headers of zones and blocks, and what surrounds them.               *)
LEMMA HeadersApart ==
  ASSUME TypeOK, ZonesSized(pool), ZonesKept(pool, mapped, events), CleanOf(events),
         NEW b \in PoolBlocks(pool)
  PROVE  /\ b.ptr - AllocHdr \in Nat
         /\ Backed(b.ptr, b.size) /\ Backed(b.ptr - AllocHdr, AllocHdr)
         /\ \A d \in PoolBlocks(pool) :
              ~Overlap(d.ptr, d.size, b.ptr - AllocHdr, AllocHdr)
         /\ \A k \in DOMAIN pool : ~Overlap(b.ptr, b.size, pool[k].base, ZoneHdr)
  <1>1. PoolSound(pool, mapped)  BY DEF ZonesKept
  <1>2. ASSUME NEW k \in DOMAIN pool
        PROVE  /\ pool[k] \in Zone /\ SizedZone(pool[k]) /\ RoomyZone(pool[k])
               /\ pool[k].base \in Nat /\ ZoneLen(pool[k]) \in Nat \ {0}
               /\ ZoneHdr <= ZoneLen(pool[k])
               /\ ZonePages(pool[k]) = PagesOf(pool[k].base, ZoneLen(pool[k]))
               /\ PagesOf(pool[k].base, ZoneLen(pool[k])) \subseteq mapped
    BY ZoneInMemory
  <1>3. PICK l \in DOMAIN pool : b \in ZoneBlocks(pool[l])  BY DEF PoolBlocks
  <1>4. /\ b.ptr \in Nat /\ b.size \in Nat \ {0}
        /\ pool[l].base + ZoneHdr + AllocHdr <= b.ptr
        /\ b.ptr + b.size <= pool[l].base + ZoneLen(pool[l])
    BY <1>2, <1>3, BlockInZone
  <1>5. b.ptr - AllocHdr \in Nat /\ (b.ptr - AllocHdr) + AllocHdr = b.ptr
    BY <1>2, <1>4, SizesAssumption
  <1>6. Backed(b.ptr, b.size)
    BY <1>2, <1>4, PartBacked, SizesAssumption
  <1>7. Backed(b.ptr - AllocHdr, AllocHdr)
    <2> DEFINE a == b.ptr - AllocHdr
    <2>1. /\ a \in Nat /\ pool[l].base <= a
          /\ a + AllocHdr <= pool[l].base + ZoneLen(pool[l])
      BY <1>2, <1>4, <1>5, SizesAssumption
    <2> HIDE DEF a
    <2>2. Backed(a, AllocHdr)
      BY <1>2, <2>1, PartBacked, SizesAssumption
    <2>. QED  BY <2>2 DEF a
  <1>8. ASSUME NEW d \in PoolBlocks(pool)
        PROVE  ~Overlap(d.ptr, d.size, b.ptr - AllocHdr, AllocHdr)
    <2>1. d.ptr \in Nat /\ d.size \in Nat \ {0} /\ (b # d => Apart(b, d))
      BY CleanBlocks
    <2>2. CASE b = d
      BY <1>5, <2>1, <2>2, SizesAssumption DEF Overlap
    <2>3. CASE Apart(b, d)
      BY <1>4, <1>5, <2>1, <2>3, SizesAssumption DEF Overlap, Apart
    <2>. QED  BY <2>1, <2>2, <2>3
  <1>9. ASSUME NEW k \in DOMAIN pool
        PROVE  ~Overlap(b.ptr, b.size, pool[k].base, ZoneHdr)
    <2>1. CASE k = l
      BY <1>2, <1>4, <2>1, SizesAssumption DEF Overlap
    <2>2. CASE k # l
      <3>1. ZonePages(pool[k]) \cap ZonePages(pool[l]) = {}
        BY <1>1, <2>2 DEF PoolSound
      <3>2. \/ pool[k].base + ZoneLen(pool[k]) <= pool[l].base
            \/ pool[l].base + ZoneLen(pool[l]) <= pool[k].base
        BY <1>2, <3>1, RangesApart
      <3> DEFINE bk == pool[k].base
                 bl == pool[l].base
                 nk == ZoneLen(pool[k])
                 nl == ZoneLen(pool[l])
      <3> HIDE DEF bk, bl, nk, nl
      <3>3. /\ bk \in Nat /\ bl \in Nat /\ nk \in Nat /\ nl \in Nat
            /\ ZoneHdr <= nk /\ (bk + nk <= bl \/ bl + nl <= bk)
            /\ bl + ZoneHdr + AllocHdr <= b.ptr /\ b.ptr + b.size <= bl + nl
        BY <1>2, <1>4, <3>2 DEF bk, bl, nk, nl
      <3>4. ~Overlap(b.ptr, b.size, bk, ZoneHdr)
        BY <1>4, <3>3, SizesAssumption DEF Overlap
      <3>. QED  BY <3>4 DEF bk
    <2>. QED  BY <2>1, <2>2
  <1>. QED  BY <1>5, <1>6, <1>7, <1>8, <1>9

(* The blocks handed out to all threads never overlap one another, a       *)
(* header in use, or memory that is not mapped, whatever the threads do in *)
(* between the critical sections of realloc.                               *)
THEOREM OwnedSafeCorrect ==
  ASSUME SizesAgree
  PROVE  Spec => []OwnedSafe
  <1>1. TypeOK /\ SizesSound /\ ZonesSound /\ MappedExact /\ OwnersSound => OwnedSafe
    <2> SUFFICES ASSUME TypeOK, ZonesSized(pool), ZonesKept(pool, mapped, events),
                        OwnersSound, Clean
                 PROVE  Disjoint /\ ~Trampled
      BY SizesSoundParts, ZonesKeptParts DEF OwnedSafe
    <2>1. CleanOf(events)  BY ZonesKeptParts
    <2>2. /\ \A x \in Owned : x[2] \in PoolBlocks(pool)
          /\ \A x, y \in Owned : x # y => x[2] # y[2]
      BY OwnedBlocks
    <2>3. Disjoint
      <3> SUFFICES ASSUME NEW x \in Owned, NEW y \in Owned, x # y
                   PROVE  ~Overlap(x[2].ptr, x[2].size, y[2].ptr, y[2].size)
        BY DEF Disjoint
      <3> DEFINE b == x[2]
                 d == y[2]
      <3>1. b \in PoolBlocks(pool) /\ d \in PoolBlocks(pool) /\ b # d  BY <2>2
      <3> HIDE DEF b, d
      <3>2. /\ b.ptr \in Nat /\ b.size \in Nat /\ d.ptr \in Nat /\ d.size \in Nat
            /\ Apart(b, d)
        BY <2>1, <3>1, CleanBlocks
      <3>3. ~Overlap(b.ptr, b.size, d.ptr, d.size)
        BY <3>2, SizesAssumption DEF Apart, Overlap
      <3>. QED  BY <3>3 DEF b, d
    <2>4. ASSUME NEW b \in PoolBlocks(pool), NEW o \in Owned
          PROVE  ~Overlap(o[2].ptr, o[2].size, b.ptr - AllocHdr, AllocHdr)
      BY <2>1, <2>2, HeadersApart
    <2>5. ASSUME NEW o \in Owned
          PROVE  /\ Backed(o[2].ptr, o[2].size)
                 /\ \A k \in DOMAIN pool :
                      ~Overlap(o[2].ptr, o[2].size, pool[k].base, ZoneHdr)
      BY <2>1, <2>2, HeadersApart
    <2>6. \A k \in DOMAIN pool : Backed(pool[k].base, ZoneHdr)
      BY <2>1, ZoneInMemory
    <2>7. ASSUME NEW h \in Headers
          PROVE  /\ Backed(h[1], h[2])
                 /\ \A o \in Owned : ~Overlap(o[2].ptr, o[2].size, h[1], h[2])
      <3>1. \/ \E k \in DOMAIN pool : h = <<pool[k].base, ZoneHdr>>
            \/ \E b \in PoolBlocks(pool) : h = <<b.ptr - AllocHdr, AllocHdr>>
        <4>1. ASSUME NEW a \in ListedAllocs, h = <<a.at, AllocHdr>>
              PROVE  \E b \in PoolBlocks(pool) : h = <<b.ptr - AllocHdr, AllocHdr>>
          <5>1. PICK k \in DOMAIN pool : \E j \in DOMAIN pool[k].allocs :
                       a = pool[k].allocs[j]
            BY DEF ListedAllocs
          <5>2. PICK j \in DOMAIN pool[k].allocs : a = pool[k].allocs[j]  BY <5>1
          <5>3. /\ a.at \in Nat /\ BlockOf(a).ptr = a.at + AllocHdr
                /\ BlockOf(a) \in PoolBlocks(pool)
            BY <2>1, <5>2, ZoneInMemory, RoomyElement DEF PoolBlocks, ZoneBlocks
          <5>4. BlockOf(a).ptr - AllocHdr = a.at  BY <5>3, SizesAssumption
          <5>. QED  BY <4>1, <5>3, <5>4
        <4>2. ASSUME NEW t \in Threads, calls[t].stage = "finish",
                     h = <<calls[t].old - AllocHdr, AllocHdr>>
              PROVE  \E b \in PoolBlocks(pool) : h = <<b.ptr - AllocHdr, AllocHdr>>
          <5>1. calls[t].slot \in Slots  BY <4>2, CallSlot DEF TypeOK
          <5>2. /\ held[calls[t].slot] \in PoolBlocks(pool)
                /\ calls[t].old = held[calls[t].slot].ptr
            BY <4>2, <5>1, ListedBlocksOfPool DEF OwnersSound
          <5>. QED  BY <4>2, <5>2
        <4>. QED  BY <4>1, <4>2 DEF Headers
      <3>2. CASE \E k \in DOMAIN pool : h = <<pool[k].base, ZoneHdr>>
        BY <2>5, <2>6, <3>2
      <3>3. CASE \E b \in PoolBlocks(pool) : h = <<b.ptr - AllocHdr, AllocHdr>>
        BY <2>1, <2>4, <3>3, HeadersApart
      <3>. QED  BY <3>1, <3>2, <3>3
    <2>8. ~Trampled  BY <2>5, <2>7 DEF Trampled
    <2>. QED  BY <2>3, <2>8
  <1>. QED
    BY <1>1, TypeCorrect, SizesCorrect, ZonesCorrect, OwnersCorrect, PTL

(* The block realloc works on across its critical sections stays listed    *)
(* with its capacity.                                                      *)
THEOREM ReallocKeepsCorrect ==
  ASSUME SizesAgree
  PROVE  Spec => []ReallocKeepsItsBlock
  <1>1. TypeOK /\ OwnersSound => ReallocKeepsItsBlock
    <2> SUFFICES ASSUME TypeOK, OwnersSound, Clean, NEW t \in Threads,
                        calls[t].stage \in {"move", "finish"}
                 PROVE  \E a \in ListedAllocs :
                          Chunk(a) = calls[t].old /\ a.cap = held[calls[t].slot].size
      BY DEF ReallocKeepsItsBlock
    <2>1. calls[t].slot \in Slots  BY CallSlot DEF TypeOK
    <2>2. /\ held[calls[t].slot] \in ListedBlocks
          /\ calls[t].old = held[calls[t].slot].ptr
      BY <2>1 DEF OwnersSound
    <2>3. PICK a \in ListedAllocs :
            held[calls[t].slot] = [ptr |-> Chunk(a), size |-> a.cap]
      BY <2>2 DEF ListedBlocks
    <2>. QED  BY <2>2, <2>3
  <1>. QED  BY <1>1, TypeCorrect, OwnersCorrect, PTL

(* While every pointer was found, the listed blocks are exactly the blocks *)
(* the program owns: no realloc that gives up half way leaks one, and none *)
(* is released while it is owned.                                          *)
THEOREM ViewsAgreeCorrect ==
  ASSUME SizesAgree
  PROVE  Spec => []ViewsAgree
  <1>1. TypeOK /\ SizesSound /\ ZonesSound /\ MappedExact /\ OwnersSound /\ NothingLost
        => ViewsAgree
    <2> SUFFICES ASSUME TypeOK, ZonesSized(pool), ZonesKept(pool, mapped, events),
                        OwnersSound, NothingLost, Clean, "missed" \notin events
                 PROVE  {<<Chunk(a), a.cap>> : a \in ListedAllocs}
                          = {<<o[2].ptr, o[2].size>> : o \in Owned}
      BY SizesSoundParts, ZonesKeptParts DEF ViewsAgree
    <2>1. CleanOf(events) /\ ListedBlocks = PoolBlocks(pool)
      BY ZonesKeptParts, ListedBlocksOfPool
    <2>2. ASSUME NEW a \in ListedAllocs
          PROVE  \E o \in Owned : <<Chunk(a), a.cap>> = <<o[2].ptr, o[2].size>>
      <3> DEFINE b == [ptr |-> Chunk(a), size |-> a.cap]
      <3>1. b \in ListedBlocks  BY DEF ListedBlocks
      <3>2. b # NoBlock  BY <2>1, <3>1, CleanBlocks
      <3>3. b.ptr = Chunk(a) /\ b.size = a.cap  OBVIOUS
      <3> HIDE DEF b
      <3>4. CASE \E i \in Slots : held[i] = b
        <4>1. PICK i \in Slots : held[i] = b  BY <3>4
        <4>2. <<i, b>> \in Owned  BY <3>2, <4>1 DEF Owned
        <4>. QED  BY <3>3, <4>2
      <3>5. CASE \E t \in Threads : calls[t].stage = "finish" /\ NewBlock(t) = b
        <4>1. PICK t \in Threads : calls[t].stage = "finish" /\ NewBlock(t) = b
          BY <3>5
        <4>2. t \in InFlight  BY <2>1, <4>1, FinishIsInFlight
        <4>3. <<t, b>> \in Owned  BY <4>1, <4>2 DEF Owned, NewBlock
        <4>. QED  BY <3>3, <4>3
      <3>. QED  BY <3>1, <3>4, <3>5 DEF NothingLost
    <2>3. ASSUME NEW o \in Owned
          PROVE  \E a \in ListedAllocs : <<o[2].ptr, o[2].size>> = <<Chunk(a), a.cap>>
      <3>1. o[2] \in ListedBlocks  BY <2>1, OwnedBlocks
      <3>2. PICK a \in ListedAllocs : o[2] = [ptr |-> Chunk(a), size |-> a.cap]
        BY <3>1 DEF ListedBlocks
      <3>. QED  BY <3>2
    <2>. QED  BY <2>2, <2>3
  <1>. QED
    BY <1>1, TypeCorrect, SizesCorrect, ZonesCorrect, OwnersCorrect, PTL

-----------------------------------------------------------------------------
(* Pointers are found                                                      *)

(* The length computed of a size is no less than that computed of 0.       *)
LEMMA LenFromZero ==
  ASSUME NEW size \in Nat, NEW type \in ZoneTypes
  PROVE  /\ ZoneMemSize(0, type) \in Nat /\ ZoneMemSize(size, type) \in Nat
         /\ ZoneMemSize(0, type) <= ZoneMemSize(size, type)
  <1>1. ASSUME NEW a \in Nat, NEW b \in Nat, a <= b
        PROVE  Page * (a \div Page) <= Page * (b \div Page)
    <2>1. /\ a \div Page \in Nat /\ b \div Page \in Nat
          /\ a \div Page <= b \div Page
      BY <1>1, PageOrder
    <2> DEFINE p == a \div Page
               q == b \div Page
    <2>2. p \in Nat /\ q \in Nat /\ p <= q  BY <2>1
    <2> HIDE DEF p, q
    <2>3. Page * p <= Page * q  BY <2>2, SizesAssumption
    <2>. QED  BY <2>3 DEF p, q
  <1>2. ASSUME NEW n \in Nat
        PROVE  Page * ((n * Page + 0 + ZoneHdr) \div Page)
                 <= Page * ((n * Page + size + ZoneHdr) \div Page)
    <2>1. n * Page \in Nat  BY SizesAssumption
    <2>2. /\ n * Page + 0 + ZoneHdr \in Nat /\ n * Page + size + ZoneHdr \in Nat
          /\ n * Page + 0 + ZoneHdr <= n * Page + size + ZoneHdr
      BY <2>1, SizesAssumption
    <2>. QED  BY <1>1, <2>2
  <1>3. CASE type = "tiny"
    <2>1. TinyZone \in Nat  BY SizesAssumption
    <2>. QED  BY <1>2, <1>3, <2>1, ZoneMemSizeBounds DEF ZoneMemSize
  <1>4. CASE type = "small"
    <2>1. SmallZone \in Nat  BY SizesAssumption
    <2>. QED  BY <1>2, <1>4, <2>1, ZoneMemSizeBounds DEF ZoneMemSize
  <1>5. CASE type = "large"
    <2>1. /\ 0 + AllocHdr + ZoneHdr + Page - 1 \in Nat
          /\ size + AllocHdr + ZoneHdr + Page - 1 \in Nat
          /\ 0 + AllocHdr + ZoneHdr + Page - 1 <= size + AllocHdr + ZoneHdr + Page - 1
      BY SizesAssumption
    <2>. QED  BY <1>1, <1>5, <2>1, ZoneMemSizeBounds DEF ZoneMemSize
  <1>. QED  BY <1>3, <1>4, <1>5 DEF ZoneTypes

(* The estimate of a zone's end never cuts a block off.                    *)
LEMMA EstimateCovers ==
  ASSUME SizesAgree, EstimateReaches, NEW z \in Zone, SizedZone(z), RoomyZone(z),
         NEW j \in DOMAIN z.allocs
  PROVE  Chunk(z.allocs[j]) < z.base + ZoneMemSize(z.free, z.type)
  <1> DEFINE a == z.allocs[j]
             est == ZoneMemSize(z.free, z.type)
             low == ZoneMemSize(0, z.type)
  <1>1. z.free \in Nat /\ z.type \in ZoneTypes /\ z.base \in Nat  BY DEF Zone
  <1>2. low \in Nat /\ est \in Nat /\ low <= est  BY <1>1, LenFromZero
  <1>3. /\ a.at \in Nat /\ a.size \in Nat /\ a.size = a.cap
        /\ End(a) = Chunk(a) + a.size /\ Chunk(a) = a.at + AllocHdr
        /\ End(a) <= z.base + ZoneLen(z)
    BY RoomyElement DEF BlockOf, RoomyZone, Chunk
  <1> HIDE DEF a, est, low
  <1>4. CASE z.type # "large"
    <2>1. a.cap \in RoundedSizes /\ SetZoneType(a.cap) = z.type
      BY SizedSize DEF a
    <2>2. ZoneMemSize(a.cap, z.type) = ZoneLen(z)  BY <1>4, <2>1, LenOfType
    <2>3. ZoneLen(z) - a.cap < low
      BY <1>4, <2>1, <2>2 DEF EstimateReaches, low
    <2>4. ZoneLen(z) \in Nat  BY RoomyLen
    <2> DEFINE len == ZoneLen(z)
    <2> HIDE DEF len
    <2>5. len \in Nat /\ len - a.size < low /\ End(a) <= z.base + len
      BY <1>3, <2>3, <2>4 DEF len
    <2>6. Chunk(a) < z.base + est
      BY <1>1, <1>2, <1>3, <2>5, SizesAssumption
    <2>. QED  BY <2>6 DEF a, est
  <1>5. CASE z.type = "large"
    <2>1. Len(z.allocs) = 1 /\ z.allocs[1].at = z.base + ZoneHdr
      BY <1>5 DEF RoomyZone, FirstSlot
    <2>2. j = 1  BY <2>1, LenProperties DEF Zone
    <2>3. ZoneHdr + AllocHdr < low  BY <1>5 DEF EstimateReaches, low
    <2>4. a.at = z.base + ZoneHdr  BY <2>1, <2>2 DEF a
    <2>5. Chunk(a) < z.base + est
      BY <1>1, <1>2, <1>3, <2>3, <2>4, SizesAssumption
    <2>. QED  BY <2>5 DEF a, est
  <1>. QED  BY <1>4, <1>5

(* Where zones come in descending order, the first zone that may hold a    *)
(* pointer is the one that does.                                           *)
LEMMA DescendingFinds ==
  ASSUME SizesAgree, EstimateReaches, TypeOK, ZonesSized(pool),
         ZonesKept(pool, mapped, events), CleanOf(events), Descending,
         NEW b \in PoolBlocks(pool)
  PROVE  Find(b.ptr) # {}
  <1>1. PICK l \in DOMAIN pool : b \in ZoneBlocks(pool[l])  BY DEF PoolBlocks
  <1>2. PICK j \in DOMAIN pool[l].allocs : b = BlockOf(pool[l].allocs[j])
    BY <1>1 DEF ZoneBlocks
  <1>3. ASSUME NEW k \in DOMAIN pool
        PROVE  /\ pool[k] \in Zone /\ SizedZone(pool[k]) /\ RoomyZone(pool[k])
               /\ pool[k].base \in Nat /\ ZoneLen(pool[k]) \in Nat \ {0}
               /\ ZonePages(pool[k]) = PagesOf(pool[k].base, ZoneLen(pool[k]))
    BY ZoneInMemory
  <1>4. /\ b.ptr = Chunk(pool[l].allocs[j])
        /\ b.ptr \in Nat /\ b.size \in Nat \ {0}
        /\ pool[l].base + ZoneHdr + AllocHdr <= b.ptr
        /\ b.ptr + b.size <= pool[l].base + ZoneLen(pool[l])
    BY <1>1, <1>2, <1>3, BlockInZone DEF BlockOf
  <1> DEFINE S == {k \in DOMAIN pool :
                     /\ pool[k].allocs # << >>
                     /\ b.ptr >= pool[k].base + ZoneHdr + AllocHdr
                     /\ b.ptr < pool[k].base + ZoneMemSize(pool[k].free, pool[k].type)}
  <1>5. FindZone(b.ptr) = FirstOf(S)  BY DEF FindZone
  <1>6. l \in S
    <2>1. pool[l].allocs # << >>  BY EmptySeq, LenProperties
    <2>2. b.ptr < pool[l].base + ZoneMemSize(pool[l].free, pool[l].type)
      BY <1>3, <1>4, EstimateCovers
    <2>3. b.ptr >= pool[l].base + ZoneHdr + AllocHdr
      BY <1>3, <1>4, SizesAssumption
    <2>. QED  BY <2>1, <2>2, <2>3
  <1>7. Len(pool) \in Nat /\ DOMAIN pool = 1..Len(pool)
    BY LenProperties DEF TypeOK
  <1>8. ASSUME NEW k \in S, k < l PROVE FALSE
    <2>1. k \in DOMAIN pool /\ b.ptr >= pool[k].base + ZoneHdr + AllocHdr
      OBVIOUS
    <2>2. pool[k].base > pool[l].base  BY <1>8, <2>1 DEF Descending
    <2>3. ZonePages(pool[k]) \cap ZonePages(pool[l]) = {}
      BY <1>7, <1>8, <2>1 DEF ZonesKept, PoolSound
    <2>4. \/ pool[k].base + ZoneLen(pool[k]) <= pool[l].base
          \/ pool[l].base + ZoneLen(pool[l]) <= pool[k].base
      BY <1>3, <2>1, <2>3, RangesApart
    <2> DEFINE bk == pool[k].base
               bl == pool[l].base
               nk == ZoneLen(pool[k])
               nl == ZoneLen(pool[l])
    <2> HIDE DEF bk, bl, nk, nl
    <2>5. /\ bk \in Nat /\ bl \in Nat /\ nk \in Nat /\ nl \in Nat
          /\ bk > bl /\ (bk + nk <= bl \/ bl + nl <= bk)
          /\ b.ptr >= bk + ZoneHdr + AllocHdr /\ b.ptr + b.size <= bl + nl
      BY <1>3, <1>4, <2>1, <2>2, <2>4 DEF bk, bl, nk, nl
    <2>. QED  BY <1>4, <2>5, SizesAssumption
  <1> HIDE DEF S
  <1>9. FirstOf(S) # {}
    <2>1. S \subseteq 1..Len(pool)  BY <1>7 DEF S
    <2>. QED  BY <1>6, <1>7, <2>1, FirstOfSome
  <1>10. l \in FirstOf(S)
    <2>1. PICK k \in FirstOf(S) : TRUE  BY <1>9
    <2>2. k \in S /\ k <= l /\ k \in Nat /\ l \in Nat
      BY <1>6, <1>7, <2>1 DEF FirstOf, S
    <2>3. k = l  BY <1>8, <2>2
    <2>. QED  BY <2>1, <2>3
  <1>11. FindAlloc(pool[l], b.ptr) # {}
    <2> DEFINE T == {i \in 1..Len(pool[l].allocs) : Chunk(pool[l].allocs[i]) = b.ptr}
    <2>1. /\ Len(pool[l].allocs) \in Nat /\ DOMAIN pool[l].allocs = 1..Len(pool[l].allocs)
      BY <1>3, LenProperties DEF Zone
    <2>2. j \in T /\ T \subseteq 1..Len(pool[l].allocs)  BY <1>4, <2>1
    <2>3. FindAlloc(pool[l], b.ptr) = FirstOf(T)  BY DEF FindAlloc
    <2> HIDE DEF T
    <2>. QED  BY <2>1, <2>2, <2>3, FirstOfSome
  <1>12. PICK i \in FindAlloc(pool[l], b.ptr) : TRUE  BY <1>11
  <1>13. <<l, i>> \in Find(b.ptr)  BY <1>5, <1>10, <1>12 DEF Find
  <1>. QED  BY <1>13

(* A pointer the client holds is found while the zones come in descending  *)
(* order, whichever the free sizes that the estimates are taken from.      *)
THEOREM FoundCorrect ==
  ASSUME SizesAgree, EstimateReaches
  PROVE  Spec => []FoundWhenDescending
  <1>1. TypeOK /\ SizesSound /\ ZonesSound /\ MappedExact /\ OwnersSound
        => FoundWhenDescending
    <2> SUFFICES ASSUME TypeOK, ZonesSized(pool), ZonesKept(pool, mapped, events),
                        OwnersSound, Descending, Clean,
                        NEW i \in Slots, held[i] # NoBlock
                 PROVE  Find(held[i].ptr) # {}
      BY SizesSoundParts, ZonesKeptParts DEF FoundWhenDescending, FindsHeld
    <2>1. held[i] \in PoolBlocks(pool)  BY ListedBlocksOfPool DEF OwnersSound
    <2>. QED  BY <2>1, ZonesKeptParts, DescendingFinds
  <1>. QED
    BY <1>1, TypeCorrect, SizesCorrect, ZonesCorrect, OwnersCorrect, PTL


-----------------------------------------------------------------------------
(* The zones and their lists implement the heap                            *)

(* The moves of the heap, and the one that stands for a call.              *)
Moves == [t \in Threads |-> HeapMoves(t)]

MoveOf(d) ==
  IF d.stage = "finish"
  THEN [moves |-> TRUE, slot |-> d.slot, block |-> NewOf(d)]
  ELSE [moves |-> FALSE]

(* On a clean run each call that finishes is a move.                       *)
LEMMA MovesOfCalls ==
  ASSUME TypeOK, SizesSound, ZonesSound, MappedExact, OwnersSound, Clean
  PROVE  Moves = [t \in Threads |-> MoveOf(calls[t])]
  <1> SUFFICES ASSUME NEW t \in Threads
               PROVE  HeapMoves(t) = MoveOf(calls[t])
    BY DEF Moves
  <1>1. calls[t].stage = "finish" => t \in InFlight
    BY SizesSoundParts, ZonesKeptParts, FinishIsInFlight
  <1>2. t \in InFlight => calls[t].stage = "finish"  BY DEF InFlight
  <1>. QED  BY <1>1, <1>2 DEF HeapMoves, MoveOf, NewOf

(* No move of another call is on the slot of a call.                       *)
LEMMA NotInMove ==
  ASSUME Moves = [t \in Threads |-> MoveOf(calls[t])],
         NEW t \in Threads, NEW i, OnlyCallOn(calls, t, i), calls[t].stage # "finish"
  PROVE  ~TheHeap!InMove(i)
  <1>1. ASSUME NEW u \in Threads, Moves[u].moves, Moves[u].slot = i
        PROVE  FALSE
    <2>1. Moves[u] = MoveOf(calls[u])  OBVIOUS
    <2>2. CASE calls[u].stage = "finish"
      <3>1. u # t /\ calls[u].stage # "idle"  BY <2>2
      <3>2. Moves[u].slot = calls[u].slot  BY <2>1, <2>2 DEF MoveOf
      <3>. QED  BY <1>1, <3>1, <3>2 DEF OnlyCallOn
    <2>3. CASE calls[u].stage # "finish"
      <3>1. ~Moves[u].moves  BY <2>1, <2>3 DEF MoveOf
      <3>. QED  BY <1>1, <3>1
    <2>. QED  BY <2>2, <2>3
  <1>. QED  BY <1>1 DEF TheHeap!InMove, Moves

(* A block that is new among blocks apart is added to the heap.            *)
LEMMA HeapAdds ==
  ASSUME NEW b \in [ptr: Nat, size: Nat \ {0}], b \notin ListedBlocks,
         ListedBlocks' = ListedBlocks \cup {b},
         \A x \in ListedBlocks : x \in [ptr: Nat, size: Nat \ {0}],
         \A x, y \in ListedBlocks' : x # y => Apart(x, y)
  PROVE  TheHeap!Add(b) /\ b \in ListedBlocks'
  <1>1. ASSUME NEW x \in ListedBlocks PROVE ~TheHeap!Meet(b, x)
    <2>1. Apart(b, x) /\ x \in [ptr: Nat, size: Nat \ {0}]  OBVIOUS
    <2>2. /\ b.ptr \in Nat /\ b.size \in Nat /\ x.ptr \in Nat /\ x.size \in Nat
      BY <2>1
    <2>. QED  BY <2>1, <2>2, SizesAssumption DEF Apart, TheHeap!Meet
  <1>. QED  BY <1>1 DEF TheHeap!Add, TheHeap!Block


(* What a program sees of a clean step: an operation of the heap, or       *)
(* nothing.                                                                *)
HeapChange == TheHeap!Operate \/ UNCHANGED <<ListedBlocks, held, Moves>>

LEMMA CallWithoutMove ==
  ASSUME Moves = [u \in Threads |-> MoveOf(calls[u])],
         Moves' = [u \in Threads |-> MoveOf(calls'[u])],
         NEW t \in Threads, NEW d, calls \in [Threads -> Calls],
         calls' = [calls EXCEPT ![t] = d],
         calls[t].stage # "finish", d.stage # "finish"
  PROVE  Moves' = Moves
  <1>1. MoveOf(calls[t]) = MoveOf(d)  BY DEF MoveOf
  <1>2. \A u \in Threads : MoveOf(calls'[u]) = MoveOf(calls[u])  BY <1>1
  <1>. QED  BY <1>2

(* Freeing the block of a slot no realloc is about to return is a free of  *)
(* the heap.                                                               *)
LEMMA HeapFrees ==
  ASSUME SizesAgree, TypeOK, ZonesSized(pool), ZonesKept(pool, mapped, events),
         OwnersKept(PoolBlocks(pool), held, calls, events), CleanOf(events'),
         FindsHeld, Clean,
         Moves = [u \in Threads |-> MoveOf(calls[u])],
         Moves' = [u \in Threads |-> MoveOf(calls'[u])],
         ListedBlocks' = PoolBlocks(pool'),
         NEW t \in Threads, NEW i \in Slots, OnlyCallOn(calls, t, i),
         calls[t].stage # "finish",
         held[i] # NoBlock, FreePtr(held[i].ptr),
         held' = [held EXCEPT ![i] = NoBlock],
         NEW d, d.stage # "finish", calls' = [calls EXCEPT ![t] = d]
  PROVE  HeapChange
  <1>1. /\ Owners(PoolBlocks(pool), held, calls)
        /\ Find(held[i].ptr) = {} \/ PoolBlocks(pool') = PoolBlocks(pool) \ {held[i]}
    BY FreeOwned
  <1>2. Find(held[i].ptr) # {}  BY DEF FindsHeld
  <1>3. held[i] \in ListedBlocks /\ ListedBlocks' = ListedBlocks \ {held[i]}
    BY <1>1, <1>2, ListedBlocksOfPool DEF Owners, SlotsOwn
  <1>4. Moves' = Moves  BY CallWithoutMove DEF TypeOK
  <1>5. ~TheHeap!InMove(i)  BY NotInMove
  <1>6. TheHeap!Free(i)
    BY <1>3, <1>4, <1>5
       DEF TheHeap!Free, TheHeap!Remove, TheHeap!NoBlock, NoBlock, NULL, Moves
  <1>. QED  BY <1>6 DEF HeapChange, TheHeap!Operate


(* Each critical section of a clean run that finds the pointers it looks   *)
(* up is an operation of the heap or nothing a program can tell.           *)
LEMMA HeapSteps ==
  ASSUME SizesAgree, TypeOK, ZonesSized(pool), CallsSized(calls),
         ZonesKept(pool, mapped, events),
         OwnersKept(PoolBlocks(pool), held, calls, events),
         Clean, CleanOf(events), CleanOf(events'), FindsHeld,
         Moves = [u \in Threads |-> MoveOf(calls[u])],
         Moves' = [u \in Threads |-> MoveOf(calls'[u])],
         ListedBlocks' = PoolBlocks(pool'),
         \A x, y \in PoolBlocks(pool') : x # y => Apart(x, y),
         NEW t \in Threads, Step(t)
  PROVE  HeapChange
  <1> DEFINE H == PoolBlocks(pool)
  <1>1. ListedBlocks = H  BY ListedBlocksOfPool
  <1>2. /\ PoolTypeOK /\ held \in [Slots -> Blocks] /\ calls \in [Threads -> Calls]
    BY DEF TypeOK, PoolTypeOK, Blocks
  <1>3. /\ Owners(H, held, calls) /\ NoBlock \notin H
        /\ \A b \in H : b \in [ptr: Nat, size: Nat \ {0}]
        /\ \A b, x \in H : b.ptr = x.ptr => b = x
    BY CleanBlocks DEF OwnersKept
  <1>4. ASSUME calls[t] = Idle, NEW i \in Slots, ~Busy(i)
        PROVE  OnlyCallOn(calls, t, i) /\ calls[t].stage = "idle"
    BY <1>4 DEF OnlyCallOn, Busy, Idle
  <1>5. ASSUME calls[t].stage # "idle"
        PROVE  /\ OnlyCallOn(calls, t, calls[t].slot) /\ calls[t].slot \in Slots
               /\ held[calls[t].slot] # NoBlock => calls[t].old = held[calls[t].slot].ptr
               /\ calls[t].stage \in {"move", "finish"} => held[calls[t].slot] # NoBlock
    BY <1>3, <1>5, SlotOfCall DEF Owners, CallOwns
  <1>6. ASSUME PoolBlocks(pool') = H, held' = held, NEW d, d.stage # "finish",
               calls[t].stage # "finish", calls' = [calls EXCEPT ![t] = d]
        PROVE  HeapChange
    BY <1>1, <1>2, <1>6, CallWithoutMove DEF HeapChange
  <1>7. ASSUME PoolBlocks(pool') = H, held' = held, calls' = calls
        PROVE  HeapChange
    BY <1>1, <1>7 DEF HeapChange
  <1>8. ASSUME NEW o, NEW size \in Nat \ {0}, o.ptr \in Nat,
               [ptr |-> o.ptr, size |-> size] \notin H,
               PoolBlocks(pool') = H \cup {[ptr |-> o.ptr, size |-> size]}
        PROVE  LET b == [ptr |-> o.ptr, size |-> size]
               IN  TheHeap!Add(b) /\ b \in ListedBlocks'
    <2> DEFINE b == [ptr |-> o.ptr, size |-> size]
    <2>1. b \in [ptr: Nat, size: Nat \ {0}]  BY <1>8
    <2>2. b \notin ListedBlocks /\ ListedBlocks' = ListedBlocks \cup {b}
      BY <1>1, <1>8
    <2> HIDE DEF b, H
    <2>3. TheHeap!Add(b) /\ b \in ListedBlocks'
      BY <1>1, <1>3, <2>1, <2>2, HeapAdds
    <2>. QED  BY <2>3 DEF b
  <1> HIDE DEF H
  <1>9. ASSUME NEW i \in Slots, NEW size \in Sizes, Malloc(t, i, size)
        PROVE  HeapChange
    <2> DEFINE req == RoundUp(size)
    <2>1. /\ req \in RoundedSizes /\ req \in Nat \ {0} /\ calls' = calls
          /\ held[i] = NoBlock
          /\ OnlyCallOn(calls, t, i) /\ calls[t].stage = "idle"
      BY <1>4, <1>9, RoundedSizesType DEF Malloc
    <2> HIDE DEF req
    <2>2. ASSUME NEW o \in MallocOutcomes(req), Serve(o),
                 held' = [held EXCEPT ![i] =
                   IF o.ptr = NULL THEN NoBlock ELSE [ptr |-> o.ptr, size |-> req]]
          PROVE  HeapChange
      <3> DEFINE b == [ptr |-> o.ptr, size |-> req]
      <3>1. \/ o.ptr = NULL /\ PoolBlocks(pool') = H
            \/ o.ptr # NULL /\ b \notin H /\ PoolBlocks(pool') = H \cup {b}
        BY <1>2, <2>1, <2>2, ServeEffect DEF H
      <3>2. CASE o.ptr = NULL
        <4>1. held' = held  BY <1>2, <2>1, <2>2, <3>2
        <4>. QED  BY <1>7, <2>1, <3>1, <3>2, <4>1
      <3>3. CASE o.ptr # NULL
        <4>1. o.ptr \in Nat  BY <2>1, <2>2, MallocOutcomesType DEF TypeOK
        <4>2. TheHeap!Add(b) /\ b \in ListedBlocks'
          BY <1>8, <2>1, <3>1, <3>3, <4>1
        <4>3. held' = [held EXCEPT ![i] = b]  BY <2>2, <3>3
        <4> HIDE DEF b
        <4>4. ~TheHeap!InMove(i)  BY <2>1, NotInMove
        <4>5. Moves' = Moves  BY <2>1
        <4>6. TheHeap!Malloc(i)
          BY <2>1, <4>2, <4>3, <4>4, <4>5
             DEF TheHeap!Malloc, TheHeap!NoBlock, NoBlock, NULL, Moves
        <4>. QED  BY <4>6 DEF HeapChange, TheHeap!Operate
      <3>. QED  BY <3>2, <3>3
    <2>3. ASSUME Refuse(t, req), UNCHANGED held PROVE HeapChange
      BY <1>7, <2>1, <2>3 DEF Refuse, H
    <2>. QED  BY <1>9, <2>2, <2>3 DEF Malloc, req
  <1>10. ASSUME NEW i \in Slots, Free(t, i)
         PROVE  HeapChange
    <2> DEFINE d == Idle
    <2>1. /\ held[i] # NoBlock /\ FreePtr(held[i].ptr)
          /\ held' = [held EXCEPT ![i] = NoBlock]
          /\ OnlyCallOn(calls, t, i) /\ calls[t].stage = "idle"
          /\ calls' = [calls EXCEPT ![t] = d] /\ d.stage # "finish"
      BY <1>2, <1>4, <1>10 DEF Free, Idle
    <2>2. calls[t].stage # "finish"  BY <2>1
    <2> HIDE DEF d
    <2>. QED  BY <2>1, <2>2, HeapFrees
  <1>11. ASSUME NEW i \in Slots, ReallocfZero(t, i)
         PROVE  HeapChange
    <2> DEFINE d == [stage |-> "drop", slot |-> i, old |-> held[i].ptr]
    <2>1. /\ held[i] # NoBlock /\ FreePtr(held[i].ptr)
          /\ held' = [held EXCEPT ![i] = NoBlock]
          /\ OnlyCallOn(calls, t, i) /\ calls[t].stage = "idle"
          /\ calls' = [calls EXCEPT ![t] = d] /\ d.stage # "finish"
      BY <1>4, <1>11 DEF ReallocfZero
    <2>2. calls[t].stage # "finish"  BY <2>1
    <2> HIDE DEF d
    <2>. QED  BY <2>1, <2>2, HeapFrees
  <1>12. ASSUME NEW i \in Slots, NEW size \in Sizes, NEW api \in Apis,
                Realloc(t, api, i, size)
         PROVE  HeapChange
    <2> DEFINE req == RoundUp(size)
    <2>1. /\ held[i] # NoBlock /\ calls[t].stage # "finish"
      BY <1>4, <1>12 DEF Realloc
    <2>2. ASSUME NEW loc \in Find(held[i].ptr), FoundAlloc(loc).cap = req,
                 held' = [held EXCEPT ![i].size = req],
                 UNCHANGED <<pool, mapped, calls, lock, status, events>>
          PROVE  HeapChange
      <3>1. held[i] \in H  BY <1>3, <2>1 DEF Owners, SlotsOwn
      <3>2. held[i].size = req
        <4>1. /\ BlockOf(FoundAlloc(loc)) \in H
              /\ BlockOf(FoundAlloc(loc)).ptr = held[i].ptr
              /\ BlockOf(FoundAlloc(loc)).size = req
          BY <1>2, <2>2, FoundBlock DEF H
        <4>. QED  BY <1>3, <3>1, <4>1
      <3>3. held' = held  BY <1>2, <2>2, <3>2 DEF Blocks
      <3>. QED  BY <1>7, <2>2, <3>3 DEF H
    <2>3. CASE events' = events \cup {"shrunk"}
      BY <2>3 DEF CleanOf
    <2>4. ASSUME calls' = [calls EXCEPT ![t] =
                   [stage |-> "move", api |-> api, slot |-> i,
                    old |-> held[i].ptr, size |-> req]],
                 UNCHANGED <<pool, held, events>>
          PROVE  HeapChange
      BY <1>6, <2>1, <2>4 DEF H
    <2>5. Find(held[i].ptr) # {}  BY <2>1 DEF FindsHeld
    <2>. QED  BY <1>12, <2>2, <2>3, <2>4, <2>5 DEF Realloc
  <1>13. ASSUME ReallocMove(t)
         PROVE  HeapChange
    <2> DEFINE i == calls[t].slot
               req == calls[t].size
    <2>1. /\ calls[t].stage = "move"
          /\ req \in RoundedSizes /\ req \in Nat \ {0}
      BY <1>13, RoundedSizesType DEF ReallocMove, CallsSized
    <2>2. OnlyCallOn(calls, t, i) /\ i \in Slots /\ held[i] # NoBlock
      BY <1>5, <2>1
    <2>3. ASSUME GiveUp(t), PoolBlocks(pool') = H, UNCHANGED held
          PROVE  HeapChange
      <3> DEFINE d == IF calls[t].api = "reallocf"
                      THEN [stage |-> "drop", slot |-> i, old |-> calls[t].old]
                      ELSE Idle
      <3>1. d.stage # "finish"  BY DEF Idle
      <3>2. calls' = [calls EXCEPT ![t] = d]  BY <1>2, <2>3 DEF GiveUp
      <3> HIDE DEF d
      <3>. QED  BY <1>6, <2>1, <2>3, <3>1, <3>2
    <2>4. ASSUME NEW o \in MallocOutcomes(req), Serve(o),
                 IF o.ptr = NULL THEN GiveUp(t)
                 ELSE calls' = [calls EXCEPT ![t] =
                        [stage |-> "finish", slot |-> @.slot, old |-> @.old,
                         new |-> o.ptr, size |-> @.size]],
                 UNCHANGED held
          PROVE  HeapChange
      <3> DEFINE b == [ptr |-> o.ptr, size |-> req]
                 d == [stage |-> "finish", slot |-> calls[t].slot,
                       old |-> calls[t].old, new |-> o.ptr, size |-> calls[t].size]
                 m == [moves |-> TRUE, slot |-> i, block |-> b]
      <3>1. \/ o.ptr = NULL /\ PoolBlocks(pool') = H
            \/ o.ptr # NULL /\ b \notin H /\ PoolBlocks(pool') = H \cup {b}
        BY <1>2, <2>1, <2>4, ServeEffect DEF H
      <3>2. CASE o.ptr = NULL
        BY <2>3, <2>4, <3>1, <3>2
      <3>3. CASE o.ptr # NULL
        <4>1. o.ptr \in Nat  BY <2>1, <2>4, MallocOutcomesType DEF TypeOK
        <4>2. TheHeap!Add(b) /\ b \in ListedBlocks'
          BY <1>8, <2>1, <3>1, <3>3, <4>1
        <4>3. calls' = [calls EXCEPT ![t] = d] /\ MoveOf(d) = m
          BY <1>2, <2>4, <3>3 DEF MoveOf, NewOf
        <4>4. m = TheHeap!Moving(i, b)  BY DEF TheHeap!Moving
        <4>5. calls[t].stage # "finish" /\ MoveOf(calls[t]) = TheHeap!NotMoving
          BY <2>1 DEF MoveOf, TheHeap!NotMoving
        <4> HIDE DEF b, d, m, i, req
        <4>6. Moves' = [Moves EXCEPT ![t] = m]  BY <1>2, <4>3
        <4>7. Moves[t] = TheHeap!NotMoving  BY <4>5
        <4>8. ~TheHeap!InMove(i)  BY <2>2, <4>5, NotInMove
        <4>9. TheHeap!ReallocAdd(t, i)
          BY <2>2, <2>4, <4>2, <4>4, <4>6, <4>7, <4>8
             DEF TheHeap!ReallocAdd, TheHeap!NoBlock, NoBlock, NULL, Moves
        <4>. QED  BY <2>2, <4>9 DEF HeapChange, TheHeap!Operate
      <3>. QED  BY <3>2, <3>3
    <2>5. ASSUME Refuse(t, req), GiveUp(t), UNCHANGED held
          PROVE  HeapChange
      BY <2>3, <2>5 DEF Refuse, H
    <2>. QED  BY <1>13, <2>4, <2>5 DEF ReallocMove
  <1>14. ASSUME ReallocFinish(t)
         PROVE  HeapChange
    <2> DEFINE i == calls[t].slot
               b == NewOf(calls[t])
               m == [moves |-> TRUE, slot |-> i, block |-> b]
    <2>1. /\ calls[t].stage = "finish" /\ FreePtr(calls[t].old)
          /\ held' = [held EXCEPT ![i] = b]
          /\ calls' = [calls EXCEPT ![t] = Idle]
      BY <1>14 DEF ReallocFinish, NewOf
    <2>2. i \in Slots /\ held[i] # NoBlock /\ calls[t].old = held[i].ptr
      BY <1>5, <2>1
    <2>3. Find(held[i].ptr) # {}  BY <2>2 DEF FindsHeld
    <2>4. PoolBlocks(pool') = H \ {held[i]}
      BY <2>1, <2>2, <2>3, FreeOwned DEF H
    <2>5. held[i] \in H  BY <1>3, <2>2 DEF Owners, SlotsOwn
    <2>6. Moves[t] = m /\ m.moves /\ m.slot = i /\ m.block = b
      BY <2>1 DEF MoveOf
    <2>7. MoveOf(Idle) = TheHeap!NotMoving
      BY DEF MoveOf, Idle, TheHeap!NotMoving
    <2> HIDE DEF i, b, m
    <2>8. Moves' = [Moves EXCEPT ![t] = TheHeap!NotMoving]
      BY <1>2, <2>1, <2>7
    <2>9. TheHeap!Remove(held[i])
      BY <1>1, <2>4, <2>5 DEF TheHeap!Remove
    <2>10. TheHeap!ReallocRemove(t)
      BY <2>1, <2>6, <2>8, <2>9 DEF TheHeap!ReallocRemove, Moves
    <2>. QED  BY <2>10 DEF HeapChange, TheHeap!Operate
  <1>15. ASSUME ReallocfDrop(t)
         PROVE  HeapChange
    <2> DEFINE i == calls[t].slot
               d == Idle
    <2>1. /\ calls[t].stage = "drop" /\ held' = [held EXCEPT ![i] = NoBlock]
          /\ calls' = [calls EXCEPT ![t] = d] /\ d.stage # "finish"
      BY <1>15 DEF ReallocfDrop, Idle
    <2>2. OnlyCallOn(calls, t, i) /\ i \in Slots /\ calls[t].stage # "finish"
      BY <1>5, <2>1
    <2> HIDE DEF d
    <2>3. CASE held[i] # NoBlock
      <3>1. calls[t].old = held[i].ptr  BY <1>5, <2>1, <2>3
      <3>2. FreePtr(held[i].ptr)
        <4>1. \/ /\ \E loc \in Find(calls[t].old) : Release(loc[1], loc[2])
                 /\ events' = events \cup LeftMapped \cup {}
                 /\ UNCHANGED lock
              \/ Find(calls[t].old) = {} /\ Missed
          BY <1>15, <2>3 DEF ReallocfDrop
        <4>. QED  BY <3>1, <4>1 DEF FreePtr
      <3> HIDE DEF i
      <3>. QED  BY <2>1, <2>2, <2>3, <3>2, HeapFrees
    <2>4. CASE held[i] = NoBlock
      <3>1. Missed
        BY <1>15, <2>4 DEF ReallocfDrop, CleanOf
      <3>2. held' = held  BY <1>2, <2>1, <2>4
      <3>. QED  BY <1>6, <2>1, <2>2, <3>1, <3>2 DEF Missed, H
    <2>. QED  BY <2>3, <2>4
  <1>. QED
    BY <1>9, <1>10, <1>11, <1>12, <1>13, <1>14, <1>15 DEF Step


(* The history of exceptional paths only grows.                            *)
LEMMA HistoryGrows ==
  ASSUME NEW t \in Threads, Step(t)
  PROVE  events \subseteq events'
  <1>1. /\ \A o : Serve(o) => events \subseteq events'
        /\ \A size : Refuse(t, size) => events \subseteq events'
        /\ \A ptr : FreePtr(ptr) => events \subseteq events'
        /\ Missed => events \subseteq events'
    BY DEF Serve, Refuse, FreePtr, Missed
  <1>2. ASSUME NEW i \in Slots, NEW size \in Sizes, Malloc(t, i, size)
        PROVE  events \subseteq events'
    BY <1>1, <1>2 DEF Malloc
  <1>3. ASSUME NEW i \in Slots, Free(t, i) \/ ReallocfZero(t, i)
        PROVE  events \subseteq events'
    BY <1>1, <1>3 DEF Free, ReallocfZero
  <1>4. ASSUME NEW i \in Slots, NEW size \in Sizes, NEW api \in Apis,
               Realloc(t, api, i, size)
        PROVE  events \subseteq events'
    BY <1>1, <1>4 DEF Realloc
  <1>5. ReallocMove(t) => events \subseteq events'  BY <1>1 DEF ReallocMove
  <1>6. ReallocFinish(t) => events \subseteq events'  BY <1>1 DEF ReallocFinish
  <1>7. ReallocfDrop(t) => events \subseteq events'  BY <1>1 DEF ReallocfDrop
  <1>. QED  BY <1>2, <1>3, <1>4, <1>5, <1>6, <1>7 DEF Step

(* The zones and their lists implement the heap: each critical section of  *)
(* malloc, free, realloc and reallocf adds one block that is clear of all  *)
(* others, removes the block it was asked to remove, or changes nothing    *)
(* that a program can tell, as long as the pointers the program holds are  *)
(* found.                                                                  *)
THEOREM HeapImplemented ==
  ASSUME SizesAgree
  PROVE  Spec /\ []FindsHeld => ImplementsHeap
  <1> DEFINE Inv ==
        /\ TypeOK /\ SizesSound /\ ZonesSound /\ MappedExact
        /\ OwnersSound /\ NothingLost /\ OwnedSafe
      View ==
        /\ ListedBlocks = PoolBlocks(pool)
        /\ Clean <=> CleanOf(events)
        /\ Clean =>
             /\ Moves = [u \in Threads |-> MoveOf(calls[u])]
             /\ \A x, y \in PoolBlocks(pool) : x # y => Apart(x, y)
             /\ ~Trampled
  <1>1. Inv => View
    <2> SUFFICES ASSUME Inv PROVE View
      OBVIOUS
    <2>1. ListedBlocks = PoolBlocks(pool) /\ (Clean <=> CleanOf(events))
      BY ListedBlocksOfPool, ZonesKeptParts
    <2>2. Clean => \A x, y \in PoolBlocks(pool) : x # y => Apart(x, y)
      BY <2>1, SizesSoundParts, ZonesKeptParts, CleanBlocks
    <2>3. Clean => Moves = [u \in Threads |-> MoveOf(calls[u])]
      BY MovesOfCalls
    <2>. QED  BY <2>1, <2>2, <2>3 DEF OwnedSafe
  <1>2. (Inv => View)'  BY <1>1, PTL
  <1>3. Init /\ Inv => TheHeap!Init
    <2> SUFFICES ASSUME Init, Inv PROVE TheHeap!Init
      OBVIOUS
    <2>1. DOMAIN << >> = {}  BY EmptySeq, LenProperties
    <2>2. ListedBlocks = {}  BY <2>1 DEF Init, ListedBlocks, ListedAllocs
    <2>3. Clean  BY DEF Init, Clean
    <2>4. ~Trampled  BY <1>1, <2>3
    <2>5. InFlight = {}  BY DEF Init, InFlight, Idle
    <2>. QED
      BY <2>2, <2>3, <2>4, <2>5
         DEF Init, TheHeap!Init, TheHeap!NoBlock, NoBlock, NULL,
             TheHeap!NotMoving, HeapMoves
  <1>4. Inv /\ Inv' /\ FindsHeld /\ [Next]_vars
        => [TheHeap!Next]_(TheHeap!vars)
    <2> SUFFICES ASSUME Inv, Inv', FindsHeld, [Next]_vars
                 PROVE  [TheHeap!Next]_(TheHeap!vars)
      OBVIOUS
    <2>1. CASE UNCHANGED vars
      <3>1. /\ ListedBlocks' = ListedBlocks /\ held' = held /\ Moves' = Moves
            /\ (~Clean \/ Trampled)' = (~Clean \/ Trampled)
        BY <2>1
           DEF vars, ListedBlocks, ListedAllocs, Moves, HeapMoves, InFlight, Clean,
               Trampled, Headers, Owned, Backed
      <3>. QED  BY <3>1 DEF TheHeap!vars, Moves
    <2>2. CASE (~Clean \/ Trampled)'  BY <2>2 DEF TheHeap!Next
    <2>3. CASE Next /\ ~(~Clean \/ Trampled)'
      <3>1. ~Trampled  BY <2>3 DEF Next, Runnable
      <3>2. PICK t \in Threads : Step(t)  BY <2>3 DEF Next
      <3>3. events \subseteq events'
        BY <3>2, HistoryGrows
      <3>4. View /\ View'  BY <1>1, <1>2
      <3>5. Clean' /\ CleanOf(events') /\ CleanOf(events) /\ Clean
        BY <2>3, <3>3, <3>4 DEF CleanOf, Clean
      <3>6. /\ ZonesSized(pool) /\ CallsSized(calls)
            /\ ZonesKept(pool, mapped, events)
            /\ OwnersKept(PoolBlocks(pool), held, calls, events)
        BY SizesSoundParts, ZonesKeptParts, OwnersKeptParts
      <3>7. /\ Moves = [u \in Threads |-> MoveOf(calls[u])]
            /\ Moves' = [u \in Threads |-> MoveOf(calls'[u])]
            /\ ListedBlocks' = PoolBlocks(pool')
            /\ \A x, y \in PoolBlocks(pool') : x # y => Apart(x, y)
        BY <3>4, <3>5
      <3>8. HeapChange  BY <3>2, <3>5, <3>6, <3>7, HeapSteps
      <3>9. CASE TheHeap!Operate
        BY <2>3, <3>1, <3>5, <3>9 DEF TheHeap!Next
      <3>10. CASE UNCHANGED <<ListedBlocks, held, Moves>>
        <4>1. (~Clean \/ Trampled)' = (~Clean \/ Trampled)
          BY <2>3, <3>1, <3>5
        <4>. QED  BY <3>10, <4>1 DEF TheHeap!vars, Moves
      <3>. QED  BY <3>8, <3>9, <3>10 DEF HeapChange
    <2>. QED  BY <2>1, <2>2, <2>3
  <1>. QED
    BY <1>3, <1>4, TypeCorrect, SizesCorrect, ZonesCorrect, OwnersCorrect,
       OwnedSafeCorrect, PTL
       DEF Spec, ImplementsHeap, TheHeap!Spec

(* They implement it as long as the kernel hands out zones downwards.      *)
THEOREM HeapImplementedDescending ==
  ASSUME SizesAgree, EstimateReaches
  PROVE  Spec /\ []Descending => ImplementsHeap
  BY HeapImplemented, FoundCorrect, PTL DEF FoundWhenDescending


(* What follows from the heap's specification holds of the zones.          *)
HeapFacts == INSTANCE HeapProofs WITH
  heap   <- ListedBlocks,
  moving <- [t \in Threads |-> HeapMoves(t)],
  broken <- ~Clean \/ Trampled

(* While the pointers the program holds are found, no listed block is      *)
(* lost, none is held twice and none overlaps another: also after the      *)
(* second free of a reallocf has been refused.                             *)
THEOREM HeapPromisesKept ==
  ASSUME SizesAgree
  PROVE  Spec /\ []FindsHeld
           => [](TheHeap!HeapIsHeld /\ TheHeap!BlocksApart /\ TheHeap!HeldOnce)
  <1>1. HeapFacts!Spec
          => [](HeapFacts!HeapIsHeld /\ HeapFacts!BlocksApart /\ HeapFacts!HeldOnce)
    BY HeapFacts!HeapKeepsPromises
  <1>2. TheHeap!Init => HeapFacts!Init
    BY DEF TheHeap!Init, HeapFacts!Init, TheHeap!NoBlock, HeapFacts!NoBlock,
           TheHeap!NotMoving, HeapFacts!NotMoving
  <1>3. [TheHeap!Next]_(TheHeap!vars) => [HeapFacts!Next]_(HeapFacts!vars)
    BY DEF TheHeap!vars, HeapFacts!vars, TheHeap!Next, HeapFacts!Next,
           TheHeap!Operate, HeapFacts!Operate,
           TheHeap!Malloc, HeapFacts!Malloc, TheHeap!Free, HeapFacts!Free,
           TheHeap!ReallocAdd, HeapFacts!ReallocAdd,
           TheHeap!ReallocRemove, HeapFacts!ReallocRemove,
           TheHeap!Add, HeapFacts!Add, TheHeap!Remove, HeapFacts!Remove,
           TheHeap!Meet, HeapFacts!Meet, TheHeap!Block, HeapFacts!Block,
           TheHeap!InMove, HeapFacts!InMove, TheHeap!Moving, HeapFacts!Moving,
           TheHeap!NoBlock, HeapFacts!NoBlock,
           TheHeap!NotMoving, HeapFacts!NotMoving
  <1>4. HeapFacts!HeapIsHeld /\ HeapFacts!BlocksApart /\ HeapFacts!HeldOnce
        => TheHeap!HeapIsHeld /\ TheHeap!BlocksApart /\ TheHeap!HeldOnce
    BY DEF TheHeap!HeapIsHeld, HeapFacts!HeapIsHeld,
           TheHeap!BlocksApart, HeapFacts!BlocksApart,
           TheHeap!HeldOnce, HeapFacts!HeldOnce,
           TheHeap!HeldBlocks, HeapFacts!HeldBlocks,
           TheHeap!MovingBlocks, HeapFacts!MovingBlocks,
           TheHeap!NoBlock, HeapFacts!NoBlock, TheHeap!Meet, HeapFacts!Meet
  <1>. QED
    BY <1>1, <1>2, <1>3, <1>4, HeapImplemented, PTL
       DEF ImplementsHeap, TheHeap!Spec, HeapFacts!Spec


(* Only the second free of reallocf adds to the history that a block was   *)
(* freed twice, when it finds one.                                         *)
LEMMA TwiceByDrop ==
  ASSUME NEW t \in Threads, Step(t), "twice" \notin events, "twice" \in events'
  PROVE  /\ ReallocfDrop(t)
         /\ \E loc \in Find(calls[t].old) : TRUE
  <1>1. /\ \A o : Serve(o) => "twice" \notin events'
        /\ \A size : Refuse(t, size) => "twice" \notin events'
        /\ \A ptr : FreePtr(ptr) => "twice" \notin events'
        /\ Missed => "twice" \notin events'
    BY DEF Serve, Refuse, FreePtr, Missed, LeftMapped
  <1>2. ASSUME NEW i \in Slots, NEW size \in Sizes, Malloc(t, i, size)
        PROVE  FALSE
    BY <1>1, <1>2 DEF Malloc
  <1>3. ASSUME NEW i \in Slots, Free(t, i) \/ ReallocfZero(t, i)
        PROVE  FALSE
    BY <1>1, <1>3 DEF Free, ReallocfZero
  <1>4. ASSUME NEW i \in Slots, NEW size \in Sizes, NEW api \in Apis,
               Realloc(t, api, i, size)
        PROVE  FALSE
    BY <1>1, <1>4 DEF Realloc
  <1>5. ~ReallocMove(t)  BY <1>1 DEF ReallocMove
  <1>6. ~ReallocFinish(t)  BY <1>1 DEF ReallocFinish
  <1>7. ReallocfDrop(t)  BY <1>2, <1>3, <1>4, <1>5, <1>6 DEF Step
  <1>. QED  BY <1>1, <1>7 DEF ReallocfDrop

(* The second free of reallocf finds something to free only if the address *)
(* has been handed out again since the first: nobody but the new owner     *)
(* loses a block by it.                                                    *)
THEOREM SecondFreeCorrect ==
  ASSUME SizesAgree
  PROVE  Spec /\ []FindsHeld => SecondFreeTakesReissued
  <1> DEFINE Reissued ==
        Clean /\ "twice" \in events' =>
          \E t \in Threads :
            /\ calls[t].stage = "drop" /\ calls'[t] = Idle
            /\ \E o \in Owned : o[2].ptr = calls[t].old
  <1>1. TypeOK /\ TheHeap!HeapIsHeld /\ [Next]_vars => [Reissued]_vars
    <2> SUFFICES ASSUME TypeOK, TheHeap!HeapIsHeld, Next, Clean, "twice" \in events'
                 PROVE  \E t \in Threads :
                          /\ calls[t].stage = "drop" /\ calls'[t] = Idle
                          /\ \E o \in Owned : o[2].ptr = calls[t].old
      OBVIOUS
    <2>1. PICK t \in Threads : Step(t)  BY DEF Next
    <2>2. "twice" \notin events  BY DEF Clean
    <2>3. ReallocfDrop(t)  BY <2>1, <2>2, TwiceByDrop
    <2>4. PICK loc \in Find(calls[t].old) : TRUE  BY <2>1, <2>2, TwiceByDrop
    <2>5. calls[t].stage = "drop" /\ calls'[t] = Idle
      BY <2>3 DEF ReallocfDrop, TypeOK
    <2> DEFINE b == BlockOf(FoundAlloc(loc))
    <2>6. b \in ListedBlocks /\ b.ptr = calls[t].old
      BY FoundBlock, ListedBlocksOfPool DEF TypeOK, PoolTypeOK
    <2> HIDE DEF b
    <2>7. ~Trampled  BY DEF Next, Runnable
    <2>8. b \in TheHeap!HeldBlocks \/ b \in TheHeap!MovingBlocks
      BY <2>6, <2>7 DEF TheHeap!HeapIsHeld
    <2>9. CASE b \in TheHeap!HeldBlocks
      <3>1. PICK i \in Slots : held[i] = b /\ held[i] # NoBlock
        BY <2>9 DEF TheHeap!HeldBlocks, TheHeap!NoBlock, NoBlock, NULL
      <3>2. <<i, b>> \in Owned  BY <3>1 DEF Owned
      <3>. QED  BY <2>5, <2>6, <3>2
    <2>10. CASE b \in TheHeap!MovingBlocks
      <3>1. PICK u \in Threads : HeapMoves(u).moves /\ HeapMoves(u).block = b
        BY <2>10 DEF TheHeap!MovingBlocks
      <3>2. u \in InFlight /\ b = [ptr |-> calls[u].new, size |-> calls[u].size]
        BY <3>1 DEF HeapMoves
      <3>3. <<u, b>> \in Owned  BY <3>2 DEF Owned
      <3>. QED  BY <2>5, <2>6, <3>3
    <2>. QED  BY <2>8, <2>9, <2>10
  <1>. QED
    BY <1>1, TypeCorrect, HeapPromisesKept, PTL DEF Spec, SecondFreeTakesReissued
=============================================================================
