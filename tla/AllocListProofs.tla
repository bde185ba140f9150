--------------------------- MODULE AllocListProofs ---------------------------
(***************************************************************************)
(* What rounding and zone lengths return, and what the operations on a     *)
(* zone's allocation list return and preserve, for every value of the      *)
(* constants of ZoneSizes.                                                 *)
(***************************************************************************)
EXTENDS AllocList, TLAPS, FiniteSetTheorems, SequenceTheorems

-----------------------------------------------------------------------------
(* Rounding and zone lengths                                               *)

(* Rounding down to a multiple of b loses less than b.                   *)
LEMMA DivBounds ==
  ASSUME NEW a \in Nat, NEW b \in Nat \ {0}
  PROVE  /\ a \div b \in Nat
         /\ b * (a \div b) \in Nat
         /\ b * (a \div b) <= a
         /\ a < b * (a \div b) + b
  OBVIOUS

(* A multiple of b and less than b more is divided exactly.              *)
LEMMA DivOfMultiple ==
  ASSUME NEW n \in Nat, NEW b \in Nat \ {0}, NEW x \in Nat, x < b
  PROVE  (b * n + x) \div b = n
  <1> DEFINE q == (b * n + x) \div b
  <1>1. b * n \in Nat /\ b * n + x \in Nat  OBVIOUS
  <1>2. q \in Nat /\ b * q \in Nat /\ b * q <= b * n + x /\ b * n + x < b * q + b
    BY <1>1, DivBounds
  <1> HIDE DEF q
  <1>3. CASE q < n
    <2>1. PICK d \in Nat : n = q + 1 + d
      <3>1. n - q - 1 \in Nat /\ n = q + 1 + (n - q - 1)  BY <1>2, <1>3
      <3>. QED  BY <3>1
    <2>2. b * n = b * q + b + b * d /\ b * d \in Nat  BY <1>2, <2>1
    <2>. QED  BY <1>1, <1>2, <2>2
  <1>4. CASE q > n
    <2>1. PICK d \in Nat : q = n + 1 + d
      <3>1. q - n - 1 \in Nat /\ q = n + 1 + (q - n - 1)  BY <1>2, <1>4
      <3>. QED  BY <3>1
    <2>2. b * q = b * n + b + b * d /\ b * d \in Nat  BY <2>1
    <2>. QED  BY <1>1, <1>2, <2>2
  <1>5. CASE q = n  BY <1>5 DEF q
  <1>. QED  BY <1>2, <1>3, <1>4, <1>5

(* size = (size + 15) & ~15 gives a natural number no smaller than size, *)
(* and never 0 for a request that is not 0.                              *)
LEMMA RoundUpBounds ==
  ASSUME NEW size \in Nat
  PROVE  /\ RoundUp(size) \in Nat
         /\ RoundUp(size) >= size
  <1>1. size + Align - 1 \in Nat  BY SizesAssumption
  <1>2. Align * ((size + Align - 1) \div Align) \in Nat
        /\ size + Align - 1 < Align * ((size + Align - 1) \div Align) + Align
    BY <1>1, DivBounds, SizesAssumption
  <1>. QED  BY <1>1, <1>2, SizesAssumption DEF RoundUp

(* Every size has a zone class.                                          *)
LEMMA ZoneTypeIsType ==
  ASSUME NEW size PROVE SetZoneType(size) \in ZoneTypes
  BY DEF SetZoneType, ZoneTypes

(* A zone is long enough for its own header and, if it is large, for the *)
(* block it is made for.                                                 *)
LEMMA ZoneMemSizeBounds ==
  ASSUME NEW size \in Nat, NEW type \in ZoneTypes
  PROVE  /\ ZoneMemSize(size, type) \in Nat
         /\ ZoneMemSize(size, type) >= ZoneHdr
         /\ type = "large" =>
              ZoneMemSize(size, type) >= size + AllocHdr + ZoneHdr
  <1>1. ASSUME NEW n \in Nat \ {0}
        PROVE  /\ Page * ((n * Page + size + ZoneHdr) \div Page) \in Nat
               /\ Page * ((n * Page + size + ZoneHdr) \div Page) >= ZoneHdr
    <2>1. n * Page \in Nat /\ n * Page >= Page  BY <1>1, SizesAssumption
    <2>2. n * Page + size + ZoneHdr \in Nat  BY <2>1, SizesAssumption
    <2>. QED  BY <2>1, <2>2, DivBounds, SizesAssumption
  <1>2. size + AllocHdr + ZoneHdr + Page - 1 \in Nat  BY SizesAssumption
  <1>3. /\ Page * ((size + AllocHdr + ZoneHdr + Page - 1) \div Page) \in Nat
        /\ Page * ((size + AllocHdr + ZoneHdr + Page - 1) \div Page)
             >= size + AllocHdr + ZoneHdr
    BY <1>2, DivBounds, SizesAssumption
  <1>. QED  BY <1>1, <1>3, SizesAssumption DEF ZoneMemSize, ZoneTypes

-----------------------------------------------------------------------------
(* Finite sets of numbers                                                  *)

(* A finite set of integers that is not empty has its maximum in it.  By *)
(* contradiction: a smallest set without one stays non-empty when any    *)
(* element is taken away, and the rest has one.                          *)
LEMMA MaxOfFinite ==
  ASSUME NEW S \in SUBSET Int, IsFiniteSet(S), S # {}
  PROVE  Max(S) \in S /\ \A y \in S : Max(S) >= y
  <1> DEFINE HasMax(T) == \E x \in T : \A y \in T : x >= y
             Bad == {T \in FiniteSubsetsOf(S) : T # {} /\ ~HasMax(T)}
  <1>1. SUFFICES ASSUME Bad # {} PROVE FALSE
    <2>1. S \in FiniteSubsetsOf(S)  BY DEF FiniteSubsetsOf
    <2>2. CASE Bad = {}
      <3>1. PICK x \in S : \A y \in S : x >= y  BY <2>1, <2>2
      <3>. QED  BY <3>1 DEF Max
    <2>. QED  BY <2>2
  <1>2. PICK T \in Bad : \A U \in Bad : <<U, T>> \notin StrictSubsetOrdering(S)
    <2>1. Bad \subseteq FiniteSubsetsOf(S)  OBVIOUS
    <2>. QED  BY <1>1, <2>1, FS_StrictSubsetOrderingWellFounded, WFMin
  <1>3. T \in SUBSET S /\ IsFiniteSet(T) /\ T # {} /\ ~HasMax(T)
    BY <1>2 DEF FiniteSubsetsOf
  <1>4. PICK x \in T : TRUE  BY <1>3
  <1> DEFINE U == T \ {x}
  <1>5. U \in FiniteSubsetsOf(S)
    BY <1>3, FS_Subset DEF FiniteSubsetsOf
  <1>6. <<U, T>> \in StrictSubsetOrdering(S)
    BY <1>3, <1>4 DEF StrictSubsetOrdering
  <1>7. U = {} \/ HasMax(U)  BY <1>2, <1>5, <1>6
  <1>8. CASE U = {}
    BY <1>3, <1>4, <1>8
  <1>9. CASE HasMax(U)
    <2>1. PICK m \in U : \A y \in U : m >= y  BY <1>9
    <2>2. m \in Int /\ x \in Int /\ \A y \in T : y \in Int  BY <1>3, <2>1, <1>4
    <2>3. CASE m >= x  BY <2>1, <2>2, <2>3, <1>3
    <2>4. CASE x >= m  BY <2>1, <2>2, <2>4, <1>3, <1>4
    <2>. QED  BY <2>2, <2>3, <2>4
  <1>. QED  BY <1>7, <1>8, <1>9

(* Among finitely many list positions there is a first.                    *)
LEMMA FirstOfSome ==
  ASSUME NEW n \in Nat, NEW S \in SUBSET (1..n), S # {}
  PROVE  FirstOf(S) # {}
  <1> DEFINE T == {-i : i \in S}
             f == [i \in S |-> -i]
  <1>1. IsFiniteSet(S)
    <2>1. IsFiniteSet(1..n)  BY FS_Interval
    <2>. QED  BY <2>1, FS_Subset
  <1>2. f \in Surjection(S, T)
    <2>1. f \in [S -> T]  OBVIOUS
    <2>2. \A x \in T : \E i \in S : f[i] = x  OBVIOUS
    <2>. QED  BY <2>1, <2>2 DEF Surjection
  <1>3. IsFiniteSet(T)  BY <1>1, <1>2, FS_Surjection
  <1>4. T \in SUBSET Int /\ T # {}
    <2>1. \A i \in S : -i \in Int /\ -i \in T  OBVIOUS
    <2>2. T \subseteq Int  BY <2>1
    <2>3. PICK i \in S : TRUE  OBVIOUS
    <2>4. T # {}  BY <2>1, <2>3
    <2>. QED  BY <2>2, <2>4
  <1>5. Max(T) \in T /\ \A y \in T : Max(T) >= y
    BY <1>3, <1>4, MaxOfFinite
  <1>6. PICK i \in S : Max(T) = -i  BY <1>5
  <1>7. \A m \in S : i <= m
    <2> SUFFICES ASSUME NEW m \in S PROVE i <= m  OBVIOUS
    <2>1. -i >= -m  BY <1>5, <1>6
    <2>. QED  BY <2>1
  <1>. QED  BY <1>7 DEF FirstOf

(* A block ends behind its own header.                                   *)
LEMMA AllocAddresses ==
  ASSUME NEW a \in Alloc
  PROVE  /\ a.at \in Nat /\ a.prev \in Nat /\ a.size \in Nat
         /\ End(a) \in Nat /\ End(a) > a.at /\ End(a) >= a.at + AllocHdr
  BY SizesAssumption DEF Alloc, End, Chunk

(* The gaps of a list are finitely many integers.                        *)
LEMMA GapsFinite ==
  ASSUME NEW allocs \in Seq(Alloc), allocs # << >>, NEW limit \in Int
  PROVE  Gaps(allocs, limit) \subseteq Int /\ IsFiniteSet(Gaps(allocs, limit))
  <1> DEFINE n == Len(allocs)
             gap(i) == allocs[i + 1].at - End(allocs[i])
             f == [i \in 1..(n - 1) |-> gap(i)]
             G == {gap(i) : i \in 1..(n - 1)}
             last == limit - End(allocs[n])
  <1>1. n \in Nat \ {0} /\ \A i \in 1..n : allocs[i] \in Alloc
    BY EmptySeq, ElementOfSeq
  <1>2. \A i \in 1..n : allocs[i].at \in Nat /\ End(allocs[i]) \in Nat
    BY <1>1, AllocAddresses
  <1>3. f \in Surjection(1..(n - 1), G)
    <2> HIDE DEF gap, n
    <2>1. f \in [1..(n - 1) -> G]  OBVIOUS
    <2>2. \A t \in G : \E s \in 1..(n - 1) : f[s] = t  OBVIOUS
    <2>. QED  BY <2>1, <2>2 DEF Surjection
  <1>4. IsFiniteSet(G)
    <2>1. IsFiniteSet(1..(n - 1))  BY <1>1, FS_Interval
    <2>. QED  BY <2>1, <1>3, FS_Surjection
  <1>5. IsFiniteSet(G \cup {last})
    <2> HIDE DEF G, last
    <2>. QED  BY <1>4, FS_AddElement
  <1>6. G \subseteq Int
    <2>1. ASSUME NEW i \in 1..(n - 1) PROVE gap(i) \in Int
      <3>1. i \in 1..n /\ i + 1 \in 1..n  BY <1>1
      <3>. QED  BY <1>2, <3>1
    <2>. QED  BY <2>1
  <1>7. last \in Int
    <2>1. n \in 1..n  BY <1>1
    <2>. QED  BY <1>2, <2>1
  <1>. QED  BY <1>5, <1>6, <1>7 DEF Gaps

(* _update_free_mem_size leaves a natural number in free_mem_size and    *)
(* changes nothing else of the zone but its list.                        *)
LEMMA UpdateFreeMemSizeType ==
  ASSUME NEW z \in Zone, NEW allocs \in Seq(Alloc),
         NEW zoneSize \in Nat, zoneSize >= ZoneHdr
  PROVE  /\ UpdateFreeMemSize(z, allocs, zoneSize) \in Zone
         /\ UpdateFreeMemSize(z, allocs, zoneSize).base = z.base
         /\ UpdateFreeMemSize(z, allocs, zoneSize).type = z.type
         /\ UpdateFreeMemSize(z, allocs, zoneSize).allocs = allocs
  <1> DEFINE gaps == Gaps(allocs, z.base + zoneSize) \cup {0}
  <1>1. ASSUME allocs # << >> PROVE Max(gaps) \in Nat
    <2>1. z.base + zoneSize \in Int  BY DEF Zone
    <2>2. gaps \in SUBSET Int /\ IsFiniteSet(gaps) /\ 0 \in gaps
      <3>1. /\ Gaps(allocs, z.base + zoneSize) \subseteq Int
            /\ IsFiniteSet(Gaps(allocs, z.base + zoneSize))
        BY <1>1, <2>1, GapsFinite
      <3>2. IsFiniteSet(gaps)  BY <3>1, FS_AddElement
      <3>3. gaps \in SUBSET Int /\ 0 \in gaps  BY <3>1
      <3>. QED  BY <3>2, <3>3
    <2> HIDE DEF gaps
    <2>3. Max(gaps) \in gaps /\ \A y \in gaps : Max(gaps) >= y
      BY <2>2, MaxOfFinite
    <2>4. Max(gaps) \in Int /\ Max(gaps) >= 0  BY <2>2, <2>3
    <2>. QED  BY <2>4
  <1>2. zoneSize - ZoneHdr \in Nat  BY SizesAssumption
  <1>. QED  BY <1>1, <1>2 DEF UpdateFreeMemSize, Zone

-----------------------------------------------------------------------------
(* Placing a block                                                       *)

(* A header filled in by _set_new_alloc is a header.                     *)
LEMMA NewAllocType ==
  ASSUME NEW at \in Nat, NEW prev \in Nat, NEW size \in Nat
  PROVE  NewAlloc(at, prev, size) \in Alloc
  BY DEF NewAlloc, Alloc

(* Where there is room for a header there is room further out.           *)
LEMMA RoomFurtherOut ==
  ASSUME NEW a \in Nat, NEW b \in Nat, NEW c \in Nat
  PROVE  /\ a + AllocHdr <= b /\ b <= c => a + AllocHdr <= c /\ a # c
         /\ a <= b /\ b + AllocHdr <= c => a + AllocHdr <= c /\ a # c
  BY SizesAssumption

(* No block of a sorted list lies below one that is listed earlier.      *)
LEMMA LaterNotBelow ==
  ASSUME NEW z \in Zone, Sorted(z), NEW i \in 1..Len(z.allocs),
         NEW m \in 1..Len(z.allocs), i <= m
  PROVE  /\ z.allocs[i].at \in Nat /\ z.allocs[m].at \in Nat
         /\ z.allocs[i].at <= z.allocs[m].at
         /\ i # m => z.allocs[i].at < z.allocs[m].at
  <1>1. /\ DOMAIN z.allocs = 1..Len(z.allocs)
        /\ z.allocs[i] \in Alloc /\ z.allocs[m] \in Alloc
    BY LenProperties, ElementOfSeq DEF Zone
  <1>2. z.allocs[i].at \in Nat /\ z.allocs[m].at \in Nat
    BY <1>1, AllocAddresses
  <1>3. CASE i = m  BY <1>2, <1>3
  <1>4. CASE i # m
    <2>1. i < m  BY <1>4
    <2>2. z.allocs[i].at < z.allocs[m].at  BY <1>1, <2>1 DEF Sorted
    <2>. QED  BY <1>2, <2>2
  <1>. QED  BY <1>3, <1>4

(* The list after a block was put in front of it, element by element.    *)
LEMMA PlaceFrontList ==
  ASSUME NEW z \in Zone, NEW size \in Nat
  PROVE  LET p == PlaceFront(z, size)
         IN  /\ p.at = FirstSlot(z) /\ p.at \in Nat
             /\ p.allocs \in Seq(Alloc)
             /\ Len(p.allocs) = Len(z.allocs) + 1
             /\ p.allocs[1] = NewAlloc(FirstSlot(z), NULL, size)
             /\ \A i \in 1..Len(z.allocs) :
                  /\ p.allocs[i + 1].at = z.allocs[i].at
                  /\ p.allocs[i + 1].size = z.allocs[i].size
                  /\ p.allocs[i + 1].cap = z.allocs[i].cap
                  /\ p.allocs[i + 1].prev =
                       IF i = 1 THEN FirstSlot(z) ELSE z.allocs[i].prev
  <1> DEFINE new == NewAlloc(FirstSlot(z), NULL, size)
             rest == IF z.allocs = << >> THEN << >>
                     ELSE [z.allocs EXCEPT ![1].prev = FirstSlot(z)]
  <1>1. z.allocs \in Seq(Alloc) /\ FirstSlot(z) \in Nat
    BY SizesAssumption DEF Zone, FirstSlot
  <1>2. new \in Alloc  BY <1>1, NewAllocType DEF NULL
  <1>3. /\ rest \in Seq(Alloc)
        /\ Len(rest) = Len(z.allocs)
        /\ \A i \in 1..Len(z.allocs) :
             /\ rest[i].at = z.allocs[i].at
             /\ rest[i].size = z.allocs[i].size
             /\ rest[i].cap = z.allocs[i].cap
             /\ rest[i].prev =
                  IF i = 1 THEN FirstSlot(z) ELSE z.allocs[i].prev
    <2>1. CASE z.allocs = << >>
      BY <2>1, EmptySeq
    <2>2. CASE z.allocs # << >>
      <3> DEFINE first == [z.allocs[1] EXCEPT !.prev = FirstSlot(z)]
      <3>1. 1 \in 1..Len(z.allocs)  BY <1>1, <2>2, EmptySeq
      <3>2. z.allocs[1] \in Alloc  BY <1>1, <3>1, ElementOfSeq
      <3>3. first \in Alloc /\ first.at = z.allocs[1].at
            /\ first.size = z.allocs[1].size /\ first.prev = FirstSlot(z)
            /\ first.cap = z.allocs[1].cap
        BY <1>1, <3>2 DEF Alloc
      <3>4. rest = [z.allocs EXCEPT ![1] = first]  BY <2>2
      <3>. QED  BY <1>1, <3>1, <3>3, <3>4, ExceptSeq
    <2>. QED  BY <2>1, <2>2
  <1>4. PlaceFront(z, size) = [at |-> FirstSlot(z), allocs |-> <<new>> \o rest]
    BY DEF PlaceFront
  <1>5. /\ <<new>> \o rest \in Seq(Alloc)
        /\ Len(<<new>> \o rest) = Len(rest) + 1
        /\ (<<new>> \o rest)[1] = new
        /\ \A i \in 1..Len(rest) : (<<new>> \o rest)[i + 1] = rest[i]
    <2> HIDE DEF new, rest
    <2>. QED  BY <1>2, <1>3
  <1> DEFINE whole == <<new>> \o rest
  <1>6. \A i \in 1..Len(z.allocs) : whole[i + 1] = rest[i]  BY <1>3, <1>5
  <1>7. /\ whole \in Seq(Alloc) /\ Len(whole) = Len(z.allocs) + 1
        /\ whole[1] = new
    BY <1>3, <1>5
  <1>8. PlaceFront(z, size) = [at |-> FirstSlot(z), allocs |-> whole]
    BY <1>4
  <1>9. ASSUME NEW i \in 1..Len(z.allocs)
        PROVE  /\ whole[i + 1].at = z.allocs[i].at
               /\ whole[i + 1].size = z.allocs[i].size
               /\ whole[i + 1].cap = z.allocs[i].cap
               /\ whole[i + 1].prev =
                    IF i = 1 THEN FirstSlot(z) ELSE z.allocs[i].prev
    <2> HIDE DEF rest, whole
    <2>. QED  BY <1>3, <1>6
  <1>10. PlaceFront(z, size).at = FirstSlot(z)
         /\ PlaceFront(z, size).allocs = whole
    <2> HIDE DEF rest, whole
    <2>. QED  BY <1>8
  <1> HIDE DEF rest, whole
  <1>. QED  BY <1>1, <1>7, <1>9, <1>10

(* The list after a block was put behind it, element by element.         *)
LEMMA PlaceBehindList ==
  ASSUME NEW z \in Zone, z.allocs # << >>, NEW size \in Nat
  PROVE  LET p    == PlaceBehind(z, size)
             last == z.allocs[Len(z.allocs)]
         IN  /\ p.at = End(last) /\ p.at \in Nat
             /\ p.allocs \in Seq(Alloc)
             /\ Len(p.allocs) = Len(z.allocs) + 1
             /\ p.allocs[Len(z.allocs) + 1] = NewAlloc(End(last), last.at, size)
             /\ \A i \in 1..Len(z.allocs) : p.allocs[i] = z.allocs[i]
  <1> DEFINE last == z.allocs[Len(z.allocs)]
  <1>1. z.allocs \in Seq(Alloc)  BY DEF Zone
  <1>2. last \in Alloc  BY <1>1, EmptySeq, ElementOfSeq
  <1>3. NewAlloc(End(last), last.at, size) \in Alloc /\ End(last) \in Nat
    BY <1>2, AllocAddresses, NewAllocType
  <1> HIDE DEF last
  <1>4. PlaceBehind(z, size) =
          [at |-> End(last),
           allocs |-> Append(z.allocs, NewAlloc(End(last), last.at, size))]
    BY DEF PlaceBehind, last
  <1>. QED  BY <1>1, <1>3, <1>4, AppendProperties DEF last

(* A block carved between two others leaves the length and the addresses *)
(* of the list as they are.                                              *)
LEMMA PlaceBetweenList ==
  ASSUME NEW z \in Zone, NEW size \in Nat, NEW i \in 1..(Len(z.allocs) - 1)
  PROVE  LET p == PlaceBetween(z, size, i)
         IN  /\ p.at = End(z.allocs[i]) /\ p.at \in Nat
             /\ p.allocs \in Seq(Alloc)
             /\ Len(p.allocs) = Len(z.allocs)
             /\ \A m \in 1..Len(z.allocs) :
                  /\ p.allocs[m].at = z.allocs[m].at
                  /\ p.allocs[m].size = z.allocs[m].size
                  /\ p.allocs[m].cap = z.allocs[m].cap
                  /\ p.allocs[m].prev =
                       IF m \in {i, i + 1} THEN p.at ELSE z.allocs[m].prev
  <1> DEFINE at == End(z.allocs[i])
             a  == [z.allocs[i] EXCEPT !.prev = at]
             b  == [z.allocs[i + 1] EXCEPT !.prev = at]
             t  == [z.allocs EXCEPT ![i] = a]
  <1>1. z.allocs \in Seq(Alloc) /\ Len(z.allocs) \in Nat  BY DEF Zone
  <1>2. i \in 1..Len(z.allocs) /\ i + 1 \in 1..Len(z.allocs)  BY <1>1
  <1>3. z.allocs[i] \in Alloc /\ z.allocs[i + 1] \in Alloc
    BY <1>1, <1>2, ElementOfSeq
  <1>4. at \in Nat  BY <1>3, AllocAddresses
  <1>5. /\ a \in Alloc /\ a.at = z.allocs[i].at /\ a.size = z.allocs[i].size
        /\ b \in Alloc /\ b.at = z.allocs[i + 1].at
        /\ b.size = z.allocs[i + 1].size
        /\ a.cap = z.allocs[i].cap /\ b.cap = z.allocs[i + 1].cap
        /\ a.prev = at /\ b.prev = at
    BY <1>3, <1>4 DEF Alloc
  <1>6. PlaceBetween(z, size, i) = [at |-> at, allocs |-> [t EXCEPT ![i + 1] = b]]
    BY <1>1, <1>2, i # i + 1 DEF PlaceBetween
  <1> HIDE DEF at, a, b
  <1>7. /\ t \in Seq(Alloc) /\ Len(t) = Len(z.allocs)
        /\ \A m \in 1..Len(z.allocs) : t[m] = IF m = i THEN a ELSE z.allocs[m]
    BY <1>1, <1>2, <1>5, ExceptSeq
  <1> HIDE DEF t
  <1>8. /\ [t EXCEPT ![i + 1] = b] \in Seq(Alloc)
        /\ Len([t EXCEPT ![i + 1] = b]) = Len(z.allocs)
        /\ \A m \in 1..Len(z.allocs) :
             [t EXCEPT ![i + 1] = b][m] = IF m = i + 1 THEN b ELSE t[m]
    BY <1>2, <1>5, <1>7, ExceptSeq
  <1>. QED  BY <1>4, <1>5, <1>6, <1>7, <1>8 DEF at

(* What _get_alloc may have done.                                        *)
LEMMA GetAllocCases ==
  ASSUME NEW z \in Zone, NEW size \in Nat, NEW p \in GetAlloc(z, size)
  PROVE  \/ /\ z.allocs = << >> \/ FitsFront(z, size)
            /\ p = PlaceFront(z, size)
         \/ \E i \in 1..(Len(z.allocs) - 1) :
              /\ z.allocs[i + 1].at > End(z.allocs[i]) + size + AllocHdr
              /\ p = PlaceBetween(z, size, i)
         \/ z.allocs # << >> /\ FitsBehind(z, size) /\ p = PlaceBehind(z, size)
  <1>1. CASE z.allocs = << >> \/ FitsFront(z, size)
    BY <1>1 DEF GetAlloc
  <1>2. CASE ~(z.allocs = << >> \/ FitsFront(z, size))
             /\ FitsBetween(z, size) # {}
    BY <1>2 DEF GetAlloc, FitsBetween, FirstOf
  <1>3. CASE ~(z.allocs = << >> \/ FitsFront(z, size))
             /\ FitsBetween(z, size) = {}
    BY <1>3 DEF GetAlloc
  <1>. QED  BY <1>1, <1>2, <1>3

(* _get_alloc gives a list of blocks that is not empty, of one block if it *)
(* was empty before.                                                     *)
LEMMA GetAllocType ==
  ASSUME NEW z \in Zone, NEW size \in Nat, NEW p \in GetAlloc(z, size)
  PROVE  /\ p.at \in Nat
         /\ p.allocs \in Seq(Alloc)
         /\ p.allocs # << >>
         /\ z.allocs = << >> => Len(p.allocs) = 1
  <1>1. z.allocs \in Seq(Alloc) /\ Len(z.allocs) \in Nat
        /\ (z.allocs = << >> <=> Len(z.allocs) = 0)
    BY EmptySeq DEF Zone
  <1>2. \A s \in Seq(Alloc) : Len(s) # 0 => s # << >>  BY EmptySeq
  <1>3. CASE p = PlaceFront(z, size)
    <2>1. /\ PlaceFront(z, size).at \in Nat
          /\ PlaceFront(z, size).allocs \in Seq(Alloc)
          /\ Len(PlaceFront(z, size).allocs) = Len(z.allocs) + 1
      BY PlaceFrontList
    <2>. QED  BY <1>1, <1>2, <1>3, <2>1
  <1>4. ASSUME NEW i \in 1..(Len(z.allocs) - 1), p = PlaceBetween(z, size, i)
        PROVE  p.at \in Nat /\ p.allocs \in Seq(Alloc)
               /\ Len(p.allocs) = Len(z.allocs) /\ Len(z.allocs) # 0
    BY <1>1, <1>4, PlaceBetweenList
  <1>5. CASE z.allocs # << >> /\ p = PlaceBehind(z, size)
    BY <1>1, <1>2, <1>5, PlaceBehindList
  <1>. QED  BY <1>1, <1>2, <1>3, <1>4, <1>5, GetAllocCases

(* A placed block keeps a list ascending and its links sound.  The links *)
(* stay all in place and the blocks disjoint if they were and, for the   *)
(* links, if the block has entered the list.                             *)
LEMMA GetAllocKeepsList ==
  ASSUME NEW z \in Zone, NEW size \in Nat, NEW p \in GetAlloc(z, size),
         NEW y \in Zone, y.base = z.base, y.allocs = p.allocs,
         Sorted(z), LinksSound(z)
  PROVE  /\ Sorted(y)
         /\ LinksSound(y)
         /\ Linked(z) /\ Len(p.allocs) > Len(z.allocs) => Linked(y)
         /\ Ordered(z) => Ordered(y)
  <1> DEFINE n == Len(z.allocs)
  <1>1. /\ z.allocs \in Seq(Alloc) /\ n \in Nat
        /\ DOMAIN z.allocs = 1..n
        /\ \A i \in 1..n : z.allocs[i] \in Alloc
        /\ FirstSlot(z) \in Nat /\ FirstSlot(z) > 0
        /\ FirstSlot(y) = FirstSlot(z)
    BY LenProperties, ElementOfSeq, SizesAssumption DEF Zone, FirstSlot
  <1>2. /\ y.allocs \in Seq(Alloc)
        /\ DOMAIN y.allocs = 1..Len(y.allocs)
    BY LenProperties DEF Zone
  <1>3. CASE /\ z.allocs = << >> \/ FitsFront(z, size)
             /\ p = PlaceFront(z, size)
    <2>1. /\ Len(y.allocs) = n + 1
          /\ y.allocs[1].at = FirstSlot(z) /\ y.allocs[1].prev = NULL
          /\ End(y.allocs[1]) = FirstSlot(z) + AllocHdr + size
          /\ \A j \in 2..(n + 1) :
               /\ j - 1 \in 1..n
               /\ y.allocs[j].at = z.allocs[j - 1].at
               /\ End(y.allocs[j]) = End(z.allocs[j - 1])
               /\ y.allocs[j].prev =
                    IF j = 2 THEN FirstSlot(z) ELSE z.allocs[j - 1].prev
      <3>1. /\ Len(y.allocs) = n + 1
            /\ y.allocs[1] = NewAlloc(FirstSlot(z), NULL, size)
            /\ \A i \in 1..n :
                 /\ y.allocs[i + 1].at = z.allocs[i].at
                 /\ y.allocs[i + 1].size = z.allocs[i].size
                 /\ y.allocs[i + 1].prev =
                      IF i = 1 THEN FirstSlot(z) ELSE z.allocs[i].prev
        <4>1. y.allocs = PlaceFront(z, size).allocs  BY <1>3
        <4>. QED  BY <4>1, PlaceFrontList
      <3>2. ASSUME NEW j \in 2..(n + 1)
            PROVE  j - 1 \in 1..n /\ (j - 1) + 1 = j /\ (j - 1 = 1 <=> j = 2)
        BY <1>1
      <3>3. /\ y.allocs[1].at = FirstSlot(z) /\ y.allocs[1].prev = NULL
            /\ End(y.allocs[1]) = FirstSlot(z) + AllocHdr + size
        BY <3>1 DEF NewAlloc, End, Chunk
      <3>4. ASSUME NEW j \in 2..(n + 1)
            PROVE  /\ y.allocs[j].at = z.allocs[j - 1].at
                   /\ End(y.allocs[j]) = End(z.allocs[j - 1])
                   /\ y.allocs[j].prev =
                        IF j = 2 THEN FirstSlot(z) ELSE z.allocs[j - 1].prev
        <4>1. /\ y.allocs[j].at = z.allocs[j - 1].at
              /\ y.allocs[j].size = z.allocs[j - 1].size
              /\ y.allocs[j].prev = IF j - 1 = 1 THEN FirstSlot(z)
                                    ELSE z.allocs[j - 1].prev
          BY <3>1, <3>2
        <4>2. j - 1 = 1 <=> j = 2  BY <3>2
        <4>3. End(y.allocs[j]) = End(z.allocs[j - 1])  BY <4>1 DEF End, Chunk
        <4>. QED  BY <4>1, <4>2, <4>3
      <3>. QED  BY <3>1, <3>2, <3>3, <3>4
    <2>2. \A i \in 1..n : z.allocs[i].at > FirstSlot(z) + AllocHdr + size
      <3>1. ASSUME NEW i \in 1..n
            PROVE  1 \in 1..n /\ z.allocs # << >>
                   /\ z.allocs[1].at \in Nat /\ z.allocs[i].at \in Nat
                   /\ z.allocs[1].at <= z.allocs[i].at
        <4>1. 1 \in 1..n /\ (i = 1 \/ 1 < i) /\ z.allocs # << >>
          BY <1>1, EmptySeq
        <4>2. z.allocs[1].at \in Nat /\ z.allocs[i].at \in Nat
          BY <1>1, <4>1, AllocAddresses
        <4>3. 1 < i => z.allocs[1].at < z.allocs[i].at
          BY <1>1, <4>1 DEF Sorted
        <4>. QED  BY <4>1, <4>2, <4>3
      <3>2. FirstSlot(z) + AllocHdr + size \in Nat  BY <1>1, SizesAssumption
      <3>3. ASSUME NEW i \in 1..n
            PROVE  z.allocs[1].at > FirstSlot(z) + AllocHdr + size
        BY <1>3, <3>1 DEF FitsFront
      <3>. QED  BY <3>1, <3>2, <3>3
    <2>3. Sorted(y)
      <3>1. ASSUME NEW j \in 2..(n + 1)
            PROVE  y.allocs[j].at > FirstSlot(z) + AllocHdr + size
        BY <2>1, <2>2
      <3>2. ASSUME NEW i \in 1..(n + 1), NEW j \in 1..(n + 1), i < j
            PROVE  y.allocs[i].at < y.allocs[j].at
        <4>1. j \in 2..(n + 1) /\ j - 1 \in 1..n  BY <1>1, <3>2
        <4>2. CASE i = 1
          <5>1. y.allocs[i].at = FirstSlot(z)  BY <2>1, <4>2
          <5>2. y.allocs[j].at = z.allocs[j - 1].at
                /\ z.allocs[j - 1].at \in Nat
            BY <1>1, <2>1, <4>1, AllocAddresses
          <5>. QED  BY <1>1, <3>1, <4>1, <5>1, <5>2, SizesAssumption
        <4>3. CASE i # 1
          <5>1. i \in 2..(n + 1) /\ i - 1 \in 1..n /\ i - 1 < j - 1
            BY <1>1, <3>2, <4>3
          <5>2. z.allocs[i - 1].at < z.allocs[j - 1].at
            BY <1>1, <4>1, <5>1 DEF Sorted
          <5>. QED  BY <2>1, <4>1, <5>1, <5>2
        <4>. QED  BY <4>2, <4>3
      <3>3. ASSUME NEW j \in 1..(n + 1) PROVE y.allocs[j].at >= FirstSlot(y)
        <4>1. CASE j = 1  BY <1>1, <2>1, <4>1
        <4>2. CASE j # 1
          <5>1. j \in 2..(n + 1) /\ j - 1 \in 1..n  BY <1>1, <4>2
          <5>2. z.allocs[j - 1].at >= FirstSlot(z)  BY <1>1, <5>1 DEF Sorted
          <5>. QED  BY <1>1, <2>1, <5>1, <5>2
        <4>. QED  BY <4>1, <4>2
      <3>. QED  BY <1>2, <2>1, <3>2, <3>3 DEF Sorted
    <2>4. \A j \in 2..(n + 1) :
            IF j = 2 THEN InPlace(y, j)
            ELSE (InPlace(z, j - 1) <=> InPlace(y, j))
      <3>1. ASSUME NEW j \in 2..(n + 1), j = 2 PROVE InPlace(y, j)
        BY <2>1, <3>1 DEF InPlace
      <3>2. ASSUME NEW j \in 2..(n + 1), j # 2
            PROVE  InPlace(z, j - 1) <=> InPlace(y, j)
        <4>1. j - 1 \in 2..(n + 1) /\ j # 1 /\ j - 1 # 1  BY <1>1, <3>2
        <4>2. y.allocs[j].prev = z.allocs[j - 1].prev  BY <2>1, <3>2
        <4>3. y.allocs[j - 1].at = z.allocs[(j - 1) - 1].at  BY <2>1, <4>1
        <4>. QED  BY <4>1, <4>2, <4>3 DEF InPlace
      <3>. QED  BY <3>1, <3>2
    <2>5. LinksSound(y)
      <3>1. ASSUME NEW j \in 3..(n + 1), Dangles(z, j - 1)
            PROVE  Dangles(y, j)
        <4> DEFINE x == y.allocs[j].prev
        <4>1. /\ j - 1 \in 1..n /\ x = z.allocs[j - 1].prev
              /\ x >= FirstSlot(y) + AllocHdr
          <5>1. j \in 2..(n + 1) /\ j # 2  BY <1>1
          <5>2. j - 1 \in 1..n /\ x = z.allocs[j - 1].prev  BY <2>1, <5>1
          <5>. QED  BY <1>1, <3>1, <5>2 DEF Dangles
        <4>2. ASSUME NEW i \in 1..(n + 1)
              PROVE  \/ x + AllocHdr <= y.allocs[i].at
                     \/ y.allocs[i].at + AllocHdr <= x
          <5>1. CASE i = 1  BY <1>1, <2>1, <4>1, <5>1
          <5>2. CASE i # 1
            <6>1. i \in 2..(n + 1)  BY <1>1, <5>2
            <6>2. i - 1 \in 1..n /\ y.allocs[i].at = z.allocs[i - 1].at
              BY <2>1, <6>1
            <6>3. \/ x + AllocHdr <= z.allocs[i - 1].at
                  \/ z.allocs[i - 1].at + AllocHdr <= x
              BY <1>1, <3>1, <4>1, <6>2 DEF Dangles, ClearOfHeaders
            <6>. QED  BY <4>1, <6>2, <6>3
          <5>. QED  BY <5>1, <5>2
        <4>3. \/ x + AllocHdr <= y.allocs[j].at
              \/ /\ j < n + 1 /\ x + AllocHdr <= y.allocs[j + 1].at
                 /\ ~InPlace(y, j + 1)
          <5>1. CASE x + AllocHdr <= z.allocs[j - 1].at
            <6>1. j \in 2..(n + 1)  BY <1>1
            <6>2. y.allocs[j].at = z.allocs[j - 1].at  BY <2>1, <6>1
            <6>. QED  BY <5>1, <6>2
          <5>2. CASE /\ j - 1 < n /\ x + AllocHdr <= z.allocs[(j - 1) + 1].at
                     /\ ~InPlace(z, (j - 1) + 1)
            <6>1. j + 1 \in 2..(n + 1) /\ j + 1 # 2
                  /\ (j - 1) + 1 = j /\ (j + 1) - 1 = j /\ j < n + 1
              BY <1>1, <5>2
            <6>2. y.allocs[j + 1].at = z.allocs[j].at  BY <2>1, <6>1
            <6>3. ~InPlace(y, j + 1)  BY <2>4, <5>2, <6>1
            <6>. QED  BY <5>2, <6>1, <6>2, <6>3
          <5>. QED  BY <3>1, <4>1, <5>1, <5>2 DEF Dangles
        <4>4. ClearOfHeaders(y, x)
          BY <1>2, <2>1, <4>2 DEF ClearOfHeaders
        <4>. QED  BY <1>2, <2>1, <4>1, <4>3, <4>4 DEF Dangles
      <3>2. InPlace(y, 1)  BY <2>1 DEF InPlace
      <3>3. ASSUME NEW j \in 3..(n + 1) PROVE InPlace(y, j) \/ Dangles(y, j)
        <4>1. j - 1 \in 1..n /\ j \in 2..(n + 1) /\ j # 2  BY <1>1
        <4>2. InPlace(z, j - 1) \/ Dangles(z, j - 1)
          BY <1>1, <4>1 DEF LinksSound
        <4>. QED  BY <2>4, <3>1, <4>1, <4>2
      <3>4. ASSUME NEW j \in 1..(n + 1) PROVE InPlace(y, j) \/ Dangles(y, j)
        <4>1. j = 1 \/ j = 2 \/ j \in 3..(n + 1)  BY <1>1
        <4>2. j = 2 => InPlace(y, j)  BY <1>1, <2>4
        <4>. QED  BY <3>2, <3>3, <4>1, <4>2
      <3>. QED  BY <1>2, <2>1, <3>4 DEF LinksSound
    <2>6. ASSUME Linked(z) PROVE Linked(y)
      <3>1. ASSUME NEW j \in 1..(n + 1) PROVE InPlace(y, j)
        <4>1. CASE j = 1  BY <2>1, <4>1 DEF InPlace
        <4>2. CASE j # 1
          <5>1. j \in 2..(n + 1)  BY <1>1, <4>2
          <5>2. InPlace(z, j - 1)  BY <1>1, <2>1, <2>6, <5>1 DEF Linked
          <5>. QED  BY <2>4, <5>1, <5>2
        <4>. QED  BY <4>1, <4>2
      <3>. QED  BY <1>2, <2>1, <3>1 DEF Linked
    <2>7. ASSUME Ordered(z) PROVE Ordered(y)
      <3>1. ASSUME NEW i \in 1..(n + 1), NEW j \in 1..(n + 1), i < j
            PROVE  End(y.allocs[i]) <= y.allocs[j].at
        <4>1. j \in 2..(n + 1) /\ j - 1 \in 1..n  BY <1>1, <3>1
        <4>2. y.allocs[j].at = z.allocs[j - 1].at
              /\ z.allocs[j - 1].at \in Nat
          BY <1>1, <2>1, <4>1, AllocAddresses
        <4>3. CASE i = 1
          <5>1. End(y.allocs[i]) = FirstSlot(z) + AllocHdr + size
            BY <2>1, <4>3
          <5>2. z.allocs[j - 1].at > FirstSlot(z) + AllocHdr + size
            BY <2>2, <4>1
          <5>3. FirstSlot(z) + AllocHdr + size \in Nat
            BY <1>1, SizesAssumption
          <5>. QED  BY <4>2, <5>1, <5>2, <5>3
        <4>4. CASE i # 1
          <5>1. i \in 2..(n + 1) /\ i - 1 \in 1..n /\ i - 1 < j - 1
            BY <1>1, <3>1, <4>4
          <5>2. End(z.allocs[i - 1]) <= z.allocs[j - 1].at
            BY <1>1, <2>7, <4>1, <5>1 DEF Ordered
          <5>. QED  BY <2>1, <4>2, <5>1, <5>2
        <4>. QED  BY <4>3, <4>4
      <3>. QED  BY <1>2, <2>1, <2>3, <3>1 DEF Ordered, Sorted
    <2>. QED  BY <2>3, <2>5, <2>6, <2>7
  <1>4. ASSUME NEW i \in 1..(n - 1),
               z.allocs[i + 1].at > End(z.allocs[i]) + size + AllocHdr,
               p = PlaceBetween(z, size, i)
        PROVE  /\ Sorted(y) /\ LinksSound(y)
               /\ Len(p.allocs) = n
               /\ Ordered(z) => Ordered(y)
    <2> DEFINE x == End(z.allocs[i])
    <2>1. /\ Len(y.allocs) = n
          /\ \A m \in 1..n :
               /\ y.allocs[m].at = z.allocs[m].at
               /\ End(y.allocs[m]) = End(z.allocs[m])
               /\ y.allocs[m].prev =
                    IF m \in {i, i + 1} THEN x ELSE z.allocs[m].prev
      BY <1>4, PlaceBetweenList DEF End, Chunk
    <2>2. Sorted(y)  BY <1>1, <1>2, <2>1 DEF Sorted
    <2>3. Ordered(z) => Ordered(y)  BY <1>1, <1>2, <2>1 DEF Ordered
    <2>4. /\ i \in 1..n /\ i + 1 \in 1..n /\ x \in Nat
          /\ z.allocs[i].at + AllocHdr <= x
          /\ x + AllocHdr <= z.allocs[i + 1].at
      <3>1. i \in 1..n /\ i + 1 \in 1..n  BY <1>1
      <3>2. z.allocs[i] \in Alloc /\ z.allocs[i + 1] \in Alloc
        BY <1>1, <3>1
      <3>3. /\ z.allocs[i].at \in Nat /\ z.allocs[i + 1].at \in Nat
            /\ x \in Nat /\ z.allocs[i].at + AllocHdr <= x
        BY <3>2, AllocAddresses
      <3>4. x + AllocHdr <= z.allocs[i + 1].at
        <4> HIDE DEF x
        <4>1. z.allocs[i + 1].at > x + size + AllocHdr  BY <1>4 DEF x
        <4>. QED  BY <3>3, <4>1, SizesAssumption
      <3>. QED  BY <3>1, <3>3, <3>4
    <2> HIDE DEF x
    <2>5. ASSUME NEW m \in 1..n
          PROVE  /\ \/ x + AllocHdr <= z.allocs[m].at
                    \/ z.allocs[m].at + AllocHdr <= x
                 /\ x # z.allocs[m].at
      <3>1. z.allocs[m].at \in Nat /\ z.allocs[i].at \in Nat
            /\ z.allocs[i + 1].at \in Nat /\ x \in Nat
        BY <1>1, <2>4, AllocAddresses
      <3>2. CASE m <= i
        <4> DEFINE a == z.allocs[m].at
                   b == z.allocs[i].at
        <4>1. a <= b  BY <2>4, <3>2, LaterNotBelow
        <4>2. b + AllocHdr <= x /\ a \in Nat /\ b \in Nat /\ x \in Nat
          BY <2>4, <3>1
        <4> HIDE DEF a, b
        <4>3. a + AllocHdr <= x /\ x # a  BY <4>1, <4>2, SizesAssumption
        <4>. QED  BY <4>3 DEF a
      <3>3. CASE m > i
        <4> DEFINE a == z.allocs[m].at
                   b == z.allocs[i + 1].at
        <4>1. i + 1 <= m  BY <1>1, <3>3
        <4>2. b <= a  BY <2>4, <4>1, LaterNotBelow
        <4>3. x + AllocHdr <= b /\ a \in Nat /\ b \in Nat /\ x \in Nat
          BY <2>4, <3>1
        <4> HIDE DEF a, b
        <4>4. x + AllocHdr <= a /\ x # a  BY <4>2, <4>3, SizesAssumption
        <4>. QED  BY <4>4 DEF a
      <3>. QED  BY <1>1, <2>4, <3>2, <3>3
    <2>6. x >= FirstSlot(y) + AllocHdr /\ ClearOfHeaders(y, x)
      <3>1. z.allocs[i].at >= FirstSlot(z) /\ z.allocs[i].at \in Nat
        BY <1>1, <2>4, AllocAddresses DEF Sorted
      <3>2. x >= FirstSlot(y) + AllocHdr
        <4>1. FirstSlot(z) \in Nat /\ FirstSlot(y) = FirstSlot(z)  BY <1>1
        <4>2. x \in Nat /\ z.allocs[i].at + AllocHdr <= x  BY <2>4
        <4>3. ASSUME NEW a \in Nat, NEW b \in Nat, NEW c \in Nat,
                     a >= c, a + AllocHdr <= b
              PROVE  b >= c + AllocHdr
          BY <4>3, SizesAssumption
        <4>4. x >= FirstSlot(z) + AllocHdr  BY <3>1, <4>1, <4>2, <4>3
        <4>. QED  BY <4>1, <4>4
      <3>3. ClearOfHeaders(y, x)
        BY <1>2, <2>1, <2>5 DEF ClearOfHeaders
      <3>. QED  BY <3>2, <3>3
    <2>7. ASSUME NEW m \in 1..n, m \notin {i, i + 1}
          PROVE  InPlace(y, m) <=> InPlace(z, m)
      BY <1>1, <2>1, <2>7 DEF InPlace
    <2>8. ~InPlace(y, i + 1)
      BY <1>1, <2>1, <2>4, <2>5 DEF InPlace
    <2>9. Dangles(y, i)
      <3>1. y.allocs[i].prev = x /\ y.allocs[i + 1].at = z.allocs[i + 1].at
            /\ i < Len(y.allocs)
        BY <1>1, <2>1, <2>4
      <3>. QED  BY <2>4, <2>6, <2>8, <3>1 DEF Dangles
    <2>10. Dangles(y, i + 1)
      <3>1. y.allocs[i + 1].prev = x /\ y.allocs[i + 1].at = z.allocs[i + 1].at
        BY <2>1, <2>4
      <3>. QED  BY <2>4, <2>6, <3>1 DEF Dangles
    <2>11. ASSUME NEW m \in 1..n, m \notin {i, i + 1}, Dangles(z, m)
           PROVE  Dangles(y, m)
      <3>1. y.allocs[m].prev = z.allocs[m].prev /\ y.allocs[m].at = z.allocs[m].at
        BY <2>1, <2>11
      <3>2. /\ y.allocs[m].prev >= FirstSlot(y) + AllocHdr
            /\ ClearOfHeaders(y, y.allocs[m].prev)
        BY <1>1, <1>2, <2>1, <2>11, <3>1 DEF Dangles, ClearOfHeaders
      <3>3. ASSUME m < n, z.allocs[m].prev + AllocHdr <= z.allocs[m + 1].at,
                   ~InPlace(z, m + 1)
            PROVE  /\ y.allocs[m].prev + AllocHdr <= y.allocs[m + 1].at
                   /\ ~InPlace(y, m + 1)
        <4>1. m + 1 \in 1..n /\ m + 1 # i + 1  BY <1>1, <2>4, <2>11, <3>3
        <4>2. y.allocs[m].prev + AllocHdr <= y.allocs[m + 1].at
          BY <2>1, <3>1, <3>3, <4>1
        <4>3. ~InPlace(y, m + 1)
          <5>1. CASE m + 1 = i
            <6>1. y.allocs[m + 1].prev = x  BY <2>1, <4>1, <5>1
            <6>2. m + 1 # 1 /\ (m + 1) - 1 = m  BY <1>1
            <6>. QED  BY <2>1, <2>5, <6>1, <6>2 DEF InPlace
          <5>2. CASE m + 1 # i  BY <2>7, <3>3, <4>1, <5>2
          <5>. QED  BY <5>1, <5>2
        <4>. QED  BY <4>2, <4>3
      <3>. QED  BY <1>1, <1>2, <2>1, <2>11, <3>1, <3>2, <3>3 DEF Dangles
    <2>12. LinksSound(y)
      BY <1>1, <1>2, <2>1, <2>7, <2>9, <2>10, <2>11 DEF LinksSound
    <2>. QED  BY <1>4, <2>1, <2>2, <2>3, <2>12
  <1>5. CASE z.allocs # << >> /\ p = PlaceBehind(z, size)
    <2> DEFINE last == z.allocs[n]
    <2>1. /\ Len(y.allocs) = n + 1
          /\ y.allocs[n + 1] = NewAlloc(End(last), last.at, size)
          /\ \A m \in 1..n : y.allocs[m] = z.allocs[m]
      BY <1>5, PlaceBehindList
    <2>2. y.allocs[n + 1].at = End(last) /\ y.allocs[n + 1].prev = last.at
      BY <2>1 DEF NewAlloc
    <2>3. /\ n \in 1..n /\ last.at \in Nat /\ End(last) \in Nat
          /\ last.at < End(last) /\ last.at >= FirstSlot(z)
          /\ \A m \in 1..n : z.allocs[m].at <= last.at
      <3>1. n \in 1..n  BY <1>1, <1>5, EmptySeq
      <3>2. \A m \in 1..n : m < n => z.allocs[m].at < last.at
        BY <1>1, <3>1 DEF Sorted
      <3>3. \A m \in 1..n : m < n \/ m = n  BY <1>1
      <3>4. /\ last.at \in Nat /\ End(last) \in Nat /\ last.at < End(last)
            /\ \A m \in 1..n : z.allocs[m].at \in Nat
        BY <1>1, <3>1, AllocAddresses
      <3>5. last.at >= FirstSlot(z)  BY <1>1, <3>1 DEF Sorted
      <3>. QED  BY <3>1, <3>2, <3>3, <3>4, <3>5
    <2> HIDE DEF last
    <2>4. ASSUME NEW m \in 1..n
           PROVE  /\ y.allocs[m].at \in Nat
                  /\ y.allocs[m].at < y.allocs[n + 1].at
      <3>1. y.allocs[m].at = z.allocs[m].at /\ z.allocs[m].at \in Nat
        BY <1>1, <2>1, AllocAddresses
      <3>. QED  BY <2>2, <2>3, <3>1
    <2>5. Sorted(y)
      <3>1. ASSUME NEW l \in 1..(n + 1), NEW m \in 1..(n + 1), l < m
            PROVE  y.allocs[l].at < y.allocs[m].at
        <4>1. l \in 1..n /\ (m = n + 1 \/ m \in 1..n)  BY <1>1, <3>1
        <4>2. CASE m = n + 1  BY <2>4, <4>1, <4>2
        <4>3. CASE m \in 1..n
          <5>1. z.allocs[l].at < z.allocs[m].at
            BY <1>1, <3>1, <4>1, <4>3 DEF Sorted
          <5>. QED  BY <2>1, <4>1, <4>3, <5>1
        <4>. QED  BY <4>1, <4>2, <4>3
      <3>2. ASSUME NEW m \in 1..(n + 1) PROVE y.allocs[m].at >= FirstSlot(y)
        <4>1. m = n + 1 \/ m \in 1..n  BY <1>1
        <4>2. CASE m = n + 1  BY <1>1, <2>2, <2>3, <4>2
        <4>3. CASE m \in 1..n
          <5>1. z.allocs[m].at >= FirstSlot(z)  BY <1>1, <4>3 DEF Sorted
          <5>. QED  BY <1>1, <2>1, <4>3, <5>1
        <4>. QED  BY <4>1, <4>2, <4>3
      <3>. QED  BY <1>2, <2>1, <3>1, <3>2 DEF Sorted
    <2>6. ASSUME NEW m \in 1..n PROVE InPlace(y, m) <=> InPlace(z, m)
      <3>1. m = 1 \/ m - 1 \in 1..n  BY <1>1
      <3>. QED  BY <2>1, <3>1 DEF InPlace
    <2>7. InPlace(y, n + 1)
      <3>1. n + 1 # 1 /\ (n + 1) - 1 = n  BY <1>1, <2>3
      <3>. QED  BY <2>1, <2>2, <2>3, <3>1 DEF InPlace, last
    <2>8. ASSUME NEW m \in 1..n, Dangles(z, m) PROVE Dangles(y, m)
      <3> DEFINE x == z.allocs[m].prev
      <3>1. /\ y.allocs[m].prev = x /\ x \in Nat
            /\ x >= FirstSlot(y) + AllocHdr
            /\ y.allocs[m].at = z.allocs[m].at /\ z.allocs[m].at \in Nat
            /\ AllocHdr \in Nat
        BY <1>1, <2>1, <2>8, AllocAddresses, SizesAssumption DEF Dangles
      <3>2. x + AllocHdr <= y.allocs[n + 1].at
        <4>1. CASE x + AllocHdr <= z.allocs[m].at
          <5>1. /\ z.allocs[m].at \in Nat
                /\ z.allocs[m].at < y.allocs[n + 1].at
            BY <2>4, <3>1
          <5>2. y.allocs[n + 1].at \in Nat /\ x + AllocHdr \in Nat
            BY <2>2, <2>3, <3>1
          <5> HIDE DEF x
          <5>. QED  BY <4>1, <5>1, <5>2
        <4>2. CASE m < n /\ x + AllocHdr <= z.allocs[m + 1].at
          <5>1. m + 1 \in 1..n  BY <1>1, <4>2
          <5>2. y.allocs[m + 1].at = z.allocs[m + 1].at  BY <2>1, <5>1
          <5>3. /\ z.allocs[m + 1].at \in Nat
                /\ z.allocs[m + 1].at < y.allocs[n + 1].at
            BY <2>4, <5>1, <5>2
          <5>4. y.allocs[n + 1].at \in Nat /\ x + AllocHdr \in Nat
            BY <2>2, <2>3, <3>1
          <5> HIDE DEF x
          <5>. QED  BY <4>2, <5>3, <5>4
        <4>. QED  BY <2>8, <4>1, <4>2 DEF Dangles
      <3>3. ClearOfHeaders(y, x)
        <4>1. \A l \in 1..(n + 1) : l = n + 1 \/ l \in 1..n  BY <1>1
        <4>2. ASSUME NEW l \in 1..n
              PROVE  \/ x + AllocHdr <= y.allocs[l].at
                     \/ y.allocs[l].at + AllocHdr <= x
          BY <1>1, <2>1, <2>8, <4>2 DEF Dangles, ClearOfHeaders
        <4>. QED  BY <1>2, <2>1, <3>2, <4>1, <4>2 DEF ClearOfHeaders
      <3>4. ASSUME m < n, x + AllocHdr <= z.allocs[m + 1].at, ~InPlace(z, m + 1)
            PROVE  /\ m < n + 1 /\ x + AllocHdr <= y.allocs[m + 1].at
                   /\ ~InPlace(y, m + 1)
        <4>1. m + 1 \in 1..n /\ m < n + 1  BY <1>1, <3>4
        <4>. QED  BY <2>1, <2>6, <3>4, <4>1
      <3>. QED  BY <1>1, <1>2, <2>1, <2>8, <3>1, <3>3, <3>4 DEF Dangles
    <2>9. LinksSound(y) /\ (Linked(z) => Linked(y))
      <3>1. \A m \in 1..(n + 1) : m = n + 1 \/ m \in 1..n  BY <1>1
      <3>. QED
        BY <1>1, <1>2, <2>1, <2>6, <2>7, <2>8, <3>1 DEF LinksSound, Linked
    <2>10. ASSUME Ordered(z) PROVE Ordered(y)
      <3>1. ASSUME NEW l \in 1..(n + 1), NEW m \in 1..(n + 1), l < m
            PROVE  End(y.allocs[l]) <= y.allocs[m].at
        <4>1. l \in 1..n /\ (m = n + 1 \/ m \in 1..n)  BY <1>1, <3>1
        <4>2. CASE m = n + 1
          <5>1. End(z.allocs[l]) \in Nat /\ End(last) \in Nat
            BY <1>1, <2>3, <4>1, AllocAddresses
          <5>2. y.allocs[l] = z.allocs[l] /\ y.allocs[m].at = End(last)
            BY <2>1, <2>2, <4>1, <4>2
          <5>3. CASE l = n
            BY <5>1, <5>2, <5>3 DEF last
          <5>4. CASE l < n
            <6>1. End(z.allocs[l]) <= last.at
              BY <1>1, <2>3, <2>10, <4>1, <5>4 DEF Ordered, last
            <6>2. last.at < End(last) /\ last.at \in Nat  BY <2>3
            <6>3. End(z.allocs[l]) <= End(last)  BY <5>1, <6>1, <6>2
            <6>. QED  BY <5>2, <6>3
          <5>. QED  BY <1>1, <4>1, <5>3, <5>4
        <4>3. CASE m \in 1..n
          BY <1>1, <2>1, <2>10, <3>1, <4>1, <4>3 DEF Ordered
        <4>. QED  BY <4>1, <4>2, <4>3
      <3>. QED  BY <1>2, <2>1, <2>5, <3>1 DEF Ordered, Sorted
    <2>. QED  BY <2>5, <2>9, <2>10
  <1>6. \/ /\ z.allocs = << >> \/ FitsFront(z, size)
           /\ p = PlaceFront(z, size)
        \/ z.allocs # << >> /\ p = PlaceBehind(z, size)
        \/ \E i \in 1..(n - 1) :
              /\ z.allocs[i + 1].at > End(z.allocs[i]) + size + AllocHdr
              /\ p = PlaceBetween(z, size, i)
    BY GetAllocCases
  <1>. QED  BY <1>1, <1>3, <1>4, <1>5, <1>6

-----------------------------------------------------------------------------
(* Unlinking a block                                                     *)

(* The header a prev pointer names is the one in front of the block, if  *)
(* it is in the list at all: what keeps free from splicing out other     *)
(* blocks.                                                               *)
LEMMA PrevIndexInPlace ==
  ASSUME NEW z \in Zone, Sorted(z), LinksSound(z),
         NEW j \in 1..Len(z.allocs)
  PROVE  PrevIndex(z.allocs, j) = IF InPlace(z, j) THEN {j - 1} ELSE {}
  <1> DEFINE n == Len(z.allocs)
             x == z.allocs[j].prev
  <1>1. /\ n \in Nat /\ DOMAIN z.allocs = 1..n
        /\ \A i \in 1..n : z.allocs[i] \in Alloc /\ z.allocs[i].at \in Nat
        /\ FirstSlot(z) \in Nat /\ FirstSlot(z) > 0 /\ x \in Nat
    <2>1. z.allocs \in Seq(Alloc) /\ z.base \in Nat  BY DEF Zone
    <2>2. n \in Nat /\ DOMAIN z.allocs = 1..n  BY <2>1, LenProperties
    <2>3. \A i \in 1..n : z.allocs[i] \in Alloc  BY <2>1, ElementOfSeq
    <2>4. FirstSlot(z) \in Nat /\ FirstSlot(z) > 0
      BY <2>1, SizesAssumption DEF FirstSlot
    <2>. QED  BY <2>2, <2>3, <2>4, AllocAddresses
  <1>2. \A i \in 1..n : z.allocs[i].at > NULL
    <2>1. \A i \in 1..n : z.allocs[i].at >= FirstSlot(z)  BY <1>1 DEF Sorted
    <2>. QED  BY <1>1, <2>1 DEF NULL
  <1>3. \A l, m \in 1..n : l # m => z.allocs[l].at # z.allocs[m].at
    <2>1. \A l, m \in 1..n : l < m => z.allocs[l].at < z.allocs[m].at
      BY <1>1 DEF Sorted
    <2>2. \A l, m \in 1..n : l # m => l < m \/ m < l  BY <1>1
    <2>. QED  BY <1>1, <2>1, <2>2
  <1>4. CASE InPlace(z, j)
    <2>1. CASE j = 1
      <3>1. x = NULL  BY <1>4, <2>1 DEF InPlace
      <3>2. \A i \in 0..n : i = 0 \/ (i \in 1..n /\ i # 0)  BY <1>1
      <3>3. 0 \in 0..n /\ j - 1 = 0  BY <1>1, <2>1
      <3>. QED  BY <1>1, <1>2, <1>4, <3>1, <3>2, <3>3 DEF PrevIndex, NULL
    <2>2. CASE j # 1
      <3>1. j - 1 \in 1..n /\ j - 1 \in 0..n /\ j - 1 # 0  BY <1>1, <2>2
      <3>2. x = z.allocs[j - 1].at  BY <1>4, <2>2 DEF InPlace
      <3>3. x # NULL  BY <1>1, <1>2, <3>1, <3>2 DEF NULL
      <3>4. \A i \in 0..n : i = 0 \/ i \in 1..n  BY <1>1
      <3>. QED  BY <1>3, <1>4, <3>1, <3>2, <3>3, <3>4 DEF PrevIndex
    <2>. QED  BY <2>1, <2>2
  <1>5. CASE ~InPlace(z, j)
    <2>1. Dangles(z, j)  BY <1>1, <1>5 DEF LinksSound
    <2>2. x # NULL /\ \A i \in 1..n : x # z.allocs[i].at
      <3>1. /\ x >= FirstSlot(z) + AllocHdr
            /\ \A i \in 1..n : \/ x + AllocHdr <= z.allocs[i].at
                               \/ z.allocs[i].at + AllocHdr <= x
        BY <1>1, <2>1 DEF Dangles, ClearOfHeaders
      <3>2. x \in Nat /\ FirstSlot(z) \in Nat  BY <1>1
      <3> HIDE DEF x
      <3>3. x # NULL  BY <3>1, <3>2, SizesAssumption DEF NULL
      <3>4. ASSUME NEW i \in 1..n PROVE x # z.allocs[i].at
        <4> DEFINE a == z.allocs[i].at
        <4>1. a \in Nat /\ (x + AllocHdr <= a \/ a + AllocHdr <= x)
          BY <1>1, <3>1
        <4> HIDE DEF a
        <4>2. x # a  BY <3>2, <4>1, SizesAssumption
        <4>. QED  BY <4>2 DEF a
      <3>. QED  BY <3>3, <3>4
    <2>3. \A i \in 0..n : i = 0 \/ i \in 1..n  BY <1>1
    <2>. QED  BY <1>5, <2>2, <2>3 DEF PrevIndex
  <1>. QED  BY <1>4, <1>5

(* Whatever the prev pointers name, unlinking gives a list of blocks.    *)
LEMMA UnlinkType ==
  ASSUME NEW allocs \in Seq(Alloc), NEW j \in 1..Len(allocs)
  PROVE  Unlink(allocs, j) \in Seq(Alloc)
  <1> DEFINE n == Len(allocs)
             fixed == [i \in 1..n |->
                         IF i = j + 1
                         THEN [allocs[i] EXCEPT !.prev = allocs[j].prev]
                         ELSE allocs[i]]
  <1>1. n \in Nat /\ \A i \in 1..n : allocs[i] \in Alloc  BY ElementOfSeq
  <1>2. \A i \in 1..n : fixed[i] \in Alloc  BY <1>1 DEF Alloc
  <1>3. fixed \in Seq(Alloc) /\ Len(fixed) = n
    BY <1>1, <1>2, SeqDef
  <1>4. CASE PrevIndex(allocs, j) = {}
    BY <1>3, <1>4 DEF Unlink
  <1>5. CASE PrevIndex(allocs, j) # {}
    <2> DEFINE i == CHOOSE i \in PrevIndex(allocs, j) : TRUE
    <2>1. i \in PrevIndex(allocs, j)  BY <1>5
    <2>2. i \in 0..n  BY <2>1 DEF PrevIndex
    <2>3. Unlink(allocs, j) = SubSeq(fixed, 1, i) \o SubSeq(fixed, j + 1, n)
      BY <1>3, <1>5 DEF Unlink
    <2> HIDE DEF i, fixed
    <2>4. SubSeq(fixed, 1, i) \in Seq(Alloc)
          /\ SubSeq(fixed, j + 1, n) \in Seq(Alloc)
      BY <1>1, <1>2, <2>2, SubSeqProperties
    <2>. QED  BY <2>3, <2>4, ConcatProperties
  <1>. QED  BY <1>4, <1>5

(* The list after unlinking, element by element: the block is gone if    *)
(* its prev pointer was in place, and otherwise stays.                   *)
LEMMA UnlinkList ==
  ASSUME NEW z \in Zone, Sorted(z), LinksSound(z),
         NEW j \in 1..Len(z.allocs)
  PROVE  LET n == Len(z.allocs)
             u == Unlink(z.allocs, j)
         IN  IF InPlace(z, j)
             THEN /\ Len(u) = n - 1
                  /\ \A m \in 1..(n - 1) :
                       LET o == IF m < j THEN m ELSE m + 1
                       IN  /\ u[m].at = z.allocs[o].at
                           /\ u[m].size = z.allocs[o].size
                           /\ u[m].cap = z.allocs[o].cap
                           /\ u[m].prev = IF m = j THEN z.allocs[j].prev
                                                   ELSE z.allocs[o].prev
             ELSE /\ Len(u) = n
                  /\ \A m \in 1..n :
                       /\ u[m].at = z.allocs[m].at
                       /\ u[m].size = z.allocs[m].size
                       /\ u[m].cap = z.allocs[m].cap
                       /\ u[m].prev = IF m = j + 1 THEN z.allocs[j].prev
                                                   ELSE z.allocs[m].prev
  <1> DEFINE n == Len(z.allocs)
             u == Unlink(z.allocs, j)
             fixed == [i \in 1..n |->
                         IF i = j + 1
                         THEN [z.allocs[i] EXCEPT !.prev = z.allocs[j].prev]
                         ELSE z.allocs[i]]
  <1>1. n \in Nat /\ \A i \in 1..n : z.allocs[i] \in Alloc
    BY ElementOfSeq DEF Zone
  <1>2. \A i \in 1..n :
          /\ fixed[i] \in Alloc
          /\ fixed[i].at = z.allocs[i].at
          /\ fixed[i].size = z.allocs[i].size
          /\ fixed[i].cap = z.allocs[i].cap
          /\ fixed[i].prev = IF i = j + 1 THEN z.allocs[j].prev
                                          ELSE z.allocs[i].prev
    BY <1>1 DEF Alloc
  <1>3. Len(fixed) = n /\ fixed \in Seq(Alloc)
    <2>1. fixed = [i \in 1..n |-> fixed[i]]  OBVIOUS
    <2> HIDE DEF fixed
    <2>2. fixed \in [1..n -> Alloc]  BY <1>2, <2>1
    <2>. QED  BY <1>1, <2>2, SeqDef, LenProperties
  <1>4. CASE ~InPlace(z, j)
    <2>1. u = fixed  BY <1>4, PrevIndexInPlace DEF Unlink
    <2> HIDE DEF fixed
    <2>. QED  BY <1>2, <1>3, <1>4, <2>1
  <1>5. CASE InPlace(z, j)
    <2>1. PrevIndex(z.allocs, j) = {j - 1}  BY <1>5, PrevIndexInPlace
    <2>2. (CHOOSE i \in PrevIndex(z.allocs, j) : TRUE) = j - 1
      BY <2>1
    <2>3. u = SubSeq(fixed, 1, j - 1) \o SubSeq(fixed, j + 1, n)
      BY <1>3, <2>1, <2>2 DEF Unlink
    <2> HIDE DEF fixed, u
    <2> DEFINE a == SubSeq(fixed, 1, j - 1)
               b == SubSeq(fixed, j + 1, n)
    <2>4. /\ a \in Seq(Alloc) /\ Len(a) = j - 1
          /\ \A i \in 1..(j - 1) : a[i] = fixed[i]
      BY <1>1, <1>2, SubSeqProperties
    <2>5. /\ b \in Seq(Alloc) /\ Len(b) = n - j
          /\ \A i \in 1..(n - j) : b[i] = fixed[j + i]
      <3>1. \A i \in (j + 1)..n : fixed[i] \in Alloc  BY <1>1, <1>2
      <3>2. n - (j + 1) + 1 = n - j
            /\ (j + 1 <= n \/ n - j = 0)
            /\ \A i \in 1..(n - j) : (j + 1) + i - 1 = j + i
        BY <1>1
      <3>. QED  BY <1>1, <3>1, <3>2, SubSeqProperties
    <2>6. u = a \o b  BY <2>3 DEF a, b
    <2> HIDE DEF a, b
    <2>7. /\ Len(a \o b) = Len(a) + Len(b)
          /\ \A i \in 1..(Len(a) + Len(b)) :
               (a \o b)[i] = IF i <= Len(a) THEN a[i] ELSE b[i - Len(a)]
      BY <2>4, <2>5, ConcatProperties
    <2>8. Len(u) = n - 1
      <3>1. Len(a) + Len(b) = n - 1  BY <1>1, <2>4, <2>5
      <3>. QED  BY <2>7, <2>6, <3>1
    <2>9. ASSUME NEW m \in 1..(n - 1)
          PROVE  u[m] = fixed[IF m < j THEN m ELSE m + 1]
      <3>1. u[m] = IF m <= j - 1 THEN a[m] ELSE b[m - (j - 1)]
        BY <1>1, <2>4, <2>5, <2>7, <2>6
      <3>2. CASE m < j  BY <1>1, <2>4, <3>1, <3>2
      <3>3. CASE ~(m < j)
        <4>1. m - (j - 1) \in 1..(n - j) /\ j + (m - (j - 1)) = m + 1
              /\ ~(m <= j - 1)
          BY <1>1, <3>3
        <4>. QED  BY <2>5, <3>1, <3>3, <4>1
      <3>. QED  BY <3>2, <3>3
    <2>10. ASSUME NEW m \in 1..(n - 1)
          PROVE  LET o == IF m < j THEN m ELSE m + 1
                 IN  /\ u[m].at = z.allocs[o].at
                     /\ u[m].size = z.allocs[o].size
                     /\ u[m].cap = z.allocs[o].cap
                     /\ u[m].prev = IF m = j THEN z.allocs[j].prev
                                             ELSE z.allocs[o].prev
      <3> DEFINE o == IF m < j THEN m ELSE m + 1
      <3>1. o \in 1..n /\ (o = j + 1 <=> m = j)  BY <1>1
      <3>. QED  BY <1>2, <2>9, <3>1
    <2>. QED  BY <1>5, <2>8, <2>10 DEF u
  <1>. QED  BY <1>4, <1>5

(* Unlinking keeps a list ascending, its links sound, or all in place, and *)
(* its blocks disjoint.                                                  *)
LEMMA UnlinkKeepsList ==
  ASSUME NEW z \in Zone, Sorted(z), LinksSound(z),
         NEW j \in 1..Len(z.allocs),
         NEW y \in Zone, y.base = z.base, y.allocs = Unlink(z.allocs, j)
  PROVE  /\ Sorted(y)
         /\ LinksSound(y)
         /\ Linked(z) => Linked(y)
         /\ Ordered(z) => Ordered(y)
  <1> DEFINE n == Len(z.allocs)
             x == z.allocs[j].prev
  <1>1. /\ n \in Nat /\ DOMAIN z.allocs = 1..n
        /\ \A i \in 1..n : /\ z.allocs[i] \in Alloc
                           /\ z.allocs[i].at \in Nat
                           /\ z.allocs[i].prev \in Nat
        /\ FirstSlot(y) = FirstSlot(z) /\ FirstSlot(z) \in Nat
        /\ FirstSlot(z) > 0
        /\ DOMAIN y.allocs = 1..Len(y.allocs)
    <2>1. /\ z.allocs \in Seq(Alloc) /\ y.allocs \in Seq(Alloc)
          /\ z.base \in Nat
      BY DEF Zone
    <2>2. n \in Nat /\ DOMAIN z.allocs = 1..n
          /\ DOMAIN y.allocs = 1..Len(y.allocs)
      BY <2>1, LenProperties
    <2>3. \A i \in 1..n : z.allocs[i] \in Alloc  BY <2>1, ElementOfSeq
    <2>4. FirstSlot(y) = FirstSlot(z) /\ FirstSlot(z) \in Nat
          /\ FirstSlot(z) > 0
      BY <2>1, SizesAssumption DEF FirstSlot
    <2>. QED  BY <2>2, <2>3, <2>4, AllocAddresses
  <1>2. CASE ~InPlace(z, j)
    <2>1. /\ Len(y.allocs) = n
          /\ \A m \in 1..n :
               /\ y.allocs[m].at = z.allocs[m].at
               /\ y.allocs[m].size = z.allocs[m].size
               /\ y.allocs[m].prev = IF m = j + 1 THEN x
                                     ELSE z.allocs[m].prev
      BY <1>2, UnlinkList
    <2>2. Dangles(z, j)  BY <1>1, <1>2 DEF LinksSound
    <2>3. Sorted(y)  BY <1>1, <2>1 DEF Sorted
    <2>4. ASSUME Ordered(z) PROVE Ordered(y)
      BY <1>1, <2>1, <2>4 DEF Ordered, End, Chunk
    <2>5. ASSUME NEW m \in 1..n, m # j + 1
          PROVE  InPlace(y, m) <=> InPlace(z, m)
      <3>1. m = 1 \/ m - 1 \in 1..n  BY <1>1
      <3>. QED  BY <2>1, <2>5, <3>1 DEF InPlace
    <2>6. ASSUME j + 1 \in 1..n
          PROVE  ~InPlace(y, j + 1) /\ Dangles(y, j + 1)
      <3>1. /\ x >= FirstSlot(y) + AllocHdr /\ ClearOfHeaders(y, x)
            /\ x # y.allocs[j].at
        <4>1. x >= FirstSlot(z) + AllocHdr /\ ClearOfHeaders(z, x)
          BY <2>2 DEF Dangles
        <4>2. x \in Nat /\ z.allocs[j].at \in Nat  BY <1>1
        <4> HIDE DEF x
        <4>3. ClearOfHeaders(y, x)
          BY <1>1, <2>1, <4>1 DEF ClearOfHeaders
        <4>4. \/ x + AllocHdr <= z.allocs[j].at
              \/ z.allocs[j].at + AllocHdr <= x
          BY <1>1, <4>1 DEF ClearOfHeaders
        <4>5. x # z.allocs[j].at  BY <4>2, <4>4, SizesAssumption
        <4>. QED  BY <1>1, <2>1, <4>1, <4>3, <4>5
      <3>2. x + AllocHdr <= z.allocs[j + 1].at
        <4>1. /\ z.allocs[j].at \in Nat /\ z.allocs[j + 1].at \in Nat
              /\ z.allocs[j].at <= z.allocs[j + 1].at
          <5>1. j <= j + 1  BY <1>1
          <5>. QED  BY <2>6, <5>1, LaterNotBelow
        <4>2. x \in Nat  BY <1>1
        <4>3. x + AllocHdr <= z.allocs[j].at
                => x + AllocHdr <= z.allocs[j + 1].at
          <5> HIDE DEF x
          <5>. QED  BY <4>1, <4>2, RoomFurtherOut
        <4>. QED  BY <2>2, <4>3 DEF Dangles
      <3>3. y.allocs[j + 1].prev = x  BY <2>1, <2>6
      <3>4. y.allocs[j + 1].prev + AllocHdr <= y.allocs[j + 1].at
        BY <2>1, <2>6, <3>2, <3>3
      <3>5. Dangles(y, j + 1)
        BY <1>1, <2>1, <3>1, <3>3, <3>4 DEF Dangles
      <3>6. j + 1 # 1 /\ (j + 1) - 1 = j  BY <1>1
      <3>7. ~InPlace(y, j + 1)  BY <3>1, <3>3, <3>6 DEF InPlace
      <3>. QED  BY <3>5, <3>7
    <2>7. ASSUME NEW m \in 1..n, m # j + 1, Dangles(z, m)
          PROVE  Dangles(y, m)
      <3>1. y.allocs[m].prev = z.allocs[m].prev /\ y.allocs[m].at = z.allocs[m].at
        BY <2>1, <2>7
      <3>2. /\ y.allocs[m].prev >= FirstSlot(y) + AllocHdr
            /\ ClearOfHeaders(y, y.allocs[m].prev)
        BY <1>1, <2>1, <2>7, <3>1 DEF Dangles, ClearOfHeaders
      <3>3. ASSUME m < n, z.allocs[m].prev + AllocHdr <= z.allocs[m + 1].at,
                   ~InPlace(z, m + 1)
            PROVE  /\ y.allocs[m].prev + AllocHdr <= y.allocs[m + 1].at
                   /\ ~InPlace(y, m + 1)
        <4>1. m + 1 \in 1..n  BY <1>1, <3>3
        <4>2. y.allocs[m].prev + AllocHdr <= y.allocs[m + 1].at
          BY <2>1, <3>1, <3>3, <4>1
        <4>3. CASE m = j  BY <2>6, <4>1, <4>2, <4>3
        <4>4. CASE m # j
          <5>1. m + 1 # j + 1  BY <1>1, <4>4
          <5>. QED  BY <2>5, <3>3, <4>1, <4>2, <5>1
        <4>. QED  BY <4>3, <4>4
      <3>. QED  BY <1>1, <2>1, <2>7, <3>1, <3>2, <3>3 DEF Dangles
    <2>8. LinksSound(y)
      BY <1>1, <2>1, <2>5, <2>6, <2>7 DEF LinksSound
    <2>9. ~Linked(z)  BY <1>1, <1>2 DEF Linked
    <2>. QED  BY <2>3, <2>4, <2>8, <2>9
  <1>3. CASE InPlace(z, j)
    <2> DEFINE o(m) == IF m < j THEN m ELSE m + 1
    <2>1. /\ Len(y.allocs) = n - 1
          /\ \A m \in 1..(n - 1) :
               /\ y.allocs[m].at = z.allocs[o(m)].at
               /\ y.allocs[m].size = z.allocs[o(m)].size
               /\ y.allocs[m].prev = IF m = j THEN x ELSE z.allocs[o(m)].prev
      BY <1>3, UnlinkList
    <2>2. /\ \A m \in 1..(n - 1) : o(m) \in 1..n
          /\ \A l, m \in 1..(n - 1) : l < m => o(l) < o(m)
      BY <1>1
    <2>3. /\ DOMAIN y.allocs = 1..(n - 1)
          /\ \A m \in 1..(n - 1) : End(y.allocs[m]) = End(z.allocs[o(m)])
      BY <1>1, <2>1 DEF End, Chunk
    <2> HIDE DEF o
    <2>4. Sorted(y)
      <3>1. \A m \in 1..(n - 1) : y.allocs[m].at >= FirstSlot(y)
        BY <1>1, <2>1, <2>2 DEF Sorted
      <3>2. ASSUME NEW l \in 1..(n - 1), NEW m \in 1..(n - 1), l < m
            PROVE  y.allocs[l].at < y.allocs[m].at
        BY <1>1, <2>1, <2>2, <3>2 DEF Sorted
      <3>. QED  BY <2>3, <3>1, <3>2 DEF Sorted
    <2>5. ASSUME Ordered(z) PROVE Ordered(y)
      <3>1. ASSUME NEW l \in 1..(n - 1), NEW m \in 1..(n - 1), l < m
            PROVE  End(y.allocs[l]) <= y.allocs[m].at
        <4>1. o(l) \in 1..n /\ o(m) \in 1..n /\ o(l) < o(m)  BY <2>2, <3>1
        <4>2. End(z.allocs[o(l)]) <= z.allocs[o(m)].at
          BY <1>1, <2>5, <4>1 DEF Ordered
        <4>. QED  BY <2>1, <2>3, <4>2
      <3>. QED  BY <2>3, <2>4, <3>1 DEF Ordered, Sorted
    <2>6. ASSUME NEW m \in 1..(n - 1), m = j PROVE InPlace(y, m)
      <3>1. y.allocs[m].prev = x  BY <2>1, <2>6
      <3>2. CASE j = 1  BY <1>3, <2>6, <3>1, <3>2 DEF InPlace
      <3>3. CASE j # 1
        <4>1. m - 1 \in 1..(n - 1) /\ o(m - 1) = j - 1 /\ m # 1
          BY <1>1, <2>6, <3>3 DEF o
        <4>2. x = z.allocs[j - 1].at  BY <1>3, <3>3 DEF InPlace
        <4>3. y.allocs[m - 1].at = z.allocs[j - 1].at  BY <2>1, <4>1
        <4>. QED  BY <3>1, <4>1, <4>2, <4>3 DEF InPlace
      <3>. QED  BY <3>2, <3>3
    <2>7. ASSUME NEW m \in 1..(n - 1), m # j
          PROVE  InPlace(y, m) <=> InPlace(z, o(m))
      <3>1. y.allocs[m].prev = z.allocs[o(m)].prev  BY <2>1, <2>7
      <3>2. CASE m = 1
        <4>1. o(m) = 1  BY <1>1, <2>7, <3>2 DEF o
        <4>. QED  BY <3>1, <3>2, <4>1 DEF InPlace
      <3>3. CASE m # 1
        <4>1. m - 1 \in 1..(n - 1) /\ o(m - 1) = o(m) - 1 /\ o(m) # 1
          BY <1>1, <2>7, <3>3 DEF o
        <4>2. y.allocs[m - 1].at = z.allocs[o(m) - 1].at  BY <2>1, <4>1
        <4>. QED  BY <3>1, <3>3, <4>1, <4>2 DEF InPlace
      <3>. QED  BY <3>2, <3>3
    <2>8. ASSUME NEW m \in 1..(n - 1), m # j, Dangles(z, o(m))
          PROVE  Dangles(y, m)
      <3> DEFINE w == z.allocs[o(m)].prev
      <3>1. o(m) \in 1..n /\ y.allocs[m].prev = w
            /\ y.allocs[m].at = z.allocs[o(m)].at
        BY <2>1, <2>2, <2>8
      <3>2. w >= FirstSlot(y) + AllocHdr /\ ClearOfHeaders(y, w)
        <4>1. w >= FirstSlot(z) + AllocHdr /\ ClearOfHeaders(z, w)
          BY <2>8 DEF Dangles
        <4> HIDE DEF w
        <4>. QED  BY <1>1, <2>1, <2>2, <2>3, <4>1 DEF ClearOfHeaders
      <3>3. ASSUME o(m) < n, w + AllocHdr <= z.allocs[o(m) + 1].at,
                   ~InPlace(z, o(m) + 1)
            PROVE  /\ m < n - 1 /\ w + AllocHdr <= y.allocs[m + 1].at
                   /\ ~InPlace(y, m + 1)
        <4>1. o(m) + 1 # j  BY <1>3, <3>3
        <4>2. m + 1 \in 1..(n - 1) /\ o(m + 1) = o(m) + 1 /\ m + 1 # j
          BY <1>1, <2>8, <3>3, <4>1 DEF o
        <4>3. y.allocs[m + 1].at = z.allocs[o(m) + 1].at  BY <2>1, <4>2
        <4>4. ~InPlace(y, m + 1)  BY <2>7, <3>3, <4>2
        <4>. QED  BY <1>1, <3>3, <4>2, <4>3, <4>4
      <3> HIDE DEF w
      <3>4. \/ w + AllocHdr <= z.allocs[o(m)].at
            \/ /\ o(m) < n /\ w + AllocHdr <= z.allocs[o(m) + 1].at
               /\ ~InPlace(z, o(m) + 1)
        BY <2>8 DEF Dangles, w
      <3>. QED  BY <2>1, <2>3, <3>1, <3>2, <3>3, <3>4 DEF Dangles
    <2>9. LinksSound(y)
      <3>1. ASSUME NEW m \in 1..(n - 1) PROVE InPlace(y, m) \/ Dangles(y, m)
        <4>1. InPlace(z, o(m)) \/ Dangles(z, o(m))
          BY <1>1, <2>2 DEF LinksSound
        <4>. QED  BY <2>6, <2>7, <2>8, <4>1
      <3>. QED  BY <2>3, <3>1 DEF LinksSound
    <2>10. ASSUME Linked(z) PROVE Linked(y)
      <3>1. ASSUME NEW m \in 1..(n - 1) PROVE InPlace(y, m)
        <4>1. InPlace(z, o(m))  BY <1>1, <2>2, <2>10 DEF Linked
        <4>. QED  BY <2>6, <2>7, <4>1
      <3>. QED  BY <2>3, <3>1 DEF Linked
    <2>. QED  BY <2>4, <2>5, <2>9, <2>10
  <1>. QED  BY <1>2, <1>3

-----------------------------------------------------------------------------
(* Resizing a block, and the whole of _creat_client_mem_ptr              *)

(* A block shrunk where it is keeps the order and the links of its list. *)
LEMMA ResizeKeepsList ==
  ASSUME NEW z \in Zone, Sorted(z), LinksSound(z),
         NEW j \in 1..Len(z.allocs), NEW size \in Nat,
         NEW y \in Zone, y.base = z.base,
         y.allocs = [z.allocs EXCEPT ![j].size = size]
  PROVE  /\ Sorted(y)
         /\ LinksSound(y)
         /\ Linked(z) => Linked(y)
  <1> DEFINE n == Len(z.allocs)
             a == [z.allocs[j] EXCEPT !.size = size]
  <1>1. /\ z.allocs \in Seq(Alloc) /\ n \in Nat /\ DOMAIN z.allocs = 1..n
        /\ \A i \in 1..n : z.allocs[i] \in Alloc
        /\ FirstSlot(y) = FirstSlot(z)
    BY LenProperties, ElementOfSeq DEF Zone, FirstSlot
  <1>2. a \in Alloc /\ a.at = z.allocs[j].at /\ a.prev = z.allocs[j].prev
    BY <1>1 DEF Alloc
  <1>3. y.allocs = [z.allocs EXCEPT ![j] = a]  OBVIOUS
  <1> HIDE DEF a
  <1>4. /\ DOMAIN y.allocs = 1..n /\ Len(y.allocs) = n
        /\ \A i \in 1..n : y.allocs[i].at = z.allocs[i].at
                           /\ y.allocs[i].prev = z.allocs[i].prev
    BY <1>1, <1>2, <1>3, ExceptSeq
  <1>5. Sorted(y)
    <2>1. \A i \in 1..n : y.allocs[i].at >= FirstSlot(y)
      BY <1>1, <1>4 DEF Sorted
    <2>2. ASSUME NEW i \in 1..n, NEW m \in 1..n, i < m
          PROVE  y.allocs[i].at < y.allocs[m].at
      BY <1>4, <2>2, LaterNotBelow
    <2>. QED  BY <1>4, <2>1, <2>2 DEF Sorted
  <1>6. ASSUME NEW i \in 1..n PROVE InPlace(y, i) <=> InPlace(z, i)
    <2>1. i = 1 \/ i - 1 \in 1..n  BY <1>1
    <2>. QED  BY <1>4, <2>1 DEF InPlace
  <1>7. ASSUME NEW i \in 1..n, Dangles(z, i) PROVE Dangles(y, i)
    <2>1. i < n => i + 1 \in 1..n  BY <1>1
    <2>2. ClearOfHeaders(y, y.allocs[i].prev)
      BY <1>1, <1>4, <1>7 DEF Dangles, ClearOfHeaders
    <2>. QED  BY <1>1, <1>4, <1>6, <1>7, <2>1, <2>2 DEF Dangles
  <1>8. LinksSound(y)  BY <1>1, <1>4, <1>6, <1>7 DEF LinksSound
  <1>9. Linked(z) => Linked(y)  BY <1>1, <1>4, <1>6 DEF Linked
  <1>. QED  BY <1>5, <1>8, <1>9

(* What the zone and the pointer are after a block was carved out of it. *)
LEMMA CarveKeepsZone ==
  ASSUME NEW z \in Zone, NEW size \in Nat, NEW c \in Carve(z, size)
  PROVE  /\ c.ptr \in Nat
         /\ c.zone \in Zone
         /\ c.zone.base = z.base
         /\ c.zone.type = z.type
         /\ c.zone.allocs # << >>
         /\ z.allocs = << >> => Len(c.zone.allocs) = 1 /\ c.listed
         /\ Sorted(z) /\ LinksSound(z) =>
              /\ Sorted(c.zone)
              /\ LinksSound(c.zone)
              /\ Linked(z) /\ c.listed => Linked(c.zone)
              /\ Ordered(z) => Ordered(c.zone)
  <1>1. PICK p \in GetAlloc(z, size) :
          c = [zone |-> UpdateFreeMemSize(z, p.allocs, ZoneMemSize(size, z.type)),
               ptr  |-> p.at + AllocHdr,
               listed |-> Len(p.allocs) > Len(z.allocs)]
    BY DEF Carve
  <1>2. p.at \in Nat /\ p.allocs \in Seq(Alloc) /\ p.allocs # << >>
        /\ (z.allocs = << >> => Len(p.allocs) = 1)
    BY GetAllocType
  <1>3. ZoneMemSize(size, z.type) \in Nat /\ ZoneMemSize(size, z.type) >= ZoneHdr
    BY ZoneMemSizeBounds, SizesAssumption DEF Zone
  <1>4. /\ c.zone \in Zone /\ c.zone.base = z.base /\ c.zone.type = z.type
        /\ c.zone.allocs = p.allocs
    BY <1>1, <1>2, <1>3, UpdateFreeMemSizeType
  <1>5. c.ptr \in Nat  BY <1>1, <1>2, SizesAssumption
  <1>6. c.listed = (Len(p.allocs) > Len(z.allocs))  BY <1>1, Zenon
  <1>7. z.allocs = << >> => c.listed
    <2>1. z.allocs = << >> => Len(p.allocs) > Len(z.allocs)
      BY <1>2, EmptySeq
    <2>. QED  BY <1>6, <2>1, Zenon
  <1>. QED  BY <1>2, <1>4, <1>5, <1>7, <1>6, GetAllocKeepsList
=============================================================================
