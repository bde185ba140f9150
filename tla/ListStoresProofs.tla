-------------------------- MODULE ListStoresProofs --------------------------
(***************************************************************************)
(* The stores of malloc and free, one by one, add up to the atomic list    *)
(* operations of ZoneList, and the handler of SIGINT sees every block but  *)
(* the one the call is about wherever it stops them: for every page, zone  *)
(* and header size and every set of tiny requests.                         *)
(***************************************************************************)
EXTENDS ListStores, AllocListProofs

(* A header as _set_new_alloc writes it.                                   *)
Header == [next: Nat, prev: Nat, size: Nat, cap: Nat]

(* Finitely many headers, all behind the header of the zone.               *)
HeapOK(h) ==
  /\ IsFiniteSet(DOMAIN h)
  /\ DOMAIN h \subseteq Nat
  /\ h \in [DOMAIN h -> Header]
  /\ \A a \in DOMAIN h : a >= Base + ZoneHdr

(* The next pointer of the i-th block of a list whose last one points to   *)
(* end.                                                                    *)
NextOf(L, i, end) == IF i = Len(L) THEN end ELSE L[i + 1].at

HeaderOf(L, i, end) ==
  [next |-> NextOf(L, i, end), prev |-> L[i].prev,
   size |-> L[i].size, cap |-> L[i].cap]

(* The headers in h, reached from pool, are those of the list L, with end  *)
(* in the last next pointer.                                               *)
Shows(h, pool, L, end) ==
  /\ pool = IF Len(L) = 0 THEN end ELSE L[1].at
  /\ \A i \in 1..Len(L) : /\ L[i].at \in DOMAIN h
                          /\ h[L[i].at] = HeaderOf(L, i, end)

Ascends(L) ==
  \A i, j \in 1..Len(L) : i < j => L[i].at < L[j].at

ZoneOf(L, free) == [base |-> Base, type |-> "tiny", free |-> free, allocs |-> L]

-----------------------------------------------------------------------------
(* The walk of the handler                                                 *)

LEMMA AscendsInjective ==
  ASSUME NEW L \in Seq(Alloc), Ascends(L)
  PROVE  /\ \A i \in 1..Len(L) : L[i] \in Alloc /\ L[i].at \in Nat
         /\ \A i, j \in 1..Len(L) : L[i].at = L[j].at => i = j
  <1>1. \A i \in 1..Len(L) : L[i] \in Alloc /\ L[i].at \in Nat
    <2>1. \A i \in 1..Len(L) : L[i] \in Alloc  BY ElementOfSeq
    <2>. QED  BY <2>1, AllocAddresses
  <1>2. ASSUME NEW i \in 1..Len(L), NEW j \in 1..Len(L), i # j
        PROVE  L[i].at # L[j].at
    <2>1. i < j \/ j < i  BY <1>2
    <2>. QED  BY <1>1, <2>1 DEF Ascends
  <1>. QED  BY <1>1, <1>2

(* The fields of the header of a listed block.                             *)
LEMMA HeaderAt ==
  ASSUME NEW h, NEW pool, NEW L, NEW end, Shows(h, pool, L, end),
         NEW i \in 1..Len(L)
  PROVE  /\ L[i].at \in DOMAIN h
         /\ h[L[i].at].next = NextOf(L, i, end)
         /\ h[L[i].at].prev = L[i].prev
         /\ h[L[i].at].size = L[i].size
         /\ h[L[i].at].cap = L[i].cap
  <1>1. L[i].at \in DOMAIN h /\ h[L[i].at] = HeaderOf(L, i, end)
    BY DEF Shows
  <1>. QED  BY <1>1 DEF HeaderOf

(* A list with all its headers in memory is no longer than these are many. *)
LEMMA ListFits ==
  ASSUME NEW h, HeapOK(h), NEW L \in Seq(Alloc), Ascends(L),
         NEW pool, NEW end, Shows(h, pool, L, end)
  PROVE  /\ Cardinality(DOMAIN h) \in Nat
         /\ Len(L) \in Nat
         /\ Len(L) <= Cardinality(DOMAIN h)
  <1> DEFINE f == [i \in 1..Len(L) |-> L[i].at]
  <1>1. Len(L) \in Nat  OBVIOUS
  <1>2. IsFiniteSet(DOMAIN h) /\ Cardinality(DOMAIN h) \in Nat
    BY FS_CardinalityType DEF HeapOK
  <1>3. f \in Injection(1..Len(L), DOMAIN h)
    <2>1. \A i \in 1..Len(L) : L[i].at \in DOMAIN h  BY DEF Shows
    <2>2. f \in [1..Len(L) -> DOMAIN h]  BY <2>1
    <2>3. \A i, j \in 1..Len(L) : f[i] = f[j] => i = j  BY AscendsInjective
    <2> HIDE DEF f
    <2>. QED  BY <2>2, <2>3 DEF Injection, IsInjective
  <1>4. Cardinality(1..Len(L)) <= Cardinality(DOMAIN h)
    <2> HIDE DEF f
    <2>. QED  BY <1>2, <1>3, FS_Injection
  <1>5. Cardinality(1..Len(L)) = Len(L)
    <2>1. Cardinality(1..Len(L)) = IF 1 > Len(L) THEN 0 ELSE Len(L) - 1 + 1
      BY <1>1, FS_Interval
    <2>. QED  BY <1>1, <2>1
  <1>. QED  BY <1>1, <1>2, <1>4, <1>5

(* Following the next pointers: the recursion has the one solution.        *)
LEMMA ReachedOf ==
  ASSUME HeapOK(heap), NEW L \in Seq(Alloc), Ascends(L),
         Shows(heap, alloc_pool, L, NULL)
  PROVE  /\ DOMAIN Reached = 1..(Cardinality(DOMAIN heap) + 1)
         /\ \A n \in DOMAIN Reached :
              Reached[n] = IF n <= Len(L) THEN L[n].at ELSE NULL
  <1> DEFINE c == Cardinality(DOMAIN heap)
             D == 1..(c + 1)
             Step(at, n) == IF n = 1 THEN alloc_pool
                            ELSE IF at[n - 1] \in DOMAIN heap
                                 THEN heap[at[n - 1]].next ELSE NULL
             w == [n \in D |-> IF n <= Len(L) THEN L[n].at ELSE NULL]
  <1>1. c \in Nat /\ Len(L) \in Nat /\ Len(L) <= c  BY ListFits
  <1>2. NULL \notin DOMAIN heap
    BY SizesAssumption, ListStoresAssumption DEF HeapOK, NULL
  <1>3. ASSUME NEW at, NEW n \in D,
               n # 1 => at[n - 1] = w[n - 1]
        PROVE  Step(at, n) = w[n]
    <2>1. CASE n = 1
      <3>1. w[1] = IF Len(L) = 0 THEN NULL ELSE L[1].at  BY <1>1
      <3>. QED  BY <2>1, <3>1 DEF Shows
    <2>2. CASE n # 1
      <3>1. n - 1 \in D /\ n - 1 \in Nat  BY <1>1, <2>2
      <3>2. CASE n - 1 <= Len(L)
        <4>1. n - 1 \in 1..Len(L)  BY <1>1, <3>1, <3>2
        <4>2. at[n - 1] = L[n - 1].at  BY <1>3, <2>2, <3>1, <3>2
        <4>3. /\ L[n - 1].at \in DOMAIN heap
              /\ heap[L[n - 1].at].next = NextOf(L, n - 1, NULL)
          <5> DEFINE k == n - 1
          <5>1. k \in 1..Len(L)  BY <4>1
          <5> HIDE DEF k
          <5>2. L[k].at \in DOMAIN heap /\ heap[L[k].at].next = NextOf(L, k, NULL)
            BY <5>1, HeaderAt
          <5>. QED  BY <5>2 DEF k
        <4>4. NextOf(L, n - 1, NULL) = w[n]
          <5>1. (n - 1) + 1 = n  BY <1>1
          <5>2. n - 1 = Len(L) => ~(n <= Len(L))  BY <1>1
          <5>3. n - 1 # Len(L) => n <= Len(L)  BY <1>1, <3>2
          <5>. QED  BY <5>1, <5>2, <5>3 DEF NextOf
        <4>. QED  BY <2>2, <4>2, <4>3, <4>4
      <3>3. CASE ~(n - 1 <= Len(L))
        <4>1. at[n - 1] = NULL  BY <1>3, <2>2, <3>1, <3>3
        <4>2. w[n] = NULL  BY <1>1, <3>1, <3>3
        <4>. QED  BY <1>2, <2>2, <4>1, <4>2
      <3>. QED  BY <3>2, <3>3
    <2>. QED  BY <2>1, <2>2
  <1>4. w = [n \in D |-> Step(w, n)]
    <2>1. \A n \in D : Step(w, n) = w[n]  BY <1>3
    <2> HIDE DEF Step
    <2>. QED  BY <2>1
  <1>5. Reached = [n \in D |-> Step(Reached, n)]
    <2> DEFINE r == CHOOSE at : at = [n \in D |-> Step(at, n)]
    <2>1. r = [n \in D |-> Step(r, n)]
      <3> HIDE DEF w, Step
      <3>. QED  BY <1>4
    <2>2. Reached = r  BY DEF Reached
    <2>. QED  BY <2>1, <2>2
  <1>6. DOMAIN Reached = D /\ \A n \in D : Reached[n] = Step(Reached, n)
    <2> HIDE DEF Step
    <2>. QED  BY <1>5
  <1> DEFINE Bad == {n \in D : Reached[n] # w[n]}
  <1>7. Bad = {}
    <2> SUFFICES ASSUME Bad # {} PROVE FALSE  OBVIOUS
    <2>1. FirstOf(Bad) # {}
      <3>1. Bad \in SUBSET (1..(c + 1)) /\ c + 1 \in Nat  BY <1>1
      <3> HIDE DEF Bad, c
      <3>. QED  BY <3>1, FirstOfSome
    <2>2. PICK n \in Bad : \A m \in Bad : n <= m  BY <2>1 DEF FirstOf
    <2>3. n \in D /\ Reached[n] # w[n]  BY <2>2
    <2>4. n # 1 => Reached[n - 1] = w[n - 1]
      <3>1. n # 1 => n - 1 \in D /\ ~(n <= n - 1)  BY <1>1, <2>3
      <3>2. n # 1 => n - 1 \notin Bad  BY <2>2, <3>1
      <3> HIDE DEF w
      <3>. QED  BY <3>1, <3>2
    <2> HIDE DEF w, Step
    <2>. QED  BY <1>3, <1>6, <2>3, <2>4
  <1>. QED  BY <1>6, <1>7

(* The walk visits the list, and the zone in memory is the one listed.     *)
LEMMA WalkOf ==
  ASSUME HeapOK(heap), NEW L \in Seq(Alloc), Ascends(L),
         Shows(heap, alloc_pool, L, NULL)
  PROVE  /\ Walk = [i \in 1..Len(L) |-> L[i].at]
         /\ ZoneInMemory = ZoneOf(L, free_mem)
  <1> DEFINE c == Cardinality(DOMAIN heap)
  <1>1. c \in Nat /\ Len(L) \in Nat /\ Len(L) <= c  BY ListFits
  <1>2. /\ DOMAIN Reached = 1..(c + 1)
        /\ \A n \in 1..(c + 1) :
             Reached[n] = IF n <= Len(L) THEN L[n].at ELSE NULL
    BY ReachedOf
  <1>3. \A i \in 1..Len(L) : L[i].at # NULL /\ L[i] \in Alloc
    <2>1. \A i \in 1..Len(L) : L[i].at \in DOMAIN heap  BY DEF Shows
    <2>2. NULL \notin DOMAIN heap
      BY SizesAssumption, ListStoresAssumption DEF HeapOK, NULL
    <2>. QED  BY <2>1, <2>2, AscendsInjective
  <1>4. {m \in DOMAIN Reached : Reached[m] # NULL} = 1..Len(L)
    <2>1. 1..Len(L) \subseteq 1..(c + 1)  BY <1>1
    <2> HIDE DEF c
    <2>2. ASSUME NEW m \in 1..(c + 1)
          PROVE  Reached[m] # NULL <=> m \in 1..Len(L)
      <3>1. m <= Len(L) <=> m \in 1..Len(L)  BY <1>1
      <3>. QED  BY <1>2, <1>3, <3>1
    <2>. QED  BY <1>2, <2>1, <2>2
  <1>5. Walk = [i \in 1..Len(L) |-> L[i].at]
    <2>1. \A i \in 1..Len(L) : Reached[i] = L[i].at
      <3>1. \A i \in 1..Len(L) : i \in 1..(c + 1) /\ i <= Len(L)  BY <1>1
      <3>. QED  BY <1>2, <3>1
    <2>2. Walk = [i \in 1..Len(L) |-> Reached[i]]  BY <1>4 DEF Walk
    <2>. QED  BY <2>1, <2>2
  <1>6. [i \in DOMAIN Walk |->
           [at |-> Walk[i], prev |-> heap[Walk[i]].prev,
            size |-> heap[Walk[i]].size, cap |-> heap[Walk[i]].cap]] = L
    <2>1. L = [i \in 1..Len(L) |-> L[i]]  OBVIOUS
    <2>2. ASSUME NEW i \in 1..Len(L)
          PROVE  [at |-> Walk[i], prev |-> heap[Walk[i]].prev,
                  size |-> heap[Walk[i]].size, cap |-> heap[Walk[i]].cap] = L[i]
      <3>1. Walk[i] = L[i].at  BY <1>5
      <3>2. /\ heap[L[i].at].prev = L[i].prev
            /\ heap[L[i].at].size = L[i].size
            /\ heap[L[i].at].cap = L[i].cap
        BY HeaderAt
      <3>3. L[i] = [at |-> L[i].at, prev |-> L[i].prev,
                    size |-> L[i].size, cap |-> L[i].cap]
        BY <1>3 DEF Alloc
      <3>. QED  BY <3>1, <3>2, <3>3
    <2>3. DOMAIN Walk = 1..Len(L)  BY <1>5
    <2>. QED  BY <2>1, <2>2, <2>3
  <1>. QED  BY <1>5, <1>6 DEF ZoneInMemory, ZoneOf

-----------------------------------------------------------------------------
(* Lists of blocks                                                         *)

(* The list with the prev pointer of its i-th block set.                   *)
WithPrev(L, i, prev) == [L EXCEPT ![i].prev = prev]

(* The list with its j-th block bypassed.                                  *)
Without(L, j) ==
  [m \in 1..(Len(L) - 1) |-> IF m < j THEN L[m] ELSE L[m + 1]]

SameFields(a, b) ==
  a.at = b.at /\ a.prev = b.prev /\ a.size = b.size /\ a.cap = b.cap

LEMMA SameLists ==
  ASSUME NEW L \in Seq(Alloc), NEW M \in Seq(Alloc), Len(L) = Len(M),
         \A i \in 1..Len(L) : SameFields(L[i], M[i])
  PROVE  L = M
  <1>1. ASSUME NEW i \in 1..Len(L) PROVE L[i] = M[i]
    <2>1. L[i] \in Alloc /\ M[i] \in Alloc  BY ElementOfSeq
    <2>2. SameFields(L[i], M[i])  OBVIOUS
    <2>3. ASSUME NEW a \in Alloc, NEW b \in Alloc, SameFields(a, b) PROVE a = b
      <3>1. ASSUME NEW c \in Alloc
            PROVE  c = [at |-> c.at, prev |-> c.prev, size |-> c.size, cap |-> c.cap]
        BY DEF Alloc
      <3>. QED  BY <2>3, <3>1 DEF SameFields
    <2>. QED  BY <2>1, <2>2, <2>3
  <1>2. L = [i \in 1..Len(L) |-> L[i]] /\ M = [i \in 1..Len(L) |-> M[i]]
    OBVIOUS
  <1>. QED  BY <1>1, <1>2

LEMMA WithPrevType ==
  ASSUME NEW L \in Seq(Alloc), NEW i \in 1..Len(L), NEW prev \in Nat
  PROVE  /\ WithPrev(L, i, prev) \in Seq(Alloc)
         /\ Len(WithPrev(L, i, prev)) = Len(L)
         /\ \A m \in 1..Len(L) :
              /\ WithPrev(L, i, prev)[m].at = L[m].at
              /\ WithPrev(L, i, prev)[m].size = L[m].size
              /\ WithPrev(L, i, prev)[m].cap = L[m].cap
              /\ WithPrev(L, i, prev)[m].prev = IF m = i THEN prev ELSE L[m].prev
         /\ Ascends(L) => Ascends(WithPrev(L, i, prev))
  <1> DEFINE a == [L[i] EXCEPT !.prev = prev]
  <1>1. L[i] \in Alloc  BY ElementOfSeq
  <1>2. /\ a \in Alloc /\ a.at = L[i].at /\ a.size = L[i].size
        /\ a.cap = L[i].cap /\ a.prev = prev
    BY <1>1 DEF Alloc
  <1>3. WithPrev(L, i, prev) = [L EXCEPT ![i] = a]  BY DEF WithPrev
  <1> HIDE DEF a
  <1>4. /\ WithPrev(L, i, prev) \in Seq(Alloc)
        /\ Len(WithPrev(L, i, prev)) = Len(L)
        /\ \A m \in 1..Len(L) :
             WithPrev(L, i, prev)[m] = IF m = i THEN a ELSE L[m]
    BY <1>2, <1>3, ExceptSeq
  <1>5. \A m \in 1..Len(L) :
          /\ WithPrev(L, i, prev)[m].at = L[m].at
          /\ WithPrev(L, i, prev)[m].size = L[m].size
          /\ WithPrev(L, i, prev)[m].cap = L[m].cap
          /\ WithPrev(L, i, prev)[m].prev = IF m = i THEN prev ELSE L[m].prev
    BY <1>2, <1>4
  <1>. QED  BY <1>4, <1>5 DEF Ascends

LEMMA WithoutType ==
  ASSUME NEW L \in Seq(Alloc), NEW j \in 1..Len(L)
  PROVE  /\ Without(L, j) \in Seq(Alloc)
         /\ Len(Without(L, j)) = Len(L) - 1
         /\ \A m \in 1..(Len(L) - 1) :
              Without(L, j)[m] = L[IF m < j THEN m ELSE m + 1]
         /\ Ascends(L) => Ascends(Without(L, j))
  <1> DEFINE n == Len(L)
             W == Without(L, j)
  <1>1. n \in Nat /\ j \in Nat /\ n - 1 \in Nat  OBVIOUS
  <1>2. ASSUME NEW m \in 1..(n - 1)
        PROVE  W[m] = L[IF m < j THEN m ELSE m + 1] /\ W[m] \in Alloc
    <2>1. m \in 1..n /\ m + 1 \in 1..n  BY <1>1
    <2>2. L[m] \in Alloc /\ L[m + 1] \in Alloc  BY <2>1, ElementOfSeq
    <2>. QED  BY <2>2 DEF Without
  <1>3. W \in [1..(n - 1) -> Alloc]  BY <1>2 DEF Without
  <1>4. W \in Seq(Alloc) /\ Len(W) = n - 1
    <2> HIDE DEF W, n
    <2>. QED  BY <1>1, <1>3, SeqDef, LenProperties
  <1>5. ASSUME Ascends(L) PROVE Ascends(W)
    <2> SUFFICES ASSUME NEW l \in 1..(n - 1), NEW m \in 1..(n - 1), l < m
                 PROVE  W[l].at < W[m].at
      BY <1>4 DEF Ascends
    <2> DEFINE k == IF l < j THEN l ELSE l + 1
               o == IF m < j THEN m ELSE m + 1
    <2>1. k \in 1..n /\ o \in 1..n /\ k < o  BY <1>1
    <2>2. L[k].at < L[o].at  BY <1>5, <2>1 DEF Ascends
    <2>3. W[l] = L[k] /\ W[m] = L[o]  BY <1>2
    <2>. QED  BY <2>2, <2>3
  <1>. QED  BY <1>2, <1>4, <1>5

-----------------------------------------------------------------------------
(* What a store does to the list in memory                                 *)

(* Headers outside the bytes that are written stay.                        *)
LEMMA WipeKeeps ==
  ASSUME NEW h, HeapOK(h), NEW lo, NEW hi,
         NEW L, NEW pool, NEW end, Shows(h, pool, L, end),
         \A i \in 1..Len(L) : L[i].at + AllocHdr <= lo \/ hi <= L[i].at
  PROVE  /\ HeapOK(Wipe(h, lo, hi))
         /\ Shows(Wipe(h, lo, hi), pool, L, end)
  <1> DEFINE D == {a \in DOMAIN h : a + AllocHdr <= lo \/ hi <= a}
             g == Wipe(h, lo, hi)
  <1>1. DOMAIN g = D /\ \A a \in D : g[a] = h[a]
    BY DEF Wipe, Restrict
  <1>2. g = [a \in D |-> h[a]]  BY DEF Wipe, Restrict
  <1>3. IsFiniteSet(D)
    <2>1. D \in SUBSET DOMAIN h  OBVIOUS
    <2> HIDE DEF D
    <2>. QED  BY <2>1, FS_Subset DEF HeapOK
  <1>4. HeapOK(g)
    <2>1. D \subseteq DOMAIN h  OBVIOUS
    <2>2. \A a \in D : h[a] \in Header /\ a \in Nat /\ a >= Base + ZoneHdr
      BY <2>1 DEF HeapOK
    <2>3. g \in [D -> Header]  BY <1>2, <2>2
    <2> HIDE DEF D, g
    <2>. QED  BY <1>1, <1>3, <2>2, <2>3 DEF HeapOK
  <1>5. \A i \in 1..Len(L) : L[i].at \in D  BY DEF Shows
  <1>6. Shows(g, pool, L, end)
    <2> HIDE DEF D, g
    <2>. QED  BY <1>1, <1>5 DEF Shows
  <1>. QED  BY <1>4, <1>6

(* A header written clear of the listed ones.                              *)
LEMMA WriteHeaderKeeps ==
  ASSUME HeapOK(heap), NEW at \in Nat, at >= Base + ZoneHdr,
         NEW header \in Header,
         NEW L, NEW pool, NEW end, Shows(heap, pool, L, end),
         \A i \in 1..Len(L) :
           \/ L[i].at + AllocHdr <= at
           \/ at + AllocHdr <= L[i].at
  PROVE  /\ HeapOK(WriteHeader(at, header))
         /\ Shows(WriteHeader(at, header), pool, L, end)
         /\ at \in DOMAIN WriteHeader(at, header)
         /\ WriteHeader(at, header)[at] = header
  <1> DEFINE w == Wipe(heap, at, at + AllocHdr)
             g == WriteHeader(at, header)
  <1>1. HeapOK(w) /\ Shows(w, pool, L, end)  BY WipeKeeps
  <1>2. \A a \in DOMAIN w : a + AllocHdr <= at \/ at + AllocHdr <= a
    BY DEF Wipe, Restrict
  <1>3. /\ DOMAIN g = DOMAIN w \cup {at}
        /\ g[at] = header
        /\ \A a \in DOMAIN w : a # at => g[a] = w[a]
        /\ g = [x \in DOMAIN g |-> g[x]]
    <2>1. g = [a \in DOMAIN w \cup {at} |-> IF a = at THEN header ELSE w[a]]
      BY DEF WriteHeader
    <2> HIDE DEF g, w
    <2>. QED  BY <2>1
  <1> HIDE DEF g, w
  <1>4. at \notin DOMAIN w
    BY <1>2, SizesAssumption
  <1>5. HeapOK(g)
    <2>1. IsFiniteSet(DOMAIN g)  BY <1>1, <1>3, FS_AddElement DEF HeapOK
    <2>2. \A a \in DOMAIN g : g[a] \in Header /\ a \in Nat /\ a >= Base + ZoneHdr
      BY <1>1, <1>3, <1>4 DEF HeapOK
    <2>. QED  BY <1>3, <2>1, <2>2 DEF HeapOK
  <1>6. Shows(g, pool, L, end)
    BY <1>1, <1>3, <1>4 DEF Shows
  <1>. QED  BY <1>3, <1>5, <1>6 DEF g

(* A pointer written where a header is changes that header only.           *)
LEMMA WriteFieldHeaders ==
  ASSUME HeapOK(heap), NEW at \in Nat, NEW field \in {"next", "prev"}, NEW val \in Nat
  PROVE  LET g == WriteField(at, field, val)
         IN  /\ HeapOK(g)
             /\ DOMAIN g = DOMAIN heap
             /\ \A a \in DOMAIN heap : a # at => g[a] = heap[a]
             /\ at \in DOMAIN heap =>
                  /\ g[at].size = heap[at].size /\ g[at].cap = heap[at].cap
                  /\ g[at].next = IF field = "next" THEN val ELSE heap[at].next
                  /\ g[at].prev = IF field = "prev" THEN val ELSE heap[at].prev
                  /\ g[at] \in Header
  <1> DEFINE g == WriteField(at, field, val)
             new == IF field = "next" THEN [heap[at] EXCEPT !.next = val]
                                      ELSE [heap[at] EXCEPT !.prev = val]
  <1>1. CASE at \notin DOMAIN heap  BY <1>1 DEF WriteField
  <1>2. CASE at \in DOMAIN heap
    <2>1. heap[at] \in Header  BY <1>2 DEF HeapOK
    <2>2. /\ new \in Header
          /\ new.size = heap[at].size /\ new.cap = heap[at].cap
          /\ new.next = IF field = "next" THEN val ELSE heap[at].next
          /\ new.prev = IF field = "prev" THEN val ELSE heap[at].prev
      BY <2>1 DEF Header
    <2>3. g = [heap EXCEPT ![at] = new]
      <3>1. CASE field = "next"  BY <1>2, <3>1 DEF WriteField
      <3>2. CASE field = "prev"  BY <1>2, <3>2 DEF WriteField
      <3>. QED  BY <3>1, <3>2
    <2> HIDE DEF new, g
    <2>4. heap = [a \in DOMAIN heap |-> heap[a]]  BY DEF HeapOK
    <2>5. /\ DOMAIN g = DOMAIN heap /\ g[at] = new
          /\ \A a \in DOMAIN heap : a # at => g[a] = heap[a]
      BY <1>2, <2>3
    <2>6. g \in [DOMAIN heap -> Header]
      BY <2>2, <2>3, <2>5 DEF HeapOK
    <2>7. HeapOK(g)
      BY <2>5, <2>6 DEF HeapOK
    <2>. QED  BY <2>2, <2>5, <2>7 DEF g
  <1>. QED  BY <1>1, <1>2

(* The equation of two headers, field by field.                            *)
LEMMA HeaderIs ==
  ASSUME NEW header \in Header, NEW L, NEW i, NEW end,
         header.next = NextOf(L, i, end), header.prev = L[i].prev,
         header.size = L[i].size, header.cap = L[i].cap
  PROVE  header = HeaderOf(L, i, end)
  <1>1. header = [next |-> header.next, prev |-> header.prev,
                  size |-> header.size, cap |-> header.cap]
    BY DEF Header
  <1>. QED  BY <1>1 DEF HeaderOf

(* Where no listed header is, a pointer may be written freely.             *)
LEMMA StoreElsewhere ==
  ASSUME HeapOK(heap), NEW at \in Nat, NEW field \in {"next", "prev"}, NEW val \in Nat,
         NEW L, NEW pool, NEW end, Shows(heap, pool, L, end),
         \A i \in 1..Len(L) : L[i].at # at
  PROVE  Shows(WriteField(at, field, val), pool, L, end)
  <1> DEFINE g == WriteField(at, field, val)
  <1>1. DOMAIN g = DOMAIN heap /\ \A a \in DOMAIN heap : a # at => g[a] = heap[a]
    BY WriteFieldHeaders
  <1> HIDE DEF g
  <1>2. Shows(g, pool, L, end)  BY <1>1 DEF Shows
  <1>. QED  BY <1>2 DEF g

(* A prev pointer of a listed header.                                      *)
LEMMA StorePrev ==
  ASSUME HeapOK(heap), NEW L \in Seq(Alloc), Ascends(L),
         NEW pool, NEW end, Shows(heap, pool, L, end),
         NEW i \in 1..Len(L), NEW val \in Nat
  PROVE  Shows(WriteField(L[i].at, "prev", val), pool, WithPrev(L, i, val), end)
  <1> DEFINE g == WriteField(L[i].at, "prev", val)
             M == WithPrev(L, i, val)
  <1>1. L[i].at \in DOMAIN heap /\ L[i].at \in Nat
    BY HeaderAt, AscendsInjective
  <1>2. /\ DOMAIN g = DOMAIN heap
        /\ \A a \in DOMAIN heap : a # L[i].at => g[a] = heap[a]
        /\ g[L[i].at] \in Header
        /\ g[L[i].at].next = heap[L[i].at].next
        /\ g[L[i].at].prev = val
        /\ g[L[i].at].size = heap[L[i].at].size
        /\ g[L[i].at].cap = heap[L[i].at].cap
    BY <1>1, WriteFieldHeaders
  <1>3. /\ Len(M) = Len(L)
        /\ \A m \in 1..Len(L) :
             /\ M[m].at = L[m].at /\ M[m].size = L[m].size
             /\ M[m].cap = L[m].cap
             /\ M[m].prev = IF m = i THEN val ELSE L[m].prev
    BY WithPrevType
  <1> HIDE DEF g, M
  <1>4. Len(L) \in Nat  OBVIOUS
  <1>5. ASSUME NEW m \in 1..Len(L)
        PROVE  M[m].at \in DOMAIN g /\ g[M[m].at] = HeaderOf(M, m, end)
    <2>1. NextOf(M, m, end) = NextOf(L, m, end)
      <3>1. m # Len(L) => m + 1 \in 1..Len(L)  BY <1>4
      <3>. QED  BY <1>3, <3>1 DEF NextOf
    <2>2. CASE m = i
      <3>1. /\ heap[L[i].at].next = NextOf(L, i, end)
            /\ heap[L[i].at].size = L[i].size
            /\ heap[L[i].at].cap = L[i].cap
        BY HeaderAt
      <3>2. M[m].at = L[i].at  BY <1>3, <2>2
      <3>3. /\ g[L[i].at].next = NextOf(M, m, end)
            /\ g[L[i].at].prev = M[m].prev
            /\ g[L[i].at].size = M[m].size
            /\ g[L[i].at].cap = M[m].cap
        BY <1>2, <1>3, <2>1, <2>2, <3>1
      <3>. QED  BY <1>1, <1>2, <3>2, <3>3, HeaderIs
    <2>3. CASE m # i
      <3>1. L[m].at # L[i].at  BY <2>3, AscendsInjective
      <3>2. L[m].at \in DOMAIN heap /\ heap[L[m].at] = HeaderOf(L, m, end)
        BY DEF Shows
      <3>3. HeaderOf(M, m, end) = HeaderOf(L, m, end)
        <4>1. M[m].prev = L[m].prev /\ M[m].size = L[m].size /\ M[m].cap = L[m].cap
          BY <1>3, <2>3
        <4>. QED  BY <2>1, <4>1 DEF HeaderOf
      <3>. QED  BY <1>2, <1>3, <3>1, <3>2, <3>3
    <2>. QED  BY <2>2, <2>3
  <1>6. pool = IF Len(M) = 0 THEN end ELSE M[1].at
    <2>1. 1 \in 1..Len(L)  BY <1>4
    <2>. QED  BY <1>3, <2>1 DEF Shows
  <1>7. Shows(g, pool, M, end)  BY <1>3, <1>5, <1>6 DEF Shows
  <1>. QED  BY <1>7 DEF g, M

(* The next pointer of the last listed header.                             *)
LEMMA StoreLastNext ==
  ASSUME HeapOK(heap), NEW L \in Seq(Alloc), Ascends(L), Len(L) # 0,
         NEW pool, NEW end, Shows(heap, pool, L, end), NEW val \in Nat
  PROVE  Shows(WriteField(L[Len(L)].at, "next", val), pool, L, val)
  <1> DEFINE n == Len(L)
             g == WriteField(L[n].at, "next", val)
  <1>1. n \in 1..n /\ n \in Nat  OBVIOUS
  <1>2. L[n].at \in DOMAIN heap /\ heap[L[n].at].prev = L[n].prev
        /\ heap[L[n].at].size = L[n].size /\ heap[L[n].at].cap = L[n].cap
    BY <1>1, HeaderAt
  <1>3. L[n].at \in Nat  BY <1>1, AscendsInjective
  <1>4. /\ DOMAIN g = DOMAIN heap
        /\ \A a \in DOMAIN heap : a # L[n].at => g[a] = heap[a]
        /\ g[L[n].at] \in Header
        /\ g[L[n].at].next = val
        /\ g[L[n].at].prev = heap[L[n].at].prev
        /\ g[L[n].at].size = heap[L[n].at].size
        /\ g[L[n].at].cap = heap[L[n].at].cap
    BY <1>2, <1>3, WriteFieldHeaders
  <1> HIDE DEF g
  <1>5. ASSUME NEW m \in 1..n
        PROVE  L[m].at \in DOMAIN g /\ g[L[m].at] = HeaderOf(L, m, val)
    <2>1. CASE m = n
      <3>1. NextOf(L, n, val) = val  BY DEF NextOf
      <3>. QED  BY <1>2, <1>4, <2>1, <3>1, HeaderIs
    <2>2. CASE m # n
      <3>1. L[m].at # L[n].at  BY <1>1, <2>2, AscendsInjective
      <3>2. L[m].at \in DOMAIN heap /\ heap[L[m].at] = HeaderOf(L, m, end)
        BY DEF Shows
      <3>3. HeaderOf(L, m, val) = HeaderOf(L, m, end)
        BY <2>2 DEF HeaderOf, NextOf
      <3>. QED  BY <1>4, <3>1, <3>2, <3>3
    <2>. QED  BY <2>1, <2>2
  <1>6. pool = L[1].at  BY DEF Shows
  <1>7. Shows(g, pool, L, val)  BY <1>5, <1>6 DEF Shows
  <1>. QED  BY <1>7 DEF g

(* A header in front of the list becomes part of it.                       *)
LEMMA ShowFront ==
  ASSUME NEW h, HeapOK(h), NEW L \in Seq(Alloc),
         NEW pool, NEW end, Shows(h, pool, L, end),
         NEW a \in Alloc, a.at \in DOMAIN h,
         h[a.at] = [next |-> pool, prev |-> a.prev, size |-> a.size, cap |-> a.cap],
         NEW M \in Seq(Alloc), Len(M) = Len(L) + 1, M[1] = a,
         \A i \in 1..Len(L) : M[i + 1] = L[i]
  PROVE  Shows(h, a.at, M, end)
  <1> DEFINE n == Len(L)
  <1>1. n \in Nat  OBVIOUS
  <1>2. ASSUME NEW m \in 1..(n + 1)
        PROVE  M[m].at \in DOMAIN h /\ h[M[m].at] = HeaderOf(M, m, end)
    <2>1. CASE m = 1
      <3>1. NextOf(M, 1, end) = pool
        <4>1. CASE n = 0
          <5>1. pool = end  BY <4>1 DEF Shows
          <5>. QED  BY <4>1, <5>1 DEF NextOf
        <4>2. CASE n # 0
          <5>1. pool = L[1].at /\ 1 \in 1..n  BY <1>1, <4>2 DEF Shows
          <5>2. M[1 + 1] = L[1]  BY <5>1
          <5>3. Len(M) # 1  BY <1>1, <4>2
          <5>. QED  BY <5>1, <5>2, <5>3 DEF NextOf
        <4>. QED  BY <4>1, <4>2
      <3>. QED  BY <2>1, <3>1 DEF HeaderOf
    <2>2. CASE m # 1
      <3> DEFINE k == m - 1
      <3>1. k \in 1..n /\ m = k + 1  BY <1>1, <2>2
      <3>2. M[m] = L[k]  BY <3>1
      <3>3. NextOf(M, m, end) = NextOf(L, k, end)
        <4>1. CASE k = n
          BY <1>1, <3>1, <4>1 DEF NextOf
        <4>2. CASE k # n
          <5>1. m \in 1..n /\ m # n + 1  BY <1>1, <3>1, <4>2
          <5>2. M[m + 1] = L[m]  BY <5>1
          <5>3. NextOf(L, k, end) = L[m].at  BY <3>1, <4>2 DEF NextOf
          <5>4. NextOf(M, m, end) = M[m + 1].at  BY <5>1 DEF NextOf
          <5>. QED  BY <5>2, <5>3, <5>4
        <4>. QED  BY <4>1, <4>2
      <3>4. HeaderOf(M, m, end) = HeaderOf(L, k, end)
        BY <3>2, <3>3 DEF HeaderOf
      <3> HIDE DEF k
      <3>5. L[k].at \in DOMAIN h /\ h[L[k].at] = HeaderOf(L, k, end)
        BY <3>1 DEF Shows
      <3>. QED  BY <3>2, <3>4, <3>5
    <2>. QED  BY <2>1, <2>2
  <1>3. a.at = IF Len(M) = 0 THEN end ELSE M[1].at  BY <1>1
  <1>. QED  BY <1>2, <1>3 DEF Shows

(* A header the last one points to becomes part of the list.               *)
LEMMA ShowBehind ==
  ASSUME NEW h, HeapOK(h), NEW L \in Seq(Alloc), Len(L) # 0,
         NEW pool, NEW a \in Alloc, Shows(h, pool, L, a.at),
         NEW end, a.at \in DOMAIN h,
         h[a.at] = [next |-> end, prev |-> a.prev, size |-> a.size, cap |-> a.cap]
  PROVE  Shows(h, pool, Append(L, a), end)
  <1> DEFINE n == Len(L)
             M == Append(L, a)
  <1>1. n \in Nat /\ 1 \in 1..n /\ Len(M) = n + 1 /\ M[n + 1] = a
        /\ \A i \in 1..n : M[i] = L[i]
    BY AppendProperties
  <1> HIDE DEF M
  <1>2. ASSUME NEW m \in 1..(n + 1)
        PROVE  M[m].at \in DOMAIN h /\ h[M[m].at] = HeaderOf(M, m, end)
    <2>1. CASE m = n + 1
      <3>1. NextOf(M, n + 1, end) = end  BY <1>1 DEF NextOf
      <3>. QED  BY <1>1, <2>1, <3>1 DEF HeaderOf
    <2>2. CASE m # n + 1
      <3>1. m \in 1..n  BY <1>1, <2>2
      <3>2. NextOf(M, m, end) = NextOf(L, m, a.at)
        <4>1. CASE m = n
          BY <1>1, <4>1 DEF NextOf
        <4>2. CASE m # n
          <5>1. m + 1 \in 1..n /\ m # n + 1  BY <1>1, <3>1, <4>2
          <5>. QED  BY <1>1, <4>2, <5>1 DEF NextOf
        <4>. QED  BY <4>1, <4>2
      <3>3. HeaderOf(M, m, end) = HeaderOf(L, m, a.at)
        BY <1>1, <3>1, <3>2 DEF HeaderOf
      <3>4. L[m].at \in DOMAIN h /\ h[L[m].at] = HeaderOf(L, m, a.at)
        BY <3>1 DEF Shows
      <3>. QED  BY <1>1, <3>1, <3>3, <3>4
    <2>. QED  BY <2>1, <2>2
  <1>3. pool = IF Len(M) = 0 THEN end ELSE M[1].at
    BY <1>1 DEF Shows
  <1>4. Shows(h, pool, M, end)  BY <1>1, <1>2, <1>3 DEF Shows
  <1>. QED  BY <1>4 DEF M

(* The list without its j-th block is what the headers show once the one   *)
(* before it, or the zone, points to the one behind.                       *)
LEMMA ShowWithout ==
  ASSUME HeapOK(heap), NEW L \in Seq(Alloc), Ascends(L),
         NEW pool, NEW end \in Nat, Shows(heap, pool, L, end),
         NEW j \in 1..Len(L)
  PROVE  /\ j = 1 => Shows(heap, NextOf(L, 1, end), Without(L, 1), end)
         /\ j # 1 => Shows(WriteField(L[j - 1].at, "next", NextOf(L, j, end)),
                           pool, Without(L, j), end)
  <1> DEFINE n == Len(L)
             W == Without(L, j)
             o(m) == IF m < j THEN m ELSE m + 1
  <1>1. n \in Nat /\ j \in 1..n  OBVIOUS
  <1>2. /\ Len(W) = n - 1
        /\ \A m \in 1..(n - 1) : W[m] = L[o(m)] /\ o(m) \in 1..n
    BY <1>1, WithoutType
  <1> HIDE DEF W
  <1>3. ASSUME NEW m \in 1..(n - 1)
        PROVE  NextOf(W, m, end) =
                 IF m = j - 1 THEN NextOf(L, j, end) ELSE NextOf(L, o(m), end)
    <2>1. CASE m = n - 1
      <3>1. NextOf(W, m, end) = end  BY <1>2, <2>1 DEF NextOf
      <3>2. CASE m = j - 1
        <4>1. j = n  BY <1>1, <2>1, <3>2
        <4>. QED  BY <3>1, <3>2, <4>1 DEF NextOf
      <3>3. CASE m # j - 1
        <4>1. o(m) = n  BY <1>1, <2>1, <3>3
        <4>. QED  BY <3>1, <3>3, <4>1 DEF NextOf
      <3>. QED  BY <3>2, <3>3
    <2>2. CASE m # n - 1
      <3>1. m + 1 \in 1..(n - 1) /\ o(m) # n  BY <1>1, <2>2
      <3>2. NextOf(W, m, end) = L[o(m + 1)].at
        BY <1>2, <2>2, <3>1 DEF NextOf
      <3>3. CASE m = j - 1
        <4>1. o(m + 1) = j + 1 /\ j # n  BY <1>1, <3>1, <3>3
        <4>. QED  BY <3>2, <3>3, <4>1 DEF NextOf
      <3>4. CASE m # j - 1
        <4>1. o(m + 1) = o(m) + 1  BY <1>1, <3>4
        <4>. QED  BY <3>1, <3>2, <3>4, <4>1 DEF NextOf
      <3>. QED  BY <3>3, <3>4
    <2>. QED  BY <2>1, <2>2
  <1>4. ASSUME NEW h, NEW m \in 1..(n - 1),
               LET b == L[o(m)]
               IN  /\ b.at \in DOMAIN h
                   /\ h[b.at] \in Header
                   /\ h[b.at].next = IF m = j - 1 THEN NextOf(L, j, end)
                                     ELSE NextOf(L, o(m), end)
                   /\ h[b.at].prev = b.prev
                   /\ h[b.at].size = b.size /\ h[b.at].cap = b.cap
        PROVE  W[m].at \in DOMAIN h /\ h[W[m].at] = HeaderOf(W, m, end)
    <2> DEFINE b == L[o(m)]
    <2>1. W[m] = b  BY <1>2
    <2>2. /\ b.at \in DOMAIN h /\ h[b.at] \in Header
          /\ h[b.at].next = NextOf(W, m, end)
          /\ h[b.at].prev = b.prev
          /\ h[b.at].size = b.size /\ h[b.at].cap = b.cap
      BY <1>3, <1>4
    <2> HIDE DEF b
    <2>3. h[b.at] = HeaderOf(W, m, end)  BY <2>1, <2>2, HeaderIs
    <2>. QED  BY <2>1, <2>2, <2>3
  <1>5. ASSUME NEW i \in 1..n
        PROVE  /\ L[i].at \in DOMAIN heap /\ heap[L[i].at] \in Header
               /\ heap[L[i].at].next = NextOf(L, i, end)
               /\ heap[L[i].at].prev = L[i].prev
               /\ heap[L[i].at].size = L[i].size
               /\ heap[L[i].at].cap = L[i].cap
    BY HeaderAt DEF HeapOK
  <1>6. ASSUME j = 1
        PROVE  Shows(heap, NextOf(L, 1, end), W, end)
    <2>1. ASSUME NEW m \in 1..(n - 1)
          PROVE  W[m].at \in DOMAIN heap /\ heap[W[m].at] = HeaderOf(W, m, end)
      <3>1. o(m) \in 1..n /\ m # j - 1  BY <1>1, <1>2, <1>6
      <3> HIDE DEF o
      <3>. QED  BY <1>4, <1>5, <3>1
    <2>2. NextOf(L, 1, end) = IF Len(W) = 0 THEN end ELSE W[1].at
      <3>1. CASE n = 1  BY <1>2, <3>1 DEF NextOf
      <3>2. CASE n # 1
        <4>1. 1 \in 1..(n - 1) /\ n - 1 # 0
          <5>1. n \in Nat /\ 1 <= n  BY <1>1, <1>6
          <5> HIDE DEF n
          <5>2. n >= 2  BY <3>2, <5>1
          <5>. QED  BY <5>1, <5>2
        <4>2. o(1) = 2  BY <1>6
        <4>3. 1 \in 1..(n - 1) /\ o(1) = 2 /\ n - 1 # 0  BY <4>1, <4>2
        <4>. QED  BY <1>2, <3>2, <4>3 DEF NextOf
      <3>. QED  BY <3>1, <3>2
    <2>. QED  BY <1>2, <2>1, <2>2 DEF Shows
  <1>7. ASSUME j # 1
        PROVE  Shows(WriteField(L[j - 1].at, "next", NextOf(L, j, end)), pool, W, end)
    <2> DEFINE x == L[j - 1].at
               v == NextOf(L, j, end)
               g == WriteField(x, "next", v)
    <2>1. j - 1 \in 1..n /\ j - 1 \in 1..(n - 1) /\ o(j - 1) = j - 1  BY <1>1, <1>7
    <2>2. x \in DOMAIN heap /\ x \in Nat
      BY <2>1, HeaderAt, AscendsInjective
    <2>3. v \in Nat
      <3>1. j # n => j + 1 \in 1..n  BY <1>1
      <3>. QED  BY <3>1, AscendsInjective DEF NextOf
    <2>4. /\ DOMAIN g = DOMAIN heap
          /\ \A a \in DOMAIN heap : a # x => g[a] = heap[a]
          /\ g[x] \in Header
          /\ g[x].next = v
          /\ g[x].prev = heap[x].prev
          /\ g[x].size = heap[x].size
          /\ g[x].cap = heap[x].cap
      <3> HIDE DEF v, x
      <3>. QED  BY <2>2, <2>3, WriteFieldHeaders
    <2> HIDE DEF g, v
    <2>5. ASSUME NEW m \in 1..(n - 1)
          PROVE  W[m].at \in DOMAIN g /\ g[W[m].at] = HeaderOf(W, m, end)
      <3>1. o(m) \in 1..n  BY <1>2
      <3>2. CASE m = j - 1
        <4>1. o(m) = j - 1  BY <2>1, <3>2
        <4>2. L[o(m)].at = x  BY <4>1
        <4>3. /\ g[x].prev = L[o(m)].prev
              /\ g[x].size = L[o(m)].size /\ g[x].cap = L[o(m)].cap
          BY <1>5, <2>4, <3>1, <4>2
        <4> HIDE DEF o, x
        <4>. QED  BY <1>4, <2>2, <2>4, <3>2, <4>2, <4>3 DEF v
      <3>3. CASE m # j - 1
        <4>1. o(m) # j - 1  BY <1>1, <3>3
        <4> HIDE DEF o
        <4>2. L[o(m)].at # x  BY <2>1, <3>1, <4>1, AscendsInjective
        <4>3. g[L[o(m)].at] = heap[L[o(m)].at]  BY <1>5, <2>4, <3>1, <4>2
        <4>4. L[o(m)].at \in DOMAIN g  BY <1>5, <2>4, <3>1
        <4>5. /\ g[L[o(m)].at] \in Header
              /\ g[L[o(m)].at].next = NextOf(L, o(m), end)
              /\ g[L[o(m)].at].prev = L[o(m)].prev
              /\ g[L[o(m)].at].size = L[o(m)].size
              /\ g[L[o(m)].at].cap = L[o(m)].cap
          BY <1>5, <3>1, <4>3
        <4> HIDE DEF n, x
        <4>. QED  BY <1>4, <3>3, <4>4, <4>5
      <3>. QED  BY <3>2, <3>3
    <2>6. pool = IF Len(W) = 0 THEN end ELSE W[1].at
      <3>1. pool = L[1].at  BY <1>1 DEF Shows
      <3>2. 1 \in 1..(n - 1) /\ n - 1 # 0
        <4>1. n \in Nat /\ n >= 2
          <5> HIDE DEF n
          <5>. QED  BY <1>1, <1>7
        <4> HIDE DEF n
        <4>. QED  BY <4>1
      <3>3. o(1) = 1
        <4>1. 1 < j  BY <1>1, <1>7
        <4>. QED  BY <4>1
      <3>. QED  BY <1>2, <3>1, <3>2, <3>3
    <2>7. Shows(g, pool, W, end)  BY <1>2, <2>5, <2>6 DEF Shows
    <2>. QED  BY <2>7 DEF g, v
  <1>. QED  BY <1>6, <1>7 DEF W

-----------------------------------------------------------------------------
(* Where a block is placed                                                 *)

Addresses(L) == {L[i].at : i \in 1..Len(L)}

Sound(z) ==
  /\ z \in Zone /\ z.base = Base /\ z.type = "tiny"
  /\ Sorted(z) /\ LinksSound(z) /\ Ordered(z)

(* None of the listed headers lies in a chunk of the size behind a header  *)
(* at the address.                                                         *)
ClearOfChunk(L, at, size) ==
  \A i \in 1..Len(L) : L[i].at <= at \/ at + AllocHdr + size <= L[i].at

LEMMA SoundList ==
  ASSUME NEW z, Sound(z)
  PROVE  /\ z.allocs \in Seq(Alloc) /\ Len(z.allocs) \in Nat
         /\ DOMAIN z.allocs = 1..Len(z.allocs)
         /\ Ascends(z.allocs)
         /\ FirstSlot(z) \in Nat /\ FirstSlot(z) = Base + ZoneHdr
         /\ \A i \in 1..Len(z.allocs) :
              /\ z.allocs[i] \in Alloc
              /\ z.allocs[i].at \in Nat /\ z.allocs[i].prev \in Nat
              /\ z.allocs[i].size \in Nat
              /\ z.allocs[i].at >= FirstSlot(z)
              /\ End(z.allocs[i]) \in Nat
              /\ z.allocs[i].at + AllocHdr <= End(z.allocs[i])
  <1>1. z.allocs \in Seq(Alloc)  BY DEF Sound, Zone
  <1>2. Len(z.allocs) \in Nat /\ DOMAIN z.allocs = 1..Len(z.allocs)
        /\ \A i \in 1..Len(z.allocs) : z.allocs[i] \in Alloc
    BY <1>1, LenProperties, ElementOfSeq
  <1>3. Ascends(z.allocs)  BY <1>2 DEF Sound, Sorted, Ascends
  <1>4. FirstSlot(z) \in Nat /\ FirstSlot(z) = Base + ZoneHdr
    BY SizesAssumption, ListStoresAssumption DEF Sound, FirstSlot
  <1>5. \A i \in 1..Len(z.allocs) : z.allocs[i].at >= FirstSlot(z)
    BY <1>2 DEF Sound, Sorted
  <1>6. \A i \in 1..Len(z.allocs) :
          /\ z.allocs[i].at \in Nat /\ z.allocs[i].prev \in Nat
          /\ z.allocs[i].size \in Nat
          /\ End(z.allocs[i]) \in Nat
          /\ z.allocs[i].at + AllocHdr <= End(z.allocs[i])
    <2> SUFFICES ASSUME NEW i \in 1..Len(z.allocs)
                 PROVE  /\ z.allocs[i].at \in Nat /\ z.allocs[i].prev \in Nat
                        /\ z.allocs[i].size \in Nat
                        /\ End(z.allocs[i]) \in Nat
                        /\ z.allocs[i].at + AllocHdr <= End(z.allocs[i])
      OBVIOUS
    <2>1. z.allocs[i] \in Alloc  BY <1>2
    <2> DEFINE a == z.allocs[i]
    <2>2. a \in Alloc  BY <2>1
    <2> HIDE DEF a
    <2>3. /\ a.at \in Nat /\ a.prev \in Nat /\ a.size \in Nat
          /\ End(a) \in Nat /\ End(a) >= a.at + AllocHdr
      BY <2>2, AllocAddresses
    <2>4. a.at + AllocHdr <= End(a)  BY <2>3, SizesAssumption
    <2>. QED  BY <2>3, <2>4 DEF a
  <1>. QED  BY <1>1, <1>2, <1>3, <1>4, <1>5, <1>6

(* The second list has all blocks of the first but for one address.        *)
HasOthers(L, M, x) ==
  \A m \in 1..Len(L) : L[m].at # x => L[m].at \in Addresses(M)

LEMMA SameOthers ==
  ASSUME NEW L, NEW M, NEW x, HasOthers(L, M, x), HasOthers(M, L, x)
  PROVE  Addresses(L) \ {x} = Addresses(M) \ {x}
  <1>1. ASSUME NEW a \in Addresses(L), a # x PROVE a \in Addresses(M)
    <2>1. PICK m \in 1..Len(L) : a = L[m].at  BY DEF Addresses
    <2>. QED  BY <1>1, <2>1 DEF HasOthers
  <1>2. ASSUME NEW a \in Addresses(M), a # x PROVE a \in Addresses(L)
    <2>1. PICK m \in 1..Len(M) : a = M[m].at  BY DEF Addresses
    <2>. QED  BY <1>2, <2>1 DEF HasOthers
  <1>. QED  BY <1>1, <1>2

LEMMA PlaceFrontClear ==
  ASSUME NEW z, Sound(z), NEW size \in Nat,
         z.allocs = << >> \/ FitsFront(z, size)
  PROVE  LET p == PlaceFront(z, size)
         IN  /\ \A i \in 1..Len(z.allocs) :
                  p.at + AllocHdr + size <= z.allocs[i].at
             /\ ClearOfChunk(p.allocs, p.at, size)
             /\ Addresses(p.allocs) \ {p.at} = Addresses(z.allocs) \ {p.at}
  <1> DEFINE n == Len(z.allocs)
             p == PlaceFront(z, size)
             at == p.at
             L == p.allocs
  <1>1. z \in Zone  BY DEF Sound
  <1>2. /\ n \in Nat /\ Ascends(z.allocs) /\ FirstSlot(z) \in Nat
        /\ \A i \in 1..n : z.allocs[i].at \in Nat
    BY SoundList
  <1>3. /\ at = FirstSlot(z) /\ Len(L) = n + 1 /\ L[1].at = at
        /\ \A i \in 1..n : L[i + 1].at = z.allocs[i].at
    <2>1. /\ at = FirstSlot(z) /\ Len(L) = n + 1
          /\ L[1] = NewAlloc(FirstSlot(z), NULL, size)
          /\ \A i \in 1..n : L[i + 1].at = z.allocs[i].at
      BY <1>1, PlaceFrontList
    <2> HIDE DEF at, L, p
    <2>. QED  BY <2>1 DEF NewAlloc
  <1> HIDE DEF at, L, p
  <1>4. ASSUME NEW i \in 1..n PROVE at + AllocHdr + size <= z.allocs[i].at
    <2>1. 1 \in 1..n  BY <1>2
    <2>2. z.allocs # << >>  BY <1>2
    <2>3. z.allocs[1].at > at + AllocHdr + size  BY <1>3, <2>2 DEF FitsFront
    <2>4. i = 1 \/ 1 < i  BY <1>2
    <2>5. z.allocs[1].at <= z.allocs[i].at
      <3>1. CASE i = 1  BY <1>2, <2>1, <3>1
      <3>2. CASE 1 < i  BY <1>2, <2>1, <3>2 DEF Ascends
      <3>. QED  BY <2>4, <3>1, <3>2
    <2>6. at + AllocHdr + size \in Nat /\ z.allocs[1].at \in Nat
          /\ z.allocs[i].at \in Nat
      BY <1>2, <1>3, <2>1, SizesAssumption
    <2>. QED  BY <2>3, <2>5, <2>6
  <1>5. ASSUME NEW m \in 1..(n + 1), m # 1
        PROVE  m - 1 \in 1..n /\ L[m].at = z.allocs[m - 1].at
    <2>1. m - 1 \in 1..n /\ (m - 1) + 1 = m  BY <1>2, <1>5
    <2>2. L[(m - 1) + 1].at = z.allocs[m - 1].at  BY <1>3, <2>1
    <2>. QED  BY <2>1, <2>2
  <1>6. ClearOfChunk(L, at, size)
    <2> SUFFICES ASSUME NEW m \in 1..(n + 1)
                 PROVE  L[m].at <= at \/ at + AllocHdr + size <= L[m].at
      BY <1>3 DEF ClearOfChunk
    <2>1. CASE m = 1  BY <1>2, <1>3, <2>1
    <2>2. CASE m # 1  BY <1>4, <1>5, <2>2
    <2>. QED  BY <2>1, <2>2
  <1>7. Addresses(L) \ {at} = Addresses(z.allocs) \ {at}
    <2>1. ASSUME NEW m \in 1..Len(L), L[m].at # at
          PROVE  L[m].at \in Addresses(z.allocs)
      <3>1. m # 1 /\ m \in 1..(n + 1)  BY <1>3, <2>1
      <3>. QED  BY <1>5, <3>1 DEF Addresses
    <2>2. ASSUME NEW i \in 1..n PROVE z.allocs[i].at \in Addresses(L)
      <3>1. i + 1 \in 1..Len(L)  BY <1>2, <1>3
      <3>. QED  BY <1>3, <3>1 DEF Addresses
    <2>3. HasOthers(L, z.allocs, at)  BY <2>1 DEF HasOthers
    <2>4. HasOthers(z.allocs, L, at)  BY <2>2 DEF HasOthers
    <2>. QED  BY <2>3, <2>4, SameOthers
  <1>. QED  BY <1>4, <1>6, <1>7 DEF at, L, p

LEMMA PlaceBehindClear ==
  ASSUME NEW z, Sound(z), NEW size \in Nat, z.allocs # << >>
  PROVE  LET p == PlaceBehind(z, size)
         IN  /\ p.at >= FirstSlot(z)
             /\ \A i \in 1..Len(z.allocs) : z.allocs[i].at + AllocHdr <= p.at
             /\ ClearOfChunk(p.allocs, p.at, size)
             /\ Addresses(p.allocs) \ {p.at} = Addresses(z.allocs) \ {p.at}
  <1> DEFINE n == Len(z.allocs)
             p == PlaceBehind(z, size)
             at == p.at
             L == p.allocs
  <1>1. z \in Zone  BY DEF Sound
  <1>2. /\ n \in Nat /\ n \in 1..n /\ Ascends(z.allocs) /\ FirstSlot(z) \in Nat
        /\ DOMAIN z.allocs = 1..n
        /\ \A i \in 1..n : /\ z.allocs[i].at \in Nat
                           /\ z.allocs[i].at >= FirstSlot(z)
                           /\ End(z.allocs[i]) \in Nat
                           /\ z.allocs[i].at + AllocHdr <= End(z.allocs[i])
    BY SoundList, EmptySeq
  <1>3. /\ at = End(z.allocs[n]) /\ Len(L) = n + 1 /\ L[n + 1].at = at
        /\ \A i \in 1..n : L[i].at = z.allocs[i].at
    <2>1. /\ at = End(z.allocs[n]) /\ Len(L) = n + 1
          /\ L[n + 1] = NewAlloc(End(z.allocs[n]), z.allocs[n].at, size)
          /\ \A i \in 1..n : L[i] = z.allocs[i]
      BY <1>1, PlaceBehindList
    <2> HIDE DEF at, L, p
    <2>. QED  BY <2>1 DEF NewAlloc
  <1> HIDE DEF at, L, p
  <1>4. ASSUME NEW i \in 1..n PROVE z.allocs[i].at + AllocHdr <= at
    <2>1. CASE i = n  BY <1>2, <1>3, <2>1
    <2>2. CASE i # n
      <3>1. i < n  BY <1>2, <2>2
      <3>2. End(z.allocs[i]) <= z.allocs[n].at
        BY <1>2, <3>1 DEF Sound, Ordered
      <3> DEFINE a == z.allocs[i].at
                 e == End(z.allocs[i])
                 b == z.allocs[n].at
      <3>3. /\ a \in Nat /\ b \in Nat /\ e \in Nat /\ at \in Nat
            /\ a + AllocHdr <= e /\ e <= b /\ b + AllocHdr <= at
        BY <1>2, <1>3, <3>2
      <3> HIDE DEF a, b, e
      <3>4. a + AllocHdr <= at  BY <3>3, SizesAssumption
      <3>. QED  BY <3>4 DEF a
    <2>. QED  BY <2>1, <2>2
  <1>5. at \in Nat /\ at >= FirstSlot(z)
    <2> DEFINE b == z.allocs[n].at
    <2>1. at \in Nat /\ b \in Nat /\ b >= FirstSlot(z) /\ b + AllocHdr <= at
      BY <1>2, <1>3, <1>4
    <2> HIDE DEF b
    <2>. QED  BY <1>2, <2>1, SizesAssumption
  <1>6. ClearOfChunk(L, at, size)
    <2> SUFFICES ASSUME NEW m \in 1..(n + 1) PROVE L[m].at <= at
      BY <1>3 DEF ClearOfChunk
    <2>1. CASE m = n + 1  BY <1>3, <1>5, <2>1
    <2>2. CASE m # n + 1
      <3> DEFINE a == L[m].at
      <3>1. m \in 1..n  BY <1>2, <2>2
      <3>2. a \in Nat /\ a + AllocHdr <= at  BY <1>2, <1>3, <1>4, <3>1
      <3> HIDE DEF a
      <3>3. a <= at  BY <1>5, <3>2, SizesAssumption
      <3>. QED  BY <3>3 DEF a
    <2>. QED  BY <2>1, <2>2
  <1>7. Addresses(L) \ {at} = Addresses(z.allocs) \ {at}
    <2>1. ASSUME NEW m \in 1..Len(L), L[m].at # at
          PROVE  L[m].at \in Addresses(z.allocs)
      <3>1. m \in 1..n  BY <1>2, <1>3, <2>1
      <3>. QED  BY <1>3, <3>1 DEF Addresses
    <2>2. ASSUME NEW i \in 1..n PROVE z.allocs[i].at \in Addresses(L)
      <3>1. i \in 1..Len(L)  BY <1>2, <1>3
      <3>. QED  BY <1>3, <3>1 DEF Addresses
    <2>3. HasOthers(L, z.allocs, at)  BY <2>1 DEF HasOthers
    <2>4. HasOthers(z.allocs, L, at)  BY <2>2 DEF HasOthers
    <2>. QED  BY <2>3, <2>4, SameOthers
  <1>. QED  BY <1>4, <1>5, <1>6, <1>7 DEF at, L, p

LEMMA PlaceBetweenClear ==
  ASSUME NEW z, Sound(z), NEW size \in Nat, NEW i \in 1..(Len(z.allocs) - 1),
         z.allocs[i + 1].at > End(z.allocs[i]) + size + AllocHdr
  PROVE  LET p == PlaceBetween(z, size, i)
         IN  /\ p.at >= FirstSlot(z)
             /\ \A m \in 1..Len(z.allocs) :
                  \/ z.allocs[m].at + AllocHdr <= p.at
                  \/ p.at + AllocHdr <= z.allocs[m].at
             /\ ClearOfChunk(p.allocs, p.at, size)
             /\ Addresses(p.allocs) = Addresses(z.allocs)
  <1> DEFINE n == Len(z.allocs)
             p == PlaceBetween(z, size, i)
             at == p.at
             L == p.allocs
  <1>1. z \in Zone  BY DEF Sound
  <1>2. /\ n \in Nat /\ Ascends(z.allocs) /\ FirstSlot(z) \in Nat
        /\ DOMAIN z.allocs = 1..n
        /\ \A m \in 1..n : /\ z.allocs[m].at \in Nat
                           /\ z.allocs[m].at >= FirstSlot(z)
                           /\ End(z.allocs[m]) \in Nat
                           /\ z.allocs[m].at + AllocHdr <= End(z.allocs[m])
    BY SoundList
  <1>3. /\ at = End(z.allocs[i]) /\ Len(L) = n
        /\ \A m \in 1..n : L[m].at = z.allocs[m].at
    BY <1>1, PlaceBetweenList
  <1> HIDE DEF at, L, p
  <1>4. i \in 1..n /\ i + 1 \in 1..n  BY <1>2
  <1>5. at \in Nat /\ at >= FirstSlot(z)
    <2> DEFINE b == z.allocs[i].at
    <2>1. at \in Nat /\ b \in Nat /\ b >= FirstSlot(z) /\ b + AllocHdr <= at
      BY <1>2, <1>3, <1>4
    <2> HIDE DEF b
    <2>. QED  BY <1>2, <2>1, SizesAssumption
  <1>6. ASSUME NEW m \in 1..n
        PROVE  \/ z.allocs[m].at + AllocHdr <= at
               \/ at + AllocHdr + size <= z.allocs[m].at
    <2> DEFINE a == z.allocs[m].at
    <2>1. a \in Nat  BY <1>2
    <2>2. CASE m <= i
      <3> DEFINE b == z.allocs[i].at
      <3>1. b \in Nat /\ b + AllocHdr <= at  BY <1>2, <1>3, <1>4
      <3>2. a <= b
        <4>1. CASE m = i  BY <2>1, <4>1
        <4>2. CASE m # i
          <5>1. m < i  BY <1>2, <2>2, <4>2
          <5>2. a < b  BY <1>2, <1>4, <5>1 DEF Ascends
          <5> HIDE DEF a, b
          <5>. QED  BY <2>1, <3>1, <5>2
        <4>. QED  BY <4>1, <4>2
      <3> HIDE DEF a, b
      <3>3. a + AllocHdr <= at  BY <1>5, <2>1, <3>1, <3>2, SizesAssumption
      <3>. QED  BY <3>3 DEF a
    <2>3. CASE m > i
      <3> DEFINE b == z.allocs[i + 1].at
      <3>1. b \in Nat /\ b > at + size + AllocHdr  BY <1>2, <1>3, <1>4
      <3>2. b <= a
        <4>1. CASE m = i + 1  BY <2>1, <4>1
        <4>2. CASE m # i + 1
          <5>1. i + 1 < m  BY <1>2, <2>3, <4>2
          <5>2. b < a  BY <1>2, <1>4, <5>1 DEF Ascends
          <5> HIDE DEF a, b
          <5>. QED  BY <2>1, <3>1, <5>2
        <4>. QED  BY <4>1, <4>2
      <3> HIDE DEF a, b
      <3>3. at + AllocHdr + size <= a
        BY <1>5, <2>1, <3>1, <3>2, SizesAssumption
      <3>. QED  BY <3>3 DEF a
    <2>. QED  BY <1>2, <2>2, <2>3
  <1>7. ASSUME NEW m \in 1..n
        PROVE  /\ \/ z.allocs[m].at + AllocHdr <= at
                  \/ at + AllocHdr <= z.allocs[m].at
               /\ \/ z.allocs[m].at <= at
                  \/ at + AllocHdr + size <= z.allocs[m].at
    <2> DEFINE a == z.allocs[m].at
    <2>1. /\ a \in Nat
          /\ a + AllocHdr <= at \/ at + AllocHdr + size <= a
      BY <1>2, <1>6
    <2> HIDE DEF a
    <2>2. /\ a + AllocHdr <= at \/ at + AllocHdr <= a
          /\ a <= at \/ at + AllocHdr + size <= a
      BY <1>5, <2>1, SizesAssumption
    <2>. QED  BY <2>2 DEF a
  <1>8. ClearOfChunk(L, at, size)  BY <1>3, <1>7 DEF ClearOfChunk
  <1>9. Addresses(L) = Addresses(z.allocs)  BY <1>3 DEF Addresses
  <1>. QED  BY <1>5, <1>7, <1>8, <1>9 DEF at, L, p

(* The list with a new block in front of it whose old first block has not  *)
(* learnt of it yet.                                                       *)
WithFront(z, size) == <<NewAlloc(FirstSlot(z), NULL, size)>> \o z.allocs

LEMMA PlaceFrontAs ==
  ASSUME NEW z, Sound(z), NEW size \in Nat,
         z.allocs = << >> \/ FitsFront(z, size)
  PROVE  LET F == WithFront(z, size)
             p == PlaceFront(z, size)
         IN  /\ F \in Seq(Alloc) /\ Len(F) = Len(z.allocs) + 1
             /\ F[1] = NewAlloc(FirstSlot(z), NULL, size)
             /\ F[1] \in Alloc
             /\ \A i \in 1..Len(z.allocs) : F[i + 1] = z.allocs[i]
             /\ Ascends(F)
             /\ Len(z.allocs) = 0 => p.allocs = F
             /\ Len(z.allocs) # 0 => p.allocs = WithPrev(F, 2, FirstSlot(z))
             /\ Addresses(F) \ {FirstSlot(z)} = Addresses(z.allocs) \ {FirstSlot(z)}
  <1> DEFINE n == Len(z.allocs)
             F == WithFront(z, size)
             at == FirstSlot(z)
             new == NewAlloc(at, NULL, size)
             L == PlaceFront(z, size).allocs
  <1>1. /\ z \in Zone /\ z.allocs \in Seq(Alloc) /\ n \in Nat /\ at \in Nat
        /\ Ascends(z.allocs)
        /\ \A i \in 1..n : z.allocs[i] \in Alloc /\ z.allocs[i].at \in Nat
    BY SoundList DEF Sound
  <1>2. new \in Alloc  BY <1>1, NewAllocType DEF NULL
  <1>3. /\ F \in Seq(Alloc) /\ Len(F) = n + 1 /\ F[1] = new
        /\ \A i \in 1..n : F[i + 1] = z.allocs[i]
    <2> HIDE DEF new
    <2>. QED  BY <1>1, <1>2 DEF WithFront, new
  <1>4. new.at = at /\ new.prev = NULL /\ new.size = size /\ new.cap = size
    BY DEF NewAlloc
  <1> HIDE DEF F, new
  <1>5. PlaceFront(z, size).at = at
        /\ \A i \in 1..n : at + AllocHdr + size <= z.allocs[i].at
    BY <1>1, PlaceFrontClear, PlaceFrontList
  <1>6. /\ L \in Seq(Alloc) /\ Len(L) = n + 1
        /\ L[1] = new
        /\ \A i \in 1..n :
             /\ L[i + 1].at = z.allocs[i].at
             /\ L[i + 1].size = z.allocs[i].size
             /\ L[i + 1].cap = z.allocs[i].cap
             /\ L[i + 1].prev = IF i = 1 THEN at ELSE z.allocs[i].prev
    BY <1>1, PlaceFrontList DEF new
  <1> HIDE DEF L
  <1>7. ASSUME NEW m \in 1..(n + 1), m # 1
        PROVE  m - 1 \in 1..n /\ (m - 1) + 1 = m /\ F[m] = z.allocs[m - 1]
    <2>1. m - 1 \in 1..n /\ (m - 1) + 1 = m  BY <1>1, <1>7
    <2>2. F[(m - 1) + 1] = z.allocs[m - 1]  BY <1>3, <2>1
    <2>. QED  BY <2>1, <2>2
  <1>8. Ascends(F)
    <2> SUFFICES ASSUME NEW l \in 1..(n + 1), NEW m \in 1..(n + 1), l < m
                 PROVE  F[l].at < F[m].at
      BY <1>3 DEF Ascends
    <2>1. m # 1 /\ m - 1 \in 1..n  BY <1>1
    <2>2. F[m] = z.allocs[m - 1]  BY <1>7, <2>1
    <2>3. CASE l = 1
      <3> DEFINE a == z.allocs[m - 1].at
      <3>1. a \in Nat /\ at + AllocHdr + size <= a  BY <1>1, <1>5, <2>1
      <3> HIDE DEF a, at
      <3>2. at < a  BY <1>1, <3>1, SizesAssumption
      <3>. QED  BY <1>3, <1>4, <2>2, <2>3, <3>2 DEF a
    <2>4. CASE l # 1
      <3>1. l - 1 \in 1..n /\ F[l] = z.allocs[l - 1]  BY <1>7, <2>4
      <3>2. l - 1 < m - 1  BY <1>1
      <3>3. z.allocs[l - 1].at < z.allocs[m - 1].at
        BY <1>1, <2>1, <3>1, <3>2 DEF Ascends
      <3>. QED  BY <2>2, <3>1, <3>3
    <2>. QED  BY <2>3, <2>4
  <1>9. ASSUME n = 0 PROVE L = F
    <2>1. \A i \in 1..Len(L) : SameFields(L[i], F[i])
      <3>1. \A i \in 1..Len(L) : i = 1  BY <1>6, <1>9
      <3>. QED  BY <1>3, <1>6, <3>1 DEF SameFields
    <2>. QED  BY <1>3, <1>6, <2>1, SameLists
  <1>10. ASSUME n # 0 PROVE L = WithPrev(F, 2, at)
    <2> DEFINE W == WithPrev(F, 2, at)
    <2>1. 2 \in 1..Len(F)  BY <1>1, <1>3, <1>10
    <2>2. /\ W \in Seq(Alloc) /\ Len(W) = n + 1
          /\ \A m \in 1..(n + 1) :
               /\ W[m].at = F[m].at /\ W[m].size = F[m].size
               /\ W[m].cap = F[m].cap
               /\ W[m].prev = IF m = 2 THEN at ELSE F[m].prev
      BY <1>1, <1>3, <2>1, WithPrevType
    <2> HIDE DEF W
    <2>3. ASSUME NEW m \in 1..(n + 1) PROVE SameFields(L[m], W[m])
      <3>1. CASE m = 1
        <4>1. W[1].prev = F[1].prev  BY <1>1, <2>2
        <4>. QED  BY <1>3, <1>6, <2>2, <3>1, <4>1 DEF SameFields
      <3>2. CASE m # 1
        <4> DEFINE k == m - 1
        <4>1. k \in 1..n /\ k + 1 = m /\ F[m] = z.allocs[k] /\ (k = 1 <=> m = 2)
          BY <1>7, <3>2
        <4> HIDE DEF k
        <4>2. /\ L[m].at = z.allocs[k].at /\ L[m].size = z.allocs[k].size
              /\ L[m].cap = z.allocs[k].cap
              /\ L[m].prev = IF k = 1 THEN at ELSE z.allocs[k].prev
          BY <1>6, <4>1
        <4>. QED  BY <2>2, <4>1, <4>2 DEF SameFields
      <3>. QED  BY <3>1, <3>2
    <2>4. Len(L) = Len(W) /\ \A m \in 1..Len(L) : SameFields(L[m], W[m])
      BY <1>6, <2>2, <2>3
    <2>5. L = W  BY <1>6, <2>2, <2>4, SameLists
    <2>. QED  BY <2>5 DEF W
  <1>11. Addresses(F) \ {at} = Addresses(z.allocs) \ {at}
    <2>1. ASSUME NEW m \in 1..(n + 1), F[m].at # at
          PROVE  F[m].at \in Addresses(z.allocs)
      <3>1. m # 1  BY <1>3, <1>4, <2>1
      <3>. QED  BY <1>7, <3>1 DEF Addresses
    <2>2. ASSUME NEW i \in 1..n PROVE z.allocs[i].at \in Addresses(F)
      <3>1. i + 1 \in 1..Len(F)  BY <1>1, <1>3
      <3>. QED  BY <1>3, <3>1 DEF Addresses
    <2>3. HasOthers(F, z.allocs, at)  BY <1>3, <2>1 DEF HasOthers
    <2>4. HasOthers(z.allocs, F, at)  BY <2>2 DEF HasOthers
    <2> HIDE DEF at
    <2>. QED  BY <2>3, <2>4, SameOthers
  <1>. QED  BY <1>2, <1>3, <1>8, <1>9, <1>10, <1>11 DEF F, L, new

LEMMA PlaceBetweenAs ==
  ASSUME NEW z, Sound(z), NEW size \in Nat, NEW i \in 1..(Len(z.allocs) - 1)
  PROVE  LET p == PlaceBetween(z, size, i)
         IN  p.allocs = WithPrev(WithPrev(z.allocs, i + 1, p.at), i, p.at)
  <1> DEFINE n == Len(z.allocs)
             at == PlaceBetween(z, size, i).at
             L == PlaceBetween(z, size, i).allocs
             V == WithPrev(z.allocs, i + 1, at)
             W == WithPrev(V, i, at)
  <1>1. /\ z \in Zone /\ z.allocs \in Seq(Alloc) /\ n \in Nat
        /\ i \in 1..n /\ i + 1 \in 1..n
    BY SoundList DEF Sound
  <1>2. /\ L \in Seq(Alloc) /\ Len(L) = n /\ at \in Nat
        /\ \A m \in 1..n :
             /\ L[m].at = z.allocs[m].at /\ L[m].size = z.allocs[m].size
             /\ L[m].cap = z.allocs[m].cap
             /\ L[m].prev = IF m \in {i, i + 1} THEN at ELSE z.allocs[m].prev
    BY <1>1, PlaceBetweenList
  <1> HIDE DEF at, L
  <1>3. /\ V \in Seq(Alloc) /\ Len(V) = n
        /\ \A m \in 1..n :
             /\ V[m].at = z.allocs[m].at /\ V[m].size = z.allocs[m].size
             /\ V[m].cap = z.allocs[m].cap
             /\ V[m].prev = IF m = i + 1 THEN at ELSE z.allocs[m].prev
    BY <1>1, <1>2, WithPrevType
  <1> HIDE DEF V
  <1>4. /\ W \in Seq(Alloc) /\ Len(W) = n
        /\ \A m \in 1..n :
             /\ W[m].at = V[m].at /\ W[m].size = V[m].size
             /\ W[m].cap = V[m].cap
             /\ W[m].prev = IF m = i THEN at ELSE V[m].prev
    BY <1>1, <1>2, <1>3, WithPrevType
  <1> HIDE DEF W
  <1>5. \A m \in 1..n : SameFields(L[m], W[m])
    BY <1>2, <1>3, <1>4 DEF SameFields
  <1>6. L = W  BY <1>2, <1>4, <1>5, SameLists
  <1>. QED  BY <1>6 DEF W, V, L, at

(* The list after the first store of free: the block is bypassed if its    *)
(* prev pointer names the block in front of it, or the zone.               *)
AfterBypass(z, j) == IF InPlace(z, j) THEN Without(z.allocs, j) ELSE z.allocs

(* The position the block behind the j-th then has.                        *)
BehindIt(z, j) == IF InPlace(z, j) THEN j ELSE j + 1

LEMMA AfterBypassList ==
  ASSUME NEW z, Sound(z), NEW j \in 1..Len(z.allocs)
  PROVE  /\ AfterBypass(z, j) \in Seq(Alloc)
         /\ Ascends(AfterBypass(z, j))
         /\ j # Len(z.allocs) =>
              /\ BehindIt(z, j) \in 1..Len(AfterBypass(z, j))
              /\ AfterBypass(z, j)[BehindIt(z, j)].at = z.allocs[j + 1].at
         /\ Addresses(AfterBypass(z, j)) \ {z.allocs[j].at}
              = Addresses(z.allocs) \ {z.allocs[j].at}
  <1> DEFINE n == Len(z.allocs)
             x == z.allocs[j].at
             L == z.allocs
             W == Without(L, j)
  <1>1. L \in Seq(Alloc) /\ n \in Nat /\ Ascends(L) /\ j \in 1..n
        /\ \A i \in 1..n : L[i] \in Alloc /\ L[i].at \in Nat
    BY SoundList
  <1>2. /\ W \in Seq(Alloc) /\ Len(W) = n - 1 /\ Ascends(W)
        /\ \A m \in 1..(n - 1) : W[m] = L[IF m < j THEN m ELSE m + 1]
    BY <1>1, WithoutType
  <1> HIDE DEF W
  <1>3. CASE ~InPlace(z, j)
    <2>1. AfterBypass(z, j) = L /\ BehindIt(z, j) = j + 1
      BY <1>3 DEF AfterBypass, BehindIt
    <2>2. j # n => j + 1 \in 1..n  BY <1>1
    <2>. QED  BY <1>1, <2>1, <2>2
  <1>4. CASE InPlace(z, j)
    <2>1. AfterBypass(z, j) = W /\ BehindIt(z, j) = j
      BY <1>4 DEF AfterBypass, BehindIt, W
    <2>2. j # n => j \in 1..(n - 1) /\ W[j] = L[j + 1]
      <3>1. j # n => j \in 1..(n - 1) /\ ~(j < j)  BY <1>1
      <3>. QED  BY <1>2, <3>1
    <2>3. Addresses(W) \ {x} = Addresses(L) \ {x}
      <3>1. ASSUME NEW m \in 1..(n - 1) PROVE W[m].at \in Addresses(L)
        <4> DEFINE o == IF m < j THEN m ELSE m + 1
        <4>1. o \in 1..n /\ W[m] = L[o]  BY <1>1, <1>2
        <4>. QED  BY <4>1 DEF Addresses
      <3>2. ASSUME NEW m \in 1..n, L[m].at # x PROVE L[m].at \in Addresses(W)
        <4> DEFINE o == IF m < j THEN m ELSE m - 1
        <4>1. m # j  BY <3>2
        <4>2. o \in 1..(n - 1) /\ (IF o < j THEN o ELSE o + 1) = m
          BY <1>1, <4>1
        <4>3. o \in 1..Len(W) /\ W[o] = L[m]  BY <1>2, <4>2
        <4> HIDE DEF o
        <4>. QED  BY <4>3 DEF Addresses
      <3>3. HasOthers(W, L, x)  BY <1>2, <3>1 DEF HasOthers
      <3>4. HasOthers(L, W, x)  BY <3>2 DEF HasOthers
      <3> HIDE DEF L, x
      <3>. QED  BY <3>3, <3>4, SameOthers
    <2>. QED  BY <1>2, <2>1, <2>2, <2>3
  <1>. QED  BY <1>3, <1>4

LEMMA UnlinkAs ==
  ASSUME NEW z, Sound(z), NEW j \in 1..Len(z.allocs)
  PROVE  /\ Unlink(z.allocs, j) =
              IF j = Len(z.allocs) THEN AfterBypass(z, j)
              ELSE WithPrev(AfterBypass(z, j), BehindIt(z, j), z.allocs[j].prev)
         /\ Unlink(z.allocs, j) \in Seq(Alloc)
         /\ Ascends(Unlink(z.allocs, j))
         /\ Addresses(Unlink(z.allocs, j)) \ {z.allocs[j].at}
              = Addresses(z.allocs) \ {z.allocs[j].at}
  <1> DEFINE n == Len(z.allocs)
             L == z.allocs
             x == L[j].prev
             U == Unlink(L, j)
             A == AfterBypass(z, j)
             k == BehindIt(z, j)
             W == WithPrev(A, k, x)
  <1>1. L \in Seq(Alloc) /\ n \in Nat /\ j \in 1..n
        /\ \A i \in 1..n : L[i] \in Alloc /\ L[i].prev \in Nat
    BY SoundList
  <1>2. /\ U \in Seq(Alloc)
        /\ IF InPlace(z, j)
           THEN /\ Len(U) = n - 1
                /\ \A m \in 1..(n - 1) :
                     LET o == IF m < j THEN m ELSE m + 1
                     IN  /\ U[m].at = L[o].at /\ U[m].size = L[o].size
                         /\ U[m].cap = L[o].cap
                         /\ U[m].prev = IF m = j THEN x ELSE L[o].prev
           ELSE /\ Len(U) = n
                /\ \A m \in 1..n :
                     /\ U[m].at = L[m].at /\ U[m].size = L[m].size
                     /\ U[m].cap = L[m].cap
                     /\ U[m].prev = IF m = j + 1 THEN x ELSE L[m].prev
    BY <1>1, UnlinkType, UnlinkList DEF Sound
  <1> HIDE DEF U
  <1>3. /\ A \in Seq(Alloc) /\ Ascends(A)
        /\ j # n => k \in 1..Len(A)
        /\ Addresses(A) \ {L[j].at} = Addresses(L) \ {L[j].at}
    BY AfterBypassList
  <1>4. Len(A) = Len(U) /\ \A m \in 1..Len(U) :
          /\ U[m].at = A[m].at /\ U[m].size = A[m].size /\ U[m].cap = A[m].cap
          /\ U[m].prev = IF m = k THEN x ELSE A[m].prev
    <2>1. CASE InPlace(z, j)
      <3>1. A = Without(L, j) /\ k = j  BY <2>1 DEF AfterBypass, BehindIt
      <3>2. Len(A) = n - 1 /\ Len(U) = n - 1
            /\ \A m \in 1..(n - 1) : A[m] = L[IF m < j THEN m ELSE m + 1]
        <4>1. /\ Len(Without(L, j)) = n - 1
              /\ \A m \in 1..(n - 1) :
                   Without(L, j)[m] = L[IF m < j THEN m ELSE m + 1]
          BY <1>1, WithoutType
        <4>2. Len(U) = n - 1  BY <1>2, <2>1
        <4> HIDE DEF A
        <4>. QED  BY <3>1, <4>1, <4>2
      <3> HIDE DEF A, k, x
      <3>. QED  BY <1>2, <2>1, <3>1, <3>2
    <2>2. CASE ~InPlace(z, j)
      <3>1. A = L /\ k = j + 1  BY <2>2 DEF AfterBypass, BehindIt
      <3> HIDE DEF A, k, x
      <3>. QED  BY <1>2, <2>2, <3>1
    <2>. QED  BY <2>1, <2>2
  <1> HIDE DEF A
  <1>5. CASE j = n
    <2>1. \A m \in 1..Len(U) : m # k
      <3>1. CASE InPlace(z, j)
        BY <1>1, <1>2, <1>5, <3>1 DEF BehindIt
      <3>2. CASE ~InPlace(z, j)
        BY <1>1, <1>2, <1>5, <3>2 DEF BehindIt
      <3>. QED  BY <3>1, <3>2
    <2>2. \A m \in 1..Len(U) : SameFields(U[m], A[m])
      BY <1>4, <2>1 DEF SameFields
    <2>3. U = A  BY <1>2, <1>3, <1>4, <2>2, SameLists
    <2>4. /\ U \in Seq(Alloc) /\ Ascends(U)
          /\ Addresses(U) \ {L[j].at} = Addresses(L) \ {L[j].at}
      BY <1>3, <2>3
    <2>5. Unlink(L, j) = AfterBypass(z, j)  BY <2>3 DEF U, A
    <2>. QED  BY <1>5, <2>4, <2>5 DEF U
  <1>6. CASE j # n
    <2>1. k \in 1..Len(A) /\ x \in Nat  BY <1>1, <1>3, <1>6
    <2>2. /\ W \in Seq(Alloc) /\ Len(W) = Len(A) /\ Ascends(W)
          /\ \A m \in 1..Len(A) :
               /\ W[m].at = A[m].at /\ W[m].size = A[m].size
               /\ W[m].cap = A[m].cap
               /\ W[m].prev = IF m = k THEN x ELSE A[m].prev
      <3> HIDE DEF k, x
      <3>. QED  BY <1>3, <2>1, WithPrevType
    <2> HIDE DEF W
    <2>3. \A m \in 1..Len(U) : SameFields(U[m], W[m])
      BY <1>4, <2>2 DEF SameFields
    <2>4. U = W  BY <1>2, <1>4, <2>2, <2>3, SameLists
    <2>5. Addresses(U) = Addresses(A)
      BY <1>4 DEF Addresses
    <2>6. /\ U \in Seq(Alloc) /\ Ascends(U)
          /\ Addresses(U) \ {L[j].at} = Addresses(L) \ {L[j].at}
      BY <1>3, <2>2, <2>4, <2>5
    <2>7. Unlink(L, j) = WithPrev(AfterBypass(z, j), BehindIt(z, j), L[j].prev)
      BY <2>4 DEF U, A, W
    <2>. QED  BY <1>6, <2>6, <2>7 DEF U
  <1>. QED  BY <1>5, <1>6

-----------------------------------------------------------------------------
(* The invariant: how far a call has come                                  *)

InMemory(L) == Shows(heap, alloc_pool, L, NULL)

Calling(how, block, todo) == op = [how |-> how, block |-> block, todo |-> todo]

Done(size) == SetFree(ZoneMemSize(size, "tiny"))

PoolOf(L) == IF Len(L) = 0 THEN NULL ELSE L[1].at

(* In front of the list.                                                   *)
FrontHeader(size) ==
  SetAlloc(FirstSlot(before), PoolOf(before.allocs), NULL, size)

FrontPool == SetPool(FirstSlot(before))

FrontBack == SetPrev(before.allocs[1].at, FirstSlot(before))

FrontBegun(size) ==
  /\ Calling("front", FirstSlot(before),
       IF Len(before.allocs) = 0
       THEN <<FrontHeader(size), FrontPool, Done(size)>>
       ELSE <<FrontHeader(size), FrontPool, FrontBack, Done(size)>>)
  /\ InMemory(before.allocs)

FrontWritten(size) ==
  /\ Calling("front", FirstSlot(before),
       IF Len(before.allocs) = 0 THEN <<FrontPool, Done(size)>>
       ELSE <<FrontPool, FrontBack, Done(size)>>)
  /\ InMemory(before.allocs)
  /\ FirstSlot(before) \in DOMAIN heap
  /\ heap[FirstSlot(before)] = FrontHeader(size).val

FrontReached(size) ==
  /\ Len(before.allocs) # 0
  /\ Calling("front", FirstSlot(before), <<FrontBack, Done(size)>>)
  /\ InMemory(WithFront(before, size))
  /\ FirstSlot(before) \in DOMAIN heap
  /\ heap[FirstSlot(before)].size = size

FrontCall(size) ==
  /\ before.allocs = << >> \/ FitsFront(before, size)
  /\ FrontBegun(size) \/ FrontWritten(size) \/ FrontReached(size)

(* Between two listed blocks.                                              *)
GapAt(i) == End(before.allocs[i])

BetweenHeader(size, i) ==
  SetAlloc(GapAt(i), before.allocs[i + 1].at, before.allocs[i].at, size)

BetweenNext(i) == SetPrev(before.allocs[i + 1].at, GapAt(i))

BetweenHead(i) == SetPrev(before.allocs[i].at, GapAt(i))

GapWritten(size, i) ==
  GapAt(i) \in DOMAIN heap /\ heap[GapAt(i)].size = size

BetweenBegun(size, i) ==
  /\ Calling("between", GapAt(i),
       <<BetweenHeader(size, i), BetweenNext(i), BetweenHead(i), Done(size)>>)
  /\ InMemory(before.allocs)

BetweenWritten(size, i) ==
  /\ Calling("between", GapAt(i), <<BetweenNext(i), BetweenHead(i), Done(size)>>)
  /\ InMemory(before.allocs)
  /\ GapWritten(size, i)

BetweenLinked(size, i) ==
  /\ Calling("between", GapAt(i), <<BetweenHead(i), Done(size)>>)
  /\ InMemory(WithPrev(before.allocs, i + 1, GapAt(i)))
  /\ GapWritten(size, i)

BetweenCall(size) ==
  \E i \in FirstOf(FitsBetween(before, size)) :
    /\ ~FitsFront(before, size)
    /\ BetweenBegun(size, i) \/ BetweenWritten(size, i) \/ BetweenLinked(size, i)

(* Behind the last block.                                                  *)
LastOf(L) == L[Len(L)]

BehindNext == SetNext(LastOf(before.allocs).at, End(LastOf(before.allocs)))

BehindHeader(size) ==
  SetAlloc(End(LastOf(before.allocs)), NULL, LastOf(before.allocs).at, size)

BehindBegun(size) ==
  /\ Calling("behind", End(LastOf(before.allocs)),
       <<BehindNext, BehindHeader(size), Done(size)>>)
  /\ InMemory(before.allocs)

BehindHalf(size) ==
  /\ Calling("behind", End(LastOf(before.allocs)), <<BehindHeader(size), Done(size)>>)
  /\ Shows(heap, alloc_pool, before.allocs, End(LastOf(before.allocs)))

BehindCall(size) ==
  /\ before.allocs # << >>
  /\ ~FitsFront(before, size)
  /\ FitsBetween(before, size) = {}
  /\ FitsBehind(before, size)
  /\ BehindBegun(size) \/ BehindHalf(size)

(* Only free_mem_size is left to write.                                    *)
Placed(size) ==
  \E p \in GetAlloc(before, size), how \in {"front", "between", "behind"} :
    /\ Calling(how, p.at, <<Done(size)>>)
    /\ InMemory(p.allocs)
    /\ p.at \in DOMAIN heap
    /\ heap[p.at].size = size

(* free.                                                                   *)
FreeAt(j) == before.allocs[j].at

FreeNext(j) == NextOf(before.allocs, j, NULL)

FreeBypass(j) ==
  IF before.allocs[j].prev # NULL
  THEN SetNext(before.allocs[j].prev, FreeNext(j)) ELSE SetPool(FreeNext(j))

FreeBack(j) == SetPrev(FreeNext(j), before.allocs[j].prev)

FreeDone == Done(before.allocs[1].size)

FreeBegun(j) ==
  /\ Calling("free", FreeAt(j),
       IF j = Len(before.allocs) THEN <<FreeBypass(j), FreeDone>>
       ELSE <<FreeBypass(j), FreeBack(j), FreeDone>>)
  /\ InMemory(before.allocs)

FreeBypassed(j) ==
  /\ j # Len(before.allocs)
  /\ Calling("free", FreeAt(j), <<FreeBack(j), FreeDone>>)
  /\ InMemory(AfterBypass(before, j))

Freed(j) ==
  /\ Calling("free", FreeAt(j), <<FreeDone>>)
  /\ InMemory(Unlink(before.allocs, j))

FreeCall(j) == FreeBegun(j) \/ FreeBypassed(j) \/ Freed(j)

(* What the headers show between two calls, and during one.                *)
AtRest ==
  \E L \in Seq(Alloc) : Sound(ZoneOf(L, free_mem)) /\ InMemory(L)

InCall ==
  /\ Sound(before)
  /\ before.free = free_mem
  /\ \/ \E size \in Sizes : \/ FrontCall(size) \/ BetweenCall(size)
                            \/ BehindCall(size) \/ Placed(size)
     \/ \E j \in 1..Len(before.allocs) : FreeCall(j)

StoresInv ==
  /\ HeapOK(heap)
  /\ free_mem \in Nat
  /\ IF op = NoOp THEN AtRest ELSE InCall

-----------------------------------------------------------------------------
(* The calls begin                                                         *)

(* Lists of stores.                                                        *)
LEMMA OneStore ==
  ASSUME NEW a
  PROVE  Len(<<a>>) = 1 /\ Head(<<a>>) = a /\ <<a>> \o << >> = <<a>>
  OBVIOUS

LEMMA TwoStores ==
  ASSUME NEW a, NEW b
  PROVE  /\ Len(<<a, b>>) = 2 /\ Head(<<a, b>>) = a
         /\ Tail(<<a, b>>) = <<b>>
         /\ Append(<<a>>, b) = <<a, b>>
         /\ <<a>> \o <<b>> = <<a, b>>
         /\ <<a, b>> \o << >> = <<a, b>>
  <1> DEFINE S == {a, b}
  <1>1. /\ <<a>> \in Seq(S) /\ <<b>> \in Seq(S)
        /\ <<a, b>> \in Seq(S) /\ b \in S
    OBVIOUS
  <1> HIDE DEF S
  <1>2. Len(<<a, b>>) = 2 /\ Head(<<a, b>>) = a  OBVIOUS
  <1>3. Tail(<<a, b>>) = <<b>>  OBVIOUS
  <1>4. Append(<<a>>, b) = <<a, b>>
    <2> DEFINE l == Append(<<a>>, b)
    <2>1. /\ l \in Seq(S) /\ Len(l) = 1 + 1
          /\ \A i \in 1..1 : l[i] = <<a>>[i]
          /\ l[1 + 1] = b
      BY <1>1, AppendProperties
    <2> HIDE DEF l
    <2>2. Len(l) = Len(<<a, b>>) /\ \A i \in 1..Len(l) : l[i] = <<a, b>>[i]
      BY <2>1
    <2>3. l = <<a, b>>  BY <1>1, <2>1, <2>2, SeqEqual
    <2>. QED  BY <2>3 DEF l
  <1>5. <<a>> \o <<b>> = <<a, b>>
    <2>1. <<a>> \o <<b>> = Append(<<a>>, b)  BY <1>1, AppendIsConcat
    <2>. QED  BY <1>4, <2>1
  <1>6. <<a, b>> \o << >> = <<a, b>>  OBVIOUS
  <1>. QED  BY <1>2, <1>3, <1>4, <1>5, <1>6

LEMMA ThreeStores ==
  ASSUME NEW a, NEW b, NEW c
  PROVE  /\ Len(<<a, b, c>>) = 3 /\ Head(<<a, b, c>>) = a
         /\ Tail(<<a, b, c>>) = <<b, c>>
         /\ Append(<<a, b>>, c) = <<a, b, c>>
         /\ <<a, b>> \o <<c>> = <<a, b, c>>
  <1> DEFINE S == {a, b, c}
  <1>1. /\ <<a, b>> \in Seq(S) /\ <<c>> \in Seq(S)
        /\ <<a, b, c>> \in Seq(S) /\ c \in S
    OBVIOUS
  <1> HIDE DEF S
  <1>2. Len(<<a, b, c>>) = 3 /\ Head(<<a, b, c>>) = a  OBVIOUS
  <1>3. Tail(<<a, b, c>>) = <<b, c>>  OBVIOUS
  <1>4. Append(<<a, b>>, c) = <<a, b, c>>
    <2> DEFINE l == Append(<<a, b>>, c)
    <2>1. /\ l \in Seq(S) /\ Len(l) = 2 + 1
          /\ \A i \in 1..2 : l[i] = <<a, b>>[i]
          /\ l[2 + 1] = c
      BY <1>1, AppendProperties
    <2> HIDE DEF l
    <2>2. Len(l) = Len(<<a, b, c>>) /\ \A i \in 1..Len(l) : l[i] = <<a, b, c>>[i]
      BY <2>1
    <2>3. l = <<a, b, c>>  BY <1>1, <2>1, <2>2, SeqEqual
    <2>. QED  BY <2>3 DEF l
  <1>5. <<a, b>> \o <<c>> = <<a, b, c>>
    <2>1. <<a, b>> \o <<c>> = Append(<<a, b>>, c)  BY <1>1, AppendIsConcat
    <2>. QED  BY <1>4, <2>1
  <1>. QED  BY <1>2, <1>3, <1>4, <1>5

LEMMA FourStores ==
  ASSUME NEW a, NEW b, NEW c, NEW d
  PROVE  /\ Len(<<a, b, c, d>>) = 4 /\ Head(<<a, b, c, d>>) = a
         /\ Tail(<<a, b, c, d>>) = <<b, c, d>>
  <1>1. Len(<<a, b, c, d>>) = 4 /\ Head(<<a, b, c, d>>) = a  OBVIOUS
  <1>2. Tail(<<a, b, c, d>>) = <<b, c, d>>  OBVIOUS
  <1>. QED  BY <1>1, <1>2

LEMMA AppendFourth ==
  ASSUME NEW a, NEW b, NEW c, NEW d
  PROVE  Append(<<a, b, c>>, d) = <<a, b, c, d>>
  <1> DEFINE S == {a, b, c, d}
             l == Append(<<a, b, c>>, d)
  <1>1. /\ <<a, b, c>> \in Seq(S) /\ <<a, b, c, d>> \in Seq(S) /\ d \in S
    OBVIOUS
  <1> HIDE DEF S
  <1>2. /\ l \in Seq(S) /\ Len(l) = 3 + 1
        /\ \A i \in 1..3 : l[i] = <<a, b, c>>[i]
        /\ l[3 + 1] = d
    BY <1>1, AppendProperties
  <1> HIDE DEF l
  <1>3. Len(l) = Len(<<a, b, c, d>>) /\ \A i \in 1..Len(l) : l[i] = <<a, b, c, d>>[i]
    BY <1>2
  <1>4. l = <<a, b, c, d>>  BY <1>1, <1>2, <1>3, SeqEqual
  <1>. QED  BY <1>4 DEF l

(* Between two calls the walk and the list agree in all the code reads.    *)
LEMMA WalkedList ==
  ASSUME HeapOK(heap), NEW L, Sound(ZoneOf(L, free_mem)), InMemory(L)
  PROVE  /\ ZoneInMemory = ZoneOf(L, free_mem)
         /\ ZoneOf(L, free_mem).allocs = L
         /\ ZoneOf(L, free_mem).base = Base
         /\ ZoneOf(L, free_mem).type = "tiny"
         /\ ZoneOf(L, free_mem).free = free_mem
         /\ FirstSlot(ZoneOf(L, free_mem)) = Base + ZoneHdr
         /\ L \in Seq(Alloc) /\ Ascends(L) /\ Len(L) \in Nat
         /\ Len(Walk) = Len(L) /\ DOMAIN Walk = 1..Len(L)
         /\ \A i \in 1..Len(L) :
              /\ Walk[i] = L[i].at
              /\ EndOf(Walk[i]) = End(L[i])
              /\ heap[Walk[i]].next = NextOf(L, i, NULL)
              /\ heap[Walk[i]].prev = L[i].prev
              /\ heap[Walk[i]].size = L[i].size
              /\ L[i].at \in Nat /\ L[i].at > NULL
         /\ alloc_pool = PoolOf(L)
         /\ alloc_pool = NULL <=> Len(L) = 0
         /\ Len(L) = 0 <=> L = << >>
  <1> DEFINE z == ZoneOf(L, free_mem)
  <1>1. /\ z.allocs = L /\ z.base = Base /\ z.type = "tiny" /\ z.free = free_mem
    BY DEF ZoneOf
  <1> HIDE DEF z
  <1>2. /\ L \in Seq(Alloc) /\ Ascends(L) /\ Len(L) \in Nat
        /\ FirstSlot(z) \in Nat /\ FirstSlot(z) = Base + ZoneHdr
        /\ \A i \in 1..Len(L) : L[i].at \in Nat /\ L[i].at >= FirstSlot(z)
    BY <1>1, SoundList DEF z
  <1>3. /\ Shows(heap, alloc_pool, L, NULL)
        /\ Walk = [i \in 1..Len(L) |-> L[i].at]
        /\ ZoneInMemory = ZoneOf(L, free_mem)
    BY <1>2, WalkOf DEF InMemory
  <1>4. Len(Walk) = Len(L) /\ DOMAIN Walk = 1..Len(L)  BY <1>2, <1>3
  <1>5. \A i \in 1..Len(L) : L[i].at > NULL
    BY <1>2, SizesAssumption, ListStoresAssumption DEF NULL
  <1>6. ASSUME NEW i \in 1..Len(L)
        PROVE  /\ Walk[i] = L[i].at
               /\ EndOf(Walk[i]) = End(L[i])
               /\ heap[Walk[i]].next = NextOf(L, i, NULL)
               /\ heap[Walk[i]].prev = L[i].prev
               /\ heap[Walk[i]].size = L[i].size
    <2>1. Walk[i] = L[i].at  BY <1>3
    <2>2. /\ heap[L[i].at].next = NextOf(L, i, NULL)
          /\ heap[L[i].at].prev = L[i].prev
          /\ heap[L[i].at].size = L[i].size
      BY <1>3, HeaderAt
    <2>. QED  BY <2>1, <2>2 DEF EndOf, End, Chunk
  <1>7. alloc_pool = PoolOf(L)  BY <1>3 DEF Shows, PoolOf
  <1>8. alloc_pool = NULL <=> Len(L) = 0
    <2>1. Len(L) # 0 => 1 \in 1..Len(L)  BY <1>2
    <2>2. Len(L) # 0 => L[1].at # NULL  BY <1>2, <1>5, <2>1 DEF NULL
    <2>. QED  BY <1>7, <2>2 DEF PoolOf
  <1>9. Len(L) = 0 <=> L = << >>  BY <1>2, EmptySeq
  <1>. QED  BY <1>1, <1>2, <1>3, <1>4, <1>5, <1>6, <1>7, <1>8, <1>9 DEF z

(* The stores begun for a request are those of the place _get_alloc finds. *)
LEMMA StoresOfPlace ==
  ASSUME HeapOK(heap), NEW L, Sound(ZoneOf(L, free_mem)), InMemory(L),
         NEW size \in Nat, NEW call \in PlaceStores(size)
  PROVE  LET z == ZoneOf(L, free_mem)
         IN  \/ /\ L = << >> \/ FitsFront(z, size)
                /\ call = FrontStores(size)
             \/ /\ ~FitsFront(z, size)
                /\ \E i \in FirstOf(FitsBetween(z, size)) :
                     call = BetweenStores(size, i)
             \/ /\ L # << >> /\ ~FitsFront(z, size)
                /\ FitsBetween(z, size) = {}
                /\ FitsBehind(z, size)
                /\ call = BehindStores(size)
  <1> DEFINE z == ZoneOf(L, free_mem)
             n == Len(L)
  <1>1. /\ z.allocs = L /\ z.base = Base /\ z.type = "tiny"
        /\ FirstSlot(z) = Base + ZoneHdr
        /\ n \in Nat /\ Len(Walk) = n
        /\ \A i \in 1..n : /\ Walk[i] = L[i].at
                           /\ EndOf(Walk[i]) = End(L[i])
                           /\ heap[Walk[i]].next = NextOf(L, i, NULL)
        /\ alloc_pool = PoolOf(L)
        /\ alloc_pool = NULL <=> n = 0
        /\ n = 0 <=> L = << >>
    BY WalkedList
  <1> HIDE DEF z
  <1>2. (\/ alloc_pool = NULL
         \/ alloc_pool > Base + ZoneHdr + AllocHdr + size)
          <=> (L = << >> \/ FitsFront(z, size))
    <2>1. CASE n = 0  BY <1>1, <2>1
    <2>2. CASE n # 0  BY <1>1, <2>2 DEF FitsFront, PoolOf
    <2>. QED  BY <2>1, <2>2
  <1>3. HoleAfter(size) = FirstOf(FitsBetween(z, size))
    <2>1. ASSUME NEW i \in 1..(n - 1)
          PROVE  (heap[Walk[i]].next > EndOf(Walk[i]) + size + AllocHdr)
                   <=> (L[i + 1].at > End(L[i]) + size + AllocHdr)
      <3>1. i \in 1..n /\ i # n  BY <1>1
      <3>. QED  BY <1>1, <3>1 DEF NextOf
    <2>2. {i \in 1..(Len(Walk) - 1) :
             heap[Walk[i]].next > EndOf(Walk[i]) + size + AllocHdr}
            = FitsBetween(z, size)
      BY <1>1, <2>1 DEF FitsBetween
    <2>. QED  BY <2>2 DEF HoleAfter
  <1>4. HoleAfter(size) # {} <=> FitsBetween(z, size) # {}
    <2>1. n # 0 => FitsBetween(z, size) \in SUBSET (1..(n - 1)) /\ n - 1 \in Nat
      BY <1>1 DEF FitsBetween
    <2>2. n = 0 => FitsBetween(z, size) = {}
      <3>1. n = 0 => 1..(n - 1) = {}  BY <1>1
      <3>. QED  BY <1>1, <3>1 DEF FitsBetween
    <2>3. ASSUME FitsBetween(z, size) # {} PROVE FirstOf(FitsBetween(z, size)) # {}
      <3>1. n # 0  BY <2>2, <2>3
      <3> DEFINE m == n - 1
      <3>2. FitsBetween(z, size) \in SUBSET (1..m) /\ m \in Nat  BY <2>1, <3>1
      <3> HIDE DEF m
      <3>. QED  BY <2>3, <3>2, FirstOfSome
    <2>4. FitsBetween(z, size) = {} => FirstOf(FitsBetween(z, size)) = {}
      BY DEF FirstOf
    <2>. QED  BY <1>3, <2>3, <2>4
  <1>5. n # 0 => (Base + ZoneMemSize(size, "tiny")
                    >= EndOf(Last(Walk)) + size + AllocHdr <=> FitsBehind(z, size))
    <2>1. n # 0 => n \in 1..n  BY <1>1
    <2>2. n # 0 => EndOf(Last(Walk)) = End(L[n])  BY <1>1, <2>1 DEF Last
    <2>. QED  BY <1>1, <2>2 DEF FitsBehind
  <1>6. CASE L = << >> \/ FitsFront(z, size)
    <2>1. call = FrontStores(size)  BY <1>2, <1>6 DEF PlaceStores
    <2>. QED  BY <1>6, <2>1 DEF z
  <1>7. CASE ~(L = << >> \/ FitsFront(z, size)) /\ FitsBetween(z, size) # {}
    <2>1. call \in {BetweenStores(size, i) : i \in HoleAfter(size)}
      BY <1>2, <1>4, <1>7 DEF PlaceStores
    <2>. QED  BY <1>3, <1>7, <2>1 DEF z
  <1>8. CASE ~(L = << >> \/ FitsFront(z, size)) /\ FitsBetween(z, size) = {}
    <2>1. /\ Base + ZoneMemSize(size, "tiny") >= EndOf(Last(Walk)) + size + AllocHdr
          /\ call = BehindStores(size)
      BY <1>2, <1>4, <1>8 DEF PlaceStores
    <2>. QED  BY <1>1, <1>5, <1>8, <2>1 DEF z
  <1>. QED  BY <1>6, <1>7, <1>8

LEMMA FrontBegins ==
  ASSUME NEW z, NEW size \in Nat, HeapOK(heap), z = ZoneOf(z.allocs, free_mem),
         Sound(z), InMemory(z.allocs),
         before' = z, UNCHANGED <<heap, alloc_pool, free_mem>>,
         op' = [FrontStores(size) EXCEPT !.todo = Append(@, Done(size))]
  PROVE  FrontBegun(size)' /\ op'.how = "front"
  <1> DEFINE at == FirstSlot(z)
             h == SetAlloc(at, PoolOf(z.allocs), NULL, size)
             p == SetPool(at)
             b == SetPrev(z.allocs[1].at, at)
             d == Done(size)
  <1>1. /\ at = Base + ZoneHdr /\ alloc_pool = PoolOf(z.allocs)
        /\ alloc_pool = NULL <=> Len(z.allocs) = 0
    BY WalkedList
  <1> DEFINE todo == IF Len(z.allocs) = 0 THEN <<h, p>> ELSE <<h, p, b>>
  <1>2. FrontStores(size) = [how |-> "front", block |-> at, todo |-> todo]
    <2>1. alloc_pool # NULL => SetPrev(alloc_pool, at) = b  BY <1>1 DEF PoolOf
    <2>2. FrontStores(size) =
            [how |-> "front", block |-> at, todo |->
               <<h, p>> \o (IF alloc_pool = NULL THEN << >>
                            ELSE <<SetPrev(alloc_pool, at)>>)]
      BY <1>1 DEF FrontStores
    <2> HIDE DEF h, p, b, at
    <2>3. CASE alloc_pool = NULL
      <3>1. <<h, p>> \o << >> = <<h, p>>  BY TwoStores
      <3>. QED  BY <1>1, <2>2, <2>3, <3>1
    <2>4. CASE alloc_pool # NULL
      <3>1. <<h, p>> \o <<b>> = <<h, p, b>>  BY ThreeStores
      <3>. QED  BY <1>1, <2>1, <2>2, <2>4, <3>1
    <2>. QED  BY <2>3, <2>4
  <1>3. op' = [how |-> "front", block |-> at, todo |-> Append(todo, d)]
    <2> DEFINE f == FrontStores(size)
    <2>1. op' = [f EXCEPT !.todo = Append(@, d)]  OBVIOUS
    <2>2. f = [how |-> "front", block |-> at, todo |-> todo]  BY <1>2
    <2> HIDE DEF f, h, p, b, d, todo, at
    <2>. QED  BY <2>1, <2>2
  <1>4. Append(todo, d) = IF Len(z.allocs) = 0 THEN <<h, p, d>> ELSE <<h, p, b, d>>
    <2> HIDE DEF h, p, b, d
    <2>1. Append(<<h, p>>, d) = <<h, p, d>>  BY ThreeStores
    <2>2. Append(<<h, p, b>>, d) = <<h, p, b, d>>  BY AppendFourth
    <2>. QED  BY <2>1, <2>2
  <1>5. /\ FirstSlot(before)' = at /\ FrontHeader(size)' = h /\ FrontPool' = p
        /\ FrontBack' = b /\ Len(before.allocs)' = Len(z.allocs)
    BY DEF FrontHeader, FrontPool, FrontBack
  <1>6. InMemory(before.allocs)'  BY DEF InMemory
  <1> HIDE DEF at, h, p, b, d
  <1>7. Calling("front", FirstSlot(before),
          IF Len(before.allocs) = 0
          THEN <<FrontHeader(size), FrontPool, Done(size)>>
          ELSE <<FrontHeader(size), FrontPool, FrontBack, Done(size)>>)'
    BY <1>3, <1>4, <1>5 DEF Calling, d
  <1>. QED  BY <1>3, <1>6, <1>7 DEF FrontBegun

LEMMA BetweenBegins ==
  ASSUME NEW z, NEW size \in Nat, HeapOK(heap), z = ZoneOf(z.allocs, free_mem),
         Sound(z), InMemory(z.allocs), NEW i \in 1..(Len(z.allocs) - 1),
         before' = z, UNCHANGED <<heap, alloc_pool, free_mem>>,
         op' = [BetweenStores(size, i) EXCEPT !.todo = Append(@, Done(size))]
  PROVE  BetweenBegun(size, i)' /\ op'.how = "between"
  <1> DEFINE at == End(z.allocs[i])
             head == z.allocs[i].at
             next == z.allocs[i + 1].at
             h == SetAlloc(at, next, head, size)
             p == SetPrev(next, at)
             b == SetPrev(head, at)
             d == Done(size)
  <1>1. /\ Walk[i] = head /\ EndOf(Walk[i]) = at /\ heap[Walk[i]].next = next
    <2>1. Len(z.allocs) \in Nat  BY SoundList
    <2>2. i \in 1..Len(z.allocs) /\ i # Len(z.allocs)  BY <2>1
    <2>. QED  BY <2>2, WalkedList DEF NextOf
  <1>2. BetweenStores(size, i) = [how |-> "between", block |-> at, todo |-> <<h, p, b>>]
    BY <1>1 DEF BetweenStores
  <1>3. op' = [how |-> "between", block |-> at, todo |-> Append(<<h, p, b>>, d)]
    BY <1>2
  <1>4. Append(<<h, p, b>>, d) = <<h, p, b, d>>
    <2> HIDE DEF h, p, b, d
    <2>. QED  BY AppendFourth
  <1>5. GapAt(i)' = at /\ BetweenHeader(size, i)' = h /\ BetweenNext(i)' = p
        /\ BetweenHead(i)' = b
    BY DEF GapAt, BetweenHeader, BetweenNext, BetweenHead
  <1>6. InMemory(before.allocs)'  BY DEF InMemory
  <1> HIDE DEF at, h, p, b, d
  <1>7. Calling("between", GapAt(i),
          <<BetweenHeader(size, i), BetweenNext(i), BetweenHead(i), Done(size)>>)'
    BY <1>3, <1>4, <1>5 DEF Calling, d
  <1>. QED  BY <1>3, <1>6, <1>7 DEF BetweenBegun

LEMMA BehindBegins ==
  ASSUME NEW z, NEW size \in Nat, HeapOK(heap), z = ZoneOf(z.allocs, free_mem),
         Sound(z), InMemory(z.allocs), z.allocs # << >>,
         before' = z, UNCHANGED <<heap, alloc_pool, free_mem>>,
         op' = [BehindStores(size) EXCEPT !.todo = Append(@, Done(size))]
  PROVE  BehindBegun(size)' /\ op'.how = "behind"
  <1> DEFINE head == LastOf(z.allocs).at
             at == End(LastOf(z.allocs))
             b == SetNext(head, at)
             h == SetAlloc(at, NULL, head, size)
             d == Done(size)
  <1>1. Last(Walk) = head /\ EndOf(Last(Walk)) = at
    <2>1. Len(z.allocs) \in Nat /\ Len(z.allocs) # 0  BY WalkedList
    <2>2. Len(z.allocs) \in 1..Len(z.allocs)  BY <2>1
    <2>3. Last(Walk) = Walk[Len(z.allocs)]  BY WalkedList DEF Last
    <2>. QED  BY <2>2, <2>3, WalkedList DEF LastOf
  <1>2. BehindStores(size) = [how |-> "behind", block |-> at, todo |-> <<b, h>>]
    BY <1>1 DEF BehindStores
  <1>3. op' = [how |-> "behind", block |-> at, todo |-> Append(<<b, h>>, d)]
    BY <1>2
  <1>4. Append(<<b, h>>, d) = <<b, h, d>>
    <2> HIDE DEF h, b, d
    <2>. QED  BY ThreeStores
  <1>5. /\ End(LastOf(before.allocs))' = at /\ BehindNext' = b
        /\ BehindHeader(size)' = h
    BY DEF BehindNext, BehindHeader
  <1>6. InMemory(before.allocs)'  BY DEF InMemory
  <1> HIDE DEF at, h, b, d
  <1>7. Calling("behind", End(LastOf(before.allocs)),
          <<BehindNext, BehindHeader(size), Done(size)>>)'
    BY <1>3, <1>4, <1>5 DEF Calling, d
  <1>. QED  BY <1>3, <1>6, <1>7 DEF BehindBegun

(* malloc begins.                                                          *)
LEMMA MallocBegins ==
  ASSUME StoresInv, NEW size \in Sizes, BeginMalloc(size)
  PROVE  StoresInv' /\ before' = ZoneInMemory /\ op = NoOp /\ op' # NoOp
  <1>1. /\ HeapOK(heap) /\ free_mem \in Nat /\ op = NoOp /\ AtRest
        /\ size \in Nat
    BY ListStoresAssumption DEF StoresInv, BeginMalloc
  <1>2. PICK call \in PlaceStores(size) :
          Begin([call EXCEPT !.todo = Append(@, SetFree(ZoneMemSize(size, "tiny")))])
    BY DEF BeginMalloc
  <1>3. /\ op' = [call EXCEPT !.todo = Append(@, Done(size))]
        /\ before' = ZoneInMemory
        /\ UNCHANGED <<heap, alloc_pool, free_mem>>
    BY <1>2 DEF Begin, Done
  <1>4. PICK L \in Seq(Alloc) : Sound(ZoneOf(L, free_mem)) /\ InMemory(L)
    BY <1>1 DEF AtRest
  <1> DEFINE z == ZoneOf(L, free_mem)
  <1>5. /\ z.allocs = L /\ z.free = free_mem /\ ZoneInMemory = z
    BY <1>1, <1>4, WalkedList
  <1>6. before' = z /\ z = ZoneOf(z.allocs, free_mem) /\ Sound(z)
        /\ InMemory(z.allocs)
    BY <1>3, <1>4, <1>5
  <1> HIDE DEF z
  <1>7. Sound(before)' /\ before'.free = free_mem' /\ before'.allocs = L
    BY <1>3, <1>5, <1>6 DEF Sound, Sorted, LinksSound, Ordered, FirstSlot, InPlace, Dangles
  <1>8. (FrontCall(size) \/ BetweenCall(size) \/ BehindCall(size))' /\ op'.how # "none"
    <2>1. CASE (L = << >> \/ FitsFront(z, size)) /\ call = FrontStores(size)
      <3>1. FrontBegun(size)' /\ op'.how = "front"
        BY <1>1, <1>3, <1>6, <2>1, FrontBegins
      <3>2. (before.allocs = << >> \/ FitsFront(before, size))'
        BY <1>6, <1>7, <2>1 DEF FitsFront, FirstSlot
      <3>. QED  BY <3>1, <3>2 DEF FrontCall
    <2>2. ASSUME ~FitsFront(z, size), NEW i \in FirstOf(FitsBetween(z, size)),
                 call = BetweenStores(size, i)
          PROVE  BetweenCall(size)' /\ op'.how = "between"
      <3>1. i \in 1..(Len(z.allocs) - 1)  BY DEF FirstOf, FitsBetween
      <3>2. BetweenBegun(size, i)' /\ op'.how = "between"
        BY <1>1, <1>3, <1>6, <2>2, <3>1, BetweenBegins
      <3>3. (~FitsFront(before, size) /\ i \in FirstOf(FitsBetween(before, size)))'
        BY <1>6, <2>2 DEF FitsFront, FirstSlot, FitsBetween
      <3>. QED  BY <3>2, <3>3 DEF BetweenCall
    <2>3. CASE /\ L # << >> /\ ~FitsFront(z, size)
               /\ FitsBetween(z, size) = {}
               /\ FitsBehind(z, size)
               /\ call = BehindStores(size)
      <3>1. BehindBegun(size)' /\ op'.how = "behind"
        BY <1>1, <1>3, <1>5, <1>6, <2>3, BehindBegins
      <3>2. (/\ before.allocs # << >> /\ ~FitsFront(before, size)
             /\ FitsBetween(before, size) = {}
             /\ FitsBehind(before, size))'
        BY <1>6, <1>7, <2>3 DEF FitsFront, FirstSlot, FitsBetween, FitsBehind
      <3>. QED  BY <3>1, <3>2 DEF BehindCall
    <2>. QED  BY <1>1, <1>4, <2>1, <2>2, <2>3, StoresOfPlace DEF z
  <1>9. op' # NoOp  BY <1>8 DEF NoOp
  <1>10. HeapOK(heap)' /\ free_mem' \in Nat  BY <1>1, <1>3 DEF HeapOK
  <1>11. InCall'  BY <1>7, <1>8 DEF InCall
  <1>. QED  BY <1>1, <1>3, <1>9, <1>10, <1>11 DEF StoresInv

(* free begins.                                                            *)
LEMMA FreeBegins ==
  ASSUME StoresInv, NEW j \in DOMAIN Walk, BeginFree(Walk[j])
  PROVE  StoresInv' /\ before' = ZoneInMemory /\ op = NoOp /\ op' # NoOp
  <1>1. HeapOK(heap) /\ free_mem \in Nat /\ op = NoOp /\ AtRest
    BY DEF StoresInv, BeginFree
  <1>2. PICK L \in Seq(Alloc) : Sound(ZoneOf(L, free_mem)) /\ InMemory(L)
    BY <1>1 DEF AtRest
  <1> DEFINE z == ZoneOf(L, free_mem)
             n == Len(L)
  <1>3. /\ z.allocs = L /\ z.free = free_mem /\ ZoneInMemory = z
        /\ n \in Nat /\ DOMAIN Walk = 1..n
        /\ \A i \in 1..n : /\ Walk[i] = L[i].at
                           /\ heap[Walk[i]].next = NextOf(L, i, NULL)
                           /\ heap[Walk[i]].prev = L[i].prev
                           /\ heap[Walk[i]].size = L[i].size
                           /\ L[i].at \in Nat /\ L[i].at > NULL
        /\ alloc_pool = PoolOf(L)
    BY <1>1, <1>2, WalkedList
  <1>4. before' = z /\ UNCHANGED <<heap, alloc_pool, free_mem>>
        /\ op' = [how |-> "free", block |-> Walk[j], todo |->
                    Append(UnlinkStores(Walk[j]),
                           SetFree(ZoneMemSize(heap[alloc_pool].size, "tiny")))]
    BY <1>3 DEF BeginFree, Begin
  <1>5. j \in 1..n /\ 1 \in 1..n /\ n # 0  BY <1>3
  <1> HIDE DEF z
  <1>6. Sound(before)' /\ before'.free = free_mem' /\ before'.allocs = L
    BY <1>2, <1>3, <1>4 DEF z, Sound, Sorted, LinksSound, Ordered, FirstSlot,
                            InPlace, Dangles
  <1> DEFINE x == NextOf(L, j, NULL)
             prev == L[j].prev
             s == IF prev # NULL THEN SetNext(prev, x) ELSE SetPool(x)
             b == SetPrev(x, prev)
             d == Done(L[1].size)
  <1>7. /\ heap[Walk[j]].next = x /\ heap[Walk[j]].prev = prev
        /\ x = NULL <=> j = n
    <2>1. j # n => j + 1 \in 1..n  BY <1>5
    <2>2. j # n => L[j + 1].at # NULL  BY <1>3, <2>1 DEF NULL
    <2>. QED  BY <1>3, <1>5, <2>2 DEF NextOf
  <1>8. SetFree(ZoneMemSize(heap[alloc_pool].size, "tiny")) = d
    <2>1. alloc_pool = Walk[1]  BY <1>3, <1>5 DEF PoolOf
    <2>2. heap[alloc_pool].size = L[1].size  BY <1>3, <1>5, <2>1
    <2>. QED  BY <2>2 DEF Done
  <1>9. UnlinkStores(Walk[j]) =
          <<s>> \o (IF x = NULL THEN << >> ELSE <<b>>)
    BY <1>7 DEF UnlinkStores
  <1>10. /\ FreeAt(j)' = Walk[j] /\ FreeBypass(j)' = s /\ FreeBack(j)' = b
         /\ FreeDone' = d /\ Len(before.allocs)' = n
    BY <1>3, <1>5, <1>6
    DEF FreeAt, FreeBypass, FreeBack, FreeDone, FreeNext, NextOf, Done
  <1>11. InMemory(before.allocs)'  BY <1>2, <1>4, <1>6 DEF InMemory
  <1> HIDE DEF s, b, d, x, n
  <1>12. Append(UnlinkStores(Walk[j]), d) = IF j = n THEN <<s, d>> ELSE <<s, b, d>>
    <2>1. CASE j = n
      <3>1. <<s>> \o << >> = <<s>>  BY OneStore
      <3>2. Append(<<s>>, d) = <<s, d>>  BY TwoStores
      <3>. QED  BY <1>7, <1>9, <2>1, <3>1, <3>2
    <2>2. CASE j # n
      <3>1. <<s>> \o <<b>> = <<s, b>>  BY TwoStores
      <3>2. Append(<<s, b>>, d) = <<s, b, d>>  BY ThreeStores
      <3>. QED  BY <1>7, <1>9, <2>2, <3>1, <3>2
    <2>. QED  BY <2>1, <2>2
  <1>13. op' = [how |-> "free", block |-> Walk[j], todo |->
                  IF j = n THEN <<s, d>> ELSE <<s, b, d>>]
    BY <1>4, <1>8, <1>12
  <1>14. FreeBegun(j)'
    <2>1. Calling("free", FreeAt(j),
            IF j = Len(before.allocs) THEN <<FreeBypass(j), FreeDone>>
            ELSE <<FreeBypass(j), FreeBack(j), FreeDone>>)'
      BY <1>10, <1>13 DEF Calling
    <2>. QED  BY <1>11, <2>1 DEF FreeBegun
  <1>15. op' # NoOp
    <2>1. op'.how = "free"  BY <1>13
    <2>. QED  BY <2>1 DEF NoOp
  <1>16. HeapOK(heap)' /\ free_mem' \in Nat  BY <1>1, <1>4 DEF HeapOK
  <1>17. InCall'
    <2>1. j \in 1..Len(before'.allocs)  BY <1>5, <1>6 DEF n
    <2>. QED  BY <1>6, <1>14, <2>1 DEF InCall, FreeCall
  <1>. QED  BY <1>1, <1>3, <1>4, <1>15, <1>16, <1>17 DEF StoresInv

-----------------------------------------------------------------------------
(* The calls store                                                         *)

LEMMA StoreStep ==
  ASSUME Store, NEW how, NEW block, NEW todo, Calling(how, block, todo),
         NEW s, s = Head(todo), NEW rest, rest = Tail(todo)
  PROVE  /\ op' = [how |-> how, block |-> block, todo |-> rest]
         /\ alloc_pool' = IF s.kind = "pool" THEN s.val ELSE alloc_pool
         /\ s.kind = "header" => heap' = WriteHeader(s.at, s.val)
         /\ s.kind = "pool" => heap' = heap
         /\ s.kind = "next" => heap' = WriteField(s.at, "next", s.val)
         /\ s.kind = "prev" => heap' = WriteField(s.at, "prev", s.val)
         /\ free_mem' = free_mem /\ before' = before
  <1>1. op.todo = todo /\ op = [how |-> how, block |-> block, todo |-> todo]
    BY DEF Calling
  <1>2. op' = [op EXCEPT !.todo = Tail(@)]  BY DEF Store
  <1>3. op' = [how |-> how, block |-> block, todo |-> rest]
    <2> DEFINE c == op
    <2>1. op' = [c EXCEPT !.todo = rest]  BY <1>1, <1>2
    <2>2. c = [how |-> how, block |-> block, todo |-> todo]  BY <1>1
    <2> HIDE DEF c
    <2>. QED  BY <2>1, <2>2
  <1>4. /\ alloc_pool' = IF s.kind = "pool" THEN s.val ELSE alloc_pool
        /\ heap' = CASE s.kind = "header" -> WriteHeader(s.at, s.val)
                     [] s.kind = "pool"   -> heap
                     [] OTHER             -> WriteField(s.at, s.kind, s.val)
        /\ free_mem' = free_mem /\ before' = before
    BY <1>1 DEF Store
  <1>5. /\ s.kind = "header" => heap' = WriteHeader(s.at, s.val)
        /\ s.kind = "pool" => heap' = heap
        /\ s.kind = "next" => heap' = WriteField(s.at, "next", s.val)
        /\ s.kind = "prev" => heap' = WriteField(s.at, "prev", s.val)
    BY <1>4
  <1>. QED  BY <1>3, <1>4, <1>5

LEMMA FrontStore1 ==
  ASSUME HeapOK(heap), Sound(before), NEW size \in Nat,
         before.allocs = << >> \/ FitsFront(before, size),
         FrontBegun(size), Store
  PROVE  HeapOK(heap') /\ FrontWritten(size)'
  <1> DEFINE L == before.allocs
             n == Len(L)
             at == FirstSlot(before)
             h == FrontHeader(size)
             p == FrontPool
             b == FrontBack
             d == Done(size)
             todo == IF n = 0 THEN <<h, p, d>> ELSE <<h, p, b, d>>
             rest == IF n = 0 THEN <<p, d>> ELSE <<p, b, d>>
  <1>1. Calling("front", at, todo) /\ InMemory(L)  BY DEF FrontBegun
  <1>2. /\ n \in Nat /\ at \in Nat /\ at = Base + ZoneHdr
        /\ \A i \in 1..n : L[i].at \in Nat
    BY SoundList
  <1>3. Head(todo) = h /\ Tail(todo) = rest
    <2> HIDE DEF h, p, b, d, n
    <2>1. Head(<<h, p, d>>) = h /\ Tail(<<h, p, d>>) = <<p, d>>  BY ThreeStores
    <2>2. Head(<<h, p, b, d>>) = h /\ Tail(<<h, p, b, d>>) = <<p, b, d>>
      BY FourStores
    <2>. QED  BY <2>1, <2>2
  <1>4. h.kind = "header" /\ h.at = at /\ h.val.size = size
        /\ h.val = [next |-> PoolOf(L), prev |-> NULL, size |-> size, cap |-> size]
    BY DEF FrontHeader, SetAlloc
  <1>5. h.val \in Header
    <2>1. PoolOf(L) \in Nat
      <3>1. n # 0 => 1 \in 1..n  BY <1>2
      <3>. QED  BY <1>2, <3>1 DEF PoolOf, NULL
    <2>. QED  BY <1>4, <2>1 DEF Header, NULL
  <1>6. \A i \in 1..n : L[i].at + AllocHdr <= at \/ at + AllocHdr <= L[i].at
    <2> SUFFICES ASSUME NEW i \in 1..n PROVE at + AllocHdr <= L[i].at  OBVIOUS
    <2> DEFINE a == L[i].at
    <2>1. PlaceFront(before, size).at = at
          /\ PlaceFront(before, size).at + AllocHdr + size <= a
      <3>1. before \in Zone  BY DEF Sound
      <3>. QED  BY <3>1, PlaceFrontClear, PlaceFrontList
    <2>2. a \in Nat  BY <1>2
    <2> HIDE DEF a, at
    <2>3. at + AllocHdr <= a  BY <1>2, <2>1, <2>2, SizesAssumption
    <2>. QED  BY <2>3 DEF a
  <1> HIDE DEF h, p, b, d, at, L, n, todo, rest
  <1>7. /\ op' = [how |-> "front", block |-> at, todo |-> rest]
        /\ alloc_pool' = alloc_pool
        /\ heap' = WriteHeader(at, h.val)
        /\ free_mem' = free_mem /\ before' = before
    BY <1>1, <1>3, <1>4, StoreStep
  <1>8. /\ HeapOK(heap') /\ Shows(heap', alloc_pool, L, NULL)
        /\ at \in DOMAIN heap' /\ heap'[at] = h.val
    <2>1. at >= Base + ZoneHdr  BY <1>2
    <2>2. Shows(heap, alloc_pool, L, NULL)  BY <1>1 DEF InMemory
    <2> DEFINE hd == h.val
    <2>3. hd \in Header  BY <1>5
    <2> HIDE DEF hd
    <2>4. /\ HeapOK(WriteHeader(at, hd)) /\ Shows(WriteHeader(at, hd), alloc_pool, L, NULL)
          /\ at \in DOMAIN WriteHeader(at, hd) /\ WriteHeader(at, hd)[at] = hd
      BY <1>2, <1>6, <2>1, <2>2, <2>3, WriteHeaderKeeps DEF n
    <2>. QED  BY <1>7, <2>4 DEF hd
  <1>9. FrontWritten(size)'
    <2>1. /\ FirstSlot(before)' = at /\ FrontHeader(size)' = h
          /\ FrontPool' = p /\ FrontBack' = b /\ Len(before.allocs)' = n
          /\ before.allocs' = L
      BY <1>7 DEF at, h, p, b, n, L, FrontHeader, FrontPool, FrontBack
    <2>2. InMemory(before.allocs)'  BY <1>7, <1>8, <2>1 DEF InMemory
    <2>. QED  BY <1>7, <1>8, <2>1, <2>2 DEF FrontWritten, Calling, rest, d
  <1>. QED  BY <1>8, <1>9

(* The block reached the list: the call is done but for free_mem_size.     *)
LEMMA PlacedIs ==
  ASSUME NEW size, NEW how \in {"front", "between", "behind"},
         NEW p \in GetAlloc(before', size),
         op' = [how |-> how, block |-> p.at, todo |-> <<Done(size)>>],
         Shows(heap', alloc_pool', p.allocs, NULL),
         p.at \in DOMAIN heap', heap'[p.at].size = size
  PROVE  Placed(size)'
  BY DEF Placed, Calling, InMemory

LEMMA FrontStore2 ==
  ASSUME HeapOK(heap), Sound(before), NEW size \in Nat,
         before.allocs = << >> \/ FitsFront(before, size),
         FrontWritten(size), Store
  PROVE  HeapOK(heap') /\ (FrontReached(size) \/ Placed(size))'
  <1> DEFINE L == before.allocs
             n == Len(L)
             at == FirstSlot(before)
             h == FrontHeader(size)
             p == FrontPool
             b == FrontBack
             d == Done(size)
             todo == IF n = 0 THEN <<p, d>> ELSE <<p, b, d>>
             rest == IF n = 0 THEN <<d>> ELSE <<b, d>>
             F == WithFront(before, size)
             a == NewAlloc(at, NULL, size)
             place == PlaceFront(before, size)
  <1>1. /\ Calling("front", at, todo) /\ InMemory(L)
        /\ at \in DOMAIN heap /\ heap[at] = h.val
    BY DEF FrontWritten
  <1>2. /\ n \in Nat /\ at \in Nat /\ L \in Seq(Alloc) /\ before \in Zone
    BY SoundList DEF Sound
  <1>3. Head(todo) = p /\ Tail(todo) = rest
    <2> HIDE DEF p, b, d, n
    <2>1. Head(<<p, d>>) = p /\ Tail(<<p, d>>) = <<d>>  BY TwoStores
    <2>2. Head(<<p, b, d>>) = p /\ Tail(<<p, b, d>>) = <<b, d>>
      BY ThreeStores
    <2>. QED  BY <2>1, <2>2
  <1>4. p.kind = "pool" /\ p.val = at
    BY DEF FrontPool, SetPool
  <1>5. /\ F \in Seq(Alloc) /\ Len(F) = n + 1 /\ F[1] = a /\ a \in Alloc
        /\ \A i \in 1..n : F[i + 1] = L[i]
        /\ n = 0 => place.allocs = F
    BY PlaceFrontAs
  <1>6. /\ a.at = at /\ a.prev = NULL /\ a.size = size /\ a.cap = size
    BY DEF NewAlloc
  <1>7. /\ h.val = [next |-> PoolOf(L), prev |-> NULL, size |-> size, cap |-> size]
        /\ h.val.size = size
    BY DEF FrontHeader, SetAlloc
  <1>8. alloc_pool = PoolOf(L) /\ Shows(heap, alloc_pool, L, NULL)
    BY <1>1 DEF InMemory, Shows, PoolOf
  <1>9. place.at = at /\ place \in GetAlloc(before, size)
    <2>1. place.at = at  BY <1>2, PlaceFrontList
    <2>. QED  BY <2>1 DEF GetAlloc
  <1> HIDE DEF h, p, b, d, at, L, n, todo, rest, F, a, place
  <1>10. /\ op' = [how |-> "front", block |-> at, todo |-> rest]
         /\ alloc_pool' = at
         /\ heap' = heap
         /\ free_mem' = free_mem /\ before' = before
    BY <1>1, <1>3, <1>4, StoreStep
  <1>11. Shows(heap', alloc_pool', F, NULL)
    <2>1. heap[a.at] = [next |-> alloc_pool, prev |-> a.prev,
                        size |-> a.size, cap |-> a.cap]
      BY <1>1, <1>6, <1>7, <1>8
    <2>2. Shows(heap, a.at, F, NULL)
      <3>1. /\ Len(F) = Len(L) + 1 /\ F[1] = a
            /\ \A i \in 1..Len(L) : F[i + 1] = L[i]
        BY <1>5 DEF n
      <3>2. F \in Seq(Alloc) /\ a \in Alloc  BY <1>5
      <3>3. L \in Seq(Alloc) /\ Shows(heap, alloc_pool, L, NULL)  BY <1>2, <1>8
      <3>4. a.at \in DOMAIN heap  BY <1>1, <1>6
      <3>. QED  BY <2>1, <3>1, <3>2, <3>3, <3>4, ShowFront
    <2>. QED  BY <1>6, <1>10, <2>2
  <1>12. CASE n = 0
    <2>1. rest = <<Done(size)>>  BY <1>12 DEF rest, d
    <2>2. Placed(size)'
      BY <1>1, <1>5, <1>7, <1>9, <1>10, <1>11, <1>12, <2>1, PlacedIs
    <2>. QED  BY <1>10, <2>2
  <1>13. CASE n # 0
    <2>1. rest = <<b, d>>  BY <1>13 DEF rest
    <2>2. /\ FirstSlot(before)' = at /\ FrontBack' = b
          /\ Len(before.allocs)' = n /\ WithFront(before, size)' = F
      BY <1>10 DEF at, b, n, L, F, FrontBack
    <2>3. FrontReached(size)'
      BY <1>1, <1>7, <1>10, <1>11, <1>13, <2>1, <2>2
      DEF FrontReached, Calling, InMemory, d
    <2>. QED  BY <1>10, <2>3
  <1>. QED  BY <1>12, <1>13

LEMMA FrontStore3 ==
  ASSUME HeapOK(heap), Sound(before), NEW size \in Nat,
         before.allocs = << >> \/ FitsFront(before, size),
         FrontReached(size), Store
  PROVE  HeapOK(heap') /\ Placed(size)'
  <1> DEFINE L == before.allocs
             n == Len(L)
             at == FirstSlot(before)
             b == FrontBack
             d == Done(size)
             F == WithFront(before, size)
             place == PlaceFront(before, size)
  <1>1. /\ Calling("front", at, <<b, d>>) /\ Shows(heap, alloc_pool, F, NULL)
        /\ at \in DOMAIN heap /\ heap[at].size = size /\ n # 0
    BY DEF FrontReached, InMemory
  <1>2. n \in Nat /\ at \in Nat /\ before \in Zone
    BY SoundList DEF Sound
  <1>3. Head(<<b, d>>) = b /\ Tail(<<b, d>>) = <<d>>
    <2> HIDE DEF b, d
    <2>. QED  BY TwoStores
  <1>4. b.kind = "prev" /\ b.at = L[1].at /\ b.val = at
    BY DEF FrontBack, SetPrev
  <1>5. /\ F \in Seq(Alloc) /\ Len(F) = n + 1 /\ Ascends(F)
        /\ \A i \in 1..n : F[i + 1] = L[i]
        /\ place.allocs = WithPrev(F, 2, at)
    BY <1>1, PlaceFrontAs
  <1>6. place.at = at /\ place \in GetAlloc(before, size)
    <2>1. place.at = at  BY <1>2, PlaceFrontList
    <2>. QED  BY <2>1 DEF GetAlloc
  <1> HIDE DEF b, d, at, L, n, F, place
  <1>7. 2 \in 1..Len(F) /\ F[2].at = L[1].at
    <2>1. 1 \in 1..n  BY <1>1, <1>2
    <2>2. F[1 + 1] = L[1]  BY <1>5, <2>1
    <2>. QED  BY <1>2, <1>5, <2>1, <2>2
  <1>8. /\ op' = [how |-> "front", block |-> at, todo |-> <<d>>]
        /\ alloc_pool' = alloc_pool
        /\ heap' = WriteField(F[2].at, "prev", at)
        /\ free_mem' = free_mem /\ before' = before
    BY <1>1, <1>3, <1>4, <1>7, StoreStep
  <1>9. F[2].at \in Nat  BY <1>5, <1>7, AscendsInjective
  <1> DEFINE x == F[2].at
             g == WriteField(x, "prev", at)
  <1>10. Shows(g, alloc_pool, WithPrev(F, 2, at), NULL)
    BY <1>1, <1>2, <1>5, <1>7, StorePrev
  <1>11. HeapOK(g) /\ at \in DOMAIN g /\ g[at].size = size
    <2> HIDE DEF x
    <2>1. x \in Nat  BY <1>9 DEF x
    <2>2. /\ HeapOK(g) /\ DOMAIN g = DOMAIN heap
          /\ \A y \in DOMAIN heap : y # x => g[y] = heap[y]
          /\ x \in DOMAIN heap => g[x].size = heap[x].size
      BY <1>2, <2>1, WriteFieldHeaders
    <2>. QED  BY <1>1, <2>2
  <1> HIDE DEF x
  <1>12. heap' = g  BY <1>8 DEF x
  <1> HIDE DEF g
  <1>13. Placed(size)'
    BY <1>5, <1>6, <1>8, <1>10, <1>11, <1>12, PlacedIs DEF d
  <1>. QED  BY <1>11, <1>12, <1>13

(* A pointer that is written leaves the sizes alone.                       *)
LEMMA SizeStays ==
  ASSUME HeapOK(heap), NEW x \in Nat, NEW field \in {"next", "prev"},
         NEW val \in Nat, NEW at \in DOMAIN heap
  PROVE  /\ HeapOK(WriteField(x, field, val))
         /\ at \in DOMAIN WriteField(x, field, val)
         /\ WriteField(x, field, val)[at].size = heap[at].size
  <1> DEFINE g == WriteField(x, field, val)
  <1>1. /\ HeapOK(g) /\ DOMAIN g = DOMAIN heap
        /\ \A y \in DOMAIN heap : y # x => g[y] = heap[y]
        /\ x \in DOMAIN heap => g[x].size = heap[x].size
    BY WriteFieldHeaders
  <1> HIDE DEF g
  <1>2. HeapOK(g) /\ at \in DOMAIN g /\ g[at].size = heap[at].size  BY <1>1
  <1>. QED  BY <1>2 DEF g

(* The gap a block is carved out of.                                       *)
LEMMA GapOf ==
  ASSUME Sound(before), NEW size \in Nat, ~FitsFront(before, size),
         NEW i \in FirstOf(FitsBetween(before, size))
  PROVE  /\ i \in 1..(Len(before.allocs) - 1)
         /\ i \in 1..Len(before.allocs) /\ i + 1 \in 1..Len(before.allocs)
         /\ before.allocs[i + 1].at > End(before.allocs[i]) + size + AllocHdr
         /\ GapAt(i) \in Nat /\ GapAt(i) >= Base + ZoneHdr
         /\ PlaceBetween(before, size, i).at = GapAt(i)
         /\ PlaceBetween(before, size, i) \in GetAlloc(before, size)
         /\ \A m \in 1..Len(before.allocs) :
              \/ before.allocs[m].at + AllocHdr <= GapAt(i)
              \/ GapAt(i) + AllocHdr <= before.allocs[m].at
  <1> DEFINE n == Len(before.allocs)
             p == PlaceBetween(before, size, i)
  <1>1. /\ i \in 1..(n - 1)
        /\ before.allocs[i + 1].at > End(before.allocs[i]) + size + AllocHdr
    BY DEF FirstOf, FitsBetween
  <1>2. n \in Nat /\ before \in Zone /\ FirstSlot(before) = Base + ZoneHdr
        /\ (before.allocs = << >> <=> n = 0)
    BY SoundList, EmptySeq DEF Sound
  <1>3. i \in 1..n /\ i + 1 \in 1..n /\ before.allocs # << >>  BY <1>1, <1>2
  <1>4. p.at = GapAt(i) /\ p.at \in Nat  BY <1>1, <1>2, PlaceBetweenList DEF GapAt
  <1>5. p \in GetAlloc(before, size)
    <2>1. FitsBetween(before, size) # {}  BY DEF FirstOf
    <2>. QED  BY <1>3, <2>1 DEF GetAlloc
  <1>6. /\ p.at >= FirstSlot(before)
        /\ \A m \in 1..n : \/ before.allocs[m].at + AllocHdr <= p.at
                           \/ p.at + AllocHdr <= before.allocs[m].at
    BY <1>1, PlaceBetweenClear
  <1> HIDE DEF p
  <1>. QED  BY <1>1, <1>2, <1>3, <1>4, <1>5, <1>6 DEF p

LEMMA BetweenStore1 ==
  ASSUME HeapOK(heap), Sound(before), NEW size \in Nat,
         ~FitsFront(before, size), NEW i \in FirstOf(FitsBetween(before, size)),
         BetweenBegun(size, i), Store
  PROVE  HeapOK(heap') /\ BetweenWritten(size, i)'
  <1> DEFINE L == before.allocs
             at == GapAt(i)
             h == BetweenHeader(size, i)
             p == BetweenNext(i)
             b == BetweenHead(i)
             d == Done(size)
             todo == <<h, p, b, d>>
             rest == <<p, b, d>>
  <1>1. /\ Calling("between", at, todo)
        /\ Shows(heap, alloc_pool, L, NULL)
    BY DEF BetweenBegun, InMemory
  <1>2. /\ at \in Nat /\ at >= Base + ZoneHdr
        /\ \A m \in 1..Len(L) : L[m].at + AllocHdr <= at \/ at + AllocHdr <= L[m].at
    BY GapOf
  <1>3. Head(todo) = h /\ Tail(todo) = rest
    <2> HIDE DEF h, p, b, d
    <2>. QED  BY FourStores
  <1>4. h.kind = "header" /\ h.at = at
        /\ h.val = [next |-> L[i + 1].at, prev |-> L[i].at, size |-> size, cap |-> size]
        /\ h.val.size = size
    BY DEF BetweenHeader, SetAlloc
  <1>5. h.val \in Header
    <2>1. L[i].at \in Nat /\ L[i + 1].at \in Nat  BY GapOf, SoundList
    <2>. QED  BY <1>4, <2>1 DEF Header
  <1> HIDE DEF h, p, b, d, at, L, todo, rest
  <1>6. /\ op' = [how |-> "between", block |-> at, todo |-> rest]
        /\ alloc_pool' = alloc_pool
        /\ heap' = WriteHeader(at, h.val)
        /\ free_mem' = free_mem /\ before' = before
    BY <1>1, <1>3, <1>4, StoreStep
  <1> DEFINE hd == h.val
             g == WriteHeader(at, hd)
  <1>7. /\ HeapOK(g) /\ Shows(g, alloc_pool, L, NULL)
        /\ at \in DOMAIN g /\ g[at] = hd
    <2>1. hd \in Header  BY <1>5
    <2> HIDE DEF hd
    <2>. QED  BY <1>1, <1>2, <2>1, WriteHeaderKeeps
  <1>8. heap' = g /\ hd.size = size  BY <1>4, <1>6
  <1> HIDE DEF g, hd
  <1>9. BetweenWritten(size, i)'
    <2>1. GapAt(i)' = at /\ BetweenNext(i)' = p /\ BetweenHead(i)' = b
          /\ before.allocs' = L
      BY <1>6 DEF at, p, b, L, GapAt, BetweenNext, BetweenHead
    <2>. QED  BY <1>6, <1>7, <1>8, <2>1
              DEF BetweenWritten, Calling, InMemory, GapWritten, d, rest
  <1>. QED  BY <1>7, <1>8, <1>9

LEMMA BetweenStore2 ==
  ASSUME HeapOK(heap), Sound(before), NEW size \in Nat,
         ~FitsFront(before, size), NEW i \in FirstOf(FitsBetween(before, size)),
         BetweenWritten(size, i), Store
  PROVE  HeapOK(heap') /\ BetweenLinked(size, i)'
  <1> DEFINE L == before.allocs
             at == GapAt(i)
             x == L[i + 1].at
             p == BetweenNext(i)
             b == BetweenHead(i)
             d == Done(size)
             g == WriteField(x, "prev", at)
  <1>1. /\ Calling("between", at, <<p, b, d>>)
        /\ Shows(heap, alloc_pool, L, NULL)
        /\ at \in DOMAIN heap /\ heap[at].size = size
    BY DEF BetweenWritten, InMemory, GapWritten
  <1>2. at \in Nat /\ i + 1 \in 1..Len(L)  BY GapOf
  <1>3. Head(<<p, b, d>>) = p /\ Tail(<<p, b, d>>) = <<b, d>>
    <2> HIDE DEF p, b, d
    <2>. QED  BY ThreeStores
  <1>4. p.kind = "prev" /\ p.at = x /\ p.val = at  BY DEF BetweenNext, SetPrev
  <1>5. L \in Seq(Alloc) /\ Ascends(L) /\ x \in Nat  BY <1>2, SoundList
  <1> HIDE DEF p, b, d, at
  <1>6. Shows(g, alloc_pool, WithPrev(L, i + 1, at), NULL)
    BY <1>1, <1>2, <1>5, StorePrev
  <1> HIDE DEF x, L
  <1>7. HeapOK(g) /\ at \in DOMAIN g /\ g[at].size = size
    BY <1>1, <1>2, <1>5, SizeStays
  <1>8. /\ op' = [how |-> "between", block |-> at, todo |-> <<b, d>>]
        /\ alloc_pool' = alloc_pool /\ heap' = g
        /\ free_mem' = free_mem /\ before' = before
    BY <1>1, <1>3, <1>4, StoreStep
  <1> HIDE DEF g
  <1>9. BetweenLinked(size, i)'
    <2>1. GapAt(i)' = at /\ BetweenHead(i)' = b /\ before.allocs' = L
      BY <1>8 DEF at, b, L, GapAt, BetweenHead
    <2>. QED  BY <1>6, <1>7, <1>8, <2>1
              DEF BetweenLinked, Calling, InMemory, GapWritten, d
  <1>. QED  BY <1>7, <1>8, <1>9

LEMMA BetweenStore3 ==
  ASSUME HeapOK(heap), Sound(before), NEW size \in Nat,
         ~FitsFront(before, size), NEW i \in FirstOf(FitsBetween(before, size)),
         BetweenLinked(size, i), Store
  PROVE  HeapOK(heap') /\ Placed(size)'
  <1> DEFINE L == before.allocs
             at == GapAt(i)
             V == WithPrev(L, i + 1, at)
             x == V[i].at
             b == BetweenHead(i)
             d == Done(size)
             g == WriteField(x, "prev", at)
             place == PlaceBetween(before, size, i)
  <1>1. /\ Calling("between", at, <<b, d>>)
        /\ Shows(heap, alloc_pool, V, NULL)
        /\ at \in DOMAIN heap /\ heap[at].size = size
    BY DEF BetweenLinked, InMemory, GapWritten
  <1>2. at \in Nat /\ i \in 1..Len(L) /\ i + 1 \in 1..Len(L)
        /\ place.at = at /\ place \in GetAlloc(before, size)
    BY GapOf
  <1>3. Head(<<b, d>>) = b /\ Tail(<<b, d>>) = <<d>>
    <2> HIDE DEF b, d
    <2>. QED  BY TwoStores
  <1>4. L \in Seq(Alloc) /\ Ascends(L) /\ L[i].at \in Nat  BY <1>2, SoundList
  <1>5. place.allocs = WithPrev(V, i, at)
    <2>1. i \in 1..(Len(L) - 1)  BY GapOf
    <2>. QED  BY <1>2, <2>1, PlaceBetweenAs
  <1>6. b.kind = "prev" /\ b.at = L[i].at /\ b.val = at  BY DEF BetweenHead, SetPrev
  <1> HIDE DEF b, d, at, place, L
  <1>7. V \in Seq(Alloc) /\ Ascends(V) /\ i \in 1..Len(V) /\ x = L[i].at
    BY <1>2, <1>4, WithPrevType
  <1> HIDE DEF V
  <1>8. Shows(g, alloc_pool, WithPrev(V, i, at), NULL)
    BY <1>1, <1>2, <1>7, StorePrev
  <1>9. x \in Nat  BY <1>4, <1>7
  <1> HIDE DEF x
  <1>10. HeapOK(g) /\ at \in DOMAIN g /\ g[at].size = size
    BY <1>1, <1>2, <1>9, SizeStays
  <1>11. /\ op' = [how |-> "between", block |-> at, todo |-> <<d>>]
         /\ alloc_pool' = alloc_pool /\ heap' = g
         /\ free_mem' = free_mem /\ before' = before
    BY <1>1, <1>3, <1>6, <1>7, StoreStep
  <1> HIDE DEF g
  <1>12. Placed(size)'
    BY <1>2, <1>5, <1>8, <1>10, <1>11, PlacedIs DEF d
  <1>. QED  BY <1>10, <1>11, <1>12

LEMMA BehindStore1 ==
  ASSUME HeapOK(heap), Sound(before), NEW size \in Nat,
         before.allocs # << >>, BehindBegun(size), Store
  PROVE  HeapOK(heap') /\ BehindHalf(size)'
  <1> DEFINE L == before.allocs
             at == End(LastOf(L))
             x == L[Len(L)].at
             b == BehindNext
             h == BehindHeader(size)
             d == Done(size)
             g == WriteField(x, "next", at)
  <1>1. /\ Calling("behind", at, <<b, h, d>>)
        /\ Shows(heap, alloc_pool, L, NULL)
    BY DEF BehindBegun, InMemory
  <1>2. /\ L \in Seq(Alloc) /\ Ascends(L) /\ Len(L) # 0
        /\ x \in Nat /\ at \in Nat
    <2>1. L \in Seq(Alloc) /\ Ascends(L) /\ Len(L) \in Nat /\ Len(L) # 0
      BY SoundList, EmptySeq
    <2>2. Len(L) \in 1..Len(L)  BY <2>1
    <2>. QED  BY <2>1, <2>2, SoundList DEF LastOf
  <1>3. Head(<<b, h, d>>) = b /\ Tail(<<b, h, d>>) = <<h, d>>
    <2> HIDE DEF b, h, d
    <2>. QED  BY ThreeStores
  <1>4. b.kind = "next" /\ b.at = x /\ b.val = at
    BY DEF BehindNext, SetNext, LastOf
  <1> HIDE DEF h, b, d, at
  <1>5. Shows(g, alloc_pool, L, at)  BY <1>1, <1>2, StoreLastNext
  <1> HIDE DEF x, L
  <1>6. HeapOK(g)  BY <1>2, WriteFieldHeaders
  <1>7. /\ op' = [how |-> "behind", block |-> at, todo |-> <<h, d>>]
        /\ alloc_pool' = alloc_pool /\ heap' = g
        /\ free_mem' = free_mem /\ before' = before
    BY <1>1, <1>3, <1>4, StoreStep
  <1> HIDE DEF g
  <1>8. BehindHalf(size)'
    <2>1. End(LastOf(before.allocs))' = at /\ BehindHeader(size)' = h
          /\ before.allocs' = L
      BY <1>7 DEF at, h, L, BehindHeader
    <2>. QED  BY <1>5, <1>7, <2>1 DEF BehindHalf, Calling, d
  <1>. QED  BY <1>6, <1>7, <1>8

LEMMA BehindStore2 ==
  ASSUME HeapOK(heap), Sound(before), NEW size \in Nat,
         before.allocs # << >>, ~FitsFront(before, size),
         FitsBetween(before, size) = {}, FitsBehind(before, size),
         BehindHalf(size), Store
  PROVE  HeapOK(heap') /\ Placed(size)'
  <1> DEFINE L == before.allocs
             last == LastOf(L)
             at == End(last)
             h == BehindHeader(size)
             d == Done(size)
             a == NewAlloc(at, last.at, size)
             place == PlaceBehind(before, size)
  <1>1. Calling("behind", at, <<h, d>>) /\ Shows(heap, alloc_pool, L, at)
    BY DEF BehindHalf
  <1>2. /\ L \in Seq(Alloc) /\ Len(L) # 0 /\ before \in Zone
        /\ last.at \in Nat /\ at \in Nat
    <2>1. L \in Seq(Alloc) /\ Ascends(L) /\ Len(L) \in Nat /\ Len(L) # 0
      BY SoundList, EmptySeq
    <2>2. Len(L) \in 1..Len(L)  BY <2>1
    <2>. QED  BY <2>1, <2>2, SoundList DEF LastOf, Sound
  <1>3. Head(<<h, d>>) = h /\ Tail(<<h, d>>) = <<d>>
    <2> HIDE DEF h, d
    <2>. QED  BY TwoStores
  <1>4. h.kind = "header" /\ h.at = at /\ h.val.size = size
        /\ h.val = [next |-> NULL, prev |-> last.at, size |-> size, cap |-> size]
    BY DEF BehindHeader, SetAlloc
  <1>5. h.val \in Header  BY <1>2, <1>4 DEF Header, NULL
  <1>6. /\ place.at = at /\ place.allocs = Append(L, a)
        /\ place \in GetAlloc(before, size)
    <2>1. place.at = at /\ place.allocs = Append(L, a)
      BY DEF PlaceBehind, LastOf
    <2>. QED  BY <2>1 DEF GetAlloc
  <1>7. /\ at >= Base + ZoneHdr
        /\ \A i \in 1..Len(L) : L[i].at + AllocHdr <= at \/ at + AllocHdr <= L[i].at
    <2>1. /\ place.at >= FirstSlot(before)
          /\ \A i \in 1..Len(L) : L[i].at + AllocHdr <= place.at
      BY PlaceBehindClear
    <2> HIDE DEF place
    <2>. QED  BY <1>6, <2>1, SoundList
  <1>8. a \in Alloc  BY <1>2, NewAllocType
  <1>9. a.at = at /\ a.prev = last.at /\ a.size = size /\ a.cap = size
    BY DEF NewAlloc
  <1> HIDE DEF h, d, at, L, last, a, place
  <1>10. /\ op' = [how |-> "behind", block |-> at, todo |-> <<d>>]
         /\ alloc_pool' = alloc_pool
         /\ heap' = WriteHeader(at, h.val)
         /\ free_mem' = free_mem /\ before' = before
    <2> DEFINE t == <<h, d>>
    <2>1. Calling("behind", at, t) /\ h = Head(t) /\ <<d>> = Tail(t)
      BY <1>1, <1>3
    <2>2. h.kind = "header" /\ h.at = at  BY <1>4
    <2> HIDE DEF t
    <2>. QED  BY <2>1, <2>2, StoreStep
  <1> DEFINE hd == h.val
             g == WriteHeader(at, hd)
  <1>11. /\ HeapOK(g) /\ Shows(g, alloc_pool, L, at)
         /\ at \in DOMAIN g /\ g[at] = hd
    <2>1. hd \in Header  BY <1>5
    <2> HIDE DEF hd
    <2>. QED  BY <1>1, <1>2, <1>7, <2>1, WriteHeaderKeeps
  <1>12. heap' = g /\ hd.size = size
         /\ hd = [next |-> NULL, prev |-> last.at, size |-> size, cap |-> size]
    BY <1>4, <1>10
  <1> HIDE DEF g, hd
  <1>13. Shows(g, alloc_pool, Append(L, a), NULL)
    <2>1. g[a.at] = [next |-> NULL, prev |-> a.prev, size |-> a.size, cap |-> a.cap]
      BY <1>9, <1>11, <1>12
    <2>. QED  BY <1>2, <1>8, <1>9, <1>11, <2>1, ShowBehind
  <1>14. Placed(size)'
    BY <1>6, <1>10, <1>11, <1>12, <1>13, PlacedIs DEF d
  <1>. QED  BY <1>11, <1>12, <1>14

(* What the first store of free makes of the list.                         *)
LEMMA Bypasses ==
  ASSUME HeapOK(heap), Sound(before), NEW j \in 1..Len(before.allocs),
         Shows(heap, alloc_pool, before.allocs, NULL)
  PROVE  LET prev == before.allocs[j].prev
             next == FreeNext(j)
             A    == AfterBypass(before, j)
         IN  /\ prev = NULL => Shows(heap, next, A, NULL)
             /\ prev # NULL => /\ HeapOK(WriteField(prev, "next", next))
                               /\ Shows(WriteField(prev, "next", next),
                                        alloc_pool, A, NULL)
  <1> DEFINE L == before.allocs
             n == Len(L)
             prev == L[j].prev
             next == FreeNext(j)
  <1>1. /\ L \in Seq(Alloc) /\ n \in Nat /\ Ascends(L) /\ j \in 1..n
        /\ DOMAIN L = 1..n
        /\ FirstSlot(before) \in Nat /\ FirstSlot(before) = Base + ZoneHdr
        /\ \A i \in 1..n : L[i].at \in Nat /\ L[i].prev \in Nat
                           /\ L[i].at >= FirstSlot(before)
    BY SoundList
  <1>2. FirstSlot(before) > 0 /\ NULL = 0 /\ NULL \in Nat
    BY <1>1, SizesAssumption, ListStoresAssumption DEF NULL
  <1>3. next \in Nat /\ next = NextOf(L, j, NULL)
    <2>1. j # n => j + 1 \in 1..n  BY <1>1
    <2>. QED  BY <1>1, <1>2, <2>1 DEF FreeNext, NextOf
  <1>4. prev \in Nat  BY <1>1
  <1> HIDE DEF next
  <1>5. HeapOK(WriteField(prev, "next", next))
    <2> HIDE DEF prev
    <2>. QED  BY <1>3, <1>4, WriteFieldHeaders
  <1>6. CASE InPlace(before, j) /\ j = 1
    <2>1. prev = NULL  BY <1>6 DEF InPlace
    <2>2. AfterBypass(before, j) = Without(L, 1)  BY <1>6 DEF AfterBypass
    <2>3. Shows(heap, NextOf(L, 1, NULL), Without(L, 1), NULL)
      BY <1>1, <1>2, <1>6, ShowWithout
    <2>. QED  BY <1>3, <1>6, <2>1, <2>2, <2>3 DEF next
  <1>7. CASE InPlace(before, j) /\ j # 1
    <2>1. prev = L[j - 1].at  BY <1>7 DEF InPlace
    <2>2. prev # NULL
      <3>1. j - 1 \in 1..n  BY <1>1, <1>7
      <3> DEFINE a == L[j - 1].at
      <3>2. a \in Nat /\ a >= FirstSlot(before)  BY <1>1, <3>1
      <3> HIDE DEF a
      <3>3. a # NULL  BY <1>1, <1>2, <3>2
      <3>. QED  BY <2>1, <3>3 DEF a
    <2>3. AfterBypass(before, j) = Without(L, j)  BY <1>7 DEF AfterBypass
    <2>4. Shows(WriteField(L[j - 1].at, "next", NextOf(L, j, NULL)),
                alloc_pool, Without(L, j), NULL)
      BY <1>1, <1>2, <1>7, ShowWithout
    <2>. QED  BY <1>3, <1>5, <2>1, <2>2, <2>3, <2>4 DEF next
  <1>8. CASE ~InPlace(before, j)
    <2>1. Dangles(before, j)  BY <1>1, <1>8 DEF Sound, LinksSound
    <2>2. /\ prev >= FirstSlot(before) + AllocHdr
          /\ \A i \in 1..n : prev + AllocHdr <= L[i].at \/ L[i].at + AllocHdr <= prev
      BY <1>1, <2>1 DEF Dangles, ClearOfHeaders
    <2>3. AfterBypass(before, j) = L  BY <1>8 DEF AfterBypass
    <2> HIDE DEF prev
    <2>4. prev # NULL  BY <1>1, <1>2, <1>4, <2>2, SizesAssumption
    <2>5. \A i \in 1..n : L[i].at # prev
      <3> SUFFICES ASSUME NEW i \in 1..n PROVE L[i].at # prev  OBVIOUS
      <3> DEFINE a == L[i].at
      <3>1. /\ a \in Nat
            /\ prev + AllocHdr <= a \/ a + AllocHdr <= prev
        BY <1>1, <2>2
      <3> HIDE DEF a
      <3>2. a # prev  BY <1>4, <3>1, SizesAssumption
      <3>. QED  BY <3>2 DEF a
    <2>6. Shows(WriteField(prev, "next", next), alloc_pool, L, NULL)
      BY <1>3, <1>4, <2>5, StoreElsewhere
    <2>. QED  BY <1>5, <2>3, <2>4, <2>6 DEF next, prev
  <1>. QED  BY <1>6, <1>7, <1>8

LEMMA FreeStore1 ==
  ASSUME HeapOK(heap), Sound(before), NEW j \in 1..Len(before.allocs),
         FreeBegun(j), Store
  PROVE  HeapOK(heap') /\ (FreeBypassed(j) \/ Freed(j))'
  <1> DEFINE L == before.allocs
             n == Len(L)
             at == FreeAt(j)
             prev == L[j].prev
             next == FreeNext(j)
             s == FreeBypass(j)
             b == FreeBack(j)
             d == FreeDone
             todo == IF j = n THEN <<s, d>> ELSE <<s, b, d>>
             rest == IF j = n THEN <<d>> ELSE <<b, d>>
             A == AfterBypass(before, j)
  <1>1. /\ Calling("free", at, todo) /\ Shows(heap, alloc_pool, L, NULL)
    BY DEF FreeBegun, InMemory
  <1>2. Head(todo) = s /\ Tail(todo) = rest
    <2> HIDE DEF s, b, d, n
    <2>1. Head(<<s, d>>) = s /\ Tail(<<s, d>>) = <<d>>  BY TwoStores
    <2>2. Head(<<s, b, d>>) = s /\ Tail(<<s, b, d>>) = <<b, d>>
      BY ThreeStores
    <2>. QED  BY <2>1, <2>2
  <1>3. IF prev # NULL THEN s.kind = "next" /\ s.at = prev /\ s.val = next
        ELSE s.kind = "pool" /\ s.val = next
    BY DEF FreeBypass, SetNext, SetPool
  <1>4. /\ prev = NULL => Shows(heap, next, A, NULL)
        /\ prev # NULL => /\ HeapOK(WriteField(prev, "next", next))
                          /\ Shows(WriteField(prev, "next", next), alloc_pool, A, NULL)
    BY <1>1, Bypasses
  <1>5. j = n => Unlink(L, j) = A  BY UnlinkAs
  <1> HIDE DEF s, b, d, at, prev, next, todo, rest, A, n
  <1>6. /\ op' = [how |-> "free", block |-> at, todo |-> rest]
        /\ alloc_pool' = IF s.kind = "pool" THEN s.val ELSE alloc_pool
        /\ s.kind = "pool" => heap' = heap
        /\ s.kind = "next" => heap' = WriteField(s.at, "next", s.val)
        /\ before' = before
    BY <1>1, <1>2, StoreStep
  <1>7. HeapOK(heap') /\ Shows(heap', alloc_pool', A, NULL)
    <2>1. CASE prev = NULL  BY <1>3, <1>4, <1>6, <2>1
    <2>2. CASE prev # NULL  BY <1>3, <1>4, <1>6, <2>2
    <2>. QED  BY <2>1, <2>2
  <1>8. /\ FreeAt(j)' = at /\ FreeBack(j)' = b /\ FreeDone' = d
        /\ before.allocs' = L /\ Len(before.allocs)' = n
        /\ AfterBypass(before, j)' = A
    BY <1>6 DEF FreeAt, FreeBack, FreeDone, FreeNext, at, b, d, n, A
  <1>9. CASE j = n
    <2>1. rest = <<d>>  BY <1>9 DEF rest
    <2>2. Freed(j)'
      BY <1>5, <1>6, <1>7, <1>8, <1>9, <2>1 DEF Freed, Calling, InMemory
    <2>. QED  BY <1>7, <2>2
  <1>10. CASE j # n
    <2>1. rest = <<b, d>>  BY <1>10 DEF rest
    <2>2. FreeBypassed(j)'
      BY <1>6, <1>7, <1>8, <1>10, <2>1 DEF FreeBypassed, Calling, InMemory
    <2>. QED  BY <1>7, <2>2
  <1>. QED  BY <1>9, <1>10

LEMMA FreeStore2 ==
  ASSUME HeapOK(heap), Sound(before), NEW j \in 1..Len(before.allocs),
         FreeBypassed(j), Store
  PROVE  HeapOK(heap') /\ Freed(j)'
  <1> DEFINE L == before.allocs
             at == FreeAt(j)
             prev == L[j].prev
             b == FreeBack(j)
             d == FreeDone
             A == AfterBypass(before, j)
             k == BehindIt(before, j)
             x == A[k].at
             g == WriteField(x, "prev", prev)
  <1>1. /\ Calling("free", at, <<b, d>>) /\ Shows(heap, alloc_pool, A, NULL)
        /\ j # Len(L)
    BY DEF FreeBypassed, InMemory
  <1>2. Head(<<b, d>>) = b /\ Tail(<<b, d>>) = <<d>>
    <2> HIDE DEF b, d
    <2>. QED  BY TwoStores
  <1>3. /\ A \in Seq(Alloc) /\ Ascends(A) /\ k \in 1..Len(A)
        /\ x = L[j + 1].at
        /\ Unlink(L, j) = WithPrev(A, k, prev)
    BY <1>1, AfterBypassList, UnlinkAs
  <1>4. prev \in Nat  BY SoundList
  <1>5. b.kind = "prev" /\ b.at = x /\ b.val = prev
    BY <1>1, <1>3 DEF FreeBack, SetPrev, FreeNext, NextOf
  <1> HIDE DEF b, d, at, prev, A, k
  <1>6. Shows(g, alloc_pool, WithPrev(A, k, prev), NULL)
    BY <1>1, <1>3, <1>4, StorePrev
  <1>7. x \in Nat  BY <1>3, AscendsInjective
  <1> HIDE DEF x
  <1>8. HeapOK(g)  BY <1>4, <1>7, WriteFieldHeaders
  <1>9. /\ op' = [how |-> "free", block |-> at, todo |-> <<d>>]
        /\ alloc_pool' = alloc_pool /\ heap' = g
        /\ before' = before
    BY <1>1, <1>2, <1>5, StoreStep
  <1> HIDE DEF g
  <1>10. Freed(j)'
    <2>1. FreeAt(j)' = at /\ FreeDone' = d /\ before.allocs' = L
      BY <1>9 DEF FreeAt, FreeDone, at, d
    <2>. QED  BY <1>3, <1>6, <1>9, <2>1 DEF Freed, Calling, InMemory
  <1>. QED  BY <1>8, <1>9, <1>10

(* A call in progress has a kind and stores to make.                       *)
LEMMA InCallBusy ==
  InCall => op # NoOp /\ op.how \in {"front", "between", "behind", "free"}
  <1> SUFFICES ASSUME InCall PROVE op.how \in {"front", "between", "behind", "free"}
    BY DEF NoOp
  <1>1. ASSUME NEW size \in Sizes,
               FrontCall(size) \/ BetweenCall(size) \/ BehindCall(size) \/ Placed(size)
        PROVE  op.how \in {"front", "between", "behind"}
    <2>1. ASSUME NEW how, NEW block, NEW todo, Calling(how, block, todo)
          PROVE  op.how = how
      BY <2>1 DEF Calling
    <2>2. ASSUME FrontCall(size) PROVE op.how = "front"
      BY <2>1, <2>2 DEF FrontCall, FrontBegun, FrontWritten, FrontReached
    <2>3. ASSUME BetweenCall(size) PROVE op.how = "between"
      BY <2>1, <2>3 DEF BetweenCall, BetweenBegun, BetweenWritten, BetweenLinked
    <2>4. ASSUME BehindCall(size) PROVE op.how = "behind"
      BY <2>1, <2>4 DEF BehindCall, BehindBegun, BehindHalf
    <2>5. ASSUME Placed(size) PROVE op.how \in {"front", "between", "behind"}
      BY <2>1, <2>5 DEF Placed
    <2>. QED  BY <1>1, <2>2, <2>3, <2>4, <2>5
  <1>2. ASSUME NEW j \in 1..Len(before.allocs), FreeCall(j) PROVE op.how = "free"
    BY <1>2 DEF FreeCall, FreeBegun, FreeBypassed, Freed, Calling
  <1>. QED  BY <1>1, <1>2 DEF InCall

(* A store of a call.                                                      *)
LEMMA StoreKeeps ==
  StoresInv /\ Store => StoresInv' /\ op # NoOp /\ op' # NoOp /\ before' = before
  <1>1. InCall => op # NoOp  BY InCallBusy
  <1>2. (InCall => op # NoOp)'  BY <1>1, PTL
  <1> SUFFICES ASSUME StoresInv, Store
               PROVE  StoresInv' /\ op # NoOp /\ op' # NoOp /\ before' = before
    OBVIOUS
  <1>3. op # NoOp
    <2>1. op = NoOp => Len(op.todo) = 0  BY DEF NoOp
    <2>. QED  BY <2>1 DEF Store
  <1>4. HeapOK(heap) /\ InCall /\ Sound(before) /\ before.free = free_mem
        /\ free_mem \in Nat
    BY <1>3 DEF StoresInv, InCall
  <1>5. before' = before /\ free_mem' = free_mem  BY DEF Store
  <1>6. Sound(before)' /\ before'.free = free_mem'
    BY <1>4, <1>5 DEF Sound, Sorted, LinksSound, Ordered, FirstSlot, InPlace, Dangles
  <1>7. ASSUME NEW size \in Sizes,
               FrontCall(size) \/ BetweenCall(size) \/ BehindCall(size) \/ Placed(size)
        PROVE  HeapOK(heap') /\ InCall'
    <2>1. size \in Nat  BY ListStoresAssumption
    <2>2. CASE FrontCall(size)
      <3>1. before.allocs = << >> \/ FitsFront(before, size)  BY <2>2 DEF FrontCall
      <3>2. HeapOK(heap') /\ (FrontWritten(size) \/ FrontReached(size) \/ Placed(size))'
        BY <1>4, <2>1, <2>2, <3>1, FrontStore1, FrontStore2, FrontStore3 DEF FrontCall
      <3>3. (before.allocs = << >> \/ FitsFront(before, size))'
        BY <1>5, <3>1 DEF FitsFront, FirstSlot
      <3>4. (FrontCall(size) \/ Placed(size))'  BY <3>2, <3>3 DEF FrontCall
      <3>. QED  BY <1>6, <3>2, <3>4 DEF InCall
    <2>3. CASE BetweenCall(size)
      <3>1. PICK i \in FirstOf(FitsBetween(before, size)) :
              /\ ~FitsFront(before, size)
              /\ \/ BetweenBegun(size, i) \/ BetweenWritten(size, i)
                 \/ BetweenLinked(size, i)
        BY <2>3 DEF BetweenCall
      <3>2. /\ HeapOK(heap')
            /\ (BetweenWritten(size, i) \/ BetweenLinked(size, i) \/ Placed(size))'
        BY <1>4, <2>1, <3>1, BetweenStore1, BetweenStore2, BetweenStore3
      <3>3. (~FitsFront(before, size) /\ i \in FirstOf(FitsBetween(before, size)))'
        BY <1>5, <3>1 DEF FitsFront, FirstSlot, FitsBetween
      <3>4. (BetweenCall(size) \/ Placed(size))'  BY <3>2, <3>3 DEF BetweenCall
      <3>. QED  BY <1>6, <3>2, <3>4 DEF InCall
    <2>4. CASE BehindCall(size)
      <3>1. /\ before.allocs # << >> /\ ~FitsFront(before, size)
            /\ FitsBetween(before, size) = {} /\ FitsBehind(before, size)
        BY <2>4 DEF BehindCall
      <3>2. HeapOK(heap') /\ (BehindHalf(size) \/ Placed(size))'
        BY <1>4, <2>1, <2>4, <3>1, BehindStore1, BehindStore2 DEF BehindCall
      <3>3. (/\ before.allocs # << >> /\ ~FitsFront(before, size)
             /\ FitsBetween(before, size) = {} /\ FitsBehind(before, size))'
        BY <1>5, <3>1 DEF FitsFront, FirstSlot, FitsBetween, FitsBehind
      <3>4. (BehindCall(size) \/ Placed(size))'  BY <3>2, <3>3 DEF BehindCall
      <3>. QED  BY <1>6, <3>2, <3>4 DEF InCall
    <2>5. CASE Placed(size)
      <3>1. op.todo = <<Done(size)>>  BY <2>5 DEF Placed, Calling
      <3>2. Len(op.todo) = 1  BY <3>1, OneStore
      <3>. QED  BY <3>2 DEF Store
    <2>. QED  BY <1>7, <2>2, <2>3, <2>4, <2>5
  <1>8. ASSUME NEW j \in 1..Len(before.allocs), FreeCall(j)
        PROVE  HeapOK(heap') /\ InCall'
    <2>1. CASE FreeBegun(j) \/ FreeBypassed(j)
      <3>1. HeapOK(heap') /\ (FreeBypassed(j) \/ Freed(j))'
        BY <1>4, <2>1, FreeStore1, FreeStore2
      <3>2. j \in 1..Len(before'.allocs)  BY <1>5
      <3>. QED  BY <1>6, <3>1, <3>2 DEF InCall, FreeCall
    <2>2. CASE Freed(j)
      <3>1. op.todo = <<FreeDone>>  BY <2>2 DEF Freed, Calling
      <3>2. Len(op.todo) = 1  BY <3>1, OneStore
      <3>. QED  BY <3>2 DEF Store
    <2>. QED  BY <1>8, <2>1, <2>2 DEF FreeCall
  <1>9. HeapOK(heap') /\ InCall'  BY <1>4, <1>7, <1>8 DEF InCall
  <1>10. HeapOK(heap)'  BY <1>9 DEF HeapOK
  <1>. QED  BY <1>2, <1>3, <1>4, <1>5, <1>9, <1>10 DEF StoresInv

-----------------------------------------------------------------------------
(* The calls return                                                        *)

(* The zone in memory is the one whose list the headers show.              *)
ShownZone ==
  \A L \in Seq(Alloc) :
    HeapOK(heap) /\ Ascends(L) /\ Shows(heap, alloc_pool, L, NULL)
      => ZoneInMemory = ZoneOf(L, free_mem)

LEMMA ShownZoneIs == ShownZone
  <1> SUFFICES ASSUME NEW L \in Seq(Alloc), HeapOK(heap), Ascends(L),
                      Shows(heap, alloc_pool, L, NULL)
               PROVE  ZoneInMemory = ZoneOf(L, free_mem)
    BY DEF ShownZone
  <1>. QED  BY WalkOf

(* _update_free_mem_size does not depend on the free size it replaces.     *)
LEMMA ZoneWithList ==
  ASSUME NEW z \in Zone, z.base = Base, z.type = "tiny",
         NEW P \in Seq(Alloc), NEW len \in Nat, len >= ZoneHdr, NEW free
  PROVE  LET y == UpdateFreeMemSize(z, P, len)
         IN  /\ y = ZoneOf(P, UpdateFreeMemSize(ZoneOf(P, free), P, len).free)
             /\ UpdateFreeMemSize(ZoneOf(P, free), P, len).free \in Nat
             /\ y \in Zone /\ y.base = Base /\ y.type = "tiny" /\ y.allocs = P
  <1> DEFINE y == UpdateFreeMemSize(z, P, len)
             w == ZoneOf(P, free)
             f == IF P = << >> THEN len - ZoneHdr
                  ELSE Max(Gaps(P, Base + len) \cup {0})
  <1>1. y \in Zone /\ y.base = Base /\ y.type = "tiny" /\ y.allocs = P
    BY UpdateFreeMemSizeType
  <1>2. y = [z EXCEPT !.allocs = P, !.free = f]  BY DEF UpdateFreeMemSize
  <1>3. UpdateFreeMemSize(w, P, len) = [w EXCEPT !.allocs = P, !.free = f]
    <2>1. w.base = Base  BY DEF ZoneOf
    <2> HIDE DEF w
    <2>. QED  BY <2>1 DEF UpdateFreeMemSize
  <1>4. y.free = f
    <2> HIDE DEF y, f
    <2>. QED  BY <1>2 DEF Zone
  <1>5. UpdateFreeMemSize(w, P, len).free = f
    <2>1. w = [base |-> Base, type |-> "tiny", free |-> free, allocs |-> P]
      BY DEF ZoneOf
    <2> HIDE DEF w, f
    <2>. QED  BY <1>3, <2>1
  <1>6. y = [base |-> y.base, type |-> y.type, free |-> y.free, allocs |-> y.allocs]
    <2> HIDE DEF y
    <2>. QED  BY <1>1 DEF Zone
  <1> HIDE DEF y, w, f
  <1>7. y = ZoneOf(P, f) /\ f \in Nat
    <2>1. y.free \in Nat  BY <1>1 DEF Zone
    <2>. QED  BY <1>1, <1>4, <1>6, <2>1 DEF ZoneOf
  <1>. QED  BY <1>1, <1>5, <1>7 DEF y, w

(* The block that is placed has its chunk for itself.                      *)
LEMMA PlaceClear ==
  ASSUME NEW z, Sound(z), NEW size \in Nat, NEW p \in GetAlloc(z, size)
  PROVE  ClearOfChunk(p.allocs, p.at, size)
         /\ Addresses(p.allocs) \ {p.at} = Addresses(z.allocs) \ {p.at}
  <1>1. z \in Zone  BY DEF Sound
  <1>2. CASE (z.allocs = << >> \/ FitsFront(z, size)) /\ p = PlaceFront(z, size)
    BY <1>2, PlaceFrontClear
  <1>3. ASSUME NEW i \in 1..(Len(z.allocs) - 1),
               z.allocs[i + 1].at > End(z.allocs[i]) + size + AllocHdr,
               p = PlaceBetween(z, size, i)
        PROVE  ClearOfChunk(p.allocs, p.at, size)
               /\ Addresses(p.allocs) = Addresses(z.allocs)
    BY <1>3, PlaceBetweenClear
  <1>4. CASE z.allocs # << >> /\ p = PlaceBehind(z, size)
    BY <1>4, PlaceBehindClear
  <1>. QED  BY <1>1, <1>2, <1>3, <1>4, GetAllocCases

(* The list of a zone, written down in memory at the end of a call.        *)
LEMMA PlacedZone ==
  ASSUME Sound(before), NEW size \in Sizes, NEW p \in GetAlloc(before, size)
  PROVE  LET len == ZoneMemSize(size, "tiny")
             y == UpdateFreeMemSize(before, p.allocs, len)
         IN  /\ Sound(y) /\ y.allocs = p.allocs
             /\ p.allocs \in Seq(Alloc) /\ Ascends(p.allocs) /\ p.at \in Nat
             /\ len \in Nat /\ len >= ZoneHdr
             /\ \E c \in Carve(before, size) : c.zone = y
  <1> DEFINE len == ZoneMemSize(size, "tiny")
             y == UpdateFreeMemSize(before, p.allocs, len)
  <1>1. /\ before \in Zone /\ before.base = Base /\ before.type = "tiny"
        /\ Sorted(before) /\ LinksSound(before) /\ Ordered(before)
        /\ size \in Nat
    BY ListStoresAssumption DEF Sound
  <1>2. len \in Nat /\ len >= ZoneHdr
    BY <1>1, ZoneMemSizeBounds DEF ZoneTypes
  <1>3. p.at \in Nat /\ p.allocs \in Seq(Alloc)  BY <1>1, GetAllocType
  <1> HIDE DEF len
  <1>4. y \in Zone /\ y.base = Base /\ y.type = "tiny" /\ y.allocs = p.allocs
    BY <1>1, <1>2, <1>3, UpdateFreeMemSizeType
  <1>5. \E c \in Carve(before, size) : c.zone = y
    <2> DEFINE c == [zone |-> y, ptr |-> p.at + AllocHdr,
                     listed |-> Len(p.allocs) > Len(before.allocs)]
    <2>1. c \in Carve(before, size)
      BY <1>1 DEF Carve, len
    <2>2. c.zone = y  OBVIOUS
    <2> HIDE DEF c
    <2>. QED  BY <2>1, <2>2
  <1> HIDE DEF y
  <1>6. Sorted(y) /\ LinksSound(y) /\ Ordered(y)
    BY <1>1, <1>4, GetAllocKeepsList
  <1>7. Sound(y)  BY <1>4, <1>6 DEF Sound
  <1>8. Ascends(p.allocs)  BY <1>4, <1>7, SoundList
  <1>. QED  BY <1>2, <1>3, <1>4, <1>5, <1>7, <1>8 DEF y, len

LEMMA FreedZoneIs ==
  ASSUME Sound(before), NEW j \in 1..Len(before.allocs)
  PROVE  LET len == ZoneMemSize(before.allocs[1].size, "tiny")
             P == Unlink(before.allocs, j)
             y == UpdateFreeMemSize(before, P, len)
         IN  /\ Sound(y) /\ y.allocs = P /\ y = FreedZone(before, j)
             /\ P \in Seq(Alloc) /\ Ascends(P)
             /\ len \in Nat /\ len >= ZoneHdr
  <1> DEFINE len == ZoneMemSize(before.allocs[1].size, "tiny")
             P == Unlink(before.allocs, j)
             y == UpdateFreeMemSize(before, P, len)
  <1>1. /\ before \in Zone /\ before.base = Base /\ before.type = "tiny"
        /\ Sorted(before) /\ LinksSound(before) /\ Ordered(before)
    BY DEF Sound
  <1>2. len \in Nat /\ len >= ZoneHdr
    <2>1. 1 \in 1..Len(before.allocs)  BY SoundList
    <2>2. before.allocs[1].size \in Nat  BY <2>1, SoundList
    <2>. QED  BY <2>2, ZoneMemSizeBounds DEF ZoneTypes
  <1>3. P \in Seq(Alloc) /\ Ascends(P)  BY UnlinkAs
  <1>4. y = FreedZone(before, j)  BY <1>1 DEF FreedZone, FreedZoneSize
  <1> HIDE DEF len
  <1>5. y \in Zone /\ y.base = Base /\ y.type = "tiny" /\ y.allocs = P
    BY <1>1, <1>2, <1>3, UpdateFreeMemSizeType
  <1> HIDE DEF y
  <1>6. Sorted(y) /\ LinksSound(y) /\ Ordered(y)
    BY <1>1, <1>5, UnlinkKeepsList
  <1>7. Sound(y)  BY <1>5, <1>6 DEF Sound
  <1>. QED  BY <1>2, <1>3, <1>4, <1>5, <1>7 DEF y, len

(* Only a call that has made all its other stores returns.                 *)
LEMMA ReturnsDone ==
  ASSUME InCall, Len(op.todo) = 1
  PROVE  \/ \E size \in Sizes : Placed(size)
         \/ \E j \in 1..Len(before.allocs) : Freed(j)
  <1>1. ASSUME NEW a, NEW b, NEW c, NEW d
        PROVE  /\ Len(<<a, b>>) # 1 /\ Len(<<a, b, c>>) # 1
               /\ Len(<<a, b, c, d>>) # 1
    <2>1. Len(<<a, b>>) = 2  BY TwoStores
    <2>2. Len(<<a, b, c>>) = 3  BY ThreeStores
    <2>3. Len(<<a, b, c, d>>) = 4  BY FourStores
    <2>. QED  BY <2>1, <2>2, <2>3
  <1>2. ASSUME NEW how, NEW block, NEW todo, Calling(how, block, todo)
        PROVE  Len(todo) = 1
    BY <1>2 DEF Calling
  <1>3. ASSUME NEW how, NEW block, NEW a, NEW b, Calling(how, block, <<a, b>>)
        PROVE  FALSE
    <2>1. Len(<<a, b>>) = 1  BY <1>2, <1>3
    <2>. QED  BY <2>1
  <1>4. ASSUME NEW how, NEW block, NEW a, NEW b, NEW c,
               Calling(how, block, <<a, b, c>>)
        PROVE  FALSE
    <2>1. Len(<<a, b, c>>) = 1  BY <1>2, <1>4
    <2>. QED  BY <2>1
  <1>5. ASSUME NEW how, NEW block, NEW a, NEW b, NEW c, NEW d,
               Calling(how, block, <<a, b, c, d>>)
        PROVE  FALSE
    <2>1. Len(<<a, b, c, d>>) = 1  BY <1>2, <1>5
    <2>. QED  BY <2>1
  <1>6. ASSUME NEW size \in Sizes PROVE ~FrontCall(size)
    <2>1. ~FrontBegun(size)
      <3>1. CASE Len(before.allocs) = 0  BY <1>4, <3>1 DEF FrontBegun
      <3>2. CASE Len(before.allocs) # 0  BY <1>5, <3>2 DEF FrontBegun
      <3>. QED  BY <3>1, <3>2
    <2>2. ~FrontWritten(size)
      <3>1. CASE Len(before.allocs) = 0  BY <1>3, <3>1 DEF FrontWritten
      <3>2. CASE Len(before.allocs) # 0  BY <1>4, <3>2 DEF FrontWritten
      <3>. QED  BY <3>1, <3>2
    <2>3. ~FrontReached(size)  BY <1>3 DEF FrontReached
    <2>. QED  BY <2>1, <2>2, <2>3 DEF FrontCall
  <1>7. ASSUME NEW size \in Sizes PROVE ~BetweenCall(size)
    <2> SUFFICES ASSUME NEW i
                 PROVE  /\ ~BetweenBegun(size, i) /\ ~BetweenWritten(size, i)
                        /\ ~BetweenLinked(size, i)
      BY DEF BetweenCall
    <2>1. ~BetweenBegun(size, i)  BY <1>5 DEF BetweenBegun
    <2>2. ~BetweenWritten(size, i)  BY <1>4 DEF BetweenWritten
    <2>3. ~BetweenLinked(size, i)  BY <1>3 DEF BetweenLinked
    <2>. QED  BY <2>1, <2>2, <2>3
  <1>8. ASSUME NEW size \in Sizes PROVE ~BehindCall(size)
    <2>1. ~BehindBegun(size)  BY <1>4 DEF BehindBegun
    <2>2. ~BehindHalf(size)  BY <1>3 DEF BehindHalf
    <2>. QED  BY <2>1, <2>2 DEF BehindCall
  <1>9. ASSUME NEW j \in 1..Len(before.allocs)
        PROVE  ~FreeBegun(j) /\ ~FreeBypassed(j)
    <2>1. ~FreeBegun(j)
      <3>1. CASE j = Len(before.allocs)  BY <1>3, <3>1 DEF FreeBegun
      <3>2. CASE j # Len(before.allocs)  BY <1>4, <3>2 DEF FreeBegun
      <3>. QED  BY <3>1, <3>2
    <2>2. ~FreeBypassed(j)  BY <1>3 DEF FreeBypassed
    <2>. QED  BY <2>1, <2>2
  <1>. QED  BY <1>6, <1>7, <1>8, <1>9 DEF InCall, FreeCall

(* The free size a call stores is the one ZoneList computes.               *)
LEMMA FreeSizeStored ==
  ASSUME HeapOK(heap), Sound(before), NEW P \in Seq(Alloc), Ascends(P),
         Shows(heap, alloc_pool, P, NULL),
         NEW len \in Nat, len >= ZoneHdr, Return, Head(op.todo) = SetFree(len)
  PROVE  UpdateFreeMemSize(before, P, len) = ZoneOf(P, free_mem') /\ free_mem' \in Nat
  <1>1. ZoneInMemory = ZoneOf(P, free_mem)  BY WalkOf
  <1>2. ZoneOf(P, free_mem).allocs = P  BY DEF ZoneOf
  <1>3. Head(op.todo).val = len  BY DEF SetFree
  <1>4. free_mem' = UpdateFreeMemSize(ZoneOf(P, free_mem), P, len).free
    BY <1>1, <1>2, <1>3 DEF Return
  <1>. QED  BY <1>4, ZoneWithList DEF Sound

(* The headers show the zone z.                                            *)
ShowsZone(h, pool, free, z) ==
  /\ z = ZoneOf(z.allocs, free)
  /\ Shows(h, pool, z.allocs, NULL)

LEMMA MallocReturns ==
  ASSUME HeapOK(heap), Sound(before), NEW size \in Sizes, Placed(size), Return
  PROVE  /\ HeapOK(heap') /\ free_mem' \in Nat
         /\ \E c \in Carve(before, size) :
              Sound(c.zone) /\ ShowsZone(heap', alloc_pool', free_mem', c.zone)
  <1>1. PICK p \in GetAlloc(before, size), how \in {"front", "between", "behind"} :
          /\ Calling(how, p.at, <<Done(size)>>)
          /\ InMemory(p.allocs)
          /\ p.at \in DOMAIN heap
          /\ heap[p.at].size = size
    BY DEF Placed
  <1> DEFINE P == p.allocs
             at == p.at
             len == ZoneMemSize(size, "tiny")
             y == UpdateFreeMemSize(before, P, len)
  <1>2. /\ Sound(y) /\ y.allocs = P /\ P \in Seq(Alloc) /\ Ascends(P)
        /\ at \in Nat /\ len \in Nat /\ len >= ZoneHdr
        /\ \E c \in Carve(before, size) : c.zone = y
    BY PlacedZone
  <1>3. /\ op.how # "free" /\ op.block = at
        /\ Head(op.todo) = SetFree(len)
    <2>1. op = [how |-> how, block |-> at, todo |-> <<Done(size)>>]
      BY <1>1 DEF Calling
    <2>2. op.todo = <<Done(size)>> /\ op.block = at /\ op.how = how  BY <2>1
    <2>3. Head(op.todo) = Done(size)  BY <2>2, OneStore
    <2>. QED  BY <2>2, <2>3 DEF Done
  <1>4. ClearOfChunk(P, at, size)
    BY ListStoresAssumption, PlaceClear
  <1>5. Shows(heap, alloc_pool, P, NULL) /\ heap[at].size = size
    BY <1>1 DEF InMemory
  <1> HIDE DEF P, at, len
  <1>6. y = ZoneOf(P, free_mem') /\ free_mem' \in Nat
    BY <1>2, <1>3, <1>5, FreeSizeStored
  <1> HIDE DEF y
  <1> DEFINE lo == at + AllocHdr
             hi == at + AllocHdr + size
             g == Wipe(heap, lo, hi)
  <1>7. heap' = g /\ alloc_pool' = alloc_pool
    BY <1>3, <1>5 DEF Return, EndOf
  <1>8. HeapOK(g) /\ Shows(g, alloc_pool, P, NULL)
    <2>1. \A i \in 1..Len(P) : P[i].at + AllocHdr <= lo \/ hi <= P[i].at
      <3> SUFFICES ASSUME NEW i \in 1..Len(P)
                   PROVE  P[i].at + AllocHdr <= lo \/ hi <= P[i].at
        OBVIOUS
      <3> DEFINE a == P[i].at
      <3>1. a \in Nat  BY <1>2, AscendsInjective
      <3>2. a <= at \/ at + AllocHdr + size <= a  BY <1>4 DEF ClearOfChunk
      <3> HIDE DEF a
      <3>3. a + AllocHdr <= lo \/ hi <= a  BY <1>2, <3>1, <3>2, SizesAssumption
      <3>. QED  BY <3>3 DEF a
    <2> HIDE DEF lo, hi
    <2>. QED  BY <1>5, <2>1, WipeKeeps
  <1> HIDE DEF g
  <1>9. ShowsZone(heap', alloc_pool', free_mem', y)
    BY <1>2, <1>6, <1>7, <1>8 DEF ShowsZone
  <1>. QED  BY <1>2, <1>6, <1>7, <1>8, <1>9

LEMMA FreeReturns ==
  ASSUME HeapOK(heap), Sound(before), NEW j \in 1..Len(before.allocs), Freed(j), Return
  PROVE  /\ HeapOK(heap') /\ free_mem' \in Nat
         /\ Sound(FreedZone(before, j))
         /\ ShowsZone(heap', alloc_pool', free_mem', FreedZone(before, j))
  <1> DEFINE P == Unlink(before.allocs, j)
             len == ZoneMemSize(before.allocs[1].size, "tiny")
             y == UpdateFreeMemSize(before, P, len)
  <1>1. /\ op.how = "free" /\ Head(op.todo) = SetFree(len)
    <2>1. op = [how |-> "free", block |-> FreeAt(j), todo |-> <<FreeDone>>]
      BY DEF Freed, Calling
    <2>2. op.todo = <<FreeDone>> /\ op.how = "free"  BY <2>1
    <2>3. Head(op.todo) = FreeDone  BY <2>2, OneStore
    <2>. QED  BY <2>2, <2>3 DEF FreeDone, Done
  <1>2. /\ Sound(y) /\ y.allocs = P /\ y = FreedZone(before, j)
        /\ P \in Seq(Alloc) /\ Ascends(P) /\ len \in Nat /\ len >= ZoneHdr
    BY FreedZoneIs
  <1>3. Shows(heap, alloc_pool, P, NULL)  BY DEF Freed, InMemory
  <1> HIDE DEF P, len
  <1>4. y = ZoneOf(P, free_mem') /\ free_mem' \in Nat
    BY <1>1, <1>2, <1>3, FreeSizeStored
  <1> HIDE DEF y
  <1>5. heap' = heap /\ alloc_pool' = alloc_pool  BY <1>1 DEF Return
  <1>. QED  BY <1>2, <1>3, <1>4, <1>5 DEF ShowsZone

(* A call returns: the zone in memory is the one it began with, changed    *)
(* as a whole.                                                             *)
ZoneChanged(y) ==
  \/ \E size \in Sizes : \E c \in Carve(before, size) : y = c.zone
  \/ \E j \in 1..Len(before.allocs) : y = FreedZone(before, j)

LEMMA ReturnKeeps ==
  StoresInv /\ Return =>
    StoresInv' /\ op # NoOp /\ op' = NoOp /\ ZoneChanged(ZoneInMemory')
  <1>1. ShownZone  BY ShownZoneIs
  <1>2. ShownZone'  BY <1>1, PTL
  <1> SUFFICES ASSUME StoresInv, Return
               PROVE  StoresInv' /\ op # NoOp /\ op' = NoOp
                      /\ ZoneChanged(ZoneInMemory')
    OBVIOUS
  <1>3. op # NoOp /\ op' = NoOp /\ Len(op.todo) = 1
    <2>1. op = NoOp => Len(op.todo) = 0  BY DEF NoOp
    <2>. QED  BY <2>1 DEF Return
  <1>4. HeapOK(heap) /\ InCall /\ Sound(before)
    BY <1>3 DEF StoresInv, InCall
  <1>5. ASSUME NEW y, Sound(y), ShowsZone(heap', alloc_pool', free_mem', y),
               HeapOK(heap'), free_mem' \in Nat
        PROVE  StoresInv' /\ ZoneInMemory' = y
    <2> DEFINE P == y.allocs
    <2>1. y = ZoneOf(P, free_mem') /\ Shows(heap', alloc_pool', P, NULL)
      BY <1>5 DEF ShowsZone
    <2>2. P \in Seq(Alloc) /\ Ascends(P)  BY <1>5, SoundList
    <2> HIDE DEF P
    <2>3. ZoneInMemory' = ZoneOf(P, free_mem')
      BY <1>2, <1>5, <2>1, <2>2 DEF ShownZone, HeapOK
    <2>4. Sound(ZoneOf(P, free_mem))'
      BY <1>5, <2>1 DEF Sound, Sorted, LinksSound, Ordered, FirstSlot, InPlace, Dangles
    <2>5. AtRest'  BY <2>1, <2>2, <2>4 DEF AtRest, InMemory
    <2>6. HeapOK(heap)'  BY <1>5 DEF HeapOK
    <2>. QED  BY <1>3, <1>5, <2>1, <2>3, <2>5, <2>6 DEF StoresInv
  <1>6. ASSUME NEW size \in Sizes, Placed(size)
        PROVE  StoresInv' /\ ZoneChanged(ZoneInMemory')
    BY <1>4, <1>5, <1>6, MallocReturns DEF ZoneChanged
  <1>7. ASSUME NEW j \in 1..Len(before.allocs), Freed(j)
        PROVE  StoresInv' /\ ZoneChanged(ZoneInMemory')
    BY <1>4, <1>5, <1>7, FreeReturns DEF ZoneChanged
  <1>. QED  BY <1>3, <1>4, <1>6, <1>7, ReturnsDone

-----------------------------------------------------------------------------
(* What the handler sees                                                   *)

LEMMA StoresInit ==
  ASSUME Init
  PROVE  /\ StoresInv /\ op = NoOp
         /\ \E size \in Sizes : ZoneInMemory = FreshZone(Base, size)
  <1>1. /\ heap = << >> /\ alloc_pool = NULL /\ op = NoOp  BY DEF Init
  <1>2. PICK size \in Sizes : free_mem = ZoneMemSize(size, "tiny") - ZoneHdr
    BY DEF Init
  <1>3. size \in Nat /\ SetZoneType(size) = "tiny"  BY ListStoresAssumption
  <1>4. free_mem \in Nat
    BY <1>2, <1>3, ZoneMemSizeBounds, SizesAssumption DEF ZoneTypes
  <1>5. HeapOK(heap)
    <2>1. DOMAIN heap = {} /\ heap \in [{} -> Header]  BY <1>1
    <2>. QED  BY <2>1, FS_EmptySet DEF HeapOK
  <1> DEFINE L == << >>
             z == ZoneOf(L, free_mem)
  <1>6. L \in Seq(Alloc) /\ Len(L) = 0 /\ DOMAIN L = {} /\ 1..Len(L) = {}
    OBVIOUS
  <1>7. /\ z.base = Base /\ z.type = "tiny" /\ z.allocs = L
        /\ z \in Zone
    BY <1>4, <1>6, ListStoresAssumption DEF ZoneOf, Zone, ZoneTypes
  <1>8. z = FreshZone(Base, size)
    BY <1>2, <1>3 DEF ZoneOf, FreshZone
  <1>9. InMemory(L) /\ Ascends(L)  BY <1>1, <1>6 DEF InMemory, Shows, Ascends
  <1> HIDE DEF L
  <1>10. Sound(z)
    <2> HIDE DEF z
    <2>. QED  BY <1>6, <1>7 DEF Sound, Sorted, LinksSound, Ordered
  <1>11. AtRest  BY <1>6, <1>9, <1>10 DEF AtRest
  <1>12. ZoneInMemory = z  BY <1>5, <1>6, <1>9, WalkOf DEF InMemory
  <1>. QED  BY <1>1, <1>4, <1>5, <1>8, <1>11, <1>12 DEF StoresInv

(* The walk over a list.                                                   *)
LEMMA WalkSees ==
  ASSUME HeapOK(heap), NEW L \in Seq(Alloc), Ascends(L),
         Shows(heap, alloc_pool, L, NULL)
  PROVE  /\ IsInjective(Walk)
         /\ ToSet(Walk) \subseteq DOMAIN heap
         /\ ToSet(Walk) = Addresses(L)
  <1>1. Walk = [i \in 1..Len(L) |-> L[i].at]  BY WalkOf
  <1>2. DOMAIN Walk = 1..Len(L) /\ \A i \in 1..Len(L) : Walk[i] = L[i].at
    BY <1>1
  <1>3. IsInjective(Walk)
    <2>1. \A i, j \in 1..Len(L) : L[i].at = L[j].at => i = j
      BY AscendsInjective
    <2>. QED  BY <1>2, <2>1 DEF IsInjective
  <1>4. ToSet(Walk) = Addresses(L)  BY <1>2 DEF ToSet, Addresses
  <1>5. Addresses(L) \subseteq DOMAIN heap  BY DEF Addresses, Shows
  <1>. QED  BY <1>3, <1>4, <1>5

(* Some list is there to be walked, with all blocks but the call's.        *)
Visible(zone, block) ==
  \E L \in Seq(Alloc) :
    /\ Ascends(L) /\ Shows(heap, alloc_pool, L, NULL)
    /\ Addresses(L) \ {block} = Addresses(zone.allocs) \ {block}

LEMMA MallocVisible ==
  ASSUME Sound(before), NEW size \in Sizes, ~HalfBehind,
         FrontCall(size) \/ BetweenCall(size) \/ BehindCall(size) \/ Placed(size)
  PROVE  Visible(before, op.block)
  <1> DEFINE L == before.allocs
  <1>1. L \in Seq(Alloc) /\ Ascends(L) /\ size \in Nat
    BY SoundList, ListStoresAssumption
  <1>2. ASSUME InMemory(L) PROVE Visible(before, op.block)
    BY <1>1, <1>2 DEF Visible, InMemory
  <1>3. ASSUME NEW how, NEW block, NEW todo, Calling(how, block, todo)
        PROVE  op.how = how /\ op.block = block /\ op.todo = todo
    BY <1>3 DEF Calling
  <1>4. ASSUME FrontCall(size) PROVE Visible(before, op.block)
    <2>1. CASE FrontBegun(size) \/ FrontWritten(size)
      BY <1>2, <2>1 DEF FrontBegun, FrontWritten
    <2>2. CASE FrontReached(size)
      <3>1. L = << >> \/ FitsFront(before, size)  BY <1>4 DEF FrontCall
      <3> DEFINE F == WithFront(before, size)
      <3>2. /\ F \in Seq(Alloc) /\ Ascends(F)
            /\ Addresses(F) \ {FirstSlot(before)} = Addresses(L) \ {FirstSlot(before)}
        BY <1>1, <3>1, PlaceFrontAs
      <3>3. op.block = FirstSlot(before) /\ InMemory(F)
        BY <1>3, <2>2 DEF FrontReached
      <3> HIDE DEF F
      <3>. QED  BY <3>2, <3>3 DEF Visible, InMemory
    <2>. QED  BY <1>4, <2>1, <2>2 DEF FrontCall
  <1>5. ASSUME BetweenCall(size) PROVE Visible(before, op.block)
    <2>1. PICK i \in FirstOf(FitsBetween(before, size)) :
            /\ ~FitsFront(before, size)
            /\ \/ BetweenBegun(size, i) \/ BetweenWritten(size, i)
               \/ BetweenLinked(size, i)
      BY <1>5 DEF BetweenCall
    <2>2. CASE BetweenBegun(size, i) \/ BetweenWritten(size, i)
      BY <1>2, <2>2 DEF BetweenBegun, BetweenWritten
    <2>3. CASE BetweenLinked(size, i)
      <3> DEFINE at == GapAt(i)
                 V == WithPrev(L, i + 1, at)
      <3>1. i + 1 \in 1..Len(L) /\ at \in Nat  BY <1>1, <2>1, GapOf
      <3> HIDE DEF at
      <3>2. /\ V \in Seq(Alloc) /\ Ascends(V) /\ Len(V) = Len(L)
            /\ \A m \in 1..Len(L) : V[m].at = L[m].at
        BY <1>1, <3>1, WithPrevType
      <3>3. InMemory(V)  BY <2>3 DEF BetweenLinked, at
      <3> HIDE DEF V
      <3>4. Addresses(V) = Addresses(L)  BY <3>2 DEF Addresses
      <3>. QED  BY <3>2, <3>3, <3>4 DEF Visible, InMemory
    <2>. QED  BY <2>1, <2>2, <2>3
  <1>6. ASSUME BehindCall(size) PROVE Visible(before, op.block)
    <2>1. CASE BehindBegun(size)  BY <1>2, <2>1 DEF BehindBegun
    <2>2. CASE BehindHalf(size)
      <3>1. op.how = "behind" /\ op.todo = <<BehindHeader(size), Done(size)>>
        BY <1>3, <2>2 DEF BehindHalf
      <3>2. Len(op.todo) = 2  BY <3>1, TwoStores
      <3>. QED  BY <3>1, <3>2 DEF HalfBehind
    <2>. QED  BY <1>6, <2>1, <2>2 DEF BehindCall
  <1>7. ASSUME Placed(size) PROVE Visible(before, op.block)
    <2>1. PICK p \in GetAlloc(before, size), how \in {"front", "between", "behind"} :
            Calling(how, p.at, <<Done(size)>>) /\ InMemory(p.allocs)
      BY <1>7 DEF Placed
    <2>2. op.block = p.at  BY <1>3, <2>1
    <2>3. p.allocs \in Seq(Alloc) /\ Ascends(p.allocs)  BY PlacedZone
    <2>4. Addresses(p.allocs) \ {p.at} = Addresses(L) \ {p.at}
      BY <1>1, PlaceClear
    <2>. QED  BY <2>1, <2>2, <2>3, <2>4 DEF Visible, InMemory
  <1>. QED  BY <1>4, <1>5, <1>6, <1>7

LEMMA FreeVisible ==
  ASSUME Sound(before), NEW j \in 1..Len(before.allocs), FreeCall(j)
  PROVE  Visible(before, op.block)
  <1> DEFINE L == before.allocs
             at == FreeAt(j)
  <1>1. at = L[j].at  BY DEF FreeAt
  <1>2. op.block = at  BY DEF FreeCall, FreeBegun, FreeBypassed, Freed, Calling
  <1>3. CASE FreeBegun(j)
    <2>1. L \in Seq(Alloc) /\ Ascends(L) /\ InMemory(L)
      BY <1>3, SoundList DEF FreeBegun
    <2>. QED  BY <2>1 DEF Visible, InMemory
  <1>4. CASE FreeBypassed(j)
    <2> DEFINE A == AfterBypass(before, j)
    <2>1. /\ A \in Seq(Alloc) /\ Ascends(A)
          /\ Addresses(A) \ {at} = Addresses(L) \ {at}
      BY <1>1, AfterBypassList
    <2>2. InMemory(A)  BY <1>4 DEF FreeBypassed
    <2> HIDE DEF A, at
    <2>. QED  BY <1>2, <2>1, <2>2 DEF Visible, InMemory
  <1>5. CASE Freed(j)
    <2> DEFINE U == Unlink(L, j)
    <2>1. /\ U \in Seq(Alloc) /\ Ascends(U)
          /\ Addresses(U) \ {at} = Addresses(L) \ {at}
      BY <1>1, UnlinkAs
    <2>2. InMemory(U)  BY <1>5 DEF Freed
    <2> HIDE DEF U, at
    <2>. QED  BY <1>2, <2>1, <2>2 DEF Visible, InMemory
  <1>. QED  BY <1>3, <1>4, <1>5 DEF FreeCall

LEMMA SeesOthers ==
  ASSUME StoresInv
  PROVE  HandlerSeesOthers
  <1> SUFFICES ASSUME ~HalfBehind
               PROVE  /\ IsInjective(Walk)
                      /\ ToSet(Walk) \subseteq DOMAIN heap
                      /\ op # NoOp =>
                           ToSet(Walk) \ {op.block} = Listed(before) \ {op.block}
    BY DEF HandlerSeesOthers
  <1>1. HeapOK(heap)  BY DEF StoresInv
  <1>2. CASE op = NoOp
    <2>1. PICK L \in Seq(Alloc) : Sound(ZoneOf(L, free_mem)) /\ InMemory(L)
      BY <1>2 DEF StoresInv, AtRest
    <2>2. Ascends(L)  BY <1>1, <2>1, WalkedList
    <2>. QED  BY <1>1, <1>2, <2>1, <2>2, WalkSees DEF InMemory
  <1>3. CASE op # NoOp
    <2>1. InCall /\ Sound(before)  BY <1>3 DEF StoresInv, InCall
    <2>2. Visible(before, op.block)
      BY <2>1, MallocVisible, FreeVisible DEF InCall
    <2>3. Listed(before) = Addresses(before.allocs)
      <3>1. DOMAIN before.allocs = 1..Len(before.allocs)  BY <2>1, SoundList
      <3>. QED  BY <3>1 DEF Listed, Addresses
    <2>. QED  BY <1>1, <2>2, <2>3, WalkSees DEF Visible
  <1>. QED  BY <1>2, <1>3

-----------------------------------------------------------------------------
(* The refinement of ZoneList                                              *)

(* The operators on a zone are the same in both specifications.            *)
LEMMA SameFreshZone ==
  ASSUME NEW base, NEW size
  PROVE  Calls!FreshZone(base, size) = FreshZone(base, size)
  BY DEF Calls!FreshZone, FreshZone, Calls!SetZoneType, SetZoneType,
         Calls!TinyZoneMaxSize, TinyZoneMaxSize, Calls!SmallZoneMaxSize,
         SmallZoneMaxSize, Calls!ZoneMemSize, ZoneMemSize

LEMMA SameZoneMemSize ==
  ASSUME NEW size, NEW type
  PROVE  Calls!ZoneMemSize(size, type) = ZoneMemSize(size, type)
  BY DEF Calls!ZoneMemSize, ZoneMemSize

LEMMA SameEnd ==
  ASSUME NEW a
  PROVE  Calls!End(a) = End(a)
  BY DEF Calls!End, End, Calls!Chunk, Chunk

LEMMA SameFirstSlot ==
  ASSUME NEW z
  PROVE  Calls!FirstSlot(z) = FirstSlot(z)
  BY DEF Calls!FirstSlot, FirstSlot

LEMMA SamePlaceFront ==
  ASSUME NEW z, NEW size
  PROVE  Calls!PlaceFront(z, size) = PlaceFront(z, size)
  BY DEF Calls!PlaceFront, PlaceFront, Calls!FirstSlot, FirstSlot,
         Calls!NewAlloc, NewAlloc, Calls!NULL, NULL

LEMMA SamePlaceBetween ==
  ASSUME NEW z, NEW size, NEW i
  PROVE  Calls!PlaceBetween(z, size, i) = PlaceBetween(z, size, i)
  BY DEF Calls!PlaceBetween, PlaceBetween, Calls!End, End, Calls!Chunk, Chunk

LEMMA SamePlaceBehind ==
  ASSUME NEW z, NEW size
  PROVE  Calls!PlaceBehind(z, size) = PlaceBehind(z, size)
  BY DEF Calls!PlaceBehind, PlaceBehind, Calls!End, End, Calls!Chunk, Chunk,
         Calls!NewAlloc, NewAlloc

LEMMA SameGetAlloc ==
  ASSUME NEW z, NEW size
  PROVE  Calls!GetAlloc(z, size) = GetAlloc(z, size)
  <1>1. Calls!FitsFront(z, size) = FitsFront(z, size)
    BY DEF Calls!FitsFront, FitsFront, Calls!FirstSlot, FirstSlot
  <1>2. Calls!FitsBetween(z, size) = FitsBetween(z, size)
    BY DEF Calls!FitsBetween, FitsBetween, Calls!End, End, Calls!Chunk, Chunk
  <1>3. Calls!FitsBehind(z, size) = FitsBehind(z, size)
    BY DEF Calls!FitsBehind, FitsBehind, Calls!End, End, Calls!Chunk, Chunk,
           Calls!ZoneMemSize, ZoneMemSize
  <1>4. Calls!FirstOf(FitsBetween(z, size)) = FirstOf(FitsBetween(z, size))
    BY DEF Calls!FirstOf, FirstOf
  <1>. QED  BY <1>1, <1>2, <1>3, <1>4, SamePlaceFront, SamePlaceBetween, SamePlaceBehind
            DEF Calls!GetAlloc, GetAlloc

LEMMA SameUpdateFreeMemSize ==
  ASSUME NEW z, NEW allocs, NEW len
  PROVE  Calls!UpdateFreeMemSize(z, allocs, len) = UpdateFreeMemSize(z, allocs, len)
  <1>1. ASSUME NEW S PROVE Calls!Max(S) = Max(S)  BY DEF Calls!Max, Max
  <1>2. ASSUME NEW limit PROVE Calls!Gaps(allocs, limit) = Gaps(allocs, limit)
    BY DEF Calls!Gaps, Gaps, Calls!End, End, Calls!Chunk, Chunk
  <1>. QED  BY <1>1, <1>2 DEF Calls!UpdateFreeMemSize, UpdateFreeMemSize

LEMMA SameCarve ==
  ASSUME NEW z, NEW size
  PROVE  Calls!Carve(z, size) = Carve(z, size)
  BY SameGetAlloc, SameUpdateFreeMemSize, SameZoneMemSize DEF Calls!Carve, Carve

LEMMA SameUnlink ==
  ASSUME NEW allocs, NEW j
  PROVE  Calls!Unlink(allocs, j) = Unlink(allocs, j)
  BY DEF Calls!Unlink, Unlink, Calls!PrevIndex, PrevIndex, Calls!NULL, NULL

LEMMA SameFreedZone ==
  ASSUME NEW z, NEW j
  PROVE  Calls!FreedZone(z, j) = FreedZone(z, j)
  <1>1. Calls!FreedZoneSize(z) = FreedZoneSize(z)
    BY SameZoneMemSize DEF Calls!FreedZoneSize, FreedZoneSize
  <1>. QED  BY <1>1, SameUnlink, SameUpdateFreeMemSize DEF Calls!FreedZone, FreedZone

-----------------------------------------------------------------------------
(* Theorems                                                                *)

LEMMA StutterKeeps ==
  ASSUME StoresInv, UNCHANGED vars
  PROVE  StoresInv' /\ ZoneInMemory' = ZoneInMemory
  <1>1. /\ heap' = heap /\ alloc_pool' = alloc_pool /\ free_mem' = free_mem
        /\ op' = op /\ before' = before
    BY DEF vars
  <1>2. ZoneInMemory' = ZoneInMemory
    BY <1>1 DEF ZoneInMemory, Walk, Reached
  <1>3. StoresInv'
    BY <1>1 DEF StoresInv, AtRest, InCall, HeapOK, InMemory, Calling, Sound,
      FrontCall, FrontBegun, FrontWritten, FrontReached, FrontHeader, FrontPool,
      FrontBack, BetweenCall, BetweenBegun, BetweenWritten, BetweenLinked, GapAt,
      BetweenHeader, BetweenNext, BetweenHead, GapWritten, BehindCall,
      BehindBegun, BehindHalf, BehindNext, BehindHeader, Placed, FreeCall,
      FreeBegun, FreeBypassed, Freed, FreeAt, FreeNext, FreeBypass, FreeBack,
      FreeDone
  <1>. QED  BY <1>2, <1>3

(* What each step does to the invariant and to the zone a caller sees.     *)
LEMMA StepKeeps ==
  StoresInv /\ [Next]_vars =>
    /\ StoresInv'
    /\ \/ /\ op = NoOp /\ op' # NoOp /\ before' = ZoneInMemory
       \/ /\ op # NoOp /\ op' # NoOp /\ before' = before
       \/ /\ op # NoOp /\ op' = NoOp /\ ZoneChanged(ZoneInMemory')
       \/ /\ op' = op /\ before' = before /\ ZoneInMemory' = ZoneInMemory
  <1> SUFFICES ASSUME StoresInv, [Next]_vars
               PROVE  /\ StoresInv'
                      /\ \/ /\ op = NoOp /\ op' # NoOp /\ before' = ZoneInMemory
                         \/ /\ op # NoOp /\ op' # NoOp /\ before' = before
                         \/ /\ op # NoOp /\ op' = NoOp /\ ZoneChanged(ZoneInMemory')
                         \/ /\ op' = op /\ before' = before
                            /\ ZoneInMemory' = ZoneInMemory
    OBVIOUS
  <1>1. ASSUME NEW size \in Sizes, BeginMalloc(size)
        PROVE  StoresInv' /\ op = NoOp /\ op' # NoOp /\ before' = ZoneInMemory
    BY <1>1, MallocBegins
  <1>2. ASSUME NEW i \in DOMAIN Walk, BeginFree(Walk[i])
        PROVE  StoresInv' /\ op = NoOp /\ op' # NoOp /\ before' = ZoneInMemory
    BY <1>2, FreeBegins
  <1>3. CASE Store  BY <1>3, StoreKeeps
  <1>4. CASE Return  BY <1>4, ReturnKeeps
  <1>5. CASE UNCHANGED vars
    BY <1>5, StutterKeeps DEF vars
  <1>. QED  BY <1>1, <1>2, <1>3, <1>4, <1>5 DEF Next

(* The headers in memory are at each point as far as the call in progress  *)
(* has brought them, for malloc's three placements and for free.           *)
THEOREM StoresInvariant == Spec => []StoresInv
  <1>1. Init => StoresInv  BY StoresInit
  <1>2. StoresInv /\ [Next]_vars => StoresInv'  BY StepKeeps
  <1>. QED  BY <1>1, <1>2, PTL DEF Spec

(* Wherever SIGINT stops malloc or free, the handler's walk ends and finds *)
(* every block but the one the call is about, unless the call has just     *)
(* linked a block behind the last one and not set it yet.                  *)
THEOREM HandlerSeesOthersCorrect == Spec => []HandlerSeesOthers
  <1>1. StoresInv => HandlerSeesOthers  BY SeesOthers
  <1>. QED  BY <1>1, StoresInvariant, PTL

(* The stores of _get_alloc and free add up to the list operations that    *)
(* change a zone in one step, also where prev pointers dangle.             *)
THEOREM ImplementsZoneListCorrect == Spec => ImplementsZoneList
  <1> DEFINE Z == IF op = NoOp THEN ZoneInMemory ELSE before
  <1>1. Init => Calls!ZoneInit
    <2> SUFFICES ASSUME Init PROVE Calls!ZoneInit  OBVIOUS
    <2>1. op = NoOp /\ \E size \in Sizes : ZoneInMemory = FreshZone(Base, size)
      BY StoresInit
    <2>. QED  BY <2>1, SameFreshZone DEF Calls!ZoneInit
  <1>2. StoresInv /\ [Next]_vars => [Calls!ZoneNext]_Z
    <2> SUFFICES ASSUME StoresInv, [Next]_vars
                 PROVE  Calls!ZoneNext \/ Z' = Z
      OBVIOUS
    <2>1. CASE op = NoOp /\ op' # NoOp /\ before' = ZoneInMemory
      BY <2>1
    <2>2. CASE op # NoOp /\ op' # NoOp /\ before' = before
      BY <2>2
    <2>3. CASE op # NoOp /\ op' = NoOp /\ ZoneChanged(ZoneInMemory')
      <3>1. Z = before /\ Z' = ZoneInMemory'  BY <2>3
      <3>2. ASSUME NEW size \in Sizes, NEW c \in Carve(before, size),
                   ZoneInMemory' = c.zone
            PROVE  Calls!PlaceBlock(size)
        BY <3>1, <3>2, SameCarve DEF Calls!PlaceBlock
      <3>3. ASSUME NEW j \in 1..Len(before.allocs),
                   ZoneInMemory' = FreedZone(before, j)
            PROVE  j \in DOMAIN before.allocs /\ Calls!FreeBlock(j)
        <4>1. Sound(before)  BY <2>3 DEF StoresInv, InCall
        <4>2. j \in DOMAIN before.allocs  BY <4>1, SoundList
        <4>. QED  BY <3>1, <3>3, <4>2, SameFreedZone DEF Calls!FreeBlock
      <3>4. Calls!ZoneNext
        BY <2>3, <3>1, <3>2, <3>3 DEF ZoneChanged, Calls!ZoneNext
      <3>. QED  BY <3>4
    <2>4. CASE op' = op /\ before' = before /\ ZoneInMemory' = ZoneInMemory
      BY <2>4
    <2>. QED  BY <2>1, <2>2, <2>3, <2>4, StepKeeps
  <1>. QED  BY <1>1, <1>2, StoresInvariant, PTL
            DEF Spec, ImplementsZoneList, Calls!ZoneSpec

=============================================================================
