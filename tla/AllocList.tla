------------------------------ MODULE AllocList ------------------------------
(***************************************************************************)
(* One zone of the memory pool and the operations on its allocation list.  *)
(*                                                                         *)
(* A zone is mapped memory: a zone_info_t at its base address, then        *)
(* alloc_info_t headers, each directly followed by the chunk it describes. *)
(* The list as it is walked (alloc_pool, then next after next) is the      *)
(* sequence allocs.  The prev pointers are kept as the code writes them,   *)
(* because they need not agree with that order.                            *)
(***************************************************************************)
EXTENDS ZoneSizes, Sequences, FiniteSetsExt

NULL == 0

Alloc == [at: Nat, prev: Nat, size: Nat, cap: Nat]

Zone == [base: Nat, type: ZoneTypes, free: Nat, allocs: Seq(Alloc)]

NewAlloc(at, prev, size) ==
  [at |-> at, prev |-> prev, size |-> size, cap |-> size]

Chunk(a) == a.at + AllocHdr

(* Mutant: the header is not counted.                                      *)
EndNoHeader(a) == a.at + a.size

(* The first byte behind a block.                                          *)
End(a) == Chunk(a) + a.size

FirstSlot(z) == z.base + ZoneHdr

(* The first element of a list that satisfies a test: a singleton, or the  *)
(* empty set when none does.                                               *)
FirstOf(S) == {i \in S : \A j \in S : i <= j}

-----------------------------------------------------------------------------
(* _get_alloc: first fit in front of the list, between two listed blocks,  *)
(* behind the last one.  The empty set stands for the NULL it returns when *)
(* nothing fits.                                                           *)

FitsFront(z, size) ==
  /\ z.allocs # << >>
  /\ z.allocs[1].at > FirstSlot(z) + AllocHdr + size

FitsBetween(z, size) ==
  {i \in 1..(Len(z.allocs) - 1) :
     z.allocs[i + 1].at > End(z.allocs[i]) + size + AllocHdr}

FitsBehind(z, size) ==
  z.base + ZoneMemSize(size, z.type)
    >= End(z.allocs[Len(z.allocs)]) + size + AllocHdr

PlaceFront(z, size) ==
  LET rest == IF z.allocs = << >> THEN << >>
              ELSE [z.allocs EXCEPT ![1].prev = FirstSlot(z)]
  IN  [at     |-> FirstSlot(z),
       allocs |-> <<NewAlloc(FirstSlot(z), NULL, size)>> \o rest]

(* Mutant: a repaired list that takes the block in one place too late.     *)
PlaceBetweenLate(z, size, i) ==
  LET at   == End(z.allocs[i])
      next == z.allocs[i + 1]
  IN  [at     |-> at,
       allocs |-> SubSeq(z.allocs, 1, i)
                    \o <<[next EXCEPT !.prev = at], NewAlloc(at, next.at, size)>>
                    \o SubSeq(z.allocs, i + 2, Len(z.allocs))]

(* The block is carved out of the gap after the i-th listed block, but     *)
(* that block's next pointer is left alone and its prev pointer is set     *)
(* instead: the new block does not become part of the list.                *)
PlaceBetween(z, size, i) ==
  LET at == End(z.allocs[i])
  IN  [at     |-> at,
       allocs |-> [z.allocs EXCEPT ![i].prev = at, ![i + 1].prev = at]]

(* Mutant: the new block is linked back to the head of the list.           *)
PlaceBehindOfHead(z, size) ==
  LET last == z.allocs[Len(z.allocs)]
  IN  [at     |-> End(last),
       allocs |-> Append(z.allocs, NewAlloc(End(last), z.allocs[1].at, size))]

PlaceBehind(z, size) ==
  LET last == z.allocs[Len(z.allocs)]
  IN  [at     |-> End(last),
       allocs |-> Append(z.allocs, NewAlloc(End(last), last.at, size))]

GetAlloc(z, size) ==
  IF z.allocs = << >> \/ FitsFront(z, size) THEN {PlaceFront(z, size)}
  ELSE IF FitsBetween(z, size) # {}
       THEN {PlaceBetween(z, size, i) : i \in FirstOf(FitsBetween(z, size))}
       ELSE IF FitsBehind(z, size) THEN {PlaceBehind(z, size)} ELSE {}

-----------------------------------------------------------------------------
(* _update_free_mem_size: the widest gap that has a listed block in front  *)
(* of it.  The gap before the first listed block is not looked at.         *)

(* Mutant: a gap is measured from the chunk's first byte.                  *)
GapsFromChunk(allocs, limit) ==
  {allocs[i + 1].at - Chunk(allocs[i]) : i \in 1..(Len(allocs) - 1)}
    \cup {limit - Chunk(allocs[Len(allocs)])}

Gaps(allocs, limit) ==
  {allocs[i + 1].at - End(allocs[i]) : i \in 1..(Len(allocs) - 1)}
    \cup {limit - End(allocs[Len(allocs)])}

(* Mutant: the running maximum does not start from 0.                      *)
UpdateFreeMemSizeRaw(z, allocs, zoneSize) ==
  [z EXCEPT !.allocs = allocs,
            !.free   = IF allocs = << >> THEN zoneSize - ZoneHdr
                       ELSE Max(Gaps(allocs, z.base + zoneSize))]

UpdateFreeMemSize(z, allocs, zoneSize) ==
  [z EXCEPT !.allocs = allocs,
            !.free   = IF allocs = << >> THEN zoneSize - ZoneHdr
                       ELSE Max(Gaps(allocs, z.base + zoneSize) \cup {0})]

(* The zone _create_alloc_zone sets up at the address mmap returned.       *)
FreshZone(base, size) ==
  [base   |-> base,
   type   |-> SetZoneType(size),
   free   |-> ZoneMemSize(size, SetZoneType(size)) - ZoneHdr,
   allocs |-> << >>]

(* _creat_client_mem_ptr: the zone length is recomputed from the request.  *)
Carve(z, size) ==
  {[zone |-> UpdateFreeMemSize(z, p.allocs, ZoneMemSize(size, z.type)),
    ptr  |-> p.at + AllocHdr,
    listed |-> Len(p.allocs) > Len(z.allocs)] : p \in GetAlloc(z, size)}

-----------------------------------------------------------------------------
(* The unlinking done by free.  The block is bypassed only if the header   *)
(* its prev pointer names is in the list; otherwise next is written into a *)
(* header that no walk of the list reads, and the block stays listed.      *)

(* The list positions the prev pointer of the j-th block names; 0 is the   *)
(* zone itself.                                                            *)
PrevIndex(allocs, j) ==
  {i \in 0..Len(allocs) :
     allocs[j].prev = (IF i = 0 THEN NULL ELSE allocs[i].at)}

(* Mutant: alloc_pool is not moved when the first block goes.              *)
UnlinkKeepsHead(allocs, j) ==
  IF j = 1 THEN allocs
  ELSE SubSeq(allocs, 1, j - 1) \o
       [i \in 1..(Len(allocs) - j) |->
          IF i = 1 THEN [allocs[j + 1] EXCEPT !.prev = allocs[j].prev]
          ELSE allocs[j + i]]

Unlink(allocs, j) ==
  LET fixed == [i \in 1..Len(allocs) |->
                  IF i = j + 1 THEN [allocs[i] EXCEPT !.prev = allocs[j].prev]
                  ELSE allocs[i]]
  IN  IF PrevIndex(allocs, j) = {} THEN fixed
      ELSE LET i == CHOOSE i \in PrevIndex(allocs, j) : TRUE
           IN  SubSeq(fixed, 1, i) \o SubSeq(fixed, j + 1, Len(fixed))

(* Mutant: the length is recomputed from the free size.                    *)
FreedZoneSizeOfFree(z) == ZoneMemSize(z.free, z.type)

(* Mutant: the header of the block is taken for a part of its size.        *)
FreedZoneSizeWithHeader(z) == ZoneMemSize(z.allocs[1].size + AllocHdr, z.type)

(* The length of the zone is recomputed from the size of its first block.  *)
FreedZoneSize(z) == ZoneMemSize(z.allocs[1].size, z.type)

(* The zone with its j-th block unlinked.                                  *)
FreedZone(z, j) ==
  UpdateFreeMemSize(z, Unlink(z.allocs, j), FreedZoneSize(z))

(* _find_ptr_mem_alloc                                                     *)
FindAlloc(z, ptr) ==
  FirstOf({j \in 1..Len(z.allocs) : Chunk(z.allocs[j]) = ptr})

-----------------------------------------------------------------------------
(* What the list of a zone should look like.                               *)

Sorted(z) ==
  /\ \A j \in DOMAIN z.allocs : z.allocs[j].at >= FirstSlot(z)
  /\ \A i, j \in DOMAIN z.allocs : i < j => z.allocs[i].at < z.allocs[j].at

Ordered(z) ==
  /\ \A j \in DOMAIN z.allocs : z.allocs[j].at >= FirstSlot(z)
  /\ \A i, j \in DOMAIN z.allocs :
       i < j => End(z.allocs[i]) <= z.allocs[j].at

InPlace(z, j) ==
  z.allocs[j].prev = IF j = 1 THEN NULL ELSE z.allocs[j - 1].at

Linked(z) == \A j \in DOMAIN z.allocs : InPlace(z, j)

(* A header at x would be clear of every listed header.                    *)
ClearOfHeaders(z, x) ==
  \A i \in DOMAIN z.allocs :
    x + AllocHdr <= z.allocs[i].at \/ z.allocs[i].at + AllocHdr <= x

(* A prev pointer left behind by a block that is not listed: the header it *)
(* names lies inside the zone, clear of every listed header, so that the   *)
(* next pointer free writes there is read by no walk of the list; and it   *)
(* lies below the block itself or at least below the next one, which then  *)
(* has lost its link too.                                                  *)
Dangles(z, j) ==
  /\ z.allocs[j].prev >= FirstSlot(z) + AllocHdr
  /\ ClearOfHeaders(z, z.allocs[j].prev)
  /\ \/ z.allocs[j].prev + AllocHdr <= z.allocs[j].at
     \/ /\ j < Len(z.allocs)
        /\ z.allocs[j].prev + AllocHdr <= z.allocs[j + 1].at
        /\ ~InPlace(z, j + 1)

LinksSound(z) == \A j \in DOMAIN z.allocs : InPlace(z, j) \/ Dangles(z, j)
=============================================================================
