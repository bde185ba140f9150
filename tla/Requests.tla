------------------------------ MODULE Requests ------------------------------
(***************************************************************************)
(* What becomes of the size of a request in machine words: calloc's        *)
(* product, the rounding of malloc and the length of the zone mapped for   *)
(* it.  Every sum and product is taken modulo Word, the number of values   *)
(* of size_t; the request meets an empty pool, so a zone is always mapped. *)
(***************************************************************************)
EXTENDS ZoneSizes

CONSTANTS
  Word,     \* size_t holds 0..(Word - 1): 2^64
  MaxGrant  \* the largest mapping the kernel grants

ASSUME RequestsAssumption ==
  /\ Word \in Nat \ {0}
  /\ MaxGrant \in Nat
  /\ Word % Page = 0
  /\ Word % Align = 0
  /\ 2 * SmallZone * Page + ZoneHdr < Word

VARIABLE reply

Wrap(x) == x % Word

(* x & ~(unit - 1), where unit is a power of two.                          *)
Mask(x, unit) == x - (x % unit)

-----------------------------------------------------------------------------
(* Mutant: a multiple of Align is rounded up as well.                      *)
RoundUpWordAlways(size) == Mask(Wrap(size + Align), Align)

RoundUpWord(size) == Mask(Wrap(size + Align - 1), Align)

(* Mutant: the header of the block is forgotten.                           *)
ZoneMemSizeWordNoHeader(size, type) ==
  CASE type = "tiny"  -> Mask(Wrap(TinyZone * Page + size + ZoneHdr), Page)
    [] type = "small" -> Mask(Wrap(SmallZone * Page + size + ZoneHdr), Page)
    [] type = "large" -> Mask(Wrap(size + ZoneHdr + Page - 1), Page)

ZoneMemSizeWord(size, type) ==
  CASE type = "tiny"  -> Mask(Wrap(TinyZone * Page + size + ZoneHdr), Page)
    [] type = "small" -> Mask(Wrap(SmallZone * Page + size + ZoneHdr), Page)
    [] type = "large" ->
         Mask(Wrap(size + AllocHdr + ZoneHdr + Page - 1), Page)

(* mmap refuses an empty range.                                            *)
Grants(len) == len \in 1..MaxGrant

None == [kind |-> "none", asked |-> 0, size |-> 0, mapped |-> 0]

Failed(kind, asked) == [kind |-> kind, asked |-> asked, size |-> 0, mapped |-> 0]

(* malloc: the rounded size decides whether there is a block at all.       *)
MallocReply(size, asked) ==
  LET rounded == RoundUpWord(size)
      len     == ZoneMemSizeWord(rounded, SetZoneType(rounded))
  IN  IF rounded = 0 \/ ~Grants(len) THEN Failed("null", asked)
      ELSE [kind |-> "block", asked |-> asked, size |-> rounded,
            mapped |-> len]

(* Mutant: the product is only compared with one of its factors.           *)
KeepsSizeByCompare(count, size) == Wrap(count * size) >= size

(* calloc's test that the product has not overflowed.                      *)
KeepsSize(count, size) == Wrap(count * size) \div count = size

Malloc(size) == reply' = MallocReply(size, size)

(* calloc divides by count without looking at it.                          *)
Calloc(count, size) ==
  reply' = IF count = 0 THEN Failed("trap", 0)
           ELSE IF KeepsSize(count, size)
                THEN MallocReply(Wrap(count * size), count * size)
                ELSE Failed("null", count * size)

Init == reply = None

-----------------------------------------------------------------------------
(* Properties                                                              *)

(* A block that is returned has at least the bytes that were asked for:    *)
(* neither a product that overflows nor a rounding that wraps gets past    *)
(* calloc and malloc.                                                      *)
NeverShort == reply.kind = "block" => reply.size >= reply.asked

(* The bytes added to a large request on the way to mmap.                  *)
Overhead == AllocHdr + ZoneHdr + Page - 1

(* init.c, over _get_zone_mem_size: a zone is the size needed to store the *)
(* requested block and the two headers.                                    *)
ZoneHoldsBlock ==
  reply.kind = "block" => reply.mapped >= ZoneHdr + AllocHdr + reply.size

(* It is, as long as the request leaves room for the overhead in a word.   *)
ZoneHoldsBlockBelowWrap ==
  reply.size + Overhead < Word => ZoneHoldsBlock

(* Below that limit words behave as the numbers the other modules count    *)
(* with.                                                                   *)
NumbersSuffice ==
  reply.kind = "block" /\ reply.asked + Align + Overhead < Word =>
    /\ reply.size = RoundUp(reply.asked)
    /\ reply.mapped = ZoneMemSize(reply.size, SetZoneType(reply.size))
=============================================================================
