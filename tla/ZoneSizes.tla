------------------------------ MODULE ZoneSizes ------------------------------
(***************************************************************************)
(* The size arithmetic of the allocator: rounding of a request, the zone   *)
(* class it falls into, and the number of bytes mapped for a zone.         *)
(*                                                                         *)
(* All quantities are byte counts.  The module leaves the machine word     *)
(* out: requests are far below 2^64 here, so nothing wraps.                *)
(***************************************************************************)
EXTENDS Integers

CONSTANTS
  Page,       \* sysconf(_SC_PAGESIZE)
  TinyZone,   \* TINY_ZONE, pages of a tiny zone
  SmallZone,  \* SMALL_ZONE, pages of a small zone
  ZoneHdr,    \* sizeof(zone_info_t)
  AllocHdr,   \* sizeof(alloc_info_t)
  Align       \* requests are rounded up to a multiple of this

ASSUME SizesAssumption ==
  /\ Page \in Nat \ {0}
  /\ TinyZone \in Nat \ {0}
  /\ SmallZone \in Nat \ {0}
  /\ ZoneHdr \in Nat \ {0}
  /\ AllocHdr \in Nat \ {0}
  /\ Align \in Nat \ {0}
  /\ TinyZone < SmallZone
  /\ ZoneHdr + AllocHdr <= Page

ZoneTypes == {"tiny", "small", "large"}

(* size = (size + 15) & ~15, the first statement of malloc and realloc.    *)
RoundUp(size) == Align * ((size + Align - 1) \div Align)

(* The two thresholds.  The code computes them on the first call of an     *)
(* allocating function and never changes them again, and every use comes   *)
(* after that call, so they are constants here.                            *)
TinyZoneMaxSize == (TinyZone * Page - ZoneHdr \div 100) - AllocHdr

SmallZoneMaxSize == (SmallZone * Page - ZoneHdr \div 100) - AllocHdr

SetZoneType(size) ==
  IF size <= TinyZoneMaxSize THEN "tiny"
  ELSE IF size <= SmallZoneMaxSize THEN "small" ELSE "large"

(* Bytes of a zone of a type, AS A FUNCTION OF A SIZE: the code keeps no   *)
(* record of a zone's length and recomputes it wherever it is needed, each *)
(* time from whichever size is at hand.                                    *)
ZoneMemSize(size, type) ==
  CASE type = "tiny"  -> Page * ((TinyZone * Page + size + ZoneHdr) \div Page)
    [] type = "small" -> Page * ((SmallZone * Page + size + ZoneHdr) \div Page)
    [] type = "large" -> Page * ((size + AllocHdr + ZoneHdr + Page - 1) \div Page)
=============================================================================
