------------------------------ MODULE ZoneList ------------------------------
(***************************************************************************)
(* One zone under malloc and free: each call changes the allocation list   *)
(* and the free size in a single step.  This is how a caller that holds    *)
(* _mutex_lock sees the zone, and what MemPool takes a zone to be.         *)
(***************************************************************************)
EXTENDS AllocList

CONSTANTS
  Base,   \* the address the zone is mapped at
  Sizes   \* the sizes of the requests, rounded up

VARIABLE zone

ZoneInit == \E size \in Sizes : zone = FreshZone(Base, size)

PlaceBlock(size) == \E c \in Carve(zone, size) : zone' = c.zone

FreeBlock(j) == zone' = FreedZone(zone, j)

ZoneNext ==
  \/ \E size \in Sizes : PlaceBlock(size)
  \/ \E j \in DOMAIN zone.allocs : FreeBlock(j)

ZoneSpec == ZoneInit /\ [][ZoneNext]_zone
=============================================================================
