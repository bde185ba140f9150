------------------------------- MODULE Report -------------------------------
(***************************************************************************)
(* What the allocator tells about its lists: show_alloc_mem, which reads   *)
(* them with the mutex held, and the figures of the leak report.  Wording  *)
(* and number formats are left out.                                        *)
(***************************************************************************)
EXTENDS MemPool

(* The sizes a walk of one list adds up.                                   *)
ListedBytes(allocs) ==
  MapThenSumSet(LAMBDA j : allocs[j].cap, DOMAIN allocs)

ZonesAbove(adder) ==
  {z \in {pool[k].base : k \in DOMAIN pool} : z > adder}

(* Mutant: the running minimum is not kept.                                *)
LastAbove(adder) ==
  IF ZonesAbove(adder) = {} THEN NULL
  ELSE pool[CHOOSE k \in DOMAIN pool :
              /\ pool[k].base > adder
              /\ \A m \in DOMAIN pool : m > k => pool[m].base <= adder].base

(* _get_smallest_address_zone: the zone after the one last shown, or NULL. *)
SmallestAbove(adder) ==
  IF ZonesAbove(adder) = {} THEN NULL ELSE Min(ZonesAbove(adder))

(* The zones show_alloc_mem asks for, one call after the other.            *)
Shown ==
  LET zone[n \in 1..(Len(pool) + 1)] ==
        SmallestAbove(IF n = 1 THEN 0 ELSE zone[n - 1])
  IN  zone

(* show_alloc_mem searches the whole list again for each zone.  It shows   *)
(* every zone once, in ascending address order, and then stops: whatever   *)
(* order mmap and the removals of free have left the list in.              *)
ShowsEachZoneOnce ==
  /\ Shown[Len(pool) + 1] = NULL
  /\ \A n \in 1..Len(pool) :
       /\ \E k \in DOMAIN pool : pool[k].base = Shown[n]
       /\ n > 1 => Shown[n - 1] < Shown[n]
=============================================================================
