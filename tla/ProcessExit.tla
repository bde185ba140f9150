---------------------------- MODULE ProcessExit ----------------------------
(***************************************************************************)
(* The end of a process that uses the allocator: a thread leaves through   *)
(* exit, or SIGINT stops it, and the leak report and _clear walk the lists *)
(* without the mutex while other threads are still running.                *)
(*                                                                         *)
(* A walk takes one step per zone.  It holds the address of the zone it    *)
(* comes to next; if that zone has left the list or the address space by   *)
(* then the walk reads something else, or nothing at all, and is lost.     *)
(***************************************************************************)
EXTENDS MemPoolInv, Report

CONSTANTS
  ShowLeaks,   \* is DBG_ENV_SHOW_LEAKS set to 1?
  ClearLeaks   \* is DBG_ENV_CLEAR_LEAKS set to 1?

ASSUME ExitAssumption ==
  /\ ShowLeaks \in BOOLEAN
  /\ ClearLeaks \in BOOLEAN

VARIABLE exit
  (* stage: what the leaving thread does; by: that thread; signal: it is   *)
  (* in the handler of SIGINT; next: the zone its walk comes to; count and *)
  (* bytes: the figures of the report.  Two fields are history.  alone: no *)
  (* other thread has run yet; steady: since the walk began, none has made *)
  (* the zone the walk came to next leave the list.                        *)

exitVars == <<pool, mapped, held, calls, lock, status, events, exit>>

Stages == {"no", "report", "told", "clear", "gone", "lost"}

NotLeaving ==
  [stage |-> "no", by |-> Nobody, signal |-> FALSE, next |-> NULL,
   count |-> 0, bytes |-> 0, alone |-> TRUE, steady |-> TRUE]

FirstZone == IF pool = << >> THEN NULL ELSE pool[1].base

(* The list position of the zone at an address the walk can read.          *)
ZoneAt(base) ==
  {k \in DOMAIN pool : pool[k].base = base /\ Backed(base, ZoneHdr)}

ZoneAfter(k) == IF k = Len(pool) THEN NULL ELSE pool[k + 1].base

StartReport(signal) ==
  [exit EXCEPT !.stage = "report", !.signal = signal, !.next = FirstZone,
               !.count = 0, !.bytes = 0, !.steady = TRUE]

(* _clear: the report, if it is asked for, then the zones.                 *)
StartClear ==
  IF ClearLeaks THEN [exit EXCEPT !.stage = "clear", !.next = FirstZone,
                                      !.steady = TRUE]
                ELSE [exit EXCEPT !.stage = "gone"]

(* main returns, or exit is called.                                        *)
Leave(t) ==
  /\ exit.stage = "no"
  /\ status = "running"
  /\ calls[t] = Idle /\ ~Trampled
  /\ exit' = [(IF ShowLeaks THEN StartReport(FALSE) ELSE StartClear)
                EXCEPT !.by = t]
  /\ UNCHANGED vars

(* SIGINT: _init_leak_handler has installed the handler if ShowLeaks.      *)
Interrupt(t) ==
  /\ ShowLeaks
  /\ exit.stage = "no"
  /\ status = "running"
  /\ ~Trampled
  /\ exit' = [StartReport(TRUE) EXCEPT !.by = t]
  /\ UNCHANGED vars

(* Mutant: the walk takes a spare zone for the end of the list.            *)
ReportNextStopsAtSpare(k) ==
  IF pool[k].allocs = << >> THEN NULL ELSE ZoneAfter(k)

ReportNext(k) == ZoneAfter(k)

(* _show_program_leaks comes to a zone.  The figures are kept only until   *)
(* another thread runs: from then on nothing is said of them, and they can *)
(* grow for as long as that thread adds zones in front of the walk.        *)
ReportZone ==
  /\ exit.stage = "report" /\ exit.next # NULL
  /\ \E k \in ZoneAt(exit.next) :
       exit' = [exit EXCEPT
         !.next  = ReportNext(k),
         !.count = IF exit.alone THEN @ + Len(pool[k].allocs) ELSE @,
         !.bytes = IF exit.alone THEN @ + ListedBytes(pool[k].allocs) ELSE @]
  /\ UNCHANGED vars

(* The report is written.                                                  *)
Tell ==
  /\ exit.stage = "report" /\ exit.next = NULL
  /\ exit' = [exit EXCEPT !.stage = "told"]
  /\ UNCHANGED vars

(* After its report the handler calls exit, and _clear reports once more.  *)
AfterReport ==
  /\ exit.stage = "told"
  /\ exit' = IF exit.signal THEN StartReport(FALSE) ELSE StartClear
  /\ UNCHANGED vars

(* Mutant: the zone header is added to the length once more.               *)
ClearedPagesHeaderTwice(z) ==
  IF z.allocs = << >> THEN {} ELSE PagesOf(z.base, FreedZoneSize(z) + ZoneHdr)

ClearedPages(z) ==
  IF z.allocs = << >> THEN {} ELSE PagesOf(z.base, FreedZoneSize(z))

(* _clear_zones comes to a zone: one without a block is passed over, any   *)
(* other is unmapped; its length is recomputed from its first block.       *)
ClearZone ==
  /\ exit.stage = "clear" /\ exit.next # NULL
  /\ \E k \in ZoneAt(exit.next) :
       /\ exit' = [exit EXCEPT !.next = ZoneAfter(k)]
       /\ \/ /\ mapped' = mapped \ ClearedPages(pool[k])
             /\ UNCHANGED <<status, events>>
          \/ /\ KernelMayRefuse /\ pool[k].allocs # << >>
             /\ status' = IF AbortOnErr THEN "aborted" ELSE status
             /\ events' = events \cup {"kept"}
             /\ UNCHANGED mapped
  /\ UNCHANGED <<pool, held, calls, lock>>

(* _mem_pool.pool = NULL, and the process goes on to its end.              *)
ClearDone ==
  /\ exit.stage = "clear" /\ exit.next = NULL
  /\ pool' = << >>
  /\ exit' = [exit EXCEPT !.stage = "gone"]
  /\ UNCHANGED <<mapped, held, calls, lock, status, events>>

GetLost ==
  /\ exit.stage \in {"report", "clear"} /\ exit.next # NULL
  /\ ZoneAt(exit.next) = {}
  /\ exit' = [exit EXCEPT !.stage = "lost"]
  /\ UNCHANGED vars

(* Is the zone the walk comes to next still on the list after this step?   *)
NextStays ==
  exit.next = NULL \/ \E k \in DOMAIN pool' : pool'[k].base = exit.next

(* The other threads go on until the process is gone.                      *)
Others ==
  /\ exit.stage \notin {"gone", "lost"}
  /\ Runnable
  /\ \E t \in Threads \ {exit.by} : Step(t)
  /\ exit' = IF exit.stage = "no" THEN exit
             ELSE [exit EXCEPT !.alone = FALSE, !.count = 0, !.bytes = 0,
                               !.steady = @ /\ NextStays]

ExitInit == Init /\ exit = NotLeaving

ExitNext ==
  \/ Others
  \/ /\ status = "running"
     /\ \/ \E t \in Threads : Leave(t) \/ Interrupt(t)
        \/ ReportZone \/ Tell \/ AfterReport
        \/ ClearZone \/ ClearDone
        \/ GetLost

ExitSpec == ExitInit /\ [][ExitNext]_exitVars

-----------------------------------------------------------------------------
(* Properties                                                              *)

Tracked == Clean /\ events \cap {"missed", "kept"} = {}

(* The leak report counts the blocks the client has not freed and their    *)
(* sizes, wherever SIGINT or exit catches the threads, as long as no other *)
(* thread runs between the steps of the walk.                              *)
ReportIsExact ==
  exit.stage = "told" /\ exit.alone /\ Tracked =>
    /\ exit.count = Cardinality(Owned)
    /\ exit.bytes = MapThenSumSet(LAMBDA o : o[2].size, Owned)

(* A walk is at a position of the list, or at its end, one further.        *)
WalkAt(k) == exit.next = IF k = Len(pool) + 1 THEN NULL ELSE pool[k].base

(* The pages of the zones that _clear has to leave mapped when it comes to *)
(* a position of the list: those still to come and those without a block.  *)
LeftFrom(k) ==
  UNION {ZonePages(pool[m]) :
           m \in {n \in DOMAIN pool : n >= k \/ pool[n].allocs = << >>}}

(* The walks of the report and of _clear hold on to a zone and no mutex.   *)
(* Whatever other threads allocate, free and give back in between, a walk  *)
(* stands on the list with everything in front of it mapped, and is lost   *)
(* only if the zone it came to next was itself given back.  With no other  *)
(* thread running, _clear has left mapped exactly what it has to leave: no *)
(* page of a zone it has yet to read is gone and none of one it has        *)
(* cleared is left, although no length is recorded.                        *)
WalkSound ==
  Tracked =>
    /\ exit.steady =>
         /\ exit.stage # "lost"
         /\ exit.stage \in {"report", "clear"} =>
              \E k \in 1..(Len(pool) + 1) :
                /\ WalkAt(k)
                /\ \A m \in DOMAIN pool : m >= k => ZonePages(pool[m]) \subseteq mapped
    /\ exit.alone /\ exit.stage = "clear" =>
         \E k \in 1..(Len(pool) + 1) : WalkAt(k) /\ mapped = LeftFrom(k)
=============================================================================
