----------------------------- MODULE LocksProofs -----------------------------
(***************************************************************************)
(* The discipline of _mutex_lock for any number of threads, calls and any  *)
(* outcome of the critical sections.  Each action of Locks is one of four  *)
(* kinds of moves; a lemma for each kind shows that it keeps the           *)
(* invariant, and the theorem sorts the actions.                           *)
(***************************************************************************)
EXTENDS Locks, TLAPS

USE DEF EntryPoints, Critical, Returns, Places, Args

LEMMA PlacesApart ==
  /\ Critical \subseteq Places
  /\ \A p \in Returns \cup EntryPoints \cup {"out", "copy"} :
       p \in Places /\ p \notin Critical
OBVIOUS

(* A place to return to is in no critical section.                         *)
LEMMA ReturnPlace ==
  ASSUME TypeOK, NEW t \in Threads
  PROVE  LET p == IF frames[t] = << >> THEN "out" ELSE Head(frames[t])
         IN  p \in Returns \cup {"out"}
  <1>1. frames[t] \in Seq(Returns)
    BY DEF TypeOK
  <1>2. CASE frames[t] = << >>
    BY <1>2
  <1>3. CASE frames[t] # << >>
    <2>1. Head(frames[t]) \in Returns
      BY <1>1, <1>3, SMT
    <2> QED BY <2>1, <1>3
  <1> QED BY <1>2, <1>3

-----------------------------------------------------------------------------
(* Type correctness                                                        *)

LEMMA ReturnType ==
  ASSUME TypeOK, NEW t \in Threads, NEW r \in {"null", "block"}, Return(t, r)
  PROVE  /\ at' \in [Threads -> Places]
         /\ frames' \in [Threads -> Seq(Returns)]
         /\ result' \in [Threads -> {"null", "block"}]
  <1>1. (IF frames[t] = << >> THEN "out" ELSE Head(frames[t])) \in Places
    BY ReturnPlace, PlacesApart
  <1>2. at' \in [Threads -> Places]
    BY <1>1 DEF TypeOK, Return, Goto
  <1>3. frames[t] \in Seq(Returns)
    BY DEF TypeOK
  <1>4. (IF frames[t] = << >> THEN frames[t] ELSE Tail(frames[t])) \in Seq(Returns)
    BY <1>3
  <1>5. frames' \in [Threads -> Seq(Returns)]
    BY <1>4 DEF TypeOK, Return
  <1>6. result' \in [Threads -> {"null", "block"}]
    BY DEF TypeOK, Return
  <1> QED BY <1>2, <1>5, <1>6

LEMMA CallType ==
  ASSUME TypeOK, NEW t \in Threads, NEW p \in Places, NEW b \in Returns,
         Call(t, p, b)
  PROVE  /\ at' \in [Threads -> Places]
         /\ frames' \in [Threads -> Seq(Returns)]
         /\ result' \in [Threads -> {"null", "block"}]
  <1>1. frames[t] \in Seq(Returns)
    BY DEF TypeOK
  <1>2. <<b>> \o frames[t] \in Seq(Returns)
    BY <1>1
  <1> QED BY <1>2 DEF TypeOK, Call, Goto

LEMMA LockType ==
  ASSUME TypeOK, NEW t \in Threads, NEW p \in Places, Lock(t, p)
  PROVE  /\ at' \in [Threads -> Places]
         /\ frames' \in [Threads -> Seq(Returns)]
         /\ result' \in [Threads -> {"null", "block"}]
         /\ mutex' \in Threads \cup {Nobody}
         /\ status' \in {"running", "aborted", "trapped"}
  BY DEF TypeOK, Lock, Goto

LEMMA GotoType ==
  ASSUME TypeOK, NEW t \in Threads, NEW p \in Places, Goto(t, p)
  PROVE  at' \in [Threads -> Places]
  BY DEF TypeOK, Goto

LEMMA ComplainType ==
  ASSUME TypeOK, Complain
  PROVE  status' \in {"running", "aborted", "trapped"}
  BY DEF TypeOK, Complain

(* What an action leaves to show when its moves are typed.                 *)
TypeOfStep ==
  /\ at' \in [Threads -> Places]
  /\ frames' \in [Threads -> Seq(Returns)]
  /\ result' \in [Threads -> {"null", "block"}]
  /\ mutex' \in Threads \cup {Nobody}
  /\ status' \in {"running", "aborted", "trapped"}
  /\ left' \in BOOLEAN

LEMMA MallocType ==
  ASSUME TypeOK, NEW t \in Threads,
         MallocEnter(t) \/ MallocBody(t) \/ MallocUnlock(t)
  PROVE  TypeOfStep
  <1> USE DEF TypeOfStep
  <1>1. CASE MallocEnter(t)
    BY <1>1, ReturnType, LockType DEF MallocEnter, TypeOK
  <1>2. CASE MallocBody(t)
    <2>1. CASE MallocServed(t)
      <3>1. at' \in [Threads -> Places]
        BY <2>1, GotoType DEF MallocServed
      <3> QED BY <2>1, <3>1 DEF MallocServed, TypeOK
    <2>2. CASE MallocRefused(t)
      BY <2>2, ReturnType, ComplainType DEF MallocRefused, TypeOK
    <2> QED BY <1>2, <2>1, <2>2 DEF MallocBody
  <1>3. CASE MallocUnlock(t)
    <2>1. result[t] \in {"null", "block"}
      BY DEF TypeOK
    <2> QED BY <1>3, <2>1, ReturnType DEF MallocUnlock, Unlock, TypeOK
  <1> QED BY <1>1, <1>2, <1>3

LEMMA FreeType ==
  ASSUME TypeOK, NEW t \in Threads,
         FreeEnter(t) \/ FreeBody(t) \/ FreeUnlock(t)
  PROVE  TypeOfStep
  <1> USE DEF TypeOfStep
  <1>1. CASE FreeEnter(t)
    BY <1>1, ReturnType, LockType DEF FreeEnter, TypeOK
  <1>2. CASE FreeBody(t)
    <2>1. CASE FreeMissed(t)
      BY <2>1, ReturnType, ComplainType DEF FreeMissed, Unlock, TypeOK
    <2>2. CASE FreeDone(t)
      <3>1. at' \in [Threads -> Places]
        BY <2>2, GotoType DEF FreeDone
      <3>2. status' \in {"running", "aborted", "trapped"}
        BY <2>2, ComplainType DEF FreeDone, TypeOK
      <3> QED BY <2>2, <3>1, <3>2 DEF FreeDone, TypeOK
    <2> QED BY <1>2, <2>1, <2>2 DEF FreeBody
  <1>3. CASE FreeUnlock(t)
    BY <1>3, ReturnType DEF FreeUnlock, Unlock, TypeOK
  <1> QED BY <1>1, <1>2, <1>3

LEMMA ReallocType ==
  ASSUME TypeOK, NEW t \in Threads,
         \/ ReallocEnter(t) \/ ReallocBody(t) \/ ReallocMoved(t)
         \/ ReallocCopy(t) \/ ReallocUnlock(t)
  PROVE  TypeOfStep
  <1> USE DEF TypeOfStep
  <1>1. CASE ReallocEnter(t)
    BY <1>1, CallType, LockType, GotoType DEF ReallocEnter, TypeOK
  <1>2. CASE ReallocBody(t)
    <2>1. CASE ReallocMissed(t)
      BY <1>2, <2>1, ReturnType, ComplainType
         DEF ReallocBody, ReallocMissed, Unlock, TypeOK
    <2>2. CASE ReallocSame(t)
      BY <1>2, <2>2, ReturnType DEF ReallocBody, ReallocSame, Unlock, TypeOK
    <2>3. CASE ReallocInPlace(t)
      BY <1>2, <2>3, GotoType DEF ReallocBody, ReallocInPlace, Unlock, TypeOK
    <2>4. CASE ReallocMove(t)
      BY <1>2, <2>4, CallType DEF ReallocBody, ReallocMove, Unlock, TypeOK
    <2> QED BY <1>2, <2>1, <2>2, <2>3, <2>4 DEF ReallocBody
  <1>3. CASE ReallocMoved(t)
    BY <1>3, ReturnType, GotoType DEF ReallocMoved, TypeOK
  <1>4. CASE ReallocCopy(t)
    BY <1>4, LockType DEF ReallocCopy, TypeOK
  <1>5. CASE ReallocUnlock(t)
    BY <1>5, CallType DEF ReallocUnlock, Unlock, TypeOK
  <1> QED BY <1>1, <1>2, <1>3, <1>4, <1>5

LEMMA OthersType ==
  ASSUME TypeOK, NEW t \in Threads,
         \/ Reallocf(t) \/ ReallocfTested(t) \/ Calloc(t) \/ PassOn(t)
         \/ Show(t) \/ ShowUnlock(t)
  PROVE  TypeOfStep
  <1> USE DEF TypeOfStep
  <1>1. CASE Reallocf(t)
    BY <1>1, CallType DEF Reallocf, TypeOK
  <1>2. CASE ReallocfTested(t)
    BY <1>2, CallType, ReturnType DEF ReallocfTested, TypeOK
  <1>3. CASE Calloc(t)
    BY <1>3, CallType, ReturnType DEF Calloc, TypeOK
  <1>4. CASE PassOn(t)
    <2>1. result[t] \in {"null", "block"}
      BY DEF TypeOK
    <2> QED BY <1>4, <2>1, ReturnType DEF PassOn, TypeOK
  <1>5. CASE Show(t)
    BY <1>5, LockType DEF Show, TypeOK
  <1>6. CASE ShowUnlock(t)
    BY <1>6, ReturnType DEF ShowUnlock, Unlock, TypeOK
  <1> QED BY <1>1, <1>2, <1>3, <1>4, <1>5, <1>6

(* The type invariant holds in every reachable state.                      *)
THEOREM LocksTypeCorrect == Spec => []TypeOK
  <1>1. ASSUME Init
        PROVE  TypeOK
    <2>1. args \in [Threads -> Args]
      BY <1>1 DEF Init
    <2>2. 0 \in 0..MaxCalls
      BY LocksAssumption
    <2>3. begun \in [Threads -> 0..MaxCalls]
      BY <1>1, <2>2 DEF Init
    <2>4. << >> \in Seq(Returns)
      OBVIOUS
    <2>5. frames \in [Threads -> Seq(Returns)]
      BY <1>1, <2>4 DEF Init
    <2> QED BY <1>1, <2>1, <2>3, <2>5 DEF Init, TypeOK
  <1>2. ASSUME TypeOK, [Next]_vars
        PROVE  TypeOK'
    <2>1. CASE UNCHANGED vars
      BY <1>2, <2>1 DEF vars, TypeOK
    <2>2. ASSUME NEW t \in Threads, Step(t)
          PROVE  TypeOK'
      <3>1. TypeOfStep
        BY <1>2, <2>2, MallocType, FreeType, ReallocType, OthersType
           DEF Step, Continue
      <3>2. args' \in [Threads -> Args] /\ begun' \in [Threads -> 0..MaxCalls]
        BY <1>2, <2>2 DEF Step, Continue, TypeOK
      <3> QED BY <3>1, <3>2 DEF TypeOfStep, TypeOK
    <2>3. ASSUME NEW t \in Threads, Begin(t)
          PROVE  TypeOK'
      <3>1. PICK f \in EntryPoints : Goto(t, f)
        BY <2>3 DEF Begin
      <3>2. at' \in [Threads -> Places]
        BY <1>2, <3>1, GotoType
      <3>3. PICK a \in Args : args' = [args EXCEPT ![t] = a]
        BY <2>3 DEF Begin
      <3>4. args' \in [Threads -> Args]
        BY <1>2, <3>3 DEF TypeOK
      <3>5. begun' \in [Threads -> 0..MaxCalls]
        BY <1>2, <2>3, LocksAssumption DEF Begin, TypeOK
      <3> QED BY <1>2, <2>3, <3>2, <3>4, <3>5 DEF Begin, TypeOK
    <2> QED BY <1>2, <2>1, <2>2, <2>3 DEF Next
  <1> QED BY <1>1, <1>2, PTL DEF Spec

-----------------------------------------------------------------------------
(* The discipline                                                          *)

(* The two invariants are proved together: neither is inductive alone.     *)
Discipline == MutexDiscipline /\ RefusalIsFinal

(* From outside into a critical section, by taking the mutex.              *)
LEMMA MoveIn ==
  ASSUME TypeOK, Discipline, NEW t \in Threads, NEW p \in Critical,
         Lock(t, p), UNCHANGED left
  PROVE  Discipline'
  <1>1. mutex = Nobody /\ mutex' = t /\ at' = [at EXCEPT ![t] = p]
    BY DEF Lock, Goto
  <1>2. ~left
    BY <1>1 DEF Discipline, RefusalIsFinal
  <1>3. \A u \in Threads : at[u] \notin Critical
    BY <1>1, LocksAssumption DEF Discipline, MutexDiscipline
  <1>4. MutexDiscipline'
    BY <1>1, <1>3, LocksAssumption DEF MutexDiscipline, TypeOK
  <1> QED BY <1>2, <1>4 DEF Discipline, RefusalIsFinal

(* Out of a critical section, by giving the mutex back.                    *)
LEMMA MoveOut ==
  ASSUME TypeOK, Discipline, NEW t \in Threads, at[t] \in Critical,
         NEW p \in Places \ Critical, Goto(t, p), Unlock, UNCHANGED left
  PROVE  Discipline'
  <1>1. mutex = t /\ ~left
    BY DEF Discipline, MutexDiscipline, RefusalIsFinal
  <1>2. \A u \in Threads : u # t => at[u] \notin Critical
    BY <1>1 DEF Discipline, MutexDiscipline
  <1>3. \A u \in Threads : at'[u] \notin Critical
    BY <1>2 DEF Goto, TypeOK
  <1>4. mutex' = Nobody
    BY DEF Unlock
  <1>5. MutexDiscipline'
    BY <1>3, <1>4, LocksAssumption DEF MutexDiscipline
  <1> QED BY <1>1, <1>5 DEF Discipline, RefusalIsFinal

(* From place to place inside, or from place to place outside.             *)
LEMMA MoveAlong ==
  ASSUME TypeOK, Discipline, NEW t \in Threads, NEW p \in Places, Goto(t, p),
         at[t] \in Critical <=> p \in Critical, UNCHANGED <<mutex, left>>
  PROVE  Discipline'
  <1>1. \A u \in Threads : at'[u] \in Critical <=> at[u] \in Critical
    BY DEF Goto, TypeOK
  <1>2. MutexDiscipline'
    BY <1>1 DEF Discipline, MutexDiscipline
  <1>3. RefusalIsFinal'
    BY <1>1 DEF Discipline, RefusalIsFinal
  <1> QED BY <1>2, <1>3 DEF Discipline

(* Out of malloc with the mutex.                                           *)
LEMMA MoveOutLocked ==
  ASSUME TypeOK, Discipline, NEW t \in Threads, at[t] \in Critical,
         NEW p \in Places \ Critical, Goto(t, p), left' = TRUE, UNCHANGED mutex
  PROVE  Discipline'
  <1>1. mutex = t
    BY DEF Discipline, MutexDiscipline
  <1>2. \A u \in Threads : u # t => at[u] \notin Critical
    BY <1>1 DEF Discipline, MutexDiscipline
  <1>3. \A u \in Threads : at'[u] \notin Critical
    BY <1>2 DEF Goto, TypeOK
  <1>4. MutexDiscipline' /\ RefusalIsFinal'
    BY <1>1, <1>3, LocksAssumption DEF MutexDiscipline, RefusalIsFinal
  <1> QED BY <1>4 DEF Discipline

(* A return goes to a place outside.                                       *)
LEMMA ReturnGoes ==
  ASSUME TypeOK, NEW t \in Threads, NEW r, Return(t, r)
  PROVE  \E p \in Places \ Critical : Goto(t, p)
  <1> DEFINE p == IF frames[t] = << >> THEN "out" ELSE Head(frames[t])
  <1>1. p \in Places \ Critical
    BY ReturnPlace, PlacesApart
  <1>2. Goto(t, p)
    BY DEF Return
  <1> HIDE DEF p
  <1> QED BY <1>1, <1>2

(* So does a call.                                                         *)
LEMMA CallGoes ==
  ASSUME NEW t \in Threads, NEW p \in EntryPoints, NEW b, Call(t, p, b)
  PROVE  \E q \in Places \ Critical : Goto(t, q)
  BY DEF Call

LEMMA MallocKeeps ==
  ASSUME TypeOK, Discipline, NEW t \in Threads,
         MallocEnter(t) \/ MallocBody(t) \/ MallocUnlock(t)
  PROVE  Discipline'
  <1>1. CASE MallocEnter(t)
    <2>1. CASE Lock(t, "malloc_body")
      BY <1>1, <2>1, MoveIn DEF MallocEnter
    <2>2. CASE Return(t, "null") /\ UNCHANGED mutex
      BY <1>1, <2>2, ReturnGoes, MoveAlong DEF MallocEnter
    <2> QED BY <1>1, <2>1, <2>2 DEF MallocEnter
  <1>2. CASE MallocBody(t)
    <2>1. CASE MallocServed(t)
      BY <1>2, <2>1, MoveAlong DEF MallocBody, MallocServed
    <2>2. CASE MallocRefused(t)
      BY <1>2, <2>2, ReturnGoes, MoveOutLocked DEF MallocBody, MallocRefused
    <2> QED BY <1>2, <2>1, <2>2 DEF MallocBody
  <1>3. CASE MallocUnlock(t)
    BY <1>3, ReturnGoes, MoveOut DEF MallocUnlock
  <1> QED BY <1>1, <1>2, <1>3

LEMMA FreeKeeps ==
  ASSUME TypeOK, Discipline, NEW t \in Threads,
         FreeEnter(t) \/ FreeBody(t) \/ FreeUnlock(t)
  PROVE  Discipline'
  <1>1. CASE FreeEnter(t)
    <2>1. CASE Lock(t, "free_body")
      BY <1>1, <2>1, MoveIn DEF FreeEnter
    <2>2. CASE Return(t, "null") /\ UNCHANGED mutex
      BY <1>1, <2>2, ReturnGoes, MoveAlong DEF FreeEnter
    <2> QED BY <1>1, <2>1, <2>2 DEF FreeEnter
  <1>2. CASE FreeBody(t)
    <2>1. CASE FreeMissed(t)
      BY <1>2, <2>1, ReturnGoes, MoveOut DEF FreeBody, FreeMissed
    <2>2. CASE FreeDone(t)
      BY <1>2, <2>2, MoveAlong DEF FreeBody, FreeDone
    <2> QED BY <1>2, <2>1, <2>2 DEF FreeBody
  <1>3. CASE FreeUnlock(t)
    BY <1>3, ReturnGoes, MoveOut DEF FreeUnlock
  <1> QED BY <1>1, <1>2, <1>3

LEMMA ReallocKeeps ==
  ASSUME TypeOK, Discipline, NEW t \in Threads,
         \/ ReallocEnter(t) \/ ReallocBody(t) \/ ReallocMoved(t)
         \/ ReallocCopy(t) \/ ReallocUnlock(t)
  PROVE  Discipline'
  <1>1. CASE ReallocEnter(t)
    <2>1. CASE Lock(t, "realloc_body")
      BY <1>1, <2>1, MoveIn DEF ReallocEnter
    <2>2. CASE Goto(t, "malloc") /\ UNCHANGED mutex
      BY <1>1, <2>2, MoveAlong DEF ReallocEnter
    <2>3. CASE Call(t, "free", "null") /\ UNCHANGED mutex
      BY <1>1, <2>3, CallGoes, MoveAlong DEF ReallocEnter
    <2> QED BY <1>1, <2>1, <2>2, <2>3 DEF ReallocEnter
  <1>2. CASE ReallocBody(t)
    <2>1. CASE ReallocMissed(t)
      BY <1>2, <2>1, ReturnGoes, MoveOut DEF ReallocBody, ReallocMissed
    <2>2. CASE ReallocSame(t)
      BY <1>2, <2>2, ReturnGoes, MoveOut DEF ReallocBody, ReallocSame
    <2>3. CASE ReallocInPlace(t)
      BY <1>2, <2>3, MoveOut DEF ReallocBody, ReallocInPlace
    <2>4. CASE ReallocMove(t)
      BY <1>2, <2>4, CallGoes, MoveOut DEF ReallocBody, ReallocMove
    <2> QED BY <1>2, <2>1, <2>2, <2>3, <2>4 DEF ReallocBody
  <1>3. CASE ReallocMoved(t)
    <2>1. CASE Return(t, "null")
      BY <1>3, <2>1, ReturnGoes, MoveAlong DEF ReallocMoved
    <2>2. CASE Goto(t, "copy")
      BY <1>3, <2>2, MoveAlong DEF ReallocMoved
    <2> QED BY <1>3, <2>1, <2>2 DEF ReallocMoved
  <1>4. CASE ReallocCopy(t)
    BY <1>4, MoveIn DEF ReallocCopy
  <1>5. CASE ReallocUnlock(t)
    BY <1>5, CallGoes, MoveOut DEF ReallocUnlock
  <1> QED BY <1>1, <1>2, <1>3, <1>4, <1>5

LEMMA OthersKeep ==
  ASSUME TypeOK, Discipline, NEW t \in Threads,
         \/ Reallocf(t) \/ ReallocfTested(t) \/ Calloc(t) \/ PassOn(t)
         \/ Show(t) \/ ShowUnlock(t)
  PROVE  Discipline'
  <1>1. CASE Reallocf(t)
    BY <1>1, CallGoes, MoveAlong DEF Reallocf
  <1>2. CASE ReallocfTested(t)
    <2>1. CASE Call(t, "free", "null")
      BY <1>2, <2>1, CallGoes, MoveAlong DEF ReallocfTested
    <2>2. CASE Return(t, "block")
      BY <1>2, <2>2, ReturnGoes, MoveAlong DEF ReallocfTested
    <2> QED BY <1>2, <2>1, <2>2 DEF ReallocfTested
  <1>3. CASE Calloc(t)
    <2>1. CASE Return(t, "null")
      BY <1>3, <2>1, ReturnGoes, MoveAlong DEF Calloc
    <2>2. CASE Call(t, "malloc", "zeroing")
      BY <1>3, <2>2, CallGoes, MoveAlong DEF Calloc
    <2>3. CASE UNCHANGED at
      BY <1>3, <2>3 DEF Calloc, Discipline, MutexDiscipline, RefusalIsFinal
    <2> QED BY <1>3, <2>1, <2>2, <2>3 DEF Calloc
  <1>4. CASE PassOn(t)
    BY <1>4, ReturnGoes, MoveAlong DEF PassOn
  <1>5. CASE Show(t)
    BY <1>5, MoveIn DEF Show
  <1>6. CASE ShowUnlock(t)
    BY <1>6, ReturnGoes, MoveOut DEF ShowUnlock
  <1> QED BY <1>1, <1>2, <1>3, <1>4, <1>5, <1>6

LEMMA DisciplineHolds == Spec => []Discipline
  <1>1. Init => Discipline
    BY LocksAssumption
       DEF Init, Discipline, MutexDiscipline, RefusalIsFinal
  <1>2. ASSUME TypeOK, Discipline, [Next]_vars
        PROVE  Discipline'
    <2>1. CASE UNCHANGED vars
      BY <1>2, <2>1 DEF vars, Discipline, MutexDiscipline, RefusalIsFinal
    <2>2. ASSUME NEW t \in Threads, Step(t)
          PROVE  Discipline'
      BY <1>2, <2>2, MallocKeeps, FreeKeeps, ReallocKeeps, OthersKeep
         DEF Step, Continue
    <2>3. ASSUME NEW t \in Threads, Begin(t)
          PROVE  Discipline'
      BY <1>2, <2>3, MoveAlong DEF Begin
    <2> QED BY <1>2, <2>1, <2>2, <2>3 DEF Next
  <1> QED BY <1>1, <1>2, LocksTypeCorrect, PTL DEF Spec

(* On every path of every call a thread unlocks only what it has locked,   *)
(* and waits, calls or leaves only without the mutex.                      *)
THEOREM MutexDisciplineCorrect == Spec => []MutexDiscipline
  <1>1. Discipline => MutexDiscipline
    BY DEF Discipline
  <1> QED BY <1>1, DisciplineHolds, PTL

(* After a refused mmap the mutex stays locked and no thread gets into a   *)
(* critical section again.                                                 *)
THEOREM RefusalIsFinalCorrect == Spec => []RefusalIsFinal
  <1>1. Discipline => RefusalIsFinal
    BY DEF Discipline
  <1> QED BY <1>1, DisciplineHolds, PTL
=============================================================================
