-------------------------------- MODULE Locks --------------------------------
(***************************************************************************)
(* Who holds _mutex_lock, and when: every entry point of the allocator as  *)
(* the locks it takes, the locks it gives back and the calls it makes, on  *)
(* each of its paths.  What a critical section does to the lists is the    *)
(* subject of MemPool; here its outcome is a choice.                       *)
(*                                                                         *)
(* A thread is at a place of the code.  The place named after a function   *)
(* is its entry, a place in Critical lies between a lock and the unlock    *)
(* that belongs to it, and a place in Returns is where a call comes back.  *)
(***************************************************************************)
EXTENDS Naturals, Sequences

CONSTANTS
  Threads,          \* threads of the program
  MaxCalls,         \* bound: calls a thread of the program makes
  KernelMayRefuse,  \* may mmap and munmap fail?
  AbortOnErr,       \* is DBG_ENV_ABORT_ON_ERR set to 1?
  Nobody            \* the mutex is free

ASSUME LocksAssumption ==
  /\ MaxCalls \in Nat
  /\ KernelMayRefuse \in BOOLEAN
  /\ AbortOnErr \in BOOLEAN
  /\ Nobody \notin Threads

VARIABLES
  at,      \* the place each thread is at, "out" when in no call
  frames,  \* the places its calls come back to, innermost first
  args,    \* what it was called with: a null pointer? which size?
  result,  \* what the last call that came back to it has returned
  mutex,   \* the owner of _mutex_lock
  status,  \* "running", "aborted", or "trapped" by a division by zero
  left,    \* history: malloc has returned with the mutex locked
  begun    \* the calls each thread has made

vars == <<at, frames, args, result, mutex, status, left, begun>>

EntryPoints == {"malloc", "free", "realloc", "reallocf", "calloc", "show"}

Critical ==
  {"malloc_body", "malloc_unlock", "free_body", "free_unlock",
   "realloc_body", "realloc_unlock", "show_unlock"}

Returns == {"moved", "copied", "null", "tested", "zeroing"}

Places == {"out", "copy"} \cup EntryPoints \cup Critical \cup Returns

(* A size is 0, or one that rounds up to 0, or any other.                  *)
Args == [nil: BOOLEAN, size: {"zero", "wraps", "some"}]

-----------------------------------------------------------------------------
Goto(t, place) == at' = [at EXCEPT ![t] = place]

Call(t, place, back) ==
  /\ Goto(t, place)
  /\ frames' = [frames EXCEPT ![t] = <<back>> \o @]
  /\ UNCHANGED result

Return(t, r) ==
  /\ Goto(t, IF frames[t] = << >> THEN "out" ELSE Head(frames[t]))
  /\ frames' = [frames EXCEPT ![t] = IF @ = << >> THEN @ ELSE Tail(@)]
  /\ result' = [result EXCEPT ![t] = r]

Lock(t, place) ==
  /\ mutex = Nobody
  /\ mutex' = t
  /\ Goto(t, place)
  /\ UNCHANGED <<frames, result, status>>

Unlock == mutex' = Nobody

(* _abort_program ends the program when it is told to.                     *)
Complain == status' = IF AbortOnErr THEN "aborted" ELSE status

-----------------------------------------------------------------------------
(* malloc                                                                  *)
MallocEnter(t) ==
  /\ at[t] = "malloc"
  /\ \/ /\ args[t].size # "some"
        /\ Return(t, "null")
        /\ UNCHANGED <<mutex, status>>
     \/ args[t].size = "some" /\ Lock(t, "malloc_body")
  /\ UNCHANGED left

(* mmap fails: malloc returns from inside the critical section.            *)
MallocRefused(t) ==
  /\ KernelMayRefuse
  /\ Complain
  /\ Return(t, "null")
  /\ left' = TRUE
  /\ UNCHANGED mutex

MallocServed(t) ==
  /\ Goto(t, "malloc_unlock")
  /\ \E r \in {"block", "null"} : result' = [result EXCEPT ![t] = r]
  /\ UNCHANGED <<frames, mutex, status, left>>

MallocBody(t) == at[t] = "malloc_body" /\ (MallocServed(t) \/ MallocRefused(t))

MallocUnlock(t) ==
  /\ at[t] = "malloc_unlock"
  /\ Unlock
  /\ Return(t, result[t])
  /\ UNCHANGED <<status, left>>

-----------------------------------------------------------------------------
(* free                                                                    *)
FreeEnter(t) ==
  /\ at[t] = "free"
  /\ \/ args[t].nil /\ Return(t, "null") /\ UNCHANGED <<mutex, status>>
     \/ ~args[t].nil /\ Lock(t, "free_body")
  /\ UNCHANGED left

(* Mutant: the error path forgets the unlock.                              *)
FreeMissedKeepsLock(t) ==
  /\ Complain
  /\ Return(t, "null")
  /\ UNCHANGED <<mutex, left>>

(* The pointer is not found: unlock, then complain.                        *)
FreeMissed(t) ==
  /\ Unlock
  /\ Complain
  /\ Return(t, "null")
  /\ UNCHANGED left

FreeDone(t) ==
  /\ Goto(t, "free_unlock")
  /\ (KernelMayRefuse /\ Complain) \/ UNCHANGED status
  /\ UNCHANGED <<frames, result, mutex, left>>

FreeBody(t) == at[t] = "free_body" /\ (FreeMissed(t) \/ FreeDone(t))

FreeUnlock(t) ==
  /\ at[t] = "free_unlock"
  /\ Unlock
  /\ Return(t, "null")
  /\ UNCHANGED <<status, left>>

-----------------------------------------------------------------------------
(* realloc and reallocf                                                    *)
ReallocEnter(t) ==
  /\ at[t] = "realloc"
  /\ \/ /\ args[t].nil
        /\ Goto(t, "malloc")
        /\ UNCHANGED <<frames, result, mutex, status>>
     \/ /\ ~args[t].nil /\ args[t].size = "zero"
        /\ Call(t, "free", "null")
        /\ UNCHANGED <<mutex, status>>
     \/ /\ ~args[t].nil /\ args[t].size # "zero"
        /\ Lock(t, "realloc_body")
  /\ UNCHANGED left

ReallocMissed(t) == Unlock /\ Complain /\ Return(t, "null")

ReallocSame(t) ==
  /\ args[t].size = "some"
  /\ Unlock
  /\ Return(t, "block")
  /\ UNCHANGED status

(* Mutant: _find_and_set_new_allocation leaves the unlock to its caller.   *)
ReallocInPlaceKeepsLock(t) ==
  /\ Goto(t, "copy")
  /\ UNCHANGED <<frames, result, status, mutex>>

(* _find_and_set_new_allocation gives the mutex back when it succeeds ...  *)
ReallocInPlace(t) ==
  /\ Unlock
  /\ Goto(t, "copy")
  /\ UNCHANGED <<frames, result, status>>

(* ... and realloc does, before it calls malloc, when it does not.         *)
ReallocMove(t) == Unlock /\ Call(t, "malloc", "moved") /\ UNCHANGED status

ReallocBody(t) ==
  /\ at[t] = "realloc_body"
  /\ ReallocMissed(t) \/ ReallocSame(t) \/ ReallocInPlace(t) \/ ReallocMove(t)
  /\ UNCHANGED left

(* Mutant: giving up, realloc unlocks what malloc has unlocked.            *)
ReallocMovedUnlocks(t) ==
  /\ at[t] = "moved"
  /\ \/ result[t] = "null" /\ Return(t, "null") /\ Unlock
     \/ /\ result[t] = "block"
        /\ Goto(t, "copy")
        /\ UNCHANGED <<frames, result, mutex>>
  /\ UNCHANGED <<status, left>>

ReallocMoved(t) ==
  /\ at[t] = "moved"
  /\ \/ result[t] = "null" /\ Return(t, "null")
     \/ result[t] = "block" /\ Goto(t, "copy") /\ UNCHANGED <<frames, result>>
  /\ UNCHANGED <<mutex, status, left>>

ReallocCopy(t) ==
  /\ at[t] = "copy"
  /\ Lock(t, "realloc_unlock")
  /\ UNCHANGED left

ReallocUnlock(t) ==
  /\ at[t] = "realloc_unlock"
  /\ Unlock
  /\ Call(t, "free", "copied")
  /\ UNCHANGED <<status, left>>

Reallocf(t) ==
  /\ at[t] = "reallocf"
  /\ Call(t, "realloc", "tested")
  /\ UNCHANGED <<mutex, status, left>>

ReallocfTested(t) ==
  /\ at[t] = "tested"
  /\ \/ result[t] = "null" /\ Call(t, "free", "null")
     \/ result[t] = "block" /\ Return(t, "block")
  /\ UNCHANGED <<mutex, status, left>>

-----------------------------------------------------------------------------
(* calloc and show_alloc_mem                                               *)

(* A count of 0 is divided by: undefined, and a trap where it is noticed.  *)
Calloc(t) ==
  /\ at[t] = "calloc"
  /\ \/ Return(t, "null") /\ UNCHANGED status
     \/ Call(t, "malloc", "zeroing") /\ UNCHANGED status
     \/ status' = "trapped" /\ UNCHANGED <<at, frames, result>>
  /\ UNCHANGED <<mutex, left>>

Show(t) == at[t] = "show" /\ Lock(t, "show_unlock") /\ UNCHANGED left

ShowUnlock(t) ==
  /\ at[t] = "show_unlock"
  /\ Unlock
  /\ Return(t, "null")
  /\ UNCHANGED <<status, left>>

(* Where nothing is left to do but to pass a value on to the caller.       *)
PassOn(t) ==
  /\ \/ at[t] = "copied" /\ Return(t, "block")
     \/ at[t] = "null" /\ Return(t, "null")
     \/ at[t] = "zeroing" /\ Return(t, result[t])
  /\ UNCHANGED <<mutex, status, left>>

-----------------------------------------------------------------------------
Begin(t) ==
  /\ at[t] = "out" /\ begun[t] < MaxCalls
  /\ begun' = [begun EXCEPT ![t] = @ + 1]
  /\ \E f \in EntryPoints : Goto(t, f)
  /\ \E a \in Args : args' = [args EXCEPT ![t] = a]
  /\ UNCHANGED <<frames, result, mutex, status, left>>

Continue(t) ==
  /\ \/ MallocEnter(t) \/ MallocBody(t) \/ MallocUnlock(t)
     \/ FreeEnter(t) \/ FreeBody(t) \/ FreeUnlock(t)
     \/ ReallocEnter(t) \/ ReallocBody(t) \/ ReallocMoved(t)
     \/ ReallocCopy(t) \/ ReallocUnlock(t)
     \/ Reallocf(t) \/ ReallocfTested(t)
     \/ Calloc(t) \/ PassOn(t)
     \/ Show(t) \/ ShowUnlock(t)
  /\ UNCHANGED <<args, begun>>

Init ==
  /\ at = [t \in Threads |-> "out"]
  /\ frames = [t \in Threads |-> << >>]
  /\ args = [t \in Threads |-> [nil |-> TRUE, size |-> "zero"]]
  /\ result = [t \in Threads |-> "null"]
  /\ mutex = Nobody
  /\ status = "running"
  /\ left = FALSE
  /\ begun = [t \in Threads |-> 0]

Step(t) == status = "running" /\ Continue(t)

Next == \E t \in Threads : Step(t) \/ (status = "running" /\ Begin(t))

(* The scheduler runs a thread that can go on.  A mutex of the default     *)
(* type promises no order among those that wait, and none is assumed; the  *)
(* program is not obliged to make a call.                                  *)
Fairness == \A t \in Threads : WF_vars(Step(t))

Spec == Init /\ [][Next]_vars /\ Fairness

-----------------------------------------------------------------------------
(* Properties                                                              *)

(* The type invariant.                                                     *)
TypeOK ==
  /\ at \in [Threads -> Places]
  /\ frames \in [Threads -> Seq(Returns)]
  /\ args \in [Threads -> Args]
  /\ result \in [Threads -> {"null", "block"}]
  /\ mutex \in Threads \cup {Nobody}
  /\ status \in {"running", "aborted", "trapped"}
  /\ left \in BOOLEAN
  /\ begun \in [Threads -> 0..MaxCalls]

(* On every path, error paths and the two ways out of                      *)
(* _find_and_set_new_allocation included, a thread unlocks only what it    *)
(* has locked, and it calls malloc or free, waits for the mutex or leaves  *)
(* the allocator only without the mutex: no thread waits for itself.  The  *)
(* one exception is the malloc that mmap refuses.                          *)
MutexDiscipline ==
  \A t \in Threads :
    /\ at[t] \in Critical => mutex = t
    /\ mutex = t /\ ~left => at[t] \in Critical

(* Every call comes back, also when other threads compete for the mutex    *)
(* and whatever nests in it; unless the program ends or a refused mmap has *)
(* left the mutex locked.                                                  *)
CallsReturn ==
  \A t \in Threads :
    at[t] # "out" ~> (at[t] = "out" \/ status # "running" \/ left)

(* A refused mmap stops all threads for good: from then on no thread gets  *)
(* into a critical section again, and the owner is not one that will leave *)
(* one.                                                                    *)
RefusalIsFinal ==
  left => mutex # Nobody /\ \A t \in Threads : at[t] \notin Critical
=============================================================================
