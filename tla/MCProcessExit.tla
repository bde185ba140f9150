--------------------------- MODULE MCProcessExit ---------------------------
(* ProcessExit for TLC: slots are interchangeable, and so are threads.     *)
EXTENDS ProcessExit

Symm == Permutations(Slots) \cup Permutations(Threads)
=============================================================================
