------------------------------ MODULE MCMemPool ------------------------------
(* MemPool for TLC: slots are interchangeable, and so are threads.         *)
EXTENDS MemPoolInv

Symm == Permutations(Slots) \cup Permutations(Threads)
=============================================================================
