------------------------------ MODULE Contents ------------------------------
(***************************************************************************)
(* What calloc and realloc leave in the block they return, byte by byte:   *)
(* the loops of ft_memset, ft_memmove and ft_memcpy, on the sizes that     *)
(* Requests derives from what the client asked for.                        *)
(*                                                                         *)
(* Where the blocks lie is left open: the lists of the pool may place a    *)
(* new block over an old one (MemPoolInv!BlocksMapped fails), and realloc  *)
(* copies a block it has shrunk onto itself.                               *)
(***************************************************************************)
EXTENDS Requests

CONSTANTS
  Capacities,  \* the capacities of the block passed to realloc
  Places       \* the addresses of blocks

ASSUME ContentsAssumption ==
  /\ Capacities \subseteq Nat \ {0}
  /\ Places \subseteq Nat
  /\ \A p \in Places, c \in Capacities : p + c <= Word

VARIABLES
  mem,   \* the byte at each address
  work   \* the loop that is running, or has run
         \* call: of calloc or of realloc; dst, src, len: its arguments;
         \* left: the bytes still to do; cap: of realloc's old block

contentsVars == <<reply, mem, work>>

Addresses == 0..(Word - 1)

(* Every byte is different at first, so that each can be told from all     *)
(* others wherever it is copied, and none is ZeroByte.                     *)
ZeroByte == -1

Before == [a \in Addresses |-> a]

NoWork == [call |-> "none", dst |-> 0, src |-> 0, len |-> 0, left |-> 0, cap |-> 0]

Running(call, dst, src, len, cap) ==
  [call |-> call, dst |-> dst, src |-> src, len |-> len, left |-> len, cap |-> cap]

-----------------------------------------------------------------------------
(* Mutant: the whole of the old block is copied, whatever the new size.    *)
WholeOldBlock(size, capacity) == capacity

(* realloc's data_size.                                                    *)
DataSize(size, capacity) == IF size > capacity THEN capacity ELSE size

(* The block stays where it is: it shrinks within its zone type, and the   *)
(* size that rounding wraps to 0 shrinks it as well.                       *)
ShrinksInPlace(size, capacity) ==
  SetZoneType(capacity) = SetZoneType(size) /\ size < capacity

AskMalloc ==
  /\ \E size \in 0..(Word - 1) : Malloc(size)
  /\ UNCHANGED <<mem, work>>

(* calloc sets the bytes that it asked malloc for, not the block's.        *)
AskCalloc ==
  \E count, size \in 0..(Word - 1), dst \in Places :
    /\ Calloc(count, size)
    /\ work' = IF reply'.kind = "block"
               THEN Running("calloc", dst, 0, Wrap(count * size), 0)
               ELSE work
    /\ UNCHANGED mem

(* realloc of a block of another capacity than the one asked for.  The     *)
(* block that has been shrunk is freed as well before it is returned.      *)
AskRealloc ==
  \E size \in 1..(Word - 1), cap \in Capacities, src, dst \in Places :
    LET rounded == RoundUpWord(size)
    IN  /\ rounded # cap
        /\ IF ShrinksInPlace(rounded, cap)
           THEN /\ reply' = [kind |-> "freed", asked |-> size, size |-> cap,
                             mapped |-> 0]
                /\ work' = Running("realloc", src, src, DataSize(rounded, cap), cap)
           ELSE /\ reply' = MallocReply(rounded, size)
                /\ work' = IF reply'.kind = "block"
                           THEN Running("realloc", dst, src,
                                        DataSize(rounded, cap), cap)
                           ELSE work
        /\ UNCHANGED mem

(* Mutant: ft_memmove always copies forwards.                              *)
OffsetForwards == work.len - work.left

(* The byte that comes next: ft_memset and ft_memcpy go up, ft_memmove     *)
(* comes down when it moves a block up.                                    *)
Offset ==
  IF work.call = "realloc" /\ work.dst > work.src
  THEN work.left - 1
  ELSE work.len - work.left

(* An address beyond the last ends the process: the loop goes no further.  *)
NextByte ==
  /\ work.left > 0
  /\ {work.dst + Offset, work.src + Offset} \subseteq Addresses
  /\ mem' = [mem EXCEPT ![work.dst + Offset] =
               IF work.call = "calloc" THEN ZeroByte ELSE mem[work.src + Offset]]
  /\ work' = [work EXCEPT !.left = @ - 1]
  /\ UNCHANGED reply

ContentsInit == Init /\ mem = Before /\ work = NoWork

ContentsNext ==
  \/ reply = None /\ (AskMalloc \/ AskCalloc \/ AskRealloc)
  \/ NextByte

ContentsSpec == ContentsInit /\ [][ContentsNext]_contentsVars

-----------------------------------------------------------------------------
(* Properties                                                              *)

Done(call) == work.call = call /\ work.left = 0

(* calloc: as many bytes as the client asked for are zero, counted without *)
(* a wrap, and no byte is changed outside the block it has been given.     *)
CallocZeroes ==
  Done("calloc") =>
    /\ \A k \in 0..(reply.asked - 1) : mem[work.dst + k] = ZeroByte
    /\ \A a \in Addresses \ (work.dst..(work.dst + reply.size - 1)) :
         mem[a] = Before[a]

(* realloc: the new block starts with what the old one held, as much of it *)
(* as both have room for, wherever the two lie and even if they overlap;   *)
(* no byte is changed outside the new block.                               *)
ReallocKeepsContents ==
  Done("realloc") =>
    /\ \A k \in 0..(work.cap - 1) :
         k < reply.asked /\ k < reply.size =>
           mem[work.dst + k] = Before[work.src + k]
    /\ \A a \in Addresses \ (work.dst..(work.dst + reply.size - 1)) :
         mem[a] = Before[a]
=============================================================================
