--------------------------- MODULE ContentsProofs ---------------------------
(***************************************************************************)
(* The size of a request in machine words, and what calloc and realloc     *)
(* leave in a block: for every word, page and header size and wherever the *)
(* blocks lie.                                                             *)
(***************************************************************************)
EXTENDS Contents, AllocListProofs

(* Wrapping leaves a number below Word alone and takes Word off one that   *)
(* is less than twice as large.                                            *)
LEMMA WrapValue ==
  ASSUME NEW x \in Nat
  PROVE  /\ Wrap(x) \in 0..(Word - 1)
         /\ Wrap(x) <= x
         /\ x < Word => Wrap(x) = x
         /\ Word <= x /\ x < 2 * Word => Wrap(x) = x - Word
  BY RequestsAssumption DEF Wrap

(* Masking gives the largest multiple of unit that is not above x.         *)
LEMMA MaskValue ==
  ASSUME NEW x \in Nat, NEW unit \in Nat \ {0}
  PROVE  /\ Mask(x, unit) = unit * (x \div unit)
         /\ Mask(x, unit) \in Nat
         /\ Mask(x, unit) <= x
         /\ x < Mask(x, unit) + unit
         /\ x < unit => Mask(x, unit) = 0
  <1>1. /\ x % unit \in 0..(unit - 1)
        /\ x = unit * (x \div unit) + (x % unit)
        /\ x \div unit \in Nat
    OBVIOUS
  <1>2. unit * (x \div unit) \in Nat  BY DivBounds
  <1>3. x < unit => x % unit = x  OBVIOUS
  <1>. QED  BY <1>1, <1>2, <1>3 DEF Mask

(* A whole number of units makes up a word.                                *)
LEMMA UnitsFitWord == Align <= Word /\ Page <= Word
  BY SizesAssumption, RequestsAssumption

(* Rounding either keeps the size or, when it wraps, gives 0.              *)
LEMMA RoundUpWordValue ==
  ASSUME NEW size \in 0..(Word - 1)
  PROVE  /\ RoundUpWord(size) \in Nat
         /\ RoundUpWord(size) # 0 => /\ RoundUpWord(size) >= size
                                     /\ RoundUpWord(size) = RoundUp(size)
  <1>1. size + Align - 1 \in Nat  BY SizesAssumption, RequestsAssumption
  <1>2. Wrap(size + Align - 1) \in Nat
    BY <1>1, WrapValue, RequestsAssumption
  <1>3. RoundUpWord(size) \in Nat
    BY <1>2, MaskValue, SizesAssumption DEF RoundUpWord
  <1>4. CASE size + Align - 1 < Word
    <2>1. Wrap(size + Align - 1) = size + Align - 1  BY <1>1, <1>4, WrapValue
    <2>2. RoundUpWord(size) = RoundUp(size)
      BY <1>1, <2>1, MaskValue, SizesAssumption DEF RoundUpWord, RoundUp
    <2>. QED  BY <1>3, <2>2, RoundUpBounds, RequestsAssumption
  <1>5. CASE Word <= size + Align - 1
    <2>1. Wrap(size + Align - 1) = size + Align - 1 - Word
      BY <1>1, <1>5, WrapValue, UnitsFitWord, SizesAssumption, RequestsAssumption
    <2>2. size + Align - 1 - Word \in Nat /\ size + Align - 1 - Word < Align
      BY <1>1, <1>5, SizesAssumption, RequestsAssumption
    <2>3. RoundUpWord(size) = 0
      BY <2>1, <2>2, MaskValue, SizesAssumption DEF RoundUpWord
    <2>. QED  BY <1>3, <2>3
  <1>. QED  BY <1>1, <1>4, <1>5, RequestsAssumption

LEMMA RoundUpWordIsWord ==
  ASSUME NEW size \in 0..(Word - 1)
  PROVE  RoundUpWord(size) \in 0..(Word - 1)
  <1>1. size + Align - 1 \in Nat
    BY SizesAssumption, RequestsAssumption
  <1>2. Wrap(size + Align - 1) \in 0..(Word - 1)
    BY <1>1, WrapValue
  <1> DEFINE x == Wrap(size + Align - 1)
  <1>3. x \in Nat /\ x < Word /\ Align \in Nat \ {0}
    BY <1>2, RequestsAssumption, SizesAssumption
  <1> HIDE DEF x
  <1>4. Mask(x, Align) \in Nat /\ Mask(x, Align) <= x
    BY <1>3, MaskValue
  <1>5. RoundUpWord(size) = Mask(x, Align)
    BY DEF RoundUpWord, x
  <1> QED BY <1>3, <1>4, <1>5, RequestsAssumption

LEMMA RoundUpWordOfZero == RoundUpWord(0) = 0
  <1>1. Align - 1 \in Nat /\ Align - 1 < Word /\ 0 + Align - 1 = Align - 1
    BY UnitsFitWord, SizesAssumption, RequestsAssumption
  <1>2. Wrap(Align - 1) = Align - 1
    BY <1>1, WrapValue
  <1> QED BY <1>1, <1>2, MaskValue, SizesAssumption DEF RoundUpWord

(* Rounding a rounded size again changes nothing: realloc rounds before it *)
(* calls malloc, which rounds as well.                                     *)
LEMMA RoundUpWordTwice ==
  ASSUME NEW size \in 0..(Word - 1), RoundUpWord(size) # 0
  PROVE  RoundUpWord(RoundUpWord(size)) = RoundUpWord(size)
  <1> DEFINE q == (size + Align - 1) \div Align
             r == Align * q
  <1>1. q \in Nat /\ r \in Nat
    <2>1. size + Align - 1 \in Nat  BY SizesAssumption, RequestsAssumption
    <2>. QED  BY <2>1, DivBounds, SizesAssumption
  <1>2. RoundUpWord(size) = r /\ r \in 0..(Word - 1)
    BY RoundUpWordValue, RoundUpWordIsWord DEF RoundUp
  <1>3. r + Align - 1 < Word
    <2>1. PICK w \in Nat : Word = Align * w
      BY RequestsAssumption, SizesAssumption
    <2> HIDE DEF q
    <2>2. q < w
      <3> SUFFICES ASSUME q >= w PROVE FALSE
        BY <1>1, <2>1
      <3>1. PICK d \in Nat : q = w + d
        <4>1. q - w \in Nat /\ q = w + (q - w)  BY <1>1
        <4>. QED  BY <4>1
      <3>2. Align * q = Align * w + Align * d /\ Align * d \in Nat
        BY <2>1, <3>1, SizesAssumption
      <3>. QED  BY <1>2, <2>1, <3>2, RequestsAssumption
    <2>3. PICK d \in Nat : w = q + 1 + d
      <3>1. w - q - 1 \in Nat /\ w = q + 1 + (w - q - 1)  BY <1>1, <2>2
      <3>. QED  BY <3>1
    <2>4. Align * w = Align * q + Align + Align * d /\ Align * d \in Nat
      BY <1>1, <2>3, SizesAssumption
    <2>. QED  BY <1>1, <2>1, <2>4, SizesAssumption, RequestsAssumption
  <1>4. r + Align - 1 \in Nat /\ Wrap(r + Align - 1) = r + Align - 1
    <2> HIDE DEF r
    <2>1. r + Align - 1 \in Nat  BY <1>1, SizesAssumption
    <2>. QED  BY <1>3, <2>1, WrapValue
  <1>5. (r + Align - 1) \div Align = q
    <2>1. Align - 1 \in Nat /\ Align - 1 < Align  BY SizesAssumption
    <2>2. (Align * q + (Align - 1)) \div Align = q
      BY <1>1, <2>1, DivOfMultiple, SizesAssumption
    <2>3. Align * q + (Align - 1) = r + Align - 1
      BY <1>1, SizesAssumption
    <2>. QED  BY <2>2, <2>3
  <1>6. RoundUpWord(r) = Mask(Wrap(r + Align - 1), Align)  BY DEF RoundUpWord
  <1>7. Mask(r + Align - 1, Align) = Align * ((r + Align - 1) \div Align)
    BY <1>4, MaskValue, SizesAssumption
  <1>. QED  BY <1>2, <1>4, <1>5, <1>6, <1>7

-----------------------------------------------------------------------------
(* calloc's test lets a product through only if it has not overflowed.     *)
LEMMA KeepsSizeExact ==
  ASSUME NEW count \in Nat \ {0}, NEW size \in Nat, KeepsSize(count, size)
  PROVE  Wrap(count * size) = count * size
  <1>1. count * size \in Nat  OBVIOUS
  <1>2. Wrap(count * size) \in Nat /\ Wrap(count * size) <= count * size
    BY <1>1, WrapValue, RequestsAssumption
  <1>3. count * (Wrap(count * size) \div count) <= Wrap(count * size)
    BY <1>2, DivBounds
  <1>. QED  BY <1>1, <1>2, <1>3 DEF KeepsSize

(* What malloc replies when it returns a block.                            *)
LEMMA MallocBlock ==
  ASSUME NEW size, NEW asked, MallocReply(size, asked).kind = "block"
  PROVE  /\ RoundUpWord(size) # 0
         /\ MallocReply(size, asked) =
              [kind |-> "block", asked |-> asked, size |-> RoundUpWord(size),
               mapped |-> ZoneMemSizeWord(RoundUpWord(size),
                                          SetZoneType(RoundUpWord(size)))]
  BY DEF MallocReply, Failed

(* A block comes from malloc with what was asked for, also by calloc,      *)
(* whose product has not wrapped then, and by realloc.                     *)
LEMMA BlockComesFromMalloc ==
  ASSUME ContentsNext, reply' # reply, reply'.kind = "block"
  PROVE  \E size \in 0..(Word - 1) :
           /\ RoundUpWord(size) # 0
           /\ reply' = [kind |-> "block", asked |-> size,
                        size |-> RoundUpWord(size),
                        mapped |-> ZoneMemSizeWord(RoundUpWord(size),
                                     SetZoneType(RoundUpWord(size)))]
  <1> DEFINE Comes(size) ==
        /\ RoundUpWord(size) # 0
        /\ reply' = [kind |-> "block", asked |-> size,
                     size |-> RoundUpWord(size),
                     mapped |-> ZoneMemSizeWord(RoundUpWord(size),
                                  SetZoneType(RoundUpWord(size)))]
  <1>1. ASSUME NEW size \in 0..(Word - 1), reply' = MallocReply(size, size)
        PROVE  Comes(size)
    BY <1>1, MallocBlock
  <1>2. ASSUME AskMalloc PROVE \E size \in 0..(Word - 1) : Comes(size)
    <2> HIDE DEF Comes
    <2>. QED  BY <1>1, <1>2 DEF AskMalloc, Malloc
  <1>3. ASSUME AskCalloc PROVE \E size \in 0..(Word - 1) : Comes(size)
    <2>1. PICK count \in 0..(Word - 1), size \in 0..(Word - 1) : Calloc(count, size)
      BY <1>3 DEF AskCalloc
    <2>2. count # 0 /\ KeepsSize(count, size)
          /\ reply' = MallocReply(Wrap(count * size), count * size)
      BY <2>1 DEF Calloc, Failed
    <2>3. count \in Nat \ {0} /\ size \in Nat  BY <2>1, <2>2, RequestsAssumption
    <2>4. Wrap(count * size) = count * size  BY <2>2, <2>3, KeepsSizeExact
    <2>5. count * size \in Nat  BY <2>3
    <2>6. count * size \in 0..(Word - 1)  BY <2>4, <2>5, WrapValue
    <2> HIDE DEF Comes
    <2>. QED  BY <1>1, <2>2, <2>4, <2>6
  <1>4. ASSUME AskRealloc PROVE \E size \in 0..(Word - 1) : Comes(size)
    <2>1. PICK size \in 1..(Word - 1) :
            \/ reply'.kind = "freed"
            \/ reply' = MallocReply(RoundUpWord(size), size)
      BY <1>4 DEF AskRealloc
    <2>2. size \in 0..(Word - 1)  BY <2>1, RequestsAssumption
    <2>3. reply' = MallocReply(RoundUpWord(size), size)  BY <2>1
    <2>4. /\ RoundUpWord(RoundUpWord(size)) # 0
          /\ reply' = [kind |-> "block", asked |-> size,
                       size |-> RoundUpWord(RoundUpWord(size)),
                       mapped |-> ZoneMemSizeWord(RoundUpWord(RoundUpWord(size)),
                                    SetZoneType(RoundUpWord(RoundUpWord(size))))]
      BY <2>3, MallocBlock
    <2>5. RoundUpWord(size) # 0  BY <2>4, RoundUpWordOfZero
    <2>6. Comes(size)  BY <2>2, <2>4, <2>5, RoundUpWordTwice
    <2> HIDE DEF Comes
    <2>. QED  BY <2>2, <2>6
  <1>5. ~NextByte  BY DEF NextByte
  <1> HIDE DEF Comes
  <1>6. \E size \in 0..(Word - 1) : Comes(size)
    BY <1>2, <1>3, <1>4, <1>5 DEF ContentsNext
  <1>. QED  BY <1>6 DEF Comes

-----------------------------------------------------------------------------
(* Below the limit the length of a zone does not wrap.                     *)
LEMMA LengthBelowWrap ==
  ASSUME NEW size \in Nat, size + Overhead < Word
  PROVE  ZoneMemSizeWord(size, SetZoneType(size))
           = ZoneMemSize(size, SetZoneType(size))
  <1>1. ASSUME NEW x \in Nat, x < Word
        PROVE  Mask(Wrap(x), Page) = Page * (x \div Page)
    BY <1>1, WrapValue, MaskValue, SizesAssumption
  <1>2. ASSUME NEW n \in Nat \ {0}, n <= SmallZone,
               size <= (n * Page - ZoneHdr \div 100) - AllocHdr
        PROVE  n * Page + size + ZoneHdr \in Nat
               /\ n * Page + size + ZoneHdr < Word
    <2>1. n * Page \in Nat /\ SmallZone * Page \in Nat
          /\ n * Page <= SmallZone * Page
      BY <1>2, SizesAssumption
    <2>2. ZoneHdr \div 100 \in Nat  BY SizesAssumption
    <2>3. 2 * SmallZone * Page = 2 * (SmallZone * Page)  BY SizesAssumption
    <2>. QED  BY <1>2, <2>1, <2>2, <2>3, SizesAssumption, RequestsAssumption
  <1>3. CASE size <= TinyZoneMaxSize
    BY <1>1, <1>2, <1>3, SizesAssumption
       DEF TinyZoneMaxSize, SetZoneType, ZoneMemSize, ZoneMemSizeWord
  <1>4. CASE ~(size <= TinyZoneMaxSize) /\ size <= SmallZoneMaxSize
    BY <1>1, <1>2, <1>4, SizesAssumption
       DEF SmallZoneMaxSize, SetZoneType, ZoneMemSize, ZoneMemSizeWord
  <1>5. CASE ~(size <= TinyZoneMaxSize) /\ ~(size <= SmallZoneMaxSize)
    <2>1. size + AllocHdr + ZoneHdr + Page - 1 \in Nat
          /\ size + AllocHdr + ZoneHdr + Page - 1 < Word
      BY SizesAssumption, RequestsAssumption DEF Overhead
    <2>. QED  BY <1>1, <1>5, <2>1
                 DEF SetZoneType, ZoneMemSize, ZoneMemSizeWord
  <1>. QED  BY <1>3, <1>4, <1>5

(* A zone mapped for a block has room for it, if the pages of a tiny zone  *)
(* are two at least.                                                       *)
LEMMA ZoneHoldsRequest ==
  ASSUME NEW size \in Nat, TinyZone > 1
  PROVE  ZoneMemSize(size, SetZoneType(size)) >= ZoneHdr + AllocHdr + size
  <1>1. ASSUME NEW n \in Nat, n > 1
        PROVE  Page * ((n * Page + size + ZoneHdr) \div Page)
                 >= ZoneHdr + AllocHdr + size
    <2>1. n * Page \in Nat /\ n * Page >= 2 * Page
      BY <1>1, SizesAssumption
    <2>2. n * Page + size + ZoneHdr \in Nat  BY <2>1, SizesAssumption
    <2>. QED  BY <2>1, <2>2, DivBounds, SizesAssumption
  <1>2. SetZoneType(size) = "large" =>
          ZoneMemSize(size, SetZoneType(size)) >= size + AllocHdr + ZoneHdr
    BY ZoneTypeIsType, ZoneMemSizeBounds
  <1>3. CASE SetZoneType(size) = "tiny"
    BY <1>1, <1>3, SizesAssumption DEF ZoneMemSize
  <1>4. CASE SetZoneType(size) = "small"
    BY <1>1, <1>4, SizesAssumption DEF ZoneMemSize
  <1>5. CASE SetZoneType(size) = "large"  BY <1>2, <1>5, SizesAssumption
  <1>. QED  BY <1>3, <1>4, <1>5, ZoneTypeIsType DEF ZoneTypes

-----------------------------------------------------------------------------
(* A property of the one reply of a behaviour holds if it holds of every   *)
(* block that is returned.                                                 *)

(* A block that malloc, calloc or realloc returns is no shorter than what  *)
(* was asked for: the overflow test of calloc and the rounding of malloc   *)
(* let nothing through that has wrapped.                                   *)
THEOREM NeverShortCorrect == ContentsSpec => []NeverShort
  <1>1. ContentsInit => NeverShort
    BY DEF ContentsInit, Init, None, NeverShort
  <1>2. NeverShort /\ [ContentsNext]_contentsVars => NeverShort'
    <2>. SUFFICES ASSUME NeverShort, [ContentsNext]_contentsVars
                  PROVE  NeverShort'
      OBVIOUS
    <2>1. CASE reply' = reply  BY <2>1 DEF NeverShort
    <2>2. ASSUME ContentsNext, reply' # reply, reply'.kind = "block"
          PROVE  reply'.size >= reply'.asked
      <3>1. PICK size \in 0..(Word - 1) :
              /\ RoundUpWord(size) # 0
              /\ reply'.asked = size /\ reply'.size = RoundUpWord(size)
        BY <2>2, BlockComesFromMalloc
      <3>. QED  BY <3>1, RoundUpWordValue
    <2>. QED  BY <2>1, <2>2 DEF NeverShort, contentsVars
  <1>. QED  BY <1>1, <1>2, PTL DEF ContentsSpec

(* A zone is mapped with room for the block it is mapped for and the two   *)
(* headers, as long as the sum of the three and a page fits in a word.     *)
THEOREM ZoneHoldsBlockCorrect ==
  ASSUME TinyZone > 1
  PROVE  ContentsSpec => []ZoneHoldsBlockBelowWrap
  <1>1. ContentsInit => ZoneHoldsBlockBelowWrap
    BY DEF ContentsInit, Init, None, ZoneHoldsBlockBelowWrap, ZoneHoldsBlock
  <1>2. ZoneHoldsBlockBelowWrap /\ [ContentsNext]_contentsVars
        => ZoneHoldsBlockBelowWrap'
    <2>. SUFFICES ASSUME ZoneHoldsBlockBelowWrap, [ContentsNext]_contentsVars
                  PROVE  ZoneHoldsBlockBelowWrap'
      OBVIOUS
    <2>1. CASE reply' = reply
      BY <2>1 DEF ZoneHoldsBlockBelowWrap, ZoneHoldsBlock
    <2>2. ASSUME ContentsNext, reply' # reply, reply'.kind = "block",
                 reply'.size + Overhead < Word
          PROVE  reply'.mapped >= ZoneHdr + AllocHdr + reply'.size
      <3>1. PICK size \in 0..(Word - 1) :
              /\ reply'.size = RoundUpWord(size)
              /\ reply'.mapped = ZoneMemSizeWord(RoundUpWord(size),
                                   SetZoneType(RoundUpWord(size)))
        BY <2>2, BlockComesFromMalloc
      <3>2. RoundUpWord(size) \in Nat  BY RoundUpWordValue
      <3>. QED  BY <2>2, <3>1, <3>2, LengthBelowWrap, ZoneHoldsRequest
    <2>. QED  BY <2>1, <2>2
              DEF ZoneHoldsBlockBelowWrap, ZoneHoldsBlock, Overhead, contentsVars
  <1>. QED  BY <1>1, <1>2, PTL DEF ContentsSpec

(* Below the limit machine words and the numbers that the other modules    *)
(* count with agree on the size of a block and the length of its zone.     *)
THEOREM NumbersSufficeCorrect == ContentsSpec => []NumbersSuffice
  <1>1. ContentsInit => NumbersSuffice
    BY DEF ContentsInit, Init, None, NumbersSuffice
  <1>2. NumbersSuffice /\ [ContentsNext]_contentsVars => NumbersSuffice'
    <2>. SUFFICES ASSUME NumbersSuffice, [ContentsNext]_contentsVars
                  PROVE  NumbersSuffice'
      OBVIOUS
    <2>1. CASE reply' = reply  BY <2>1 DEF NumbersSuffice
    <2>2. ASSUME ContentsNext, reply' # reply, reply'.kind = "block",
                 reply'.asked + Align + Overhead < Word
          PROVE  /\ reply'.size = RoundUp(reply'.asked)
                 /\ reply'.mapped
                      = ZoneMemSize(reply'.size, SetZoneType(reply'.size))
      <3>1. PICK size \in 0..(Word - 1) :
              /\ RoundUpWord(size) # 0
              /\ reply'.asked = size /\ reply'.size = RoundUpWord(size)
              /\ reply'.mapped = ZoneMemSizeWord(RoundUpWord(size),
                                   SetZoneType(RoundUpWord(size)))
        BY <2>2, BlockComesFromMalloc
      <3>2. RoundUpWord(size) \in Nat /\ RoundUpWord(size) = RoundUp(size)
        BY <3>1, RoundUpWordValue
      <3>3. size + Align - 1 \in Nat  BY SizesAssumption, RequestsAssumption
      <3>4. RoundUp(size) <= size + Align - 1
        BY <3>3, DivBounds, SizesAssumption DEF RoundUp
      <3>5. RoundUp(size) + Overhead < Word
        BY <2>2, <3>1, <3>2, <3>4, SizesAssumption, RequestsAssumption
           DEF Overhead
      <3>. QED  BY <3>1, <3>2, <3>5, LengthBelowWrap
    <2>. QED  BY <2>1, <2>2 DEF NumbersSuffice, Overhead, contentsVars
  <1>. QED  BY <1>1, <1>2, PTL DEF ContentsSpec

-----------------------------------------------------------------------------
(* The loops                                                               *)

(* ft_memmove comes down, and the offsets that are done are these.         *)
Down == work.call = "realloc" /\ work.dst > work.src

DoneFrom == IF Down THEN work.left ELSE 0

DoneTo == IF Down THEN work.len ELSE work.len - work.left

Result(k) == IF work.call = "calloc" THEN ZeroByte ELSE Before[work.src + k]

WorkOK ==
  /\ mem \in [Addresses -> Int]
  /\ work.call \in {"none", "calloc", "realloc"}
  /\ work.dst \in Nat /\ work.src \in Nat
  /\ work.len \in Nat /\ work.left \in 0..work.len
  /\ work.call = "none" => work.left = 0

(* What is done has its result, and everything else is as before.          *)
LoopInv ==
  /\ \A k \in Nat :
       DoneFrom <= k /\ k < DoneTo =>
         work.dst + k \in Addresses /\ mem[work.dst + k] = Result(k)
  /\ \A a \in Addresses :
       a < work.dst + DoneFrom \/ work.dst + DoneTo <= a => mem[a] = Before[a]

(* How long the loop is, compared with the block that is returned.         *)
CallocLen == work.len = reply.asked /\ reply.size \in Nat /\ work.len <= reply.size

ReallocLen ==
  /\ work.cap \in Nat /\ reply.asked \in Nat /\ reply.size \in Nat
  /\ work.len <= reply.size
  /\ \A k \in Nat : k < work.cap /\ k < reply.asked /\ k < reply.size =>
       \/ k < work.len
       \/ work.dst = work.src /\ work.src + k \in Addresses

LenInv ==
  /\ work.call = "calloc" => CallocLen
  /\ work.call = "realloc" => ReallocLen

StartInv == reply = None => mem = Before /\ work.call = "none"

ContentsInv == WorkOK /\ LoopInv /\ LenInv

-----------------------------------------------------------------------------
(* Every block malloc returns has as many bytes as it was called with.     *)
LEMMA BlockIsRounded ==
  ASSUME NEW size \in 0..(Word - 1), NEW asked,
         MallocReply(size, asked).kind = "block"
  PROVE  /\ MallocReply(size, asked).asked = asked
         /\ MallocReply(size, asked).size \in Nat
         /\ MallocReply(size, asked).size >= size
         /\ size # 0
  <1>1. /\ RoundUpWord(size) # 0
        /\ MallocReply(size, asked).asked = asked
        /\ MallocReply(size, asked).size = RoundUpWord(size)
    BY DEF MallocReply, Failed
  <1> QED BY <1>1, RoundUpWordValue, RoundUpWordOfZero

-----------------------------------------------------------------------------
LEMMA StartKeeps ==
  ASSUME ContentsInv, mem = Before, mem' = mem,
         NEW call \in {"calloc", "realloc"}, NEW dst \in Nat, NEW src \in Nat,
         NEW len \in Nat, NEW cap,
         work' = Running(call, dst, src, len, cap)
  PROVE  WorkOK' /\ LoopInv'
  <1>1. /\ work'.call = call /\ work'.dst = dst /\ work'.src = src
        /\ work'.len = len /\ work'.left = len
    BY DEF Running
  <1>2. WorkOK'
    BY <1>1 DEF ContentsInv, WorkOK
  <1>3. LoopInv'
    <2>1. \A k \in Nat : ~(DoneFrom' <= k /\ k < DoneTo')
      BY <1>1 DEF DoneFrom, DoneTo, Down
    <2>2. \A a \in Addresses : mem'[a] = Before[a]
      OBVIOUS
    <2> QED BY <2>1, <2>2 DEF LoopInv, Before
  <1> QED BY <1>2, <1>3

LEMMA CallocKeeps ==
  ASSUME ContentsInv, mem = Before, work.call = "none", AskCalloc
  PROVE  ContentsInv'
  <1>1. PICK count \in 0..(Word - 1), size \in 0..(Word - 1), dst \in Places :
          /\ Calloc(count, size)
          /\ work' = IF reply'.kind = "block"
                     THEN Running("calloc", dst, 0, Wrap(count * size), 0)
                     ELSE work
          /\ mem' = mem
    BY DEF AskCalloc
  <1>2. CASE reply'.kind = "block"
    <2>1. /\ count # 0 /\ KeepsSize(count, size)
          /\ reply' = MallocReply(Wrap(count * size), count * size)
      BY <1>1, <1>2 DEF Calloc, Failed
    <2>2. count \in Nat \ {0} /\ size \in Nat /\ count * size \in Nat
      BY <2>1, RequestsAssumption
    <2>3. Wrap(count * size) = count * size
          /\ Wrap(count * size) \in 0..(Word - 1)
      BY <2>1, <2>2, KeepsSizeExact, WrapValue
    <2> DEFINE len == Wrap(count * size)
    <2>4. len \in Nat /\ dst \in Nat /\ 0 \in Nat
      BY <2>2, <2>3, ContentsAssumption
    <2>5. /\ reply'.asked = len /\ reply'.size \in Nat /\ reply'.size >= len
      BY <1>2, <2>1, <2>3, BlockIsRounded
    <2>6. work' = Running("calloc", dst, 0, len, 0)
      BY <1>1, <1>2
    <2> HIDE DEF len
    <2>7. WorkOK' /\ LoopInv'
      BY <1>1, <2>4, <2>6, StartKeeps
    <2>8. work'.call = "calloc" /\ work'.len = len
      BY <2>6 DEF Running
    <2>9. LenInv'
      BY <2>4, <2>5, <2>8 DEF LenInv, CallocLen
    <2> QED BY <2>7, <2>9 DEF ContentsInv
  <1>3. CASE reply'.kind # "block"
    <2>1. work' = work /\ mem' = mem
      BY <1>1, <1>3
    <2>2. WorkOK' /\ LoopInv'
      BY <2>1 DEF ContentsInv, WorkOK, LoopInv, DoneFrom, DoneTo, Down, Result
    <2>3. LenInv'
      BY <2>1 DEF LenInv
    <2> QED BY <2>2, <2>3 DEF ContentsInv
  <1> QED BY <1>2, <1>3

LEMMA ReallocKeeps ==
  ASSUME ContentsInv, mem = Before, work.call = "none", AskRealloc
  PROVE  ContentsInv'
  <1>1. PICK size \in 1..(Word - 1), cap \in Capacities, src \in Places,
             dst \in Places :
          LET rounded == RoundUpWord(size)
          IN  IF ShrinksInPlace(rounded, cap)
              THEN /\ reply' = [kind |-> "freed", asked |-> size, size |-> cap,
                                mapped |-> 0]
                   /\ work' = Running("realloc", src, src,
                                      DataSize(rounded, cap), cap)
                   /\ mem' = mem
              ELSE /\ reply' = MallocReply(rounded, size)
                   /\ work' = IF reply'.kind = "block"
                              THEN Running("realloc", dst, src,
                                           DataSize(rounded, cap), cap)
                              ELSE work
                   /\ mem' = mem
    BY DEF AskRealloc
  <1> DEFINE rounded == RoundUpWord(size)
             len == DataSize(rounded, cap)
  <1>2. /\ rounded \in 0..(Word - 1) /\ rounded \in Nat
        /\ rounded # 0 => rounded >= size
        /\ size \in Nat /\ cap \in Nat /\ src \in Nat /\ dst \in Nat
        /\ src + cap <= Word
    BY RoundUpWordIsWord, RoundUpWordValue, ContentsAssumption, RequestsAssumption
  <1>3. len \in Nat /\ len <= cap /\ len <= rounded
        /\ (len = rounded \/ len = cap)
    BY <1>2 DEF DataSize
  <1>4. mem' = mem
    BY <1>1
  <1>5. CASE ShrinksInPlace(rounded, cap)
    <2>1. /\ reply' = [kind |-> "freed", asked |-> size, size |-> cap, mapped |-> 0]
          /\ work' = Running("realloc", src, src, len, cap)
      BY <1>1, <1>5
    <2> HIDE DEF rounded, len
    <2>2. WorkOK' /\ LoopInv'
      BY <1>2, <1>3, <1>4, <2>1, StartKeeps
    <2>3. /\ work'.call = "realloc" /\ work'.len = len /\ work'.cap = cap
          /\ work'.dst = src /\ work'.src = src
          /\ reply'.asked = size /\ reply'.size = cap
      BY <2>1 DEF Running
    <2>4. \A k \in Nat : k < cap => src + k \in Addresses
      BY <1>2, RequestsAssumption DEF Addresses
    <2>5. LenInv'
      BY <1>2, <1>3, <2>3, <2>4 DEF LenInv, ReallocLen
    <2> QED BY <2>2, <2>5 DEF ContentsInv
  <1>6. CASE ~ShrinksInPlace(rounded, cap) /\ reply'.kind = "block"
    <2>1. /\ reply' = MallocReply(rounded, size)
          /\ work' = Running("realloc", dst, src, len, cap)
      BY <1>1, <1>6
    <2>2. /\ reply'.asked = size /\ reply'.size \in Nat
          /\ reply'.size >= rounded /\ rounded # 0
      BY <1>2, <1>6, <2>1, BlockIsRounded
    <2> HIDE DEF rounded, len
    <2>3. WorkOK' /\ LoopInv'
      BY <1>2, <1>3, <1>4, <2>1, StartKeeps
    <2>4. work'.call = "realloc" /\ work'.len = len /\ work'.cap = cap
      BY <2>1 DEF Running
    <2>5. LenInv'
      BY <1>2, <1>3, <2>2, <2>4 DEF LenInv, ReallocLen
    <2> QED BY <2>3, <2>5 DEF ContentsInv
  <1>7. CASE ~ShrinksInPlace(rounded, cap) /\ reply'.kind # "block"
    <2>1. work' = work
      BY <1>1, <1>7
    <2>2. WorkOK' /\ LoopInv'
      BY <1>4, <2>1
         DEF ContentsInv, WorkOK, LoopInv, DoneFrom, DoneTo, Down, Result
    <2>3. LenInv'
      BY <2>1 DEF LenInv
    <2> QED BY <2>2, <2>3 DEF ContentsInv
  <1> QED BY <1>5, <1>6, <1>7

(* One byte more is done, and the byte it is taken from was as before.     *)
LEMMA ByteKeeps ==
  ASSUME ContentsInv, NextByte
  PROVE  ContentsInv'
  <1> DEFINE p == work.dst + Offset
             q == work.src + Offset
             byte == IF work.call = "calloc" THEN ZeroByte ELSE mem[q]
  <1>1. /\ work.left > 0 /\ p \in Addresses /\ q \in Addresses
        /\ mem' = [mem EXCEPT ![p] = byte]
        /\ work' = [work EXCEPT !.left = @ - 1] /\ reply' = reply
    BY DEF NextByte
  <1>2. /\ work.dst \in Nat /\ work.src \in Nat /\ work.len \in Nat
        /\ work.left \in Nat /\ work.left <= work.len
        /\ mem \in [Addresses -> Int]
        /\ work.call \in {"none", "calloc", "realloc"}
        /\ work.call # "none"
    BY DEF ContentsInv, WorkOK, NextByte
  <1>3. /\ work'.call = work.call /\ work'.dst = work.dst /\ work'.src = work.src
        /\ work'.len = work.len /\ work'.left = work.left - 1
        /\ work'.cap = work.cap
    BY <1>1, <1>2
  <1>4. Offset = IF Down THEN work.left - 1 ELSE work.len - work.left
    BY DEF Offset, Down
  <1>5. Offset \in Nat /\ p \in Nat /\ q \in Nat
    BY <1>1, <1>2, <1>4
  <1>6. Down' = Down
    BY <1>3 DEF Down
  <1>7. byte = Result(Offset) /\ byte \in Int
    <2>1. CASE work.call = "calloc"
      BY <2>1 DEF Result, ZeroByte
    <2>2. CASE work.call # "calloc"
      <3>1. q < work.dst + DoneFrom \/ work.dst + DoneTo <= q
        <4>1. CASE Down
          BY <1>1, <1>2, <1>4, <4>1 DEF DoneFrom, Down
        <4>2. CASE ~Down /\ work.call = "realloc"
          <5>1. work.dst <= work.src
            BY <1>2, <4>2 DEF Down
          <5> QED BY <1>2, <1>4, <4>2, <5>1 DEF DoneTo
        <4> QED BY <1>2, <2>2, <4>1, <4>2
      <3>2. mem[q] = Before[q]
        BY <1>1, <3>1 DEF ContentsInv, LoopInv
      <3> QED BY <1>1, <1>2, <2>2, <3>2 DEF Result
    <2> QED BY <2>1, <2>2
  <1> HIDE DEF p, q, byte
  <1>8. /\ mem' \in [Addresses -> Int]
        /\ mem'[p] = Result(Offset)
        /\ \A a \in Addresses : a # p => mem'[a] = mem[a]
    BY <1>1, <1>2, <1>7
  <1>9. WorkOK'
    BY <1>1, <1>2, <1>3, <1>8 DEF WorkOK
  <1>10. \A k \in Nat : Result(k)' = Result(k)
    BY <1>3 DEF Result, Before
  <1>11. /\ DoneFrom \in Nat /\ DoneTo \in Nat
         /\ DoneFrom' \in Nat /\ DoneTo' \in Nat
         /\ \A k \in Nat : DoneFrom' <= k /\ k < DoneTo' =>
              k = Offset \/ (DoneFrom <= k /\ k < DoneTo)
         /\ DoneFrom' <= DoneFrom /\ DoneTo <= DoneTo'
         /\ DoneFrom' <= Offset /\ Offset < DoneTo'
    BY <1>1, <1>2, <1>3, <1>4, <1>6 DEF DoneFrom, DoneTo
  <1>12. p = work.dst + Offset
    BY DEF p
  <1>13. LoopInv'
    <2>1. ASSUME NEW k \in Nat, DoneFrom' <= k, k < DoneTo'
          PROVE  work.dst + k \in Addresses /\ mem'[work.dst + k] = Result(k)
      <3>1. CASE k = Offset
        BY <1>1, <1>8, <1>12, <3>1
      <3>2. CASE k # Offset
        <4>1. DoneFrom <= k /\ k < DoneTo
          BY <1>11, <2>1, <3>2
        <4>2. work.dst + k \in Addresses /\ mem[work.dst + k] = Result(k)
          BY <4>1 DEF ContentsInv, LoopInv
        <4>3. work.dst + k # p
          BY <1>2, <1>5, <1>12, <3>2
        <4> QED BY <1>8, <4>2, <4>3
      <3> QED BY <3>1, <3>2
    <2>2. ASSUME NEW a \in Addresses,
                 a < work.dst + DoneFrom' \/ work.dst + DoneTo' <= a
          PROVE  mem'[a] = Before[a]
      <3>1. a \in Nat
        BY RequestsAssumption DEF Addresses
      <3>2. a # p
        BY <1>2, <1>5, <1>11, <1>12, <2>2, <3>1
      <3>3. a < work.dst + DoneFrom \/ work.dst + DoneTo <= a
        BY <1>2, <1>11, <2>2, <3>1
      <3>4. mem[a] = Before[a]
        BY <3>3 DEF ContentsInv, LoopInv
      <3> QED BY <1>8, <3>2, <3>4
    <2> QED BY <1>3, <1>10, <2>1, <2>2 DEF LoopInv
  <1>14. LenInv'
    BY <1>1, <1>3 DEF ContentsInv, LenInv, CallocLen, ReallocLen
  <1> QED BY <1>9, <1>13, <1>14 DEF ContentsInv

-----------------------------------------------------------------------------
LEMMA ReplyIsNotNone ==
  ASSUME NEW size, NEW asked
  PROVE  MallocReply(size, asked).kind # "none"
  BY DEF MallocReply, Failed

LEMMA ContentsInvCorrect == ContentsSpec => [](ContentsInv /\ StartInv)
  <1>1. ContentsInit => ContentsInv /\ StartInv
    <2> SUFFICES ASSUME ContentsInit PROVE ContentsInv /\ StartInv
      OBVIOUS
    <2>1. mem = Before /\ work = NoWork
      BY DEF ContentsInit
    <2>2. /\ work.call = "none" /\ work.dst = 0 /\ work.src = 0
          /\ work.len = 0 /\ work.left = 0
      BY <2>1 DEF NoWork
    <2>3. Before \in [Addresses -> Int]
      BY RequestsAssumption DEF Before, Addresses
    <2>4. WorkOK
      BY <2>1, <2>2, <2>3 DEF WorkOK
    <2>5. LoopInv
      BY <2>1, <2>2 DEF LoopInv, DoneFrom, DoneTo, Down
    <2> QED BY <2>1, <2>2, <2>4, <2>5 DEF ContentsInv, LenInv, StartInv
  <1>2. ASSUME ContentsInv, StartInv, [ContentsNext]_contentsVars
        PROVE  ContentsInv' /\ StartInv'
    <2>1. CASE reply = None /\ AskMalloc
      <3>1. mem' = mem /\ work' = work
        BY <2>1 DEF AskMalloc
      <3>2. WorkOK' /\ LoopInv'
        BY <1>2, <3>1
           DEF ContentsInv, WorkOK, LoopInv, DoneFrom, DoneTo, Down, Result
      <3>3. work.call = "none" /\ mem = Before
        BY <1>2, <2>1 DEF StartInv
      <3> QED BY <3>1, <3>2, <3>3 DEF ContentsInv, LenInv, StartInv
    <2>2. CASE reply = None /\ AskCalloc
      <3>1. ContentsInv'
        BY <1>2, <2>2, CallocKeeps DEF StartInv
      <3>2. reply' # None
        BY <2>2, ReplyIsNotNone DEF AskCalloc, Calloc, Failed, None
      <3> QED BY <3>1, <3>2 DEF StartInv
    <2>3. CASE reply = None /\ AskRealloc
      <3>1. ContentsInv'
        BY <1>2, <2>3, ReallocKeeps DEF StartInv
      <3>2. reply' # None
        BY <2>3, ReplyIsNotNone DEF AskRealloc, None
      <3> QED BY <3>1, <3>2 DEF StartInv
    <2>4. CASE NextByte
      <3>1. ContentsInv'
        BY <1>2, <2>4, ByteKeeps
      <3>2. reply' = reply /\ reply # None
        BY <1>2, <2>4 DEF NextByte, ContentsInv, WorkOK, StartInv
      <3> QED BY <3>1, <3>2 DEF StartInv, None
    <2>5. CASE UNCHANGED contentsVars
      <3>1. mem' = mem /\ work' = work /\ reply' = reply
        BY <2>5 DEF contentsVars
      <3>2. WorkOK' /\ LoopInv'
        BY <1>2, <3>1
           DEF ContentsInv, WorkOK, LoopInv, DoneFrom, DoneTo, Down, Result
      <3>3. LenInv' /\ StartInv'
        BY <1>2, <3>1
           DEF ContentsInv, LenInv, CallocLen, ReallocLen, StartInv, None, Before
      <3> QED BY <3>2, <3>3 DEF ContentsInv
    <2> QED BY <1>2, <2>1, <2>2, <2>3, <2>4, <2>5 DEF ContentsNext
  <1> QED BY <1>1, <1>2, PTL DEF ContentsSpec

(* The block of calloc is zero as far as the client asked for it, for      *)
(* every count and size whose product does not overflow, and nothing       *)
(* outside it has changed.                                                 *)
THEOREM CallocZeroesCorrect == ContentsSpec => []CallocZeroes
  <1>1. ContentsInv => CallocZeroes
    <2> SUFFICES ASSUME ContentsInv, work.call = "calloc", work.left = 0
                 PROVE  /\ \A k \in 0..(reply.asked - 1) :
                             mem[work.dst + k] = ZeroByte
                        /\ \A a \in Addresses \
                               (work.dst..(work.dst + reply.size - 1)) :
                             mem[a] = Before[a]
      BY DEF CallocZeroes, Done
    <2>1. /\ DoneFrom = 0 /\ DoneTo = work.len
          /\ work.dst \in Nat /\ work.len \in Nat
          /\ work.len = reply.asked /\ reply.size \in Nat
          /\ work.len <= reply.size
      BY DEF ContentsInv, DoneFrom, DoneTo, Down, WorkOK, LenInv, CallocLen
    <2>2. \A k \in Nat : k < work.len => mem[work.dst + k] = ZeroByte
      BY <2>1 DEF ContentsInv, LoopInv, Result
    <2>3. \A a \in Addresses :
            a < work.dst \/ work.dst + work.len <= a => mem[a] = Before[a]
      BY <2>1 DEF ContentsInv, LoopInv
    <2>4. \A a \in Addresses : a \in Nat
      BY RequestsAssumption DEF Addresses
    <2> QED BY <2>1, <2>2, <2>3, <2>4
  <1> QED BY <1>1, ContentsInvCorrect, PTL

(* The block realloc returns starts with what the old block held, wherever *)
(* the two lie, and nothing outside it has changed.                        *)
THEOREM ReallocKeepsContentsCorrect == ContentsSpec => []ReallocKeepsContents
  <1>1. ContentsInv => ReallocKeepsContents
    <2> SUFFICES ASSUME ContentsInv, work.call = "realloc", work.left = 0
                 PROVE  /\ \A k \in 0..(work.cap - 1) :
                             k < reply.asked /\ k < reply.size =>
                               mem[work.dst + k] = Before[work.src + k]
                        /\ \A a \in Addresses \
                               (work.dst..(work.dst + reply.size - 1)) :
                             mem[a] = Before[a]
      BY DEF ReallocKeepsContents, Done
    <2>1. /\ DoneFrom = 0 /\ DoneTo = work.len
          /\ work.dst \in Nat /\ work.src \in Nat /\ work.len \in Nat
          /\ work.cap \in Nat
          /\ reply.asked \in Nat /\ reply.size \in Nat
          /\ work.len <= reply.size
      BY DEF ContentsInv, DoneFrom, DoneTo, WorkOK, LenInv, ReallocLen
    <2>2. \A k \in Nat :
            k < work.len => mem[work.dst + k] = Before[work.src + k]
      BY <2>1 DEF ContentsInv, LoopInv, Result
    <2>3. \A a \in Addresses :
            a < work.dst \/ work.dst + work.len <= a => mem[a] = Before[a]
      BY <2>1 DEF ContentsInv, LoopInv
    <2>4. \A a \in Addresses : a \in Nat
      BY RequestsAssumption DEF Addresses
    <2>5. ASSUME NEW k \in Nat, k < work.cap, k < reply.asked, k < reply.size
          PROVE  mem[work.dst + k] = Before[work.src + k]
      <3>1. CASE k < work.len
        BY <2>2, <3>1
      <3>2. CASE ~(k < work.len)
        <4>1. work.dst = work.src /\ work.src + k \in Addresses
          BY <2>5, <3>2 DEF ContentsInv, LenInv, ReallocLen
        <4>2. work.dst + work.len <= work.src + k
          BY <2>1, <3>2, <4>1
        <4> QED BY <2>3, <4>1, <4>2
      <3> QED BY <3>1, <3>2
    <2> QED BY <2>1, <2>3, <2>4, <2>5
  <1> QED BY <1>1, ContentsInvCorrect, PTL
=============================================================================
