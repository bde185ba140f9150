--------------------------- MODULE MessagesProofs ---------------------------
(***************************************************************************)
(* Theorems about the texts the allocator writes and the variables that    *)
(* ask for them: for every environment and for all numbers and addresses   *)
(* of 64 bits.                                                             *)
(***************************************************************************)
EXTENDS Messages, TLAPS, FiniteSetTheorems, SequenceTheorems,
        WellFoundedInduction

-----------------------------------------------------------------------------
(* Least numbers, and recursions on an interval                            *)

(* Every set of numbers that has one has a least one.                      *)
LEMMA LeastNumber ==
  ASSUME NEW S \in SUBSET Nat, S # {}
  PROVE  \E n \in S : \A m \in S : n <= m
  <1> DEFINE R == OpToRel(<, Nat)
  <1>1. IsWellFoundedOn(R, Nat)  BY NatLessThanWellFounded
  <1>2. \A m, n \in Nat : <<m, n>> \in R <=> m < n  BY DEF OpToRel
  <1> HIDE DEF R
  <1>3. PICK n \in S : \A m \in S : ~(<<m, n>> \in R)  BY <1>1, WFMin
  <1>4. ASSUME NEW m \in S PROVE n <= m
    <2>1. m \in Nat /\ n \in Nat /\ ~(m < n)  BY <1>2, <1>3
    <2>. QED  BY <2>1
  <1>. QED  BY <1>4

(* The function a recursion over 0..n computes: it begins with base, and   *)
(* G gives each value from the one before.                                 *)
Computes(G, base, n, f) ==
  /\ f = [i \in 0..n |-> f[i]]
  /\ f[0] = base
  /\ \A i \in 1..n : f[i] = G[<<f[i - 1], i>>]

(* There is one, and its values are where those of G are.                  *)
LEMMA RecursionExists ==
  ASSUME NEW S, NEW base \in S, NEW n \in Nat, NEW G \in [S \X (1..n) -> S]
  PROVE  \E f \in [0..n -> S] : Computes(G, base, n, f)
  <1> DEFINE Good(m) == \E f \in [0..m -> S] : Computes(G, base, m, f)
             Bad == {m \in 0..n : ~Good(m)}
  <1>1. Good(0)
    <2> DEFINE f == [i \in 0..0 |-> base]
    <2>1. f \in [0..0 -> S] /\ Computes(G, base, 0, f)  BY DEF Computes
    <2>. QED  BY <2>1
  <1>2. ASSUME NEW m \in 1..n, Good(m - 1) PROVE Good(m)
    <2>1. PICK g \in [0..(m - 1) -> S] : Computes(G, base, m - 1, g)  BY <1>2
    <2> DEFINE v == G[<<g[m - 1], m>>]
               f == [i \in 0..m |-> IF i = m THEN v ELSE g[i]]
    <2>2. v \in S
      <3>1. m - 1 \in 0..(m - 1)  OBVIOUS
      <3>. QED  BY <3>1
    <2>3. \A i \in 0..m : i # m => i \in 0..(m - 1)  OBVIOUS
    <2> HIDE DEF v
    <2>4. f \in [0..m -> S]  BY <2>2, <2>3
    <2>5. f[0] = base
      <3>1. 0 \in 0..m /\ 0 # m  OBVIOUS
      <3>. QED  BY <2>1, <3>1 DEF Computes
    <2>6. ASSUME NEW i \in 1..m PROVE f[i] = G[<<f[i - 1], i>>]
      <3>1. i \in 0..m /\ i - 1 \in 0..m /\ i - 1 # m  OBVIOUS
      <3>2. CASE i = m  BY <3>1, <3>2 DEF v
      <3>3. CASE i # m
        <4>1. i \in 1..(m - 1)  BY <3>3
        <4>2. g[i] = G[<<g[i - 1], i>>]  BY <2>1, <4>1 DEF Computes
        <4>. QED  BY <3>1, <3>3, <4>2
      <3>. QED  BY <3>2, <3>3
    <2>7. Computes(G, base, m, f)  BY <2>4, <2>5, <2>6 DEF Computes
    <2>. QED  BY <2>4, <2>7
  <1>3. ASSUME Bad # {} PROVE FALSE
    <2>1. PICK m \in Bad : \A l \in Bad : m <= l
      <3>1. Bad \in SUBSET Nat  OBVIOUS
      <3> HIDE DEF Bad
      <3>. QED  BY <1>3, <3>1, LeastNumber
    <2>2. m \in 0..n /\ ~Good(m)  OBVIOUS
    <2>3. m \in 1..n /\ m - 1 \in 0..n /\ ~(m <= m - 1)
      <3>1. m # 0  BY <1>1, <2>2
      <3>. QED  BY <2>2, <3>1
    <2>4. Good(m - 1)  BY <2>1, <2>3
    <2>. QED  BY <1>2, <2>2, <2>3, <2>4
  <1>4. n \in 0..n  OBVIOUS
  <1>. QED  BY <1>3, <1>4

LEMMA RecursionType ==
  ASSUME NEW S, NEW base \in S, NEW n \in Nat, NEW G \in [S \X (1..n) -> S],
         NEW f, Computes(G, base, n, f)
  PROVE  \A i \in 0..n : f[i] \in S
  <1> DEFINE Bad == {i \in 0..n : f[i] \notin S}
  <1>1. ASSUME Bad # {} PROVE FALSE
    <2>1. PICK m \in Bad : \A l \in Bad : m <= l
      <3>1. Bad \in SUBSET Nat  OBVIOUS
      <3> HIDE DEF Bad
      <3>. QED  BY <1>1, <3>1, LeastNumber
    <2>2. m \in 0..n /\ f[m] \notin S  OBVIOUS
    <2>3. m # 0  BY <2>2 DEF Computes
    <2>4. m \in 1..n /\ m - 1 \in 0..n /\ ~(m <= m - 1)  BY <2>2, <2>3
    <2>5. f[m - 1] \in S  BY <2>1, <2>4
    <2>. QED  BY <2>2, <2>4, <2>5 DEF Computes
  <1>. QED  BY <1>1

-----------------------------------------------------------------------------
(* The values of the environment                                           *)

(* A digit is the character of its number, and of no other.                *)
LEMMA DigitOfChar ==
  ASSUME NEW c \in DecimalChars
  PROVE  /\ Digit(c) \in 0..9
         /\ Digit(c) = 0 <=> c = "0"
         /\ Digit(c) = 1 <=> c = "1"
  <1>1. /\ Char(0) = "0" /\ Char(1) = "1" /\ Char(2) = "2" /\ Char(3) = "3"
        /\ Char(4) = "4" /\ Char(5) = "5" /\ Char(6) = "6" /\ Char(7) = "7"
        /\ Char(8) = "8" /\ Char(9) = "9"
    BY DEF Char, HexChars
  <1>2. \E d \in 0..9 : Char(d) = c  BY <1>1 DEF DecimalChars
  <1>3. Digit(c) \in 0..9 /\ Char(Digit(c)) = c  BY <1>2 DEF Digit
  <1>4. \A d \in 0..9 : d = 0 \/ d = 1 \/ d = 2 \/ d = 3 \/ d = 4 \/ d = 5
                        \/ d = 6 \/ d = 7 \/ d = 8 \/ d = 9
    OBVIOUS
  <1>. QED  BY <1>1, <1>3, <1>4

(* Digits have the value 0 when all are 0, and 1 when the last is 1 and    *)
(* those before it are 0.                                                  *)
LEMMA ValueIsOne ==
  ASSUME NEW s \in Seq(DecimalChars)
  PROVE  /\ Value(s) \in Nat
         /\ Value(s) = 1 <=> /\ Len(s) # 0 /\ s[Len(s)] = "1"
                             /\ \A j \in 1..(Len(s) - 1) : s[j] = "0"
  <1> DEFINE n == Len(s)
             G == [x \in Nat \X (1..n) |-> x[1] * 10 + Digit(s[x[2]])]
             Eq(f) == f = [i \in 0..n |-> IF i = 0 THEN 0
                                          ELSE f[i - 1] * 10 + Digit(s[i])]
             r == CHOOSE f : Eq(f)
  <1>1. n \in Nat /\ \A i \in 1..n : s[i] \in DecimalChars /\ Digit(s[i]) \in 0..9
    BY DigitOfChar
  <1>2. G \in [Nat \X (1..n) -> Nat]
    <2>1. ASSUME NEW x \in Nat \X (1..n)
          PROVE  x[1] * 10 + Digit(s[x[2]]) \in Nat
      <3>1. PICK a \in Nat, d \in Nat : a = x[1] /\ d = Digit(s[x[2]])  BY <1>1
      <3>2. a * 10 + d \in Nat  OBVIOUS
      <3>. QED  BY <3>1, <3>2
    <2>. QED  BY <2>1, Zenon
  <1>3. \A a \in Nat, i \in 1..n : G[<<a, i>>] = a * 10 + Digit(s[i])
    OBVIOUS
  <1> HIDE DEF G
  <1>4. PICK g \in [0..n -> Nat] : Computes(G, 0, n, g)
    BY <1>1, <1>2, RecursionExists
  <1>5. Eq(g)
    <2>1. ASSUME NEW i \in 0..n
          PROVE  g[i] = IF i = 0 THEN 0 ELSE g[i - 1] * 10 + Digit(s[i])
      <3>1. CASE i = 0  BY <1>4, <3>1 DEF Computes
      <3>2. CASE i # 0
        <4>1. i \in 1..n /\ i - 1 \in 0..n  BY <1>1, <3>2
        <4>. QED  BY <1>3, <1>4, <3>2, <4>1 DEF Computes
      <3>. QED  BY <3>1, <3>2
    <2>. QED  BY <2>1
  <1>6. Eq(r)  BY <1>5
  <1>7. r[0] = 0 /\ \A i \in 1..n : r[i] = r[i - 1] * 10 + Digit(s[i])
    <2> HIDE DEF r
    <2>. QED  BY <1>1, <1>6
  <1>8. Value(s) = r[n]  BY DEF Value
  <1> HIDE DEF r, Eq
  <1> DEFINE Says(i) ==
        /\ r[i] \in Nat
        /\ r[i] = 0 <=> \A j \in 1..i : s[j] = "0"
        /\ r[i] = 1 <=> i # 0 /\ s[i] = "1" /\ \A j \in 1..(i - 1) : s[j] = "0"
             Bad == {i \in 0..n : ~Says(i)}
  <1>9. Says(0)  BY <1>7
  <1>10. ASSUME NEW i \in 1..n, Says(i - 1) PROVE Says(i)
    <2> DEFINE a == r[i - 1]
               d == Digit(s[i])
    <2>1. /\ a \in Nat /\ d \in 0..9 /\ r[i] = a * 10 + d
          /\ d = 0 <=> s[i] = "0"
          /\ d = 1 <=> s[i] = "1"
          /\ a = 0 <=> \A j \in 1..(i - 1) : s[j] = "0"
      BY <1>1, <1>7, <1>10, DigitOfChar
    <2> HIDE DEF a, d
    <2>2. /\ r[i] \in Nat
          /\ r[i] = 0 <=> a = 0 /\ d = 0
          /\ r[i] = 1 <=> a = 0 /\ d = 1
      BY <2>1
    <2>3. \A j \in 1..i : j = i \/ j \in 1..(i - 1)  OBVIOUS
    <2>4. i \in 1..i /\ \A j \in 1..(i - 1) : j \in 1..i  OBVIOUS
    <2>. QED  BY <2>1, <2>2, <2>3, <2>4
  <1>11. ASSUME Bad # {} PROVE FALSE
    <2>1. PICK m \in Bad : \A l \in Bad : m <= l
      <3>1. Bad \in SUBSET Nat  OBVIOUS
      <3> HIDE DEF Bad
      <3>. QED  BY <1>11, <3>1, LeastNumber
    <2>2. m \in 0..n /\ ~Says(m)  OBVIOUS
    <2> HIDE DEF Says
    <2>3. m # 0  BY <1>9, <2>2
    <2>4. m \in 1..n /\ m - 1 \in 0..n /\ ~(m <= m - 1)  BY <1>1, <2>2, <2>3
    <2>5. Says(m - 1)  BY <2>1, <2>4
    <2>. QED  BY <1>10, <2>2, <2>4, <2>5
  <1>12. Says(n)
    <2> HIDE DEF Says
    <2>. QED  BY <1>1, <1>11
  <1>. QED  BY <1>8, <1>12

(* Leading takes characters of the set as far as there are any.            *)
LEMMA LeadingIs ==
  ASSUME NEW S, NEW s \in Seq(S), NEW chars
  PROVE  LET n == Len(Leading(s, chars))
         IN  /\ n \in 0..Len(s)
             /\ \A j \in 1..n : s[j] \in chars /\ Leading(s, chars)[j] = s[j]
             /\ n < Len(s) => s[n + 1] \notin chars
             /\ Leading(s, chars) \in Seq(S \cap chars)
  <1> DEFINE l == Len(s)
             Out == {i \in 1..l : s[i] \notin chars}
             In == {i \in DOMAIN s : \A j \in 1..i : s[j] \in chars}
  <1>1. l \in Nat /\ DOMAIN s = 1..l /\ \A i \in 1..l : s[i] \in S
    OBVIOUS
  <1>2. PICK n \in 0..l : /\ \A j \in 1..n : s[j] \in chars
                          /\ n < l => s[n + 1] \notin chars
    <2>1. CASE Out = {}  BY <1>1, <2>1
    <2>2. CASE Out # {}
      <3>1. PICK m \in Out : \A k \in Out : m <= k
        <4>1. Out \in SUBSET Nat  OBVIOUS
        <4> HIDE DEF Out
        <4>. QED  BY <2>2, <4>1, LeastNumber
      <3>2. m \in 1..l /\ s[m] \notin chars  OBVIOUS
      <3>3. ASSUME NEW j \in 1..(m - 1) PROVE s[j] \in chars
        <4>1. j \in 1..l /\ ~(m <= j)  BY <1>1, <3>2
        <4>. QED  BY <3>1, <4>1
      <3>4. m - 1 \in 0..l /\ (m - 1) + 1 = m  BY <1>1, <3>2
      <3>. QED  BY <3>2, <3>3, <3>4
    <2>. QED  BY <2>1, <2>2
  <1>3. In = 1..n
    <2>1. ASSUME NEW i \in In PROVE i \in 1..n
      <3>1. i \in 1..l /\ \A j \in 1..i : s[j] \in chars  BY <1>1
      <3>2. CASE i > n
        <4>1. n + 1 \in 1..i /\ n < l  BY <1>1, <1>2, <3>1, <3>2
        <4>. QED  BY <1>2, <3>1, <4>1
      <3>3. CASE ~(i > n)  BY <1>1, <1>2, <3>1, <3>3
      <3>. QED  BY <3>2, <3>3
    <2>2. ASSUME NEW i \in 1..n PROVE i \in In
      <3>1. i \in 1..l /\ \A j \in 1..i : j \in 1..n  BY <1>1, <1>2
      <3>. QED  BY <1>1, <1>2, <3>1
    <2> HIDE DEF In
    <2>. QED  BY <2>1, <2>2
  <1>4. Cardinality(1..n) = n
    <2>1. n \in Nat  BY <1>1, <1>2
    <2>2. n < 1 => n = 0  BY <2>1
    <2>. QED  BY <2>1, <2>2, FS_Interval
  <1>5. Leading(s, chars) = SubSeq(s, 1, n)
    BY <1>3, <1>4 DEF Leading
  <1>6. \A i \in 1..n : s[i] \in S \cap chars
    <2>1. \A i \in 1..n : i \in 1..l  BY <1>1, <1>2
    <2>. QED  BY <1>1, <1>2, <2>1
  <1> DEFINE t == SubSeq(s, 1, n)
  <1>7. t \in Seq(S \cap chars) /\ Len(t) = n /\ \A i \in 1..n : t[i] = s[i]
    <2>1. n \in Int /\ n - 1 + 1 = n /\ (~(1 <= n) => n = 0)  BY <1>1, <1>2
    <2>2. /\ SubSeq(s, 1, n) \in Seq(S \cap chars)
          /\ Len(SubSeq(s, 1, n)) = IF 1 <= n THEN n - 1 + 1 ELSE 0
          /\ \A i \in 1..(n - 1 + 1) : SubSeq(s, 1, n)[i] = s[1 + i - 1]
      BY <1>6, <2>1, SubSeqProperties
    <2>3. \A i \in 1..n : 1 + i - 1 = i  BY <2>1
    <2>. QED  BY <2>1, <2>2, <2>3
  <1> HIDE DEF t
  <1>8. Leading(s, chars) = t  BY <1>5 DEF t
  <1>. QED  BY <1>2, <1>7, <1>8

(* What is left behind the leading characters.                             *)
LEMMA BehindIs ==
  ASSUME NEW S, NEW s \in Seq(S), NEW n \in 0..Len(s)
  PROVE  LET t == SubSeq(s, n + 1, Len(s))
         IN  /\ t \in Seq(S)
             /\ Len(t) = Len(s) - n
             /\ \A i \in 1..(Len(s) - n) : t[i] = s[n + i]
  <1> DEFINE l == Len(s)
             t == SubSeq(s, n + 1, l)
  <1>1. l \in Nat /\ n \in 0..l /\ \A i \in 1..l : s[i] \in S  OBVIOUS
  <1> HIDE DEF l
  <1>2. /\ \A i \in (n + 1)..l : s[i] \in S
        /\ l - (n + 1) + 1 = l - n
        /\ n + 1 <= l \/ l - n = 0
        /\ \A i \in 1..(l - n) : (n + 1) + i - 1 = n + i
        /\ n + 1 \in Int /\ l \in Int
    BY <1>1
  <1>3. /\ t \in Seq(S)
        /\ Len(t) = IF n + 1 <= l THEN l - (n + 1) + 1 ELSE 0
        /\ \A i \in 1..(l - (n + 1) + 1) : t[i] = s[(n + 1) + i - 1]
    BY <1>2, SubSeqProperties
  <1> HIDE DEF t
  <1>4. t \in Seq(S) /\ Len(t) = l - n /\ \A i \in 1..(l - n) : t[i] = s[n + i]
    BY <1>1, <1>2, <1>3
  <1>. QED  BY <1>4 DEF t, l

(* ft_atoi passes over b blanks and at most one sign, so that o characters *)
(* are in front of the digits d it reads, and stops behind them.           *)
AtoiReads(s, b, o, d) ==
  /\ \A j \in 1..b : s[j] \in Blanks
  /\ b < Len(s) => s[b + 1] \notin Blanks
  /\ o = IF b < Len(s) /\ s[b + 1] \in {"-", "+"} THEN b + 1 ELSE b
  /\ o + Len(d) <= Len(s)
  /\ \A j \in 1..Len(d) : d[j] = s[o + j]
  /\ o + Len(d) < Len(s) => s[o + Len(d) + 1] \notin DecimalChars
  /\ Atoi(s) = IF b < Len(s) /\ s[b + 1] = "-" THEN -Value(d) ELSE Value(d)

LEMMA AtoiParts ==
  ASSUME NEW s \in Seq(STRING)
  PROVE  \E b \in 0..Len(s), o \in Nat, d \in Seq(DecimalChars) : AtoiReads(s, b, o, d)
  <1> DEFINE l == Len(s)
             b == Len(Leading(s, Blanks))
             rest == Behind(s, Blanks)
             signed == rest # << >> /\ rest[1] \in {"-", "+"}
             u == IF signed THEN Tail(rest) ELSE rest
             d == Leading(u, DecimalChars)
             o == IF b < l /\ s[b + 1] \in {"-", "+"} THEN b + 1 ELSE b
  <1>1. /\ b \in 0..l /\ l \in Nat
        /\ \A j \in 1..b : s[j] \in Blanks
        /\ b < l => s[b + 1] \notin Blanks
    <2> HIDE DEF rest, signed, u, d, o
    <2>1. /\ Len(Leading(s, Blanks)) \in 0..Len(s)
          /\ \A j \in 1..Len(Leading(s, Blanks)) : s[j] \in Blanks
          /\ Len(Leading(s, Blanks)) < Len(s)
               => s[Len(Leading(s, Blanks)) + 1] \notin Blanks
      BY LeadingIs
    <2>2. l \in Nat  OBVIOUS
    <2>. QED  BY <2>1, <2>2
  <1>2. rest = SubSeq(s, b + 1, l)  BY DEF Behind
  <1>3. Atoi(s) = IF signed /\ rest[1] = "-" THEN -Value(d) ELSE Value(d)
    BY DEF Atoi
  <1> HIDE DEF b, rest
  <1>4. /\ rest \in Seq(STRING) /\ Len(rest) = l - b
        /\ \A i \in 1..(l - b) : rest[i] = s[b + i]
    BY <1>1, <1>2, BehindIs
  <1>5. rest # << >> <=> b < l
    BY <1>1, <1>4, EmptySeq
  <1>6. /\ signed <=> b < l /\ s[b + 1] \in {"-", "+"}
        /\ (signed /\ rest[1] = "-") <=> b < l /\ s[b + 1] = "-"
    <2>1. b < l => 1 \in 1..(l - b)  BY <1>1
    <2>2. b < l => rest[1] = s[b + 1]  BY <1>4, <2>1
    <2>. QED  BY <1>5, <2>2
  <1>7. /\ u \in Seq(STRING) /\ Len(u) = l - o /\ o \in Nat /\ o <= l
        /\ \A i \in 1..(l - o) : u[i] = s[o + i]
    <2>1. CASE signed
      <3>1. rest # << >> /\ b < l /\ o = b + 1 /\ u = Tail(rest)
        BY <1>5, <1>6, <2>1
      <3>2. /\ Tail(rest) \in Seq(STRING) /\ Len(Tail(rest)) = Len(rest) - 1
            /\ \A i \in 1..Len(Tail(rest)) : Tail(rest)[i] = rest[i + 1]
        BY <1>4, <3>1, HeadTailProperties
      <3> HIDE DEF u, o
      <3>3. Len(u) = l - o /\ o \in Nat /\ o <= l /\ u \in Seq(STRING)
        BY <1>1, <1>4, <3>1, <3>2
      <3>4. ASSUME NEW i \in 1..(l - o) PROVE u[i] = s[o + i]
        <4>1. i + 1 \in 1..(l - b) /\ b + (i + 1) = o + i  BY <1>1, <3>1
        <4>2. u[i] = rest[i + 1]  BY <3>1, <3>2, <3>3
        <4>. QED  BY <1>4, <4>1, <4>2
      <3>. QED  BY <3>3, <3>4
    <2>2. CASE ~signed
      <3>1. o = b /\ u = rest  BY <1>6, <2>2
      <3> HIDE DEF u, o
      <3>. QED  BY <1>1, <1>4, <3>1
    <2>. QED  BY <2>1, <2>2
  <1> HIDE DEF u, o, signed
  <1>8. /\ Len(d) \in 0..Len(u)
        /\ \A j \in 1..Len(d) : u[j] \in DecimalChars /\ d[j] = u[j]
        /\ Len(d) < Len(u) => u[Len(d) + 1] \notin DecimalChars
        /\ d \in Seq(STRING \cap DecimalChars)
    BY <1>7, LeadingIs
  <1>9. d \in Seq(DecimalChars)
    <2>1. STRING \cap DecimalChars \subseteq DecimalChars  OBVIOUS
    <2> HIDE DEF d
    <2>. QED  BY <1>8, <2>1, SeqMonotonic
  <1> HIDE DEF d
  <1>10. /\ o + Len(d) <= l
         /\ \A j \in 1..Len(d) : d[j] = s[o + j]
         /\ o + Len(d) < l => s[o + Len(d) + 1] \notin DecimalChars
    <2>1. Len(d) \in Nat /\ Len(d) <= l - o  BY <1>1, <1>7, <1>8
    <2>2. \A j \in 1..Len(d) : j \in 1..(l - o)  BY <1>1, <1>7, <2>1
    <2>3. o + Len(d) < l => /\ Len(d) < Len(u) /\ Len(d) + 1 \in 1..(l - o)
                            /\ o + (Len(d) + 1) = o + Len(d) + 1
      BY <1>1, <1>7, <2>1
    <2>4. o + Len(d) <= l  BY <1>1, <1>7, <2>1
    <2>5. \A j \in 1..Len(d) : d[j] = s[o + j]  BY <1>7, <1>8, <2>2
    <2>6. o + Len(d) < l => s[o + Len(d) + 1] \notin DecimalChars
      BY <1>7, <1>8, <2>3
    <2>. QED  BY <2>4, <2>5, <2>6
  <1>11. AtoiReads(s, b, o, d)
    BY <1>1, <1>3, <1>6, <1>10 DEF AtoiReads, o
  <1>. QED  BY <1>1, <1>7, <1>9, <1>11

(* ft_atoi gives 1 for the values that ReadsOne describes and no others.   *)
LEMMA AtoiIsOne ==
  ASSUME NEW s \in Seq(STRING)
  PROVE  Atoi(s) = 1 <=> ReadsOne(s)
  <1> DEFINE l == Len(s)
  <1>1. PICK b \in 0..l, o \in Nat, d \in Seq(DecimalChars) : AtoiReads(s, b, o, d)
    BY AtoiParts
  <1> DEFINE n == Len(d)
  <1>2. /\ l \in Nat /\ n \in Nat /\ DOMAIN s = 1..l /\ o + n <= l
        /\ \A j \in 1..b : s[j] \in Blanks
        /\ b < l => s[b + 1] \notin Blanks
        /\ o = IF b < l /\ s[b + 1] \in {"-", "+"} THEN b + 1 ELSE b
        /\ \A j \in 1..n : d[j] = s[o + j] /\ d[j] \in DecimalChars
        /\ o + n < l => s[o + n + 1] \notin DecimalChars
        /\ Atoi(s) = IF b < l /\ s[b + 1] = "-" THEN -Value(d) ELSE Value(d)
    BY <1>1 DEF AtoiReads
  <1>3. /\ Value(d) \in Nat
        /\ Value(d) = 1 <=> /\ n # 0 /\ d[n] = "1"
                            /\ \A j \in 1..(n - 1) : d[j] = "0"
    BY ValueIsOne
  <1>4. ASSUME Atoi(s) = 1 PROVE ReadsOne(s)
    <2>1. Value(d) = 1 /\ ~(b < l /\ s[b + 1] = "-")  BY <1>2, <1>3, <1>4
    <2>2. /\ n # 0 /\ d[n] = "1"
          /\ \A j \in 1..(n - 1) : d[j] = "0"
      BY <1>3, <2>1
    <2> DEFINE i == o + n
    <2>3. i \in 1..l /\ n \in 1..n /\ s[i] = "1"
      <3>1. n \in 1..n  BY <1>2, <2>2
      <3>. QED  BY <1>2, <2>2, <3>1
    <2>4. i < l => s[i + 1] \notin DecimalChars  BY <1>2
    <2>5. b < i /\ b \in 0..l  BY <1>2, <2>2
    <2>6. ASSUME NEW j \in (b + 1)..(i - 1)
          PROVE  s[j] = "0" \/ (s[j] = "+" /\ j = b + 1)
      <3>1. CASE j <= o
        <4>1. j = b + 1 /\ o = b + 1 /\ b < l /\ s[b + 1] \in {"-", "+"}
          BY <1>2, <3>1
        <4>. QED  BY <2>1, <4>1
      <3>2. CASE ~(j <= o)
        <4>1. j - o \in 1..(n - 1) /\ j - o \in 1..n /\ o + (j - o) = j
          BY <1>2, <3>2
        <4>2. d[j - o] = "0"  BY <2>2, <4>1
        <4>3. d[j - o] = s[o + (j - o)]  BY <1>2, <4>1
        <4>. QED  BY <4>1, <4>2, <4>3
      <3>. QED  BY <3>1, <3>2
    <2> HIDE DEF i
    <2>. QED  BY <1>2, <2>3, <2>4, <2>5, <2>6 DEF ReadsOne
  <1>5. ASSUME ReadsOne(s) PROVE Atoi(s) = 1
    <2>1. PICK i \in 1..l, c \in 0..l :
            /\ s[i] = "1" /\ (i < l => s[i + 1] \notin DecimalChars)
            /\ c < i /\ \A j \in 1..c : s[j] \in Blanks
            /\ \A j \in (c + 1)..(i - 1) : s[j] = "0" \/ (s[j] = "+" /\ j = c + 1)
      BY <1>2, <1>5 DEF ReadsOne
    <2>2. s[c + 1] \in {"0", "1", "+"} /\ c < l
      <3>1. CASE c + 1 = i  BY <1>2, <2>1, <3>1
      <3>2. CASE c + 1 # i
        <4>1. c + 1 \in (c + 1)..(i - 1) /\ c < l  BY <1>2, <2>1, <3>2
        <4>. QED  BY <2>1, <4>1
      <3>. QED  BY <3>1, <3>2
    <2>3. s[c + 1] \notin Blanks  BY <2>2 DEF Blanks
    <2>4. b = c
      <3>1. CASE b < c
        <4>1. b + 1 \in 1..c /\ b < l  BY <1>2, <2>1, <3>1
        <4>. QED  BY <1>2, <2>1, <4>1
      <3>2. CASE c < b
        <4>1. c + 1 \in 1..b  BY <1>2, <2>1, <3>2
        <4>. QED  BY <1>2, <2>3, <4>1
      <3>. QED  BY <1>2, <2>1, <3>1, <3>2
    <2>5. o < i /\ ~(b < l /\ s[b + 1] = "-")
      <3>1. CASE s[c + 1] = "+"
        <4>1. c + 1 # i /\ o = c + 1  BY <1>2, <2>1, <2>2, <2>4, <3>1
        <4>. QED  BY <1>2, <2>1, <2>4, <3>1, <4>1
      <3>2. CASE s[c + 1] # "+"
        <4>1. o = c /\ s[c + 1] # "-"  BY <1>2, <2>2, <2>4, <3>2
        <4>. QED  BY <1>2, <2>1, <2>4, <4>1
      <3>. QED  BY <3>1, <3>2
    <2>6. \A j \in (o + 1)..(i - 1) : s[j] = "0"
      <3>1. ASSUME NEW j \in (o + 1)..(i - 1) PROVE s[j] = "0"
        <4>1. j \in (c + 1)..(i - 1)  BY <1>2, <2>1, <2>4
        <4>2. CASE j = c + 1
          <5>1. o = c  BY <1>2, <2>1, <2>4, <4>2
          <5>2. s[c + 1] \notin {"-", "+"}  BY <1>2, <2>2, <2>4, <5>1
          <5>. QED  BY <2>1, <4>1, <4>2, <5>2
        <4>3. CASE j # c + 1  BY <2>1, <4>1, <4>3
        <4>. QED  BY <4>2, <4>3
      <3>. QED  BY <3>1
    <2>7. n = i - o
      <3>1. CASE n < i - o
        <4>1. o + n + 1 \in (o + 1)..i /\ o + n < l  BY <1>2, <2>1, <2>5, <3>1
        <4>2. o + n + 1 = i \/ o + n + 1 \in (o + 1)..(i - 1)
          BY <2>1, <4>1, SMTT(30)
        <4>3. s[o + n + 1] \in {"0", "1"}  BY <2>1, <2>6, <4>2
        <4>. QED  BY <1>2, <4>1, <4>3 DEF DecimalChars
      <3>2. CASE n > i - o
        <4>1. /\ i - o + 1 \in 1..n /\ o + (i - o + 1) = i + 1 /\ i < l
          BY <1>2, <2>1, <2>5, <3>2
        <4>2. d[i - o + 1] = s[i + 1] /\ d[i - o + 1] \in DecimalChars
          BY <1>2, <4>1
        <4>. QED  BY <2>1, <4>1, <4>2
      <3>3. n \in Int /\ i - o \in Int  BY <1>2
      <3> HIDE DEF n
      <3>. QED  BY <3>1, <3>2, <3>3
    <2>8. n # 0 /\ n \in 1..n /\ o + n = i  BY <1>2, <2>1, <2>5, <2>7
    <2>9. d[n] = "1"  BY <1>2, <2>1, <2>8
    <2>10. ASSUME NEW j \in 1..(n - 1) PROVE d[j] = "0"
      <3>1. j \in 1..n /\ o + j \in (o + 1)..(i - 1)  BY <1>2, <2>1, <2>7
      <3>. QED  BY <1>2, <2>6, <3>1
    <2>11. Value(d) = 1  BY <1>3, <2>8, <2>9, <2>10
    <2>. QED  BY <1>2, <2>5, <2>11
  <1>. QED  BY <1>4, <1>5

-----------------------------------------------------------------------------
(* The flags                                                               *)

(* Until the variables are read, on the first call and before main, the    *)
(* environment is the one the process was started with.                    *)
FlagsInv ==
  /\ start \in Environments
  /\ ~read => env = start /\ flags = {}
  /\ FlagsAsStarted

LEMMA StatusAsStarted ==
  ASSUME FlagsInv
  PROVE  Status = {f \in Flags : ReadsOne(start[f])}
  <1>1. \A f \in Flags : start[f] \in Seq(STRING)
    BY MessagesAssumption DEF FlagsInv
  <1>2. \A f \in Flags : Atoi(start[f]) = 1 <=> ReadsOne(start[f])
    BY <1>1, AtoiIsOne
  <1>3. CASE read  BY <1>3 DEF Status, FlagsInv, FlagsAsStarted
  <1>4. CASE ~read
    BY <1>2, <1>4 DEF Status, FlagsInv, CheckEnvFlag
  <1>. QED  BY <1>3, <1>4

LEMMA FlagsStep ==
  FlagsInv /\ [Next]_vars => FlagsInv'
  <1> SUFFICES ASSUME FlagsInv, [Next]_vars PROVE FlagsInv'
    OBVIOUS
  <1>1. ASSUME CheckFlags, start' = start PROVE FlagsInv'
    <2>1. start' = start /\ read' = TRUE
          /\ flags' = {f \in Flags : ReadsOne(start[f])}
      BY <1>1, StatusAsStarted DEF CheckFlags
    <2>. QED  BY <2>1 DEF FlagsInv, FlagsAsStarted
  <1>2. CASE InitLeakHandler  BY <1>1, <1>2 DEF InitLeakHandler
  <1>3. CASE SetEnv  BY <1>3 DEF SetEnv, FlagsInv, FlagsAsStarted
  <1>4. CASE ShowProgramLeaks  BY <1>1, <1>4 DEF ShowProgramLeaks, Say
  <1>5. CASE AbortProgram  BY <1>1, <1>5 DEF AbortProgram, Say
  <1>6. CASE ShowAllocMem  BY <1>1, <1>6 DEF ShowAllocMem, Say
  <1>7. CASE CatStep \/ NumberStep \/ CopyStep \/ WriteStep
    <2>1. PICK kinds : Doing(kinds)
      BY <1>7 DEF CatStep, NumberStep, CopyStep, WriteStep
    <2>2. UNCHANGED <<env, start, read, flags>>  BY <2>1 DEF Doing
    <2>. QED  BY <2>2 DEF FlagsInv, FlagsAsStarted
  <1>8. CASE UNCHANGED vars  BY <1>8 DEF vars, FlagsInv, FlagsAsStarted
  <1>. QED  BY <1>2, <1>3, <1>4, <1>5, <1>6, <1>7, <1>8 DEF Next

(* Whatever the environment, with values an int holds, and whatever the    *)
(* program makes of it later: a flag is set exactly when its variable was  *)
(* a numeral of 1 at the start of the process, as ft_atoi reads it.        *)
THEOREM FlagsAsStartedCorrect == Spec => []FlagsAsStarted
  <1>1. Init => FlagsInv  BY DEF Init, FlagsInv, FlagsAsStarted
  <1>2. FlagsInv => FlagsAsStarted  BY DEF FlagsInv
  <1>. QED  BY <1>1, <1>2, FlagsStep, PTL DEF Spec

-----------------------------------------------------------------------------
(* Powers, and numerals in a base                                          *)

(* What is iterated from a first value has a value for every number.       *)
LEMMA IterationExists ==
  ASSUME NEW S, NEW base \in S, NEW G \in [S -> S]
  PROVE  \E f \in [Nat -> S] : f[0] = base /\ \A k \in Nat : f[k + 1] = G[f[k]]
  <1> DEFINE Runs(n, g) == /\ g \in [0..n -> S]
                           /\ g[0] = base
                           /\ \A i \in 1..n : g[i] = G[g[i - 1]]
             R(n) == CHOOSE g : Runs(n, g)
             f == [n \in Nat |-> R(n)[n]]
  <1>1. ASSUME NEW n \in Nat PROVE \E g : Runs(n, g)
    <2> DEFINE H == [x \in S \X (1..n) |-> G[x[1]]]
    <2>1. H \in [S \X (1..n) -> S]  OBVIOUS
    <2>2. \A a \in S, i \in 1..n : H[<<a, i>>] = G[a]  OBVIOUS
    <2> HIDE DEF H
    <2>3. PICK g \in [0..n -> S] : Computes(H, base, n, g)
      BY <2>1, RecursionExists
    <2>4. ASSUME NEW i \in 1..n PROVE g[i] = G[g[i - 1]]
      <3>1. i - 1 \in 0..n  OBVIOUS
      <3>. QED  BY <2>2, <2>3, <3>1 DEF Computes
    <2>. QED  BY <2>3, <2>4 DEF Computes
  <1>2. ASSUME NEW n \in Nat, NEW g, NEW h, Runs(n, g), Runs(n + 1, h)
        PROVE  g[n] = h[n]
    <2> DEFINE Bad == {i \in 0..n : g[i] # h[i]}
    <2>1. ASSUME Bad # {} PROVE FALSE
      <3>1. PICK m \in Bad : \A l \in Bad : m <= l
        <4>1. Bad \in SUBSET Nat  OBVIOUS
        <4> HIDE DEF Bad
        <4>. QED  BY <2>1, <4>1, LeastNumber
      <3>2. m \in 0..n /\ g[m] # h[m]  OBVIOUS
      <3>3. m # 0  BY <1>2, <3>2
      <3>4. m \in 1..n /\ m \in 1..(n + 1) /\ m - 1 \in 0..n /\ ~(m <= m - 1)
        BY <3>2, <3>3
      <3>5. g[m - 1] = h[m - 1]  BY <3>1, <3>4
      <3>. QED  BY <1>2, <3>2, <3>4, <3>5
    <2>2. n \in 0..n  OBVIOUS
    <2>. QED  BY <2>1, <2>2
  <1>3. ASSUME NEW n \in Nat PROVE Runs(n, R(n))
    BY <1>1, <1>3
  <1> HIDE DEF R
  <1>4. f \in [Nat -> S]
    <2>1. ASSUME NEW n \in Nat PROVE R(n)[n] \in S
      <3>1. n \in 0..n /\ R(n) \in [0..n -> S]  BY <1>3
      <3>. QED  BY <3>1
    <2>. QED  BY <2>1
  <1>5. f[0] = base  BY <1>3
  <1>6. ASSUME NEW k \in Nat PROVE f[k + 1] = G[f[k]]
    <2>1. Runs(k, R(k)) /\ Runs(k + 1, R(k + 1))  BY <1>3
    <2>2. R(k)[k] = R(k + 1)[k]
      <3> HIDE DEF Runs
      <3>. QED  BY <1>2, <2>1
    <2>3. k + 1 \in 1..(k + 1) /\ (k + 1) - 1 = k /\ k + 1 \in Nat  OBVIOUS
    <2>4. R(k + 1)[k + 1] = G[R(k + 1)[k]]  BY <2>1, <2>3
    <2>. QED  BY <2>2, <2>3, <2>4
  <1> HIDE DEF f
  <1>. QED  BY <1>4, <1>5, <1>6

LEMMA PowerIs ==
  ASSUME NEW base \in Nat \ {0}
  PROVE  /\ Power(base)[0] = 1
         /\ \A k \in Nat : /\ Power(base)[k] \in Nat \ {0}
                           /\ Power(base)[k + 1] = base * Power(base)[k]
  <1> DEFINE Eq(f) == f = [k \in Nat |-> IF k = 0 THEN 1 ELSE base * f[k - 1]]
             G == [x \in Nat \ {0} |-> base * x]
             r == CHOOSE f : Eq(f)
  <1>1. G \in [Nat \ {0} -> Nat \ {0}]
    <2>1. ASSUME NEW x \in Nat \ {0} PROVE base * x \in Nat \ {0}
      OBVIOUS
    <2>. QED  BY <2>1
  <1>2. \A x \in Nat \ {0} : G[x] = base * x  OBVIOUS
  <1> HIDE DEF G
  <1>3. PICK f \in [Nat -> Nat \ {0}] : f[0] = 1 /\ \A k \in Nat : f[k + 1] = G[f[k]]
    <2> DEFINE Pos == Nat \ {0}
               one == 1
    <2>1. one \in Pos /\ G \in [Pos -> Pos]  BY <1>1
    <2> HIDE DEF Pos, one
    <2>2. \E f \in [Nat -> Pos] : f[0] = one /\ \A k \in Nat : f[k + 1] = G[f[k]]
      BY <2>1, IterationExists
    <2>. QED  BY <2>2 DEF Pos, one
  <1>4. Eq(f)
    <2>1. ASSUME NEW k \in Nat PROVE f[k] = IF k = 0 THEN 1 ELSE base * f[k - 1]
      <3>1. CASE k = 0  BY <1>3, <3>1
      <3>2. CASE k # 0
        <4>1. k - 1 \in Nat /\ (k - 1) + 1 = k  BY <3>2
        <4>2. f[k] = G[f[k - 1]]  BY <1>3, <4>1
        <4>3. f[k - 1] \in Nat \ {0}  BY <1>3, <4>1
        <4>. QED  BY <1>2, <3>2, <4>2, <4>3
      <3>. QED  BY <3>1, <3>2
    <2>. QED  BY <2>1
  <1>5. Eq(r)  BY <1>4
  <1>6. r[0] = 1 /\ \A k \in Nat : r[k + 1] = base * r[k]
    <2> HIDE DEF r
    <2>1. \A k \in Nat : k + 1 \in Nat /\ k + 1 # 0 /\ (k + 1) - 1 = k  OBVIOUS
    <2>. QED  BY <1>5, <2>1
  <1>7. Power(base) = r  BY DEF Power
  <1> HIDE DEF r, Eq
  <1> DEFINE Bad == {k \in Nat : r[k] \notin Nat \ {0}}
  <1>8. ASSUME Bad # {} PROVE FALSE
    <2>1. PICK m \in Bad : \A l \in Bad : m <= l
      <3>1. Bad \in SUBSET Nat  OBVIOUS
      <3> HIDE DEF Bad
      <3>. QED  BY <1>8, <3>1, LeastNumber
    <2>2. m \in Nat /\ r[m] \notin Nat \ {0}  OBVIOUS
    <2>3. m # 0  BY <1>6, <2>2
    <2>4. m - 1 \in Nat /\ (m - 1) + 1 = m /\ ~(m <= m - 1)  BY <2>2, <2>3
    <2>5. r[m - 1] \in Nat \ {0}  BY <2>1, <2>4
    <2>6. r[m] = base * r[m - 1]  BY <1>6, <2>4
    <2>7. base * r[m - 1] \in Nat \ {0}
      <3> DEFINE x == r[m - 1]
      <3>1. x \in Nat \ {0}  BY <2>5
      <3> HIDE DEF x
      <3>2. base * x \in Nat \ {0}  BY <3>1
      <3>. QED  BY <3>2 DEF x
    <2>. QED  BY <2>2, <2>6, <2>7
  <1>9. \A k \in Nat : r[k] \in Nat \ {0}  BY <1>8
  <1>. QED  BY <1>6, <1>7, <1>9

LEMMA PowersGrow ==
  ASSUME NEW base \in Nat \ {0, 1}, NEW k \in Nat
  PROVE  /\ k < Power(base)[k]
         /\ \A i \in 0..k : Power(base)[i] <= Power(base)[k]
  <1> DEFINE p == Power(base)
             Grown(n) == n < p[n] /\ \A i \in 0..n : p[i] <= p[n]
             Bad == {n \in Nat : ~Grown(n)}
  <1>1. p[0] = 1 /\ \A n \in Nat : p[n] \in Nat \ {0} /\ p[n + 1] = base * p[n]
    BY PowerIs
  <1> HIDE DEF p
  <1>2. Grown(0)  BY <1>1
  <1>3. ASSUME NEW n \in Nat, Grown(n) PROVE Grown(n + 1)
    <2>1. p[n + 1] = base * p[n] /\ p[n] \in Nat \ {0}  BY <1>1
    <2>2. base * p[n] >= p[n] + p[n]
      <3> DEFINE x == p[n]
      <3>1. x \in Nat  BY <2>1
      <3> HIDE DEF x
      <3>2. base * x >= x + x
        <4>1. PICK d \in Nat : base = d + 2
          <5>1. base - 2 \in Nat /\ base = (base - 2) + 2  OBVIOUS
          <5>. QED  BY <5>1
        <4>2. base * x = d * x + x + x  BY <3>1, <4>1
        <4>3. d * x \in Nat  BY <3>1
        <4>. QED  BY <3>1, <4>2, <4>3
      <3>. QED  BY <3>2 DEF x
    <2>3. p[n] <= p[n + 1] /\ n + 1 < p[n + 1] /\ p[n + 1] \in Nat
      <3>1. n + 1 \in Nat  OBVIOUS
      <3>2. p[n + 1] \in Nat  BY <1>1, <3>1
      <3>. QED  BY <1>3, <2>1, <2>2, <3>2
    <2>4. ASSUME NEW i \in 0..(n + 1) PROVE p[i] <= p[n + 1]
      <3>1. CASE i = n + 1  BY <2>3, <3>1
      <3>2. CASE i # n + 1
        <4>1. i \in 0..n /\ i \in Nat  BY <3>2
        <4>2. p[i] <= p[n] /\ p[i] \in Nat  BY <1>1, <1>3, <4>1
        <4>. QED  BY <2>1, <2>3, <4>2
      <3>. QED  BY <3>1, <3>2
    <2>. QED  BY <2>3, <2>4
  <1> HIDE DEF Grown
  <1>4. ASSUME Bad # {} PROVE FALSE
    <2>1. PICK m \in Bad : \A l \in Bad : m <= l
      <3>1. Bad \in SUBSET Nat  OBVIOUS
      <3> HIDE DEF Bad
      <3>. QED  BY <1>4, <3>1, LeastNumber
    <2>2. m \in Nat /\ ~Grown(m)  OBVIOUS
    <2>3. m # 0  BY <1>2, <2>2
    <2>4. m - 1 \in Nat /\ (m - 1) + 1 = m /\ ~(m <= m - 1)  BY <2>2, <2>3
    <2>5. Grown(m - 1)  BY <2>1, <2>4
    <2>. QED  BY <1>3, <2>2, <2>4, <2>5
  <1>5. Grown(k)  BY <1>4
  <1>. QED  BY <1>5 DEF Grown, p

(* n is written with w digits in a base, and these are they.               *)
Wide(n, base, w) ==
  /\ w \in Nat \ {0}
  /\ n < Power(base)[w]
  /\ w = 1 \/ Power(base)[w - 1] <= n

Digits(n, base, w) ==
  [i \in 1..w |-> Char((n \div Power(base)[w - i]) % base)]

(* A number has a width, within the bounds known of it.                    *)
LEMMA WidthExists ==
  ASSUME NEW base \in Nat \ {0, 1}, NEW n \in Nat
  PROVE  /\ \E w \in Nat : Wide(n, base, w)
         /\ \A d \in Nat : Fits(n, base, d) => \E w \in 1..d : Wide(n, base, w)
  <1> DEFINE p == Power(base)
             Enough == {k \in Nat \ {0} : n < p[k]}
  <1>1. ASSUME NEW k \in Enough PROVE \E w \in 1..k : Wide(n, base, w)
    <2>1. PICK w \in Enough : \A m \in Enough : w <= m
      <3>1. Enough \in SUBSET Nat /\ Enough # {}  BY <1>1
      <3> HIDE DEF Enough
      <3>. QED  BY <3>1, LeastNumber
    <2>2. w \in Nat \ {0} /\ k \in Nat /\ n < p[w] /\ w <= k  BY <1>1, <2>1
    <2>3. ASSUME w # 1 PROVE p[w - 1] <= n
      <3>1. w - 1 \in Nat \ {0} /\ ~(w <= w - 1)  BY <2>2, <2>3
      <3>2. ~(n < p[w - 1])
        <4>1. w - 1 \notin Enough  BY <2>1, <3>1
        <4>. QED  BY <3>1, <4>1
      <3>3. p[w - 1] \in Nat
        <4>1. base \in Nat \ {0} /\ w - 1 \in Nat  BY <3>1
        <4>. QED  BY <4>1, PowerIs
      <3> HIDE DEF p
      <3>. QED  BY <3>2, <3>3
    <2>4. Wide(n, base, w) /\ w \in 1..k  BY <2>2, <2>3 DEF Wide
    <2>. QED  BY <2>4
  <1>2. n + 1 \in Enough
    <2>1. n + 1 \in Nat /\ n + 1 \in Nat \ {0}  OBVIOUS
    <2>2. n + 1 < p[n + 1] /\ p[n + 1] \in Nat
      <3>1. base \in Nat \ {0}  OBVIOUS
      <3>. QED  BY <2>1, <3>1, PowersGrow, PowerIs
    <2> HIDE DEF p
    <2>3. n < p[n + 1]  BY <2>2
    <2>. QED  BY <2>1, <2>3
  <1>3. \A k \in Enough : k \in Nat  OBVIOUS
  <1>4. ASSUME NEW d \in Nat, Fits(n, base, d)
        PROVE  \E w \in 1..d : Wide(n, base, w)
    <2>1. PICK k \in 1..d : n < p[k]  BY <1>4 DEF Fits
    <2>2. k \in Enough  BY <2>1
    <2>3. PICK w \in 1..k : Wide(n, base, w)  BY <1>1, <2>2
    <2>4. w \in 1..d  BY <2>1
    <2>. QED  BY <2>3, <2>4
  <1> HIDE DEF Enough
  <1>5. \E w \in Nat : Wide(n, base, w)
    <2>1. PICK w \in 1..(n + 1) : Wide(n, base, w)  BY <1>1, <1>2
    <2>. QED  BY <2>1
  <1>. QED  BY <1>4, <1>5

LEMMA WidthIsOne ==
  ASSUME NEW base \in Nat \ {0, 1}, NEW n \in Nat, NEW v, NEW w,
         Wide(n, base, v), Wide(n, base, w)
  PROVE  v = w
  <1>1. ASSUME NEW x \in Nat \ {0}, NEW y \in Nat \ {0}, x < y,
               n < Power(base)[x], Power(base)[y - 1] <= n
        PROVE  FALSE
    <2>1. y - 1 \in Nat /\ x \in 0..(y - 1) /\ x \in Nat /\ base \in Nat \ {0}
      BY <1>1
    <2>2. Power(base)[x] <= Power(base)[y - 1]  BY <2>1, PowersGrow
    <2>3. Power(base)[x] \in Nat /\ Power(base)[y - 1] \in Nat
      BY <2>1, PowerIs
    <2>. QED  BY <1>1, <2>2, <2>3
  <1>2. v \in Nat \ {0} /\ w \in Nat \ {0}  BY DEF Wide
  <1>3. CASE v < w
    <2>1. w # 1  BY <1>2, <1>3
    <2>. QED  BY <1>1, <1>2, <1>3, <2>1 DEF Wide
  <1>4. CASE w < v
    <2>1. v # 1  BY <1>2, <1>4
    <2>. QED  BY <1>1, <1>2, <1>4, <2>1 DEF Wide
  <1>. QED  BY <1>2, <1>3, <1>4

(* A number below 10 is one digit; another one is the tenth of it with one *)
(* digit behind.                                                           *)
LEMMA OneDigit ==
  ASSUME NEW n \in 0..9
  PROVE  Wide(n, 10, 1) /\ Digits(n, 10, 1) = <<Char(n)>>
  <1> DEFINE p == Power(10)
  <1>1. p[0] = 1 /\ p[1] = 10
    <2>1. /\ p[0] = 1
          /\ \A k \in Nat : p[k] \in Nat \ {0} /\ p[k + 1] = 10 * p[k]
      <3>1. 10 \in Nat \ {0}  OBVIOUS
      <3>. QED  BY <3>1, PowerIs
    <2> HIDE DEF p
    <2>2. p[0 + 1] = 10 * p[0]  BY <2>1
    <2>. QED  BY <2>1, <2>2
  <1>2. Wide(n, 10, 1)  BY <1>1 DEF Wide
  <1>3. Digits(n, 10, 1) = [i \in 1..1 |-> Char((n \div p[1 - i]) % 10)]
    BY DEF Digits
  <1> HIDE DEF p
  <1>4. (n \div p[1 - 1]) % 10 = n
    <2>1. p[1 - 1] = 1  BY <1>1
    <2>. QED  BY <2>1
  <1>5. \A i \in 1..1 : i = 1  OBVIOUS
  <1>6. [i \in 1..1 |-> Char((n \div p[1 - i]) % 10)] = [i \in 1..1 |-> Char(n)]
    BY <1>4, <1>5
  <1> DEFINE c == Char(n)
  <1> HIDE DEF c
  <1>7. [i \in 1..1 |-> c] = <<c>>
    OBVIOUS
  <1>. QED  BY <1>2, <1>3, <1>6, <1>7 DEF c

LEMMA MoreDigits ==
  ASSUME NEW n \in Nat, n >= 10, NEW w, Wide(n, 10, w)
  PROVE  /\ w - 1 \in Nat /\ Wide(n \div 10, 10, w - 1)
         /\ Digits(n, 10, w) = Digits(n \div 10, 10, w - 1) \o <<Char(n % 10)>>
  <1> DEFINE p == Power(10)
             t == n \div 10
  <1>1. /\ p[0] = 1
        /\ \A k \in Nat : p[k] \in Nat \ {0} /\ p[k + 1] = 10 * p[k]
    <2>1. 10 \in Nat \ {0}  OBVIOUS
    <2>. QED  BY <2>1, PowerIs
  <1>2. w \in Nat \ {0} /\ n < p[w] /\ (w = 1 \/ p[w - 1] <= n)
    BY DEF Wide
  <1>3. Digits(n, 10, w) = [i \in 1..w |-> Char((n \div p[w - i]) % 10)]
        /\ Digits(t, 10, w - 1)
             = [i \in 1..(w - 1) |-> Char((t \div p[(w - 1) - i]) % 10)]
    BY DEF Digits
  <1>4. Wide(t, 10, w - 1) <=>
          /\ w - 1 \in Nat \ {0} /\ t < p[w - 1]
          /\ w - 1 = 1 \/ p[(w - 1) - 1] <= t
    BY DEF Wide
  <1>5. t \in Nat /\ n >= 10 * t /\ n < 10 * t + 10  OBVIOUS
  <1> HIDE DEF p, t
  <1>6. w # 1
    <2>1. p[0 + 1] = 10 * p[0]  BY <1>1
    <2>2. p[1] = 10  BY <1>1, <2>1
    <2>. QED  BY <1>2, <2>2
  <1>7. /\ w \in Nat /\ w - 1 \in Nat \ {0}
        /\ p[w] = 10 * p[w - 1] /\ p[w - 1] \in Nat
    <2>1. w - 1 \in Nat \ {0} /\ (w - 1) + 1 = w  BY <1>2, <1>6
    <2>2. p[(w - 1) + 1] = 10 * p[w - 1] /\ p[w - 1] \in Nat  BY <1>1, <2>1
    <2>. QED  BY <1>2, <2>1, <2>2
  <1>8. t < p[w - 1]  BY <1>2, <1>5, <1>7
  <1>9. ASSUME w - 1 # 1 PROVE p[(w - 1) - 1] <= t
    <2>1. (w - 1) - 1 \in Nat /\ ((w - 1) - 1) + 1 = w - 1  BY <1>7, <1>9
    <2>2. p[w - 1] = 10 * p[(w - 1) - 1] /\ p[(w - 1) - 1] \in Nat
      BY <1>1, <2>1
    <2>3. p[w - 1] <= n  BY <1>2, <1>6
    <2>. QED  BY <1>5, <2>2, <2>3
  <1>10. Wide(t, 10, w - 1)  BY <1>4, <1>7, <1>8, <1>9
  <1>11. ASSUME NEW i \in 1..(w - 1)
         PROVE  n \div p[w - i] = t \div p[(w - 1) - i]
    <2> DEFINE m == p[(w - 1) - i]
    <2>1. (w - 1) - i \in Nat /\ ((w - 1) - i) + 1 = w - i  BY <1>7
    <2>2. p[w - i] = 10 * m /\ m \in Nat \ {0}  BY <1>1, <2>1
    <2> HIDE DEF m
    <2>3. (n \div 10) \div m = n \div (10 * m)  BY <2>2
    <2>. QED  BY <2>2, <2>3 DEF m, t
  <1>12. n \div p[w - w] = n
    <2>1. p[w - w] = 1  BY <1>1, <1>2
    <2>. QED  BY <2>1
  <1> DEFINE a == Digits(n, 10, w)
             b == Digits(t, 10, w - 1)
             c == Char(n % 10)
             C == {Char((t \div p[(w - 1) - i]) % 10) : i \in 1..(w - 1)}
  <1>13. b \in Seq(C) /\ Len(b) = w - 1 /\ \A i \in 1..(w - 1) : b[i] = a[i]
    <2>1. b = [i \in 1..(w - 1) |-> Char((t \div p[(w - 1) - i]) % 10)]
      BY <1>3
    <2>2. \A i \in 1..(w - 1) : i \in 1..w  BY <1>7
    <2>3. \A i \in 1..(w - 1) : b[i] = a[i]  BY <1>3, <1>11, <2>1, <2>2
    <2>4. b \in [1..(w - 1) -> C]  BY <2>1
    <2> HIDE DEF b, C
    <2>5. w - 1 \in Nat  BY <1>7
    <2>. QED  BY <2>3, <2>4, <2>5
  <1>14. a[w] = c /\ a = [i \in 1..w |-> a[i]]
    <2>1. w \in 1..w  BY <1>2
    <2>. QED  BY <1>3, <1>12, <2>1
  <1> HIDE DEF a, b, c, C
  <1>15. b \o <<c>> = [i \in 1..w |-> a[i]]
    <2>1. b \o <<c>> = [i \in 1..(Len(b) + 1) |-> IF i <= Len(b) THEN b[i] ELSE c]
      BY <1>13
    <2>2. Len(b) + 1 = w  BY <1>7, <1>13
    <2>3. \A i \in 1..w : (IF i <= Len(b) THEN b[i] ELSE c) = a[i]
      <3>1. ASSUME NEW i \in 1..w PROVE (IF i <= Len(b) THEN b[i] ELSE c) = a[i]
        <4>1. CASE i <= Len(b)
          <5>1. i \in 1..(w - 1)  BY <1>13, <4>1
          <5>. QED  BY <1>13, <4>1, <5>1
        <4>2. CASE ~(i <= Len(b))
          <5>1. i = w  BY <1>7, <1>13, <4>2
          <5>. QED  BY <1>14, <4>2, <5>1
        <4>. QED  BY <4>1, <4>2
      <3>. QED  BY <3>1
    <2>. QED  BY <2>1, <2>2, <2>3
  <1>16. a = b \o <<c>>  BY <1>14, <1>15
  <1>. QED  BY <1>7, <1>10, <1>16 DEF a, b, c, t

(* Both ways of the code to take a number apart give its digits.           *)
LEMMA DecimalIs ==
  ASSUME NEW n \in Nat, NEW w, Wide(n, 10, w)
  PROVE  Decimal[n] = Digits(n, 10, w) /\ PutNbr[n] = Digits(n, 10, w)
  <1> DEFINE W(m) == CHOOSE v : Wide(m, 10, v)
             D == [m \in Nat |-> Digits(m, 10, W(m))]
             Eq(f) == f = [m \in Nat |-> IF m < 10 THEN <<Char(m)>>
                                         ELSE f[m \div 10] \o <<Char(m % 10)>>]
             Puts(f) == f = [m \in Nat |-> IF m >= 10 THEN f[m \div 10] \o f[m % 10]
                                           ELSE <<Char(m)>>]
  <1>1. ASSUME NEW m \in Nat PROVE Wide(m, 10, W(m))
    <2>1. \E v \in Nat : Wide(m, 10, v)
      <3>1. 10 \in Nat \ {0, 1}  OBVIOUS
      <3>. QED  BY <3>1, WidthExists
    <2>. QED  BY <2>1
  <1> HIDE DEF W
  <1>2. ASSUME NEW m \in Nat, NEW v, Wide(m, 10, v)
        PROVE  D[m] = Digits(m, 10, v)
    <2>1. 10 \in Nat \ {0, 1}  OBVIOUS
    <2>2. W(m) = v  BY <1>1, <1>2, <2>1, WidthIsOne
    <2>. QED  BY <2>2
  <1>3. D = [m \in Nat |-> D[m]]  OBVIOUS
  <1> HIDE DEF D
  <1>4. \A m \in 0..9 : D[m] = <<Char(m)>>
    <2>1. ASSUME NEW m \in 0..9 PROVE D[m] = <<Char(m)>>
      <3>1. m \in Nat  OBVIOUS
      <3>2. Wide(m, 10, 1) /\ Digits(m, 10, 1) = <<Char(m)>>  BY OneDigit
      <3>. QED  BY <1>2, <3>1, <3>2
    <2>. QED  BY <2>1
  <1>5. ASSUME NEW m \in Nat, m >= 10
        PROVE  /\ m \div 10 \in Nat /\ m % 10 \in 0..9 /\ m \div 10 < m
               /\ D[m] = D[m \div 10] \o <<Char(m % 10)>>
    <2>1. m \div 10 \in Nat /\ m % 10 \in 0..9 /\ m \div 10 < m  BY <1>5
    <2> DEFINE v == W(m)
    <2>2. Wide(m, 10, v)  BY <1>1
    <2> HIDE DEF v
    <2>3. /\ Wide(m \div 10, 10, v - 1)
          /\ Digits(m, 10, v) = Digits(m \div 10, 10, v - 1) \o <<Char(m % 10)>>
      BY <1>5, <2>2, MoreDigits
    <2>4. D[m] = Digits(m, 10, v)  BY <1>2, <2>2
    <2> DEFINE t == m \div 10
    <2>5. t \in Nat /\ Wide(t, 10, v - 1)  BY <2>1, <2>3
    <2> HIDE DEF t
    <2>6. D[t] = Digits(t, 10, v - 1)  BY <1>2, <2>5
    <2>. QED  BY <2>1, <2>3, <2>4, <2>6 DEF t
  <1>6. Eq(D)
    <2>1. ASSUME NEW m \in Nat
          PROVE  D[m] = IF m < 10 THEN <<Char(m)>>
                        ELSE D[m \div 10] \o <<Char(m % 10)>>
      <3>1. CASE m < 10
        <4>1. m \in 0..9  BY <3>1
        <4>. QED  BY <1>4, <3>1, <4>1
      <3>2. CASE ~(m < 10)
        <4>1. m >= 10  BY <3>2
        <4>. QED  BY <1>5, <3>2, <4>1
      <3>. QED  BY <3>1, <3>2
    <2>. QED  BY <1>3, <2>1
  <1>7. Puts(D)
    <2>1. ASSUME NEW m \in Nat
          PROVE  D[m] = IF m >= 10 THEN D[m \div 10] \o D[m % 10]
                        ELSE <<Char(m)>>
      <3>1. CASE m >= 10
        <4>1. D[m % 10] = <<Char(m % 10)>>  BY <1>4, <1>5, <3>1
        <4>. QED  BY <1>5, <3>1, <4>1
      <3>2. CASE ~(m >= 10)
        <4>1. m \in 0..9  BY <3>2
        <4>. QED  BY <1>4, <3>2, <4>1
      <3>. QED  BY <3>1, <3>2
    <2>. QED  BY <1>3, <2>1
  <1>8. ASSUME NEW f, \A m \in Nat : (\A l \in Nat : l < m => f[l] = D[l]) => f[m] = D[m]
        PROVE  f[n] = D[n]
    <2> DEFINE Bad == {m \in Nat : f[m] # D[m]}
    <2>1. ASSUME Bad # {} PROVE FALSE
      <3>1. PICK m \in Bad : \A l \in Bad : m <= l
        <4>1. Bad \in SUBSET Nat  OBVIOUS
        <4> HIDE DEF Bad
        <4>. QED  BY <2>1, <4>1, LeastNumber
      <3>2. \A l \in Nat : l < m => f[l] = D[l]
        <4>1. ASSUME NEW l \in Nat, l < m PROVE f[l] = D[l]
          <5>1. ~(m <= l)  BY <4>1
          <5>. QED  BY <3>1, <5>1
        <4>. QED  BY <4>1
      <3>. QED  BY <1>8, <3>2
    <2>. QED  BY <2>1
  <1>9. Decimal[n] = D[n]
    <2> DEFINE f == CHOOSE f : Eq(f)
    <2>1. Eq(f)  BY <1>6
    <2>2. Decimal = f  BY DEF Decimal
    <2> HIDE DEF f
    <2>3. ASSUME NEW m \in Nat, \A l \in Nat : l < m => f[l] = D[l]
          PROVE  f[m] = D[m]
      <3>1. f[m] = IF m < 10 THEN <<Char(m)>> ELSE f[m \div 10] \o <<Char(m % 10)>>
        BY <2>1
      <3>2. CASE m < 10
        <4>1. m \in 0..9  BY <3>2
        <4>. QED  BY <1>4, <3>1, <3>2, <4>1
      <3>3. CASE ~(m < 10)
        <4>1. m >= 10  BY <3>3
        <4>2. m \div 10 \in Nat /\ m \div 10 < m  BY <1>5, <4>1
        <4>3. f[m \div 10] = D[m \div 10]  BY <2>3, <4>2
        <4>. QED  BY <1>5, <3>1, <3>3, <4>1, <4>3
      <3>. QED  BY <3>2, <3>3
    <2>. QED  BY <1>8, <2>2, <2>3
  <1>10. PutNbr[n] = D[n]
    <2> DEFINE f == CHOOSE f : Puts(f)
    <2>1. Puts(f)  BY <1>7
    <2>2. PutNbr = f  BY DEF PutNbr
    <2> HIDE DEF f
    <2>3. ASSUME NEW m \in Nat, \A l \in Nat : l < m => f[l] = D[l]
          PROVE  f[m] = D[m]
      <3>1. f[m] = IF m >= 10 THEN f[m \div 10] \o f[m % 10] ELSE <<Char(m)>>
        BY <2>1
      <3>2. CASE ~(m >= 10)
        <4>1. m \in 0..9  BY <3>2
        <4>. QED  BY <1>4, <3>1, <3>2, <4>1
      <3>3. CASE m >= 10
        <4>1. m \div 10 \in Nat /\ m \div 10 < m /\ m % 10 \in 0..9
          BY <1>5, <3>3
        <4>2. m % 10 \in Nat /\ m % 10 < m  BY <3>3, <4>1
        <4>3. f[m \div 10] = D[m \div 10] /\ f[m % 10] = D[m % 10]
          BY <2>3, <4>1, <4>2
        <4>4. D[m % 10] = <<Char(m % 10)>>  BY <1>4, <4>1
        <4>5. D[m] = D[m \div 10] \o <<Char(m % 10)>>  BY <1>5, <3>3
        <4>6. f[m] = f[m \div 10] \o f[m % 10]  BY <3>1, <3>3
        <4>. QED  BY <4>3, <4>4, <4>5, <4>6
      <3>. QED  BY <3>2, <3>3
    <2>. QED  BY <1>8, <2>2, <2>3
  <1>. QED  BY <1>2, <1>9, <1>10

(* Shifting a word by k digits divides it by 16^k.                         *)
LEMMA HexDigitsAre ==
  ASSUME NEW a \in Nat
  PROVE  \A i \in 1..16 : HexDigits(a)[i] = (a \div Power(16)[16 - i]) % 16
  <1> DEFINE p == Power(16)
             Eq(f) == f = [k \in 0..15 |-> IF k = 0 THEN a ELSE f[k - 1] \div 16]
             s == CHOOSE f : Eq(f)
             g == [k \in 0..15 |-> a \div p[k]]
  <1>1. p[0] = 1 /\ \A k \in Nat : p[k] \in Nat \ {0} /\ p[k + 1] = 16 * p[k]
    <2>1. 16 \in Nat \ {0}  OBVIOUS
    <2>. QED  BY <2>1, PowerIs
  <1> HIDE DEF p
  <1>2. ASSUME NEW k \in 1..15 PROVE a \div p[k] = (a \div p[k - 1]) \div 16
    <2> DEFINE m == p[k - 1]
    <2>1. k - 1 \in Nat /\ (k - 1) + 1 = k  OBVIOUS
    <2>2. p[k] = 16 * m /\ m \in Nat \ {0}
      <3>1. p[(k - 1) + 1] = 16 * p[k - 1]  BY <1>1, <2>1
      <3>. QED  BY <1>1, <2>1, <3>1
    <2> HIDE DEF m
    <2>3. (a \div m) \div 16 = a \div (m * 16)  BY <2>2
    <2>4. m * 16 = 16 * m  BY <2>2
    <2>. QED  BY <2>2, <2>3, <2>4 DEF m
  <1>3. a \div p[0] = a
    <2>1. p[0] = 1  BY <1>1
    <2>. QED  BY <2>1
  <1>4. Eq(g)
    <2>1. ASSUME NEW k \in 0..15
          PROVE  g[k] = IF k = 0 THEN a ELSE g[k - 1] \div 16
      <3>1. CASE k = 0  BY <1>3, <3>1
      <3>2. CASE k # 0
        <4>1. k \in 1..15 /\ k - 1 \in 0..15  BY <3>2
        <4>. QED  BY <1>2, <3>2, <4>1
      <3>. QED  BY <3>1, <3>2
    <2>. QED  BY <2>1
  <1>5. Eq(s)  BY <1>4
  <1>6. HexDigits(a) = [i \in 1..16 |-> s[16 - i] % 16]  BY DEF HexDigits
  <1> HIDE DEF s, g
  <1>7. s[0] = a /\ \A k \in 1..15 : s[k] = s[k - 1] \div 16  BY <1>5
  <1> DEFINE Bad == {k \in 0..15 : s[k] # a \div p[k]}
  <1>8. ASSUME Bad # {} PROVE FALSE
    <2>1. PICK m \in Bad : \A l \in Bad : m <= l
      <3>1. Bad \in SUBSET Nat  OBVIOUS
      <3> HIDE DEF Bad
      <3>. QED  BY <1>8, <3>1, LeastNumber
    <2>2. m \in 0..15 /\ s[m] # a \div p[m]  OBVIOUS
    <2>3. m # 0  BY <1>3, <1>7, <2>2
    <2>4. m \in 1..15 /\ m - 1 \in 0..15 /\ ~(m <= m - 1)  BY <2>2, <2>3
    <2>5. s[m - 1] = a \div p[m - 1]  BY <2>1, <2>4
    <2>. QED  BY <1>2, <1>7, <2>2, <2>4, <2>5
  <1>9. ASSUME NEW i \in 1..16 PROVE HexDigits(a)[i] = (a \div p[16 - i]) % 16
    <2>1. 16 - i \in 0..15  OBVIOUS
    <2>2. s[16 - i] = a \div p[16 - i]  BY <1>8, <2>1
    <2>. QED  BY <1>6, <2>2
  <1>. QED  BY <1>9 DEF p

(* What _format_adder writes of an address is its number in base 16: the   *)
(* digits it drops are the leading zeros.                                  *)
LEMMA FormatAdderIs ==
  ASSUME NEW a \in Nat \ {0}, NEW w \in 1..16, Wide(a, 16, w)
  PROVE  FormatAdder(a) = <<"0", "x">> \o Digits(a, 16, w)
  <1> DEFINE p == Power(16)
             digits == HexDigits(a)
             found == {i \in 1..16 : \E j \in 1..i : digits[j] # 0}
  <1>1. p[0] = 1 /\ \A k \in Nat : p[k] \in Nat \ {0} /\ p[k + 1] = 16 * p[k]
    <2>1. 16 \in Nat \ {0}  OBVIOUS
    <2>. QED  BY <2>1, PowerIs
  <1>2. \A i \in 1..16 : digits[i] = (a \div p[16 - i]) % 16
    BY HexDigitsAre
  <1>3. a < p[w] /\ (w = 1 \/ p[w - 1] <= a)  BY DEF Wide
  <1>4. ASSUME NEW i \in 1..(16 - w) PROVE digits[i] = 0
    <2>1. 16 - i \in Nat /\ w \in 0..(16 - i) /\ w \in Nat /\ i \in 1..16  OBVIOUS
    <2>2. p[w] <= p[16 - i]
      <3>1. 16 \in Nat \ {0, 1}  OBVIOUS
      <3>. QED  BY <2>1, <3>1, PowersGrow
    <2> DEFINE m == p[16 - i]
    <2>3. m \in Nat \ {0} /\ p[w] \in Nat  BY <1>1, <2>1
    <2>4. a < m
      <3> HIDE DEF p
      <3>. QED  BY <1>3, <2>2, <2>3
    <2> HIDE DEF m
    <2>5. a \div m = 0  BY <2>3, <2>4
    <2>6. digits[i] = (a \div m) % 16  BY <1>2, <2>1 DEF m
    <2>. QED  BY <2>5, <2>6
  <1>5. digits[17 - w] # 0
    <2> DEFINE m == p[w - 1]
    <2>1. 16 - (17 - w) = w - 1 /\ 17 - w \in 1..16 /\ w - 1 \in Nat
          /\ (w - 1) + 1 = w
      OBVIOUS
    <2>2. m \in Nat \ {0} /\ m <= a /\ a < 16 * m
      <3>1. p[(w - 1) + 1] = 16 * p[w - 1]  BY <1>1, <2>1
      <3>2. a < 16 * m  BY <1>3, <2>1, <3>1
      <3>3. m <= a
        <4>1. CASE w = 1
          <5>1. m = 1  BY <1>1, <4>1
          <5> HIDE DEF m
          <5>. QED  BY <5>1
        <4>2. CASE w # 1  BY <1>3, <4>2
        <4>. QED  BY <4>1, <4>2
      <3>. QED  BY <1>1, <2>1, <3>2, <3>3
    <2>3. digits[17 - w] = (a \div m) % 16
      <3> HIDE DEF digits, p
      <3>. QED  BY <1>2, <2>1
    <2> HIDE DEF m
    <2>4. a \div m \in 1..15
      <3> DEFINE q == a \div m
      <3>1. q \in Nat /\ m * q <= a /\ a < m * q + m
        BY <2>2
      <3> HIDE DEF q
      <3>2. q # 0
        <4>1. q = 0 => m * q = 0  BY <2>2
        <4>. QED  BY <2>2, <3>1, <4>1
      <3>3. q < 16
        <4>1. ASSUME q >= 16 PROVE FALSE
          <5>1. PICK d \in Nat : q = 16 + d
            <6>1. q - 16 \in Nat /\ q = 16 + (q - 16)  BY <3>1, <4>1
            <6>. QED  BY <6>1
          <5>2. m * q = 16 * m + m * d /\ m * d \in Nat  BY <2>2, <5>1
          <5> DEFINE x == m * q
                     y == m * d
          <5>3. x = 16 * m + y /\ y \in Nat /\ x <= a  BY <3>1, <5>2
          <5> HIDE DEF x, y
          <5>. QED  BY <2>2, <5>3
        <4>. QED  BY <3>1, <4>1
      <3>. QED  BY <3>1, <3>2, <3>3 DEF q
    <2>5. (a \div m) % 16 # 0
      <3> DEFINE q == a \div m
      <3>1. q \in 1..15  BY <2>4
      <3> HIDE DEF q
      <3>2. q % 16 # 0  BY <3>1
      <3>. QED  BY <3>2 DEF q
    <2>. QED  BY <2>3, <2>5
  <1>6. found = (17 - w)..16
    <2> HIDE DEF digits
    <2>1. ASSUME NEW i \in found PROVE i \in (17 - w)..16
      <3>1. PICK j \in 1..i : digits[j] # 0  OBVIOUS
      <3>2. i \in 1..16  OBVIOUS
      <3>3. ~(j \in 1..(16 - w))  BY <1>4, <3>1
      <3>. QED  BY <3>2, <3>3
    <2>2. ASSUME NEW i \in (17 - w)..16 PROVE i \in found
      <3>1. i \in 1..16 /\ 17 - w \in 1..i  OBVIOUS
      <3>. QED  BY <1>5, <3>1
    <2> HIDE DEF found
    <2>. QED  BY <2>1, <2>2
  <1>7. Cardinality(found) = w
    <2>1. 17 - w \in Int /\ 16 \in Int /\ 17 - w <= 16 /\ 16 - (17 - w) + 1 = w
      OBVIOUS
    <2>2. Cardinality((17 - w)..16) = w
      BY <2>1, FS_Interval
    <2>. QED  BY <1>6, <2>2
  <1>8. FormatAdder(a) = <<"0", "x">> \o [i \in 1..Cardinality(found) |->
                            Char(digits[16 - Cardinality(found) + i])]
    BY DEF FormatAdder
  <1> HIDE DEF digits, found, p
  <1>9. \A i \in 1..w : digits[16 - w + i] = (a \div p[w - i]) % 16
    <2>1. ASSUME NEW i \in 1..w
          PROVE  digits[16 - w + i] = (a \div p[w - i]) % 16
      <3>1. 16 - w + i \in 1..16 /\ 16 - (16 - w + i) = w - i  OBVIOUS
      <3>. QED  BY <1>2, <3>1
    <2>. QED  BY <2>1
  <1>10. [i \in 1..w |-> Char(digits[16 - w + i])] = Digits(a, 16, w)
    BY <1>9 DEF Digits, p
  <1>. QED  BY <1>7, <1>8, <1>10

(* The characters of the texts; NUL is none of them.                       *)
Chars ==
  {"0", "1", "2", "3", "4", "5", "6", "7", "8", "9",
   "A", "B", "C", "D", "E", "F", "x",
   "nl", "leak-info", "total-allocations", "total-leaked-bytes", "leak-stars",
   "malloc-abort", "adder", "]", "abort-stars", "reason",
   "-", ":", "bytes", "total", "tiny", "small", "large"}

LEMMA NoNulInChars ==
  NUL \notin Chars
  BY DEF NUL, Chars

LEMMA CharIs ==
  \A d \in 0..15 : Char(d) \in Chars
  <1>1. ASSUME NEW d \in 0..15 PROVE Char(d) \in Chars
    <2>1. /\ Char(0) = "0" /\ Char(1) = "1" /\ Char(2) = "2" /\ Char(3) = "3"
          /\ Char(4) = "4" /\ Char(5) = "5" /\ Char(6) = "6" /\ Char(7) = "7"
          /\ Char(8) = "8" /\ Char(9) = "9" /\ Char(10) = "A" /\ Char(11) = "B"
          /\ Char(12) = "C" /\ Char(13) = "D" /\ Char(14) = "E" /\ Char(15) = "F"
      BY DEF Char, HexChars
    <2>2. \/ d = 0 \/ d = 1 \/ d = 2 \/ d = 3 \/ d = 4 \/ d = 5 \/ d = 6 \/ d = 7
          \/ d = 8 \/ d = 9 \/ d = 10 \/ d = 11 \/ d = 12 \/ d = 13 \/ d = 14 \/ d = 15
      OBVIOUS
    <2>. QED  BY <2>1, <2>2 DEF Chars
  <1>. QED  BY <1>1

(* A numeral is the digits of a number.                                    *)
LEMMA NumeralIs ==
  ASSUME NEW base \in {10, 16}, NEW n \in Nat, NEW d \in 0..20, Fits(n, base, d)
  PROVE  \E w \in 1..d : /\ Wide(n, base, w)
                         /\ Numeral(n, base) = Digits(n, base, w)
                         /\ Numeral(n, base) \in Seq(Chars)
                         /\ Len(Numeral(n, base)) = w
  <1> DEFINE Fit(k) == n < Power(base)[k] /\ (k = 1 \/ Power(base)[k - 1] <= n)
             v == CHOOSE k \in 1..20 : Fit(k)
  <1>1. base \in Nat \ {0, 1} /\ base \in Nat \ {0} /\ d \in Nat  OBVIOUS
  <1>2. PICK w \in 1..d : Wide(n, base, w)  BY <1>1, WidthExists
  <1>3. w \in 1..20 /\ Fit(w)  BY <1>2 DEF Wide
  <1>4. v \in 1..20 /\ Fit(v)
    <2> HIDE DEF Fit
    <2>. QED  BY <1>3
  <1>5. Wide(n, base, v)
    <2> HIDE DEF v
    <2>1. v \in Nat \ {0}  BY <1>4
    <2>. QED  BY <1>4, <2>1 DEF Wide
  <1>6. Numeral(n, base) = [i \in 1..v |-> Char((n \div Power(base)[v - i]) % base)]
    BY DEF Numeral
  <1> HIDE DEF v, Fit
  <1>7. v = w  BY <1>1, <1>2, <1>5, WidthIsOne
  <1>8. Numeral(n, base) = Digits(n, base, w)  BY <1>6, <1>7 DEF Digits
  <1>9. \A i \in 1..w : Char((n \div Power(base)[w - i]) % base) \in Chars
    <2>1. ASSUME NEW i \in 1..w
          PROVE  Char((n \div Power(base)[w - i]) % base) \in Chars
      <3>1. w - i \in Nat  BY <1>3
      <3> DEFINE q == n \div Power(base)[w - i]
      <3>2. q \in Nat
        <4> DEFINE m == Power(base)[w - i]
        <4>1. m \in Nat \ {0}  BY <1>1, <3>1, PowerIs
        <4> HIDE DEF m
        <4>2. n \div m \in Nat  BY <4>1
        <4>. QED  BY <4>2 DEF m
      <3> HIDE DEF q
      <3>3. q % base \in 0..15
        <4>1. q % 10 \in 0..15 /\ q % 16 \in 0..15  BY <3>2
        <4>. QED  BY <4>1
      <3>4. Char(q % base) \in Chars  BY <3>3, CharIs
      <3>. QED  BY <3>4 DEF q
    <2>. QED  BY <2>1
  <1>10. Digits(n, base, w) \in Seq(Chars) /\ Len(Digits(n, base, w)) = w
    <2>1. w \in Nat  BY <1>3
    <2>2. Digits(n, base, w) \in [1..w -> Chars]
      BY <1>9 DEF Digits
    <2> DEFINE f == Digits(n, base, w)
    <2> HIDE DEF f
    <2>3. ASSUME f \in [1..w -> Chars] PROVE f \in Seq(Chars) /\ Len(f) = w
      BY <2>1, <2>3
    <2>. QED  BY <2>2, <2>3 DEF f
  <1>. QED  BY <1>2, <1>8, <1>10

(* What the code writes of a number is its numeral.                        *)
LEMMA DecimalIsNumeral ==
  ASSUME NEW n \in Numbers
  PROVE  /\ Decimal[n] = Numeral(n, 10) /\ PutNbr[n] = Numeral(n, 10)
         /\ Numeral(n, 10) \in Seq(Chars) /\ Len(Numeral(n, 10)) \in 1..20
  <1>1. n \in Nat /\ Fits(n, 10, 20)  BY MessagesAssumption
  <1>2. 10 \in {10, 16} /\ 20 \in 0..20  OBVIOUS
  <1>3. PICK w \in 1..20 : /\ Wide(n, 10, w)
                           /\ Numeral(n, 10) = Digits(n, 10, w)
                           /\ Numeral(n, 10) \in Seq(Chars)
                           /\ Len(Numeral(n, 10)) = w
    BY <1>1, <1>2, NumeralIs
  <1>. QED  BY <1>1, <1>3, DecimalIs

LEMMA AdderIsHex ==
  ASSUME NEW a \in Nat \ {0}, Fits(a, 16, 16)
  PROVE  /\ FormatAdder(a) = Hex(a)
         /\ Hex(a) \in Seq(Chars) /\ Len(Hex(a)) \in 3..18
  <1>1. 16 \in {10, 16} /\ 16 \in 0..20 /\ a \in Nat  OBVIOUS
  <1>2. PICK w \in 1..16 : /\ Wide(a, 16, w)
                           /\ Numeral(a, 16) = Digits(a, 16, w)
                           /\ Numeral(a, 16) \in Seq(Chars)
                           /\ Len(Numeral(a, 16)) = w
    BY <1>1, NumeralIs
  <1>3. FormatAdder(a) = <<"0", "x">> \o Numeral(a, 16)  BY <1>2, FormatAdderIs
  <1> DEFINE t == <<"0", "x">>
             s == Numeral(a, 16)
  <1>4. t \in Seq(Chars) /\ Len(t) = 2
    <2>1. "0" \in Chars /\ "x" \in Chars  BY DEF Chars
    <2>. QED  BY <2>1
  <1> HIDE DEF t, s
  <1>5. s \in Seq(Chars) /\ Len(s) = w  BY <1>2 DEF s
  <1>6. t \o s \in Seq(Chars) /\ Len(t \o s) = 2 + w
    <2>1. /\ t \o s \in Seq(Chars)
          /\ Len(t \o s) = Len(t) + Len(s)
      BY <1>4, <1>5, ConcatProperties
    <2>. QED  BY <1>4, <1>5, <2>1
  <1>7. 2 + w \in 3..18  OBVIOUS
  <1>. QED  BY <1>3, <1>6, <1>7 DEF Hex, s, t

-----------------------------------------------------------------------------
(* What a reader sees of a text                                            *)

Symbols == Chars \cup {NUL}

Seeing(s, f) ==
  /\ f[0] = << >>
  /\ \A i \in 1..Len(s) :
       f[i] = IF s[i] = NUL THEN f[i - 1] ELSE Append(f[i - 1], s[i])

LEMMA VisibleIs ==
  ASSUME NEW s \in Seq(Symbols)
  PROVE  /\ \E f \in [0..Len(s) -> Seq(Chars)] : Seeing(s, f) /\ Visible(s) = f[Len(s)]
         /\ \A f : Seeing(s, f) => Visible(s) = f[Len(s)]
  <1> DEFINE n == Len(s)
             T == Seq(Chars)
             none == << >>
             G == [x \in T \X (1..n) |-> IF s[x[2]] = NUL THEN x[1]
                                         ELSE Append(x[1], s[x[2]])]
             Eq(f) == f = [i \in 0..n |-> IF i = 0 THEN << >>
                             ELSE IF s[i] = NUL THEN f[i - 1]
                             ELSE Append(f[i - 1], s[i])]
             r == CHOOSE f : Eq(f)
  <1>1. n \in Nat /\ \A i \in 1..n : s[i] # NUL => s[i] \in Chars
    <2>1. \A i \in 1..n : s[i] \in Symbols  OBVIOUS
    <2>. QED  BY <2>1 DEF Symbols
  <1>2. G \in [T \X (1..n) -> T]
    <2>1. ASSUME NEW x \in T \X (1..n)
          PROVE  (IF s[x[2]] = NUL THEN x[1] ELSE Append(x[1], s[x[2]])) \in T
      <3>1. x[1] \in Seq(Chars) /\ x[2] \in 1..n  OBVIOUS
      <3>2. CASE s[x[2]] = NUL  BY <3>1, <3>2
      <3>3. CASE s[x[2]] # NUL
        <4> DEFINE a == x[1]
                   e == s[x[2]]
        <4>1. a \in Seq(Chars) /\ e \in Chars  BY <1>1, <3>1, <3>3
        <4> HIDE DEF a, e
        <4>2. Append(a, e) \in Seq(Chars)  BY <4>1
        <4>. QED  BY <3>3, <4>2 DEF a, e
      <3>. QED  BY <3>2, <3>3
    <2> HIDE DEF T
    <2>. QED  BY <2>1
  <1>3. \A a \in T, i \in 1..n :
          G[<<a, i>>] = IF s[i] = NUL THEN a ELSE Append(a, s[i])
    OBVIOUS
  <1>4. none \in T  OBVIOUS
  <1> HIDE DEF G, T, none
  <1>5. PICK g \in [0..n -> T] : Computes(G, none, n, g)
    BY <1>1, <1>2, <1>4, RecursionExists
  <1>6. Seeing(s, g)
    <2>1. ASSUME NEW i \in 1..n
          PROVE  g[i] = IF s[i] = NUL THEN g[i - 1] ELSE Append(g[i - 1], s[i])
      <3>1. i - 1 \in 0..n  BY <1>1
      <3>. QED  BY <1>3, <1>5, <3>1 DEF Computes
    <2>2. g[0] = << >>  BY <1>5 DEF Computes, none
    <2>. QED  BY <2>1, <2>2 DEF Seeing
  <1>7. Eq(g)
    <2>1. ASSUME NEW i \in 0..n
          PROVE  g[i] = IF i = 0 THEN << >>
                        ELSE IF s[i] = NUL THEN g[i - 1]
                        ELSE Append(g[i - 1], s[i])
      <3>1. CASE i = 0  BY <1>6, <3>1 DEF Seeing
      <3>2. CASE i # 0
        <4>1. i \in 1..n  BY <1>1, <3>2
        <4>. QED  BY <1>6, <3>2, <4>1 DEF Seeing
      <3>. QED  BY <3>1, <3>2
    <2>. QED  BY <1>5, <2>1
  <1>8. Eq(r)  BY <1>7
  <1>9. Visible(s) = r[n]  BY DEF Visible
  <1> HIDE DEF r
  <1>10. Seeing(s, r)
    <2>1. r[0] = << >>  BY <1>1, <1>8
    <2>2. ASSUME NEW i \in 1..n
          PROVE  r[i] = IF s[i] = NUL THEN r[i - 1] ELSE Append(r[i - 1], s[i])
      <3>1. i \in 0..n /\ i # 0  BY <1>1
      <3>. QED  BY <1>8, <3>1
    <2>. QED  BY <2>1, <2>2 DEF Seeing
  <1> HIDE DEF Eq
  <1>11. ASSUME NEW f, Seeing(s, f) PROVE f[n] = r[n]
    <2> DEFINE Bad == {i \in 0..n : f[i] # r[i]}
    <2>1. ASSUME Bad # {} PROVE FALSE
      <3>1. PICK m \in Bad : \A l \in Bad : m <= l
        <4>1. Bad \in SUBSET Nat  OBVIOUS
        <4> HIDE DEF Bad
        <4>. QED  BY <2>1, <4>1, LeastNumber
      <3>2. m \in 0..n /\ f[m] # r[m]  OBVIOUS
      <3>3. m # 0  BY <1>10, <1>11, <3>2 DEF Seeing
      <3>4. m \in 1..n /\ m - 1 \in 0..n /\ ~(m <= m - 1)  BY <1>1, <3>2, <3>3
      <3>5. f[m - 1] = r[m - 1]  BY <3>1, <3>4
      <3>. QED  BY <1>10, <1>11, <3>2, <3>4, <3>5 DEF Seeing
    <2>2. n \in 0..n  BY <1>1
    <2>. QED  BY <2>1, <2>2
  <1>12. g[n] = r[n]  BY <1>6, <1>11
  <1>. QED  BY <1>5, <1>6, <1>9, <1>11, <1>12 DEF T

LEMMA VisibleType ==
  ASSUME NEW s \in Seq(Symbols)
  PROVE  Visible(s) \in Seq(Chars)
  <1>1. PICK f \in [0..Len(s) -> Seq(Chars)] : Visible(s) = f[Len(s)]
    BY VisibleIs
  <1>2. Len(s) \in 0..Len(s)  OBVIOUS
  <1>. QED  BY <1>1, <1>2

(* Two texts one after the other are seen one after the other.             *)
LEMMA VisibleConcat ==
  ASSUME NEW s \in Seq(Symbols), NEW t \in Seq(Symbols)
  PROVE  Visible(s \o t) = Visible(s) \o Visible(t)
  <1> DEFINE m == Len(s)
             n == Len(t)
             u == s \o t
  <1>1. /\ m \in Nat /\ n \in Nat /\ u \in Seq(Symbols) /\ Len(u) = m + n
        /\ \A i \in 1..(m + n) : u[i] = IF i <= m THEN s[i] ELSE t[i - m]
    BY ConcatProperties
  <1>2. PICK f \in [0..m -> Seq(Chars)] : Seeing(s, f) /\ Visible(s) = f[m]
    BY VisibleIs
  <1>3. PICK g \in [0..n -> Seq(Chars)] : Seeing(t, g) /\ Visible(t) = g[n]
    BY VisibleIs
  <1> DEFINE h == [i \in 0..(m + n) |-> IF i <= m THEN f[i] ELSE f[m] \o g[i - m]]
  <1> HIDE DEF u
  <1>4. f[m] \in Seq(Chars) /\ f[m] \o g[0] = f[m]
    <2>1. m \in 0..m  BY <1>1
    <2>2. f[m] \in Seq(Chars)  BY <1>2, <2>1
    <2> DEFINE a == f[m]
    <2> HIDE DEF a
    <2>3. a \in Seq(Chars) => a \o << >> = a  OBVIOUS
    <2>4. g[0] = << >>  BY <1>3 DEF Seeing
    <2>. QED  BY <2>2, <2>3, <2>4 DEF a
  <1> HIDE DEF m, n
  <1>5. /\ \A i \in 0..m : h[i] = f[i]
        /\ \A j \in 0..n : h[m + j] = f[m] \o g[j]
    <2>1. ASSUME NEW i \in 0..m PROVE h[i] = f[i]
      <3>1. i \in 0..(m + n) /\ i <= m  BY <1>1
      <3>. QED  BY <3>1
    <2>2. ASSUME NEW j \in 0..n PROVE h[m + j] = f[m] \o g[j]
      <3>1. m + j \in 0..(m + n) /\ (m + j) - m = j /\ (m + j <= m => j = 0)
        BY <1>1
      <3>2. CASE j = 0
        <4>1. m + 0 = m /\ m \in 0..m  BY <1>1
        <4>2. h[m] = f[m]  BY <2>1, <4>1
        <4>. QED  BY <1>4, <3>2, <4>1, <4>2
      <3>3. CASE j # 0  BY <3>1, <3>3
      <3>. QED  BY <3>2, <3>3
    <2>. QED  BY <2>1, <2>2
  <1> HIDE DEF h
  <1>6. h[0] = << >>
    <2>1. 0 \in 0..m  BY <1>1
    <2>2. h[0] = f[0]  BY <1>5, <2>1
    <2>. QED  BY <1>2, <2>2 DEF Seeing
  <1>7. ASSUME NEW i \in 1..(m + n)
        PROVE  h[i] = IF u[i] = NUL THEN h[i - 1] ELSE Append(h[i - 1], u[i])
    <2>1. CASE i <= m
      <3>1. i \in 1..m /\ i - 1 \in 0..m /\ i \in 0..m  BY <1>1, <2>1
      <3>2. u[i] = s[i]  BY <1>1, <2>1
      <3>3. f[i] = IF s[i] = NUL THEN f[i - 1] ELSE Append(f[i - 1], s[i])
        BY <1>2, <3>1 DEF Seeing, m
      <3>. QED  BY <1>5, <3>1, <3>2, <3>3
    <2>2. CASE ~(i <= m)
      <3> DEFINE j == i - m
      <3>1. /\ j \in 1..n /\ j - 1 \in 0..n /\ j \in 0..n
            /\ m + j = i /\ m + (j - 1) = i - 1
        BY <1>1, <2>2
      <3>2. u[i] = t[j]  BY <1>1, <2>2
      <3> HIDE DEF j
      <3>3. g[j] = IF t[j] = NUL THEN g[j - 1] ELSE Append(g[j - 1], t[j])
        BY <1>3, <3>1 DEF Seeing, n
      <3>4. h[i] = f[m] \o g[j] /\ h[i - 1] = f[m] \o g[j - 1]
        BY <1>5, <3>1
      <3> DEFINE a == f[m]
                 b == g[j - 1]
                 e == t[j]
      <3>5. a \in Seq(Chars) /\ b \in Seq(Chars)  BY <1>3, <1>4, <3>1
      <3> HIDE DEF a, b, e
      <3>6. a \o Append(b, e) = Append(a \o b, e)  BY <3>5
      <3>7. CASE t[j] = NUL  BY <3>2, <3>3, <3>4, <3>7
      <3>8. CASE t[j] # NUL
        <4>1. h[i] = a \o Append(b, e)  BY <3>3, <3>4, <3>8 DEF a, b, e
        <4>2. Append(h[i - 1], u[i]) = Append(a \o b, e)
          BY <3>2, <3>4 DEF a, b, e
        <4>. QED  BY <3>2, <3>6, <3>8, <4>1, <4>2
      <3>. QED  BY <3>7, <3>8
    <2>. QED  BY <2>1, <2>2
  <1>8. Seeing(u, h)  BY <1>1, <1>6, <1>7 DEF Seeing
  <1>9. Visible(u) = h[m + n]  BY <1>1, <1>8, VisibleIs
  <1>10. h[m + n] = f[m] \o g[n]  BY <1>1, <1>5
  <1>. QED  BY <1>2, <1>3, <1>9, <1>10 DEF u

(* A text without NULs is seen as it is, and of NULs nothing is seen.      *)
LEMMA VisibleWhole ==
  ASSUME NEW s \in Seq(Chars)
  PROVE  s \in Seq(Symbols) /\ Visible(s) = s
  <1> DEFINE n == Len(s)
             f == [i \in 0..n |-> SubSeq(s, 1, i)]
  <1>1. n \in Nat /\ \A i \in 1..n : s[i] \in Chars /\ s[i] # NUL
    BY NoNulInChars
  <1>2. s \in Seq(Symbols)
    <2>1. Chars \subseteq Symbols  BY DEF Symbols
    <2>. QED  BY <2>1, SeqMonotonic
  <1>3. f[0] = << >>  OBVIOUS
  <1>4. ASSUME NEW i \in 1..n
        PROVE  f[i] = IF s[i] = NUL THEN f[i - 1] ELSE Append(f[i - 1], s[i])
    <2>1. i \in 0..n /\ i - 1 \in 0..n  BY <1>1
    <2>2. SubSeq(s, 1, i) = Append(SubSeq(s, 1, i - 1), s[i])
      OBVIOUS
    <2>. QED  BY <1>1, <2>1, <2>2
  <1>5. Seeing(s, f)  BY <1>3, <1>4 DEF Seeing
  <1>6. f[n] = s
    <2>1. n \in 0..n  BY <1>1
    <2>2. SubSeq(s, 1, Len(s)) = s  OBVIOUS
    <2>. QED  BY <2>1, <2>2
  <1> HIDE DEF f
  <1>7. Visible(s) = f[n]  BY <1>2, <1>5, VisibleIs
  <1>. QED  BY <1>2, <1>6, <1>7

LEMMA VisibleNothing ==
  ASSUME NEW s \in Seq({NUL})
  PROVE  s \in Seq(Symbols) /\ Visible(s) = << >>
  <1> DEFINE n == Len(s)
             f == [i \in 0..n |-> << >>]
  <1>1. n \in Nat /\ \A i \in 1..n : s[i] = NUL  OBVIOUS
  <1>2. s \in Seq(Symbols)
    <2>1. {NUL} \subseteq Symbols  BY DEF Symbols
    <2>. QED  BY <2>1, SeqMonotonic
  <1>3. ASSUME NEW i \in 1..n
        PROVE  f[i] = IF s[i] = NUL THEN f[i - 1] ELSE Append(f[i - 1], s[i])
    <2>1. i \in 0..n /\ i - 1 \in 0..n  BY <1>1
    <2>. QED  BY <1>1, <2>1
  <1>4. Seeing(s, f)  BY <1>1, <1>3 DEF Seeing
  <1>5. f[n] = << >>  BY <1>1
  <1> HIDE DEF f
  <1>. QED  BY <1>2, <1>4, <1>5, VisibleIs

-----------------------------------------------------------------------------
(* The array                                                               *)

LEMMA MinMaxIs ==
  /\ \A S \in SUBSET Int : \A m \in S : (\A x \in S : m <= x) => Min(S) = m
  /\ \A a, b \in Int : Upto(a, b) = IF a >= b THEN a ELSE b
  /\ \A a, b \in Int : Min({a, b}) = IF a <= b THEN a ELSE b
  <1>1. ASSUME NEW S \in SUBSET Int, NEW m \in S, \A x \in S : m <= x
        PROVE  Min(S) = m
    <2>1. Min(S) \in S /\ \A x \in S : Min(S) <= x  BY <1>1 DEF Min
    <2> DEFINE k == Min(S)
    <2> HIDE DEF k
    <2>2. k \in Int /\ m \in Int /\ k <= m /\ m <= k  BY <1>1, <2>1 DEF k
    <2>. QED  BY <2>2 DEF k
  <1>2. ASSUME NEW a \in Int, NEW b \in Int
        PROVE  Upto(a, b) = IF a >= b THEN a ELSE b
    <2> DEFINE k == Upto(a, b)
    <2>1. \E x \in {a, b} : \A y \in {a, b} : x >= y
      <3>1. CASE a >= b  BY <3>1
      <3>2. CASE ~(a >= b)  BY <3>2
      <3>. QED  BY <3>1, <3>2
    <2>2. k \in {a, b} /\ k >= a /\ k >= b
      BY <2>1 DEF Upto, Max
    <2> HIDE DEF k
    <2>3. k = IF a >= b THEN a ELSE b  BY <2>2
    <2>. QED  BY <2>3 DEF k
  <1>3. ASSUME NEW a \in Int, NEW b \in Int
        PROVE  Min({a, b}) = IF a <= b THEN a ELSE b
    <2>1. {a, b} \in SUBSET Int  OBVIOUS
    <2>2. CASE a <= b
      <3>1. \A x \in {a, b} : a <= x  BY <2>2
      <3>. QED  BY <1>1, <2>1, <2>2, <3>1
    <2>3. CASE ~(a <= b)
      <3>1. \A x \in {a, b} : b <= x  BY <2>3
      <3>. QED  BY <1>1, <2>1, <2>3, <3>1
    <2>. QED  BY <2>2, <2>3
  <1>. QED  BY <1>1, <1>2, <1>3

(* The array begins with c and is NUL from there on.                       *)
Holds(buff, c) ==
  buff = [p \in 0..(BuffSize - 1) |-> IF p < Len(c) THEN c[p + 1] ELSE NUL]

LEMMA HoldsNul ==
  ASSUME NEW c \in Seq(Symbols), NEW buff
  PROVE  /\ Append(c, NUL) \in Seq(Symbols)
         /\ Len(Append(c, NUL)) = Len(c) + 1
         /\ Holds(buff, Append(c, NUL)) <=> Holds(buff, c)
  <1> DEFINE d == Append(c, NUL)
  <1>1. /\ d \in Seq(Symbols) /\ Len(d) = Len(c) + 1 /\ Len(c) \in Nat
        /\ \A i \in 1..Len(c) : d[i] = c[i]
        /\ d[Len(c) + 1] = NUL
    <2>1. NUL \in Symbols  BY DEF Symbols
    <2>. QED  BY <2>1, AppendProperties
  <1> HIDE DEF d
  <1>2. ASSUME NEW p \in 0..(BuffSize - 1)
        PROVE  (IF p < Len(d) THEN d[p + 1] ELSE NUL)
                 = IF p < Len(c) THEN c[p + 1] ELSE NUL
    <2>1. p \in Nat  BY DEF BuffSize
    <2>2. CASE p < Len(c)
      <3>1. p + 1 \in 1..Len(c) /\ p < Len(d)  BY <1>1, <2>1, <2>2
      <3>. QED  BY <1>1, <2>2, <3>1
    <2>3. CASE p = Len(c)  BY <1>1, <2>3
    <2>4. CASE p > Len(c)  BY <1>1, <2>1, <2>4
    <2>. QED  BY <1>1, <2>1, <2>2, <2>3, <2>4
  <1>3. Holds(buff, d) <=> Holds(buff, c)  BY <1>2 DEF Holds
  <1>. QED  BY <1>1, <1>3 DEF d

(* What is written behind the text belongs to it.                          *)
LEMMA PutBehind ==
  ASSUME NEW c \in Seq(Symbols), NEW s \in Seq(Symbols), NEW buff,
         Holds(buff, c), Len(c) + Len(s) <= BuffSize
  PROVE  /\ c \o s \in Seq(Symbols) /\ Len(c \o s) = Len(c) + Len(s)
         /\ Holds(Put(buff, Len(c), s), c \o s)
  <1> DEFINE d == c \o s
             n == Len(c)
             m == Len(s)
  <1>1. /\ d \in Seq(Symbols) /\ Len(d) = n + m /\ n \in Nat /\ m \in Nat
        /\ \A i \in 1..(n + m) : d[i] = IF i <= n THEN c[i] ELSE s[i - n]
    BY ConcatProperties
  <1>2. DOMAIN buff = 0..(BuffSize - 1)
        /\ \A p \in 0..(BuffSize - 1) : buff[p] = IF p < n THEN c[p + 1] ELSE NUL
    BY DEF Holds
  <1>3. Put(buff, n, s) = [q \in 0..(BuffSize - 1) |->
                             IF q \in n..(n + m - 1) THEN s[q - n + 1] ELSE buff[q]]
    BY <1>2 DEF Put
  <1> HIDE DEF d, n, m
  <1>4. ASSUME NEW q \in 0..(BuffSize - 1)
        PROVE  (IF q \in n..(n + m - 1) THEN s[q - n + 1] ELSE buff[q])
                 = IF q < Len(d) THEN d[q + 1] ELSE NUL
    <2>1. q \in Nat  BY DEF BuffSize
    <2>2. CASE q < n
      <3>1. q + 1 \in 1..(n + m) /\ q + 1 <= n /\ q < n + m /\ q \notin n..(n + m - 1)
        BY <1>1, <2>1, <2>2
      <3>2. d[q + 1] = c[q + 1]  BY <1>1, <3>1
      <3>3. buff[q] = c[q + 1]  BY <1>2, <2>2
      <3>. QED  BY <1>1, <3>1, <3>2, <3>3
    <2>3. CASE q \in n..(n + m - 1)
      <3>1. /\ q + 1 \in 1..(n + m) /\ ~(q + 1 <= n) /\ (q + 1) - n = q - n + 1
            /\ q < n + m
        BY <1>1, <2>1, <2>3
      <3>. QED  BY <1>1, <2>3, <3>1
    <2>4. CASE q >= n + m
      <3>1. ~(q < n + m) /\ q \notin n..(n + m - 1) /\ ~(q < n)
        BY <1>1, <2>1, <2>4
      <3>. QED  BY <1>1, <1>2, <3>1
    <2>. QED  BY <1>1, <2>1, <2>2, <2>3, <2>4
  <1>5. Holds(Put(buff, n, s), d)  BY <1>3, <1>4 DEF Holds
  <1>. QED  BY <1>1, <1>5 DEF d, n, m

(* ft_strlen counts up to the end of the text, when no NUL comes before.   *)
LEMMA StrLenIs ==
  ASSUME NEW c \in Seq(Symbols), NEW buff, Holds(buff, c), Len(c) < BuffSize,
         NEW p \in 0..Len(c), \A i \in (p + 1)..Len(c) : c[i] # NUL
  PROVE  StrLen(buff, p) = Len(c) - p
  <1> DEFINE n == Len(c)
             S == {q \in DOMAIN buff : q >= p /\ buff[q] = NUL} \cup {Upto(p, BuffSize)}
  <1>1. /\ DOMAIN buff = 0..299 /\ n \in Nat /\ n < 300 /\ BuffSize = 300
        /\ p \in 0..n
        /\ \A q \in 0..299 : buff[q] = IF q < n THEN c[q + 1] ELSE NUL
    <2>1. BuffSize = 300 /\ BuffSize - 1 = 299  BY DEF BuffSize
    <2>2. buff = [q \in 0..299 |-> IF q < n THEN c[q + 1] ELSE NUL]
      BY <2>1 DEF Holds
    <2>. QED  BY <2>1, <2>2
  <1>2. Upto(p, BuffSize) = 300
    <2>1. p \in Int /\ p < 300 /\ BuffSize = 300 /\ BuffSize \in Int  BY <1>1
    <2>. QED  BY <2>1, MinMaxIs
  <1>3. S = {q \in 0..299 : q >= p /\ buff[q] = NUL} \cup {300}
    BY <1>1, <1>2
  <1> HIDE DEF S, n
  <1>4. S \in SUBSET Int
    <2>1. ASSUME NEW x \in S PROVE x \in Int  BY <1>3
    <2>. QED  BY <2>1
  <1>5. n \in S
    <2>1. n \in 0..299 /\ n >= p /\ ~(n < n)  BY <1>1
    <2>2. buff[n] = NUL  BY <1>1, <2>1
    <2>. QED  BY <1>3, <2>1, <2>2
  <1>6. ASSUME NEW q \in S PROVE n <= q
    <2>1. CASE q = 300  BY <1>1, <2>1
    <2>2. CASE q \in 0..299 /\ q >= p /\ buff[q] = NUL
      <3>1. ASSUME q < n PROVE FALSE
        <4>1. buff[q] = c[q + 1]  BY <1>1, <2>2, <3>1
        <4>2. q + 1 \in (p + 1)..Len(c)  BY <1>1, <2>2, <3>1 DEF n
        <4>. QED  BY <2>2, <4>1, <4>2
      <3>. QED  BY <1>1, <2>2, <3>1
    <2>. QED  BY <1>3, <2>1, <2>2
  <1>7. Min(S) = n  BY <1>4, <1>5, <1>6, MinMaxIs
  <1>. QED  BY <1>7 DEF StrLen, S, n

(* The array holds c, and nothing was written beyond the NUL behind it.    *)
TextOf(r, c) == Holds(r.buff, c) /\ r.reach \in 0..(Len(c) + 1)

LEMMA BlankIs ==
  TextOf(Blank, << >>) /\ Blank.len = 0 /\ Blank.reach = 0
  <1>1. /\ Blank.buff = [p \in 0..(BuffSize - 1) |-> NUL] /\ Blank.len = 0
        /\ Blank.reach = 0 /\ Len(<< >>) = 0
    BY DEF Blank
  <1>2. ASSUME NEW p \in 0..(BuffSize - 1)
        PROVE  NUL = IF p < 0 THEN << >>[p + 1] ELSE NUL
    <2>1. ~(p < 0)  BY DEF BuffSize
    <2>. QED  BY <2>1
  <1>3. Holds(Blank.buff, << >>)  BY <1>1, <1>2 DEF Holds
  <1>. QED  BY <1>1, <1>3 DEF TextOf

LEMMA WrittenBehind ==
  ASSUME NEW c \in Seq(Symbols), TextOf(text, c), NEW s \in Seq(Symbols),
         Len(c) + Len(s) <= BuffSize, NEW len
  PROVE  /\ c \o s \in Seq(Symbols) /\ Len(c \o s) = Len(c) + Len(s)
         /\ Holds(Written(Len(c), s, len).buff, c \o s)
         /\ Written(Len(c), s, len).len = len
         /\ Written(Len(c), s, len).reach \in 0..(Len(c) + Len(s) + 1)
         /\ Len(s) # 0 => Written(Len(c), s, len).reach \in 0..(Len(c) + Len(s))
  <1> DEFINE w == Written(Len(c), s, len)
             n == Len(c)
             m == Len(s)
  <1>1. /\ w.buff = Put(text.buff, n, s) /\ w.len = len
        /\ w.reach = Upto(text.reach, n + m)
    BY DEF Written
  <1>2. Holds(text.buff, c) /\ text.reach \in 0..(n + 1) /\ n \in Nat /\ m \in Nat
    BY DEF TextOf
  <1>3. /\ c \o s \in Seq(Symbols) /\ Len(c \o s) = n + m
        /\ Holds(w.buff, c \o s)
    BY <1>1, <1>2, PutBehind
  <1> HIDE DEF w, n, m
  <1>4. w.reach = IF text.reach >= n + m THEN text.reach ELSE n + m
    <2>1. text.reach \in Int /\ n + m \in Int  BY <1>2
    <2>. QED  BY <1>1, <2>1, MinMaxIs
  <1>5. w.reach \in 0..(n + m + 1) /\ (m # 0 => w.reach \in 0..(n + m))
    BY <1>2, <1>4
  <1>. QED  BY <1>1, <1>3, <1>5 DEF w, n, m

(* ft_strlcat, asked to append behind p, appends behind the text when no   *)
(* NUL lies between, and returns where that is, counted from p.            *)
Appendable(c, p, s) ==
  /\ c \in Seq(Symbols) /\ TextOf(text, c) /\ s \in Seq(Chars)
  /\ p \in 0..Len(c) /\ \A i \in (p + 1)..Len(c) : c[i] # NUL
  /\ Len(c) + Len(s) < BuffSize

Appended(c, p, s, len, w) ==
  /\ Strlcat(p, s).ret = Len(c) - p + Len(s)
  /\ c \o s \in Seq(Symbols) /\ Len(c \o s) = Len(c) + Len(s)
  /\ TextOf(w, c \o s) /\ w.len = len

LEMMA CatIs ==
  ASSUME NEW c, NEW p, NEW s, NEW len, NEW w,
         Appendable(c, p, s), w = Written(Strlcat(p, s).at, Strlcat(p, s).put, len)
  PROVE  Appended(c, p, s, len, w)
  <1> DEFINE n == Len(c)
             m == Len(s)
             dst == StrLen(text.buff, p)
             kept == SubSeq(s, 1, Min({m, BuffSize - 1 - dst}))
             t == Append(s, NUL)
  <1>1. /\ c \in Seq(Symbols) /\ TextOf(text, c) /\ s \in Seq(Chars)
        /\ p \in 0..Len(c) /\ \A i \in (p + 1)..Len(c) : c[i] # NUL
        /\ Len(c) + Len(s) < BuffSize
    BY DEF Appendable
  <1>2. /\ n \in Nat /\ m \in Nat /\ BuffSize = 300 /\ n + m < 300 /\ p \in 0..n
    BY <1>1 DEF BuffSize
  <1>3. dst = n - p
    <2>1. Holds(text.buff, c) /\ Len(c) < BuffSize  BY <1>1, <1>2 DEF TextOf
    <2>2. StrLen(text.buff, p) = Len(c) - p  BY <1>1, <2>1, StrLenIs
    <2>. QED  BY <2>2
  <1>4. Strlcat(p, s) = IF BuffSize <= dst
                        THEN [at |-> p, put |-> << >>, ret |-> BuffSize + m]
                        ELSE [at |-> p + dst, put |-> Append(kept, NUL), ret |-> dst + m]
    BY DEF Strlcat
  <1>5. kept = s
    <2>1. Min({m, BuffSize - 1 - dst}) = m
      <3>1. m \in Int /\ BuffSize - 1 - dst \in Int /\ m <= BuffSize - 1 - dst
        BY <1>2, <1>3
      <3>. QED  BY <3>1, MinMaxIs
    <2>2. SubSeq(s, 1, Len(s)) = s  BY <1>1
    <2>. QED  BY <2>1, <2>2
  <1> HIDE DEF dst, kept
  <1>6. /\ Strlcat(p, s).at = n /\ Strlcat(p, s).put = t
        /\ Strlcat(p, s).ret = n - p + m
    <2>1. ~(BuffSize <= dst) /\ p + dst = n /\ dst + m = n - p + m
      BY <1>2, <1>3
    <2>. QED  BY <1>4, <1>5, <2>1
  <1>7. s \in Seq(Symbols)  BY <1>1, VisibleWhole
  <1>8. t \in Seq(Symbols) /\ Len(t) = m + 1  BY <1>7, HoldsNul
  <1>9. /\ c \o s \in Seq(Symbols) /\ Len(c \o s) = n + m
        /\ c \o t = Append(c \o s, NUL)
    <2>1. c \o s \in Seq(Symbols) /\ Len(c \o s) = n + m
      BY <1>1, <1>7, ConcatProperties
    <2>2. c \o Append(s, NUL) = Append(c \o s, NUL)  BY <1>1, <1>7
    <2>. QED  BY <2>1, <2>2
  <1> HIDE DEF n, m, t
  <1>10. w = Written(n, t, len)  BY <1>6
  <1>11. /\ Holds(w.buff, c \o t) /\ w.len = len /\ w.reach \in 0..(n + (m + 1))
    <2>1. /\ c \in Seq(Symbols) /\ Len(c) + Len(t) <= BuffSize /\ Len(t) # 0
          /\ t \in Seq(Symbols) /\ TextOf(text, c)
      BY <1>1, <1>2, <1>8 DEF n, m
    <2>2. /\ Holds(Written(Len(c), t, len).buff, c \o t)
          /\ Written(Len(c), t, len).len = len
          /\ Len(t) # 0 => Written(Len(c), t, len).reach \in 0..(Len(c) + Len(t))
      BY <2>1, WrittenBehind
    <2>. QED  BY <1>8, <1>10, <2>1, <2>2 DEF n, m
  <1>12. Holds(w.buff, c \o s)
    <2>1. Holds(w.buff, Append(c \o s, NUL))  BY <1>9, <1>11
    <2>. QED  BY <1>9, <2>1, HoldsNul
  <1>13. TextOf(w, c \o s)
    <2>1. w.reach \in 0..(Len(c \o s) + 1)  BY <1>2, <1>9, <1>11
    <2>. QED  BY <1>12, <2>1 DEF TextOf
  <1>. QED  BY <1>6, <1>9, <1>11, <1>13 DEF Appended, n, m

-----------------------------------------------------------------------------
(* Messages                                                                *)

Appending == {"cat", "cat-on-start", "cat-from-start", "copy", "copy-only"}

(* What a reader is to see of an operation.                                *)
Shows(op) ==
  IF op.do = "number" THEN Numeral(op.arg, 10)
  ELSE IF op.do = "write-text" THEN << >>
  ELSE op.arg

(* Which operation may follow which, and how long the text may get: the    *)
(* length the code keeps is that of the text when characters are copied,   *)
(* and the text has no NULs when something is appended to the start.       *)
Fitting(last, op, before, after) ==
  /\ op.do \in Appending \cup {"number", "write-text", "write"}
  /\ op.do \in Appending => op.arg \in Seq(Chars) /\ before + Len(op.arg) <= after
  /\ op.do = "number" => op.arg \in Numbers /\ before + 21 <= after
  /\ op.do = "write" => op.arg \in Seq(Chars)
  /\ op.do = "cat" => last \in {"write-text", "cat", "number", "copy"}
  /\ op.do = "cat-on-start" => last = "cat" /\ after + after <= BuffSize
  /\ op.do = "cat-from-start" => last = "copy-only"
  /\ op.do = "number" => last = "cat"
  /\ op.do \in {"copy", "copy-only"} =>
       last \in {"write-text", "cat", "cat-from-start", "copy"}
  /\ op.do = "write-text" => last \in {"cat", "copy", "cat-on-start"}
  /\ op.do = "write" => last \in {"write-text", "write"}

Done(S, k) == IF k = 0 THEN "write-text" ELSE S[k].do

Steps(S) == {S[i] : i \in 1..Len(S)}

Plain(S) == \A k \in 1..Len(S) : S[k].do # "number"

(* A script in which that is so, with a bound on the text at each place.   *)
Plan(S, B) ==
  /\ S \in Seq(Steps(S)) /\ Len(S) \in Nat
  /\ B \in [0..Len(S) -> 0..(BuffSize - 1)]
  /\ \A k \in 1..Len(S) : Fitting(Done(S, k - 1), S[k], B[k - 1], B[k])
  /\ Done(S, Len(S)) \in {"write-text", "write"}
  /\ Plain(S) \/ \A k \in 1..Len(S) : S[k].do \notin {"cat-on-start", "cat-from-start"}

Sums(S, said) ==
  /\ said[0] = << >>
  /\ \A k \in 1..Len(S) : said[k] = said[k - 1] \o Shows(S[k])

(* How the length the code keeps relates to the text c after an operation. *)
Settled(last, c, len) ==
  /\ last \in {"write-text", "write"} => c = << >> /\ len = 0
  /\ last \in {"cat", "cat-from-start", "copy"} => len = Len(c)
  /\ last = "number" => /\ len \in 0..Len(c)
                        /\ \A i \in (len + 1)..Len(c) : c[i] # NUL
  /\ last = "cat-on-start" => len \in Len(c)..BuffSize

(* Of the message asked for, which is the script S, the first k operations *)
(* are done: the array holds the text c, and what was written with it is   *)
(* what they show.                                                         *)
Telling(S, B, said, k, c) ==
  /\ Plan(S, B) /\ Sums(S, said) /\ said[Len(S)] = Meant(asked)
  /\ k \in 0..Len(S)
  /\ todo \in Seq(Steps(S)) /\ Len(todo) = Len(S) - k
  /\ \A i \in 1..(Len(S) - k) : todo[i] = S[k + i]
  /\ c \in Seq(Symbols) /\ Len(c) <= B[k]
  /\ Plain(S) => c \in Seq(Chars)
  /\ TextOf(text, c) /\ Settled(Done(S, k), c, text.len)
  /\ Visible(out) \o Visible(c) = said[k]

TextInv ==
  /\ text.len \in 0..BuffSize
  /\ out \in Seq(Symbols)
  /\ asked = NoMessage => todo = << >> /\ text.reach = 0
  /\ asked # NoMessage => \E S, B, said, k, c : Telling(S, B, said, k, c)

LEMMA TextInvSays ==
  ASSUME TextInv
  PROVE  StaysInside /\ ReadsAsMeant
  <1>1. CASE asked = NoMessage
    <2>1. text.reach = 0 /\ text.len \in 0..BuffSize  BY <1>1 DEF TextInv
    <2>. QED  BY <1>1, <2>1 DEF StaysInside, ReadsAsMeant, BuffSize
  <1>2. CASE asked # NoMessage
    <2>1. PICK S, B, said, k, c : Telling(S, B, said, k, c)
      BY <1>2 DEF TextInv
    <2>2. /\ Len(S) \in Nat /\ k \in 0..Len(S) /\ c \in Seq(Symbols)
          /\ B[k] \in 0..(BuffSize - 1) /\ Len(c) <= B[k]
          /\ text.reach \in 0..(Len(c) + 1)
          /\ text.len \in 0..BuffSize
          /\ Len(todo) = Len(S) - k
      <3>1. Plan(S, B) /\ TextOf(text, c)  BY <2>1 DEF Telling
      <3>2. Len(S) \in Nat /\ B \in [0..Len(S) -> 0..(BuffSize - 1)]
        BY <3>1 DEF Plan
      <3>3. /\ k \in 0..Len(S) /\ c \in Seq(Symbols) /\ Len(c) <= B[k]
            /\ Len(todo) = Len(S) - k
        BY <2>1 DEF Telling
      <3>4. text.reach \in 0..(Len(c) + 1) /\ text.len \in 0..BuffSize
        BY <3>1 DEF TextOf, TextInv
      <3>. QED  BY <3>2, <3>3, <3>4
    <2>3. StaysInside
      <3> DEFINE n == Len(c)
                 l == text.len
                 r == text.reach
                 b == B[k]
      <3>1. n \in Nat /\ l \in 0..BuffSize /\ r \in 0..(n + 1) /\ n <= b
            /\ b \in 0..(BuffSize - 1)
        BY <2>2
      <3> HIDE DEF n, l, r, b
      <3>2. r <= BuffSize  BY <3>1 DEF BuffSize
      <3>3. r <= BuffSize /\ l <= BuffSize  BY <3>1, <3>2 DEF BuffSize
      <3>4. text.reach <= BuffSize /\ text.len <= BuffSize  BY <3>3 DEF r, l
      <3>. QED  BY <3>4 DEF StaysInside
    <2>4. ASSUME todo = << >> PROVE Visible(out) = Meant(asked)
      <3>1. k = Len(S)  BY <2>2, <2>4
      <3>2. c = << >>
        <4>1. Done(S, k) \in {"write-text", "write"}
          BY <2>1, <3>1 DEF Telling, Plan
        <4>. QED  BY <2>1, <4>1 DEF Telling, Settled
      <3>3. Visible(<< >>) = << >>
        <4>1. << >> \in Seq({NUL})  OBVIOUS
        <4>. QED  BY <4>1, VisibleNothing
      <3>4. Visible(out) \in Seq(Chars)  BY VisibleType DEF TextInv
      <3>5. Visible(out) \o << >> = Visible(out)
        <4> DEFINE v == Visible(out)
        <4>1. v \in Seq(Chars)  BY <3>4
        <4> HIDE DEF v
        <4>2. v \o << >> = v  BY <4>1
        <4>. QED  BY <4>2 DEF v
      <3>. QED  BY <2>1, <3>1, <3>2, <3>3, <3>5 DEF Telling
    <2>. QED  BY <2>3, <2>4 DEF ReadsAsMeant
  <1>. QED  BY <1>1, <1>2

(* The operation that comes next.                                          *)
Moves(S, B, said, k) ==
  /\ k + 1 \in 1..Len(S) /\ k + 1 \in 0..Len(S) /\ Len(S) \in Nat /\ k \in Nat
  /\ Head(todo) = S[k + 1]
  /\ todo' \in Seq(Steps(S)) /\ Len(todo') = Len(S) - (k + 1)
  /\ \A i \in 1..(Len(S) - (k + 1)) : todo'[i] = S[(k + 1) + i]
  /\ Done(S, k + 1) = S[k + 1].do
  /\ Fitting(Done(S, k), S[k + 1], B[k], B[k + 1])
  /\ said[k + 1] = said[k] \o Shows(S[k + 1])
  /\ B[k] \in Nat /\ B[k] < BuffSize /\ B[k + 1] \in Nat /\ B[k + 1] < BuffSize

LEMMA NextStep ==
  ASSUME NEW S, NEW B, NEW said, NEW k, NEW c, Telling(S, B, said, k, c),
         NEW kinds, Doing(kinds)
  PROVE  Moves(S, B, said, k) /\ S[k + 1].do \in kinds
  <1>1. /\ Len(S) \in Nat /\ k \in 0..Len(S) /\ todo # << >>
        /\ Head(todo).do \in kinds /\ todo' = Tail(todo)
        /\ todo \in Seq(Steps(S)) /\ Len(todo) = Len(S) - k
        /\ \A i \in 1..(Len(S) - k) : todo[i] = S[k + i]
    <2>1. Plan(S, B)  BY DEF Telling
    <2>2. Len(S) \in Nat  BY <2>1 DEF Plan
    <2>3. todo # << >> /\ Head(todo).do \in kinds /\ todo' = Tail(todo)
      BY DEF Doing
    <2>. QED  BY <2>2, <2>3 DEF Telling
  <1>2. k + 1 \in 1..Len(S) /\ k + 1 \in 0..Len(S) /\ k \in Nat
    <2>1. Len(todo) # 0  BY <1>1
    <2>. QED  BY <1>1, <2>1
  <1>3. Head(todo) = S[k + 1]
    <2>1. 1 \in 1..(Len(S) - k)  BY <1>1, <1>2
    <2>2. todo[1] = S[k + 1]  BY <1>1, <2>1
    <2>3. Head(todo) = todo[1]  OBVIOUS
    <2>. QED  BY <2>2, <2>3
  <1>4. /\ todo' \in Seq(Steps(S)) /\ Len(todo') = Len(S) - (k + 1)
        /\ \A i \in 1..(Len(S) - (k + 1)) : todo'[i] = S[(k + 1) + i]
    <2> DEFINE t == todo
               T == Steps(S)
    <2>1. t \in Seq(T) /\ t # << >> /\ Len(t) = Len(S) - k  BY <1>1
    <2>2. \A i \in 1..(Len(S) - k) : t[i] = S[k + i]  BY <1>1
    <2>3. todo' = Tail(t)  BY <1>1
    <2> HIDE DEF t, T
    <2>4. /\ Tail(t) \in Seq(T) /\ Len(Tail(t)) = Len(t) - 1
          /\ \A i \in 1..Len(Tail(t)) : Tail(t)[i] = t[i + 1]
      BY <2>1, HeadTailProperties
    <2>5. Len(t) - 1 = Len(S) - (k + 1)  BY <1>1, <1>2, <2>1
    <2>6. ASSUME NEW i \in 1..(Len(S) - (k + 1)) PROVE Tail(t)[i] = S[(k + 1) + i]
      <3>1. i + 1 \in 1..(Len(S) - k) /\ k + (i + 1) = (k + 1) + i
        BY <1>1, <1>2
      <3>. QED  BY <2>2, <2>4, <2>5, <3>1
    <2>. QED  BY <2>3, <2>4, <2>5, <2>6 DEF T
  <1>5. Done(S, k + 1) = S[k + 1].do
    <2>1. k + 1 # 0  BY <1>2
    <2>. QED  BY <2>1 DEF Done
  <1>6. (k + 1) - 1 = k  BY <1>2
  <1>7. Fitting(Done(S, k), S[k + 1], B[k], B[k + 1])
    BY <1>2, <1>6 DEF Telling, Plan
  <1>8. said[k + 1] = said[k] \o Shows(S[k + 1])
    BY <1>2, <1>6 DEF Telling, Sums
  <1>9. B[k] \in Nat /\ B[k] < BuffSize /\ B[k + 1] \in Nat /\ B[k + 1] < BuffSize
    <2>1. B[k] \in 0..(BuffSize - 1) /\ B[k + 1] \in 0..(BuffSize - 1)
      BY <1>1, <1>2 DEF Telling, Plan
    <2>2. BuffSize = 300  BY DEF BuffSize
    <2>. QED  BY <2>1, <2>2
  <1>. QED  BY <1>1, <1>2, <1>3, <1>4, <1>5, <1>7, <1>8, <1>9 DEF Moves

(* After an operation on the text c the array holds the text d, and a      *)
(* reader sees what the operation shows behind what it saw before.         *)
Goes(c, op, d, after) ==
  /\ d \in Seq(Symbols) /\ Len(d) <= after
  /\ c \in Seq(Chars) /\ op.do # "number" => d \in Seq(Chars)
  /\ TextOf(text', d) /\ Settled(op.do, d, text'.len)
  /\ text'.len \in 0..BuffSize /\ out' \in Seq(Symbols)
  /\ Visible(out') \o Visible(d) = (Visible(out) \o Visible(c)) \o Shows(op)

(* The message is then told one operation further.                         *)
LEMMA StepTold ==
  ASSUME asked # NoMessage,
         NEW S, NEW B, NEW said, NEW k, NEW c, Telling(S, B, said, k, c),
         NEW kinds, Doing(kinds), NEW d, Goes(c, S[k + 1], d, B[k + 1])
  PROVE  TextInv'
  <1>1. asked' = asked  BY DEF Doing
  <1>2. /\ Plan(S, B) /\ Sums(S, said) /\ said[Len(S)] = Meant(asked')
        /\ (Plain(S) => c \in Seq(Chars))
        /\ Visible(out) \o Visible(c) = said[k]
    BY <1>1 DEF Telling
  <1>3. /\ k + 1 \in 1..Len(S) /\ k + 1 \in 0..Len(S)
        /\ todo' \in Seq(Steps(S)) /\ Len(todo') = Len(S) - (k + 1)
        /\ \A i \in 1..(Len(S) - (k + 1)) : todo'[i] = S[(k + 1) + i]
        /\ Done(S, k + 1) = S[k + 1].do
        /\ said[k + 1] = said[k] \o Shows(S[k + 1])
    <2>1. Moves(S, B, said, k)  BY NextStep
    <2>. QED  BY <2>1 DEF Moves
  <1>4. /\ d \in Seq(Symbols) /\ Len(d) <= B[k + 1]
        /\ TextOf(text', d) /\ Settled(S[k + 1].do, d, text'.len)
        /\ text'.len \in 0..BuffSize /\ out' \in Seq(Symbols)
        /\ Visible(out') \o Visible(d) = said[k] \o Shows(S[k + 1])
        /\ c \in Seq(Chars) /\ S[k + 1].do # "number" => d \in Seq(Chars)
    BY <1>2 DEF Goes
  <1>5. Plain(S) => d \in Seq(Chars)
    <2>1. Plain(S) => S[k + 1].do # "number"  BY <1>3 DEF Plain
    <2>. QED  BY <1>2, <1>4, <2>1
  <1>6. Telling(S, B, said, k + 1, d)'
    BY <1>1, <1>2, <1>3, <1>4, <1>5 DEF Telling
  <1>7. asked' # NoMessage  BY <1>1
  <1>. QED  BY <1>4, <1>6, <1>7 DEF TextInv

LEMMA ConcatThrice ==
  ASSUME NEW S, NEW r \in Seq(S), NEW s \in Seq(S), NEW t \in Seq(S)
  PROVE  r \o (s \o t) = (r \o s) \o t
  BY ConcatAssociative, SMTT(30)

(* Characters behind the text are seen behind it.                          *)
LEMMA SeenBehind ==
  ASSUME NEW o \in Seq(Symbols), NEW c \in Seq(Symbols), NEW s \in Seq(Chars)
  PROVE  /\ Visible(o) \o Visible(c \o s) = (Visible(o) \o Visible(c)) \o s
         /\ c \in Seq(Chars) => c \o s \in Seq(Chars)
  <1>1. s \in Seq(Symbols) /\ Visible(s) = s  BY VisibleWhole
  <1>2. PICK v \in Seq(Chars) : v = Visible(o)  BY VisibleType
  <1>3. PICK w \in Seq(Chars) : w = Visible(c)  BY VisibleType
  <1>4. Visible(c \o s) = w \o s  BY <1>1, <1>3, VisibleConcat
  <1>5. v \o (w \o s) = (v \o w) \o s  BY ConcatThrice, SMTT(30)
  <1>6. c \in Seq(Chars) => c \o s \in Seq(Chars)  BY ConcatProperties
  <1>. QED  BY <1>2, <1>3, <1>4, <1>5, <1>6, Zenon

(* An operation that fits, on a text that is as the last one left it.      *)
Ready(c, op, last, before, after) ==
  /\ before \in Nat /\ before < BuffSize /\ after \in Nat /\ after < BuffSize
  /\ c \in Seq(Symbols) /\ Len(c) <= before
  /\ Fitting(last, op, before, after)
  /\ op.do \in {"cat-on-start", "cat-from-start"} => c \in Seq(Chars)
  /\ TextOf(text, c) /\ Settled(last, c, text.len)
  /\ out \in Seq(Symbols)
  /\ Head(todo) = op

LEMMA CatGoes ==
  ASSUME NEW c, NEW op, NEW last, NEW before, NEW after,
         Ready(c, op, last, before, after), CatStep,
         op.do \in {"cat", "cat-on-start", "cat-from-start"}
  PROVE  \E d : Goes(c, op, d, after)
  <1>1. PICK s \in Seq(Chars) : s = op.arg  BY DEF Ready, Fitting, Appending
  <1>2. /\ c \in Seq(Symbols) /\ TextOf(text, c) /\ out \in Seq(Symbols)
        /\ op.do # "cat" => c \in Seq(Chars)
    BY DEF Ready
  <1>3. PICK n \in Nat : n = Len(c)  BY <1>2
  <1>4. PICK m \in Nat : m = Len(s)  OBVIOUS
  <1>5. PICK l : l = text.len  OBVIOUS
  <1>6. PICK p : p = IF op.do = "cat" THEN l ELSE 0  OBVIOUS
  <1>7. PICK q : q = Strlcat(p, s).ret  OBVIOUS
  <1>8. PICK len : len = IF op.do = "cat-from-start" THEN q ELSE l + q
    OBVIOUS
  <1>9. /\ text' = Written(Strlcat(p, s).at, Strlcat(p, s).put, len)
        /\ out' = out
    BY <1>1, <1>5, <1>6, <1>7, <1>8 DEF CatStep, Arg, Ready
  <1>10. /\ n + m <= after /\ after \in Nat /\ after < 300 /\ n + m < 300
         /\ op.do = "cat" => last \in {"write-text", "cat", "number", "copy"}
         /\ op.do = "cat-on-start" => last = "cat" /\ after + after <= 300
    <2>1. /\ before \in Nat /\ after \in Nat /\ after < 300 /\ n <= before
          /\ before + m <= after
          /\ op.do = "cat" => last \in {"write-text", "cat", "number", "copy"}
          /\ op.do = "cat-on-start" => last = "cat" /\ after + after <= 300
      BY <1>1, <1>3, <1>4 DEF Ready, Fitting, Appending, BuffSize
    <2>2. n + m <= after /\ n + m < 300  BY <2>1
    <2>. QED  BY <2>1, <2>2
  <1>11. /\ last \in {"write-text", "cat", "copy"} => l = n
         /\ last = "number" => l \in 0..n /\ \A i \in (l + 1)..n : c[i] # NUL
    <2>1. Settled(last, c, text.len) /\ Len(<< >>) = 0  BY DEF Ready
    <2>. QED  BY <1>3, <1>5, <2>1 DEF Settled
  <1>12. p \in 0..n /\ \A i \in (p + 1)..n : c[i] # NUL
    <2>1. CASE op.do # "cat"
      <3>1. p = 0 /\ c \in Seq(Chars)  BY <1>2, <1>6, <2>1
      <3>2. ASSUME NEW i \in 1..n PROVE c[i] # NUL
        <4>1. c[i] \in Chars  BY <1>3, <3>1
        <4>. QED  BY <4>1, NoNulInChars
      <3>. QED  BY <3>1, <3>2
    <2>2. CASE op.do = "cat" /\ last = "number"
      BY <1>6, <1>11, <2>2
    <2>3. CASE op.do = "cat" /\ last # "number"
      <3>1. p = n  BY <1>6, <1>10, <1>11, <2>3
      <3>. QED  BY <3>1
    <2>. QED  BY <2>1, <2>2, <2>3
  <1> DEFINE d == c \o s
  <1>13. /\ q = n - p + m
         /\ d \in Seq(Symbols) /\ Len(d) = n + m
         /\ TextOf(text', d) /\ text'.len = len
    <2>1. /\ p \in 0..Len(c) /\ \A i \in (p + 1)..Len(c) : c[i] # NUL
          /\ Len(c) + Len(s) < BuffSize
      BY <1>3, <1>4, <1>10, <1>12 DEF BuffSize
    <2>2. Appendable(c, p, s)  BY <1>2, <2>1 DEF Appendable
    <2>3. Appended(c, p, s, len, text')  BY <1>9, <2>2, CatIs
    <2>. QED  BY <1>3, <1>4, <1>7, <2>3 DEF Appended
  <1> HIDE DEF d
  <1>14. Settled(op.do, d, len) /\ len \in 0..BuffSize
    <2>1. PICK e : e = Len(d)  OBVIOUS
    <2>2. e = n + m /\ q = n - p + m /\ BuffSize = 300
      BY <1>13, <2>1 DEF BuffSize
    <2>3. CASE op.do = "cat"
      <3>1. p = l /\ len = l + q  BY <1>6, <1>8, <2>3
      <3>2. len = e /\ len \in 0..BuffSize  BY <1>10, <1>12, <2>2, <3>1
      <3>. QED  BY <2>1, <2>3, <3>2 DEF Settled
    <2>4. CASE op.do = "cat-from-start"
      <3>1. p = 0 /\ len = q  BY <1>6, <1>8, <2>4
      <3>2. len = e /\ len \in 0..BuffSize  BY <1>10, <2>2, <3>1
      <3>. QED  BY <2>1, <2>4, <3>2 DEF Settled
    <2>5. CASE op.do = "cat-on-start"
      <3>1. p = 0 /\ len = l + q /\ l = n /\ after + after <= 300
        BY <1>6, <1>8, <1>10, <1>11, <2>5
      <3>2. len = n + (n + m)  BY <2>2, <3>1
      <3>3. len \in e..BuffSize /\ len \in 0..BuffSize
        BY <1>10, <2>2, <3>1, <3>2
      <3>. QED  BY <2>1, <2>5, <3>3 DEF Settled
    <2>. QED  BY <2>3, <2>4, <2>5
  <1>15. Shows(op) = s  BY <1>1 DEF Shows
  <1>16. /\ Visible(out) \o Visible(d) = (Visible(out) \o Visible(c)) \o s
         /\ c \in Seq(Chars) => d \in Seq(Chars)
    BY <1>2, SeenBehind DEF d
  <1>17. out' = out /\ Len(d) <= after  BY <1>9, <1>10, <1>13
  <1>18. Goes(c, op, d, after)
    BY <1>2, <1>13, <1>14, <1>15, <1>16, <1>17 DEF Goes
  <1>. QED  BY <1>18

(* A NUL and a number come behind the text.                                *)
LEMMA NumberGoes ==
  ASSUME NEW c, NEW op, NEW last, NEW before, NEW after,
         Ready(c, op, last, before, after), NumberStep, op.do = "number"
  PROVE  \E d : Goes(c, op, d, after)
  <1>1. /\ c \in Seq(Symbols) /\ TextOf(text, c) /\ out \in Seq(Symbols)
        /\ op.arg \in Numbers /\ last = "cat" /\ Head(todo) = op
        /\ before \in Nat /\ after \in Nat /\ after < 300
        /\ Len(c) <= before /\ before + 21 <= after
    BY DEF Ready, Fitting, BuffSize
  <1>2. PICK s \in Seq(Chars) : s = Decimal[op.arg] /\ s = Numeral(op.arg, 10)
                                /\ Len(s) \in 1..20
    BY <1>1, DecimalIsNumeral
  <1>3. PICK n \in Nat : n = Len(c)  BY <1>1
  <1>4. PICK m \in 1..20 : m = Len(s)  BY <1>2
  <1>5. PICK len : len = n + 1 + (IF op.arg = 0 THEN 0 ELSE m)  OBVIOUS
  <1>6. len \in (n + 1)..(n + 1 + m)  BY <1>5
  <1>7. text.len = n
    <2>1. Settled(last, c, text.len)  BY DEF Ready
    <2>. QED  BY <1>1, <1>3, <2>1 DEF Settled
  <1>8. out' = out /\ text' = Written(n + 1, s, len)
    BY <1>1, <1>2, <1>4, <1>5, <1>7 DEF NumberStep, AppendNumber, Arg
  <1>9. PICK b : b = Append(c, NUL)  OBVIOUS
  <1>10. /\ b \in Seq(Symbols) /\ Len(b) = n + 1 /\ TextOf(text, b)
    <2>1. Holds(text.buff, c) /\ text.reach \in 0..(n + 1)
      BY <1>1, <1>3 DEF TextOf
    <2>2. b \in Seq(Symbols) /\ Len(b) = n + 1 /\ Holds(text.buff, b)
      BY <1>1, <1>3, <1>9, <2>1, HoldsNul
    <2>3. text.reach \in 0..(Len(b) + 1)  BY <2>1, <2>2
    <2>. QED  BY <2>2, <2>3 DEF TextOf
  <1>11. s \in Seq(Symbols) /\ n + 1 + m <= after /\ n + 1 + m <= BuffSize
    <2>1. s \in Seq(Symbols)  BY VisibleWhole
    <2>. QED  BY <1>1, <1>3, <2>1 DEF BuffSize
  <1>12. PICK d : d = b \o s  OBVIOUS
  <1>13. /\ d \in Seq(Symbols) /\ Len(d) = n + 1 + m
         /\ TextOf(text', d) /\ text'.len = len
    <2>1. Len(b) + Len(s) <= BuffSize  BY <1>4, <1>10, <1>11
    <2>2. /\ b \o s \in Seq(Symbols) /\ Len(b \o s) = Len(b) + Len(s)
          /\ Holds(Written(Len(b), s, len).buff, b \o s)
          /\ Written(Len(b), s, len).len = len
          /\ Written(Len(b), s, len).reach \in 0..(Len(b) + Len(s) + 1)
      BY <1>10, <1>11, <2>1, WrittenBehind
    <2>. QED  BY <1>4, <1>8, <1>10, <1>12, <2>2 DEF TextOf
  <1>14. Settled(op.do, d, len) /\ len \in 0..BuffSize
    <2>1. len \in 0..Len(d) /\ len \in 0..BuffSize
      BY <1>6, <1>11, <1>13 DEF BuffSize
    <2>2. ASSUME NEW i \in (len + 1)..Len(d) PROVE d[i] # NUL
      <3>1. i \in 1..(n + 1 + m) /\ ~(i <= n + 1) /\ i - (n + 1) \in 1..m
        BY <1>6, <1>13
      <3>2. d[i] = s[i - (n + 1)]
        <4>1. \A j \in 1..(Len(b) + Len(s)) :
                (b \o s)[j] = IF j <= Len(b) THEN b[j] ELSE s[j - Len(b)]
          BY <1>10, <1>11, ConcatProperties
        <4>. QED  BY <1>4, <1>10, <1>12, <3>1, <4>1
      <3>3. s[i - (n + 1)] \in Chars  BY <1>4, <3>1
      <3>. QED  BY <3>2, <3>3, NoNulInChars
    <2>. QED  BY <2>1, <2>2 DEF Settled
  <1>15. Shows(op) = s  BY <1>2 DEF Shows
  <1>16. Visible(b) = Visible(c)
    <2>1. PICK z : z = <<NUL>>  OBVIOUS
    <2>2. z \in Seq({NUL})  BY <2>1
    <2>3. z \in Seq(Symbols) /\ Visible(z) = << >>  BY <2>2, VisibleNothing
    <2>4. b = c \o z  BY <1>1, <1>9, <2>1
    <2>5. Visible(b) = Visible(c) \o << >>  BY <1>1, <2>3, <2>4, VisibleConcat
    <2>6. PICK v \in Seq(Chars) : v = Visible(c)  BY <1>1, VisibleType
    <2>7. v \o << >> = v  OBVIOUS
    <2>. QED  BY <2>5, <2>6, <2>7
  <1>17. Visible(out) \o Visible(d) = (Visible(out) \o Visible(c)) \o s
    <2>1. Visible(out) \o Visible(b \o s) = (Visible(out) \o Visible(b)) \o s
      BY <1>1, <1>10, SeenBehind
    <2>. QED  BY <1>12, <1>16, <2>1
  <1>18. out' = out /\ Len(d) <= after  BY <1>8, <1>11, <1>13
  <1>19. Goes(c, op, d, after)
    BY <1>1, <1>13, <1>14, <1>15, <1>17, <1>18 DEF Goes
  <1>. QED  BY <1>19

(* Characters are copied behind the text.                                  *)
LEMMA CopyGoes ==
  ASSUME NEW c, NEW op, NEW last, NEW before, NEW after,
         Ready(c, op, last, before, after), CopyStep,
         op.do \in {"copy", "copy-only"}
  PROVE  \E d : Goes(c, op, d, after)
  <1>1. PICK s \in Seq(Chars) : s = op.arg  BY DEF Ready, Fitting, Appending
  <1>2. /\ c \in Seq(Symbols) /\ TextOf(text, c) /\ out \in Seq(Symbols)
        /\ last \in {"write-text", "cat", "cat-from-start", "copy"}
        /\ before \in Nat /\ after \in Nat /\ after < 300 /\ Head(todo) = op
        /\ Len(c) <= before /\ before + Len(s) <= after
    BY <1>1 DEF Ready, Fitting, Appending, BuffSize
  <1>3. PICK n \in Nat : n = Len(c)  BY <1>2
  <1>4. PICK m \in Nat : m = Len(s)  OBVIOUS
  <1>5. PICK len : len = IF op.do = "copy" THEN n + m ELSE n  OBVIOUS
  <1>6. n + m <= after /\ len \in 0..(n + m)  BY <1>2, <1>3, <1>4, <1>5
  <1>7. text.len = n
    <2>1. Settled(last, c, text.len) /\ Len(<< >>) = 0  BY DEF Ready
    <2>. QED  BY <1>2, <1>3, <2>1 DEF Settled
  <1>8. out' = out /\ text' = Written(n, s, len)
    BY <1>1, <1>2, <1>4, <1>5, <1>7 DEF CopyStep, Arg
  <1>9. PICK d : d = c \o s  OBVIOUS
  <1>10. /\ d \in Seq(Symbols) /\ Len(d) = n + m
         /\ TextOf(text', d) /\ text'.len = len
    <2>1. s \in Seq(Symbols)  BY VisibleWhole
    <2>2. Len(c) + Len(s) <= BuffSize  BY <1>2, <1>3, <1>4, <1>6 DEF BuffSize
    <2>3. /\ c \o s \in Seq(Symbols) /\ Len(c \o s) = Len(c) + Len(s)
          /\ Holds(Written(Len(c), s, len).buff, c \o s)
          /\ Written(Len(c), s, len).len = len
          /\ Written(Len(c), s, len).reach \in 0..(Len(c) + Len(s) + 1)
      BY <1>2, <2>1, <2>2, WrittenBehind
    <2>. QED  BY <1>3, <1>4, <1>8, <1>9, <2>3 DEF TextOf
  <1>11. Settled(op.do, d, len) /\ len \in 0..BuffSize
    <2>1. len \in 0..BuffSize  BY <1>2, <1>6 DEF BuffSize
    <2>2. op.do = "copy" => len = Len(d)  BY <1>5, <1>10
    <2>. QED  BY <2>1, <2>2 DEF Settled
  <1>12. Shows(op) = s  BY <1>1 DEF Shows
  <1>13. /\ Visible(out) \o Visible(d) = (Visible(out) \o Visible(c)) \o s
         /\ c \in Seq(Chars) => d \in Seq(Chars)
    BY <1>2, <1>9, SeenBehind
  <1>14. out' = out /\ Len(d) <= after  BY <1>6, <1>8, <1>10
  <1>15. Goes(c, op, d, after)
    BY <1>2, <1>10, <1>11, <1>12, <1>13, <1>14 DEF Goes
  <1>. QED  BY <1>15

LEMMA ConcatIs ==
  ASSUME NEW S, NEW a \in Seq(S), NEW b \in Seq(S)
  PROVE  a \o b = [i \in 1..(Len(a) + Len(b)) |->
                     IF i <= Len(a) THEN a[i] ELSE b[i - Len(a)]]
  <1>1. PICK s \in Seq(S) : s = a \o b  BY ConcatProperties
  <1>2. /\ Len(s) = Len(a) + Len(b)
        /\ \A i \in 1..(Len(a) + Len(b)) :
             s[i] = IF i <= Len(a) THEN a[i] ELSE b[i - Len(a)]
    BY <1>1, ConcatProperties
  <1>3. s = [i \in 1..Len(s) |-> s[i]]  OBVIOUS
  <1>. QED  BY <1>1, <1>2, <1>3

(* The text is written, with the NULs behind it that the code counts.      *)
LEMMA WriteTextGoes ==
  ASSUME NEW c, NEW op, NEW last, NEW before, NEW after,
         Ready(c, op, last, before, after), WriteStep, op.do = "write-text"
  PROVE  \E d : Goes(c, op, d, after)
  <1>1. /\ c \in Seq(Symbols) /\ TextOf(text, c) /\ out \in Seq(Symbols)
        /\ last \in {"cat", "copy", "cat-on-start"} /\ Head(todo) = op
        /\ before \in Nat /\ before < 300 /\ after \in Nat
        /\ Len(c) <= before /\ Settled(last, c, text.len)
    BY DEF Ready, Fitting, BuffSize
  <1>2. PICK n \in Nat : n = Len(c)  BY <1>1
  <1>3. PICK len : len = text.len  OBVIOUS
  <1>4. len \in n..300
    <2>1. last \in {"cat", "copy"} => len = n  BY <1>1, <1>2, <1>3 DEF Settled
    <2>2. last = "cat-on-start" => len \in n..300
      BY <1>1, <1>2, <1>3 DEF Settled, BuffSize
    <2>3. n <= 300  BY <1>1, <1>2
    <2>. QED  BY <1>1, <2>1, <2>2, <2>3
  <1>5. PICK f : f = [p \in 1..len |->
                        IF p <= BuffSize THEN text.buff[p - 1] ELSE "stack"]
    OBVIOUS
  <1>6. out' = out \o f /\ text' = Blank
    BY <1>1, <1>3, <1>5 DEF WriteStep
  <1>7. PICK z : z = [i \in 1..(len - n) |-> NUL]  OBVIOUS
  <1>8. z \in Seq({NUL}) /\ Len(z) = len - n
    <2>1. len - n \in Nat  BY <1>4
    <2>. QED  BY <1>7, <2>1
  <1>9. z \in Seq(Symbols) /\ Visible(z) = << >>  BY <1>8, VisibleNothing
  <1>10. f = c \o z
    <2>1. c \o z = [i \in 1..len |-> IF i <= n THEN c[i] ELSE z[i - n]]
      <3>1. c \o z = [i \in 1..(Len(c) + Len(z)) |->
                        IF i <= Len(c) THEN c[i] ELSE z[i - Len(c)]]
        BY <1>1, <1>9, ConcatIs
      <3>2. Len(c) + Len(z) = len  BY <1>2, <1>4, <1>8
      <3>. QED  BY <1>2, <3>1, <3>2
    <2>2. \A q \in 0..299 : text.buff[q] = IF q < n THEN c[q + 1] ELSE NUL
      <3>1. Holds(text.buff, c) /\ BuffSize - 1 = 299
        BY <1>1 DEF TextOf, BuffSize
      <3>2. text.buff = [q \in 0..299 |-> IF q < Len(c) THEN c[q + 1] ELSE NUL]
        BY <3>1 DEF Holds
      <3>. QED  BY <1>2, <3>2
    <2>3. ASSUME NEW i \in 1..len
          PROVE  f[i] = IF i <= n THEN c[i] ELSE z[i - n]
      <3>1. /\ i \in Nat /\ i <= 300 /\ i - 1 \in 0..299 /\ (i - 1) + 1 = i
            /\ i <= n <=> i - 1 < n
        BY <1>4
      <3>2. f[i] = text.buff[i - 1]  BY <1>5, <3>1 DEF BuffSize
      <3>3. CASE i <= n  BY <2>2, <3>1, <3>2, <3>3
      <3>4. CASE ~(i <= n)
        <4>1. i - n \in 1..(len - n)  BY <1>4, <3>1, <3>4
        <4>2. z[i - n] = NUL  BY <1>7, <4>1
        <4>. QED  BY <2>2, <3>1, <3>2, <3>4, <4>2
      <3>. QED  BY <3>3, <3>4
    <2>4. f = [i \in 1..len |-> IF i <= n THEN c[i] ELSE z[i - n]]
      BY <1>5, <2>3
    <2>. QED  BY <2>1, <2>4
  <1>11. /\ f \in Seq(Symbols) /\ out \o f \in Seq(Symbols)
         /\ Visible(out \o f) = Visible(out) \o Visible(c)
    <2>1. f \in Seq(Symbols)  BY <1>1, <1>9, <1>10, ConcatProperties
    <2>2. out \o f \in Seq(Symbols)  BY <1>1, <2>1, ConcatProperties
    <2>3. Visible(out \o f) = Visible(out) \o Visible(f)
      BY <1>1, <2>1, VisibleConcat
    <2>4. Visible(f) = Visible(c) \o << >>
      BY <1>1, <1>9, <1>10, VisibleConcat
    <2>5. PICK v \in Seq(Chars) : v = Visible(c)  BY <1>1, VisibleType
    <2>6. v \o << >> = v  OBVIOUS
    <2>. QED  BY <2>1, <2>2, <2>3, <2>4, <2>5, <2>6
  <1>12. /\ << >> \in Seq(Symbols) /\ << >> \in Seq(Chars) /\ Len(<< >>) = 0
         /\ Visible(<< >>) = << >>
    <2>1. << >> \in Seq({NUL})  OBVIOUS
    <2>2. Visible(<< >>) = << >>  BY <2>1, VisibleNothing
    <2>. QED  BY <2>2
  <1>13. TextOf(text', << >>) /\ text'.len = 0
    BY <1>6, BlankIs
  <1>14. Settled(op.do, << >>, 0) /\ 0 \in 0..BuffSize
    BY DEF Settled, BuffSize
  <1>15. Shows(op) = << >>  BY DEF Shows
  <1>16. Visible(out') \o << >> = (Visible(out) \o Visible(c)) \o << >>
    BY <1>6, <1>11
  <1>17. out' \in Seq(Symbols) /\ Len(<< >>) <= after
    BY <1>1, <1>6, <1>11, <1>12
  <1>18. Goes(c, op, << >>, after)
    BY <1>12, <1>13, <1>14, <1>15, <1>16, <1>17 DEF Goes
  <1>. QED  BY <1>18

(* What is written on its own is not in the text.                          *)
LEMMA WriteGoes ==
  ASSUME NEW c, NEW op, NEW last, NEW before, NEW after,
         Ready(c, op, last, before, after), WriteStep, op.do = "write"
  PROVE  \E d : Goes(c, op, d, after)
  <1>1. PICK s \in Seq(Chars) : s = op.arg  BY DEF Ready, Fitting
  <1>2. /\ TextOf(text, c) /\ out \in Seq(Symbols)
        /\ last \in {"write-text", "write"} /\ Head(todo) = op
        /\ after \in Nat /\ Settled(last, c, text.len)
    BY DEF Ready, Fitting
  <1>3. c = << >> /\ text.len = 0  BY <1>2 DEF Settled
  <1>4. out' = out \o s /\ text' = text  BY <1>1, <1>2 DEF WriteStep, Arg
  <1>5. /\ << >> \in Seq(Symbols) /\ << >> \in Seq(Chars) /\ Len(<< >>) = 0
        /\ Visible(<< >>) = << >>
    <2>1. << >> \in Seq({NUL})  OBVIOUS
    <2>2. Visible(<< >>) = << >>  BY <2>1, VisibleNothing
    <2>. QED  BY <2>2
  <1>6. /\ out \o s \in Seq(Symbols)
        /\ Visible(out \o s) \o << >> = (Visible(out) \o << >>) \o s
    <2>1. s \in Seq(Symbols) /\ Visible(s) = s  BY VisibleWhole
    <2>2. out \o s \in Seq(Symbols)  BY <1>2, <2>1, ConcatProperties
    <2>3. Visible(out \o s) = Visible(out) \o s  BY <1>2, <2>1, VisibleConcat
    <2>4. PICK v \in Seq(Chars) : v = Visible(out)  BY <1>2, VisibleType
    <2>5. (v \o s) \o << >> = (v \o << >>) \o s  OBVIOUS
    <2>. QED  BY <2>2, <2>3, <2>4, <2>5
  <1>7. Shows(op) = s  BY <1>1 DEF Shows
  <1>8. Settled(op.do, << >>, 0) /\ 0 \in 0..BuffSize
    BY DEF Settled, BuffSize
  <1>9. /\ TextOf(text', << >>) /\ text'.len = 0 /\ out' \in Seq(Symbols)
        /\ Visible(out') \o Visible(<< >>) = (Visible(out) \o Visible(c)) \o s
    BY <1>2, <1>3, <1>4, <1>5, <1>6 DEF TextOf
  <1>10. Len(<< >>) <= after  BY <1>2, <1>5
  <1>11. Goes(c, op, << >>, after)
    BY <1>5, <1>7, <1>8, <1>9, <1>10 DEF Goes
  <1>. QED  BY <1>11

LEMMA ReadyNow ==
  ASSUME NEW S, NEW B, NEW said, NEW k, NEW c, Telling(S, B, said, k, c),
         NEW kinds, Doing(kinds), out \in Seq(Symbols)
  PROVE  Ready(c, S[k + 1], Done(S, k), B[k], B[k + 1])
  <1>1. /\ k + 1 \in 1..Len(S) /\ Head(todo) = S[k + 1]
        /\ Fitting(Done(S, k), S[k + 1], B[k], B[k + 1])
        /\ B[k] \in Nat /\ B[k] < BuffSize /\ B[k + 1] \in Nat /\ B[k + 1] < BuffSize
    <2>1. Moves(S, B, said, k)  BY NextStep
    <2>. QED  BY <2>1 DEF Moves
  <1>2. /\ c \in Seq(Symbols) /\ Len(c) <= B[k] /\ (Plain(S) => c \in Seq(Chars))
        /\ TextOf(text, c) /\ Settled(Done(S, k), c, text.len) /\ Plan(S, B)
    BY DEF Telling
  <1>3. S[k + 1].do \in {"cat-on-start", "cat-from-start"} => c \in Seq(Chars)
    <2>1. \/ Plain(S)
          \/ \A i \in 1..Len(S) : S[i].do \notin {"cat-on-start", "cat-from-start"}
      BY <1>2 DEF Plan
    <2>. QED  BY <1>1, <1>2, <2>1
  <1>. QED  BY <1>1, <1>2, <1>3 DEF Ready

LEMMA ScriptStep ==
  ASSUME TextInv, CatStep \/ NumberStep \/ CopyStep \/ WriteStep
  PROVE  TextInv'
  <1>1. PICK kinds : Doing(kinds)
    BY DEF CatStep, NumberStep, CopyStep, WriteStep
  <1>2. asked # NoMessage /\ out \in Seq(Symbols)
    <2>1. todo # << >>  BY <1>1 DEF Doing
    <2>. QED  BY <2>1 DEF TextInv
  <1>3. PICK S, B, said, k, c : Telling(S, B, said, k, c)
    BY <1>2 DEF TextInv
  <1>4. PICK op : op = S[k + 1]  OBVIOUS
  <1>5. Ready(c, op, Done(S, k), B[k], B[k + 1])
    BY <1>1, <1>2, <1>3, <1>4, ReadyNow
  <1>6. Head(todo) = op  BY <1>5 DEF Ready
  <1>7. \E d : Goes(c, op, d, B[k + 1])
    <2>1. CASE CatStep
      <3>1. op.do \in {"cat", "cat-on-start", "cat-from-start"}
        BY <1>6, <2>1 DEF CatStep, Doing
      <3>. QED  BY <1>5, <2>1, <3>1, CatGoes
    <2>2. CASE NumberStep
      <3>1. op.do = "number"  BY <1>6, <2>2 DEF NumberStep, Doing
      <3>. QED  BY <1>5, <2>2, <3>1, NumberGoes
    <2>3. CASE CopyStep
      <3>1. op.do \in {"copy", "copy-only"}  BY <1>6, <2>3 DEF CopyStep, Doing
      <3>. QED  BY <1>5, <2>3, <3>1, CopyGoes
    <2>4. CASE WriteStep
      <3>1. op.do = "write" \/ op.do = "write-text"
        BY <1>6, <2>4 DEF WriteStep, Doing
      <3>. QED  BY <1>5, <2>4, <3>1, WriteGoes, WriteTextGoes
    <2>. QED  BY <2>1, <2>2, <2>3, <2>4
  <1>8. PICK d : Goes(c, S[k + 1], d, B[k + 1])  BY <1>4, <1>7
  <1>. QED  BY <1>1, <1>2, <1>3, <1>8, StepTold

-----------------------------------------------------------------------------
(* The scripts                                                             *)

(* A script whose operations are of some kinds fits as far as it goes: it  *)
(* ends with the operation last, its text has at most bound characters,    *)
(* and t is what it shows.                                                 *)
Planned(S, kinds, last, bound, t) ==
  \E B, said :
    /\ S \in Seq(Steps(S)) /\ B \in [0..Len(S) -> 0..(BuffSize - 1)]
    /\ \A k \in 1..Len(S) : /\ Fitting(Done(S, k - 1), S[k], B[k - 1], B[k])
                            /\ S[k].do \in kinds
    /\ Done(S, Len(S)) = last /\ B[Len(S)] = bound
    /\ Sums(S, said) /\ said[Len(S)] = t

LEMMA NothingPlanned ==
  ASSUME NEW kinds
  PROVE  Planned(<< >>, kinds, "write-text", 0, << >>)
  <1> DEFINE B == [k \in 0..0 |-> 0]
             said == [k \in 0..0 |-> << >>]
  <1>1. << >> \in Seq(Steps(<< >>)) /\ Len(<< >>) = 0  OBVIOUS
  <1>2. B \in [0..0 -> 0..(BuffSize - 1)] /\ B[0] = 0 /\ said[0] = << >>
    BY DEF BuffSize
  <1>3. Done(<< >>, 0) = "write-text"  BY DEF Done
  <1>4. Sums(<< >>, said)  BY <1>1, <1>2 DEF Sums
  <1> HIDE DEF B, said
  <1>. QED  BY <1>1, <1>2, <1>3, <1>4 DEF Planned

LEMMA OneMore ==
  ASSUME NEW S, NEW kinds, NEW last, NEW bound, NEW t,
         Planned(S, kinds, last, bound, t),
         NEW op, NEW b \in 0..(BuffSize - 1), Fitting(last, op, bound, b),
         op.do \in kinds
  PROVE  Planned(Append(S, op), kinds, op.do, b, t \o Shows(op))
  <1>1. PICK B, said :
          /\ S \in Seq(Steps(S)) /\ B \in [0..Len(S) -> 0..(BuffSize - 1)]
          /\ \A k \in 1..Len(S) : /\ Fitting(Done(S, k - 1), S[k], B[k - 1], B[k])
                                  /\ S[k].do \in kinds
          /\ Done(S, Len(S)) = last /\ B[Len(S)] = bound
          /\ Sums(S, said) /\ said[Len(S)] = t
    BY DEF Planned
  <1>2. PICK n \in Nat : n = Len(S)  BY <1>1
  <1>3. PICK R : R = Append(S, op)  OBVIOUS
  <1>4. /\ Len(R) = n + 1 /\ R[n + 1] = op /\ \A k \in 1..n : R[k] = S[k]
        /\ R \in Seq(Steps(R))
    <2>1. PICK T : T = Steps(S) \cup {op}  OBVIOUS
    <2>2. S \in Seq(T) /\ op \in T
      <3>1. Steps(S) \subseteq T  BY <2>1
      <3>. QED  BY <1>1, <2>1, <3>1, SeqMonotonic
    <2>3. /\ R \in Seq(T) /\ Len(R) = n + 1 /\ R[n + 1] = op
          /\ \A k \in 1..n : R[k] = S[k]
      BY <1>2, <1>3, <2>2, AppendProperties
    <2>4. \A k \in 1..Len(R) : R[k] \in Steps(R)  BY DEF Steps
    <2>5. R \in Seq(Steps(R))
      <3>1. R = [k \in 1..Len(R) |-> R[k]] /\ Len(R) \in Nat  BY <2>3
      <3>2. PICK Q : Q = Steps(R)  OBVIOUS
      <3>3. R \in [1..Len(R) -> Q]  BY <2>4, <3>1, <3>2
      <3>4. R \in Seq(Q)  BY <3>1, <3>3
      <3>. QED  BY <3>2, <3>4
    <2>. QED  BY <2>3, <2>5
  <1>5. \A k \in 0..n : Done(R, k) = Done(S, k)
    BY <1>4 DEF Done
  <1>6. Done(R, n + 1) = op.do  BY <1>4 DEF Done
  <1> DEFINE C == [k \in 0..(n + 1) |-> IF k = n + 1 THEN b ELSE B[k]]
             told == [k \in 0..(n + 1) |->
                        IF k = n + 1 THEN t \o Shows(op) ELSE said[k]]
  <1>7. /\ C \in [0..(n + 1) -> 0..(BuffSize - 1)] /\ C[n + 1] = b
        /\ told[n + 1] = t \o Shows(op)
        /\ \A k \in 0..n : C[k] = B[k] /\ told[k] = said[k]
    <2>1. n + 1 \in 0..(n + 1) /\ \A k \in 0..n : k \in 0..(n + 1) /\ k # n + 1
      OBVIOUS
    <2>2. \A k \in 0..(n + 1) : k = n + 1 \/ k \in 0..n  OBVIOUS
    <2>. QED  BY <1>1, <1>2, <2>1, <2>2
  <1> HIDE DEF C, told
  <1>8. ASSUME NEW k \in 1..(n + 1)
        PROVE  /\ Fitting(Done(R, k - 1), R[k], C[k - 1], C[k])
               /\ R[k].do \in kinds
               /\ told[k] = told[k - 1] \o Shows(R[k])
    <2>1. k - 1 \in 0..n  OBVIOUS
    <2>2. CASE k = n + 1
      <3>1. /\ k - 1 = n /\ Done(R, n) = last /\ R[k] = op /\ C[n] = bound
            /\ C[k] = b /\ told[n] = t /\ told[k] = t \o Shows(op)
        BY <1>1, <1>2, <1>4, <1>5, <1>7, <2>2
      <3>. QED  BY <3>1
    <2>3. CASE k \in 1..n
      <3>1. /\ Done(R, k - 1) = Done(S, k - 1) /\ R[k] = S[k]
            /\ C[k - 1] = B[k - 1] /\ C[k] = B[k]
            /\ told[k - 1] = said[k - 1] /\ told[k] = said[k]
        BY <1>4, <1>5, <1>7, <2>1, <2>3
      <3>2. said[k] = said[k - 1] \o Shows(S[k])  BY <1>1, <1>2, <2>3 DEF Sums
      <3>. QED  BY <1>1, <1>2, <2>3, <3>1, <3>2
    <2>4. k = n + 1 \/ k \in 1..n  OBVIOUS
    <2>. QED  BY <2>2, <2>3, <2>4
  <1>9. Sums(R, told)
    <2>1. told[0] = << >>  BY <1>1, <1>7 DEF Sums
    <2>. QED  BY <1>4, <1>8, <2>1 DEF Sums
  <1>10. Planned(R, kinds, op.do, b, t \o Shows(op))
    BY <1>4, <1>6, <1>7, <1>8, <1>9 DEF Planned
  <1>. QED  BY <1>3, <1>10

(* A script that fits to its end is told from its beginning.               *)
LEMMA SayTold ==
  ASSUME NEW message, NEW S, NEW kinds, NEW last, NEW bound,
         Say(message, S), message # NoMessage,
         Planned(S, kinds, last, bound, Meant(message)),
         last \in {"write-text", "write"},
         "number" \notin kinds \/ kinds \cap {"cat-on-start", "cat-from-start"} = {}
  PROVE  TextInv'
  <1>1. PICK B, said :
          /\ S \in Seq(Steps(S)) /\ B \in [0..Len(S) -> 0..(BuffSize - 1)]
          /\ \A k \in 1..Len(S) : /\ Fitting(Done(S, k - 1), S[k], B[k - 1], B[k])
                                  /\ S[k].do \in kinds
          /\ Done(S, Len(S)) = last
          /\ Sums(S, said) /\ said[Len(S)] = Meant(message)
    BY DEF Planned
  <1>2. Plan(S, B)
    <2>1. Len(S) \in Nat  BY <1>1
    <2>2. \/ Plain(S)
          \/ \A k \in 1..Len(S) : S[k].do \notin {"cat-on-start", "cat-from-start"}
      <3>1. CASE "number" \notin kinds  BY <1>1, <3>1 DEF Plain
      <3>2. CASE kinds \cap {"cat-on-start", "cat-from-start"} = {}  BY <1>1, <3>2
      <3>. QED  BY <3>1, <3>2
    <2>. QED  BY <1>1, <2>1, <2>2 DEF Plan
  <1>3. /\ asked' = message /\ todo' = S /\ text' = Blank /\ out' = << >>
    BY DEF Say
  <1>4. /\ << >> \in Seq(Symbols) /\ << >> \in Seq(Chars) /\ Len(<< >>) = 0
        /\ Visible(<< >>) = << >> /\ << >> \o << >> = << >>
    <2>1. << >> \in Seq({NUL})  OBVIOUS
    <2>2. Visible(<< >>) = << >>  BY <2>1, VisibleNothing
    <2>. QED  BY <2>2
  <1>5. /\ Len(S) \in Nat /\ 0 \in 0..Len(S) /\ Len(S) - 0 = Len(S)
        /\ \A i \in 1..(Len(S) - 0) : S[0 + i] = S[i]
    BY <1>1
  <1>6. Len(<< >>) <= B[0]
    <2>1. B[0] \in 0..(BuffSize - 1)  BY <1>1, <1>5
    <2>2. B[0] >= 0  BY <2>1 DEF BuffSize
    <2>. QED  BY <1>4, <2>1, <2>2 DEF BuffSize
  <1>7. /\ TextOf(text', << >>) /\ Settled(Done(S, 0), << >>, text'.len)
        /\ text'.len \in 0..BuffSize
    <2>1. Done(S, 0) = "write-text"  BY DEF Done
    <2>2. TextOf(text', << >>) /\ text'.len = 0  BY <1>3, BlankIs
    <2>3. 0 \in 0..BuffSize  BY DEF BuffSize
    <2>. QED  BY <2>1, <2>2, <2>3 DEF Settled
  <1>8. said[0] = << >>  BY <1>1 DEF Sums
  <1>9. Telling(S, B, said, 0, << >>)'
    BY <1>1, <1>2, <1>3, <1>4, <1>5, <1>6, <1>7, <1>8 DEF Telling
  <1>. QED  BY <1>3, <1>4, <1>7, <1>9 DEF TextInv

(* Each operation on its own.                                              *)
LEMMA MoreCat ==
  ASSUME NEW S, NEW kinds, NEW last, NEW bound, NEW t,
         Planned(S, kinds, last, bound, t), "cat" \in kinds,
         last \in {"write-text", "cat", "number", "copy"},
         NEW s \in Seq(Chars), NEW b \in 0..(BuffSize - 1), bound + Len(s) <= b
  PROVE  Planned(Append(S, Cat(s)), kinds, "cat", b, t \o s)
  <1>1. Cat(s).do = "cat" /\ Cat(s).arg = s  BY DEF Cat
  <1>2. Fitting(last, Cat(s), bound, b)  BY <1>1 DEF Fitting, Appending
  <1>3. Shows(Cat(s)) = s  BY <1>1 DEF Shows
  <1>4. Planned(Append(S, Cat(s)), kinds, Cat(s).do, b, t \o Shows(Cat(s)))
    BY <1>1, <1>2, OneMore
  <1>. QED  BY <1>1, <1>3, <1>4

LEMMA MoreCatOnStart ==
  ASSUME NEW S, NEW kinds, NEW last, NEW bound, NEW t,
         Planned(S, kinds, last, bound, t), "cat-on-start" \in kinds,
         last = "cat", NEW s \in Seq(Chars), NEW b \in 0..(BuffSize - 1),
         bound + Len(s) <= b, b + b <= BuffSize
  PROVE  Planned(Append(S, CatOnStart(s)), kinds, "cat-on-start", b, t \o s)
  <1>1. CatOnStart(s).do = "cat-on-start" /\ CatOnStart(s).arg = s  BY DEF CatOnStart
  <1>2. Fitting(last, CatOnStart(s), bound, b)  BY <1>1 DEF Fitting, Appending
  <1>3. Shows(CatOnStart(s)) = s  BY <1>1 DEF Shows
  <1>4. Planned(Append(S, CatOnStart(s)), kinds, CatOnStart(s).do, b,
                t \o Shows(CatOnStart(s)))
    BY <1>1, <1>2, OneMore
  <1>. QED  BY <1>1, <1>3, <1>4

LEMMA MoreCatFromStart ==
  ASSUME NEW S, NEW kinds, NEW last, NEW bound, NEW t,
         Planned(S, kinds, last, bound, t), "cat-from-start" \in kinds,
         last = "copy-only",
         NEW s \in Seq(Chars), NEW b \in 0..(BuffSize - 1), bound + Len(s) <= b
  PROVE  Planned(Append(S, CatFromStart(s)), kinds, "cat-from-start", b, t \o s)
  <1>1. CatFromStart(s).do = "cat-from-start" /\ CatFromStart(s).arg = s  BY DEF CatFromStart
  <1>2. Fitting(last, CatFromStart(s), bound, b)  BY <1>1 DEF Fitting, Appending
  <1>3. Shows(CatFromStart(s)) = s  BY <1>1 DEF Shows
  <1>4. Planned(Append(S, CatFromStart(s)), kinds, CatFromStart(s).do, b,
                t \o Shows(CatFromStart(s)))
    BY <1>1, <1>2, OneMore
  <1>. QED  BY <1>1, <1>3, <1>4

LEMMA MoreCopy ==
  ASSUME NEW S, NEW kinds, NEW last, NEW bound, NEW t,
         Planned(S, kinds, last, bound, t), "copy" \in kinds,
         last \in {"write-text", "cat", "cat-from-start", "copy"},
         NEW s \in Seq(Chars), NEW b \in 0..(BuffSize - 1), bound + Len(s) <= b
  PROVE  Planned(Append(S, Copy(s)), kinds, "copy", b, t \o s)
  <1>1. Copy(s).do = "copy" /\ Copy(s).arg = s  BY DEF Copy
  <1>2. Fitting(last, Copy(s), bound, b)  BY <1>1 DEF Fitting, Appending
  <1>3. Shows(Copy(s)) = s  BY <1>1 DEF Shows
  <1>4. Planned(Append(S, Copy(s)), kinds, Copy(s).do, b, t \o Shows(Copy(s)))
    BY <1>1, <1>2, OneMore
  <1>. QED  BY <1>1, <1>3, <1>4

LEMMA MoreCopyOnly ==
  ASSUME NEW S, NEW kinds, NEW last, NEW bound, NEW t,
         Planned(S, kinds, last, bound, t), "copy-only" \in kinds,
         last \in {"write-text", "cat", "cat-from-start", "copy"},
         NEW s \in Seq(Chars), NEW b \in 0..(BuffSize - 1), bound + Len(s) <= b
  PROVE  Planned(Append(S, CopyOnly(s)), kinds, "copy-only", b, t \o s)
  <1>1. CopyOnly(s).do = "copy-only" /\ CopyOnly(s).arg = s  BY DEF CopyOnly
  <1>2. Fitting(last, CopyOnly(s), bound, b)  BY <1>1 DEF Fitting, Appending
  <1>3. Shows(CopyOnly(s)) = s  BY <1>1 DEF Shows
  <1>4. Planned(Append(S, CopyOnly(s)), kinds, CopyOnly(s).do, b, t \o Shows(CopyOnly(s)))
    BY <1>1, <1>2, OneMore
  <1>. QED  BY <1>1, <1>3, <1>4

LEMMA MoreNumber ==
  ASSUME NEW S, NEW kinds, NEW bound, NEW t, Planned(S, kinds, "cat", bound, t),
         NEW n \in Numbers, NEW b \in 0..(BuffSize - 1), bound + 21 <= b,
         "number" \in kinds
  PROVE  Planned(Append(S, Number(n)), kinds, "number", b, t \o Numeral(n, 10))
  <1>1. Number(n).do = "number" /\ Number(n).arg = n  BY DEF Number
  <1>2. Fitting("cat", Number(n), bound, b)  BY <1>1 DEF Fitting, Appending
  <1>3. Shows(Number(n)) = Numeral(n, 10)  BY <1>1 DEF Shows
  <1>4. Planned(Append(S, Number(n)), kinds, Number(n).do, b, t \o Shows(Number(n)))
    BY <1>1, <1>2, OneMore
  <1>. QED  BY <1>1, <1>3, <1>4

LEMMA MoreWrite ==
  ASSUME NEW S, NEW kinds, NEW last, NEW bound, NEW t,
         Planned(S, kinds, last, bound, t)
  PROVE  /\ "write-text" \in kinds /\ last \in {"cat", "copy", "cat-on-start"}
            => Planned(Append(S, WriteText), kinds, "write-text", 0, t \o << >>)
         /\ \A s \in Seq(Chars) :
              "write" \in kinds /\ last \in {"write-text", "write"}
              => Planned(Append(S, Write(s)), kinds, "write", 0, t \o s)
  <1>1. 0 \in 0..(BuffSize - 1)  BY DEF BuffSize
  <1>2. ASSUME "write-text" \in kinds, last \in {"cat", "copy", "cat-on-start"}
        PROVE  Planned(Append(S, WriteText), kinds, "write-text", 0, t \o << >>)
    <2>1. WriteText.do = "write-text"  BY DEF WriteText
    <2>2. Fitting(last, WriteText, bound, 0)  BY <1>2, <2>1 DEF Fitting, Appending
    <2>3. Shows(WriteText) = << >>  BY <2>1 DEF Shows
    <2>4. Planned(Append(S, WriteText), kinds, WriteText.do, 0, t \o Shows(WriteText))
      BY <1>1, <1>2, <2>1, <2>2, OneMore
    <2>. QED  BY <2>1, <2>3, <2>4
  <1>3. ASSUME NEW s \in Seq(Chars), "write" \in kinds, last \in {"write-text", "write"}
        PROVE  Planned(Append(S, Write(s)), kinds, "write", 0, t \o s)
    <2>1. Write(s).do = "write" /\ Write(s).arg = s  BY DEF Write
    <2>2. Fitting(last, Write(s), bound, 0)  BY <1>3, <2>1 DEF Fitting, Appending
    <2>3. Shows(Write(s)) = s  BY <2>1 DEF Shows
    <2>4. Planned(Append(S, Write(s)), kinds, Write(s).do, 0, t \o Shows(Write(s)))
      BY <1>1, <1>3, <2>1, <2>2, OneMore
    <2>. QED  BY <2>1, <2>3, <2>4
  <1>. QED  BY <1>2, <1>3

LEMMA LitIs ==
  ASSUME NEW name \in Chars, NEW n \in Nat
  PROVE  Lit(name, n) \in Seq(Chars) /\ Len(Lit(name, n)) = n
  BY DEF Lit

LEMMA Literals ==
  /\ NewLine \in Seq(Chars) /\ Len(NewLine) = 1
  /\ LeakHead \in Seq(Chars) /\ Len(LeakHead) = 35
  /\ LeakCount \in Seq(Chars) /\ Len(LeakCount) = 19
  /\ LeakBytes \in Seq(Chars) /\ Len(LeakBytes) = 20
  /\ LeakTail \in Seq(Chars) /\ Len(LeakTail) = 35
  /\ AbortHead \in Seq(Chars) /\ Len(AbortHead) = 31
  /\ AbortAdder \in Seq(Chars) /\ Len(AbortAdder) = 9
  /\ AbortClose \in Seq(Chars) /\ Len(AbortClose) = 1
  /\ AbortTail \in Seq(Chars) /\ Len(AbortTail) = 23
  /\ Dash \in Seq(Chars) /\ Len(Dash) = 3
  /\ Colon \in Seq(Chars) /\ Len(Colon) = 3
  /\ Bytes \in Seq(Chars) /\ Len(Bytes) = 7
  /\ Total \in Seq(Chars) /\ Len(Total) = 8
  /\ \A reason \in Reasons \cup PtrReasons :
       Reason(reason) \in Seq(Chars) /\ Len(Reason(reason)) <= 48
  /\ \A type \in {"tiny", "small", "large"} :
       ZoneLabel(type) \in Seq(Chars) /\ Len(ZoneLabel(type)) <= 8
  <1>1. ASSUME NEW name \in Chars
        PROVE  /\ \A n \in {1, 3, 7, 8, 9, 19, 20, 22, 23, 31, 32, 33, 34, 35, 45, 48} :
                    Lit(name, n) \in Seq(Chars) /\ Len(Lit(name, n)) = n
    <2>1. ASSUME NEW n \in {1, 3, 7, 8, 9, 19, 20, 22, 23, 31, 32, 33, 34, 35, 45, 48}
          PROVE  n \in Nat
      OBVIOUS
    <2>. QED  BY <2>1, LitIs
  <1>2. /\ "nl" \in Chars /\ "leak-info" \in Chars /\ "total-allocations" \in Chars
        /\ "total-leaked-bytes" \in Chars /\ "leak-stars" \in Chars
        /\ "malloc-abort" \in Chars /\ "adder" \in Chars /\ "]" \in Chars
        /\ "abort-stars" \in Chars /\ "reason" \in Chars /\ "-" \in Chars
        /\ ":" \in Chars /\ "bytes" \in Chars /\ "total" \in Chars
        /\ "tiny" \in Chars /\ "small" \in Chars /\ "large" \in Chars
    BY DEF Chars
  <1>3. /\ NewLine \in Seq(Chars) /\ Len(NewLine) = 1
        /\ LeakHead \in Seq(Chars) /\ Len(LeakHead) = 35
        /\ LeakCount \in Seq(Chars) /\ Len(LeakCount) = 19
        /\ LeakBytes \in Seq(Chars) /\ Len(LeakBytes) = 20
        /\ LeakTail \in Seq(Chars) /\ Len(LeakTail) = 35
    BY <1>1, <1>2 DEF NewLine, LeakHead, LeakCount, LeakBytes, LeakTail
  <1>4. /\ AbortHead \in Seq(Chars) /\ Len(AbortHead) = 31
        /\ AbortAdder \in Seq(Chars) /\ Len(AbortAdder) = 9
        /\ AbortClose \in Seq(Chars) /\ Len(AbortClose) = 1
        /\ AbortTail \in Seq(Chars) /\ Len(AbortTail) = 23
    BY <1>1, <1>2 DEF AbortHead, AbortAdder, AbortClose, AbortTail
  <1>5. /\ Dash \in Seq(Chars) /\ Len(Dash) = 3
        /\ Colon \in Seq(Chars) /\ Len(Colon) = 3
        /\ Bytes \in Seq(Chars) /\ Len(Bytes) = 7
        /\ Total \in Seq(Chars) /\ Len(Total) = 8
    BY <1>1, <1>2 DEF Dash, Colon, Bytes, Total
  <1>6. ASSUME NEW reason \in Reasons \cup PtrReasons
        PROVE  Reason(reason) \in Seq(Chars) /\ Len(Reason(reason)) <= 48
    <2>1. reason \in {22, 31, 33, 34, 45, 48} /\ reason \in Nat /\ reason <= 48
      BY DEF Reasons, PtrReasons
    <2>2. /\ Lit("reason", reason) \in Seq(Chars)
          /\ Len(Lit("reason", reason)) = reason
      BY <1>2, <2>1, LitIs
    <2>. QED  BY <2>1, <2>2 DEF Reason
  <1>7. ASSUME NEW type \in {"tiny", "small", "large"}
        PROVE  ZoneLabel(type) \in Seq(Chars) /\ Len(ZoneLabel(type)) <= 8
    <2>1. \/ ZoneLabel(type) = Lit("tiny", 7)
          \/ ZoneLabel(type) = Lit("small", 8)
          \/ ZoneLabel(type) = Lit("large", 8)
      BY DEF ZoneLabel
    <2>2. /\ Lit("tiny", 7) \in Seq(Chars) /\ Len(Lit("tiny", 7)) = 7
          /\ Lit("small", 8) \in Seq(Chars) /\ Len(Lit("small", 8)) = 8
          /\ Lit("large", 8) \in Seq(Chars) /\ Len(Lit("large", 8)) = 8
      BY <1>1, <1>2
    <2>3. PICK z : z = ZoneLabel(type)  OBVIOUS
    <2>4. PICK l : l = Len(z)  OBVIOUS
    <2>5. z \in Seq(Chars) /\ (l = 7 \/ l = 8)  BY <2>1, <2>2, <2>3, <2>4
    <2>6. l <= 8  BY <2>5
    <2>. QED  BY <2>3, <2>4, <2>5, <2>6
  <1>. QED  BY <1>3, <1>4, <1>5, <1>6, <1>7

LEMMA ConcatNothing ==
  ASSUME NEW s \in Seq(Chars)
  PROVE  << >> \o s = s /\ s \o << >> = s
  OBVIOUS

LEMMA LeaksTold ==
  ASSUME NEW count \in Numbers, NEW bytes \in Numbers
  PROVE  Planned(LeakScript(count, bytes), {"cat", "number", "write-text"},
                 "write-text", 0,
                 Meant([kind |-> "leaks", count |-> count, bytes |-> bytes]))
  <1> DEFINE K == {"cat", "number", "write-text"}
             S1 == Append(<< >>, Cat(LeakHead))
             S2 == Append(S1, Cat(LeakCount))
             S3 == Append(S2, Number(count))
             S4 == Append(S3, Cat(NewLine))
             S5 == Append(S4, Cat(LeakBytes))
             S6 == Append(S5, Number(bytes))
             S7 == Append(S6, Cat(NewLine))
             S8 == Append(S7, Cat(LeakTail))
             S9 == Append(S8, WriteText)
             t1 == << >> \o LeakHead
             t2 == t1 \o LeakCount
             t3 == t2 \o Numeral(count, 10)
             t4 == t3 \o NewLine
             t5 == t4 \o LeakBytes
             t6 == t5 \o Numeral(bytes, 10)
             t7 == t6 \o NewLine
             t8 == t7 \o LeakTail
             t9 == t8 \o << >>
  <1>1. \A n \in 0..200 : n \in 0..(BuffSize - 1)  BY DEF BuffSize
  <1>2. /\ NewLine \in Seq(Chars) /\ Len(NewLine) = 1
        /\ LeakHead \in Seq(Chars) /\ Len(LeakHead) = 35
        /\ LeakCount \in Seq(Chars) /\ Len(LeakCount) = 19
        /\ LeakBytes \in Seq(Chars) /\ Len(LeakBytes) = 20
        /\ LeakTail \in Seq(Chars) /\ Len(LeakTail) = 35
    BY Literals
  <1>3. /\ "cat" \in K /\ "number" \in K /\ "write-text" \in K
        /\ "write-text" \in {"write-text", "cat", "number", "copy"}
        /\ "number" \in {"write-text", "cat", "number", "copy"}
        /\ "cat" \in {"write-text", "cat", "number", "copy"}
    OBVIOUS
  <1>4. LeakScript(count, bytes) = S9
    BY DEF LeakScript
  <1>5. Meant([kind |-> "leaks", count |-> count, bytes |-> bytes]) = t9
    <2> DEFINE m == [kind |-> "leaks", count |-> count, bytes |-> bytes]
    <2>1. m.kind = "leaks" /\ m.count = count /\ m.bytes = bytes  OBVIOUS
    <2> HIDE DEF m
    <2>2. Meant(m) = LeakHead \o LeakCount \o Numeral(count, 10) \o NewLine
                     \o LeakBytes \o Numeral(bytes, 10) \o NewLine \o LeakTail
      BY <2>1 DEF Meant
    <2>3. << >> \o LeakHead = LeakHead  BY <1>2, ConcatNothing
    <2> DEFINE u == LeakHead \o LeakCount \o Numeral(count, 10) \o NewLine
                    \o LeakBytes \o Numeral(bytes, 10) \o NewLine \o LeakTail
    <2>4. u \in Seq(Chars)
      <3>1. Numeral(count, 10) \in Seq(Chars) /\ Numeral(bytes, 10) \in Seq(Chars)
        BY DecimalIsNumeral
      <3>2. LeakHead \o LeakCount \o Numeral(count, 10) \o NewLine \in Seq(Chars)
        BY <1>2, <3>1, ConcatProperties
      <3>. QED  BY <1>2, <3>1, <3>2, ConcatProperties
    <2>5. u \o << >> = u
      <3> HIDE DEF u
      <3>. QED  BY <2>4, ConcatNothing
    <2>. QED  BY <2>2, <2>3, <2>5 DEF m
  <1> HIDE DEF K
  <1>6. Planned(<< >>, K, "write-text", 0, << >>)  BY NothingPlanned
  <1>7. Planned(S1, K, "cat", 35, t1)
    <2>1. /\ 35 \in 0..(BuffSize - 1) /\ 0 + Len(LeakHead) <= 35
          /\ LeakHead \in Seq(Chars)
      BY <1>1, <1>2
    <2>. QED  BY <1>3, <1>6, <2>1, MoreCat
  <1> HIDE DEF S1, t1
  <1>8. Planned(S2, K, "cat", 54, t2)
    <2>1. /\ 54 \in 0..(BuffSize - 1) /\ 35 + Len(LeakCount) <= 54
          /\ LeakCount \in Seq(Chars)
      BY <1>1, <1>2
    <2>. QED  BY <1>3, <1>7, <2>1, MoreCat
  <1> HIDE DEF S2, t2
  <1>9. Planned(S3, K, "number", 75, t3)
    <2>1. 75 \in 0..(BuffSize - 1) /\ 54 + 21 <= 75  BY <1>1
    <2>. QED  BY <1>2, <1>3, <1>8, <2>1, MoreNumber
  <1> HIDE DEF S3, t3
  <1>10. Planned(S4, K, "cat", 76, t4)
    <2>1. /\ 76 \in 0..(BuffSize - 1) /\ 75 + Len(NewLine) <= 76
          /\ NewLine \in Seq(Chars)
      BY <1>1, <1>2
    <2>. QED  BY <1>3, <1>9, <2>1, MoreCat
  <1> HIDE DEF S4, t4
  <1>11. Planned(S5, K, "cat", 96, t5)
    <2>1. /\ 96 \in 0..(BuffSize - 1) /\ 76 + Len(LeakBytes) <= 96
          /\ LeakBytes \in Seq(Chars)
      BY <1>1, <1>2
    <2>. QED  BY <1>3, <1>10, <2>1, MoreCat
  <1> HIDE DEF S5, t5
  <1>12. Planned(S6, K, "number", 117, t6)
    <2>1. 117 \in 0..(BuffSize - 1) /\ 96 + 21 <= 117  BY <1>1
    <2>. QED  BY <1>2, <1>3, <1>11, <2>1, MoreNumber
  <1> HIDE DEF S6, t6
  <1>13. Planned(S7, K, "cat", 118, t7)
    <2>1. /\ 118 \in 0..(BuffSize - 1) /\ 117 + Len(NewLine) <= 118
          /\ NewLine \in Seq(Chars)
      BY <1>1, <1>2
    <2>. QED  BY <1>3, <1>12, <2>1, MoreCat
  <1> HIDE DEF S7, t7
  <1>14. Planned(S8, K, "cat", 153, t8)
    <2>1. /\ 153 \in 0..(BuffSize - 1) /\ 118 + Len(LeakTail) <= 153
          /\ LeakTail \in Seq(Chars)
      BY <1>1, <1>2
    <2>. QED  BY <1>3, <1>13, <2>1, MoreCat
  <1> HIDE DEF S8, t8
  <1>15. Planned(S9, K, "write-text", 0, t9)
    BY <1>3, <1>14, MoreWrite
  <1>. QED  BY <1>4, <1>5, <1>15 DEF K

LEMMA AbortTold ==
  ASSUME NEW reason \in Reasons \cup PtrReasons, NEW ptr \in Adders \cup {NULL}
  PROVE  Planned(AbortScript(reason, ptr),
                 {"cat", "copy", "cat-on-start", "write-text"}, "write-text", 0,
                 Meant([kind |-> "abort", reason |-> reason, ptr |-> ptr]))
  <1> DEFINE K == {"cat", "copy", "cat-on-start", "write-text"}
  <1>1. \A n \in 0..200 : n \in 0..(BuffSize - 1)  BY DEF BuffSize
  <1>2. PICK why \in Seq(Chars) : why = Reason(reason) /\ Len(why) <= 48
    BY Literals
  <1>3. /\ NewLine \in Seq(Chars) /\ Len(NewLine) = 1
        /\ AbortHead \in Seq(Chars) /\ Len(AbortHead) = 31
        /\ AbortAdder \in Seq(Chars) /\ Len(AbortAdder) = 9
        /\ AbortClose \in Seq(Chars) /\ Len(AbortClose) = 1
        /\ AbortTail \in Seq(Chars) /\ Len(AbortTail) = 23
    BY Literals
  <1>4. "cat" \in K /\ "copy" \in K /\ "cat-on-start" \in K /\ "write-text" \in K
    OBVIOUS
  <1>5. PICK m : m = [kind |-> "abort", reason |-> reason, ptr |-> ptr]  OBVIOUS
  <1>6. Meant(m) = AbortHead \o why
                   \o (IF ptr = NULL THEN << >>
                       ELSE AbortAdder \o Hex(ptr) \o AbortClose)
                   \o NewLine \o AbortTail
    <2>1. m.kind = "abort" /\ m.reason = reason /\ m.ptr = ptr  BY <1>5
    <2>. QED  BY <1>2, <2>1 DEF Meant
  <1> DEFINE S1 == Append(<< >>, Cat(AbortHead))
             S2 == Append(S1, Cat(why))
             t1 == << >> \o AbortHead
             t2 == t1 \o why
  <1>7. t2 = AbortHead \o why /\ t2 \in Seq(Chars)
    <2>1. t1 = AbortHead  BY <1>3, ConcatNothing
    <2>2. AbortHead \o why \in Seq(Chars)  BY <1>2, <1>3, ConcatProperties
    <2>. QED  BY <2>1, <2>2
  <1>8. <<Cat(AbortHead), Cat(why)>> = S2
    <2> HIDE DEF K
    <2>. QED  OBVIOUS
  <1> HIDE DEF K
  <1>9. Planned(<< >>, K, "write-text", 0, << >>)  BY NothingPlanned
  <1>10. Planned(S1, K, "cat", 31, t1)
    <2>1. /\ 31 \in 0..(BuffSize - 1) /\ 0 + Len(AbortHead) <= 31
          /\ AbortHead \in Seq(Chars) /\ "write-text" \in {"write-text", "cat", "number", "copy"}
      BY <1>1, <1>2, <1>3
    <2>. QED  BY <1>4, <1>9, <2>1, MoreCat
  <1> HIDE DEF S1, t1
  <1>11. Planned(S2, K, "cat", 79, t2)
    <2>1. /\ 79 \in 0..(BuffSize - 1) /\ 31 + Len(why) <= 79
          /\ why \in Seq(Chars) /\ "cat" \in {"write-text", "cat", "number", "copy"}
      BY <1>1, <1>2, <1>3
    <2>. QED  BY <1>4, <1>10, <2>1, MoreCat
  <1> HIDE DEF S2, t2
  <1>12. CASE ptr = NULL
    <2> DEFINE S3 == Append(S2, Cat(NewLine))
               S4 == Append(S3, CatOnStart(AbortTail))
               S5 == Append(S4, WriteText)
               t3 == t2 \o NewLine
               t4 == t3 \o AbortTail
               t5 == t4 \o << >>
    <2>1. S5 = AbortScript(reason, ptr)
      <3>1. AdderScript(ptr) = << >>  BY <1>12 DEF AdderScript
      <3>2. AbortScript(reason, ptr)
              = <<Cat(AbortHead), Cat(why)>> \o << >>
                \o <<Cat(NewLine), CatOnStart(AbortTail), WriteText>>
        BY <1>2, <3>1 DEF AbortScript
      <3>3. PICK a, b, c, d, e : /\ a = Cat(AbortHead) /\ b = Cat(why) /\ c = Cat(NewLine)
                                 /\ d = CatOnStart(AbortTail) /\ e = WriteText
        OBVIOUS
      <3>4. <<a, b, c, d, e>> = <<a, b>> \o << >> \o <<c, d, e>>  OBVIOUS
      <3>5. <<a, b, c, d, e>> = Append(Append(Append(<<a, b>>, c), d), e)  OBVIOUS
      <3>. QED  BY <1>8, <3>2, <3>3, <3>4, <3>5
    <2>2. t5 = Meant(m)
      <3>1. t2 \o << >> = t2  BY <1>7, ConcatNothing
      <3>2. Meant(m) = t4  BY <1>6, <1>7, <1>12, <3>1
      <3>3. t4 \in Seq(Chars)  BY <1>3, <1>7, ConcatProperties
      <3>. QED  BY <3>2, <3>3, ConcatNothing
    <2>3. Planned(S3, K, "cat", 80, t3)
      <3>1. /\ 80 \in 0..(BuffSize - 1) /\ 79 + Len(NewLine) <= 80
            /\ NewLine \in Seq(Chars) /\ "cat" \in {"write-text", "cat", "number", "copy"}
        BY <1>1, <1>3
      <3>. QED  BY <1>4, <1>11, <3>1, MoreCat
    <2> HIDE DEF S3, t3
    <2>4. Planned(S4, K, "cat-on-start", 103, t4)
      <3>1. /\ 103 \in 0..(BuffSize - 1) /\ 80 + Len(AbortTail) <= 103
            /\ AbortTail \in Seq(Chars) /\ 103 + 103 <= BuffSize
        BY <1>1, <1>3 DEF BuffSize
      <3>. QED  BY <1>4, <2>3, <3>1, MoreCatOnStart
    <2> HIDE DEF S4, t4
    <2>5. Planned(S5, K, "write-text", 0, t5)
      BY <1>4, <2>4, MoreWrite
    <2>. QED  BY <1>5, <2>1, <2>2, <2>5 DEF K
  <1>13. CASE ptr # NULL
    <2>1. PICK hex \in Seq(Chars) :
            hex = FormatAdder(ptr) /\ hex = Hex(ptr) /\ Len(hex) <= 18
      <3>1. ptr \in Nat \ {0} /\ Fits(ptr, 16, 16)  BY <1>13, MessagesAssumption DEF NULL
      <3>2. /\ FormatAdder(ptr) = Hex(ptr)
            /\ Hex(ptr) \in Seq(Chars) /\ Len(Hex(ptr)) \in 3..18
        BY <3>1, AdderIsHex
      <3>3. PICK l : l = Len(Hex(ptr))  OBVIOUS
      <3>4. l \in 3..18  BY <3>2, <3>3
      <3>5. l <= 18  BY <3>4
      <3>. QED  BY <3>2, <3>3, <3>5
    <2> DEFINE S3 == Append(S2, Cat(AbortAdder))
               S4 == Append(S3, Copy(hex))
               S5 == Append(S4, Cat(AbortClose))
               S6 == Append(S5, Cat(NewLine))
               S7 == Append(S6, CatOnStart(AbortTail))
               S8 == Append(S7, WriteText)
               t3 == t2 \o AbortAdder
               t4 == t3 \o hex
               t5 == t4 \o AbortClose
               t6 == t5 \o NewLine
               t7 == t6 \o AbortTail
               t8 == t7 \o << >>
    <2>2. S8 = AbortScript(reason, ptr)
      <3>1. AdderScript(ptr) = <<Cat(AbortAdder), Copy(hex), Cat(AbortClose)>>
        BY <1>13, <2>1 DEF AdderScript
      <3>2. AbortScript(reason, ptr)
              = <<Cat(AbortHead), Cat(why)>>
                \o <<Cat(AbortAdder), Copy(hex), Cat(AbortClose)>>
                \o <<Cat(NewLine), CatOnStart(AbortTail), WriteText>>
        BY <1>2, <3>1 DEF AbortScript
      <3>3. PICK a, b, c, d, e : /\ a = Cat(AbortHead) /\ b = Cat(why) /\ c = Cat(NewLine)
                                 /\ d = CatOnStart(AbortTail) /\ e = WriteText
        OBVIOUS
      <3>4. PICK f, g, h : f = Cat(AbortAdder) /\ g = Copy(hex) /\ h = Cat(AbortClose)
        OBVIOUS
      <3>5. <<a, b, f, g, h, c, d, e>> = <<a, b>> \o <<f, g, h>> \o <<c, d, e>>
        OBVIOUS
      <3>6. <<a, b, f, g, h, c, d, e>>
              = Append(Append(Append(Append(Append(Append(<<a, b>>, f), g), h), c), d), e)
        OBVIOUS
      <3>. QED  BY <1>8, <3>2, <3>3, <3>4, <3>5, <3>6
    <2>3. t8 = Meant(m)
      <3>1. Meant(m) = t2 \o (AbortAdder \o hex \o AbortClose) \o NewLine \o AbortTail
        BY <1>6, <1>7, <1>13, <2>1
      <3>2. t2 \o (AbortAdder \o hex \o AbortClose) = t5
        <4>1. PICK a \in Seq(Chars) : a = AbortAdder  BY <1>3
        <4>2. PICK c \in Seq(Chars) : c = AbortClose  BY <1>3
        <4>3. PICK t \in Seq(Chars) : t = t2  BY <1>7
        <4>4. t \o (a \o hex) = (t \o a) \o hex  OBVIOUS
        <4>5. PICK b \in Seq(Chars) : b = a \o hex  BY ConcatProperties
        <4>6. t \o (b \o c) = (t \o b) \o c  OBVIOUS
        <4>. QED  BY <4>1, <4>2, <4>3, <4>4, <4>5, <4>6
      <3>3. Meant(m) = t7  BY <3>1, <3>2
      <3>4. t5 \in Seq(Chars)  BY <1>3, <1>7, <2>1, ConcatProperties
      <3>5. t7 \in Seq(Chars)
        <4> HIDE DEF t5
        <4>. QED  BY <1>3, <3>4, ConcatProperties
      <3>. QED  BY <3>3, <3>5, ConcatNothing
    <2>4. Planned(S3, K, "cat", 88, t3)
      <3>1. /\ 88 \in 0..(BuffSize - 1) /\ 79 + Len(AbortAdder) <= 88
            /\ AbortAdder \in Seq(Chars) /\ "cat" \in {"write-text", "cat", "number", "copy"}
        BY <1>1, <1>3, <2>1
      <3>. QED  BY <1>4, <1>11, <3>1, MoreCat
    <2> HIDE DEF S3, t3
    <2>5. Planned(S4, K, "copy", 106, t4)
      <3>1. /\ 106 \in 0..(BuffSize - 1) /\ 88 + Len(hex) <= 106
            /\ hex \in Seq(Chars) /\ "cat" \in {"write-text", "cat", "cat-from-start", "copy"}
        BY <1>1, <1>3, <2>1
      <3>. QED  BY <1>4, <2>4, <3>1, MoreCopy
    <2> HIDE DEF S4, t4
    <2>6. Planned(S5, K, "cat", 107, t5)
      <3>1. /\ 107 \in 0..(BuffSize - 1) /\ 106 + Len(AbortClose) <= 107
            /\ AbortClose \in Seq(Chars) /\ "copy" \in {"write-text", "cat", "number", "copy"}
        BY <1>1, <1>3, <2>1
      <3>. QED  BY <1>4, <2>5, <3>1, MoreCat
    <2> HIDE DEF S5, t5
    <2>7. Planned(S6, K, "cat", 108, t6)
      <3>1. /\ 108 \in 0..(BuffSize - 1) /\ 107 + Len(NewLine) <= 108
            /\ NewLine \in Seq(Chars) /\ "cat" \in {"write-text", "cat", "number", "copy"}
        BY <1>1, <1>3, <2>1
      <3>. QED  BY <1>4, <2>6, <3>1, MoreCat
    <2> HIDE DEF S6, t6
    <2>8. Planned(S7, K, "cat-on-start", 131, t7)
      <3>1. /\ 131 \in 0..(BuffSize - 1) /\ 108 + Len(AbortTail) <= 131
            /\ AbortTail \in Seq(Chars) /\ 131 + 131 <= BuffSize
        BY <1>1, <1>3, <2>1 DEF BuffSize
      <3>. QED  BY <1>4, <2>7, <3>1, MoreCatOnStart
    <2> HIDE DEF S7, t7
    <2>9. Planned(S8, K, "write-text", 0, t8)
      BY <1>4, <2>8, MoreWrite
    <2>. QED  BY <1>5, <2>2, <2>3, <2>9 DEF K
  <1>. QED  BY <1>12, <1>13

LEMMA ShowTold ==
  ASSUME NEW type \in {"tiny", "small", "large"}, NEW zone \in Adders,
         NEW chunk \in Adders, NEW cap \in Numbers
  PROVE  Planned(ZoneScript(type, zone) \o AllocScript(chunk, cap) \o TotalScript(cap),
                 {"copy", "copy-only", "cat-from-start", "write-text", "write"},
                 "write", 0,
                 Meant([kind |-> "show", type |-> type, zone |-> zone,
                        chunk |-> chunk, cap |-> cap]))
  <1> DEFINE K == {"copy", "copy-only", "cat-from-start", "write-text", "write"}
  <1>1. \A n \in 0..200 : n \in 0..(BuffSize - 1)  BY DEF BuffSize
  <1>2. PICK label \in Seq(Chars) : label = ZoneLabel(type) /\ Len(label) <= 8
    BY Literals
  <1>3. /\ NewLine \in Seq(Chars) /\ Len(NewLine) = 1
        /\ Dash \in Seq(Chars) /\ Len(Dash) = 3
        /\ Colon \in Seq(Chars) /\ Len(Colon) = 3
        /\ Bytes \in Seq(Chars) /\ Len(Bytes) = 7
        /\ Total \in Seq(Chars)
    BY Literals
  <1>4. \A a \in Nat \ {0} :
          Fits(a, 16, 16) => /\ FormatAdder(a) = Hex(a) /\ Hex(a) \in Seq(Chars)
                             /\ Len(Hex(a)) <= 18
    <2>1. ASSUME NEW a \in Nat \ {0}, Fits(a, 16, 16)
          PROVE  /\ FormatAdder(a) = Hex(a) /\ Hex(a) \in Seq(Chars)
                 /\ Len(Hex(a)) <= 18
      <3>1. /\ FormatAdder(a) = Hex(a)
            /\ Hex(a) \in Seq(Chars) /\ Len(Hex(a)) \in 3..18
        BY <2>1, AdderIsHex
      <3>2. PICK l : l = Len(Hex(a))  OBVIOUS
      <3>3. l \in 3..18  BY <3>1, <3>2
      <3>4. l <= 18  BY <3>3
      <3>. QED  BY <3>1, <3>2, <3>4
    <2>. QED  BY <2>1
  <1>5. /\ zone \in Nat \ {0} /\ Fits(zone, 16, 16)
        /\ chunk \in Nat \ {0} /\ Fits(chunk, 16, 16)
        /\ chunk + cap \in Nat \ {0} /\ Fits(chunk + cap, 16, 16)
    <2>1. /\ zone \in Nat \ {0} /\ chunk \in Nat \ {0} /\ cap \in Nat
      BY MessagesAssumption
    <2>2. /\ Fits(zone, 16, 16) /\ Fits(chunk, 16, 16) /\ Fits(chunk + cap, 16, 16)
      BY MessagesAssumption
    <2>3. chunk + cap \in Nat \ {0}  BY <2>1
    <2>. QED  BY <2>1, <2>2, <2>3
  <1>6. PICK hex \in Seq(Chars) :
          hex = FormatAdder(zone) /\ hex = Hex(zone) /\ Len(hex) <= 18
    BY <1>4, <1>5
  <1>7. PICK from \in Seq(Chars) :
          from = FormatAdder(chunk) /\ from = Hex(chunk) /\ Len(from) <= 18
    BY <1>4, <1>5
  <1>8. PICK upto \in Seq(Chars) :
          /\ upto = FormatAdder(chunk + cap) /\ upto = Hex(chunk + cap)
          /\ Len(upto) <= 18
    BY <1>4, <1>5
  <1>9. PICK size \in Seq(Chars) :
          /\ size = Decimal[cap] /\ size = PutNbr[cap] /\ size = Numeral(cap, 10)
          /\ Len(size) <= 20
    <2>1. /\ Decimal[cap] = Numeral(cap, 10) /\ PutNbr[cap] = Numeral(cap, 10)
          /\ Numeral(cap, 10) \in Seq(Chars) /\ Len(Numeral(cap, 10)) \in 1..20
      BY DecimalIsNumeral
    <2>2. PICK l : l = Len(Numeral(cap, 10))  OBVIOUS
    <2>3. l \in 1..20  BY <2>1, <2>2
    <2>4. l <= 20  BY <2>3
    <2>. QED  BY <2>1, <2>2, <2>4
  <1>10. /\ "copy" \in K /\ "copy-only" \in K /\ "cat-from-start" \in K
         /\ "write-text" \in K /\ "write" \in K
    OBVIOUS
  <1> HIDE DEF K
  <1>11. PICK m : m = [kind |-> "show", type |-> type, zone |-> zone,
                       chunk |-> chunk, cap |-> cap]
    OBVIOUS
  <1>12. Meant(m) = label \o hex \o NewLine \o from \o Dash \o upto \o Colon
                    \o size \o Bytes \o Total \o size \o Bytes
    <2>1. /\ m.kind = "show" /\ m.type = type /\ m.zone = zone
          /\ m.chunk = chunk /\ m.cap = cap
      BY <1>11
    <2>. QED  BY <1>2, <1>6, <1>7, <1>8, <1>9, <2>1 DEF Meant
  <1> DEFINE S1 == Append(<< >>, Copy(label))
             S2 == Append(S1, Copy(hex))
             S3 == Append(S2, Copy(NewLine))
             S4 == Append(S3, WriteText)
             S5 == Append(S4, CopyOnly(from))
             S6 == Append(S5, CatFromStart(Dash))
             S7 == Append(S6, CopyOnly(upto))
             S8 == Append(S7, CatFromStart(Colon))
             S9 == Append(S8, Copy(size))
             S10 == Append(S9, Copy(Bytes))
             S11 == Append(S10, WriteText)
             S12 == Append(S11, Write(Total))
             S13 == Append(S12, Write(size))
             S14 == Append(S13, Write(Bytes))
             t1 == << >> \o label
             t2 == t1 \o hex
             t3 == t2 \o NewLine
             t4 == t3 \o << >>
             t5 == t4 \o from
             t6 == t5 \o Dash
             t7 == t6 \o upto
             t8 == t7 \o Colon
             t9 == t8 \o size
             t10 == t9 \o Bytes
             t11 == t10 \o << >>
             t12 == t11 \o Total
             t13 == t12 \o size
             t14 == t13 \o Bytes
  <1>13. S14 = ZoneScript(type, zone) \o AllocScript(chunk, cap) \o TotalScript(cap)
    <2>1. PICK a, b, c, d : /\ a = Copy(label) /\ b = Copy(hex) /\ c = Copy(NewLine)
                            /\ d = WriteText
      OBVIOUS
    <2>2. PICK e, f, g, h : /\ e = CopyOnly(from) /\ f = CatFromStart(Dash)
                            /\ g = CopyOnly(upto) /\ h = CatFromStart(Colon)
      OBVIOUS
    <2>3. PICK i, j, p, q, r : /\ i = Copy(size) /\ j = Copy(Bytes) /\ p = Write(Total)
                               /\ q = Write(size) /\ r = Write(Bytes)
      OBVIOUS
    <2>4. /\ ZoneScript(type, zone) = <<a, b, c, d>>
          /\ AllocScript(chunk, cap) = <<e, f, g, h, i, j, d>>
          /\ TotalScript(cap) = <<p, q, r>>
      BY <1>2, <1>6, <1>7, <1>8, <1>9, <2>1, <2>2, <2>3
         DEF ZoneScript, AllocScript, TotalScript
    <2>5. <<a, b, c, d, e, f, g, h, i, j, d, p, q, r>>
            = <<a, b, c, d>> \o <<e, f, g, h, i, j, d>> \o <<p, q, r>>
      <3>1. <<a, b, c, d, e, f, g, h, i, j, d>>
              = <<a, b, c, d>> \o <<e, f, g, h, i, j, d>>
        OBVIOUS
      <3>2. <<a, b, c, d, e, f, g, h, i, j, d, p, q, r>>
              = <<a, b, c, d, e, f, g, h, i, j, d>> \o <<p, q, r>>
        BY SMTT(40)
      <3>. QED  BY <3>1, <3>2, Zenon
    <2> DEFINE A4 == Append(Append(Append(Append(<< >>, a), b), c), d)
               A8 == Append(Append(Append(Append(A4, e), f), g), h)
               A11 == Append(Append(Append(A8, i), j), d)
    <2>6. <<a, b, c, d, e, f, g, h, i, j, d, p, q, r>>
            = Append(Append(Append(A11, p), q), r)
      <3>1. <<a, b, c, d>> = A4  OBVIOUS
      <3>2. <<a, b, c, d, e, f, g, h>>
              = Append(Append(Append(Append(<<a, b, c, d>>, e), f), g), h)
        OBVIOUS
      <3>3. <<a, b, c, d, e, f, g, h, i, j, d>>
              = Append(Append(Append(<<a, b, c, d, e, f, g, h>>, i), j), d)
        OBVIOUS
      <3>4. <<a, b, c, d, e, f, g, h, i, j, d, p, q, r>>
              = Append(Append(Append(<<a, b, c, d, e, f, g, h, i, j, d>>, p), q), r)
        BY SMTT(40)
      <3>. QED  BY <3>1, <3>2, <3>3, <3>4, Zenon
    <2>7. Append(Append(Append(A11, p), q), r) = S14
      BY <2>1, <2>2, <2>3, Zenon
    <2>. QED  BY <2>4, <2>5, <2>6, <2>7, Zenon
  <1>14. t3 = label \o hex \o NewLine /\ t4 = t3 /\ t4 \in Seq(Chars)
    <2>1. << >> \o label = label  BY ConcatNothing
    <2>2. label \o hex \o NewLine \in Seq(Chars)  BY <1>3, ConcatProperties
    <2>3. t3 = label \o hex \o NewLine  BY <2>1
    <2> HIDE DEF t3
    <2>4. t3 \o << >> = t3  BY <2>2, <2>3, ConcatNothing
    <2>. QED  BY <2>2, <2>3, <2>4
  <1>15. Meant(m) = t14
    <2> HIDE DEF t4
    <2>1. t4 \o from \o Dash \o upto \o Colon \o size \o Bytes \in Seq(Chars)
      <3>1. t4 \o from \o Dash \o upto \in Seq(Chars)
        BY <1>3, <1>14, ConcatProperties
      <3>. QED  BY <1>3, <3>1, ConcatProperties
    <2>2. PICK u \in Seq(Chars) :
            u = t4 \o from \o Dash \o upto \o Colon \o size \o Bytes
      BY <2>1
    <2>3. t11 = u
      <3>1. u \o << >> = u  BY ConcatNothing
      <3>. QED  BY <2>2, <3>1
    <2>4. Meant(m) = u \o Total \o size \o Bytes  BY <1>12, <1>14, <2>2
    <2> HIDE DEF t11
    <2>. QED  BY <2>3, <2>4
  <1>16. Planned(<< >>, K, "write-text", 0, << >>)  BY NothingPlanned
  <1>17. Planned(S1, K, "copy", 8, t1)
    <2>1. /\ 8 \in 0..(BuffSize - 1) /\ 0 + Len(label) <= 8
          /\ label \in Seq(Chars) /\ "write-text" \in {"write-text", "cat", "cat-from-start", "copy"}
      BY <1>1, <1>2
    <2>. QED  BY <1>10, <1>16, <2>1, MoreCopy
  <1> HIDE DEF S1, t1
  <1>18. Planned(S2, K, "copy", 26, t2)
    <2>1. /\ 26 \in 0..(BuffSize - 1) /\ 8 + Len(hex) <= 26
          /\ hex \in Seq(Chars) /\ "copy" \in {"write-text", "cat", "cat-from-start", "copy"}
      BY <1>1, <1>6
    <2>. QED  BY <1>10, <1>17, <2>1, MoreCopy
  <1> HIDE DEF S2, t2
  <1>19. Planned(S3, K, "copy", 27, t3)
    <2>1. /\ 27 \in 0..(BuffSize - 1) /\ 26 + Len(NewLine) <= 27
          /\ NewLine \in Seq(Chars) /\ "copy" \in {"write-text", "cat", "cat-from-start", "copy"}
      BY <1>1, <1>3
    <2>. QED  BY <1>10, <1>18, <2>1, MoreCopy
  <1> HIDE DEF S3, t3
  <1>20. Planned(S4, K, "write-text", 0, t4)
    BY <1>10, <1>19, MoreWrite
  <1> HIDE DEF S4, t4
  <1>21. Planned(S5, K, "copy-only", 18, t5)
    <2>1. /\ 18 \in 0..(BuffSize - 1) /\ 0 + Len(from) <= 18
          /\ from \in Seq(Chars) /\ "write-text" \in {"write-text", "cat", "cat-from-start", "copy"}
      BY <1>1, <1>7
    <2>. QED  BY <1>10, <1>20, <2>1, MoreCopyOnly
  <1> HIDE DEF S5, t5
  <1>22. Planned(S6, K, "cat-from-start", 21, t6)
    <2>1. /\ 21 \in 0..(BuffSize - 1) /\ 18 + Len(Dash) <= 21
          /\ Dash \in Seq(Chars)
      BY <1>1, <1>3
    <2>. QED  BY <1>10, <1>21, <2>1, MoreCatFromStart
  <1> HIDE DEF S6, t6
  <1>23. Planned(S7, K, "copy-only", 39, t7)
    <2>1. /\ 39 \in 0..(BuffSize - 1) /\ 21 + Len(upto) <= 39
          /\ upto \in Seq(Chars) /\ "cat-from-start" \in {"write-text", "cat", "cat-from-start", "copy"}
      BY <1>1, <1>8
    <2>. QED  BY <1>10, <1>22, <2>1, MoreCopyOnly
  <1> HIDE DEF S7, t7
  <1>24. Planned(S8, K, "cat-from-start", 42, t8)
    <2>1. /\ 42 \in 0..(BuffSize - 1) /\ 39 + Len(Colon) <= 42
          /\ Colon \in Seq(Chars)
      BY <1>1, <1>3
    <2>. QED  BY <1>10, <1>23, <2>1, MoreCatFromStart
  <1> HIDE DEF S8, t8
  <1>25. Planned(S9, K, "copy", 62, t9)
    <2>1. /\ 62 \in 0..(BuffSize - 1) /\ 42 + Len(size) <= 62
          /\ size \in Seq(Chars) /\ "cat-from-start" \in {"write-text", "cat", "cat-from-start", "copy"}
      BY <1>1, <1>9
    <2>. QED  BY <1>10, <1>24, <2>1, MoreCopy
  <1> HIDE DEF S9, t9
  <1>26. Planned(S10, K, "copy", 69, t10)
    <2>1. /\ 69 \in 0..(BuffSize - 1) /\ 62 + Len(Bytes) <= 69
          /\ Bytes \in Seq(Chars) /\ "copy" \in {"write-text", "cat", "cat-from-start", "copy"}
      BY <1>1, <1>3
    <2>. QED  BY <1>10, <1>25, <2>1, MoreCopy
  <1> HIDE DEF S10, t10
  <1>27. Planned(S11, K, "write-text", 0, t11)
    BY <1>10, <1>26, MoreWrite
  <1> HIDE DEF S11, t11
  <1>28. Planned(S12, K, "write", 0, t12)
    <2>1. Total \in Seq(Chars)  BY <1>1, <1>3
    <2>. QED  BY <1>10, <1>27, <2>1, MoreWrite
  <1> HIDE DEF S12, t12
  <1>29. Planned(S13, K, "write", 0, t13)
    <2>1. size \in Seq(Chars)  OBVIOUS
    <2>. QED  BY <1>10, <1>28, <2>1, MoreWrite
  <1> HIDE DEF S13, t13
  <1>30. Planned(S14, K, "write", 0, t14)
    <2>1. Bytes \in Seq(Chars)  BY <1>1, <1>3
    <2>. QED  BY <1>10, <1>29, <2>1, MoreWrite
  <1>. QED  BY <1>11, <1>13, <1>15, <1>30 DEF K

-----------------------------------------------------------------------------
(* The theorems                                                            *)

LEMMA TextInit == Init => TextInv
  <1> SUFFICES ASSUME Init  PROVE TextInv
    OBVIOUS
  <1>1. /\ asked = NoMessage /\ todo = << >> /\ out = << >>
        /\ text.len = 0 /\ text.reach = 0
    BY BlankIs DEF Init
  <1>2. 0 \in 0..BuffSize  BY DEF BuffSize
  <1>. QED  BY <1>1, <1>2 DEF TextInv

(* What leaves the message, the array and the output alone.                *)
LEMMA TextKept ==
  ASSUME TextInv, UNCHANGED <<asked, todo, text, out>>
  PROVE  TextInv'
  <1>1. ASSUME NEW S, NEW B, NEW said, NEW k, NEW c, Telling(S, B, said, k, c)
        PROVE  Telling(S, B, said, k, c)'
    <2>1. Meant(asked)' = Meant(asked)  OBVIOUS
    <2>. QED  BY <1>1, <2>1 DEF Telling
  <1>2. asked' # NoMessage' => (\E S, B, said, k, c : Telling(S, B, said, k, c))'
    <2> SUFFICES ASSUME asked' # NoMessage'
                 PROVE  (\E S, B, said, k, c : Telling(S, B, said, k, c))'
      OBVIOUS
    <2>1. asked # NoMessage  BY DEF NoMessage
    <2>2. PICK S, B, said, k, c : Telling(S, B, said, k, c)  BY <2>1 DEF TextInv
    <2>3. Telling(S, B, said, k, c)'  BY <1>1, <2>2
    <2>. QED  BY <2>3
  <1>. QED  BY <1>2 DEF TextInv, NoMessage

LEMMA TextStep == TextInv /\ [Next]_vars => TextInv'
  <1> SUFFICES ASSUME TextInv, [Next]_vars  PROVE TextInv'
    OBVIOUS
  <1>1. CASE InitLeakHandler  BY <1>1, TextKept DEF InitLeakHandler
  <1>2. CASE SetEnv  BY <1>2, TextKept DEF SetEnv
  <1>3. CASE ShowProgramLeaks
    <2>1. PICK count \in Numbers, bytes \in Numbers :
            Say([kind |-> "leaks", count |-> count, bytes |-> bytes],
                LeakScript(count, bytes))
      BY <1>3 DEF ShowProgramLeaks
    <2>2. PICK m : m = [kind |-> "leaks", count |-> count, bytes |-> bytes]
      OBVIOUS
    <2>3. m # NoMessage
      <3>1. m.kind = "leaks" /\ NoMessage.kind = "none"  BY <2>2 DEF NoMessage
      <3>. QED  BY <3>1
    <2>4. Planned(LeakScript(count, bytes), {"cat", "number", "write-text"},
                  "write-text", 0, Meant(m))
      BY <2>2, LeaksTold
    <2>5. {"cat", "number", "write-text"} \cap {"cat-on-start", "cat-from-start"} = {}
      OBVIOUS
    <2>6. "write-text" \in {"write-text", "write"}  OBVIOUS
    <2>7. Say(m, LeakScript(count, bytes))  BY <2>1, <2>2
    <2>. QED  BY <2>3, <2>4, <2>5, <2>6, <2>7, SayTold
  <1>4. CASE AbortProgram
    <2>1. PICK reason \in Reasons \cup PtrReasons, ptr \in Adders \cup {NULL} :
            Say([kind |-> "abort", reason |-> reason, ptr |-> ptr],
                AbortScript(reason, ptr))
      BY <1>4 DEF AbortProgram
    <2>2. PICK m : m = [kind |-> "abort", reason |-> reason, ptr |-> ptr]
      OBVIOUS
    <2>3. m # NoMessage
      <3>1. m.kind = "abort" /\ NoMessage.kind = "none"  BY <2>2 DEF NoMessage
      <3>. QED  BY <3>1
    <2>4. Planned(AbortScript(reason, ptr),
                  {"cat", "copy", "cat-on-start", "write-text"},
                  "write-text", 0, Meant(m))
      BY <2>2, AbortTold
    <2>5. "number" \notin {"cat", "copy", "cat-on-start", "write-text"}  OBVIOUS
    <2>6. "write-text" \in {"write-text", "write"}  OBVIOUS
    <2>7. Say(m, AbortScript(reason, ptr))  BY <2>1, <2>2
    <2>. QED  BY <2>3, <2>4, <2>5, <2>6, <2>7, SayTold
  <1>5. CASE ShowAllocMem
    <2>1. PICK type \in {"tiny", "small", "large"}, zone \in Adders,
               chunk \in Adders, cap \in Numbers :
            Say([kind |-> "show", type |-> type, zone |-> zone,
                 chunk |-> chunk, cap |-> cap],
                ZoneScript(type, zone) \o AllocScript(chunk, cap) \o TotalScript(cap))
      BY <1>5 DEF ShowAllocMem
    <2>2. PICK m : m = [kind |-> "show", type |-> type, zone |-> zone,
                        chunk |-> chunk, cap |-> cap]
      OBVIOUS
    <2>3. m # NoMessage
      <3>1. m.kind = "show" /\ NoMessage.kind = "none"  BY <2>2 DEF NoMessage
      <3>. QED  BY <3>1
    <2>4. PICK S : S = ZoneScript(type, zone) \o AllocScript(chunk, cap)
                       \o TotalScript(cap)
      OBVIOUS
    <2>5. Planned(S, {"copy", "copy-only", "cat-from-start", "write-text", "write"},
                  "write", 0, Meant(m))
      BY <2>2, <2>4, ShowTold
    <2>6. "number" \notin {"copy", "copy-only", "cat-from-start", "write-text", "write"}
      OBVIOUS
    <2>7. "write" \in {"write-text", "write"}  OBVIOUS
    <2>8. Say(m, S)  BY <2>1, <2>2, <2>4
    <2>. QED  BY <2>3, <2>5, <2>6, <2>7, <2>8, SayTold
  <1>6. CASE CatStep \/ NumberStep \/ CopyStep \/ WriteStep  BY <1>6, ScriptStep
  <1>7. CASE UNCHANGED vars  BY <1>7, TextKept DEF vars
  <1>. QED  BY <1>1, <1>2, <1>3, <1>4, <1>5, <1>6, <1>7 DEF Next

(* Whatever the numbers, the addresses and the environment, no append and  *)
(* no write(2) goes beyond the array the message is put together in.       *)
THEOREM StaysInsideCorrect == Spec => []StaysInside
  <1>1. TextInv => StaysInside  BY TextInvSays
  <1>. QED  BY TextInit, TextStep, <1>1, PTL DEF Spec

(* Whatever the numbers and the addresses, the leak report, the message of *)
(* _abort_program and the lines of show_alloc_mem come out whole and in    *)
(* order: the NULs left in front of numbers, the appends on the start of   *)
(* the array and the length counted twice lose nothing of them.            *)
THEOREM ReadsAsMeantCorrect == Spec => []ReadsAsMeant
  <1>1. TextInv => ReadsAsMeant  BY TextInvSays
  <1>. QED  BY TextInit, TextStep, <1>1, PTL DEF Spec

=============================================================================
