------------------------------ MODULE Messages ------------------------------
(***************************************************************************)
(* The text the allocator writes: the leak report, the message of          *)
(* _abort_program and the lines of show_alloc_mem; and the environment     *)
(* variables that ask for the first two.  Nothing may be allocated here,   *)
(* so every message is put together in an array on the stack, one append   *)
(* after the other, and the code keeps account of where it has come to.    *)
(*                                                                         *)
(* A literal is its length in copies of one symbol: what matters is where  *)
(* it lands.  A digit is itself.                                           *)
(***************************************************************************)
EXTENDS Integers, FiniteSetsExt, SequencesExt

CONSTANTS
  Numbers,       \* the counts and sizes to print
  Adders,        \* the addresses to print; NULL is none of them
  Environments   \* values of the three variables: [Flags -> Seq of characters]

VARIABLES
  env,     \* the environment
  start,   \* history: the environment the process was started with
  read,    \* is_init: have the variables been read?
  flags,   \* dbg_env_status
  asked,   \* the message being written, or the last one
  todo,    \* the appends and writes still to come
  text,    \* the array, the length the code keeps, and where it has written to
  out      \* what has been written to the file descriptor

vars == <<env, start, read, flags, asked, todo, text, out>>

NULL == 0

NUL == "NUL"

BuffSize == 300

Flags == {"DBG_ENV_ABORT_ON_ERR", "DBG_ENV_SHOW_LEAKS", "DBG_ENV_CLEAR_LEAKS"}

DecimalChars == {"0", "1", "2", "3", "4", "5", "6", "7", "8", "9"}

(* The powers of a base.                                                   *)
Power(base) ==
  LET power[k \in Nat] == IF k = 0 THEN 1 ELSE base * power[k - 1] IN power

(* n has at most so many digits.                                           *)
Fits(n, base, digits) == \E k \in 1..digits : n < Power(base)[k]

(* A word of 64 bits has at most 20 decimal and 16 hexadecimal digits; the *)
(* chunks of blocks end inside the address space.  A value of the          *)
(* environment has at most nine digits, so that an int holds it.           *)
ASSUME MessagesAssumption ==
  /\ Numbers \subseteq Nat
  /\ Adders \subseteq Nat \ {0}
  /\ \A n \in Numbers : Fits(n, 10, 20)
  /\ \A a \in Adders : Fits(a, 16, 16) /\ \A n \in Numbers : Fits(a + n, 16, 16)
  /\ Environments \subseteq [Flags -> Seq(STRING)]
  /\ \A e \in Environments, f \in Flags :
       Cardinality({i \in DOMAIN e[f] : e[f][i] \in DecimalChars}) <= 9

-----------------------------------------------------------------------------
(* Numbers in text                                                         *)

HexChars == <<"0", "1", "2", "3", "4", "5", "6", "7",
              "8", "9", "A", "B", "C", "D", "E", "F">>

Char(d) == HexChars[d + 1]

(* The digits _append_number_to_str and _format_size_as_bytes fill in from *)
(* the last to the first, after counting them.                             *)
Decimal[n \in Nat] ==
  IF n < 10 THEN <<Char(n)>> ELSE Decimal[n \div 10] \o <<Char(n % 10)>>

PutNbr[n \in Nat] ==
  IF n >= 10 THEN PutNbr[n \div 10] \o PutNbr[n % 10] ELSE <<Char(n)>>

(* The sixteen hexadecimal digits of a word, the highest first.            *)
HexDigits(adder) ==
  LET shifted[k \in 0..15] == IF k = 0 THEN adder ELSE shifted[k - 1] \div 16
  IN  [i \in 1..16 |-> shifted[16 - i] % 16]

FormatAdder(adder) ==
  LET digits == HexDigits(adder)
      found  == {i \in 1..16 : \E j \in 1..i : digits[j] # 0}
  IN  <<"0", "x">> \o [i \in 1..Cardinality(found) |->
                         Char(digits[16 - Cardinality(found) + i])]

-----------------------------------------------------------------------------
(* The array                                                               *)

Blank == [buff |-> [p \in 0..(BuffSize - 1) |-> NUL], len |-> 0, reach |-> 0]

Upto(a, b) == Max({a, b})

Put(buff, p, s) ==
  [q \in DOMAIN buff |-> IF q \in p..(p + Len(s) - 1) THEN s[q - p + 1]
                         ELSE buff[q]]

(* s is written at p, and len becomes the new length.                      *)
Written(p, s, len) ==
  [buff |-> Put(text.buff, p, s), len |-> len, reach |-> Upto(text.reach, p + Len(s))]

(* ft_strlen of the string that starts at p.                               *)
StrLen(buff, p) ==
  Min({q \in DOMAIN buff : q >= p /\ buff[q] = NUL} \cup {Upto(p, BuffSize)}) - p

(* ft_strlcat(buff + p, s, sizeof(buff)): where it writes, what, and what  *)
(* it returns.  The size it is given is that of the whole array.           *)
Strlcat(p, s) ==
  LET dstLen == StrLen(text.buff, p)
      kept   == SubSeq(s, 1, Min({Len(s), BuffSize - 1 - dstLen}))
  IN  IF BuffSize <= dstLen
      THEN [at |-> p, put |-> << >>, ret |-> BuffSize + Len(s)]
      ELSE [at |-> p + dstLen, put |-> Append(kept, NUL), ret |-> dstLen + Len(s)]

-----------------------------------------------------------------------------
(* The literals                                                            *)

Lit(name, len) == [i \in 1..len |-> name]

NewLine == Lit("nl", 1)
LeakHead == Lit("leak-info", 35)
LeakCount == Lit("total-allocations", 19)
LeakBytes == Lit("total-leaked-bytes", 20)
LeakTail == Lit("leak-stars", 35)
AbortHead == Lit("malloc-abort", 31)
AbortAdder == Lit("adder", 9)
AbortClose == Lit("]", 1)
AbortTail == Lit("abort-stars", 23)
Dash == Lit("-", 3)
Colon == Lit(":", 3)
Bytes == Lit("bytes", 7)
Total == Lit("total", 8)

ZoneLabel(type) ==
  CASE type = "tiny" -> Lit("tiny", 7)
    [] type = "small" -> Lit("small", 8)
    [] type = "large" -> Lit("large", 8)

(* The complaints of the code by their length: about a lock or the kernel, *)
(* and about a pointer.                                                    *)
Reasons == {22, 31, 33, 34}

PtrReasons == {45, 48}

Reason(len) == Lit("reason", len)

-----------------------------------------------------------------------------
(* What is appended to a message, in the order of the code                 *)

(* ft_strlcat on the end of the text, on the whole array with the result   *)
(* added to the length, and on the whole array with the result as length.  *)
Cat(s) == [do |-> "cat", arg |-> s]
CatOnStart(s) == [do |-> "cat-on-start", arg |-> s]
CatFromStart(s) == [do |-> "cat-from-start", arg |-> s]

(* _append_number_to_str, _format_size_as_bytes, and _format_adder, whose  *)
(* result _print_alloc does not use; ft_memcpy and single characters.      *)
Number(n) == [do |-> "number", arg |-> n]
Copy(s) == [do |-> "copy", arg |-> s]
CopyOnly(s) == [do |-> "copy-only", arg |-> s]

(* write(2) of the text, which then starts anew; and of something else.    *)
WriteText == [do |-> "write-text", arg |-> NULL]
Write(s) == [do |-> "write", arg |-> s]

LeakScript(count, bytes) ==
  <<Cat(LeakHead), Cat(LeakCount), Number(count), Cat(NewLine),
    Cat(LeakBytes), Number(bytes), Cat(NewLine), Cat(LeakTail), WriteText>>

AdderScript(ptr) ==
  IF ptr = NULL THEN << >>
  ELSE <<Cat(AbortAdder), Copy(FormatAdder(ptr)), Cat(AbortClose)>>

(* Mutant: the new line, too, is appended to the start of the array.       *)
AbortScriptOnStart(reason, ptr) ==
  <<Cat(AbortHead), Cat(Reason(reason))>> \o AdderScript(ptr)
  \o <<CatOnStart(NewLine), CatOnStart(AbortTail), WriteText>>

AbortScript(reason, ptr) ==
  <<Cat(AbortHead), Cat(Reason(reason))>> \o AdderScript(ptr)
  \o <<Cat(NewLine), CatOnStart(AbortTail), WriteText>>

ZoneScript(type, zone) ==
  <<Copy(ZoneLabel(type)), Copy(FormatAdder(zone)), Copy(NewLine), WriteText>>

(* The code sets one more byte behind the line, which it does not write.   *)
AllocScript(chunk, capacity) ==
  <<CopyOnly(FormatAdder(chunk)), CatFromStart(Dash),
    CopyOnly(FormatAdder(chunk + capacity)), CatFromStart(Colon),
    Copy(Decimal[capacity]), Copy(Bytes), WriteText>>

TotalScript(total) == <<Write(Total), Write(PutNbr[total]), Write(Bytes)>>

-----------------------------------------------------------------------------
(* The environment                                                         *)

Blanks == {" ", "\n", "\t", "VT", "\f", "\r"}

(* The longest prefix with characters of a set only, and what follows it.  *)
Leading(s, chars) ==
  SubSeq(s, 1, Cardinality({i \in DOMAIN s : \A j \in 1..i : s[j] \in chars}))

Behind(s, chars) == SubSeq(s, Len(Leading(s, chars)) + 1, Len(s))

Digit(c) == CHOOSE d \in 0..9 : Char(d) = c

(* The loop of ft_atoi over the digits.                                    *)
Value(digits) ==
  LET result[i \in 0..Len(digits)] ==
        IF i = 0 THEN 0 ELSE result[i - 1] * 10 + Digit(digits[i])
  IN  result[Len(digits)]

(* ft_atoi.                                                                *)
Atoi(s) ==
  LET rest   == Behind(s, Blanks)
      signed == rest # << >> /\ rest[1] \in {"-", "+"}
      value  == Value(Leading(IF signed THEN Tail(rest) ELSE rest, DecimalChars))
  IN  IF signed /\ rest[1] = "-" THEN -value ELSE value

CheckEnvFlag(flag) == Atoi(env[flag]) = 1

(* Mutant: is_init is not set, and the status gathers what was ever asked. *)
StatusAlwaysRead == flags \cup {f \in Flags : CheckEnvFlag(f)}

(* _is_dbg_env_set reads the variables on its first call only.             *)
Status == IF read THEN flags ELSE flags \cup {f \in Flags : CheckEnvFlag(f)}

CheckFlags == flags' = Status /\ read' = TRUE

-----------------------------------------------------------------------------
(* Actions                                                                 *)

NoMessage == [kind |-> "none"]

(* _init_leak_handler runs before main and is the first to read the flags. *)
InitLeakHandler ==
  /\ ~read
  /\ CheckFlags
  /\ UNCHANGED <<env, start, asked, todo, text, out>>

(* The program calls setenv or unsetenv.                                   *)
SetEnv ==
  /\ read /\ todo = << >> /\ asked.kind # "abort"
  /\ env' \in Environments
  /\ UNCHANGED <<start, read, flags, asked, todo, text, out>>

Say(message, script) ==
  /\ read /\ todo = << >> /\ asked.kind # "abort"
  /\ CheckFlags
  /\ asked' = message
  /\ todo' = script
  /\ text' = Blank
  /\ out' = << >>
  /\ UNCHANGED <<env, start>>

ShowProgramLeaks ==
  \E count, bytes \in Numbers :
    /\ "DBG_ENV_SHOW_LEAKS" \in Status
    /\ Say([kind |-> "leaks", count |-> count, bytes |-> bytes],
           LeakScript(count, bytes))

(* _abort_program ends with abort(): no message follows.                   *)
AbortProgram ==
  \E reason \in Reasons \cup PtrReasons, ptr \in Adders \cup {NULL} :
    /\ (reason \in PtrReasons) <=> (ptr # NULL)
    /\ "DBG_ENV_ABORT_ON_ERR" \in Status
    /\ Say([kind |-> "abort", reason |-> reason, ptr |-> ptr],
           AbortScript(reason, ptr))

(* show_alloc_mem on a pool with one zone and one block in it.             *)
ShowAllocMem ==
  \E type \in {"tiny", "small", "large"}, zone, chunk \in Adders, cap \in Numbers :
    Say([kind |-> "show", type |-> type, zone |-> zone, chunk |-> chunk, cap |-> cap],
        ZoneScript(type, zone) \o AllocScript(chunk, cap) \o TotalScript(cap))

(* The next thing to do, which is of one of these kinds.                   *)
Doing(kinds) ==
  /\ todo # << >> /\ Head(todo).do \in kinds
  /\ todo' = Tail(todo)
  /\ UNCHANGED <<env, start, read, flags, asked>>

Arg == Head(todo).arg

CatStep ==
  /\ Doing({"cat", "cat-on-start", "cat-from-start"})
  /\ LET r == Strlcat(IF Head(todo).do = "cat" THEN text.len ELSE 0, Arg)
     IN  text' = Written(r.at, r.put,
                         IF Head(todo).do = "cat-from-start" THEN r.ret
                         ELSE text.len + r.ret)
  /\ UNCHANGED out

(* Mutant: 0 is no special case, and no digit is counted.                  *)
AppendNumberNoZero(n) ==
  LET digits == IF n = 0 THEN << >> ELSE Decimal[n]
  IN  Written(text.len + 1, digits, text.len + Len(digits) + 1)

(* _append_number_to_str leaves a NUL in front of the digits.  Of 0 it     *)
(* returns the NUL only: what is appended next finds the digit there.      *)
AppendNumber(n) ==
  Written(text.len + 1, Decimal[n],
          text.len + 1 + (IF n = 0 THEN 0 ELSE Len(Decimal[n])))

NumberStep ==
  /\ Doing({"number"})
  /\ text' = AppendNumber(Arg)
  /\ UNCHANGED out

CopyStep ==
  /\ Doing({"copy", "copy-only"})
  /\ text' = Written(text.len, Arg,
                     IF Head(todo).do = "copy" THEN text.len + Len(Arg) ELSE text.len)
  /\ UNCHANGED out

WriteStep ==
  /\ Doing({"write", "write-text"})
  /\ IF Head(todo).do = "write"
     THEN out' = out \o Arg /\ UNCHANGED text
     ELSE /\ out' = out \o [p \in 1..text.len |->
                             IF p <= BuffSize THEN text.buff[p - 1] ELSE "stack"]
          /\ text' = Blank

Init ==
  /\ env \in Environments
  /\ start = env
  /\ read = FALSE
  /\ flags = {}
  /\ asked = NoMessage
  /\ todo = << >>
  /\ text = Blank
  /\ out = << >>

Next ==
  \/ InitLeakHandler \/ SetEnv
  \/ ShowProgramLeaks \/ AbortProgram \/ ShowAllocMem
  \/ CatStep \/ NumberStep \/ CopyStep \/ WriteStep

Spec == Init /\ [][Next]_vars

-----------------------------------------------------------------------------
(* Properties                                                              *)

(* The numeral of n in a base, without leading zeros, up to 20 digits.     *)
Numeral(n, base) ==
  LET power == Power(base)
      width == CHOOSE k \in 1..20 : n < power[k] /\ (k = 1 \/ power[k - 1] <= n)
  IN  [i \in 1..width |-> Char((n \div power[width - i]) % base)]

Hex(adder) == <<"0", "x">> \o Numeral(adder, 16)

Meant(m) ==
  CASE m.kind = "leaks" ->
         LeakHead \o LeakCount \o Numeral(m.count, 10) \o NewLine
         \o LeakBytes \o Numeral(m.bytes, 10) \o NewLine \o LeakTail
    [] m.kind = "abort" ->
         AbortHead \o Reason(m.reason)
         \o (IF m.ptr = NULL THEN << >>
             ELSE AbortAdder \o Hex(m.ptr) \o AbortClose)
         \o NewLine \o AbortTail
    [] m.kind = "show" ->
         ZoneLabel(m.type) \o Hex(m.zone) \o NewLine
         \o Hex(m.chunk) \o Dash \o Hex(m.chunk + m.cap) \o Colon
         \o Numeral(m.cap, 10) \o Bytes
         \o Total \o Numeral(m.cap, 10) \o Bytes

(* What a reader sees of a text: it without the NULs.                      *)
Visible(s) ==
  LET seen[i \in 0..Len(s)] ==
        IF i = 0 THEN << >>
        ELSE IF s[i] = NUL THEN seen[i - 1] ELSE Append(seen[i - 1], s[i])
  IN  seen[Len(s)]

(* Whatever its numbers, every message comes out whole and in order: no    *)
(* append overwrites or cuts off another, although the code counts a NUL   *)
(* in front of numbers, appends to the start of the array in two places    *)
(* and the length of the abort message is counted twice.                   *)
ReadsAsMeant ==
  todo = << >> /\ asked # NoMessage => Visible(out) = Meant(asked)

(* No append and no write(2) goes beyond the array, although each          *)
(* ft_strlcat is told that all of the array is left and the closing line   *)
(* of the abort message doubles its length.                                *)
StaysInside == text.reach <= BuffSize /\ text.len <= BuffSize

(* Does a value read as the number 1?                                      *)
ReadsOne(s) ==
  \E i \in DOMAIN s, b \in 0..Len(s) :
    /\ s[i] = "1" /\ (i < Len(s) => s[i + 1] \notin DecimalChars)
    /\ b < i /\ \A j \in 1..b : s[j] \in Blanks
    /\ \A j \in (b + 1)..(i - 1) : s[j] = "0" \/ (s[j] = "+" /\ j = b + 1)

(* What is reported is decided by the environment the process was started  *)
(* with, a variable being set when it reads as 1: nothing the program does *)
(* to its environment later changes it.                                    *)
FlagsAsStarted == read => flags = {f \in Flags : ReadsOne(start[f])}
=============================================================================
