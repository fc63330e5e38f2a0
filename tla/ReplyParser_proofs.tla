-------------------------- MODULE ReplyParser_proofs --------------------------
(***************************************************************************)
(* Proofs about the parser, for every script (any number of replies, of    *)
(* any kind, length and nesting), wherever the bytes are cut and whenever  *)
(* the connection breaks.                                                  *)
(*                                                                         *)
(* The one inductive invariant is InStep: the bytes read but not yet       *)
(* parsed, with those on the wire, are exactly what the server writes      *)
(* between the place where the parser is in the script and the place       *)
(* where the server is.  What "where the parser is" means depends on the   *)
(* top frame: each of its states has a phase.  What the frames below have  *)
(* got is related to the tokens still to come by Fits: if each array on    *)
(* the stack took its missing elements from what those tokens say, the     *)
(* reply would be the one that all of its tokens say.                      *)
(*                                                                         *)
(* In this order: induction by sets; decimals and their reading; sequences *)
(* and lines, cut and put together; outcomes (what may become of tokens);  *)
(* places and what is written between them; frames; the phases, with one   *)
(* lemma for the round of each builder; the invariant; the theorems.       *)
(***************************************************************************)
EXTENDS ReplyParser, SequenceTheorems, WellFoundedInduction, TLAPS

-----------------------------------------------------------------------------
(* Induction and recursion over numbers, by sets.                           *)

LEMMA SetInduction ==
    ASSUME NEW S, 0 \in S, \A n \in Nat : n \in S => n + 1 \in S
    PROVE  Nat \subseteq S
<1> DEFINE Others == Nat \ S
<1> SUFFICES ASSUME Others # {} PROVE FALSE
  OBVIOUS
<1>1. PICK n \in Others : \A k \in Others : ~ (<<k, n>> \in OpToRel(<, Nat))
  <2>1. Others \subseteq Nat
    OBVIOUS
  <2> HIDE DEF Others
  <2> QED
    BY <2>1, NatLessThanWellFounded, WFMin
<1>2. n \in Nat /\ n # 0 /\ n \notin S
  OBVIOUS
<1>3. n - 1 \in Nat /\ n - 1 < n
  BY <1>2
<1>4. n - 1 \notin Others
  BY <1>1, <1>2, <1>3 DEF OpToRel
<1> QED
  BY <1>2, <1>3, <1>4

LEMMA StrongSetInduction ==
    ASSUME NEW S, \A n \in Nat : (\A k \in Nat : k < n => k \in S) => n \in S
    PROVE  Nat \subseteq S
<1> DEFINE Others == Nat \ S
<1> SUFFICES ASSUME Others # {} PROVE FALSE
  OBVIOUS
<1>1. PICK n \in Others : \A k \in Others : ~ (<<k, n>> \in OpToRel(<, Nat))
  <2>1. Others \subseteq Nat
    OBVIOUS
  <2> HIDE DEF Others
  <2> QED
    BY <2>1, NatLessThanWellFounded, WFMin
<1>2. n \in Nat /\ n \notin S
  OBVIOUS
<1>3. \A k \in Nat : k < n => k \in S
  BY <1>1, <1>2 DEF OpToRel
<1> QED
  BY <1>2, <1>3

LEMMA Dig == Digits \in Seq(Byte \ {"CR", "LF"}) /\ Len(Digits) = 10
<1>1. \A x \in {"0", "1", "2", "3", "4", "5", "6", "7", "8", "9"} : x \in Byte \ {"CR", "LF"}
  BY ByteAssumption
<1> QED
  BY <1>1 DEF Digits

LEMMA Weights == \A d \in 0 .. 9 : Weight(Digits[d + 1]) = d /\ Digits[d + 1] # "-"
<1>1. \A d, e \in 1 .. 10 : d # e => Digits[d] # Digits[e]
  BY DEF Digits
<1>2. \A d \in 1 .. 10 : Digits[d] # "-"
  BY DEF Digits
<1>3. Len(Digits) = 10
  BY DEF Digits
<1> SUFFICES ASSUME NEW d \in 0 .. 9 PROVE Weight(Digits[d + 1]) = d
  BY <1>2
<1>4. Contains(Digits, Digits[d + 1])
  BY <1>3 DEF Contains
<1>5. \A e \in 0 .. 9 : Digits[e + 1] = Digits[d + 1] => e = d
  BY <1>1
<1> QED
  BY <1>4, <1>5 DEF Weight
-----------------------------------------------------------------------------
(* Numbers.                                                                 *)

(* What the loop of redis_reply_read_integer() has in v64 after i bytes. *)
IsV64(f, text) ==
    f = [i \in 0 .. Len(text) |->
            IF i = 0 THEN 0
            ELSE IF text[i] = "-" THEN f[i - 1] ELSE f[i - 1] * 10 + Weight(text[i])]

LEMMA V64Exists ==
    ASSUME NEW text \in Seq(Byte)
    PROVE  \E f : IsV64(f, text)
<1> DEFINE Upto(k, f) ==
        f = [i \in 0 .. k |->
                IF i = 0 THEN 0
                ELSE IF text[i] = "-" THEN f[i - 1] ELSE f[i - 1] * 10 + Weight(text[i])]
           S == {k \in Nat : \E f : Upto(k, f)}
<1>1. 0 \in S
  <2>1. Upto(0, [i \in 0 .. 0 |-> 0])
    OBVIOUS
  <2> QED
    BY <2>1
<1>2. ASSUME NEW k \in Nat, k \in S PROVE k + 1 \in S
  <2>1. PICK f : Upto(k, f)
    BY <1>2
  <2> DEFINE g == [i \in 0 .. k + 1 |->
                     IF i = k + 1
                     THEN IF text[i] = "-" THEN f[k] ELSE f[k] * 10 + Weight(text[i])
                     ELSE f[i]]
  <2>2. Upto(k + 1, g)
    BY <2>1
  <2> HIDE DEF Upto, g
  <2> QED
    BY <2>2
<1>3. Nat \subseteq S
  <2> HIDE DEF S
  <2> QED
    BY <1>1, <1>2, SetInduction
<1> QED
  BY <1>3 DEF IsV64

LEMMA NumberOfText ==
    ASSUME NEW text \in Seq(Byte)
    PROVE  \E f : /\ IsV64(f, text)
                  /\ NumberOf(text) = IF Contains(text, "-") THEN -f[Len(text)] ELSE f[Len(text)]
BY V64Exists DEF NumberOf, IsV64

LEMMA WeightType == \A c : Weight(c) \in Nat
<1> SUFFICES ASSUME NEW c, Contains(Digits, c) PROVE Weight(c) \in Nat
  BY DEF Weight
<1>1. PICK i \in 1 .. Len(Digits) : Digits[i] = c
  BY DEF Contains
<1>2. PICK d \in 0 .. 9 : d = i - 1
  BY <1>1, Dig
<1>3. d + 1 = i
  BY <1>2, Dig
<1>4. \E e \in 0 .. 9 : Digits[e + 1] = c
  BY <1>1, <1>3
<1>5. Weight(c) = CHOOSE e \in 0 .. 9 : Digits[e + 1] = c
  BY Zenon DEF Weight
<1>6. Weight(c) \in 0 .. 9
  BY <1>4, <1>5, Zenon
<1> QED
  BY <1>6

LEMMA DigitType ==
    \A d \in 0 .. 9 : Digits[d + 1] \in Byte /\ Digits[d + 1] \in Byte \ {"CR", "LF"}
<1> SUFFICES ASSUME NEW d \in 0 .. 9 PROVE Digits[d + 1] \in Byte \ {"CR", "LF"}
  OBVIOUS
<1>1. PICK i \in 1 .. 10 : i = d + 1
  OBVIOUS
<1>2. Digits[i] \in Byte \ {"CR", "LF"}
  BY Dig, ElementOfSeq
<1> QED
  BY <1>1, <1>2

LEMMA V64Type ==
    ASSUME NEW text \in Seq(Byte), NEW f, IsV64(f, text)
    PROVE  \A i \in 0 .. Len(text) : f[i] \in Nat
<1> DEFINE S == {k \in Nat : k <= Len(text) => f[k] \in Nat}
<1>1. 0 \in S
  BY DEF IsV64
<1>2. ASSUME NEW k \in Nat, k \in S PROVE k + 1 \in S
  <2> SUFFICES ASSUME k + 1 <= Len(text) PROVE f[k + 1] \in Nat
    OBVIOUS
  <2>1. f[k + 1] = IF text[k + 1] = "-" THEN f[k] ELSE f[k] * 10 + Weight(text[k + 1])
    BY DEF IsV64
  <2> QED
    BY <1>2, <2>1, WeightType
<1>3. Nat \subseteq S
  <2> HIDE DEF S
  <2> QED
    BY <1>1, <1>2, SetInduction
<1> QED
  BY <1>3

(* The loop adds up the same bytes to the same number, wherever they stand. *)
LEMMA V64OfPart ==
    ASSUME NEW s \in Seq(Byte), NEW f, IsV64(f, s), NEW t \in Seq(Byte), NEW g, IsV64(g, t),
           NEW o \in Nat, NEW n \in Nat, n <= Len(s), o + n <= Len(t),
           \A i \in 1 .. n : s[i] = t[o + i], g[o] = 0
    PROVE  g[o + n] = f[n]
<1> DEFINE S == {k \in Nat : k <= n => g[o + k] = f[k]}
<1>1. 0 \in S
  BY DEF IsV64
<1>2. ASSUME NEW k \in Nat, k \in S PROVE k + 1 \in S
  <2> SUFFICES ASSUME k + 1 <= n PROVE g[o + (k + 1)] = f[k + 1]
    OBVIOUS
  <2>1. f[k + 1] = IF s[k + 1] = "-" THEN f[k] ELSE f[k] * 10 + Weight(s[k + 1])
    BY DEF IsV64
  <2>2. PICK m \in Nat : m = o + k + 1
    OBVIOUS
  <2>3. g[m] = IF t[m] = "-" THEN g[m - 1] ELSE g[m - 1] * 10 + Weight(t[m])
    BY <2>2 DEF IsV64
  <2>4. m = o + (k + 1) /\ m - 1 = o + k /\ t[m] = s[k + 1]
    BY <2>2
  <2> QED
    BY <1>2, <2>1, <2>3, <2>4
<1>3. Nat \subseteq S
  <2> HIDE DEF S
  <2> QED
    BY <1>1, <1>2, SetInduction
<1> QED
  BY <1>3

LEMMA NumberOfDigit ==
    ASSUME NEW d \in 0 .. 9
    PROVE  NumberOf(<<Digits[d + 1]>>) = d /\ ~Contains(<<Digits[d + 1]>>, "-")
<1>1. PICK text \in Seq(Byte) : text = <<Digits[d + 1]>>
  <2>1. Digits[d + 1] \in Byte
    BY DigitType
  <2>2. <<Digits[d + 1]>> \in Seq(Byte)
    BY <2>1
  <2> QED
    BY <2>2
<1>2. Len(text) = 1 /\ text[1] = Digits[d + 1]
  BY <1>1
<1>3. ~Contains(text, "-")
  BY <1>2, Weights DEF Contains
<1>4. PICK f : IsV64(f, text) /\ NumberOf(text) = f[1]
  BY <1>2, <1>3, NumberOfText
<1>5. f[0] = 0 /\ f[1] = f[0] * 10 + Weight(text[1])
  BY <1>2, <1>4, Weights DEF IsV64
<1> QED
  BY <1>1, <1>2, <1>3, <1>4, <1>5, Weights

LEMMA NumberOfAppend ==
    ASSUME NEW text \in Seq(Byte), ~Contains(text, "-"), NEW d \in 0 .. 9
    PROVE  /\ ~Contains(Append(text, Digits[d + 1]), "-")
           /\ NumberOf(Append(text, Digits[d + 1])) = NumberOf(text) * 10 + d
<1>1. PICK t \in Seq(Byte) : t = Append(text, Digits[d + 1])
  <2>1. Digits[d + 1] \in Byte
    BY DigitType
  <2>2. Append(text, Digits[d + 1]) \in Seq(Byte)
    BY <2>1
  <2> QED
    BY <2>2
<1>2. /\ Len(text) \in Nat /\ Len(t) = Len(text) + 1 /\ t[Len(t)] = Digits[d + 1]
      /\ \A i \in 1 .. Len(text) : t[i] = text[i]
  BY <1>1
<1>3. ~Contains(t, "-")
  <2> SUFFICES ASSUME NEW i \in 1 .. Len(t), t[i] = "-" PROVE FALSE
    BY DEF Contains
  <2>1. i <= Len(text)
    BY <1>2, Weights
  <2> QED
    BY <1>2, <2>1 DEF Contains
<1>4. PICK f : IsV64(f, text) /\ NumberOf(text) = f[Len(text)]
  BY NumberOfText
<1>5. PICK g : IsV64(g, t) /\ NumberOf(t) = g[Len(t)]
  BY <1>3, NumberOfText
<1>6. g[Len(text)] = f[Len(text)]
  <2>1. g[0] = 0 /\ 0 + Len(text) = Len(text) /\ \A i \in 1 .. Len(text) : text[i] = t[0 + i]
    BY <1>2, <1>5 DEF IsV64
  <2> QED
    BY <1>2, <1>4, <1>5, <2>1, V64OfPart
<1>7. g[Len(t)] = g[Len(t) - 1] * 10 + Weight(t[Len(t)])
  BY <1>2, <1>5, Weights DEF IsV64
<1> QED
  BY <1>1, <1>2, <1>3, <1>4, <1>5, <1>6, <1>7, Weights

LEMMA NumberOfNegative ==
    ASSUME NEW text \in Seq(Byte), ~Contains(text, "-")
    PROVE  NumberOf(<<"-">> \o text) = -NumberOf(text)
<1>1. PICK t \in Seq(Byte) : t = <<"-">> \o text
  <2>1. "-" \in Byte
    BY ByteAssumption
  <2>2. <<"-">> \in Seq(Byte)
    BY <2>1
  <2>3. <<"-">> \o text \in Seq(Byte)
    BY <2>2
  <2> QED
    BY <2>3
<1>2. /\ Len(text) \in Nat /\ Len(t) = Len(text) + 1 /\ t[1] = "-"
      /\ \A i \in 1 .. Len(text) : t[1 + i] = text[i]
  BY <1>1
<1>3. Contains(t, "-")
  BY <1>2 DEF Contains
<1>4. PICK f : IsV64(f, text) /\ NumberOf(text) = f[Len(text)]
  BY NumberOfText
<1>5. PICK g : IsV64(g, t) /\ NumberOf(t) = -g[Len(t)]
  BY <1>3, NumberOfText
<1>6. g[1] = g[0] /\ g[0] = 0
  BY <1>2, <1>5 DEF IsV64
<1>7. g[1 + Len(text)] = f[Len(text)]
  <2>1. 1 \in Nat /\ Len(text) <= Len(text) /\ 1 + Len(text) <= Len(t) /\ g[1] = 0
    BY <1>2, <1>6
  <2>2. \A i \in 1 .. Len(text) : text[i] = t[1 + i]
    BY <1>2
  <2>3. \A n \in Nat : n <= Len(text) /\ 1 + n <= Len(t) /\ (\A i \in 1 .. n : text[i] = t[1 + i])
                         => g[1 + n] = f[n]
    BY <1>4, <1>5, <2>1, V64OfPart
  <2> QED
    BY <1>2, <2>1, <2>2, <2>3
<1> QED
  BY <1>1, <1>2, <1>4, <1>5, <1>7

LEMMA TextOfBytes == \A text \in Text : text \in Seq(Byte)
<1> SUFFICES ASSUME NEW text \in Text PROVE text \in Seq(Byte)
  OBVIOUS
<1>1. Len(text) \in Nat /\ \A i \in 1 .. Len(text) : text[i] \in Byte
  BY ElementOfSeq DEF Text
<1> QED
  BY <1>1, IsASeq DEF Text

IsDecimal(f, abs) ==
    f = [m \in 0 .. abs |->
            IF m < 10 THEN <<Digits[m + 1]>> ELSE Append(f[m \div 10], Digits[(m % 10) + 1])]

LEMMA Division ==
    ASSUME NEW m \in Nat, m >= 10
    PROVE  /\ m \div 10 \in Nat /\ m \div 10 < m
           /\ m % 10 \in 0 .. 9 /\ m = (m \div 10) * 10 + (m % 10)
OBVIOUS

LEMMA DecimalExists ==
    ASSUME NEW abs \in Nat
    PROVE  \E f : IsDecimal(f, abs)
<1> DEFINE S == {k \in Nat : \E f : IsDecimal(f, k)}
<1>1. 0 \in S
  <2>1. IsDecimal([m \in 0 .. 0 |-> <<Digits[m + 1]>>], 0)
    BY DEF IsDecimal
  <2> QED
    BY <2>1
<1>2. ASSUME NEW k \in Nat, k \in S PROVE k + 1 \in S
  <2>1. PICK f : IsDecimal(f, k)
    BY <1>2
  <2> DEFINE e == IF k + 1 < 10 THEN <<Digits[(k + 1) + 1]>>
                  ELSE Append(f[(k + 1) \div 10], Digits[((k + 1) % 10) + 1])
             g == [m \in 0 .. k + 1 |-> IF m = k + 1 THEN e ELSE f[m]]
  <2>2. \A m \in 0 .. k :
            f[m] = IF m < 10 THEN <<Digits[m + 1]>> ELSE Append(f[m \div 10], Digits[(m % 10) + 1])
    BY <2>1 DEF IsDecimal
  <2>3. \A m \in 0 .. k : g[m] = f[m]
    OBVIOUS
  <2>4. g[k + 1] = e
    OBVIOUS
  <2>5. \A m \in 0 .. k + 1 : m >= 10 => m \div 10 \in 0 .. k
    BY Division
  <2>6. \A m \in 0 .. k + 1 :
            g[m] = IF m < 10 THEN <<Digits[m + 1]>> ELSE Append(g[m \div 10], Digits[(m % 10) + 1])
    <3> SUFFICES ASSUME NEW m \in 0 .. k + 1
                 PROVE  g[m] = IF m < 10 THEN <<Digits[m + 1]>>
                               ELSE Append(g[m \div 10], Digits[(m % 10) + 1])
      OBVIOUS
    <3>1. CASE m = k + 1
      <4>1. m >= 10 => g[m \div 10] = f[m \div 10]
        BY <2>3, <2>5
      <4> HIDE DEF g
      <4> QED
        BY <3>1, <2>4, <4>1
    <3>2. CASE m # k + 1
      <4>1. m \in 0 .. k
        BY <3>2
      <4>2. m >= 10 => g[m \div 10] = f[m \div 10]
        BY <2>3, <2>5
      <4> HIDE DEF g
      <4> QED
        BY <4>1, <2>2, <2>3, <4>2
    <3> QED
      BY <3>1, <3>2
  <2>7. IsDecimal(g, k + 1)
    <3>1. g = [m \in 0 .. k + 1 |-> g[m]]
      OBVIOUS
    <3> HIDE DEF g
    <3> QED
      BY <2>6, <3>1 DEF IsDecimal
  <2> HIDE DEF g
  <2> QED
    BY <2>7
<1>3. Nat \subseteq S
  <2> HIDE DEF S
  <2> QED
    BY <1>1, <1>2, SetInduction
<1> QED
  BY <1>3

(* A number is written without a sign in digits, and read back as what it is. *)
LEMMA DecimalDigits ==
    ASSUME NEW abs \in Nat, NEW f, IsDecimal(f, abs)
    PROVE  \A m \in 0 .. abs : f[m] \in Text /\ NumberOf(f[m]) = m /\ ~Contains(f[m], "-")
<1> DEFINE Good(m) == f[m] \in Text /\ NumberOf(f[m]) = m /\ ~Contains(f[m], "-")
           S == {m \in Nat : m <= abs => Good(m)}
<1>1. ASSUME NEW m \in Nat, \A k \in Nat : k < m => k \in S PROVE m \in S
  <2> SUFFICES ASSUME m <= abs PROVE Good(m)
    OBVIOUS
  <2>0. m \in 0 .. abs
    OBVIOUS
  <2>1. f[m] = IF m < 10 THEN <<Digits[m + 1]>> ELSE Append(f[m \div 10], Digits[(m % 10) + 1])
    BY <2>0, Zenon DEF IsDecimal
  <2>2. CASE m < 10
    <3>1. m \in 0 .. 9 /\ f[m] = <<Digits[m + 1]>>
      BY <2>1, <2>2
    <3>2. <<Digits[m + 1]>> \in Text
      <4>1. Digits[m + 1] \in Byte \ {"CR", "LF"}
        BY <3>1, DigitType
      <4> QED
        BY <4>1 DEF Text
    <3> QED
      BY <3>1, <3>2, NumberOfDigit
  <2>3. CASE m >= 10
    <3>1. PICK q \in Nat : q = m \div 10
      BY <2>3, Division
    <3>2. PICK d \in 0 .. 9 : d = m % 10
      BY <2>3, Division
    <3>3. q < m /\ m = q * 10 + d
      BY <2>3, <3>1, <3>2, Division
    <3>4. Good(q)
      BY <1>1, <3>3
    <3>5. f[m] = Append(f[q], Digits[d + 1])
      BY <2>1, <2>3, <3>1, <3>2
    <3>6. Append(f[q], Digits[d + 1]) \in Text
      <4>1. Digits[d + 1] \in Byte \ {"CR", "LF"}
        BY DigitType
      <4> QED
        BY <4>1, <3>4 DEF Text
    <3>7. f[q] \in Seq(Byte)
      BY <3>4, TextOfBytes
    <3> QED
      BY <3>3, <3>4, <3>5, <3>6, <3>7, NumberOfAppend
  <2> QED
    BY <2>2, <2>3
<1>2. Nat \subseteq S
  <2> HIDE DEF S
  <2> QED
    BY <1>1, StrongSetInduction
<1> QED
  BY <1>2

(* What the server writes as a number, the parser reads as the same number. *)
LEMMA DecimalRead ==
    ASSUME NEW n \in Int
    PROVE  Decimal(n) \in Text /\ NumberOf(Decimal(n)) = n
<1>1. PICK abs \in Nat : abs = IF n < 0 THEN -n ELSE n
  OBVIOUS
<1>2. PICK f : IsDecimal(f, abs) /\ Decimal(n) = IF n < 0 THEN <<"-">> \o f[abs] ELSE f[abs]
  <2>1. \E f : IsDecimal(f, abs)
    BY DecimalExists
  <2> DEFINE a == IF n < 0 THEN -n ELSE n
             chosen == CHOOSE f : IsDecimal(f, a)
  <2>2. IsDecimal(chosen, a)
    BY <1>1, <2>1, Zenon
  <2>3. Decimal(n) = IF n < 0 THEN <<"-">> \o chosen[a] ELSE chosen[a]
    BY Zenon DEF Decimal, IsDecimal
  <2> HIDE DEF chosen
  <2> QED
    BY <1>1, <2>2, <2>3
<1>3. f[abs] \in Text /\ NumberOf(f[abs]) = abs /\ ~Contains(f[abs], "-")
  BY <1>2, DecimalDigits
<1>4. f[abs] \in Seq(Byte)
  BY <1>3, TextOfBytes
<1>5. <<"-">> \o f[abs] \in Text
  <2>1. "-" \in Byte \ {"CR", "LF"}
    BY ByteAssumption
  <2>2. <<"-">> \in Seq(Byte \ {"CR", "LF"})
    BY <2>1
  <2> QED
    BY <1>3, <2>2 DEF Text
<1>6. NumberOf(<<"-">> \o f[abs]) = -abs
  BY <1>3, <1>4, NumberOfNegative
<1> QED
  BY <1>1, <1>2, <1>3, <1>5, <1>6

-----------------------------------------------------------------------------
(* Sequences whose elements have no set to belong to: values are nested.    *)

Sequence(s) == \E S : s \in Seq(S)

LEMMA Common ==
    ASSUME NEW s, NEW t, Sequence(s), Sequence(t)
    PROVE  \E S : s \in Seq(S) /\ t \in Seq(S)
<1>1. PICK A : s \in Seq(A)
  BY DEF Sequence
<1>2. PICK B : t \in Seq(B)
  BY DEF Sequence
<1>3. s \in Seq(A \cup B)
  BY <1>1
<1>4. t \in Seq(A \cup B)
  BY <1>2
<1> QED
  BY <1>3, <1>4

LEMMA LenType == \A s : Sequence(s) => Len(s) \in Nat /\ s = [i \in 1 .. Len(s) |-> s[i]]
BY DEF Sequence

LEMMA EmptyShape == Sequence(<<>>) /\ Len(<<>>) = 0
<1>1. <<>> \in Seq({})
  OBVIOUS
<1> QED
  BY <1>1 DEF Sequence

LEMMA UnitShape == \A v : Sequence(<<v>>) /\ Len(<<v>>) = 1 /\ <<v>>[1] = v
<1> SUFFICES ASSUME NEW v PROVE Sequence(<<v>>) /\ Len(<<v>>) = 1 /\ <<v>>[1] = v
  OBVIOUS
<1>1. <<v>> \in Seq({v})
  OBVIOUS
<1> QED
  BY <1>1 DEF Sequence

LEMMA ConcatShape ==
    ASSUME NEW s, NEW t, Sequence(s), Sequence(t)
    PROVE  /\ Sequence(s \o t) /\ Len(s \o t) = Len(s) + Len(t)
           /\ \A i \in 1 .. Len(s) : (s \o t)[i] = s[i]
           /\ \A i \in 1 .. Len(t) : (s \o t)[Len(s) + i] = t[i]
           /\ \A i \in Len(s) + 1 .. Len(s) + Len(t) : (s \o t)[i] = t[i - Len(s)]
<1>1. PICK S : s \in Seq(S) /\ t \in Seq(S)
  BY Common
<1>2. s \o t \in Seq(S)
  BY <1>1
<1> QED
  BY <1>1, <1>2 DEF Sequence

LEMMA SubShape ==
    ASSUME NEW s, Sequence(s), NEW a \in Nat, NEW b \in Nat, a >= 1, b <= Len(s), a <= b + 1
    PROVE  /\ Sequence(SubSeq(s, a, b)) /\ Len(SubSeq(s, a, b)) = b + 1 - a
           /\ \A i \in 1 .. b + 1 - a : SubSeq(s, a, b)[i] = s[a + i - 1]
<1>1. PICK S : s \in Seq(S)
  BY DEF Sequence
<1>2. SubSeq(s, a, b) \in Seq(S)
  BY <1>1
<1> QED
  BY <1>1, <1>2 DEF Sequence

LEMMA AppendShape ==
    ASSUME NEW s, NEW v, Sequence(s)
    PROVE  /\ Sequence(Append(s, v)) /\ Len(Append(s, v)) = Len(s) + 1
           /\ \A i \in 1 .. Len(s) : Append(s, v)[i] = s[i]
           /\ Append(s, v)[Len(s) + 1] = v
           /\ Append(s, v) = s \o <<v>>
<1>1. PICK S : s \in Seq(S) /\ <<v>> \in Seq(S)
  BY Common, UnitShape
<1>2. v \in S
  BY <1>1
<1>3. Append(s, v) \in Seq(S)
  BY <1>1, <1>2
<1>4. Append(s, v) = s \o <<v>>
  BY <1>1, <1>2
<1> QED
  BY <1>1, <1>2, <1>3, <1>4 DEF Sequence

LEMMA SameSequence ==
    ASSUME NEW s, NEW t, Sequence(s), Sequence(t), Len(s) = Len(t),
           \A i \in 1 .. Len(s) : s[i] = t[i]
    PROVE  s = t
BY LenType

LEMMA Assoc ==
    ASSUME NEW s, NEW t, NEW u, Sequence(s), Sequence(t), Sequence(u)
    PROVE  (s \o t) \o u = s \o (t \o u)
<1>1. PICK S : s \in Seq(S) /\ t \in Seq(S)
  BY Common
<1>2. PICK T : s \o t \in Seq(T) /\ u \in Seq(T)
  BY ConcatShape, Common
<1>3. s \in Seq(S \cup T) /\ t \in Seq(S \cup T) /\ u \in Seq(S \cup T)
  BY <1>1, <1>2
<1> QED
  BY <1>3

LEMMA EmptyConcat == \A s : Sequence(s) => <<>> \o s = s /\ s \o <<>> = s
BY DEF Sequence

LEMMA SplitAt ==
    ASSUME NEW s, Sequence(s), NEW n \in 0 .. Len(s)
    PROVE  s = SubSeq(s, 1, n) \o SubSeq(s, n + 1, Len(s))
<1> DEFINE a == SubSeq(s, 1, n)
           b == SubSeq(s, n + 1, Len(s))
<1>1. Len(s) \in Nat
  BY LenType
<1>2. Sequence(a) /\ Len(a) = n /\ \A i \in 1 .. n : a[i] = s[i]
  BY <1>1, SubShape
<1>3. /\ Sequence(b) /\ Len(b) = Len(s) - n
      /\ \A i \in 1 .. Len(s) - n : b[i] = s[n + i]
  BY <1>1, SubShape
<1> HIDE DEF a, b
<1>4. Sequence(a \o b) /\ Len(a \o b) = Len(s)
  BY <1>1, <1>2, <1>3, ConcatShape
<1>5. ASSUME NEW i \in 1 .. Len(s) PROVE s[i] = (a \o b)[i]
  <2>1. CASE i <= n
    BY <1>2, <1>3, <2>1, ConcatShape
  <2>2. CASE i > n
    <3>1. PICK j \in 1 .. Len(s) - n : i = n + j
      <4>1. i - n \in 1 .. Len(s) - n /\ i = n + (i - n)
        BY <1>1, <2>2
      <4> QED
        BY <4>1
    <3>2. (a \o b)[n + j] = b[j]
      BY <1>2, <1>3, ConcatShape
    <3> QED
      BY <1>3, <3>1, <3>2
  <2>3. i <= n \/ i > n
    BY <1>1
  <2> QED
    BY <2>1, <2>2, <2>3, Zenon
<1> QED
  BY <1>4, <1>5, SameSequence DEF a, b

(* Where a sequence is put together, it comes apart. *)
LEMMA PartsOfConcat ==
    ASSUME NEW s, NEW t, Sequence(s), Sequence(t)
    PROVE  /\ SubSeq(s \o t, 1, Len(s)) = s
           /\ SubSeq(s \o t, Len(s) + 1, Len(s \o t)) = t
<1>1. PICK S : s \in Seq(S) /\ t \in Seq(S)
  BY Common
<1> QED
  BY <1>1

-----------------------------------------------------------------------------
(* What the tokens of a reply say, and what may be made of them.            *)

IsReading(f, ts, a) ==
    f = [i \in a .. Len(ts) + 1 |-> IF i > Len(ts) THEN <<>> ELSE Reduce(ts[i], f[i + 1])]

LEMMA ReadingExists ==
    ASSUME NEW ts \in Seq(Token)
    PROVE  \E f : IsReading(f, ts, 1)
<1> DEFINE N == Len(ts)
           S == {k \in Nat : k <= N => \E f : IsReading(f, ts, N + 1 - k)}
<1>0. N \in Nat
  OBVIOUS
<1>1. 0 \in S
  <2>1. IsReading([i \in N + 1 .. N + 1 |-> <<>>], ts, N + 1)
    BY <1>0 DEF IsReading
  <2> QED
    BY <1>0, <2>1
<1>2. ASSUME NEW k \in Nat, k \in S PROVE k + 1 \in S
  <2> SUFFICES ASSUME k + 1 <= N PROVE \E f : IsReading(f, ts, N + 1 - (k + 1))
    OBVIOUS
  <2>1. PICK a \in Nat : a = N - k
    BY <1>0
  <2>2. a >= 1 /\ a <= N /\ a = N + 1 - (k + 1) /\ a + 1 = N + 1 - k
    BY <1>0, <2>1
  <2>3. PICK f : IsReading(f, ts, a + 1)
    BY <1>2, <2>2
  <2> DEFINE g == [i \in a .. N + 1 |-> IF i = a THEN Reduce(ts[a], f[a + 1]) ELSE f[i]]
  <2>4. \A i \in a + 1 .. N + 1 : f[i] = IF i > N THEN <<>> ELSE Reduce(ts[i], f[i + 1])
    BY <2>3 DEF IsReading
  <2>5. \A i \in a + 1 .. N + 1 : g[i] = f[i]
    BY <1>0, <2>2
  <2>6. g[a] = Reduce(ts[a], f[a + 1])
    BY <1>0, <2>2
  <2>7. g = [i \in a .. N + 1 |-> g[i]]
    OBVIOUS
  <2> HIDE DEF g
  <2>8. \A i \in a .. N + 1 : g[i] = IF i > N THEN <<>> ELSE Reduce(ts[i], g[i + 1])
    <3> SUFFICES ASSUME NEW i \in a .. N + 1
                 PROVE  g[i] = IF i > N THEN <<>> ELSE Reduce(ts[i], g[i + 1])
      OBVIOUS
    <3>1. CASE i = a
      <4>1. g[i + 1] = f[a + 1]
        BY <1>0, <2>2, <2>5, <3>1
      <4>2. ~(i > N)
        BY <1>0, <2>2, <3>1
      <4> QED
        BY <2>6, <3>1, <4>1, <4>2
    <3>2. CASE i # a
      <4>1. i \in a + 1 .. N + 1
        BY <1>0, <2>2, <3>2
      <4>2. ~(i > N) => g[i + 1] = f[i + 1]
        BY <1>0, <2>2, <2>5, <4>1
      <4> HIDE DEF N
      <4> QED
        BY <2>4, <2>5, <4>1, <4>2
    <3> QED
      BY <3>1, <3>2
  <2>9. IsReading(g, ts, a)
    BY <2>7, <2>8 DEF IsReading
  <2> QED
    BY <2>2, <2>9
<1>3. Nat \subseteq S
  <2> HIDE DEF S
  <2> QED
    BY <1>1, <1>2, SetInduction
<1>4. N \in S
  BY <1>0, <1>3
<1>5. \E f : IsReading(f, ts, N + 1 - N)
  BY <1>0, <1>4
<1> QED
  BY <1>0, <1>5

LEMMA ReadingStep ==
    ASSUME NEW ts \in Seq(Token)
    PROVE  /\ Reading(ts)[Len(ts) + 1] = <<>>
           /\ \A i \in 1 .. Len(ts) : Reading(ts)[i] = Reduce(ts[i], Reading(ts)[i + 1])
<1>1. \E f : IsReading(f, ts, 1)
  BY ReadingExists
<1> DEFINE chosen == CHOOSE f : IsReading(f, ts, 1)
<1>2. IsReading(chosen, ts, 1)
  BY <1>1, Zenon
<1>3. Reading(ts) = chosen
  BY Zenon DEF Reading, IsReading
<1> HIDE DEF chosen
<1>4. \A i \in 1 .. Len(ts) + 1 :
          chosen[i] = IF i > Len(ts) THEN <<>> ELSE Reduce(ts[i], chosen[i + 1])
  BY <1>2 DEF IsReading
<1>5. Len(ts) \in Nat
  OBVIOUS
<1> QED
  BY <1>3, <1>4, <1>5

(* What a token may become: a simple string that is not short may be spoilt (its bytes
   overlaid on each other), but it keeps its length. *)
Renderings(t) ==
    IF Short(t) THEN {ValueOf(t)}
    ELSE [kind : {t.kind}, val : {s \in Seq(Byte \cup {"junk"}) : Len(s) = Len(t.val)}]

(* The values a token makes of those of the tokens behind it. *)
Leaf(V, W) == UNION {{<<v>> \o w : v \in V} : w \in W}

Behind(t, W) ==
    IF t.kind = "array" THEN {Reduce(t, w) : w \in W}
    ELSE Leaf(Renderings(t), W)

IsOutcomes(f, ts, a) ==
    f = [i \in a .. Len(ts) + 1 |-> IF i > Len(ts) THEN {<<>>} ELSE Behind(ts[i], f[i + 1])]

Outcomes(ts) == CHOOSE f : IsOutcomes(f, ts, 1)

LEMMA OutcomesExist ==
    ASSUME NEW ts \in Seq(Token)
    PROVE  \E f : IsOutcomes(f, ts, 1)
<1> DEFINE N == Len(ts)
           S == {k \in Nat : k <= N => \E f : IsOutcomes(f, ts, N + 1 - k)}
<1>0. N \in Nat
  OBVIOUS
<1>1. 0 \in S
  <2>1. IsOutcomes([i \in N + 1 .. N + 1 |-> {<<>>}], ts, N + 1)
    BY <1>0 DEF IsOutcomes
  <2> QED
    BY <1>0, <2>1
<1>2. ASSUME NEW k \in Nat, k \in S PROVE k + 1 \in S
  <2> SUFFICES ASSUME k + 1 <= N PROVE \E f : IsOutcomes(f, ts, N + 1 - (k + 1))
    OBVIOUS
  <2>1. PICK a \in Nat : a = N - k
    BY <1>0
  <2>2. a >= 1 /\ a <= N /\ a = N + 1 - (k + 1) /\ a + 1 = N + 1 - k
    BY <1>0, <2>1
  <2>3. PICK f : IsOutcomes(f, ts, a + 1)
    BY <1>2, <2>2
  <2> DEFINE g == [i \in a .. N + 1 |-> IF i = a THEN Behind(ts[a], f[a + 1]) ELSE f[i]]
  <2>4. \A i \in a + 1 .. N + 1 : f[i] = IF i > N THEN {<<>>} ELSE Behind(ts[i], f[i + 1])
    BY <2>3 DEF IsOutcomes
  <2>5. \A i \in a + 1 .. N + 1 : g[i] = f[i]
    BY <1>0, <2>2
  <2>6. g[a] = Behind(ts[a], f[a + 1])
    BY <1>0, <2>2
  <2>7. g = [i \in a .. N + 1 |-> g[i]]
    OBVIOUS
  <2> HIDE DEF g
  <2>8. \A i \in a .. N + 1 : g[i] = IF i > N THEN {<<>>} ELSE Behind(ts[i], g[i + 1])
    <3> SUFFICES ASSUME NEW i \in a .. N + 1
                 PROVE  g[i] = IF i > N THEN {<<>>} ELSE Behind(ts[i], g[i + 1])
      OBVIOUS
    <3>1. CASE i = a
      <4>1. g[i + 1] = f[a + 1]
        BY <1>0, <2>2, <2>5, <3>1
      <4>2. ~(i > N)
        BY <1>0, <2>2, <3>1
      <4> QED
        BY <2>6, <3>1, <4>1, <4>2
    <3>2. CASE i # a
      <4>1. i \in a + 1 .. N + 1
        BY <1>0, <2>2, <3>2
      <4>2. ~(i > N) => g[i + 1] = f[i + 1]
        BY <1>0, <2>2, <2>5, <4>1
      <4> HIDE DEF N
      <4> QED
        BY <2>4, <2>5, <4>1, <4>2
    <3> QED
      BY <3>1, <3>2
  <2>9. IsOutcomes(g, ts, a)
    BY <2>7, <2>8 DEF IsOutcomes
  <2> QED
    BY <2>2, <2>9
<1>3. Nat \subseteq S
  <2> HIDE DEF S
  <2> QED
    BY <1>1, <1>2, SetInduction
<1>4. N \in S
  BY <1>0, <1>3
<1>5. \E f : IsOutcomes(f, ts, N + 1 - N)
  BY <1>0, <1>4
<1> QED
  BY <1>0, <1>5

LEMMA OutcomesStep ==
    ASSUME NEW ts \in Seq(Token)
    PROVE  /\ Outcomes(ts)[Len(ts) + 1] = {<<>>}
           /\ \A i \in 1 .. Len(ts) : Outcomes(ts)[i] = Behind(ts[i], Outcomes(ts)[i + 1])
<1>1. \E f : IsOutcomes(f, ts, 1)
  BY OutcomesExist
<1>2. IsOutcomes(Outcomes(ts), ts, 1)
  BY <1>1, Zenon DEF Outcomes
<1> DEFINE chosen == Outcomes(ts)
<1> HIDE DEF chosen
<1>4. \A i \in 1 .. Len(ts) + 1 :
          chosen[i] = IF i > Len(ts) THEN {<<>>} ELSE Behind(ts[i], chosen[i + 1])
  BY <1>2 DEF IsOutcomes, chosen
<1>5. Len(ts) \in Nat
  OBVIOUS
<1>6. /\ chosen[Len(ts) + 1] = {<<>>}
      /\ \A i \in 1 .. Len(ts) : chosen[i] = Behind(ts[i], chosen[i + 1])
  BY <1>4, <1>5
<1> QED
  BY <1>6 DEF chosen

-----------------------------------------------------------------------------
(* The shape of the values.                                                 *)

LEMMA TokenShape ==
    ASSUME NEW t \in Token
    PROVE  /\ t.kind \in {"simple", "error", "integer", "array", "bulk", "badbulk", "null",
                          "nullarray", "resp3"}
           /\ t.kind \in {"simple", "error"} => t.val \in Text
           /\ t.kind = "integer" => t.val \in [1 .. 1 -> Int]
           /\ t.kind = "array" => t.val \in [1 .. 1 -> Nat]
           /\ t.kind = "bulk" => t.val \in Seq(Byte)
           /\ t.kind = "badbulk" => t.val \in Seq(Byte) \ {<<>>}
           /\ t.kind \in {"null", "nullarray", "resp3"} => t.val = <<>>
           /\ t = [kind |-> t.kind, val |-> t.val]
BY DEF Token

LEMMA ReduceShape ==
    ASSUME NEW t \in Token, t.kind = "array", NEW w, Sequence(w), t.val[1] <= Len(w)
    PROVE  /\ Sequence(Reduce(t, w)) /\ Len(Reduce(t, w)) = Len(w) - t.val[1] + 1
           /\ Reduce(t, w) = <<Array(SubSeq(w, 1, t.val[1]))>> \o SubSeq(w, t.val[1] + 1, Len(w))
           /\ t.val[1] \in Nat
<1>1. PICK n \in Nat : n = t.val[1]
  BY TokenShape
<1>2. Len(w) \in Nat /\ n <= Len(w)
  BY <1>1, LenType
<1> DEFINE rest == SubSeq(w, n + 1, Len(w))
           head == <<Array(SubSeq(w, 1, n))>>
<1>3. Sequence(rest) /\ Len(rest) = Len(w) - n
  BY <1>1, <1>2, SubShape
<1>4. Sequence(head) /\ Len(head) = 1
  BY UnitShape
<1>5. Reduce(t, w) = head \o rest
  BY <1>1 DEF Reduce
<1> HIDE DEF head, rest
<1>6. Sequence(head \o rest) /\ Len(head \o rest) = Len(head) + Len(rest)
  BY <1>3, <1>4, ConcatShape
<1>7. Len(head \o rest) = Len(w) - n + 1
  BY <1>2, <1>3, <1>4, <1>6
<1> QED
  BY <1>1, <1>5, <1>6, <1>7 DEF head, rest

LEMMA LeafShape ==
    ASSUME NEW v, NEW w, Sequence(w)
    PROVE  Sequence(<<v>> \o w) /\ Len(<<v>> \o w) = Len(w) + 1
<1>1. Len(w) \in Nat
  BY LenType
<1> QED
  BY <1>1, UnitShape, ConcatShape

LEMMA OnlyOutcome ==
    ASSUME NEW t, Short(t), t.kind # "array", NEW r
    PROVE  Behind(t, {r}) = {<<ValueOf(t)>> \o r}
<1> DEFINE v == ValueOf(t)
           s == <<v>> \o r
<1>1. Behind(t, {r}) = Leaf({v}, {r})
  BY DEF Behind, Renderings
<1> HIDE DEF v
<1>2. ASSUME NEW x PROVE x \in Leaf({v}, {r}) <=> x = s
  BY DEF Leaf
<1> HIDE DEF s
<1>3. Leaf({v}, {r}) = {s}
  BY <1>2
<1> QED
  BY <1>1, <1>3 DEF v, s

LEMMA ReadingShape ==
    ASSUME NEW ts \in Seq(Token), IsReply(ts)
    PROVE  \A i \in 1 .. Len(ts) + 1 :
               /\ Sequence(Reading(ts)[i])
               /\ i <= Len(ts) => Len(Reading(ts)[i]) >= 1
               /\ \A w \in Outcomes(ts)[i] : Sequence(w) /\ Len(w) = Len(Reading(ts)[i])
               /\ Outcomes(ts)[i] = {Reading(ts)[i]} \/ \E j \in 1 .. Len(ts) : ~Short(ts[j])
<1> DEFINE N == Len(ts)
           R(i) == Reading(ts)[i]
           O(i) == Outcomes(ts)[i]
           Good(i) == /\ Sequence(R(i))
                      /\ i <= N => Len(R(i)) >= 1
                      /\ \A w \in O(i) : Sequence(w) /\ Len(w) = Len(R(i))
                      /\ O(i) = {R(i)} \/ \E j \in 1 .. N : ~Short(ts[j])
           S == {k \in Nat : k <= N => Good(N + 1 - k)}
<1>0. N \in Nat
  OBVIOUS
<1>1. 0 \in S
  <2>1. R(N + 1) = <<>> /\ O(N + 1) = {<<>>}
    BY ReadingStep, OutcomesStep
  <2> HIDE DEF R, O
  <2> QED
    BY <1>0, <2>1, EmptyShape
<1>2. ASSUME NEW k \in Nat, k \in S PROVE k + 1 \in S
  <2> SUFFICES ASSUME k + 1 <= N PROVE Good(N + 1 - (k + 1))
    OBVIOUS
  <2>1. PICK a \in 1 .. N : a = N - k
    BY <1>0
  <2>2. a = N + 1 - (k + 1) /\ a + 1 = N + 1 - k /\ k <= N
    BY <1>0, <2>1
  <2>3. Good(a + 1)
    BY <1>2, <2>2
  <2>4. R(a) = Reduce(ts[a], R(a + 1)) /\ O(a) = Behind(ts[a], O(a + 1))
    BY ReadingStep, OutcomesStep
  <2>5. PICK t \in Token : t = ts[a]
    BY ElementOfSeq
  <2>6. t.kind = "array" => t.val[1] <= Len(R(a + 1))
    BY <2>5 DEF IsReply
  <2> HIDE DEF R, O
  <2>7. Len(R(a + 1)) \in Nat
    BY <2>3, LenType
  <2>8. CASE t.kind = "array"
    <3>1. Sequence(R(a)) /\ Len(R(a)) = Len(R(a + 1)) - t.val[1] + 1 /\ t.val[1] \in Nat
      BY <2>3, <2>4, <2>5, <2>6, <2>8, ReduceShape
    <3>2. O(a) = {Reduce(t, w) : w \in O(a + 1)}
      BY <2>4, <2>5, <2>8 DEF Behind
    <3>3. \A w \in O(a + 1) : /\ Sequence(Reduce(t, w))
                              /\ Len(Reduce(t, w)) = Len(w) - t.val[1] + 1
      BY <2>3, <2>6, <2>8, ReduceShape
    <3>4. \A w \in O(a) : Sequence(w) /\ Len(w) = Len(R(a))
      BY <2>3, <3>1, <3>2, <3>3
    <3>5. O(a) = {R(a)} \/ \E j \in 1 .. N : ~Short(ts[j])
      BY <2>3, <2>4, <2>5, <3>2
    <3>6. Len(R(a)) >= 1
      <4>1. PICK n \in Nat : n = t.val[1]
        BY <3>1
      <4> QED
        BY <2>6, <2>7, <2>8, <3>1, <4>1
    <3> QED
      BY <2>2, <3>1, <3>4, <3>5, <3>6
  <2>9. CASE t.kind # "array"
    <3>1. R(a) = <<ValueOf(t)>> \o R(a + 1)
      BY <2>4, <2>5, <2>9 DEF Reduce
    <3>2. Sequence(R(a)) /\ Len(R(a)) = Len(R(a + 1)) + 1
      BY <2>3, <3>1, LeafShape
    <3>3. O(a) = Leaf(Renderings(t), O(a + 1))
      BY <2>4, <2>5, <2>9 DEF Behind
    <3>4. ASSUME NEW x \in O(a) PROVE Sequence(x) /\ Len(x) = Len(R(a))
      <4>1. PICK v \in Renderings(t), w \in O(a + 1) : x = <<v>> \o w
        BY <3>3, Zenon DEF Leaf
      <4> QED
        BY <2>3, <3>2, <4>1, LeafShape
    <3>5. O(a) = {R(a)} \/ \E j \in 1 .. N : ~Short(ts[j])
      <4>1. CASE Short(t)
        <5>1. CASE O(a + 1) = {R(a + 1)}
          <6>1. Behind(t, {R(a + 1)}) = {R(a)}
            BY <2>9, <3>1, <4>1, OnlyOutcome
          <6> QED
            BY <2>4, <2>5, <5>1, <6>1
        <5> QED
          BY <2>3, <5>1
      <4>2. CASE ~Short(t)
        BY <2>5, <4>2
      <4> QED
        BY <4>1, <4>2
    <3> QED
      BY <2>2, <2>7, <3>2, <3>4, <3>5
  <2> QED
    BY <2>8, <2>9
<1>3. Nat \subseteq S
  <2> HIDE DEF S
  <2> QED
    BY <1>1, <1>2, SetInduction
<1>4. ASSUME NEW i \in 1 .. N + 1 PROVE Good(i)
  <2>1. PICK k \in Nat : k = N + 1 - i
    BY <1>0
  <2>2. k \in S /\ k <= N /\ i = N + 1 - k
    BY <1>0, <1>3, <2>1
  <2> QED
    BY <2>2
<1> QED
  BY <1>4

-----------------------------------------------------------------------------
(* What is on its way: the encodings of the tokens from one place to another. *)

LEMMA CRLF == <<"CR", "LF">> \in Seq(Byte) /\ Len(<<"CR", "LF">>) = 2
<1>1. "CR" \in Byte /\ "LF" \in Byte
  BY ByteAssumption
<1> QED
  BY <1>1

LEMMA HeadingType == \A t \in Token : Heading(t) \in Text
<1> SUFFICES ASSUME NEW t \in Token PROVE Heading(t) \in Text
  OBVIOUS
<1>1. CASE t.kind \in {"simple", "error", "resp3"}
  <2>1. Heading(t) = t.val
    BY <1>1 DEF Heading
  <2>2. t.val \in Text
    <3>1. <<>> \in Text
      BY DEF Text
    <3> QED
      BY <1>1, <3>1, TokenShape
  <2> QED
    BY <2>1, <2>2
<1>2. CASE t.kind \in {"integer", "array"}
  <2>1. Heading(t) = Decimal(t.val[1])
    BY <1>2 DEF Heading
  <2>2. t.val[1] \in Int
    BY <1>2, TokenShape
  <2> QED
    BY <2>1, <2>2, DecimalRead
<1>3. CASE t.kind \in {"null", "nullarray"}
  <2>1. Heading(t) = Decimal(-1)
    BY <1>3 DEF Heading
  <2> QED
    BY <2>1, DecimalRead
<1>4. CASE t.kind = "bulk"
  <2>1. Heading(t) = Decimal(Len(t.val))
    BY <1>4 DEF Heading
  <2>2. Len(t.val) \in Int
    BY <1>4, TokenShape
  <2> QED
    BY <2>1, <2>2, DecimalRead
<1>5. CASE t.kind = "badbulk"
  <2>1. Heading(t) = Decimal(Len(t.val) - 1)
    BY <1>5 DEF Heading
  <2>2. Len(t.val) - 1 \in Int
    BY <1>5, TokenShape
  <2> QED
    BY <2>1, <2>2, DecimalRead
<1> QED
  BY <1>1, <1>2, <1>3, <1>4, <1>5, TokenShape

LEMMA LineType ==
    ASSUME NEW text \in Seq(Byte)
    PROVE  Line(text) \in Seq(Byte) /\ Len(Line(text)) = Len(text) + 2
BY CRLF DEF Line

LEMMA EncodeType ==
    ASSUME NEW t \in Token
    PROVE  /\ Leading(t) \in Byte /\ Content(t) \in Seq(Byte)
           /\ Line(Heading(t)) \in Seq(Byte)
           /\ Encode(t) \in Seq(Byte) /\ Encode(t) # <<>>
           /\ Head(Encode(t)) = Leading(t)
           /\ Tail(Encode(t)) = Line(Heading(t)) \o Content(t)
<1>1. Leading(t) \in Byte
  BY ByteAssumption DEF Leading
<1>2. Line(Heading(t)) \in Seq(Byte)
  BY HeadingType, TextOfBytes, LineType
<1>3. Content(t) \in Seq(Byte)
  <2>1. CASE t.kind \in {"bulk", "badbulk"}
    <3>1. t.val \in Seq(Byte)
      BY <2>1, TokenShape
    <3> QED
      BY <2>1, <3>1, LineType DEF Content
  <2>2. CASE t.kind \notin {"bulk", "badbulk"}
    BY <2>2 DEF Content
  <2> QED
    BY <2>1, <2>2
<1> DEFINE line == Line(Heading(t))
<1>4. Encode(t) = <<Leading(t)>> \o line \o Content(t)
  BY DEF Encode
<1> HIDE DEF line
<1>5. line \in Seq(Byte)
  BY <1>2 DEF line
<1>6. Encode(t) = <<Leading(t)>> \o (line \o Content(t))
  BY <1>1, <1>3, <1>4, <1>5
<1>7. PICK rest \in Seq(Byte) : rest = line \o Content(t)
  <2>1. \A x, y \in Seq(Byte) : x \o y \in Seq(Byte)
    OBVIOUS
  <2> QED
    BY <1>3, <1>5, <2>1
<1>8. PICK c \in Byte : c = Leading(t)
  BY <1>1
<1>9. <<c>> \o rest \in Seq(Byte) /\ <<c>> \o rest # <<>>
      /\ Head(<<c>> \o rest) = c /\ Tail(<<c>> \o rest) = rest
  BY <1>7, <1>8
<1> QED
  BY <1>1, <1>2, <1>3, <1>6, <1>7, <1>8, <1>9 DEF line

Places == Nat \X Nat
TokenAt(scr, q) == scr[q[1]][q[2]]
OnScript(scr, q) == q[1] \in 1 .. Len(scr) /\ q[2] \in 1 .. Len(scr[q[1]])
Succ(scr, q) == IF q[2] < Len(scr[q[1]]) THEN <<q[1], q[2] + 1>> ELSE <<q[1] + 1, 1>>

(* The bytes s are all the server writes on its way from place a to place b. *)
Grows(scr, R) ==
    \A s \in Seq(Byte), q \in Places :
        <<s, q>> \in R /\ OnScript(scr, q) =>
            <<s \o Encode(TokenAt(scr, q)), Succ(scr, q)>> \in R

Written(scr, s, a, b) ==
    \A R \in SUBSET (Seq(Byte) \X Places) : <<<<>>, a>> \in R /\ Grows(scr, R) => <<s, b>> \in R

IsScript(scr) == scr \in Seq(Seq(Token)) /\ \A k \in DOMAIN scr : IsReply(scr[k])

LEMMA ReplyNotEmpty ==
    ASSUME NEW ts \in Seq(Token), IsReply(ts)
    PROVE  Len(ts) \in Nat /\ Len(ts) >= 1
<1>1. Len(ts) \in Nat
  OBVIOUS
<1>2. ASSUME Len(ts) = 0 PROVE FALSE
  <2>0. Len(ts) + 1 = 1
    BY <1>2
  <2>1. Reading(ts)[1] = <<>>
    BY <2>0, ReadingStep, Zenon
  <2>2. Len(<<>>) = 0
    OBVIOUS
  <2> QED
    BY <2>1, <2>2 DEF IsReply
<1> QED
  BY <1>1, <1>2

LEMMA ScriptShape ==
    ASSUME NEW scr, IsScript(scr), NEW k \in 1 .. Len(scr)
    PROVE  /\ Len(scr) \in Nat /\ scr[k] \in Seq(Token) /\ IsReply(scr[k])
           /\ Len(scr[k]) \in Nat /\ Len(scr[k]) >= 1
           /\ \A i \in 1 .. Len(scr[k]) : scr[k][i] \in Token
<1>1. Len(scr) \in Nat /\ scr[k] \in Seq(Token) /\ IsReply(scr[k])
  BY DEF IsScript
<1>2. PICK ts \in Seq(Token) : ts = scr[k]
  BY <1>1
<1>3. \A i \in 1 .. Len(ts) : ts[i] \in Token
  OBVIOUS
<1> QED
  BY <1>1, <1>2, <1>3, ReplyNotEmpty

LEMMA TokenAtType ==
    ASSUME NEW scr, IsScript(scr), NEW q \in Places, OnScript(scr, q)
    PROVE  TokenAt(scr, q) \in Token /\ Succ(scr, q) \in Places
<1>1. PICK k \in 1 .. Len(scr) : k = q[1]
  BY DEF OnScript
<1>2. PICK i \in 1 .. Len(scr[k]) : i = q[2]
  BY <1>1 DEF OnScript
<1>3. scr[k][i] \in Token
  BY ScriptShape
<1>4. Succ(scr, q) \in Places
  BY DEF Places, Succ
<1> QED
  BY <1>1, <1>2, <1>3, <1>4 DEF TokenAt

LEMMA WrittenNothing == \A scr, a : Written(scr, <<>>, a, a)
BY DEF Written

LEMMA WrittenMore ==
    ASSUME NEW scr, IsScript(scr), NEW s \in Seq(Byte), NEW a \in Places, NEW b \in Places,
           Written(scr, s, a, b), OnScript(scr, b)
    PROVE  Written(scr, s \o Encode(TokenAt(scr, b)), a, Succ(scr, b))
BY DEF Written, Grows

LEMMA WrittenFirst ==
    ASSUME NEW scr, IsScript(scr), NEW s \in Seq(Byte), NEW a \in Places, NEW b \in Places,
           Written(scr, s, a, b)
    PROVE  \/ s = <<>> /\ b = a
           \/ /\ OnScript(scr, a)
              /\ \E t \in Seq(Byte) : /\ s = Encode(TokenAt(scr, a)) \o t
                                      /\ Written(scr, t, Succ(scr, a), b)
<1> DEFINE P(u, c) == \/ u = <<>> /\ c = a
                      \/ /\ OnScript(scr, a)
                         /\ \E t \in Seq(Byte) : /\ u = Encode(TokenAt(scr, a)) \o t
                                                 /\ Written(scr, t, Succ(scr, a), c)
           R == {x \in Seq(Byte) \X Places : P(x[1], x[2])}
<1>0. ASSUME NEW u \in Seq(Byte), NEW c \in Places PROVE <<u, c>> \in R <=> P(u, c)
  <2> HIDE DEF P
  <2> QED
    OBVIOUS
<1>1. <<<<>>, a>> \in R
  <2>1. <<>> \in Seq(Byte) /\ P(<<>>, a)
    OBVIOUS
  <2> HIDE DEF P, R
  <2> QED
    BY <1>0, <2>1
<1>2. ASSUME NEW u \in Seq(Byte), NEW c \in Places, <<u, c>> \in R, OnScript(scr, c)
      PROVE  <<u \o Encode(TokenAt(scr, c)), Succ(scr, c)>> \in R
  <2>1. P(u, c)
    <3> HIDE DEF P, R
    <3> QED
      BY <1>0, <1>2
  <2>2. TokenAt(scr, c) \in Token /\ Succ(scr, c) \in Places
    BY <1>2, TokenAtType
  <2>3. PICK e \in Seq(Byte) : e = Encode(TokenAt(scr, c))
    BY <2>2, EncodeType
  <2>4. ASSUME u = <<>>, c = a PROVE P(u \o e, Succ(scr, c))
    <3>1. OnScript(scr, a) /\ u \o e = e \o <<>> /\ <<>> \in Seq(Byte)
      BY <1>2, <2>3, <2>4
    <3>2. Written(scr, <<>>, Succ(scr, a), Succ(scr, c))
      BY <2>4, WrittenNothing
    <3> QED
      BY <2>3, <2>4, <3>1, <3>2
  <2>5. ASSUME OnScript(scr, a), NEW t \in Seq(Byte), u = Encode(TokenAt(scr, a)) \o t,
               Written(scr, t, Succ(scr, a), c)
        PROVE  P(u \o e, Succ(scr, c))
    <3>1. TokenAt(scr, a) \in Token /\ Succ(scr, a) \in Places
      BY <2>5, TokenAtType
    <3>2. PICK d \in Seq(Byte) : d = Encode(TokenAt(scr, a))
      BY <3>1, EncodeType
    <3>3. u \o e = d \o (t \o e) /\ t \o e \in Seq(Byte)
      BY <2>3, <2>5, <3>2
    <3>4. Written(scr, t \o e, Succ(scr, a), Succ(scr, c))
      BY <1>2, <2>3, <2>5, <3>1, WrittenMore
    <3> QED
      BY <2>5, <3>2, <3>3, <3>4
  <2>6. P(u \o e, Succ(scr, c))
    <3> QED
      BY <2>1, <2>4, <2>5
  <2>7. u \o e \in Seq(Byte)
    OBVIOUS
  <2> HIDE DEF P, R
  <2> QED
    BY <1>0, <2>2, <2>3, <2>6, <2>7
<1>3. R \in SUBSET (Seq(Byte) \X Places)
  OBVIOUS
<1>4. Grows(scr, R)
  <2> HIDE DEF R
  <2> QED
    BY <1>2 DEF Grows
<1>5. <<s, b>> \in R
  <2> HIDE DEF R
  <2> QED
    BY <1>1, <1>3, <1>4 DEF Written
<1> QED
  BY <1>5

-----------------------------------------------------------------------------
(* The same bytes, cut in two ways.                                         *)

LEMMA ConcatElements ==
    ASSUME NEW S, NEW a \in Seq(S), NEW b \in Seq(S)
    PROVE  /\ a \o b \in Seq(S) /\ Len(a \o b) = Len(a) + Len(b)
           /\ \A i \in 1 .. Len(a) : (a \o b)[i] = a[i]
           /\ \A i \in Len(a) + 1 .. Len(a) + Len(b) : (a \o b)[i] = b[i - Len(a)]
OBVIOUS

LEMMA DropConcat ==
    ASSUME NEW S, NEW a \in Seq(S), NEW b \in Seq(S), NEW n \in 0 .. Len(a)
    PROVE  /\ SubSeq(a \o b, n + 1, Len(a \o b)) = SubSeq(a, n + 1, Len(a)) \o b
           /\ SubSeq(a \o b, 1, n) = SubSeq(a, 1, n)
<1>0. Len(a) \in Nat /\ Len(b) \in Nat /\ n \in Nat /\ n <= Len(a)
  OBVIOUS
<1> DEFINE z == a \o b
           c == SubSeq(a, n + 1, Len(a))
           l == SubSeq(z, n + 1, Len(z))
           r == c \o b
<1>1. /\ z \in Seq(S) /\ Len(z) = Len(a) + Len(b)
      /\ \A i \in 1 .. Len(a) : z[i] = a[i]
      /\ \A i \in Len(a) + 1 .. Len(a) + Len(b) : z[i] = b[i - Len(a)]
  BY ConcatElements
<1>2. /\ c \in Seq(S) /\ Len(c) = Len(a) - n
      /\ \A i \in 1 .. Len(a) - n : c[i] = a[n + i]
  BY <1>0
<1> HIDE DEF z, c
<1>3. /\ l \in Seq(S) /\ Len(l) = Len(z) - n
      /\ \A i \in 1 .. Len(z) - n : l[i] = z[n + i]
  BY <1>0, <1>1
<1>4. /\ r \in Seq(S) /\ Len(r) = Len(c) + Len(b)
      /\ \A i \in 1 .. Len(c) : r[i] = c[i]
      /\ \A i \in Len(c) + 1 .. Len(c) + Len(b) : r[i] = b[i - Len(c)]
  BY <1>2, ConcatElements
<1> HIDE DEF l, r
<1>5. Len(l) = Len(r) /\ Len(l) \in Nat
  BY <1>0, <1>1, <1>2, <1>3, <1>4
<1>6. ASSUME NEW i \in 1 .. Len(l) PROVE l[i] = r[i]
  <2>1. CASE i <= Len(a) - n
    <3>1. l[i] = z[n + i] /\ z[n + i] = a[n + i]
      BY <1>0, <1>1, <1>3, <1>5, <2>1
    <3>2. r[i] = c[i] /\ c[i] = a[n + i]
      BY <1>0, <1>2, <1>4, <1>5, <2>1
    <3> QED
      BY <3>1, <3>2
  <2>2. CASE i > Len(a) - n
    <3>1. PICK m \in Nat : m = n + i
      BY <1>0
    <3>2. l[i] = z[m] /\ z[m] = b[m - Len(a)]
      <4>1. i \in 1 .. Len(z) - n /\ m \in Len(a) + 1 .. Len(a) + Len(b)
        BY <1>0, <1>1, <1>3, <1>5, <2>2, <3>1
      <4>2. l[i] = z[n + i]
        BY <1>3, <4>1
      <4> QED
        BY <1>1, <3>1, <4>1, <4>2
    <3>3. r[i] = b[i - Len(c)] /\ i - Len(c) = m - Len(a)
      BY <1>0, <1>2, <1>4, <1>5, <2>2, <3>1
    <3> QED
      BY <3>2, <3>3
  <2>3. i <= Len(a) - n \/ i > Len(a) - n
    BY <1>0, <1>5
  <2> QED
    BY <2>1, <2>2, <2>3, Zenon
<1>7. l = r
  <2>1. Sequence(l) /\ Sequence(r)
    BY <1>3, <1>4 DEF Sequence
  <2> QED
    BY <1>5, <1>6, <2>1, SameSequence
<1>8. SubSeq(a \o b, 1, n) = SubSeq(a, 1, n)
  <2> DEFINE p == SubSeq(z, 1, n)
             q == SubSeq(a, 1, n)
  <2>1. p \in Seq(S) /\ Len(p) = n /\ \A i \in 1 .. n : p[i] = z[i]
    BY <1>0, <1>1
  <2>2. q \in Seq(S) /\ Len(q) = n /\ \A i \in 1 .. n : q[i] = a[i]
    BY <1>0
  <2> HIDE DEF p, q
  <2>3. Len(p) = Len(q) /\ \A i \in 1 .. Len(p) : p[i] = q[i]
    BY <1>0, <1>1, <2>1, <2>2
  <2>4. Sequence(p) /\ Sequence(q)
    BY <2>1, <2>2 DEF Sequence
  <2>5. p = q
    BY <2>3, <2>4, SameSequence
  <2> QED
    BY <2>5 DEF p, q, z
<1> QED
  BY <1>7, <1>8 DEF l, r, c, z

(* What is left of a sequence after its first n elements. *)
After(s, n) == SubSeq(s, n + 1, Len(s))

LEMMA Overlap ==
    ASSUME NEW S, NEW a \in Seq(S), NEW b \in Seq(S), NEW x \in Seq(S), NEW t \in Seq(S),
           a \o b = x \o t, NEW n \in Nat, n <= Len(a), n <= Len(x)
    PROVE  After(a, n) \o b = After(x, n) \o t
<1>1. n \in 0 .. Len(a) /\ n \in 0 .. Len(x)
  OBVIOUS
<1> DEFINE z == a \o b
           w == x \o t
<1>2. SubSeq(z, n + 1, Len(z)) = SubSeq(a, n + 1, Len(a)) \o b
  BY <1>1, DropConcat
<1>3. SubSeq(w, n + 1, Len(w)) = SubSeq(x, n + 1, Len(x)) \o t
  BY <1>1, DropConcat
<1>4. z = w
  OBVIOUS
<1> HIDE DEF z, w
<1> QED
  BY <1>2, <1>3, <1>4 DEF After

LEMMA OverlapFront ==
    ASSUME NEW S, NEW a \in Seq(S), NEW b \in Seq(S), NEW x \in Seq(S), NEW t \in Seq(S),
           a \o b = x \o t, NEW n \in Nat, n <= Len(a), n <= Len(x)
    PROVE  SubSeq(a, 1, n) = SubSeq(x, 1, n)
<1>1. n \in 0 .. Len(a) /\ n \in 0 .. Len(x)
  OBVIOUS
<1>2. SubSeq(a \o b, 1, n) = SubSeq(a, 1, n)
  BY <1>1, DropConcat
<1>3. SubSeq(x \o t, 1, n) = SubSeq(x, 1, n)
  BY <1>1, DropConcat
<1> QED
  BY <1>2, <1>3

LEMMA OverlapWhole ==
    ASSUME NEW S, NEW a \in Seq(S), NEW b \in Seq(S), NEW x \in Seq(S), NEW t \in Seq(S),
           a \o b = x \o t, Len(x) <= Len(a)
    PROVE  /\ After(a, Len(x)) \o b = t
           /\ SubSeq(a, 1, Len(x)) = x
<1>1. PICK n \in Nat : n = Len(x)
  OBVIOUS
<1>2. n <= Len(a) /\ n <= Len(x)
  BY <1>1
<1>3. After(a, n) \o b = After(x, n) \o t
  <2> DEFINE z == a \o b
             w == x \o t
  <2>1. n \in 0 .. Len(a) /\ n \in 0 .. Len(x)
    BY <1>2
  <2>2. SubSeq(z, n + 1, Len(z)) = SubSeq(a, n + 1, Len(a)) \o b
    BY <2>1, DropConcat
  <2>3. SubSeq(w, n + 1, Len(w)) = SubSeq(x, n + 1, Len(x)) \o t
    BY <2>1, DropConcat
  <2>4. z = w
    OBVIOUS
  <2> HIDE DEF z, w
  <2> QED
    BY <2>2, <2>3, <2>4 DEF After
<1>4. SubSeq(a, 1, n) = SubSeq(x, 1, n)
  BY <1>2, OverlapFront
<1>5. After(x, n) = <<>> /\ SubSeq(x, 1, n) = x
  BY <1>1 DEF After
<1>6. <<>> \o t = t
  OBVIOUS
<1> QED
  BY <1>1, <1>3, <1>4, <1>5, <1>6

-----------------------------------------------------------------------------
(* The end of a line, when the buffer and what is on its way begin with one. *)

LEMMA TextElements ==
    ASSUME NEW h \in Text
    PROVE  Len(h) \in Nat /\ \A i \in 1 .. Len(h) : h[i] # "CR" /\ h[i] # "LF"
<1>1. h \in Seq(Byte \ {"CR", "LF"})
  BY DEF Text
<1>2. \A i \in 1 .. Len(h) : h[i] \in Byte \ {"CR", "LF"}
  BY <1>1, ElementOfSeq
<1> QED
  BY <1>1, <1>2

LEMMA LineElements ==
    ASSUME NEW h \in Seq(Byte)
    PROVE  /\ Line(h) \in Seq(Byte) /\ Len(Line(h)) = Len(h) + 2
           /\ \A i \in 1 .. Len(h) : Line(h)[i] = h[i]
           /\ Line(h)[Len(h) + 1] = "CR" /\ Line(h)[Len(h) + 2] = "LF"
<1>1. PICK c \in Seq(Byte) : c = <<"CR", "LF">> /\ Len(c) = 2 /\ c[1] = "CR" /\ c[2] = "LF"
  BY CRLF
<1>2. Line(h) = h \o c
  BY <1>1 DEF Line
<1>3. (h \o c)[Len(h) + 1] = c[1] /\ (h \o c)[Len(h) + 2] = c[2]
  BY <1>1
<1>4. \A i \in 1 .. Len(h) : (h \o c)[i] = h[i]
  OBVIOUS
<1> QED
  BY <1>1, <1>2, <1>3, <1>4

LEMMA LineParts ==
    ASSUME NEW h \in Seq(Byte)
    PROVE  SubSeq(Line(h), 1, Len(h)) = h
<1>1. PICK c \in Seq(Byte) : c = <<"CR", "LF">>
  BY CRLF
<1>2. SubSeq(h \o c, 1, Len(h)) = h
  <2>1. Sequence(h) /\ Sequence(c)
    BY DEF Sequence
  <2> QED
    BY <2>1, PartsOfConcat
<1> QED
  BY <1>1, <1>2 DEF Line

LEMMA LineAhead ==
    ASSUME bb \in Seq(Byte), wire \in Seq(Byte), NEW h \in Text, NEW t \in Seq(Byte),
           bb \o wire = Line(h) \o t
    PROVE  /\ LineKnown => /\ Len(bb) >= Len(h) + 2
                           /\ LineEnd = Len(h) + 1
                           /\ SubSeq(bb, 1, LineEnd - 1) = h
                           /\ SubSeq(bb, LineEnd + 2, Len(bb)) \o wire = t
           /\ ~LineKnown => Len(bb) < Len(h) + 2
<1> DEFINE ends == {i \in 1 .. Len(bb) - 1 : /\ bb[i] = "CR" /\ bb[i + 1] = "LF"
                                           /\ \A j \in 1 .. i - 1 : bb[j] # "CR"}
<1>0. Len(bb) \in Nat /\ Len(h) \in Nat /\ h \in Seq(Byte)
  BY TextElements, TextOfBytes
<1>1. /\ Line(h) \in Seq(Byte) /\ Len(Line(h)) = Len(h) + 2
      /\ \A i \in 1 .. Len(h) : Line(h)[i] = h[i]
      /\ Line(h)[Len(h) + 1] = "CR" /\ Line(h)[Len(h) + 2] = "LF"
  BY <1>0, LineElements
<1>2. ASSUME NEW i \in Nat, i >= 1, i <= Len(bb), i <= Len(h) + 2 PROVE bb[i] = Line(h)[i]
  <2>1. bb[i] = (bb \o wire)[i]
    BY <1>0, <1>2
  <2>2. (Line(h) \o t)[i] = Line(h)[i]
    BY <1>0, <1>1, <1>2
  <2> QED
    BY <2>1, <2>2
<1>3. LineEnd = IF ends = {} THEN 0 ELSE CHOOSE i \in ends : TRUE
  BY DEF LineEnd
<1>4. ASSUME NEW i \in ends PROVE i >= Len(h) + 1
  <2>1. i \in Nat /\ i >= 1 /\ i <= Len(bb) - 1 /\ bb[i] = "CR"
    BY <1>0
  <2> HIDE DEF ends
  <2>2. ASSUME i <= Len(h) PROVE FALSE
    <3>1. bb[i] = Line(h)[i]
      <4>1. i <= Len(bb) /\ i <= Len(h) + 2
        BY <1>0, <2>1, <2>2
      <4> QED
        BY <1>2, <2>1, <4>1
    <3>2. Line(h)[i] = h[i] /\ h[i] # "CR"
      BY <1>0, <1>1, <2>1, <2>2, TextElements
    <3> QED
      BY <2>1, <3>1, <3>2
  <2> QED
    BY <1>0, <2>1, <2>2
<1>5. CASE Len(bb) >= Len(h) + 2
  <2>1. bb[Len(h) + 1] = "CR"
    BY <1>0, <1>1, <1>2, <1>5
  <2>2. bb[Len(h) + 2] = "LF"
    BY <1>0, <1>1, <1>2, <1>5
  <2>3. PICK e \in Nat : e = Len(h) + 1
    BY <1>0
  <2>4. e \in ends
    <3>1. e \in 1 .. Len(bb) - 1 /\ e + 1 = Len(h) + 2
      BY <1>0, <1>5, <2>3
    <3>2. ASSUME NEW j \in 1 .. e - 1 PROVE bb[j] # "CR"
      <4>1. j \in Nat /\ j >= 1 /\ j <= Len(h)
        BY <1>0, <2>3
      <4>2. bb[j] = Line(h)[j]
        BY <1>0, <1>2, <1>5, <4>1
      <4>3. Line(h)[j] = h[j] /\ h[j] # "CR"
        BY <1>0, <1>1, <4>1, TextElements
      <4> QED
        BY <4>2, <4>3
    <3> QED
      BY <2>1, <2>2, <2>3, <3>1, <3>2
  <2>5. \A i \in ends : i = e
    <3> SUFFICES ASSUME NEW i \in ends PROVE i = e
      OBVIOUS
    <3>1. i \in Nat /\ i >= e /\ \A j \in 1 .. i - 1 : bb[j] # "CR"
      BY <1>0, <1>4, <2>3
    <3>2. i > e => e \in 1 .. i - 1
      BY <1>0, <2>3, <3>1
    <3> QED
      BY <2>1, <2>3, <3>1, <3>2
  <2>6. LineEnd = e
    <3> HIDE DEF ends
    <3> QED
      BY <1>3, <2>4, <2>5
  <2>7. LineEnd = Len(h) + 1 /\ LineKnown
    BY <1>0, <2>3, <2>6 DEF LineKnown
  <2>8. LineEnd - 1 = Len(h) /\ LineEnd + 2 = Len(Line(h)) + 1
    BY <1>0, <1>1, <2>7
  <2>9. SubSeq(bb, 1, LineEnd - 1) = h
    <3>1. PICK n \in Nat : n = Len(h)
      BY <1>0
    <3>2. PICK x \in Seq(Byte) : x = Line(h)
      BY <1>1
    <3>3. n <= Len(bb) /\ n <= Len(x) /\ bb \o wire = x \o t
      BY <1>0, <1>1, <1>5, <3>1, <3>2
    <3>4. SubSeq(bb, 1, n) = SubSeq(x, 1, n)
      BY <3>3, OverlapFront
    <3> QED
      BY <1>0, <2>8, <3>1, <3>2, <3>4, LineParts
  <2>10. SubSeq(bb, LineEnd + 2, Len(bb)) \o wire = t
    <3>1. PICK m \in Nat : m = LineEnd + 2
      BY <1>0, <2>7
    <3>2. m = Len(Line(h)) + 1
      BY <2>8, <3>1
    <3>3. PICK x \in Seq(Byte) : x = Line(h)
      BY <1>1
    <3>4. m = Len(x) + 1 /\ Len(x) <= Len(bb) /\ bb \o wire = x \o t
      BY <1>1, <1>5, <3>2, <3>3
    <3>5. After(bb, Len(x)) \o wire = t
      BY <3>4, OverlapWhole
    <3>6. SubSeq(bb, m, Len(bb)) \o wire = t
      BY <3>4, <3>5 DEF After
    <3> QED
      BY <3>1, <3>6
  <2> QED
    BY <1>5, <2>7, <2>9, <2>10
<1>6. CASE Len(bb) < Len(h) + 2
  <2>1. ends = {}
    <3> SUFFICES ASSUME NEW i \in ends PROVE FALSE
      OBVIOUS
    <3>1. i \in Int /\ i <= Len(bb) - 1 /\ bb[i] = "CR" /\ bb[i + 1] = "LF"
      BY <1>0
    <3>2. i >= Len(h) + 1
      BY <1>4
    <3> QED
      BY <1>0, <1>6, <3>1, <3>2
  <2>2. ~LineKnown
    BY <1>3, <2>1 DEF LineKnown
  <2> QED
    BY <1>6, <2>2
<1> QED
  BY <1>0, <1>5, <1>6

LEMMA TakeConcat ==
    ASSUME NEW S, NEW a \in Seq(S), NEW b \in Seq(S), NEW n \in Nat, n <= Len(b)
    PROVE  /\ SubSeq(a \o b, 1, Len(a) + n) = a \o SubSeq(b, 1, n)
           /\ After(a \o b, Len(a) + n) = After(b, n)
<1>0. Len(a) \in Nat /\ Len(b) \in Nat
  OBVIOUS
<1> DEFINE z == a \o b
<1>1. /\ z \in Seq(S) /\ Len(z) = Len(a) + Len(b)
      /\ \A i \in 1 .. Len(a) : z[i] = a[i]
      /\ \A i \in Len(a) + 1 .. Len(a) + Len(b) : z[i] = b[i - Len(a)]
  BY ConcatElements
<1> HIDE DEF z
<1>2. SubSeq(z, 1, Len(a) + n) = a \o SubSeq(b, 1, n)
  <2> DEFINE c == SubSeq(b, 1, n)
             l == SubSeq(z, 1, Len(a) + n)
             r == a \o c
  <2>1. c \in Seq(S) /\ Len(c) = n /\ \A i \in 1 .. n : c[i] = b[i]
    BY <1>0
  <2>2. /\ l \in Seq(S) /\ Len(l) = Len(a) + n
        /\ \A i \in 1 .. Len(a) + n : l[i] = z[i]
    BY <1>0, <1>1
  <2> HIDE DEF c, l
  <2>3. /\ r \in Seq(S) /\ Len(r) = Len(a) + Len(c)
        /\ \A i \in 1 .. Len(a) : r[i] = a[i]
        /\ \A i \in Len(a) + 1 .. Len(a) + Len(c) : r[i] = c[i - Len(a)]
    <3>1. c \in Seq(S)
      BY <2>1
    <3> QED
      BY <3>1, ConcatElements, Zenon
  <2> HIDE DEF r
  <2>4. Len(l) = Len(r)
    BY <2>1, <2>2, <2>3
  <2>5. ASSUME NEW i \in 1 .. Len(l) PROVE l[i] = r[i]
    <3>1. CASE i <= Len(a)
      BY <1>0, <1>1, <2>1, <2>2, <2>3, <3>1
    <3>2. CASE i > Len(a)
      <4>1. i \in Len(a) + 1 .. Len(a) + n /\ i - Len(a) \in 1 .. n
        BY <1>0, <2>2, <3>2
      <4>2. l[i] = b[i - Len(a)]
        BY <1>0, <1>1, <2>2, <4>1
      <4>3. r[i] = b[i - Len(a)]
        BY <2>1, <2>3, <4>1
      <4> QED
        BY <4>2, <4>3
    <3>3. i <= Len(a) \/ i > Len(a)
      BY <1>0, <2>2
    <3> QED
      BY <3>1, <3>2, <3>3, Zenon
  <2>6. Sequence(l) /\ Sequence(r)
    BY <2>2, <2>3 DEF Sequence
  <2>7. l = r
    BY <2>4, <2>5, <2>6, SameSequence
  <2> QED
    BY <2>7 DEF l, r, c
<1>3. After(z, Len(a) + n) = After(b, n)
  <2> DEFINE l == SubSeq(z, Len(a) + n + 1, Len(z))
             r == SubSeq(b, n + 1, Len(b))
  <2>1. /\ l \in Seq(S) /\ Len(l) = Len(b) - n
        /\ \A i \in 1 .. Len(b) - n : l[i] = z[Len(a) + n + i]
    BY <1>0, <1>1
  <2>2. /\ r \in Seq(S) /\ Len(r) = Len(b) - n
        /\ \A i \in 1 .. Len(b) - n : r[i] = b[n + i]
    BY <1>0
  <2> HIDE DEF l, r
  <2>3. ASSUME NEW i \in 1 .. Len(l) PROVE l[i] = r[i]
    <3>1. i \in 1 .. Len(b) - n
      BY <2>1
    <3>2. PICK m \in Nat : m = Len(a) + n + i
      BY <1>0
    <3>3. m \in Len(a) + 1 .. Len(a) + Len(b) /\ m - Len(a) = n + i
      BY <1>0, <3>1, <3>2
    <3>4. l[i] = z[m] /\ z[m] = b[m - Len(a)]
      BY <1>1, <2>1, <3>1, <3>2, <3>3
    <3> QED
      BY <2>2, <3>1, <3>3, <3>4
  <2>4. Sequence(l) /\ Sequence(r) /\ Len(l) = Len(r)
    BY <2>1, <2>2 DEF Sequence
  <2>5. l = r
    BY <2>3, <2>4, SameSequence
  <2> QED
    BY <2>5 DEF l, r, After
<1> QED
  BY <1>2, <1>3 DEF z

LEMMA AfterType ==
    ASSUME NEW S, NEW a \in Seq(S), NEW n \in Nat, n <= Len(a)
    PROVE  After(a, n) \in Seq(S) /\ Len(After(a, n)) = Len(a) - n
BY DEF After

LEMMA AfterLine ==
    ASSUME NEW h \in Seq(Byte), NEW n \in Nat, n <= Len(h)
    PROVE  /\ After(Line(h), n) = Line(After(h, n))
           /\ SubSeq(Line(h), 1, n) = SubSeq(h, 1, n)
<1>1. PICK c \in Seq(Byte) : c = <<"CR", "LF">>
  BY CRLF
<1>2. n \in 0 .. Len(h)
  OBVIOUS
<1>3. SubSeq(h \o c, n + 1, Len(h \o c)) = SubSeq(h, n + 1, Len(h)) \o c
  BY <1>2, DropConcat
<1>4. SubSeq(h \o c, 1, n) = SubSeq(h, 1, n)
  BY <1>2, DropConcat
<1> QED
  BY <1>1, <1>3, <1>4 DEF Line, After

(* A simple string is taken up to its end or its "\r", and if it is short, whole. *)
LEMMA SimpleCut ==
    ASSUME bb \in Seq(Byte), wire \in Seq(Byte), NEW h \in Text, NEW t \in Seq(Byte),
           bb \o wire = Line(h) \o t, ~LineKnown, Len(bb) >= 2
    PROVE  /\ TakenOfLine \in 1 .. Len(h) /\ TakenOfLine <= Len(bb)
           /\ SubSeq(bb, 1, TakenOfLine) = SubSeq(h, 1, TakenOfLine)
           /\ After(h, TakenOfLine) \in Text
           /\ Len(After(bb, TakenOfLine)) < 2
           /\ After(bb, TakenOfLine) \o wire = Line(After(h, TakenOfLine)) \o t
           /\ Len(h) <= 2 => TakenOfLine = Len(h)
<1>0. Len(bb) \in Nat /\ Len(h) \in Nat /\ h \in Seq(Byte) /\ Len(bb) < Len(h) + 2
  <2>1. Len(bb) \in Nat
    OBVIOUS
  <2>2. Len(h) \in Nat /\ h \in Seq(Byte)
    BY TextElements, TextOfBytes
  <2>3. Len(bb) < Len(h) + 2
    BY LineAhead
  <2> QED
    BY <2>1, <2>2, <2>3
<1>1. /\ Line(h) \in Seq(Byte) /\ Len(Line(h)) = Len(h) + 2
      /\ \A i \in 1 .. Len(h) : Line(h)[i] = h[i]
      /\ Line(h)[Len(h) + 1] = "CR"
  BY <1>0, LineElements
<1>2. bb[Len(bb)] = Line(h)[Len(bb)]
  <2>1. PICK n \in Nat : n = Len(bb)
    BY <1>0
  <2>2. bb[n] = (bb \o wire)[n]
    BY <2>1
  <2>3. (Line(h) \o t)[n] = Line(h)[n]
    BY <1>0, <1>1, <2>1
  <2> QED
    BY <2>1, <2>2, <2>3
<1>3. Last(bb) = bb[Len(bb)]
  BY DEF Last
<1>4. Last(bb) = "CR" <=> Len(bb) = Len(h) + 1
  <2>1. CASE Len(bb) = Len(h) + 1
    BY <1>1, <1>2, <1>3, <2>1
  <2>2. CASE Len(bb) # Len(h) + 1
    <3>1. Len(bb) \in 1 .. Len(h)
      BY <1>0, <2>2
    <3>2. h[Len(bb)] # "CR"
      BY <3>1, TextElements
    <3> QED
      BY <1>1, <1>2, <1>3, <2>2, <3>1, <3>2
  <2> QED
    BY <2>1, <2>2
<1>5. PICK n \in Nat : n = TakenOfLine
  <2>1. TakenOfLine = IF Last(bb) = "CR" THEN Len(bb) - 1 ELSE Len(bb)
    BY DEF TakenOfLine
  <2>2. TakenOfLine \in Nat
    BY <1>0, <2>1
  <2> QED
    BY <2>2
<1>6. n = IF Len(bb) = Len(h) + 1 THEN Len(h) ELSE Len(bb)
  BY <1>0, <1>4, <1>5 DEF TakenOfLine
<1>7. /\ n \in 1 .. Len(h) /\ n <= Len(bb) /\ Len(bb) - n < 2
      /\ Len(h) <= 2 => n = Len(h)
  BY <1>0, <1>6
<1>8. PICK x \in Seq(Byte) : x = Line(h)
  BY <1>1
<1>9. n <= Len(x) /\ bb \o wire = x \o t
  BY <1>0, <1>1, <1>7, <1>8
<1>10. SubSeq(bb, 1, n) = SubSeq(x, 1, n)
  BY <1>7, <1>9, OverlapFront
<1>11. After(bb, n) \o wire = After(x, n) \o t
  <2>1. n \in 0 .. Len(bb) /\ n \in 0 .. Len(x)
    BY <1>7, <1>9
  <2> DEFINE z == bb \o wire
             w == x \o t
  <2>2. SubSeq(z, n + 1, Len(z)) = SubSeq(bb, n + 1, Len(bb)) \o wire
    BY <2>1, DropConcat
  <2>3. SubSeq(w, n + 1, Len(w)) = SubSeq(x, n + 1, Len(x)) \o t
    BY <2>1, DropConcat
  <2>4. z = w
    BY <1>9
  <2> HIDE DEF z, w
  <2> QED
    BY <2>2, <2>3, <2>4 DEF After
<1>12. n <= Len(h) /\ After(x, n) = Line(After(h, n)) /\ SubSeq(x, 1, n) = SubSeq(h, 1, n)
  BY <1>0, <1>7, <1>8, AfterLine
<1>13. After(h, n) \in Text
  BY <1>12, AfterType DEF Text
<1>14. Len(After(bb, n)) = Len(bb) - n
  BY <1>7, AfterType
<1> QED
  BY <1>5, <1>7, <1>10, <1>11, <1>12, <1>13, <1>14

-----------------------------------------------------------------------------
(* The operators on sequences under names of their own, for the provers not to take
   every equation between sequences apart into its elements. *)

Unit(v) == <<v>>
Cat(s, t) == s \o t
Taken(s, n) == SubSeq(s, 1, n)

LEMMA CatShape ==
    ASSUME NEW s, NEW t, Sequence(s), Sequence(t)
    PROVE  Sequence(Cat(s, t)) /\ Len(Cat(s, t)) = Len(s) + Len(t)
BY ConcatShape DEF Cat

LEMMA UnitType == \A v : Sequence(Unit(v)) /\ Len(Unit(v)) = 1
BY UnitShape DEF Unit

LEMMA TakenShape ==
    ASSUME NEW s, Sequence(s), NEW n \in Nat, n <= Len(s)
    PROVE  Sequence(Taken(s, n)) /\ Len(Taken(s, n)) = n
<1>1. PICK S : s \in Seq(S)
  BY DEF Sequence
<1>2. SubSeq(s, 1, n) \in Seq(S) /\ Len(SubSeq(s, 1, n)) = n
  BY <1>1
<1> QED
  BY <1>2 DEF Sequence, Taken

LEMMA AfterShape ==
    ASSUME NEW s, Sequence(s), NEW n \in Nat, n <= Len(s)
    PROVE  Sequence(After(s, n)) /\ Len(After(s, n)) = Len(s) - n
<1>1. PICK S : s \in Seq(S)
  BY DEF Sequence
<1> QED
  BY <1>1, AfterType DEF Sequence

LEMMA CatAssoc ==
    ASSUME NEW s, NEW t, NEW u, Sequence(s), Sequence(t), Sequence(u)
    PROVE  Cat(Cat(s, t), u) = Cat(s, Cat(t, u))
BY Assoc DEF Cat

LEMMA CatEmpty == \A s : Sequence(s) => Cat(<<>>, s) = s /\ Cat(s, <<>>) = s
BY EmptyConcat DEF Cat

LEMMA AppendCat ==
    ASSUME NEW s, NEW v, Sequence(s)
    PROVE  /\ Append(s, v) = Cat(s, Unit(v)) /\ Sequence(Append(s, v))
           /\ Len(Append(s, v)) = Len(s) + 1
BY AppendShape DEF Cat, Unit

LEMMA TakenNone ==
    ASSUME NEW s, Sequence(s)
    PROVE  Taken(s, 0) = <<>> /\ After(s, 0) = s
<1>1. PICK S : s \in Seq(S)
  BY DEF Sequence
<1> QED
  BY <1>1 DEF Taken, After

(* The first of the elements, and those behind it. *)
LEMMA HeadTaken ==
    ASSUME NEW v, NEW w, Sequence(w), NEW n \in Nat, n >= 1, n <= Len(w) + 1
    PROVE  /\ Taken(Cat(Unit(v), w), n) = Cat(Unit(v), Taken(w, n - 1))
           /\ After(Cat(Unit(v), w), n) = After(w, n - 1)
<1>1. PICK S : <<v>> \in Seq(S) /\ w \in Seq(S)
  BY UnitShape, Common
<1>2. PICK a \in Seq(S) : a = <<v>>
  BY <1>1
<1>3. Len(a) = 1 /\ Len(w) \in Nat
  BY <1>1, <1>2
<1>4. PICK k \in Nat : k = n - 1
  OBVIOUS
<1>5. k <= Len(w) /\ Len(a) + k = n
  BY <1>1, <1>3, <1>4
<1>6. SubSeq(a \o w, 1, Len(a) + k) = a \o SubSeq(w, 1, k)
  BY <1>1, <1>5, TakeConcat
<1>7. After(a \o w, Len(a) + k) = After(w, k)
  BY <1>1, <1>5, TakeConcat
<1>8. Taken(Cat(a, w), n) = Cat(a, Taken(w, k)) /\ After(Cat(a, w), n) = After(w, k)
  BY <1>5, <1>6, <1>7, Zenon DEF Cat, Taken
<1> QED
  BY <1>2, <1>4, <1>8 DEF Unit

-----------------------------------------------------------------------------
(* The frames: what they make of the values still to come.                  *)

IsFrame(f) ==
    f = [kind |-> f.kind, state |-> f.state, elemtype |-> f.elemtype, len |-> f.len, got |-> f.got]

OpenFrames(fs) ==
    /\ Sequence(fs) /\ Len(fs) >= 1
    /\ \A i \in 1 .. Len(fs) : IsFrame(fs[i])
    /\ fs[1].kind = "reply"
    /\ \A i \in 2 .. Len(fs) : /\ fs[i].kind = "array" /\ Sequence(fs[i].got)
                               /\ fs[i].len \in Nat /\ Len(fs[i].got) <= fs[i].len
    /\ \A i \in 2 .. Len(fs) - 1 : Len(fs[i].got) < fs[i].len

Missing(f) == f.len - Len(f.got)

(* The first n of the values make an array, which stands in front of the others. *)
Grouped(got, vs, n) == Cat(Unit(Array(Cat(got, Taken(vs, n)))), After(vs, n))

(* The array of frame f takes its missing elements from the values that follow. *)
Close(f, vs) == Grouped(f.got, vs, Missing(f))

(* From the values vs that follow, the frames fs, closed one after the other, make out. *)
Chain(fs, vs, out) ==
    \E ws : /\ ws[Len(fs)] = vs /\ ws[1] = out
            /\ \A i \in 1 .. Len(fs) : Sequence(ws[i])
            /\ \A i \in 2 .. Len(fs) : /\ Missing(fs[i]) <= Len(ws[i])
                                       /\ ws[i - 1] = Close(fs[i], ws[i])

Fits(fs, W, ts) == \A vs \in W : \E out \in Outcomes(ts)[1] : Chain(fs, vs, out)

Awaits(fs, v, W, ts) == \A vs \in W : \E out \in Outcomes(ts)[1] : Chain(fs, Cat(Unit(v), vs), out)

LEMMA GroupedLeaf ==
    ASSUME NEW got, NEW v, NEW w, Sequence(got), Sequence(w),
           NEW n \in Nat, n >= 1, n <= Len(w) + 1
    PROVE  Grouped(got, Cat(Unit(v), w), n) = Grouped(Append(got, v), w, n - 1)
<1>1. PICK k \in Nat : k = n - 1
  OBVIOUS
<1>2. k <= Len(w)
  <2>1. Len(w) \in Nat
    BY LenType
  <2> QED
    BY <1>1, <2>1
<1>3. Sequence(Taken(w, k))
  BY <1>2, TakenShape
<1>4. /\ Taken(Cat(Unit(v), w), n) = Cat(Unit(v), Taken(w, k))
      /\ After(Cat(Unit(v), w), n) = After(w, k)
  BY <1>1, HeadTaken
<1>5. Cat(got, Cat(Unit(v), Taken(w, k))) = Cat(Append(got, v), Taken(w, k))
  <2>1. PICK m : m = Append(got, v)
    OBVIOUS
  <2>2. m = Cat(got, Unit(v))
    BY <2>1, AppendCat
  <2>3. Cat(Cat(got, Unit(v)), Taken(w, k)) = Cat(got, Cat(Unit(v), Taken(w, k)))
    BY <1>3, UnitType, CatAssoc
  <2> QED
    BY <2>1, <2>2, <2>3, Zenon
<1> QED
  BY <1>1, <1>4, <1>5 DEF Grouped

LEMMA CloseLeaf ==
    ASSUME NEW f, NEW g, NEW v, NEW w, Sequence(f.got), f.len \in Nat, Len(f.got) < f.len,
           g.len = f.len, g.got = Append(f.got, v), Sequence(w), Missing(f) <= Len(w) + 1
    PROVE  Close(f, Cat(Unit(v), w)) = Close(g, w) /\ Missing(g) <= Len(w)
<1>1. Len(f.got) \in Nat /\ Len(w) \in Nat
  BY LenType
<1>2. PICK n \in Nat : n = Missing(f)
  BY <1>1 DEF Missing
<1>3. n >= 1 /\ n <= Len(w) + 1
  BY <1>1, <1>2 DEF Missing
<1>4. Len(g.got) = Len(f.got) + 1
  BY AppendCat
<1>5. Missing(g) = n - 1
  BY <1>1, <1>2, <1>4 DEF Missing
<1>6. Grouped(f.got, Cat(Unit(v), w), n) = Grouped(g.got, w, n - 1)
  BY <1>3, GroupedLeaf
<1> QED
  BY <1>1, <1>2, <1>3, <1>5, <1>6 DEF Close

LEMMA CloseFull ==
    ASSUME NEW f, NEW w, Sequence(f.got), f.len \in Nat, Len(f.got) = f.len, Sequence(w)
    PROVE  Close(f, w) = Cat(Unit(Array(f.got)), w)
<1>1. Missing(f) = 0
  BY DEF Missing
<1>2. Taken(w, 0) = <<>> /\ After(w, 0) = w
  BY TakenNone
<1>3. Cat(f.got, <<>>) = f.got
  BY CatEmpty
<1> QED
  BY <1>1, <1>2, <1>3 DEF Close, Grouped

LEMMA ReduceGrouped ==
    ASSUME NEW t \in Token, t.kind = "array", NEW w, Sequence(w), t.val[1] <= Len(w)
    PROVE  Reduce(t, w) = Grouped(<<>>, w, t.val[1])
<1>1. PICK n \in Nat : n = t.val[1]
  BY TokenShape
<1>2. Sequence(Taken(w, n))
  BY <1>1, TakenShape
<1>3. Cat(<<>>, Taken(w, n)) = Taken(w, n)
  BY <1>2, CatEmpty
<1>4. Reduce(t, w) = Cat(Unit(Array(Taken(w, n))), After(w, n))
  BY <1>1, Zenon DEF Reduce, Cat, Unit, Taken, After
<1> QED
  BY <1>1, <1>3, <1>4 DEF Grouped

LEMMA CloseOpen ==
    ASSUME NEW t \in Token, t.kind = "array", NEW g, g.got = <<>>, g.len = t.val[1],
           NEW w, Sequence(w), t.val[1] <= Len(w)
    PROVE  Close(g, w) = Reduce(t, w) /\ Missing(g) = t.val[1]
<1>1. PICK n \in Nat : n = t.val[1]
  BY TokenShape
<1>2. Missing(g) = n
  BY <1>1, EmptyShape DEF Missing
<1> QED
  BY <1>1, <1>2, ReduceGrouped DEF Close

LEMMA FrontShape ==
    ASSUME NEW fs, Sequence(fs), Len(fs) >= 1
    PROVE  /\ Sequence(Front(fs)) /\ Len(Front(fs)) = Len(fs) - 1
           /\ \A i \in 1 .. Len(fs) - 1 : Front(fs)[i] = fs[i]
<1>1. PICK S : fs \in Seq(S)
  BY DEF Sequence
<1>2. PICK n \in Nat : n = Len(fs) - 1
  BY <1>1
<1>3. Front(fs) = SubSeq(fs, 1, n)
  BY <1>2 DEF Front
<1>4. SubSeq(fs, 1, n) \in Seq(S)
  BY <1>1, <1>2
<1>5. Len(SubSeq(fs, 1, n)) = n
  BY <1>1, <1>2
<1>6. \A i \in 1 .. n : SubSeq(fs, 1, n)[i] = fs[i]
  BY <1>1, <1>2
<1> QED
  BY <1>2, <1>3, <1>4, <1>5, <1>6 DEF Sequence

(* The last of the frames replaced: SetTop(). *)
Replaced(fs, g) == Front(fs) \o <<g>>

LEMMA AppendedShape ==
    ASSUME NEW fs, NEW g, Sequence(fs)
    PROVE  /\ Sequence(Append(fs, g)) /\ Len(Append(fs, g)) = Len(fs) + 1
           /\ \A i \in 1 .. Len(fs) : Append(fs, g)[i] = fs[i]
           /\ Append(fs, g)[Len(fs) + 1] = g
BY AppendShape

LEMMA ReplacedShape ==
    ASSUME NEW fs, NEW g, Sequence(fs), Len(fs) >= 1
    PROVE  /\ Sequence(Replaced(fs, g)) /\ Len(Replaced(fs, g)) = Len(fs)
           /\ \A i \in 1 .. Len(fs) - 1 : Replaced(fs, g)[i] = fs[i]
           /\ Replaced(fs, g)[Len(fs)] = g
<1>1. Len(fs) \in Nat
  BY LenType
<1>2. PICK a : a = Front(fs)
  OBVIOUS
<1>3. Sequence(a) /\ Len(a) = Len(fs) - 1 /\ \A i \in 1 .. Len(fs) - 1 : a[i] = fs[i]
  BY <1>2, FrontShape
<1>4. PICK b : b = Append(a, g)
  OBVIOUS
<1>5. /\ Sequence(b) /\ Len(b) = Len(a) + 1
      /\ \A i \in 1 .. Len(a) : b[i] = a[i]
      /\ b[Len(a) + 1] = g
  BY <1>3, <1>4, AppendedShape
<1>6. Append(a, g) = Cat(a, Unit(g))
  BY <1>3, AppendCat
<1>7. b = Replaced(fs, g)
  BY <1>2, <1>4, <1>6, Zenon DEF Cat, Unit, Replaced
<1>8. /\ Sequence(b) /\ Len(b) = Len(fs) /\ b[Len(fs)] = g
      /\ \A i \in 1 .. Len(fs) - 1 : b[i] = fs[i]
  <2>1. Len(a) + 1 = Len(fs)
    BY <1>1, <1>3
  <2>2. Len(a) = Len(fs) - 1
    BY <1>3
  <2>3. b[Len(a) + 1] = g /\ Len(b) = Len(a) + 1
    BY <1>5
  <2>4. \A i \in 1 .. Len(fs) - 1 : b[i] = fs[i]
    <3> SUFFICES ASSUME NEW i \in 1 .. Len(fs) - 1 PROVE b[i] = fs[i]
      OBVIOUS
    <3>1. i \in 1 .. Len(a)
      BY <2>2, Zenon
    <3> QED
      BY <1>3, <1>5, <3>1
  <2> QED
    BY <1>5, <2>1, <2>3, <2>4, Zenon
<1> QED
  BY <1>7, <1>8, Zenon

LEMMA SameElements ==
    ASSUME NEW s, NEW t, Sequence(s), Sequence(t), Len(s) = Len(t),
           \A i \in 1 .. Len(s) : s[i] = t[i]
    PROVE  s = t
BY SameSequence

LEMMA FrontReplaced ==
    ASSUME NEW fs, NEW g, Sequence(fs), Len(fs) >= 1
    PROVE  Front(Replaced(fs, g)) = Front(fs) /\ Last(Replaced(fs, g)) = g
<1>1. PICK b : b = Replaced(fs, g)
  OBVIOUS
<1>2. /\ Sequence(b) /\ Len(b) = Len(fs) /\ b[Len(fs)] = g
      /\ \A i \in 1 .. Len(fs) - 1 : b[i] = fs[i]
  BY <1>1, ReplacedShape
<1>3. /\ Sequence(Front(b)) /\ Len(Front(b)) = Len(b) - 1
      /\ \A i \in 1 .. Len(b) - 1 : Front(b)[i] = b[i]
  BY <1>2, FrontShape
<1>4. /\ Sequence(Front(fs)) /\ Len(Front(fs)) = Len(fs) - 1
      /\ \A i \in 1 .. Len(fs) - 1 : Front(fs)[i] = fs[i]
  BY FrontShape
<1>5. Front(b) = Front(fs)
  BY <1>2, <1>3, <1>4, SameElements
<1>6. Last(b) = g
  BY <1>2 DEF Last
<1> QED
  BY <1>1, <1>5, <1>6

LEMMA FrontAppended ==
    ASSUME NEW fs, NEW g, Sequence(fs)
    PROVE  Front(Append(fs, g)) = fs /\ Last(Append(fs, g)) = g
<1>1. PICK b : b = Append(fs, g)
  OBVIOUS
<1>2. /\ Sequence(b) /\ Len(b) = Len(fs) + 1 /\ b[Len(fs) + 1] = g
      /\ \A i \in 1 .. Len(fs) : b[i] = fs[i]
  BY <1>1, AppendedShape
<1>3. Len(fs) \in Nat
  BY LenType
<1>4. /\ Sequence(Front(b)) /\ Len(Front(b)) = Len(b) - 1
      /\ \A i \in 1 .. Len(b) - 1 : Front(b)[i] = b[i]
  BY <1>2, <1>3, FrontShape
<1>5. Front(b) = fs
  BY <1>2, <1>3, <1>4, SameElements
<1>6. Last(b) = g
  BY <1>2 DEF Last
<1> QED
  BY <1>1, <1>5, <1>6

(* One frame alone makes what follows. *)
LEMMA ChainBottom ==
    ASSUME NEW fs, Len(fs) = 1, NEW vs, NEW out
    PROVE  Chain(fs, vs, out) <=> vs = out /\ Sequence(vs)
<1>1. ASSUME vs = out, Sequence(vs) PROVE Chain(fs, vs, out)
  <2>1. PICK ws : ws = [i \in 1 .. 1 |-> vs]
    OBVIOUS
  <2>2. ws[1] = vs
    BY <2>1
  <2>3. /\ ws[Len(fs)] = vs /\ ws[1] = out
        /\ \A i \in 1 .. Len(fs) : Sequence(ws[i])
        /\ \A i \in 2 .. Len(fs) : Missing(fs[i]) <= Len(ws[i]) /\ ws[i - 1] = Close(fs[i], ws[i])
    BY <1>1, <2>2
  <2> QED
    BY <2>3, Zenon DEF Chain
<1>2. ASSUME Chain(fs, vs, out) PROVE vs = out /\ Sequence(vs)
  BY <1>2 DEF Chain
<1> QED
  BY <1>1, <1>2

LEMMA ChainTop ==
    ASSUME NEW fs, NEW gs, Sequence(fs), Len(fs) >= 2, Len(gs) = Len(fs),
           \A i \in 1 .. Len(fs) - 1 : gs[i] = fs[i],
           NEW vs, NEW us, Sequence(us), NEW out, Chain(fs, vs, out),
           Close(gs[Len(fs)], us) = Close(fs[Len(fs)], vs), Missing(gs[Len(fs)]) <= Len(us)
    PROVE  Chain(gs, us, out)
<1>1. PICK m \in Nat : m = Len(fs)
  BY LenType
<1>2. PICK ws : /\ ws[m] = vs /\ ws[1] = out
                /\ \A i \in 1 .. m : Sequence(ws[i])
                /\ \A i \in 2 .. m : /\ Missing(fs[i]) <= Len(ws[i])
                                     /\ ws[i - 1] = Close(fs[i], ws[i])
  BY <1>1 DEF Chain
<1>3. PICK xs : xs = [i \in 1 .. m |-> IF i = m THEN us ELSE ws[i]]
  OBVIOUS
<1>4. xs[m] = us /\ \A i \in 1 .. m - 1 : xs[i] = ws[i]
  BY <1>1, <1>3
<1>5. ASSUME NEW i \in 2 .. m
      PROVE  Missing(gs[i]) <= Len(xs[i]) /\ xs[i - 1] = Close(gs[i], xs[i])
  <2>1. CASE i = m
    <3>1. xs[i] = us /\ xs[i - 1] = ws[i - 1] /\ ws[i - 1] = Close(fs[m], vs)
      BY <1>1, <1>2, <1>4, <2>1
    <3> QED
      BY <1>1, <2>1, <3>1
  <2>2. CASE i # m
    <3>1. xs[i] = ws[i] /\ xs[i - 1] = ws[i - 1] /\ gs[i] = fs[i]
      BY <1>1, <1>4, <2>2
    <3> QED
      BY <1>2, <3>1
  <2> QED
    BY <2>1, <2>2
<1>6. xs[1] = out
  BY <1>1, <1>2, <1>4
<1>7. \A i \in 1 .. m : Sequence(xs[i])
  BY <1>1, <1>2, <1>4
<1> QED
  BY <1>1, <1>4, <1>5, <1>6, <1>7 DEF Chain

LEMMA ChainPush ==
    ASSUME NEW fs, NEW gs, Sequence(fs), Len(fs) >= 1, Len(gs) = Len(fs) + 1,
           \A i \in 1 .. Len(fs) : gs[i] = fs[i],
           NEW vs, NEW us, Sequence(us), NEW out, Chain(fs, vs, out),
           vs = Close(gs[Len(gs)], us), Missing(gs[Len(gs)]) <= Len(us)
    PROVE  Chain(gs, us, out)
<1>1. PICK m \in Nat : m = Len(fs)
  BY LenType
<1>2. PICK ws : /\ ws[m] = vs /\ ws[1] = out
                /\ \A i \in 1 .. m : Sequence(ws[i])
                /\ \A i \in 2 .. m : /\ Missing(fs[i]) <= Len(ws[i])
                                     /\ ws[i - 1] = Close(fs[i], ws[i])
  BY <1>1 DEF Chain
<1>n. PICK n \in Nat : n = m + 1
  OBVIOUS
<1>3. PICK xs : xs = [i \in 1 .. n |-> IF i = n THEN us ELSE ws[i]]
  OBVIOUS
<1>4. xs[n] = us /\ \A i \in 1 .. m : xs[i] = ws[i]
  BY <1>1, <1>3, <1>n
<1>5. ASSUME NEW i \in 2 .. n
      PROVE  Missing(gs[i]) <= Len(xs[i]) /\ xs[i - 1] = Close(gs[i], xs[i])
  <2>1. CASE i = n
    <3>1. xs[i] = us /\ xs[i - 1] = vs
      BY <1>1, <1>2, <1>4, <1>n, <2>1
    <3> QED
      BY <1>1, <1>n, <2>1, <3>1
  <2>2. CASE i # n
    <3>1. i \in 2 .. m /\ i \in 1 .. m /\ i - 1 \in 1 .. m
      BY <1>n, <2>2
    <3>2. xs[i] = ws[i] /\ xs[i - 1] = ws[i - 1] /\ gs[i] = fs[i]
      BY <1>1, <1>4, <3>1
    <3> QED
      BY <1>2, <3>1, <3>2
  <2> QED
    BY <2>1, <2>2
<1>6. xs[1] = out
  BY <1>1, <1>2, <1>4
<1>7. \A i \in 1 .. n : Sequence(xs[i])
  BY <1>1, <1>2, <1>4, <1>n
<1>8. Len(gs) = n
  BY <1>1, <1>n
<1> QED
  BY <1>4, <1>5, <1>6, <1>7, <1>8 DEF Chain

LEMMA ChainPop ==
    ASSUME NEW fs, NEW gs, Sequence(fs), Len(fs) >= 2, Len(gs) = Len(fs) - 1,
           \A i \in 1 .. Len(fs) - 1 : gs[i] = fs[i],
           NEW vs, NEW out, Chain(fs, vs, out)
    PROVE  Chain(gs, Close(fs[Len(fs)], vs), out) /\ Missing(fs[Len(fs)]) <= Len(vs)
<1>1. PICK m \in Nat : m = Len(fs)
  BY LenType
<1>2. PICK ws : /\ ws[m] = vs /\ ws[1] = out
                /\ \A i \in 1 .. m : Sequence(ws[i])
                /\ \A i \in 2 .. m : /\ Missing(fs[i]) <= Len(ws[i])
                                     /\ ws[i - 1] = Close(fs[i], ws[i])
  BY <1>1 DEF Chain
<1>n. PICK n \in Nat : n = m - 1
  BY <1>1
<1>3. ws[n] = Close(fs[m], vs) /\ Missing(fs[m]) <= Len(vs)
  BY <1>1, <1>2, <1>n
<1>4. \A i \in 2 .. n : Missing(gs[i]) <= Len(ws[i]) /\ ws[i - 1] = Close(gs[i], ws[i])
  <2> SUFFICES ASSUME NEW i \in 2 .. n
               PROVE  Missing(gs[i]) <= Len(ws[i]) /\ ws[i - 1] = Close(gs[i], ws[i])
    OBVIOUS
  <2>1. i \in 2 .. m /\ gs[i] = fs[i]
    BY <1>1, <1>n
  <2> QED
    BY <1>2, <2>1
<1>5. \A i \in 1 .. n : Sequence(ws[i])
  BY <1>2, <1>n
<1>6. Len(gs) = n
  BY <1>1, <1>n
<1> QED
  BY <1>1, <1>2, <1>3, <1>4, <1>5, <1>6 DEF Chain

-----------------------------------------------------------------------------
(* What the values still to come make of the frames, from one round to the next. *)

LEMMA RenderingOf ==
    ASSUME NEW t \in Token, t.kind # "array"
    PROVE  ValueOf(t) \in Renderings(t)
<1>1. CASE Short(t)
  BY <1>1 DEF Renderings
<1>2. CASE ~Short(t)
  <2>1. t.kind \in {"simple", "error"} /\ t.val \in Text
    BY <1>2, TokenShape DEF Short
  <2>2. t.val \in Seq(Byte \cup {"junk"})
    BY <2>1 DEF Text
  <2>3. ValueOf(t) = t /\ t = [kind |-> t.kind, val |-> t.val]
    BY <2>1, TokenShape DEF ValueOf
  <2> QED
    BY <1>2, <2>2, <2>3 DEF Renderings
<1> QED
  BY <1>1, <1>2

LEMMA LeafMember ==
    ASSUME NEW V, NEW W, NEW v \in V, NEW w \in W
    PROVE  <<v>> \o w \in Leaf(V, W)
<1>1. PICK s : s = <<v>> \o w
  OBVIOUS
<1>2. PICK T : T = {<<u>> \o w : u \in V}
  OBVIOUS
<1>3. s \in T
  BY <1>1, <1>2, Zenon
<1>4. T \in {{<<u>> \o x : u \in V} : x \in W}
  BY <1>2, Zenon
<1>5. s \in Leaf(V, W)
  BY <1>3, <1>4, Zenon DEF Leaf
<1> QED
  BY <1>1, <1>5, Zenon

LEMMA ReadingPossible ==
    ASSUME NEW ts \in Seq(Token)
    PROVE  \A i \in 1 .. Len(ts) + 1 : Reading(ts)[i] \in Outcomes(ts)[i]
<1> DEFINE N == Len(ts)
           R(i) == Reading(ts)[i]
           O(i) == Outcomes(ts)[i]
           S == {k \in Nat : k <= N => R(N + 1 - k) \in O(N + 1 - k)}
<1>0. N \in Nat
  OBVIOUS
<1>1. 0 \in S
  <2>1. R(N + 1) = <<>> /\ O(N + 1) = {<<>>}
    BY ReadingStep, OutcomesStep
  <2> HIDE DEF R, O
  <2> QED
    BY <1>0, <2>1
<1>2. ASSUME NEW k \in Nat, k \in S PROVE k + 1 \in S
  <2> SUFFICES ASSUME k + 1 <= N PROVE R(N + 1 - (k + 1)) \in O(N + 1 - (k + 1))
    OBVIOUS
  <2>1. PICK a \in 1 .. N : a = N - k
    BY <1>0
  <2>2. a = N + 1 - (k + 1) /\ a + 1 = N + 1 - k /\ k <= N
    BY <1>0, <2>1
  <2>3. R(a + 1) \in O(a + 1)
    BY <1>2, <2>2
  <2>4. R(a) = Reduce(ts[a], R(a + 1)) /\ O(a) = Behind(ts[a], O(a + 1))
    BY ReadingStep, OutcomesStep
  <2>5. PICK t \in Token : t = ts[a]
    BY ElementOfSeq
  <2> HIDE DEF R, O
  <2>6. CASE t.kind = "array"
    BY <2>2, <2>3, <2>4, <2>5, <2>6 DEF Behind
  <2>7. CASE t.kind # "array"
    <3>1. ValueOf(t) \in Renderings(t)
      BY <2>7, RenderingOf
    <3>2. PICK r : r = R(a + 1)
      OBVIOUS
    <3>3. PICK v : v = ValueOf(t)
      OBVIOUS
    <3>4. R(a) = <<v>> \o r
      BY <2>4, <2>5, <2>7, <3>2, <3>3, Zenon DEF Reduce
    <3>5. O(a) = Leaf(Renderings(t), O(a + 1))
      BY <2>4, <2>5, <2>7, Zenon DEF Behind
    <3>6. <<v>> \o r \in Leaf(Renderings(t), O(a + 1))
      BY <2>3, <3>1, <3>2, <3>3, LeafMember, Zenon
    <3> QED
      BY <2>2, <3>4, <3>5, <3>6
  <2> QED
    BY <2>6, <2>7
<1>3. Nat \subseteq S
  <2> HIDE DEF S
  <2> QED
    BY <1>1, <1>2, SetInduction
<1>4. ASSUME NEW i \in 1 .. N + 1 PROVE R(i) \in O(i)
  <2>1. PICK k \in Nat : k = N + 1 - i
    BY <1>0
  <2>2. k \in S /\ k <= N /\ i = N + 1 - k
    BY <1>0, <1>3, <2>1
  <2> QED
    BY <2>2
<1> QED
  BY <1>4

(* Behind the first token that is read there is something only as long as there are
   tokens. *)
LEMMA NothingBehind ==
    ASSUME NEW ts \in Seq(Token), IsReply(ts), NEW p \in 1 .. Len(ts) + 1,
           NEW w \in Outcomes(ts)[p], Len(w) = 0
    PROVE  p = Len(ts) + 1
<1>1. Len(w) = Len(Reading(ts)[p]) /\ (p <= Len(ts) => Len(Reading(ts)[p]) >= 1)
  BY ReadingShape
<1> QED
  BY <1>1

LEMMA OutcomeLength ==
    ASSUME NEW ts \in Seq(Token), IsReply(ts), NEW w \in Outcomes(ts)[1]
    PROVE  Sequence(w) /\ Len(w) = 1
<1>1. 1 \in 1 .. Len(ts) + 1
  OBVIOUS
<1>2. Len(Reading(ts)[1]) = 1
  BY DEF IsReply
<1> QED
  BY <1>1, <1>2, ReadingShape

LEMMA OutcomeShape ==
    ASSUME NEW ts \in Seq(Token), IsReply(ts), NEW p \in 1 .. Len(ts) + 1,
           NEW w \in Outcomes(ts)[p]
    PROVE  Sequence(w)
BY ReadingShape

LEMMA FitsLeaf ==
    ASSUME NEW ts \in Seq(Token), NEW p \in 1 .. Len(ts), ts[p].kind # "array",
           NEW v \in Renderings(ts[p]), NEW fs, Fits(fs, Outcomes(ts)[p], ts)
    PROVE  Awaits(fs, v, Outcomes(ts)[p + 1], ts)
<1>1. Outcomes(ts)[p] = Leaf(Renderings(ts[p]), Outcomes(ts)[p + 1])
  BY OutcomesStep, Zenon DEF Behind
<1>2. ASSUME NEW vs \in Outcomes(ts)[p + 1]
      PROVE  \E out \in Outcomes(ts)[1] : Chain(fs, Cat(Unit(v), vs), out)
  <2>1. <<v>> \o vs \in Outcomes(ts)[p]
    BY <1>1, <1>2, LeafMember, Zenon
  <2>2. Cat(Unit(v), vs) \in Outcomes(ts)[p]
    BY <2>1, Zenon DEF Cat, Unit
  <2> QED
    BY <2>2, Zenon DEF Fits
<1> QED
  BY <1>2, Zenon DEF Awaits

LEMMA FitsOpen ==
    ASSUME NEW ts \in Seq(Token), IsReply(ts), NEW p \in 1 .. Len(ts), ts[p].kind = "array",
           NEW fs, Sequence(fs), Len(fs) >= 1, Fits(fs, Outcomes(ts)[p], ts)
    PROVE  /\ \A gs : /\ Len(gs) = Len(fs) + 1
                      /\ \A i \in 1 .. Len(fs) : gs[i] = fs[i]
                      /\ gs[Len(gs)].got = <<>> /\ gs[Len(gs)].len = ts[p].val[1]
                      => Fits(gs, Outcomes(ts)[p + 1], ts)
           /\ ts[p].val[1] = 0 => Awaits(fs, Array(<<>>), Outcomes(ts)[p + 1], ts)
<1>0. PICK t \in Token : t = ts[p] /\ t.kind = "array"
  BY ElementOfSeq
<1>p. p + 1 \in 1 .. Len(ts) + 1 /\ p \in DOMAIN ts
  OBVIOUS
<1>1. Outcomes(ts)[p] = {Reduce(t, w) : w \in Outcomes(ts)[p + 1]}
  <2>1. Outcomes(ts)[p] = Behind(ts[p], Outcomes(ts)[p + 1])
    BY OutcomesStep
  <2> QED
    BY <1>0, <2>1, Zenon DEF Behind
<1>2. ASSUME NEW w \in Outcomes(ts)[p + 1]
      PROVE  /\ Sequence(w) /\ t.val[1] <= Len(w)
             /\ \E out \in Outcomes(ts)[1] : Chain(fs, Reduce(t, w), out)
  <2>1. Sequence(w) /\ Len(w) = Len(Reading(ts)[p + 1])
    BY <1>p, ReadingShape
  <2>2. t.val[1] <= Len(Reading(ts)[p + 1])
    BY <1>0, <1>p, Zenon DEF IsReply
  <2>3. \E out \in Outcomes(ts)[1] : Chain(fs, Reduce(t, w), out)
    BY <1>1, <1>2, Zenon DEF Fits
  <2> QED
    BY <2>1, <2>2, <2>3, Zenon
<1>3. ASSUME NEW gs, Len(gs) = Len(fs) + 1, \A i \in 1 .. Len(fs) : gs[i] = fs[i],
             gs[Len(gs)].got = <<>>, gs[Len(gs)].len = ts[p].val[1],
             NEW w \in Outcomes(ts)[p + 1]
      PROVE  \E out \in Outcomes(ts)[1] : Chain(gs, w, out)
  <2>1. PICK out \in Outcomes(ts)[1] : Chain(fs, Reduce(t, w), out)
    BY <1>2, Zenon
  <2>2. Sequence(w) /\ t.val[1] <= Len(w)
    BY <1>2, Zenon
  <2>3. PICK g : g = gs[Len(gs)]
    OBVIOUS
  <2>4. g.got = <<>> /\ g.len = t.val[1]
    BY <1>0, <1>3, <2>3, Zenon
  <2>5. Close(g, w) = Reduce(t, w) /\ Missing(g) = t.val[1]
    BY <1>0, <2>2, <2>4, CloseOpen
  <2>6. Reduce(t, w) = Close(gs[Len(gs)], w) /\ Missing(gs[Len(gs)]) <= Len(w)
    BY <2>2, <2>3, <2>5, Zenon
  <2>7. PICK vs : vs = Reduce(t, w)
    OBVIOUS
  <2>8. Chain(gs, w, out)
    BY <1>3, <2>1, <2>2, <2>6, <2>7, ChainPush
  <2> QED
    BY <2>8, Zenon
<1>4. ASSUME ts[p].val[1] = 0, NEW w \in Outcomes(ts)[p + 1]
      PROVE  \E out \in Outcomes(ts)[1] : Chain(fs, Cat(Unit(Array(<<>>)), w), out)
  <2>1. Sequence(w) /\ t.val[1] <= Len(w) /\ t.val[1] = 0
    BY <1>0, <1>2, <1>4, Zenon
  <2>2. Reduce(t, w) = Grouped(<<>>, w, 0)
    BY <1>0, <2>1, ReduceGrouped
  <2>3. Taken(w, 0) = <<>> /\ After(w, 0) = w
    BY <2>1, TakenNone
  <2>4. Cat(<<>>, <<>>) = <<>>
    BY EmptyShape, CatEmpty
  <2>5. Reduce(t, w) = Cat(Unit(Array(<<>>)), w)
    BY <2>2, <2>3, <2>4, Zenon DEF Grouped
  <2> QED
    BY <1>2, <2>5, Zenon
<1> QED
  BY <1>3, <1>4, Zenon DEF Fits, Awaits

LEMMA FrontedLength ==
    ASSUME NEW v, NEW w, Sequence(w)
    PROVE  Len(Cat(Unit(v), w)) = 1 + Len(w)
BY CatShape, UnitType

LEMMA ChainMissing ==
    ASSUME NEW fs, Sequence(fs), Len(fs) >= 2, NEW vs, NEW out, Chain(fs, vs, out)
    PROVE  Missing(fs[Len(fs)]) <= Len(vs)
<1>1. Len(fs) \in 2 .. Len(fs)
  BY LenType
<1> QED
  BY <1>1, Zenon DEF Chain

(* A value goes to the last of the frames, an array. *)
LEMMA FitsMore ==
    ASSUME NEW ts \in Seq(Token), IsReply(ts), NEW p \in 1 .. Len(ts) + 1,
           NEW fs, OpenFrames(fs), Len(fs) >= 2, NEW v,
           Len(fs[Len(fs)].got) < fs[Len(fs)].len,
           Awaits(fs, v, Outcomes(ts)[p], ts),
           NEW gs, Len(gs) = Len(fs), \A i \in 1 .. Len(fs) - 1 : gs[i] = fs[i],
           gs[Len(fs)].got = Append(fs[Len(fs)].got, v), gs[Len(fs)].len = fs[Len(fs)].len
    PROVE  Fits(gs, Outcomes(ts)[p], ts)
<1>1. PICK f : f = fs[Len(fs)]
  OBVIOUS
<1>2. PICK g : g = gs[Len(fs)]
  OBVIOUS
<1>3. /\ Sequence(f.got) /\ f.len \in Nat /\ Len(f.got) < f.len
      /\ Sequence(fs) /\ Len(fs) \in Nat
  BY <1>1, LenType DEF OpenFrames
<1>4. g.len = f.len /\ g.got = Append(f.got, v)
  BY <1>1, <1>2, Zenon
<1>5. ASSUME NEW w \in Outcomes(ts)[p]
      PROVE  \E out \in Outcomes(ts)[1] : Chain(gs, w, out)
  <2>1. Sequence(w)
    BY OutcomeShape
  <2>2. PICK vs : vs = Cat(Unit(v), w)
    OBVIOUS
  <2>3. PICK out \in Outcomes(ts)[1] : Chain(fs, vs, out)
    BY <1>5, <2>2, Zenon DEF Awaits
  <2>4. Missing(f) <= Len(vs)
    BY <1>1, <1>3, <2>3, ChainMissing
  <2>5. Len(vs) = Len(w) + 1
    <3>1. Len(w) \in Nat
      BY <2>1, LenType
    <3>2. Len(Cat(Unit(v), w)) = 1 + Len(w)
      BY <2>1, FrontedLength
    <3> QED
      BY <2>2, <3>1, <3>2
  <2>6. Missing(f) <= Len(w) + 1
    BY <2>4, <2>5, Zenon
  <2>7. Close(f, Cat(Unit(v), w)) = Close(g, w) /\ Missing(g) <= Len(w)
    BY <1>3, <1>4, <2>1, <2>6, CloseLeaf
  <2>8. Close(gs[Len(fs)], w) = Close(fs[Len(fs)], vs) /\ Missing(gs[Len(fs)]) <= Len(w)
    BY <1>1, <1>2, <2>2, <2>7, Zenon
  <2>9. Chain(gs, w, out)
    BY <1>3, <2>1, <2>3, <2>8, ChainTop
  <2> QED
    BY <2>9, Zenon
<1> QED
  BY <1>5, Zenon DEF Fits

(* The last of the frames, an array with all its elements, is a value itself. *)
LEMMA FitsOver ==
    ASSUME NEW ts \in Seq(Token), IsReply(ts), NEW p \in 1 .. Len(ts) + 1,
           NEW fs, OpenFrames(fs), Len(fs) >= 2,
           Len(fs[Len(fs)].got) = fs[Len(fs)].len, Fits(fs, Outcomes(ts)[p], ts),
           NEW gs, Len(gs) = Len(fs) - 1, \A i \in 1 .. Len(fs) - 1 : gs[i] = fs[i]
    PROVE  Awaits(gs, Array(fs[Len(fs)].got), Outcomes(ts)[p], ts)
<1>1. PICK f : f = fs[Len(fs)]
  OBVIOUS
<1>2. /\ Sequence(f.got) /\ f.len \in Nat /\ Len(f.got) = f.len
      /\ Sequence(fs) /\ Len(fs) \in Nat
  BY <1>1, LenType DEF OpenFrames
<1>3. ASSUME NEW w \in Outcomes(ts)[p]
      PROVE  \E out \in Outcomes(ts)[1] : Chain(gs, Cat(Unit(Array(f.got)), w), out)
  <2>1. Sequence(w)
    BY OutcomeShape
  <2>2. PICK out \in Outcomes(ts)[1] : Chain(fs, w, out)
    BY <1>3, Zenon DEF Fits
  <2>3. Chain(gs, Close(fs[Len(fs)], w), out)
    BY <1>2, <2>2, ChainPop
  <2>4. Close(f, w) = Cat(Unit(Array(f.got)), w)
    BY <1>2, <2>1, CloseFull
  <2> QED
    BY <1>1, <2>3, <2>4, Zenon
<1> QED
  BY <1>1, <1>3, Zenon DEF Awaits

(* A value for the frame at the bottom is an outcome of the reply, and its last token
   has been read. *)
LEMMA FitsBottom ==
    ASSUME NEW ts \in Seq(Token), IsReply(ts), NEW p \in 1 .. Len(ts) + 1,
           NEW fs, Len(fs) = 1, NEW v, Awaits(fs, v, Outcomes(ts)[p], ts)
    PROVE  p = Len(ts) + 1 /\ Unit(v) \in Outcomes(ts)[1]
<1>1. PICK w : w \in Outcomes(ts)[p]
  BY ReadingPossible
<1>2. PICK out \in Outcomes(ts)[1] : Chain(fs, Cat(Unit(v), w), out)
  BY <1>1, Zenon DEF Awaits
<1>3. PICK vs : vs = Cat(Unit(v), w)
  OBVIOUS
<1>4. vs = out
  BY <1>2, <1>3, ChainBottom
<1>5. Sequence(w)
  BY <1>1, OutcomeShape
<1>6. Len(vs) = 1 + Len(w)
  <2>1. Len(Cat(Unit(v), w)) = 1 + Len(w)
    BY <1>5, FrontedLength
  <2> QED
    BY <1>3, <2>1, Zenon
<1>7. Len(vs) = 1 /\ Sequence(vs)
  BY <1>4, OutcomeLength
<1>8. Len(w) = 0
  BY <1>5, <1>6, <1>7, LenType
<1>9. p = Len(ts) + 1
  BY <1>1, <1>8, NothingBehind
<1>10. w = <<>>
  BY <1>5, <1>8, EmptyShape, SameElements
<1>11. Cat(Unit(v), <<>>) = Unit(v)
  BY CatEmpty, UnitType
<1> QED
  BY <1>3, <1>4, <1>9, <1>10, <1>11, Zenon

(* An array that waits for elements is followed by as many. *)
LEMMA FitsMissing ==
    ASSUME NEW ts \in Seq(Token), IsReply(ts), NEW p \in 1 .. Len(ts) + 1,
           NEW fs, OpenFrames(fs), Len(fs) >= 2,
           Len(fs[Len(fs)].got) < fs[Len(fs)].len, Fits(fs, Outcomes(ts)[p], ts)
    PROVE  p <= Len(ts)
<1>1. PICK w : w \in Outcomes(ts)[p]
  BY ReadingPossible
<1>2. Sequence(w) /\ Sequence(fs)
  BY <1>1, OutcomeShape DEF OpenFrames
<1>3. PICK out : Chain(fs, w, out)
  BY <1>1, Zenon DEF Fits
<1>4. Missing(fs[Len(fs)]) <= Len(w)
  BY <1>2, <1>3, ChainMissing
<1>5. Missing(fs[Len(fs)]) \in Int /\ Missing(fs[Len(fs)]) > 0
  BY <1>2, LenType DEF Missing, OpenFrames
<1>6. p = Len(ts) + 1 => w = <<>>
  BY <1>1, OutcomesStep
<1>7. Len(<<>>) = 0
  BY EmptyShape
<1> QED
  BY <1>4, <1>5, <1>6, <1>7

-----------------------------------------------------------------------------
(* Where the parser is: in reply r of the script, before its token p.  With fs it
   says what stands ready for the value to come.                            *)

Here(scr, r, p) == IF r <= Len(scr) /\ p > Len(scr[r]) THEN <<r + 1, 1>> ELSE <<r, p>>

Context(scr, r, p, fs) ==
    /\ OpenFrames(fs)
    /\ r \in Nat /\ r >= 1 /\ r <= Len(scr) + 1
    /\ p \in Nat /\ p >= 1
    /\ Len(fs) = 1 => p = 1
    /\ r > Len(scr) => Len(fs) = 1
    /\ r <= Len(scr) => p <= Len(scr[r]) + 1 /\ Fits(fs, Outcomes(scr[r])[p], scr[r])

Wanting(fs) == Len(fs) >= 2 => Len(fs[Len(fs)].got) < fs[Len(fs)].len

Pending(scr, r, p, fs) == Context(scr, r, p, fs) /\ Wanting(fs) /\ OnScript(scr, <<r, p>>)

(* The bytes s begin with those of pre; the others lead from place a to place nx. *)
Follows(scr, s, pre, a, nx) == \E t \in Seq(Byte) : s = Cat(pre, t) /\ Written(scr, t, a, nx)

LEMMA CatBytes == \A s, t \in Seq(Byte) : Cat(s, t) \in Seq(Byte)
BY DEF Cat

LEMMA BytesSequence == \A s \in Seq(Byte) : Sequence(s)
BY DEF Sequence

LEMMA FollowsMore ==
    ASSUME NEW scr, IsScript(scr), NEW s, NEW pre \in Seq(Byte),
           NEW a \in Places, NEW nx \in Places, OnScript(scr, nx), Follows(scr, s, pre, a, nx)
    PROVE  Follows(scr, Cat(s, Encode(TokenAt(scr, nx))), pre, a, Succ(scr, nx))
<1>1. PICK t \in Seq(Byte) : s = Cat(pre, t) /\ Written(scr, t, a, nx)
  BY Zenon DEF Follows
<1>2. PICK e \in Seq(Byte) : e = Encode(TokenAt(scr, nx))
  BY TokenAtType, EncodeType
<1>3. Written(scr, t \o Encode(TokenAt(scr, nx)), a, Succ(scr, nx))
  BY <1>1, WrittenMore
<1>4. Written(scr, Cat(t, e), a, Succ(scr, nx))
  BY <1>2, <1>3, Zenon DEF Cat
<1>5. Cat(t, e) \in Seq(Byte)
  BY CatBytes
<1>6. Cat(Cat(pre, t), e) = Cat(pre, Cat(t, e))
  BY BytesSequence, CatAssoc
<1> QED
  BY <1>1, <1>2, <1>4, <1>5, <1>6, Zenon DEF Follows

LEMMA FollowsNone ==
    ASSUME NEW scr, NEW s, NEW a, NEW nx, Follows(scr, s, <<>>, a, nx)
    PROVE  Written(scr, s, a, nx) /\ s \in Seq(Byte)
<1>1. PICK t \in Seq(Byte) : s = Cat(<<>>, t) /\ Written(scr, t, a, nx)
  BY Zenon DEF Follows
<1>2. Cat(<<>>, t) = t
  BY BytesSequence, CatEmpty
<1> QED
  BY <1>1, <1>2, Zenon

LEMMA HereNext ==
    ASSUME NEW scr, NEW r \in Nat, NEW p \in Nat, OnScript(scr, <<r, p>>), IsScript(scr)
    PROVE  Succ(scr, <<r, p>>) = Here(scr, r, p + 1)
<1>1. r \in 1 .. Len(scr) /\ p \in 1 .. Len(scr[r])
  BY DEF OnScript
<1>2. Len(scr) \in Nat /\ Len(scr[r]) \in Nat
  BY <1>1, ScriptShape
<1> QED
  BY <1>1, <1>2 DEF Succ, Here

LEMMA HereReply ==
    ASSUME NEW scr, IsScript(scr), NEW r \in 1 .. Len(scr)
    PROVE  /\ Here(scr, r, Len(scr[r]) + 1) = <<r + 1, 1>>
           /\ Here(scr, r + 1, 1) = <<r + 1, 1>>
<1>1. Len(scr) \in Nat /\ Len(scr[r]) \in Nat /\ r \in Nat
  BY ScriptShape
<1>2. r + 1 <= Len(scr) => Len(scr[r + 1]) >= 1 /\ Len(scr[r + 1]) \in Nat
  <2>1. r + 1 <= Len(scr) => r + 1 \in 1 .. Len(scr)
    BY <1>1
  <2> QED
    BY <2>1, ScriptShape
<1> QED
  BY <1>1, <1>2 DEF Here

LEMMA HerePlace ==
    ASSUME NEW scr, NEW r \in Nat, NEW p \in Nat
    PROVE  Here(scr, r, p) \in Places
BY DEF Here, Places

LEMMA WantingHere ==
    ASSUME NEW scr, IsScript(scr), NEW r, NEW p, NEW fs, Context(scr, r, p, fs), Wanting(fs)
    PROVE  /\ Here(scr, r, p) = <<r, p>>
           /\ r <= Len(scr) => OnScript(scr, <<r, p>>)
<1>1. r \in Nat /\ r >= 1 /\ p \in Nat /\ p >= 1 /\ OpenFrames(fs)
  BY DEF Context
<1>2. ASSUME r <= Len(scr) PROVE r \in 1 .. Len(scr) /\ p \in 1 .. Len(scr[r])
  <2>1. r \in 1 .. Len(scr)
    <3>1. Len(scr) \in Nat
      BY DEF IsScript
    <3> QED
      BY <1>1, <1>2, <3>1
  <2>2. scr[r] \in Seq(Token) /\ IsReply(scr[r]) /\ Len(scr[r]) \in Nat /\ Len(scr[r]) >= 1
    BY <2>1, ScriptShape
  <2>3. p <= Len(scr[r]) + 1 /\ Fits(fs, Outcomes(scr[r])[p], scr[r])
    BY <1>2 DEF Context
  <2>4. CASE Len(fs) = 1
    <3>1. p = 1
      BY <2>4 DEF Context
    <3> QED
      BY <2>1, <2>2, <3>1
  <2>5. CASE Len(fs) # 1
    <3>1. Len(fs) >= 2
      <4>1. Sequence(fs) /\ Len(fs) >= 1
        BY <1>1, Zenon DEF OpenFrames
      <4>2. Len(fs) \in Nat
        BY <4>1, LenType
      <4> QED
        BY <2>5, <4>1, <4>2
    <3>2. p \in 1 .. Len(scr[r]) + 1
      BY <1>1, <2>2, <2>3
    <3>3. Len(fs[Len(fs)].got) < fs[Len(fs)].len
      BY <3>1 DEF Wanting
    <3>4. p <= Len(scr[r])
      BY <1>1, <2>2, <2>3, <3>1, <3>2, <3>3, FitsMissing
    <3> QED
      BY <1>1, <2>1, <2>2, <3>4
  <2> QED
    BY <2>4, <2>5
<1>3. Here(scr, r, p) = <<r, p>>
  <2>1. CASE r <= Len(scr)
    <3>1. ~(p > Len(scr[r]))
      <4>1. Len(scr[r]) \in Nat
        BY <1>2, <2>1, ScriptShape
      <4> QED
        BY <1>2, <2>1, <4>1
    <3> QED
      BY <2>1, <3>1, Zenon DEF Here
  <2>2. CASE ~(r <= Len(scr))
    BY <2>2, Zenon DEF Here
  <2> QED
    BY <2>1, <2>2
<1> QED
  BY <1>2, <1>3 DEF OnScript

(* Of the frames only the lengths and what they have got tell what they make. *)
LEMMA FitsSame ==
    ASSUME NEW fs, NEW gs, Len(gs) = Len(fs),
           \A i \in 2 .. Len(fs) : gs[i].got = fs[i].got /\ gs[i].len = fs[i].len,
           NEW W, NEW ts, Fits(fs, W, ts)
    PROVE  Fits(gs, W, ts)
<1>1. \A i \in 2 .. Len(fs) : Missing(gs[i]) = Missing(fs[i])
  BY DEF Missing
<1>2. \A i \in 2 .. Len(fs) : \A w : Close(gs[i], w) = Close(fs[i], w)
  BY <1>1, Zenon DEF Close
<1>3. ASSUME NEW w, NEW out, Chain(fs, w, out) PROVE Chain(gs, w, out)
  <2>1. PICK ws : /\ ws[Len(fs)] = w /\ ws[1] = out
                  /\ \A i \in 1 .. Len(fs) : Sequence(ws[i])
                  /\ \A i \in 2 .. Len(fs) : /\ Missing(fs[i]) <= Len(ws[i])
                                             /\ ws[i - 1] = Close(fs[i], ws[i])
    BY <1>3, Zenon DEF Chain
  <2>2. \A i \in 2 .. Len(gs) : Missing(gs[i]) <= Len(ws[i]) /\ ws[i - 1] = Close(gs[i], ws[i])
    BY <1>1, <1>2, <2>1, Zenon
  <2>3. ws[Len(gs)] = w /\ ws[1] = out /\ \A i \in 1 .. Len(gs) : Sequence(ws[i])
    BY <2>1, Zenon
  <2> QED
    BY <2>2, <2>3, Zenon DEF Chain
<1> QED
  BY <1>3, Zenon DEF Fits

LEMMA OpenShape ==
    ASSUME NEW fs, OpenFrames(fs)
    PROVE  /\ Sequence(fs) /\ Len(fs) \in Nat /\ Len(fs) >= 1
           /\ Last(fs) = fs[Len(fs)] /\ IsFrame(fs[Len(fs)])
           /\ fs[Len(fs)].kind = (IF Len(fs) = 1 THEN "reply" ELSE "array")
           /\ Len(fs) >= 2 => /\ Sequence(fs[Len(fs)].got)
                              /\ Len(fs[Len(fs)].got) \in Nat /\ fs[Len(fs)].len \in Nat
                              /\ Len(fs[Len(fs)].got) <= fs[Len(fs)].len
<1>1. Sequence(fs) /\ Len(fs) >= 1
  BY Zenon DEF OpenFrames
<1>2. Len(fs) \in Nat
  BY <1>1, LenType
<1>3. Last(fs) = fs[Len(fs)]
  BY DEF Last
<1>4. PICK m \in Nat : m = Len(fs)
  BY <1>2
<1>5. m >= 1 /\ m \in 1 .. m /\ (m # 1 => m \in 2 .. m)
  BY <1>1, <1>4
<1>6. IsFrame(fs[m]) /\ fs[m].kind = (IF m = 1 THEN "reply" ELSE "array")
  BY <1>4, <1>5 DEF OpenFrames
<1>7. m >= 2 => /\ Sequence(fs[m].got) /\ fs[m].len \in Nat /\ Len(fs[m].got) <= fs[m].len
  BY <1>4, <1>5 DEF OpenFrames
<1>8. m >= 2 => Len(fs[m].got) \in Nat
  BY <1>7, LenType
<1> QED
  BY <1>1, <1>2, <1>3, <1>4, <1>6, <1>7, <1>8

LEMMA OpenSame ==
    ASSUME NEW fs, OpenFrames(fs), NEW gs, Sequence(gs), Len(gs) = Len(fs),
           \A i \in 1 .. Len(fs) - 1 : gs[i] = fs[i],
           NEW g, g = gs[Len(fs)], IsFrame(g), g.kind = fs[Len(fs)].kind,
           Len(fs) >= 2 => /\ Sequence(g.got) /\ g.len = fs[Len(fs)].len
                           /\ Len(g.got) <= g.len
    PROVE  OpenFrames(gs)
<1>0. PICK m \in Nat : m = Len(fs) /\ m >= 1
  BY OpenShape
<1>1. ASSUME NEW i \in 1 .. m PROVE IsFrame(gs[i])
  <2>1. CASE i = m
    BY <1>0, <2>1
  <2>2. CASE i # m
    <3>1. gs[i] = fs[i]
      BY <1>0, <2>2
    <3> QED
      BY <1>0, <3>1, Zenon DEF OpenFrames
  <2> QED
    BY <2>1, <2>2
<1>2. gs[1].kind = "reply"
  <2>1. CASE m = 1
    BY <1>0, <2>1 DEF OpenFrames
  <2>2. CASE m # 1
    <3>1. gs[1] = fs[1]
      BY <1>0, <2>2
    <3> QED
      BY <3>1 DEF OpenFrames
  <2> QED
    BY <2>1, <2>2
<1>3. ASSUME NEW i \in 2 .. m
      PROVE  /\ gs[i].kind = "array" /\ Sequence(gs[i].got)
             /\ gs[i].len \in Nat /\ Len(gs[i].got) <= gs[i].len
  <2>0. /\ fs[i].kind = "array" /\ Sequence(fs[i].got)
        /\ fs[i].len \in Nat /\ Len(fs[i].got) <= fs[i].len
    BY <1>0, Zenon DEF OpenFrames
  <2>1. CASE i = m
    BY <1>0, <2>0, <2>1
  <2>2. CASE i # m
    <3>1. gs[i] = fs[i]
      BY <1>0, <2>2
    <3> QED
      BY <2>0, <3>1
  <2> QED
    BY <2>1, <2>2
<1>4. ASSUME NEW i \in 2 .. m - 1 PROVE Len(gs[i].got) < gs[i].len
  <2>1. gs[i] = fs[i] /\ Len(fs[i].got) < fs[i].len
    BY <1>0 DEF OpenFrames
  <2> QED
    BY <2>1
<1>5. Sequence(gs) /\ Len(gs) = m
  BY <1>0
<1> QED
  BY <1>0, <1>1, <1>2, <1>3, <1>4, <1>5 DEF OpenFrames

LEMMA OpenAppended ==
    ASSUME NEW fs, OpenFrames(fs), Wanting(fs), NEW gs, Sequence(gs), Len(gs) = Len(fs) + 1,
           \A i \in 1 .. Len(fs) : gs[i] = fs[i],
           NEW g, g = gs[Len(gs)], IsFrame(g), g.kind = "array",
           Sequence(g.got), g.len \in Nat, Len(g.got) <= g.len
    PROVE  OpenFrames(gs)
<1>0. PICK m \in Nat : m = Len(fs) /\ m >= 1
  BY OpenShape
<1>n. PICK n \in Nat : n = m + 1
  OBVIOUS
<1>1. ASSUME NEW i \in 1 .. n PROVE IsFrame(gs[i])
  <2>1. CASE i = n
    BY <1>0, <1>n, <2>1
  <2>2. CASE i # n
    <3>1. i \in 1 .. m /\ gs[i] = fs[i]
      BY <1>0, <1>n, <2>2
    <3> QED
      BY <1>0, <3>1, Zenon DEF OpenFrames
  <2> QED
    BY <2>1, <2>2
<1>2. gs[1].kind = "reply"
  <2>1. gs[1] = fs[1]
    BY <1>0
  <2> QED
    BY <2>1 DEF OpenFrames
<1>3. ASSUME NEW i \in 2 .. n
      PROVE  /\ gs[i].kind = "array" /\ Sequence(gs[i].got)
             /\ gs[i].len \in Nat /\ Len(gs[i].got) <= gs[i].len
  <2>1. CASE i = n
    BY <1>0, <1>n, <2>1
  <2>2. CASE i # n
    <3>1. i \in 2 .. m /\ gs[i] = fs[i]
      BY <1>0, <1>n, <2>2
    <3>2. /\ fs[i].kind = "array" /\ Sequence(fs[i].got)
          /\ fs[i].len \in Nat /\ Len(fs[i].got) <= fs[i].len
      BY <1>0, <3>1, Zenon DEF OpenFrames
    <3> QED
      BY <3>1, <3>2
  <2> QED
    BY <2>1, <2>2
<1>4. ASSUME NEW i \in 2 .. n - 1 PROVE Len(gs[i].got) < gs[i].len
  <2>1. i \in 2 .. m /\ gs[i] = fs[i]
    BY <1>0, <1>n
  <2>2. CASE i = m
    BY <1>0, <2>1, <2>2 DEF Wanting
  <2>3. CASE i # m
    <3>1. i \in 2 .. m - 1
      BY <2>1, <2>3
    <3>2. Len(fs[i].got) < fs[i].len
      BY <1>0, <3>1, Zenon DEF OpenFrames
    <3> QED
      BY <2>1, <3>2
  <2> QED
    BY <2>2, <2>3
<1>5. Sequence(gs) /\ Len(gs) = n
  BY <1>0, <1>n
<1> QED
  BY <1>n, <1>0, <1>1, <1>2, <1>3, <1>4, <1>5 DEF OpenFrames

LEMMA OpenFront ==
    ASSUME NEW fs, OpenFrames(fs), Len(fs) >= 2
    PROVE  OpenFrames(Front(fs)) /\ Wanting(Front(fs)) /\ Len(Front(fs)) = Len(fs) - 1
<1>0. PICK m \in Nat : m = Len(fs) /\ m >= 2
  BY OpenShape
<1>n. PICK n \in Nat : n = m - 1
  BY <1>0
<1>1. PICK gs : gs = Front(fs)
  OBVIOUS
<1>2. Sequence(gs) /\ Len(gs) = n /\ \A i \in 1 .. n : gs[i] = fs[i]
  <2>1. Sequence(fs) /\ Len(fs) >= 1
    BY <1>0 DEF OpenFrames
  <2> QED
    BY <1>0, <1>n, <1>1, <2>1, FrontShape
<1>3. \A i \in 1 .. n : IsFrame(gs[i])
  BY <1>0, <1>n, <1>2 DEF OpenFrames
<1>4. gs[1].kind = "reply"
  BY <1>0, <1>n, <1>2 DEF OpenFrames
<1>5. ASSUME NEW i \in 2 .. n
      PROVE  /\ gs[i].kind = "array" /\ Sequence(gs[i].got)
             /\ gs[i].len \in Nat /\ Len(gs[i].got) < gs[i].len /\ Len(gs[i].got) <= gs[i].len
  <2>1. i \in 2 .. m /\ i \in 2 .. m - 1 /\ gs[i] = fs[i]
    BY <1>0, <1>n, <1>2
  <2>2. /\ fs[i].kind = "array" /\ Sequence(fs[i].got)
        /\ fs[i].len \in Nat /\ Len(fs[i].got) <= fs[i].len
    BY <1>0, <2>1, Zenon DEF OpenFrames
  <2>3. Len(fs[i].got) < fs[i].len
    BY <1>0, <2>1, Zenon DEF OpenFrames
  <2> QED
    BY <2>1, <2>2, <2>3
<1>6. OpenFrames(gs)
  BY <1>n, <1>0, <1>2, <1>3, <1>4, <1>5 DEF OpenFrames
<1>7. Wanting(gs)
  <2>1. n >= 2 => n \in 2 .. n
    OBVIOUS
  <2> QED
    BY <1>2, <1>5, <2>1 DEF Wanting
<1> QED
  BY <1>0, <1>n, <1>1, <1>2, <1>6, <1>7

-----------------------------------------------------------------------------
(* The phases: what the top frame is doing with the bytes s that are there or on
   their way.                                                               *)

TypePhase(scr, st, s, r, p, nx) ==
    /\ Context(scr, r, p, st) /\ Wanting(st)
    /\ Last(st).state = "type"
    /\ Written(scr, s, Here(scr, r, p), nx)

OverPhase(scr, st, s, r, p, nx) ==
    /\ Context(scr, r, p, st) /\ r <= Len(scr)
    /\ Len(st) >= 2 /\ Len(Last(st).got) = Last(st).len
    /\ Last(st).state = "over"
    /\ Written(scr, s, Here(scr, r, p), nx)

FrameOf(k, y, e, n, o) ==
    [kind |-> k, state |-> y, elemtype |-> e, len |-> n, got |-> o]

Altered(f, o, y) == [f EXCEPT !.got = o, !.state = y]

(* A frame after it has been given the value v. *)
Given(f, v) ==
    Altered(f, Append(f.got, v), IF Len(Append(f.got, v)) < f.len THEN "type" ELSE "over")

LEMMA FrameAltered ==
    ASSUME NEW k, NEW y, NEW e, NEW n, NEW o, NEW l, NEW x
    PROVE  Altered(FrameOf(k, y, e, n, o), l, x) = FrameOf(k, x, e, n, l)
<1>0. PICK f : f = FrameOf(k, y, e, n, o)
  OBVIOUS
<1> DEFINE g == [f EXCEPT !.got = l]
           h == [g EXCEPT !.state = x]
<1>3. f \in [kind : {k}, state : {y}, elemtype : {e}, len : {n}, got : {o}]
  BY <1>0 DEF FrameOf
<1>4. g \in [kind : {k}, state : {y}, elemtype : {e}, len : {n}, got : {l}]
  BY <1>3
<1>c. h = Altered(f, l, x)
  BY DEF Altered
<1> HIDE DEF g
<1>5. h \in [kind : {k}, state : {x}, elemtype : {e}, len : {n}, got : {l}]
  BY <1>4
<1> HIDE DEF h
<1>6. h = [kind |-> k, state |-> x, elemtype |-> e, len |-> n, got |-> l]
  BY <1>5
<1> QED
  BY <1>0, <1>c, <1>6, Zenon DEF FrameOf

LEMMA GivenShape ==
    ASSUME NEW f, IsFrame(f), NEW v
    PROVE  /\ IsFrame(Given(f, v)) /\ Given(f, v).kind = f.kind /\ Given(f, v).len = f.len
           /\ Given(f, v).got = Append(f.got, v)
           /\ Given(f, v).state = IF Len(Append(f.got, v)) < f.len THEN "type" ELSE "over"
<1>1. PICK l : l = Append(f.got, v)
  OBVIOUS
<1>2. PICK x : x = IF Len(l) < f.len THEN "type" ELSE "over"
  OBVIOUS
<1>3. Given(f, v) = Altered(f, l, x)
  BY <1>1, <1>2, Zenon DEF Given
<1>4. PICK k, y, e, n, o : f = FrameOf(k, y, e, n, o)
  BY Zenon DEF IsFrame, FrameOf
<1>5. k = f.kind /\ n = f.len
  BY <1>4 DEF FrameOf
<1>6. PICK g : g = Given(f, v)
  OBVIOUS
<1>7. g = FrameOf(k, x, e, n, l)
  <2>1. Altered(FrameOf(k, y, e, n, o), l, x) = FrameOf(k, x, e, n, l)
    BY FrameAltered
  <2>2. Altered(f, l, x) = FrameOf(k, x, e, n, l)
    BY <1>4, <2>1, Zenon
  <2> QED
    BY <1>3, <1>6, <2>2, Zenon
<1>8. IsFrame(g) /\ g.kind = k /\ g.len = n /\ g.got = l /\ g.state = x
  BY <1>7 DEF IsFrame, FrameOf
<1>9. x = IF Len(Append(f.got, v)) < f.len THEN "type" ELSE "over"
  BY <1>1, <1>2, Zenon
<1> QED
  BY <1>1, <1>5, <1>6, <1>8, <1>9, Zenon

LEMMA GivenArray ==
    ASSUME NEW scr, IsScript(scr), NEW r \in 1 .. Len(scr), NEW fs,
           OpenFrames(fs), Wanting(fs), Len(fs) >= 2, NEW v,
           NEW q \in 1 .. Len(scr[r]) + 1, Awaits(fs, v, Outcomes(scr[r])[q], scr[r]),
           NEW s, NEW nx, Written(scr, s, Here(scr, r, q), nx),
           NEW gs, gs = Replaced(fs, Given(Last(fs), v))
    PROVE  TypePhase(scr, gs, s, r, q, nx) \/ OverPhase(scr, gs, s, r, q, nx)
<1>0. scr[r] \in Seq(Token) /\ IsReply(scr[r]) /\ Len(scr[r]) \in Nat /\ Len(scr) \in Nat
  BY ScriptShape
<1>1. OpenFrames(fs)
  OBVIOUS
<1>2. PICK f : f = Last(fs)
  OBVIOUS
<1>3. /\ Sequence(fs) /\ Len(fs) \in Nat /\ Len(fs) >= 1
      /\ f = fs[Len(fs)] /\ IsFrame(f) /\ Sequence(f.got)
      /\ Len(f.got) \in Nat /\ f.len \in Nat /\ Len(f.got) < f.len
  BY <1>1, <1>2, OpenShape DEF Wanting
<1>4. PICK g : g = Given(f, v)
  OBVIOUS
<1>5. PICK l : l = Append(f.got, v)
  OBVIOUS
<1>6. /\ IsFrame(g) /\ g.kind = f.kind /\ g.len = f.len /\ g.got = l
      /\ g.state = IF Len(l) < f.len THEN "type" ELSE "over"
  BY <1>3, <1>4, <1>5, GivenShape
<1>7. Sequence(l) /\ Len(l) = Len(f.got) + 1
  BY <1>3, <1>5, AppendedShape
<1>8. gs = Replaced(fs, g)
  BY <1>2, <1>4
<1>9. /\ Sequence(gs) /\ Len(gs) = Len(fs) /\ gs[Len(fs)] = g
      /\ \A i \in 1 .. Len(fs) - 1 : gs[i] = fs[i]
  BY <1>3, <1>8, ReplacedShape
<1>10. OpenFrames(gs)
  <2>1. g.kind = fs[Len(fs)].kind /\ Sequence(g.got) /\ g.len = fs[Len(fs)].len
    BY <1>3, <1>6, <1>7
  <2>2. Len(g.got) <= g.len
    BY <1>3, <1>6, <1>7
  <2> QED
    BY <1>1, <1>6, <1>9, <2>1, <2>2, OpenSame
<1>11. Fits(gs, Outcomes(scr[r])[q], scr[r])
  <2>1. PICK ts \in Seq(Token) : ts = scr[r] /\ IsReply(ts)
    BY <1>0
  <2>2. gs[Len(fs)].got = Append(fs[Len(fs)].got, v) /\ gs[Len(fs)].len = fs[Len(fs)].len
    BY <1>3, <1>5, <1>6, <1>9
  <2>3. Len(fs[Len(fs)].got) < fs[Len(fs)].len
    BY <1>3
  <2>4. q \in 1 .. Len(ts) + 1 /\ Awaits(fs, v, Outcomes(ts)[q], ts)
    BY <2>1
  <2>5. Fits(gs, Outcomes(ts)[q], ts)
    BY <1>1, <1>9, <2>1, <2>2, <2>3, <2>4, FitsMore
  <2> QED
    BY <2>1, <2>5
<1>12. Context(scr, r, q, gs)
  <2>1. r \in Nat /\ r >= 1 /\ r <= Len(scr) + 1 /\ ~(r > Len(scr))
    BY <1>0
  <2>2. q \in Nat /\ q >= 1 /\ q <= Len(scr[r]) + 1
    BY <1>0
  <2>3. Len(gs) # 1
    BY <1>3, <1>9
  <2> QED
    BY <1>10, <1>11, <2>1, <2>2, <2>3, Zenon DEF Context
<1>13. Last(gs) = g
  BY <1>9 DEF Last
<1>14. CASE Len(l) < f.len
  <2>1. Wanting(gs)
    BY <1>6, <1>9, <1>14 DEF Wanting
  <2>2. Last(gs).state = "type"
    BY <1>6, <1>13, <1>14
  <2> QED
    BY <1>12, <2>1, <2>2 DEF TypePhase
<1>15. CASE ~(Len(l) < f.len)
  <2>1. Last(gs).state = "over" /\ Len(Last(gs).got) = Last(gs).len
    BY <1>3, <1>6, <1>7, <1>13, <1>15
  <2>2. Len(gs) >= 2 /\ r <= Len(scr)
    BY <1>0, <1>9
  <2> QED
    BY <1>12, <2>1, <2>2 DEF OverPhase
<1> QED
  BY <1>14, <1>15

LEMMA FreshContext ==
    ASSUME NEW scr, IsScript(scr), NEW r \in Nat, r >= 1, r <= Len(scr) + 1,
           NEW st, st = <<Frame("reply")>>
    PROVE  Context(scr, r, 1, st) /\ Wanting(st) /\ Last(st).state = "type" /\ Last(st).got = <<>>
<1>1. Len(scr) \in Nat
  BY DEF IsScript
<1>2. PICK f : f = Frame("reply")
  OBVIOUS
<1>3. IsFrame(f) /\ f.kind = "reply" /\ f.state = "type" /\ f.got = <<>>
  BY <1>2 DEF IsFrame, Frame
<1>4. Sequence(st) /\ Len(st) = 1 /\ st[1] = f
  BY <1>2, UnitShape
<1>5. OpenFrames(st)
  BY <1>3, <1>4 DEF OpenFrames
<1>6. Last(st) = f
  BY <1>4 DEF Last
<1>7. ASSUME r <= Len(scr)
      PROVE  1 <= Len(scr[r]) + 1 /\ Fits(st, Outcomes(scr[r])[1], scr[r])
  <2>1. PICK ts \in Seq(Token) : ts = scr[r] /\ IsReply(ts) /\ Len(ts) \in Nat
    <3>1. r \in 1 .. Len(scr)
      BY <1>1, <1>7
    <3> QED
      BY <3>1, ScriptShape
  <2>2. ASSUME NEW w \in Outcomes(ts)[1] PROVE Chain(st, w, w)
    <3>1. Sequence(w)
      BY <2>1, <2>2, OutcomeLength
    <3> QED
      BY <1>4, <3>1, ChainBottom
  <2>3. Fits(st, Outcomes(ts)[1], ts)
    BY <2>2, Zenon DEF Fits
  <2> QED
    BY <2>1, <2>3
<1>8. Context(scr, r, 1, st)
  BY <1>1, <1>4, <1>5, <1>7 DEF Context
<1>9. Wanting(st)
  BY <1>4 DEF Wanting
<1> QED
  BY <1>3, <1>6, <1>8, <1>9

LEMMA GivenReply ==
    ASSUME NEW scr, IsScript(scr), NEW r \in 1 .. Len(scr), NEW fs, Len(fs) = 1, NEW v,
           NEW q \in 1 .. Len(scr[r]) + 1, Awaits(fs, v, Outcomes(scr[r])[q], scr[r]),
           NEW s, NEW nx, Written(scr, s, Here(scr, r, q), nx),
           NEW st, st = <<Frame("reply")>>
    PROVE  /\ Unit(v) \in Outcomes(scr[r])[1]
           /\ TypePhase(scr, st, s, r + 1, 1, nx)
<1>0. PICK ts \in Seq(Token) : ts = scr[r] /\ IsReply(ts)
  BY ScriptShape
<1>1. q = Len(ts) + 1 /\ Unit(v) \in Outcomes(ts)[1]
  BY <1>0, FitsBottom
<1>2. Here(scr, r, q) = Here(scr, r + 1, 1)
  <2>1. Here(scr, r, Len(scr[r]) + 1) = <<r + 1, 1>> /\ Here(scr, r + 1, 1) = <<r + 1, 1>>
    BY HereReply
  <2> QED
    BY <1>0, <1>1, <2>1
<1>3. r + 1 \in Nat /\ r + 1 >= 1 /\ r + 1 <= Len(scr) + 1
  <2>1. Len(scr) \in Nat
    BY DEF IsScript
  <2> QED
    BY <2>1
<1>4. Context(scr, r + 1, 1, st) /\ Wanting(st) /\ Last(st).state = "type"
  BY <1>3, FreshContext
<1> QED
  BY <1>0, <1>1, <1>2, <1>4 DEF TypePhase

(* What follows the byte for the type of a token. *)
Rest(t) == Cat(Line(Heading(t)), Content(t))

Ahead(scr, s, r, p, nx) ==
    Follows(scr, s, Rest(TokenAt(scr, <<r, p>>)), Succ(scr, <<r, p>>), nx)

ContentPhase(scr, st, s, r, p, nx) ==
    /\ Pending(scr, r, p, st)
    /\ Last(st).state = "content"
    /\ Last(st).elemtype = LeadingType(Leading(TokenAt(scr, <<r, p>>)))
    /\ Last(st).elemtype # "unknown"
    /\ Ahead(scr, s, r, p, nx)

(* A builder with a frame of its own on top of those that wait for its value. *)
Above(scr, st, r, p) == Sequence(st) /\ Len(st) >= 2 /\ Pending(scr, r, p, Front(st))

LenPhase(scr, st, s, r, p, nx) ==
    /\ Above(scr, st, r, p)
    /\ Last(st) = Frame(LeadingType(Leading(TokenAt(scr, <<r, p>>))))
    /\ LeadingType(Leading(TokenAt(scr, <<r, p>>))) \in {"array", "bulk"}
    /\ Ahead(scr, s, r, p, nx)

BulkLength(t) == IF t.kind = "bulk" THEN Len(t.val) ELSE Len(t.val) - 1

BulkPhase(scr, st, s, r, p, nx) ==
    /\ Above(scr, st, r, p)
    /\ TokenAt(scr, <<r, p>>).kind \in {"bulk", "badbulk"}
    /\ IsFrame(Last(st)) /\ Last(st).kind = "bulk" /\ Last(st).state = "plain"
    /\ Last(st).len = BulkLength(TokenAt(scr, <<r, p>>))
    /\ Last(st).got \in Seq(Byte) /\ Len(Last(st).got) < Last(st).len + 2
    /\ Follows(scr, Cat(Last(st).got, s), Line(TokenAt(scr, <<r, p>>).val),
               Succ(scr, <<r, p>>), nx)

(* The part of a simple string that is still to come: nothing is known of what is
   left of the others, but how many they are. *)
Overlaying(got, rest, val) ==
    /\ got \in Seq(Byte \cup {"junk"}) /\ rest \in Text
    /\ Len(got) + Len(rest) = Len(val)
    /\ Len(val) <= 2 => (got = <<>> /\ rest = val) \/ (got = val /\ rest = <<>>)

SimplePhase(scr, st, s, r, p, nx) ==
    /\ Above(scr, st, r, p)
    /\ TokenAt(scr, <<r, p>>).kind \in {"simple", "error"}
    /\ IsFrame(Last(st)) /\ Last(st).state = "plain"
    /\ Last(st).kind = TokenAt(scr, <<r, p>>).kind
    /\ \E rest : /\ Overlaying(Last(st).got, rest, TokenAt(scr, <<r, p>>).val)
                 /\ Follows(scr, s, Line(rest), Succ(scr, <<r, p>>), nx)

Phase(scr, st, s, r, nx) ==
    \E p : \/ TypePhase(scr, st, s, r, p, nx) \/ ContentPhase(scr, st, s, r, p, nx)
           \/ OverPhase(scr, st, s, r, p, nx) \/ LenPhase(scr, st, s, r, p, nx)
           \/ BulkPhase(scr, st, s, r, p, nx) \/ SimplePhase(scr, st, s, r, p, nx)

(* A value the parser may give for a reply: one of its outcomes, or an empty array
   where the reply is a null array (PushReply() takes one for the other). *)
Answer(ts, x) == Unit(x) \in Outcomes(ts)[1] \/ (ts[1].kind = "nullarray" /\ x = Array(<<>>))

(* A step that goes on with reply r, or finishes it. *)
GoesOn(scr, s, r, nx) ==
    \/ available' = available /\ Phase(scr, stack_rrb', s, r, nx)
    \/ \E x : /\ Answer(scr[r], x) /\ available' = Append(available, x)
              /\ Phase(scr, stack_rrb', s, r + 1, nx)

(* RRB_OVER: the frames fs get the value they wait for. *)
LEMMA OverGoesOn ==
    ASSUME NEW scr, IsScript(scr), NEW r \in 1 .. Len(scr), NEW fs,
           OpenFrames(fs), Wanting(fs), NEW value,
           NEW q \in 1 .. Len(scr[r]) + 1,
           Awaits(fs, SetReply(value), Outcomes(scr[r])[q], scr[r]),
           Len(fs) = 1 /\ value.kind = "nullarray" => scr[r][1].kind = "nullarray",
           NEW s, NEW nx, Written(scr, s, Here(scr, r, q), nx),
           Over(fs, value)
    PROVE  GoesOn(scr, s, r, nx)
<1>1. OpenFrames(fs)
  OBVIOUS
<1>2. PICK v : v = SetReply(value)
  OBVIOUS
<1>3. Awaits(fs, v, Outcomes(scr[r])[q], scr[r])
  BY <1>2
<1>4. CASE Len(fs) = 1
  <2>1. Last(fs).kind = "reply"
    BY <1>1, <1>4, OpenShape
  <2>2. available' = Append(available, PushReply(value)) /\ stack_rrb' = <<Frame("reply")>>
    BY <2>1, Zenon DEF Over
  <2>3. PICK st : st = stack_rrb'
    OBVIOUS
  <2>4. Unit(v) \in Outcomes(scr[r])[1] /\ TypePhase(scr, st, s, r + 1, 1, nx)
    BY <1>3, <1>4, <2>2, <2>3, GivenReply
  <2>5. Phase(scr, st, s, r + 1, nx)
    BY <2>4, Zenon DEF Phase
  <2>6. Answer(scr[r], PushReply(value))
    <3>1. CASE value.kind = "nullarray"
      BY <1>4, <3>1 DEF Answer, PushReply
    <3>2. CASE value.kind # "nullarray"
      <4>1. PushReply(value) = v
        BY <1>2, <3>2, Zenon DEF PushReply, SetReply
      <4>2. Answer(scr[r], v)
        BY <2>4 DEF Answer
      <4> QED
        BY <4>1, <4>2, Zenon
    <3> QED
      BY <3>1, <3>2
  <2> QED
    BY <2>2, <2>3, <2>5, <2>6, Zenon DEF GoesOn
<1>5. CASE Len(fs) >= 2
  <2>1. Last(fs).kind # "reply"
    BY <1>1, <1>5, OpenShape
  <2>2. /\ available' = available
        /\ stack_rrb' = Replaced(fs, Given(Last(fs), v))
    BY <1>2, <2>1, Zenon DEF Over, Replaced, Given, Altered
  <2>3. PICK gs : gs = stack_rrb'
    OBVIOUS
  <2>4. TypePhase(scr, gs, s, r, q, nx) \/ OverPhase(scr, gs, s, r, q, nx)
    BY <1>3, <1>5, <2>2, <2>3, GivenArray
  <2>5. Phase(scr, gs, s, r, nx)
    BY <2>4, Zenon DEF Phase
  <2> QED
    BY <2>2, <2>3, <2>5, Zenon DEF GoesOn
<1>6. PICK m \in Nat : m = Len(fs) /\ m >= 1
  BY <1>1, OpenShape, Zenon
<1>7. m = 1 \/ m >= 2
  BY <1>6
<1> QED
  BY <1>4, <1>5, <1>6, <1>7, Zenon

(* What the bytes at the front of the buffer are. *)
LEMMA LeadingTypeOf ==
    ASSUME NEW t \in Token
    PROVE  /\ LeadingType(Leading(t)) = "simple" <=> t.kind = "simple"
           /\ LeadingType(Leading(t)) = "error" <=> t.kind = "error"
           /\ LeadingType(Leading(t)) = "integer" <=> t.kind = "integer"
           /\ LeadingType(Leading(t)) = "array" <=> t.kind \in {"array", "nullarray"}
           /\ LeadingType(Leading(t)) = "bulk" <=> t.kind \in {"bulk", "badbulk", "null"}
           /\ LeadingType(Leading(t)) = "unknown" <=> t.kind = "resp3"
           /\ LeadingType(Leading(t)) \in {"simple", "error", "integer", "array", "bulk", "unknown"}
BY TokenShape DEF LeadingType, Leading

LEMMA FirstByte ==
    ASSUME NEW a \in Seq(Byte), NEW b \in Seq(Byte), NEW x \in Seq(Byte), NEW t \in Seq(Byte),
           Cat(a, b) = Cat(x, t), Len(a) >= 1, Len(x) >= 1
    PROVE  Cat(After(a, 1), b) = Cat(After(x, 1), t) /\ Taken(a, 1) = Taken(x, 1)
<1>0. a \o b = x \o t
  BY Zenon DEF Cat
<1>1. PICK n \in Nat : n = 1
  OBVIOUS
<1>2. n <= Len(a) /\ n <= Len(x)
  BY <1>1
<1>3. SubSeq(a, 1, n) = SubSeq(x, 1, n)
  BY <1>0, <1>2, OverlapFront
<1> DEFINE z == a \o b
           w == x \o t
<1>4. n \in 0 .. Len(a) /\ n \in 0 .. Len(x)
  BY <1>2
<1>5. SubSeq(z, n + 1, Len(z)) = SubSeq(a, n + 1, Len(a)) \o b
  BY <1>4, DropConcat
<1>6. SubSeq(w, n + 1, Len(w)) = SubSeq(x, n + 1, Len(x)) \o t
  BY <1>4, DropConcat
<1>7. z = w
  BY <1>0
<1> HIDE DEF z, w
<1>8. After(a, n) \o b = After(x, n) \o t
  BY <1>5, <1>6, <1>7 DEF After
<1> QED
  BY <1>1, <1>3, <1>8, Zenon DEF Cat, Taken

LEMMA AfterFirst ==
    ASSUME NEW s \in Seq(Byte), s # <<>>
    PROVE  After(s, 1) = Tail(s) /\ Tail(s) \in Seq(Byte)
BY DEF After

LEMMA TypeAhead ==
    ASSUME bb \in Seq(Byte), wire \in Seq(Byte), bb # <<>>, NEW scr, IsScript(scr),
           NEW nx \in Places, NEW a \in Places, Written(scr, Cat(bb, wire), a, nx)
    PROVE  /\ OnScript(scr, a) /\ Head(bb) = Leading(TokenAt(scr, a)) /\ Tail(bb) \in Seq(Byte)
           /\ Follows(scr, Cat(Tail(bb), wire), Rest(TokenAt(scr, a)), Succ(scr, a), nx)
<1>0. PICK s \in Seq(Byte) : s = Cat(bb, wire)
  BY CatBytes
<1>1. s # <<>>
  <2>1. Len(s) = Len(bb) + Len(wire)
    BY <1>0, BytesSequence, CatShape
  <2>2. Len(bb) > 0 /\ Len(wire) >= 0
    OBVIOUS
  <2> QED
    BY <2>1, <2>2
<1>2. /\ OnScript(scr, a)
      /\ \E t \in Seq(Byte) : s = Encode(TokenAt(scr, a)) \o t /\ Written(scr, t, Succ(scr, a), nx)
  <2>1. Written(scr, s, a, nx)
    BY <1>0
  <2> QED
    BY <1>1, <2>1, WrittenFirst
<1>3. PICK t \in Seq(Byte) : s = Encode(TokenAt(scr, a)) \o t /\ Written(scr, t, Succ(scr, a), nx)
  BY <1>2
<1>4. PICK k \in Token : k = TokenAt(scr, a)
  BY <1>2, TokenAtType
<1>5. PICK e \in Seq(Byte) : e = Encode(k) /\ e # <<>> /\ Head(e) = Leading(k)
                             /\ Tail(e) = Line(Heading(k)) \o Content(k)
  BY EncodeType
<1>6. Cat(bb, wire) = Cat(e, t)
  BY <1>0, <1>3, <1>4, <1>5, Zenon DEF Cat
<1>7. Len(bb) >= 1 /\ Len(e) >= 1
  BY <1>5
<1>8. Cat(After(bb, 1), wire) = Cat(After(e, 1), t) /\ Taken(bb, 1) = Taken(e, 1)
  BY <1>6, <1>7, FirstByte
<1>9. After(bb, 1) = Tail(bb) /\ After(e, 1) = Tail(e) /\ Tail(bb) \in Seq(Byte)
  BY <1>5, AfterFirst
<1>10. Head(bb) = Head(e)
  <2>1. Taken(bb, 1)[1] = Head(bb) /\ Taken(e, 1)[1] = Head(e)
    BY <1>5 DEF Taken
  <2> QED
    BY <1>8, <2>1
<1>11. Cat(Tail(bb), wire) = Cat(Rest(k), t)
  BY <1>5, <1>8, <1>9, Zenon DEF Cat, Rest
<1> QED
  BY <1>2, <1>3, <1>4, <1>5, <1>9, <1>10, <1>11, Zenon DEF Follows

(* A line at the front of the buffer, whole or not yet. *)
LEMMA HeadingAhead ==
    ASSUME bb \in Seq(Byte), wire \in Seq(Byte), NEW scr, NEW t \in Token, NEW a, NEW nx,
           Follows(scr, Cat(bb, wire), Rest(t), a, nx)
    PROVE  /\ LineKnown => /\ SubSeq(bb, 1, LineEnd - 1) = Heading(t)
                           /\ SubSeq(bb, LineEnd + 2, Len(bb)) \in Seq(Byte)
                           /\ Follows(scr, Cat(SubSeq(bb, LineEnd + 2, Len(bb)), wire),
                                      Content(t), a, nx)
           /\ ~LineKnown => Len(bb) < Len(Heading(t)) + 2
<1>1. PICK u \in Seq(Byte) : Cat(bb, wire) = Cat(Rest(t), u) /\ Written(scr, u, a, nx)
  BY Zenon DEF Follows
<1>2. PICK h \in Text : h = Heading(t)
  BY HeadingType
<1>3. PICK c \in Seq(Byte) : c = Content(t)
  BY EncodeType
<1>4. PICK l \in Seq(Byte) : l = Line(h)
  BY <1>2, TextOfBytes, LineType
<1>5. Cat(Cat(l, c), u) = Cat(l, Cat(c, u))
  BY BytesSequence, CatAssoc
<1>6. PICK v \in Seq(Byte) : v = Cat(c, u)
  BY CatBytes
<1>7. Cat(bb, wire) = Cat(l, v)
  BY <1>1, <1>2, <1>3, <1>4, <1>5, <1>6, Zenon DEF Rest
<1>8. bb \o wire = Line(h) \o v
  BY <1>4, <1>7, Zenon DEF Cat
<1>9. /\ LineKnown => /\ LineEnd = Len(h) + 1
                      /\ SubSeq(bb, 1, LineEnd - 1) = h
                      /\ SubSeq(bb, LineEnd + 2, Len(bb)) \o wire = v
      /\ ~LineKnown => Len(bb) < Len(h) + 2
  BY <1>8, LineAhead
<1>10. ASSUME LineKnown
       PROVE  /\ SubSeq(bb, LineEnd + 2, Len(bb)) \in Seq(Byte)
              /\ Follows(scr, Cat(SubSeq(bb, LineEnd + 2, Len(bb)), wire), Content(t), a, nx)
  <2>1. PICK m \in Nat : m = LineEnd + 2 /\ m >= 1
    BY <1>2, <1>9, <1>10, TextElements
  <2>2. SubSeq(bb, m, Len(bb)) \in Seq(Byte)
    BY <2>1
  <2>3. Cat(SubSeq(bb, LineEnd + 2, Len(bb)), wire) = Cat(Content(t), u)
    BY <1>3, <1>6, <1>9, <1>10, Zenon DEF Cat
  <2> QED
    BY <1>1, <2>1, <2>2, <2>3, Zenon DEF Follows
<1> QED
  BY <1>2, <1>9, <1>10

LEMMA NoContent ==
    ASSUME NEW t \in Token, t.kind \notin {"bulk", "badbulk"}
    PROVE  Content(t) = <<>>
BY DEF Content

-----------------------------------------------------------------------------
(* The rounds: each builder leaves its phase for one that is right.         *)

Typed(f, y, e) == [f EXCEPT !.state = y, !.elemtype = e]
Sized(f, n, y) == [f EXCEPT !.len = n, !.state = y]
Filled(f, o) == [f EXCEPT !.got = o]

LEMMA FrameFields ==
    ASSUME NEW k, NEW y, NEW e, NEW n, NEW o, NEW f, f = FrameOf(k, y, e, n, o)
    PROVE  /\ IsFrame(f) /\ f.kind = k /\ f.state = y /\ f.elemtype = e /\ f.len = n
           /\ f.got = o
BY DEF FrameOf, IsFrame

LEMMA TypedFrame ==
    ASSUME NEW f, IsFrame(f), NEW y, NEW e
    PROVE  Typed(f, y, e) = FrameOf(f.kind, y, e, f.len, f.got)
<1>1. PICK k, z, d, n, o : f = FrameOf(k, z, d, n, o)
  BY Zenon DEF IsFrame, FrameOf
<1> DEFINE g == [f EXCEPT !.state = y]
           h == [g EXCEPT !.elemtype = e]
<1>2. h = Typed(f, y, e)
  BY DEF Typed
<1>3. f \in [kind : {k}, state : {z}, elemtype : {d}, len : {n}, got : {o}]
  BY <1>1 DEF FrameOf
<1>4. g \in [kind : {k}, state : {y}, elemtype : {d}, len : {n}, got : {o}]
  BY <1>3
<1> HIDE DEF g
<1>5. h \in [kind : {k}, state : {y}, elemtype : {e}, len : {n}, got : {o}]
  BY <1>4
<1> HIDE DEF h
<1>6. h = FrameOf(k, y, e, n, o)
  BY <1>5 DEF FrameOf
<1>7. k = f.kind /\ n = f.len /\ o = f.got
  BY <1>1, FrameFields
<1> QED
  BY <1>2, <1>6, <1>7, Zenon

LEMMA SizedFrame ==
    ASSUME NEW f, IsFrame(f), NEW y, NEW m
    PROVE  Sized(f, m, y) = FrameOf(f.kind, y, f.elemtype, m, f.got)
<1>1. PICK k, z, d, n, o : f = FrameOf(k, z, d, n, o)
  BY Zenon DEF IsFrame, FrameOf
<1> DEFINE g == [f EXCEPT !.len = m]
           h == [g EXCEPT !.state = y]
<1>2. h = Sized(f, m, y)
  BY DEF Sized
<1>3. f \in [kind : {k}, state : {z}, elemtype : {d}, len : {n}, got : {o}]
  BY <1>1 DEF FrameOf
<1>4. g \in [kind : {k}, state : {z}, elemtype : {d}, len : {m}, got : {o}]
  BY <1>3
<1> HIDE DEF g
<1>5. h \in [kind : {k}, state : {y}, elemtype : {d}, len : {m}, got : {o}]
  BY <1>4
<1> HIDE DEF h
<1>6. h = FrameOf(k, y, d, m, o)
  BY <1>5 DEF FrameOf
<1>7. k = f.kind /\ d = f.elemtype /\ o = f.got
  BY <1>1, FrameFields
<1> QED
  BY <1>2, <1>6, <1>7, Zenon

LEMMA FilledFrame ==
    ASSUME NEW f, IsFrame(f), NEW l
    PROVE  Filled(f, l) = FrameOf(f.kind, f.state, f.elemtype, f.len, l)
<1>1. PICK k, z, d, n, o : f = FrameOf(k, z, d, n, o)
  BY Zenon DEF IsFrame, FrameOf
<1> DEFINE h == [f EXCEPT !.got = l]
<1>2. h = Filled(f, l)
  BY DEF Filled
<1>3. f \in [kind : {k}, state : {z}, elemtype : {d}, len : {n}, got : {o}]
  BY <1>1 DEF FrameOf
<1>5. h \in [kind : {k}, state : {z}, elemtype : {d}, len : {n}, got : {l}]
  BY <1>3
<1> HIDE DEF h
<1>6. h = FrameOf(k, z, d, n, l)
  BY <1>5 DEF FrameOf
<1>7. k = f.kind /\ z = f.state /\ d = f.elemtype /\ n = f.len
  BY <1>1, FrameFields
<1> QED
  BY <1>2, <1>6, <1>7, Zenon

LEMMA ContextSame ==
    ASSUME NEW scr, IsScript(scr), NEW r, NEW p, NEW fs, Context(scr, r, p, fs),
           NEW g, IsFrame(g), g.kind = Last(fs).kind, g.len = Last(fs).len, g.got = Last(fs).got,
           NEW gs, gs = Replaced(fs, g)
    PROVE  Context(scr, r, p, gs) /\ (Wanting(fs) => Wanting(gs)) /\ Last(gs) = g
<1>1. OpenFrames(fs)
  BY DEF Context
<1>2. PICK m \in Nat : m = Len(fs) /\ m >= 1 /\ Sequence(fs) /\ Last(fs) = fs[m]
  BY <1>1, OpenShape
<1>3. /\ Sequence(gs) /\ Len(gs) = m /\ gs[m] = g
      /\ \A i \in 1 .. m - 1 : gs[i] = fs[i]
  BY <1>2, ReplacedShape
<1>4. m >= 2 => /\ Sequence(fs[m].got) /\ fs[m].len \in Nat /\ Len(fs[m].got) <= fs[m].len
  BY <1>1, <1>2, OpenShape
<1>5. OpenFrames(gs)
  BY <1>1, <1>2, <1>3, <1>4, OpenSame
<1>6. Last(gs) = g
  BY <1>3 DEF Last
<1>7. \A i \in 2 .. m : gs[i].got = fs[i].got /\ gs[i].len = fs[i].len
  BY <1>2, <1>3
<1>8. r <= Len(scr) => Fits(gs, Outcomes(scr[r])[p], scr[r])
  <2>1. ASSUME r <= Len(scr) PROVE Fits(fs, Outcomes(scr[r])[p], scr[r])
    BY <2>1, Zenon DEF Context
  <2> QED
    BY <1>2, <1>3, <1>7, <2>1, FitsSame
<1>9. Wanting(fs) => Wanting(gs)
  BY <1>2, <1>3 DEF Wanting
<1>10. Len(gs) = Len(fs)
  BY <1>2, <1>3
<1>11. Context(scr, r, p, gs)
  BY <1>5, <1>8, <1>10, Zenon DEF Context
<1> QED
  BY <1>6, <1>9, <1>11

(* At rest: the bytes that are there do not suffice to go on. *)
Resting(scr, st, b, s, r, nx) ==
    \E p :
        \/ TypePhase(scr, st, s, r, p, nx) /\ b = <<>>
        \/ /\ ContentPhase(scr, st, s, r, p, nx) /\ Last(st).elemtype = "integer"
           /\ Len(b) < Len(Heading(TokenAt(scr, <<r, p>>))) + 2
        \/ /\ LenPhase(scr, st, s, r, p, nx)
           /\ Len(b) < Len(Heading(TokenAt(scr, <<r, p>>))) + 2
        \/ BulkPhase(scr, st, s, r, p, nx) /\ b = <<>>
        \/ SimplePhase(scr, st, s, r, p, nx) /\ Len(b) < 2

(* After a violation of the protocol the parser has stopped for good. *)
Stuck(scr, st, b) ==
    /\ \E k \in DOMAIN scr : ~WellFormed(scr[k])
    /\ \/ /\ OpenFrames(st) /\ Last(st).state = "type"
          /\ b # <<>> /\ LeadingType(Head(b)) = "unknown"
       \/ /\ Sequence(st) /\ Len(st) >= 2 /\ OpenFrames(Front(st)) /\ IsFrame(Last(st))
          /\ Last(st).kind = "bulk" /\ Last(st).state = "plain" /\ Last(st).len \in Nat
          /\ Last(st).got \in Seq(Byte) /\ Len(Last(st).got) = Last(st).len + 2
          /\ SubSeq(Last(st).got, Last(st).len + 1, Last(st).len + 2) # <<"CR", "LF">>

(* What a round comes to. *)
RoundOf(scr, r, nx) ==
    /\ bb' \in Seq(Byte)
    /\ \/ Stops /\ Resting(scr, stack_rrb', bb', Cat(bb', wire), r, nx)
       \/ Throws /\ Stuck(scr, stack_rrb', bb')
       \/ Unfailing /\ GoesOn(scr, Cat(bb', wire), r, nx)

LEMMA TypeRound ==
    ASSUME bb \in Seq(Byte), wire \in Seq(Byte), next \in Places, IsScript(script),
           NEW r, NEW p, TypePhase(script, stack_rrb, Cat(bb, wire), r, p, next), BuildType
    PROVE  RoundOf(script, r, next)
<1>0. /\ Context(script, r, p, stack_rrb) /\ Wanting(stack_rrb)
      /\ Written(script, Cat(bb, wire), Here(script, r, p), next)
  BY Zenon DEF TypePhase
<1>1. /\ Here(script, r, p) = <<r, p>> /\ r \in Nat /\ p \in Nat
      /\ OpenFrames(stack_rrb)
  BY <1>0, WantingHere DEF Context
<1>2. ASSUME bb = <<>>, Premature PROVE RoundOf(script, r, next)
  <2>1. bb' = bb /\ stack_rrb' = stack_rrb /\ Stops
    BY <1>2, Zenon DEF Premature
  <2>2. Resting(script, stack_rrb, bb, Cat(bb, wire), r, next)
    BY <1>2, Zenon DEF Resting
  <2> QED
    BY <2>1, <2>2, Zenon DEF RoundOf
<1>3. ASSUME bb # <<>>
      PROVE  /\ OnScript(script, <<r, p>>) /\ Tail(bb) \in Seq(Byte)
             /\ Head(bb) = Leading(TokenAt(script, <<r, p>>))
             /\ TokenAt(script, <<r, p>>) \in Token
             /\ Ahead(script, Cat(Tail(bb), wire), r, p, next)
  <2>1. PICK a \in Places : a = <<r, p>>
    BY <1>1 DEF Places
  <2>2. Written(script, Cat(bb, wire), a, next)
    BY <1>0, <1>1, <2>1
  <2>3. /\ OnScript(script, a) /\ Head(bb) = Leading(TokenAt(script, a)) /\ Tail(bb) \in Seq(Byte)
        /\ Follows(script, Cat(Tail(bb), wire), Rest(TokenAt(script, a)), Succ(script, a), next)
    BY <1>3, <2>2, TypeAhead
  <2>4. TokenAt(script, a) \in Token
    BY <2>3, TokenAtType
  <2> QED
    BY <2>1, <2>3, <2>4, Zenon DEF Ahead
<1>4. ASSUME bb # <<>>, LeadingType(Head(bb)) = "unknown", Throws, UNCHANGED <<bb, stack_rrb>>
      PROVE  RoundOf(script, r, next)
  <2>1. TokenAt(script, <<r, p>>).kind = "resp3"
    BY <1>3, <1>4, LeadingTypeOf
  <2>2. \E k \in DOMAIN script : ~WellFormed(script[k])
    <3>1. r \in DOMAIN script /\ p \in DOMAIN script[r] /\ script[r][p].kind = "resp3"
      <4>1. r \in 1 .. Len(script) /\ p \in 1 .. Len(script[r])
        BY <1>3, <1>4 DEF OnScript
      <4>2. script \in Seq(Seq(Token)) /\ script[r] \in Seq(Token)
        BY <4>1, ScriptShape DEF IsScript
      <4> QED
        BY <2>1, <4>1, <4>2 DEF TokenAt
    <3> QED
      BY <3>1 DEF WellFormed
  <2>3. Last(stack_rrb).state = "type"
    BY Zenon DEF TypePhase
  <2>4. Stuck(script, stack_rrb, bb)
    BY <1>1, <1>4, <2>2, <2>3, Zenon DEF Stuck
  <2>5. stack_rrb' = stack_rrb /\ bb' = bb
    BY <1>4
  <2> QED
    BY <1>4, <2>4, <2>5, Zenon DEF RoundOf
<1>5. ASSUME bb # <<>>, LeadingType(Head(bb)) # "unknown",
             SetTop([top EXCEPT !.state = "content", !.elemtype = LeadingType(Head(bb))]),
             bb' = Tail(bb), Unfailing, UNCHANGED available
      PROVE  RoundOf(script, r, next)
  <2>1. PICK f : f = Last(stack_rrb)
    OBVIOUS
  <2>2. IsFrame(f)
    BY <1>1, <2>1, OpenShape
  <2>3. PICK e : e = LeadingType(Head(bb))
    OBVIOUS
  <2>4. PICK g : g = Typed(f, "content", e)
    OBVIOUS
  <2>5. stack_rrb' = Replaced(stack_rrb, g)
    BY <1>5, <2>1, <2>3, <2>4, Zenon DEF SetTop, top, Replaced, Typed
  <2>6. g = FrameOf(f.kind, "content", e, f.len, f.got)
    BY <2>2, <2>4, TypedFrame
  <2>7. /\ IsFrame(g) /\ g.kind = f.kind /\ g.state = "content" /\ g.elemtype = e
        /\ g.len = f.len /\ g.got = f.got
    BY <2>6, FrameFields
  <2>8. PICK gs : gs = stack_rrb'
    OBVIOUS
  <2>9. Context(script, r, p, gs) /\ Wanting(gs) /\ Last(gs) = g
    BY <1>0, <2>1, <2>5, <2>7, <2>8, ContextSame
  <2>10. ContentPhase(script, gs, Cat(Tail(bb), wire), r, p, next)
    BY <1>3, <1>5, <2>3, <2>7, <2>9, Zenon DEF ContentPhase, Pending
  <2>11. Phase(script, gs, Cat(bb', wire), r, next)
    BY <1>5, <2>10, Zenon DEF Phase
  <2>12. GoesOn(script, Cat(bb', wire), r, next)
    BY <1>5, <2>8, <2>11 DEF GoesOn
  <2>13. bb' \in Seq(Byte)
    BY <1>3, <1>5
  <2> QED
    BY <1>5, <2>12, <2>13, Zenon DEF RoundOf
<1> QED
  BY <1>2, <1>4, <1>5, Zenon DEF BuildType

LEMMA PendingFacts ==
    ASSUME NEW scr, IsScript(scr), NEW r, NEW p, NEW fs, Pending(scr, r, p, fs)
    PROVE  /\ r \in 1 .. Len(scr) /\ scr[r] \in Seq(Token) /\ IsReply(scr[r])
           /\ p \in 1 .. Len(scr[r]) /\ p + 1 \in 1 .. Len(scr[r]) + 1
           /\ r \in Nat /\ p \in Nat /\ <<r, p>> \in Places
           /\ TokenAt(scr, <<r, p>>) = scr[r][p] /\ scr[r][p] \in Token
           /\ Context(scr, r, p, fs) /\ Wanting(fs) /\ OpenFrames(fs)
           /\ Fits(fs, Outcomes(scr[r])[p], scr[r])
           /\ Succ(scr, <<r, p>>) = Here(scr, r, p + 1) /\ Succ(scr, <<r, p>>) \in Places
           /\ Len(fs) = 1 => p = 1
<1>1. Context(scr, r, p, fs) /\ Wanting(fs) /\ OnScript(scr, <<r, p>>)
  BY Zenon DEF Pending
<1>2. r \in Nat /\ p \in Nat /\ OpenFrames(fs) /\ (Len(fs) = 1 => p = 1)
  BY <1>1, Zenon DEF Context
<1>3. r \in 1 .. Len(scr) /\ p \in 1 .. Len(scr[r])
  BY <1>1 DEF OnScript
<1>4. /\ Len(scr) \in Nat /\ scr[r] \in Seq(Token) /\ IsReply(scr[r]) /\ Len(scr[r]) \in Nat
      /\ scr[r][p] \in Token
  BY <1>3, ScriptShape
<1>5. Fits(fs, Outcomes(scr[r])[p], scr[r])
  <2>1. r <= Len(scr)
    BY <1>3, <1>4
  <2> QED
    BY <1>1, <2>1, Zenon DEF Context
<1>6. Succ(scr, <<r, p>>) = Here(scr, r, p + 1)
  BY <1>1, <1>2, HereNext
<1>7. Here(scr, r, p + 1) \in Places
  BY <1>2, HerePlace
<1>8. TokenAt(scr, <<r, p>>) = scr[r][p] /\ <<r, p>> \in Places
  BY <1>2 DEF TokenAt, Places
<1>9. p + 1 \in 1 .. Len(scr[r]) + 1
  BY <1>3, <1>4
<1> QED
  BY <1>1, <1>2, <1>3, <1>4, <1>5, <1>6, <1>7, <1>8, <1>9, Zenon

LEMMA LeafGoesOn ==
    ASSUME NEW scr, IsScript(scr), NEW r, NEW p, NEW fs, Pending(scr, r, p, fs),
           NEW t, t = TokenAt(scr, <<r, p>>), t.kind # "array",
           NEW value, SetReply(value) \in Renderings(t),
           value.kind = "nullarray" => t.kind = "nullarray",
           NEW s, NEW nx, Written(scr, s, Succ(scr, <<r, p>>), nx), Over(fs, value)
    PROVE  GoesOn(scr, s, r, nx)
<1>1. PICK v : v = SetReply(value)
  OBVIOUS
<1>2. /\ r \in 1 .. Len(scr) /\ scr[r] \in Seq(Token) /\ p \in 1 .. Len(scr[r])
      /\ p + 1 \in 1 .. Len(scr[r]) + 1 /\ t = scr[r][p]
      /\ OpenFrames(fs) /\ Wanting(fs) /\ (Len(fs) = 1 => p = 1)
      /\ Fits(fs, Outcomes(scr[r])[p], scr[r]) /\ Succ(scr, <<r, p>>) = Here(scr, r, p + 1)
  BY PendingFacts
<1>3. Awaits(fs, v, Outcomes(scr[r])[p + 1], scr[r])
  <2>1. PICK ts \in Seq(Token) : ts = scr[r]
    BY <1>2
  <2>2. p \in 1 .. Len(ts) /\ ts[p].kind # "array" /\ v \in Renderings(ts[p])
    BY <1>1, <1>2, <2>1
  <2>3. Fits(fs, Outcomes(ts)[p], ts)
    BY <1>2, <2>1
  <2>4. Awaits(fs, v, Outcomes(ts)[p + 1], ts)
    BY <2>2, <2>3, FitsLeaf
  <2> QED
    BY <2>1, <2>4
<1>4. Len(fs) = 1 /\ value.kind = "nullarray" => scr[r][1].kind = "nullarray"
  BY <1>2
<1>5. PICK q \in 1 .. Len(scr[r]) + 1 : q = p + 1
  BY <1>2
<1>6. Awaits(fs, SetReply(value), Outcomes(scr[r])[q], scr[r]) /\ Written(scr, s, Here(scr, r, q), nx)
  BY <1>1, <1>2, <1>3, <1>5, Zenon
<1> QED
  BY <1>2, <1>4, <1>6, OverGoesOn

(* A frame more. *)
Pushed(fs, g) == Append(fs, g)

LEMMA AbovePushed ==
    ASSUME NEW scr, NEW r, NEW p, NEW fs, Pending(scr, r, p, fs), Sequence(fs), Len(fs) >= 1,
           NEW g, NEW st, st = Pushed(fs, g)
    PROVE  Above(scr, st, r, p) /\ Last(st) = g
<1>0. st = Append(fs, g)
  BY DEF Pushed
<1>1. Sequence(st) /\ Len(st) = Len(fs) + 1
  BY <1>0, AppendedShape
<1>2. Front(st) = fs /\ Last(st) = g
  BY <1>0, FrontAppended
<1>3. Len(st) >= 2
  BY <1>1, LenType
<1> QED
  BY <1>1, <1>2, <1>3, Zenon DEF Above

LEMMA ContentPush ==
    ASSUME bb \in Seq(Byte), wire \in Seq(Byte), next \in Places, NEW scr, IsScript(scr),
           NEW r, NEW p, NEW fs, ContentPhase(scr, fs, Cat(bb, wire), r, p, next),
           Last(fs).elemtype # "integer",
           NEW st, st = Pushed(fs, Frame(Last(fs).elemtype))
    PROVE  Phase(scr, st, Cat(bb, wire), r, next)
<1>0. /\ Pending(scr, r, p, fs) /\ Ahead(scr, Cat(bb, wire), r, p, next)
      /\ Last(fs).elemtype = LeadingType(Leading(TokenAt(scr, <<r, p>>)))
      /\ Last(fs).elemtype # "unknown"
  BY Zenon DEF ContentPhase
<1>1. PICK t \in Token : t = TokenAt(scr, <<r, p>>)
  BY <1>0, PendingFacts
<1>2. PICK e : e = LeadingType(Leading(t)) /\ e = Last(fs).elemtype
  BY <1>0, <1>1
<1>3. Sequence(fs) /\ Len(fs) >= 1
  BY <1>0, PendingFacts, OpenShape
<1>4. PICK g : g = Frame(e)
  OBVIOUS
<1>5. Above(scr, st, r, p) /\ Last(st) = g
  <2>1. st = Pushed(fs, g)
    BY <1>2, <1>4
  <2> QED
    BY <1>0, <1>3, <2>1, AbovePushed
<1>6. e \in {"array", "bulk", "simple", "error"}
  BY <1>0, <1>2, LeadingTypeOf
<1>7. CASE e \in {"array", "bulk"}
  <2>1. LenPhase(scr, st, Cat(bb, wire), r, p, next)
    BY <1>0, <1>1, <1>2, <1>4, <1>5, <1>7, Zenon DEF LenPhase
  <2> QED
    BY <2>1, Zenon DEF Phase
<1>8. CASE e \in {"simple", "error"}
  <2>1. t.kind = e /\ t.kind \in {"simple", "error"}
    BY <1>2, <1>8, LeadingTypeOf
  <2>2. t.val \in Text /\ Heading(t) = t.val /\ Content(t) = <<>>
    BY <2>1, TokenShape DEF Heading, Content
  <2>3. Rest(t) = Line(t.val)
    <3>1. Line(t.val) \in Seq(Byte)
      BY <2>2, TextOfBytes, LineType
    <3>2. Cat(Line(t.val), <<>>) = Line(t.val)
      BY <3>1, BytesSequence, CatEmpty
    <3> QED
      BY <2>2, <3>2, Zenon DEF Rest
  <2>4. IsFrame(g) /\ g.kind = e /\ g.state = "plain" /\ g.got = <<>>
    BY <1>4, <1>8 DEF Frame, IsFrame
  <2>5. Overlaying(<<>>, t.val, t.val)
    <3>1. <<>> \in Seq(Byte \cup {"junk"}) /\ Len(<<>>) = 0
      OBVIOUS
    <3>2. Len(t.val) \in Nat
      BY <2>2, TextElements
    <3>3. Len(<<>>) + Len(t.val) = Len(t.val)
      BY <3>1, <3>2
    <3> QED
      BY <2>2, <3>1, <3>3, Zenon DEF Overlaying
  <2>6. Follows(scr, Cat(bb, wire), Line(t.val), Succ(scr, <<r, p>>), next)
    BY <1>0, <1>1, <2>3, Zenon DEF Ahead
  <2>7. SimplePhase(scr, st, Cat(bb, wire), r, p, next)
    BY <1>1, <1>5, <2>1, <2>4, <2>5, <2>6, Zenon DEF SimplePhase
  <2> QED
    BY <2>7, Zenon DEF Phase
<1> QED
  BY <1>6, <1>7, <1>8

LEMMA ContentRound ==
    ASSUME bb \in Seq(Byte), wire \in Seq(Byte), next \in Places, IsScript(script),
           NEW r, NEW p, ContentPhase(script, stack_rrb, Cat(bb, wire), r, p, next), BuildContent
    PROVE  RoundOf(script, r, next)
<1>0. /\ Pending(script, r, p, stack_rrb) /\ Ahead(script, Cat(bb, wire), r, p, next)
      /\ Last(stack_rrb).elemtype = LeadingType(Leading(TokenAt(script, <<r, p>>)))
  BY Zenon DEF ContentPhase
<1>1. PICK t \in Token : t = TokenAt(script, <<r, p>>)
  BY <1>0, PendingFacts
<1>2. PICK a \in Places : a = Succ(script, <<r, p>>)
  BY <1>0, PendingFacts
<1>3. Follows(script, Cat(bb, wire), Rest(t), a, next)
  BY <1>0, <1>1, <1>2, Zenon DEF Ahead
<1>4. ASSUME top.elemtype = "integer", ~LineKnown, Premature PROVE RoundOf(script, r, next)
  <2>1. bb' = bb /\ stack_rrb' = stack_rrb /\ Stops
    BY <1>4, Zenon DEF Premature
  <2>2. Len(bb) < Len(Heading(t)) + 2
    BY <1>3, <1>4, HeadingAhead
  <2>3. Resting(script, stack_rrb, bb, Cat(bb, wire), r, next)
    BY <1>1, <1>4, <2>2, Zenon DEF Resting, top
  <2> QED
    BY <2>1, <2>3, Zenon DEF RoundOf
<1>5. ASSUME top.elemtype = "integer", LineKnown,
             Over(stack_rrb, [kind |-> "integer", val |-> <<LineInteger>>]),
             ConsumeLine, Unfailing
      PROVE  RoundOf(script, r, next)
  <2>1. t.kind = "integer" /\ t.val \in [1 .. 1 -> Int] /\ t = [kind |-> t.kind, val |-> t.val]
    BY <1>0, <1>1, <1>5, LeadingTypeOf, TokenShape DEF top
  <2>2. PICK n \in Int : n = t.val[1]
    BY <2>1
  <2>3. /\ SubSeq(bb, 1, LineEnd - 1) = Heading(t)
        /\ bb' \in Seq(Byte)
        /\ Follows(script, Cat(bb', wire), Content(t), a, next)
    BY <1>3, <1>5, HeadingAhead DEF ConsumeLine
  <2>4. LineInteger = n
    <3>1. Heading(t) = Decimal(n)
      BY <2>1, <2>2 DEF Heading
    <3> QED
      BY <2>3, <3>1, DecimalRead DEF LineInteger
  <2>5. PICK value : value = [kind |-> "integer", val |-> <<LineInteger>>]
    OBVIOUS
  <2>6. value = t
    <3>1. <<n>> = t.val
      BY <2>1, <2>2
    <3> QED
      BY <2>1, <2>4, <2>5, <3>1
  <2>7. SetReply(value) \in Renderings(t) /\ value.kind # "nullarray"
    BY <2>1, <2>6 DEF SetReply, Renderings, Short, ValueOf
  <2>8. Written(script, Cat(bb', wire), a, next)
    <3>1. Content(t) = <<>>
      BY <2>1, NoContent
    <3> QED
      BY <2>3, <3>1, FollowsNone
  <2>9. GoesOn(script, Cat(bb', wire), r, next)
    <3>1. PICK s : s = Cat(bb', wire)
      OBVIOUS
    <3>2. Written(script, s, Succ(script, <<r, p>>), next) /\ Over(stack_rrb, value)
      BY <1>2, <1>5, <2>5, <2>8, <3>1, Zenon
    <3>3. t.kind # "array"
      BY <2>1
    <3>4. GoesOn(script, s, r, next)
      BY <1>0, <1>1, <2>7, <3>2, <3>3, LeafGoesOn
    <3> QED
      BY <3>1, <3>4
  <2> QED
    BY <1>5, <2>3, <2>9, Zenon DEF RoundOf
<1>6. ASSUME top.elemtype # "integer", stack_rrb' = Append(stack_rrb, Frame(top.elemtype)),
             Unfailing, UNCHANGED <<bb, available>>
      PROVE  RoundOf(script, r, next)
  <2>1. PICK st : st = stack_rrb'
    OBVIOUS
  <2>2. Phase(script, st, Cat(bb, wire), r, next)
    <3>1. st = Pushed(stack_rrb, Frame(Last(stack_rrb).elemtype))
      BY <1>6, <2>1, Zenon DEF top, Pushed
    <3>2. Last(stack_rrb).elemtype # "integer"
      BY <1>6 DEF top
    <3> QED
      BY <3>1, <3>2, ContentPush
  <2>3. bb' = bb /\ available' = available
    BY <1>6
  <2>4. GoesOn(script, Cat(bb', wire), r, next)
    BY <2>1, <2>2, <2>3, Zenon DEF GoesOn
  <2> QED
    BY <1>6, <2>3, <2>4, Zenon DEF RoundOf
<1> QED
  BY <1>4, <1>5, <1>6, Zenon DEF BuildContent

LEMMA AboveReplaced ==
    ASSUME NEW scr, NEW r, NEW p, NEW st, Above(scr, st, r, p),
           NEW g, NEW gs, gs = Replaced(st, g)
    PROVE  Above(scr, gs, r, p) /\ Last(gs) = g /\ Front(gs) = Front(st)
<1>1. Sequence(st) /\ Len(st) >= 2 /\ Pending(scr, r, p, Front(st))
  BY Zenon DEF Above
<1>2. Len(st) >= 1
  BY <1>1, LenType
<1>3. Sequence(gs) /\ Len(gs) = Len(st)
  BY <1>1, <1>2, ReplacedShape
<1>4. Front(gs) = Front(st) /\ Last(gs) = g
  BY <1>1, <1>2, FrontReplaced
<1>5. Len(gs) >= 2
  BY <1>1, <1>3
<1> QED
  BY <1>1, <1>3, <1>4, <1>5, Zenon DEF Above

LEMMA ArrayOpens ==
    ASSUME NEW scr, IsScript(scr), NEW r, NEW p, NEW st, Above(scr, st, r, p),
           NEW t, t = TokenAt(scr, <<r, p>>), t.kind = "array", t.val[1] > 0,
           NEW g, IsFrame(g), g.kind = "array", g.state = "type", g.got = <<>>, g.len = t.val[1],
           NEW gs, gs = Replaced(st, g),
           NEW s, NEW nx, Written(scr, s, Succ(scr, <<r, p>>), nx)
    PROVE  TypePhase(scr, gs, s, r, p + 1, nx)
<1>1. PICK fs : fs = Front(st)
  OBVIOUS
<1>2. Sequence(st) /\ Len(st) >= 2 /\ Pending(scr, r, p, fs)
  BY <1>1, Zenon DEF Above
<1>3. /\ r \in 1 .. Len(scr) /\ scr[r] \in Seq(Token) /\ IsReply(scr[r]) /\ p \in 1 .. Len(scr[r])
      /\ t = scr[r][p] /\ t \in Token /\ r \in Nat /\ p \in Nat
      /\ OpenFrames(fs) /\ Wanting(fs) /\ Context(scr, r, p, fs)
      /\ Fits(fs, Outcomes(scr[r])[p], scr[r])
      /\ Succ(scr, <<r, p>>) = Here(scr, r, p + 1)
  BY <1>2, PendingFacts
<1>4. PICK n \in Nat : n = Len(st) /\ n >= 2
  BY <1>2, LenType
<1>5. Len(fs) = n - 1 /\ Sequence(fs) /\ \A i \in 1 .. n - 1 : fs[i] = st[i]
  BY <1>1, <1>2, <1>4, FrontShape
<1>6. Sequence(gs) /\ Len(gs) = n /\ gs[n] = g /\ \A i \in 1 .. n - 1 : gs[i] = st[i]
  BY <1>2, <1>4, ReplacedShape
<1>7. Len(gs) = Len(fs) + 1 /\ Len(fs) >= 1 /\ \A i \in 1 .. Len(fs) : gs[i] = fs[i]
  BY <1>4, <1>5, <1>6
<1>8. t.val[1] \in Nat
  BY <1>3, TokenShape
<1>9. OpenFrames(gs)
  <2>1. Sequence(g.got) /\ Len(g.got) = 0 /\ g.len \in Nat
    BY <1>8, EmptyShape
  <2>2. Len(g.got) <= g.len
    BY <2>1
  <2>3. g = gs[Len(gs)]
    BY <1>6
  <2>4. OpenFrames(fs) /\ Wanting(fs) /\ Sequence(gs)
    BY <1>3, <1>6
  <2> QED
    BY <1>7, <2>1, <2>2, <2>3, <2>4, OpenAppended
<1>10. Fits(gs, Outcomes(scr[r])[p + 1], scr[r])
  <2>1. PICK ts \in Seq(Token) : ts = scr[r] /\ IsReply(ts)
    BY <1>3
  <2>2. p \in 1 .. Len(ts) /\ ts[p].kind = "array" /\ Fits(fs, Outcomes(ts)[p], ts)
    BY <1>3, <2>1
  <2>3. gs[Len(gs)].got = <<>> /\ gs[Len(gs)].len = ts[p].val[1]
    BY <1>3, <1>6, <2>1
  <2>4. Fits(gs, Outcomes(ts)[p + 1], ts)
    BY <1>5, <1>7, <2>1, <2>2, <2>3, FitsOpen
  <2> QED
    BY <2>1, <2>4
<1>11. Context(scr, r, p + 1, gs)
  <2>1. Len(scr) \in Nat /\ Len(scr[r]) \in Nat
    BY <1>3, ScriptShape
  <2>2. r >= 1 /\ r <= Len(scr) + 1 /\ ~(r > Len(scr)) /\ p + 1 \in Nat /\ p + 1 >= 1
        /\ p + 1 <= Len(scr[r]) + 1
    BY <1>3, <2>1
  <2>3. Len(gs) # 1
    BY <1>4, <1>6
  <2> QED
    BY <1>3, <1>9, <1>10, <2>2, <2>3, Zenon DEF Context
<1>12. Last(gs) = g
  BY <1>6 DEF Last
<1>13. Wanting(gs)
  <2>1. Len(g.got) = 0
    BY EmptyShape
  <2> QED
    BY <1>6, <2>1 DEF Wanting
<1>14. Written(scr, s, Here(scr, r, p + 1), nx)
  BY <1>3
<1> QED
  BY <1>11, <1>12, <1>13, <1>14, Zenon DEF TypePhase

LEMMA ArrayEmpty ==
    ASSUME NEW scr, IsScript(scr), NEW r, NEW p, NEW fs, Pending(scr, r, p, fs),
           NEW t, t = TokenAt(scr, <<r, p>>), t.kind = "array", t.val[1] = 0,
           NEW s, NEW nx, Written(scr, s, Succ(scr, <<r, p>>), nx), Over(fs, Array(<<>>))
    PROVE  GoesOn(scr, s, r, nx)
<1>1. /\ r \in 1 .. Len(scr) /\ scr[r] \in Seq(Token) /\ IsReply(scr[r])
      /\ p \in 1 .. Len(scr[r]) /\ p + 1 \in 1 .. Len(scr[r]) + 1 /\ t = scr[r][p]
      /\ Context(scr, r, p, fs) /\ Wanting(fs) /\ OpenFrames(fs)
      /\ Fits(fs, Outcomes(scr[r])[p], scr[r]) /\ Succ(scr, <<r, p>>) = Here(scr, r, p + 1)
  BY PendingFacts
<1>2. PICK value : value = Array(<<>>)
  OBVIOUS
<1>3. SetReply(value) = value /\ value.kind # "nullarray"
  BY <1>2 DEF SetReply, Array
<1>4. Awaits(fs, Array(<<>>), Outcomes(scr[r])[p + 1], scr[r])
  <2>1. PICK ts \in Seq(Token) : ts = scr[r] /\ IsReply(ts)
    BY <1>1
  <2>2. p \in 1 .. Len(ts) /\ ts[p].kind = "array" /\ ts[p].val[1] = 0
    BY <1>1, <2>1
  <2>3. Fits(fs, Outcomes(ts)[p], ts)
    BY <1>1, <2>1
  <2>4. Sequence(fs) /\ Len(fs) >= 1
    BY <1>1, OpenShape
  <2>5. Awaits(fs, Array(<<>>), Outcomes(ts)[p + 1], ts)
    BY <2>1, <2>2, <2>3, <2>4, FitsOpen
  <2> QED
    BY <2>1, <2>5
<1>5. PICK q \in 1 .. Len(scr[r]) + 1 : q = p + 1
  BY <1>1
<1>6. Awaits(fs, SetReply(value), Outcomes(scr[r])[q], scr[r]) /\ Written(scr, s, Here(scr, r, q), nx)
      /\ Over(fs, value)
  BY <1>1, <1>2, <1>3, <1>4, <1>5
<1> QED
  BY <1>1, <1>3, <1>6, OverGoesOn

LEMMA BulkOpens ==
    ASSUME NEW scr, IsScript(scr), NEW r, NEW p, NEW st, Above(scr, st, r, p),
           NEW t \in Token, t = TokenAt(scr, <<r, p>>), t.kind \in {"bulk", "badbulk"},
           NEW g, IsFrame(g), g.kind = "bulk", g.state = "plain", g.got = <<>>,
           g.len = BulkLength(t), NEW gs, gs = Replaced(st, g), NEW s \in Seq(Byte), NEW nx,
           Follows(scr, s, Content(t), Succ(scr, <<r, p>>), nx)
    PROVE  BulkPhase(scr, gs, s, r, p, nx)
<1>1. Above(scr, gs, r, p) /\ Last(gs) = g
  BY AboveReplaced
<1>2. t.val \in Seq(Byte) /\ (t.kind = "badbulk" => t.val # <<>>)
  BY TokenShape
<1>3. g.len \in Nat
  <2>1. t.kind = "badbulk" => Len(t.val) > 0
    BY <1>2
  <2> QED
    BY <1>2, <2>1 DEF BulkLength
<1>4. g.got \in Seq(Byte) /\ Len(g.got) < g.len + 2
  BY <1>3
<1>5. Content(t) = Line(t.val)
  BY DEF Content
<1>6. Cat(g.got, s) = s
  BY BytesSequence, CatEmpty
<1> QED
  BY <1>1, <1>4, <1>5, <1>6, Zenon DEF BulkPhase

(* The number in the heading of a token for an array or a bulk string. *)
HeadingNumber(t) ==
    IF t.kind = "array" THEN t.val[1]
    ELSE IF t.kind \in {"null", "nullarray"} THEN -1 ELSE BulkLength(t)

LEMMA HeadingRead ==
    ASSUME NEW t \in Token, t.kind \in {"array", "nullarray", "bulk", "badbulk", "null"}
    PROVE  /\ NumberOf(Heading(t)) = HeadingNumber(t)
           /\ t.kind = "array" => HeadingNumber(t) = t.val[1] /\ t.val[1] \in Nat
           /\ t.kind = "nullarray" => HeadingNumber(t) = -1
           /\ t.kind = "null" => HeadingNumber(t) = -1
           /\ t.kind \in {"bulk", "badbulk"} =>
                  HeadingNumber(t) = BulkLength(t) /\ BulkLength(t) \in Nat
<1>1. CASE t.kind = "array"
  <2>1. t.val[1] \in Nat
    BY <1>1, TokenShape
  <2>2. Heading(t) = Decimal(t.val[1])
    BY <1>1 DEF Heading
  <2> QED
    BY <1>1, <2>1, <2>2, DecimalRead DEF HeadingNumber
<1>2. CASE t.kind \in {"null", "nullarray"}
  <2>1. Heading(t) = Decimal(-1)
    BY <1>2 DEF Heading
  <2>2. NumberOf(Decimal(-1)) = -1
    BY DecimalRead
  <2> QED
    BY <1>2, <2>1, <2>2 DEF HeadingNumber
<1>3. CASE t.kind \in {"bulk", "badbulk"}
  <2>1. BulkLength(t) \in Nat
    <3>1. t.val \in Seq(Byte) /\ (t.kind = "badbulk" => t.val # <<>>)
      BY <1>3, TokenShape
    <3>2. t.kind = "badbulk" => Len(t.val) > 0
      BY <3>1
    <3> QED
      BY <1>3, <3>1, <3>2 DEF BulkLength
  <2>2. Heading(t) = Decimal(BulkLength(t))
    BY <1>3 DEF Heading, BulkLength
  <2>3. NumberOf(Decimal(BulkLength(t))) = BulkLength(t)
    BY <2>1, DecimalRead
  <2> QED
    BY <1>3, <2>1, <2>2, <2>3 DEF HeadingNumber
<1> QED
  BY <1>1, <1>2, <1>3

LEMMA LenRound ==
    ASSUME bb \in Seq(Byte), wire \in Seq(Byte), next \in Places, IsScript(script),
           NEW r, NEW p, LenPhase(script, stack_rrb, Cat(bb, wire), r, p, next), BuildLen
    PROVE  RoundOf(script, r, next)
<1>0. /\ Above(script, stack_rrb, r, p) /\ Ahead(script, Cat(bb, wire), r, p, next)
      /\ Last(stack_rrb) = Frame(LeadingType(Leading(TokenAt(script, <<r, p>>))))
      /\ LeadingType(Leading(TokenAt(script, <<r, p>>))) \in {"array", "bulk"}
  BY Zenon DEF LenPhase
<1>1. PICK fs : fs = Front(stack_rrb) /\ Pending(script, r, p, fs)
  BY <1>0, Zenon DEF Above
<1>2. PICK t \in Token : t = TokenAt(script, <<r, p>>)
  BY <1>1, PendingFacts
<1>3. PICK e : e = LeadingType(Leading(t)) /\ e \in {"array", "bulk"} /\ top = Frame(e)
  BY <1>0, <1>2, Zenon DEF top
<1>4. /\ e = "array" => t.kind \in {"array", "nullarray"}
      /\ e = "bulk" => t.kind \in {"bulk", "badbulk", "null"}
  BY <1>3, LeadingTypeOf
<1>5. /\ IsFrame(top) /\ top.kind = e /\ top.state = "len" /\ top.got = <<>>
  BY <1>3 DEF Frame, IsFrame
<1>6. PICK a \in Places : a = Succ(script, <<r, p>>)
  BY <1>1, PendingFacts
<1>7. Follows(script, Cat(bb, wire), Rest(t), a, next)
  BY <1>0, <1>2, <1>6, Zenon DEF Ahead
<1>8. ASSUME ~LineKnown, Premature PROVE RoundOf(script, r, next)
  <2>1. bb' = bb /\ stack_rrb' = stack_rrb /\ Stops
    BY <1>8, Zenon DEF Premature
  <2>2. Len(bb) < Len(Heading(t)) + 2
    BY <1>7, <1>8, HeadingAhead
  <2>3. Resting(script, stack_rrb, bb, Cat(bb, wire), r, next)
    BY <1>2, <2>2, Zenon DEF Resting
  <2> QED
    BY <2>1, <2>3, Zenon DEF RoundOf
<1>9. ASSUME LineKnown, ConsumeLine
      PROVE  /\ LineInteger = HeadingNumber(t) /\ bb' \in Seq(Byte)
             /\ Follows(script, Cat(bb', wire), Content(t), a, next)
  <2>1. /\ SubSeq(bb, 1, LineEnd - 1) = Heading(t)
        /\ bb' \in Seq(Byte)
        /\ Follows(script, Cat(bb', wire), Content(t), a, next)
    BY <1>7, <1>9, HeadingAhead DEF ConsumeLine
  <2>2. t.kind \in {"array", "nullarray", "bulk", "badbulk", "null"}
    BY <1>3, <1>4
  <2> QED
    BY <2>1, <2>2, HeadingRead DEF LineInteger
<1>10. ASSUME LineKnown, ConsumeLine, e = "array", LineInteger > 0, UNCHANGED available,
              SetTop([top EXCEPT !.len = LineInteger, !.state = "type"])
       PROVE  GoesOn(script, Cat(bb', wire), r, next)
  <2>1. t.kind = "array" /\ LineInteger = t.val[1]
    BY <1>4, <1>9, <1>10, HeadingRead
  <2>2. PICK g : g = Sized(top, LineInteger, "type")
    OBVIOUS
  <2>3. PICK gs : gs = stack_rrb'
    OBVIOUS
  <2>4. gs = Replaced(stack_rrb, g)
    BY <1>10, <2>2, <2>3, Zenon DEF SetTop, Sized, Replaced
  <2>5. g = FrameOf(top.kind, "type", top.elemtype, LineInteger, top.got)
    BY <1>5, <2>2, SizedFrame
  <2>6. IsFrame(g) /\ g.kind = "array" /\ g.state = "type" /\ g.got = <<>> /\ g.len = t.val[1]
    BY <1>5, <1>10, <2>1, <2>5, FrameFields
  <2>7. PICK s : s = Cat(bb', wire)
    OBVIOUS
  <2>8. Written(script, s, Succ(script, <<r, p>>), next)
    <3>1. Content(t) = <<>>
      BY <2>1, NoContent
    <3> QED
      BY <1>6, <1>9, <1>10, <2>7, <3>1, FollowsNone
  <2>9. t.val[1] > 0
    BY <1>10, <2>1
  <2>10. TypePhase(script, gs, s, r, p + 1, next)
    BY <1>0, <1>2, <2>1, <2>4, <2>6, <2>8, <2>9, ArrayOpens
  <2>11. Phase(script, gs, s, r, next)
    BY <2>10, Zenon DEF Phase
  <2>12. available' = available
    BY <1>10
  <2> QED
    BY <2>3, <2>7, <2>11, <2>12, Zenon DEF GoesOn
<1>11. ASSUME LineKnown, ConsumeLine, e = "bulk", LineInteger >= 0, UNCHANGED available,
              SetTop([top EXCEPT !.len = LineInteger, !.state = "plain"])
       PROVE  GoesOn(script, Cat(bb', wire), r, next)
  <2>1. t.kind \in {"bulk", "badbulk"} /\ LineInteger = BulkLength(t)
    BY <1>4, <1>9, <1>11, HeadingRead
  <2>2. PICK g : g = Sized(top, LineInteger, "plain")
    OBVIOUS
  <2>3. PICK gs : gs = stack_rrb'
    OBVIOUS
  <2>4. gs = Replaced(stack_rrb, g)
    BY <1>11, <2>2, <2>3, Zenon DEF SetTop, Sized, Replaced
  <2>5. g = FrameOf(top.kind, "plain", top.elemtype, LineInteger, top.got)
    BY <1>5, <2>2, SizedFrame
  <2>6. /\ IsFrame(g) /\ g.kind = "bulk" /\ g.state = "plain" /\ g.got = <<>>
        /\ g.len = BulkLength(t)
    BY <1>5, <1>11, <2>1, <2>5, FrameFields
  <2>7. PICK s \in Seq(Byte) : s = Cat(bb', wire)
    BY <1>9, <1>11, CatBytes
  <2>8. Follows(script, s, Content(t), Succ(script, <<r, p>>), next)
    BY <1>6, <1>9, <1>11, <2>7
  <2>9. BulkPhase(script, gs, s, r, p, next)
    BY <1>0, <1>2, <2>1, <2>4, <2>6, <2>8, BulkOpens
  <2>10. Phase(script, gs, s, r, next)
    BY <2>9, Zenon DEF Phase
  <2>11. available' = available
    BY <1>11
  <2> QED
    BY <2>3, <2>7, <2>10, <2>11, Zenon DEF GoesOn
<1>12. ASSUME LineKnown, ConsumeLine, t.kind = "array", LineInteger <= 0, Over(fs, Array(<<>>))
       PROVE  GoesOn(script, Cat(bb', wire), r, next)
  <2>1. LineInteger = t.val[1] /\ t.val[1] \in Nat
    BY <1>9, <1>12, HeadingRead
  <2>2. t.val[1] = 0
    BY <1>12, <2>1
  <2>3. PICK s : s = Cat(bb', wire)
    OBVIOUS
  <2>4. Written(script, s, Succ(script, <<r, p>>), next)
    <3>1. Content(t) = <<>>
      BY <1>12, NoContent
    <3> QED
      BY <1>6, <1>9, <1>12, <2>3, <3>1, FollowsNone
  <2>5. GoesOn(script, s, r, next)
    BY <1>1, <1>2, <1>12, <2>2, <2>4, ArrayEmpty
  <2> QED
    BY <2>3, <2>5
<1>13. ASSUME LineKnown, ConsumeLine, NEW value, t.kind \in {"null", "nullarray"},
              value.kind = t.kind, SetReply(value) = NullReply, Over(fs, value)
       PROVE  GoesOn(script, Cat(bb', wire), r, next)
  <2>1. SetReply(value) \in Renderings(t)
    <3>1. ValueOf(t) = NullReply
      BY <1>13, TokenShape DEF ValueOf, NullReply
    <3>2. Short(t)
      BY <1>13 DEF Short
    <3> QED
      BY <1>13, <3>1, <3>2 DEF Renderings
  <2>2. t.kind # "array" /\ (value.kind = "nullarray" => t.kind = "nullarray")
    BY <1>13
  <2>3. PICK s : s = Cat(bb', wire)
    OBVIOUS
  <2>4. Written(script, s, Succ(script, <<r, p>>), next)
    <3>1. Content(t) = <<>>
      BY <1>13, NoContent
    <3> QED
      BY <1>6, <1>9, <1>13, <2>3, <3>1, FollowsNone
  <2>5. GoesOn(script, s, r, next)
    BY <1>1, <1>2, <1>13, <2>1, <2>2, <2>4, LeafGoesOn
  <2> QED
    BY <2>3, <2>5
<1>14. ASSUME LineKnown, ConsumeLine, Unfailing PROVE RoundOf(script, r, next)
  <2> DEFINE more == IF top.kind = "array" THEN LineInteger > 0 ELSE LineInteger >= 0
             value == IF top.kind = "bulk" THEN NullReply
                      ELSE IF LineInteger < 0 THEN [kind |-> "nullarray", val |-> <<>>]
                      ELSE Array(<<>>)
  <2>1. \/ /\ more /\ UNCHANGED available
           /\ SetTop([top EXCEPT !.len = LineInteger,
                        !.state = IF top.kind = "array" THEN "type" ELSE "plain"])
        \/ ~more /\ Over(fs, value)
    BY <1>1, <1>14, Zenon DEF BuildLen
  <2>2. LineInteger = HeadingNumber(t) /\ HeadingNumber(t) \in Int
    BY <1>3, <1>4, <1>9, <1>14, HeadingRead
  <2>3. GoesOn(script, Cat(bb', wire), r, next)
    <3>1. CASE e = "array" /\ more
      <4>1. LineInteger > 0
        BY <1>5, <3>1
      <4>2. UNCHANGED available /\ SetTop([top EXCEPT !.len = LineInteger, !.state = "type"])
        BY <1>5, <2>1, <3>1
      <4> HIDE DEF more, value
      <4> QED
        BY <1>10, <1>14, <3>1, <4>1, <4>2
    <3>2. CASE e = "bulk" /\ more
      <4>1. LineInteger >= 0
        BY <1>5, <3>2
      <4>2. UNCHANGED available /\ SetTop([top EXCEPT !.len = LineInteger, !.state = "plain"])
        BY <1>5, <2>1, <3>2
      <4> HIDE DEF more, value
      <4> QED
        BY <1>11, <1>14, <3>2, <4>1, <4>2
    <3>3. CASE e = "array" /\ ~more
      <4>1. ~(LineInteger > 0)
        BY <1>5, <3>3
      <4>2. Over(fs, value)
        BY <2>1, <3>3
      <4>3. CASE t.kind = "array"
        <5>1. LineInteger = 0
          BY <2>2, <4>1, <4>3, HeadingRead
        <5>2. value = Array(<<>>)
          BY <1>5, <3>3, <5>1
        <5> HIDE DEF more, value
        <5>3. LineInteger <= 0 /\ Over(fs, Array(<<>>))
          BY <4>2, <5>1, <5>2
        <5> QED
          BY <1>12, <1>14, <4>3, <5>3
      <4>4. CASE t.kind = "nullarray"
        <5>1. LineInteger < 0
          BY <2>2, <4>4, HeadingRead
        <5>2. value = [kind |-> "nullarray", val |-> <<>>]
          BY <1>5, <3>3, <5>1
        <5> HIDE DEF more, value
        <5>3. value.kind = "nullarray" /\ SetReply(value) = NullReply
          BY <5>2 DEF SetReply
        <5> QED
          BY <1>13, <1>14, <4>2, <4>4, <5>3
      <4> QED
        BY <1>4, <3>3, <4>3, <4>4
    <3>4. CASE e = "bulk" /\ ~more
      <4>1. ~(LineInteger >= 0)
        BY <1>5, <3>4
      <4>2. Over(fs, value)
        BY <2>1, <3>4
      <4>3. t.kind = "null"
        BY <1>4, <2>2, <3>4, <4>1, HeadingRead
      <4>4. value = NullReply
        BY <1>5, <3>4
      <4> HIDE DEF more, value
      <4>5. value.kind = "null" /\ SetReply(value) = NullReply
        BY <4>4 DEF SetReply, NullReply
      <4> QED
        BY <1>13, <1>14, <4>2, <4>3, <4>5
    <3> QED
      BY <1>3, <3>1, <3>2, <3>3, <3>4
  <2>4. bb' \in Seq(Byte)
    BY <1>9, <1>14
  <2> HIDE DEF more, value
  <2> QED
    BY <1>14, <2>3, <2>4, Zenon DEF RoundOf
<1> QED
  BY <1>8, <1>14, Zenon DEF BuildLen

LEMMA OverRound ==
    ASSUME bb \in Seq(Byte), wire \in Seq(Byte), next \in Places, IsScript(script),
           NEW r, NEW p, OverPhase(script, stack_rrb, Cat(bb, wire), r, p, next), BuildOver
    PROVE  RoundOf(script, r, next)
<1>1. /\ Context(script, r, p, stack_rrb) /\ r <= Len(script)
      /\ Len(stack_rrb) >= 2 /\ Len(Last(stack_rrb).got) = Last(stack_rrb).len
      /\ Written(script, Cat(bb, wire), Here(script, r, p), next)
  BY Zenon DEF OverPhase
<1>2. /\ OpenFrames(stack_rrb) /\ r \in Nat /\ r >= 1 /\ p \in Nat /\ p >= 1
      /\ p <= Len(script[r]) + 1 /\ Fits(stack_rrb, Outcomes(script[r])[p], script[r])
  BY <1>1, Zenon DEF Context
<1>3. r \in 1 .. Len(script)
  BY <1>1, <1>2 DEF IsScript
<1>4. PICK ts \in Seq(Token) : ts = script[r] /\ IsReply(ts) /\ Len(ts) \in Nat
  BY <1>3, ScriptShape
<1>5. p \in 1 .. Len(ts) + 1
  BY <1>2, <1>4
<1>6. PICK st : st = stack_rrb /\ Sequence(st) /\ Len(st) \in Nat
  BY <1>2, OpenShape
<1>7. PICK fs : fs = Front(st)
  OBVIOUS
<1>8. OpenFrames(fs) /\ Wanting(fs) /\ Len(fs) = Len(st) - 1
  BY <1>1, <1>2, <1>6, <1>7, OpenFront
<1>9. \A i \in 1 .. Len(st) - 1 : fs[i] = st[i]
  BY <1>1, <1>6, <1>7, FrontShape
<1>10. Last(st) = st[Len(st)]
  BY <1>2, <1>6, OpenShape
<1>11. Awaits(fs, Array(top.got), Outcomes(ts)[p], ts)
  <2>1. Len(st[Len(st)].got) = st[Len(st)].len
    BY <1>1, <1>6, <1>10
  <2>2. OpenFrames(st) /\ Len(st) >= 2 /\ Fits(st, Outcomes(ts)[p], ts)
    BY <1>1, <1>2, <1>4, <1>6
  <2>3. Awaits(fs, Array(st[Len(st)].got), Outcomes(ts)[p], ts)
    BY <1>4, <1>5, <1>8, <1>9, <2>1, <2>2, FitsOver
  <2> QED
    BY <1>6, <1>10, <2>3, Zenon DEF top
<1>12. PICK value : value = Array(top.got)
  OBVIOUS
<1>13. SetReply(value) = value /\ value.kind # "nullarray"
  BY <1>12 DEF SetReply, Array
<1>14. Over(fs, value) /\ bb' = bb /\ Unfailing
  BY <1>6, <1>7, <1>12 DEF BuildOver
<1>15. PICK s : s = Cat(bb, wire)
  OBVIOUS
<1>16. /\ Awaits(fs, SetReply(value), Outcomes(script[r])[p], script[r])
       /\ Written(script, s, Here(script, r, p), next)
  BY <1>1, <1>4, <1>11, <1>12, <1>13, <1>15
<1>17. GoesOn(script, s, r, next)
  BY <1>3, <1>4, <1>5, <1>8, <1>13, <1>14, <1>16, OverGoesOn
<1> QED
  BY <1>14, <1>15, <1>17, Zenon DEF RoundOf

(* A bulk string of which everything there is has been taken. *)
LEMMA BulkGrows ==
    ASSUME bb \in Seq(Byte), wire \in Seq(Byte), NEW scr, NEW r, NEW p, NEW nx, NEW st,
           BulkPhase(scr, st, Cat(bb, wire), r, p, nx),
           Len(Last(st).got) + Len(bb) < Last(st).len + 2, Last(st).len \in Nat,
           NEW gs, gs = Replaced(st, Filled(Last(st), Cat(Last(st).got, bb)))
    PROVE  BulkPhase(scr, gs, Cat(<<>>, wire), r, p, nx)
<1>1. PICK f : f = Last(st)
  OBVIOUS
<1>2. /\ Above(scr, st, r, p) /\ TokenAt(scr, <<r, p>>).kind \in {"bulk", "badbulk"}
      /\ IsFrame(f) /\ f.kind = "bulk" /\ f.state = "plain"
      /\ f.len = BulkLength(TokenAt(scr, <<r, p>>))
      /\ f.got \in Seq(Byte)
      /\ Follows(scr, Cat(f.got, Cat(bb, wire)), Line(TokenAt(scr, <<r, p>>).val),
                 Succ(scr, <<r, p>>), nx)
  BY <1>1, Zenon DEF BulkPhase
<1>3. PICK l \in Seq(Byte) : l = Cat(f.got, bb) /\ Len(l) = Len(f.got) + Len(bb)
  BY <1>2, CatBytes, BytesSequence, CatShape
<1>4. PICK g : g = Filled(f, l)
  OBVIOUS
<1>5. g = FrameOf(f.kind, f.state, f.elemtype, f.len, l)
  BY <1>2, <1>4, FilledFrame
<1>6. IsFrame(g) /\ g.kind = "bulk" /\ g.state = "plain" /\ g.len = f.len /\ g.got = l
  BY <1>2, <1>5, FrameFields
<1>7. gs = Replaced(st, g)
  BY <1>1, <1>3, <1>4
<1>8. Above(scr, gs, r, p) /\ Last(gs) = g
  BY <1>2, <1>7, AboveReplaced
<1>9. Len(g.got) < g.len + 2
  BY <1>1, <1>3, <1>6
<1>10. Cat(l, Cat(<<>>, wire)) = Cat(f.got, Cat(bb, wire))
  <2>1. Cat(<<>>, wire) = wire
    BY BytesSequence, CatEmpty
  <2>2. Cat(Cat(f.got, bb), wire) = Cat(f.got, Cat(bb, wire))
    BY <1>2, BytesSequence, CatAssoc
  <2> QED
    BY <1>3, <2>1, <2>2, Zenon
<1> QED
  BY <1>2, <1>6, <1>8, <1>9, <1>10, Zenon DEF BulkPhase

(* The end of a bulk string is there: the "\r\n" where its length says, unless it is
   longer than it says. *)
LEMMA BulkEnds ==
    ASSUME NEW val \in Seq(Byte)
    PROVE  /\ SubSeq(SubSeq(Line(val), 1, Len(val) + 2), Len(val) + 1, Len(val) + 2)
                 = <<"CR", "LF">>
           /\ SubSeq(SubSeq(Line(val), 1, Len(val) + 2), 1, Len(val)) = val
           /\ Len(val) >= 1 =>
                /\ SubSeq(SubSeq(Line(val), 1, Len(val) + 1), Len(val), Len(val) + 1)
                      # <<"CR", "LF">>
                /\ SubSeq(Line(val), 1, Len(val) + 1) \in Seq(Byte)
                /\ Len(SubSeq(Line(val), 1, Len(val) + 1)) = Len(val) + 1
<1>1. PICK x \in Seq(Byte) : x = Line(val)
  BY LineType
<1>2. /\ Len(x) = Len(val) + 2 /\ \A i \in 1 .. Len(val) : x[i] = val[i]
      /\ x[Len(val) + 1] = "CR" /\ x[Len(val) + 2] = "LF"
  BY <1>1, LineElements
<1>3. PICK n \in Nat : n = Len(val)
  OBVIOUS
<1>4. SubSeq(x, 1, n + 2) = x
  BY <1>2, <1>3
<1>5. SubSeq(x, n + 1, n + 2) = <<"CR", "LF">>
  <2>1. PICK c : c = SubSeq(x, n + 1, n + 2)
    OBVIOUS
  <2>2. c \in Seq(Byte) /\ Len(c) = 2 /\ c[1] = "CR" /\ c[2] = "LF"
    BY <1>2, <1>3, <2>1
  <2>3. PICK d \in Seq(Byte) : d = <<"CR", "LF">> /\ Len(d) = 2 /\ d[1] = "CR" /\ d[2] = "LF"
    BY CRLF
  <2>4. \A i \in 1 .. Len(c) : c[i] = d[i]
    BY <2>2, <2>3
  <2>5. c = d
    BY <2>2, <2>3, <2>4, BytesSequence, SameSequence
  <2> QED
    BY <2>1, <2>3, <2>5
<1>6. SubSeq(x, 1, n) = val
  BY <1>1, <1>3, LineParts
<1>7. ASSUME n >= 1
      PROVE  /\ SubSeq(SubSeq(x, 1, n + 1), n, n + 1) # <<"CR", "LF">>
             /\ SubSeq(x, 1, n + 1) \in Seq(Byte) /\ Len(SubSeq(x, 1, n + 1)) = n + 1
  <2>1. PICK y : y = SubSeq(x, 1, n + 1)
    OBVIOUS
  <2>2. y \in Seq(Byte) /\ Len(y) = n + 1 /\ y[n + 1] = "CR"
    BY <1>2, <1>3, <2>1
  <2>3. PICK c : c = SubSeq(y, n, n + 1)
    OBVIOUS
  <2>4. c[2] = "CR"
    BY <1>7, <2>2, <2>3
  <2>5. <<"CR", "LF">>[2] # "CR"
    OBVIOUS
  <2>6. c # <<"CR", "LF">>
    BY <2>4, <2>5, Zenon
  <2> QED
    BY <2>1, <2>2, <2>3, <2>6
<1> QED
  BY <1>1, <1>3, <1>4, <1>5, <1>6, <1>7

Terminated(x, len) == SubSeq(x, len + 1, len + 2) = <<"CR", "LF">>

LEMMA LengthPlusOne ==
    ASSUME NEW len \in Nat, NEW k, len + 1 = k
    PROVE  k + 1 = len + 2 /\ k >= 1
OBVIOUS

LEMMA LengthPlusTwo ==
    ASSUME NEW len \in Nat, NEW k \in Nat, len <= k
    PROVE  len + 2 <= k + 2 /\ len + 2 \in Nat
OBVIOUS

LEMMA BulkGood ==
    ASSUME NEW val \in Seq(Byte)
    PROVE  /\ Terminated(Taken(Line(val), Len(val) + 2), Len(val))
           /\ Taken(Taken(Line(val), Len(val) + 2), Len(val)) = val
BY BulkEnds, Zenon DEF Terminated, Taken

LEMMA BulkBad ==
    ASSUME NEW val \in Seq(Byte), NEW len \in Nat, len + 1 = Len(val)
    PROVE  /\ ~Terminated(Taken(Line(val), len + 2), len)
           /\ Taken(Line(val), len + 2) \in Seq(Byte)
           /\ Len(Taken(Line(val), len + 2)) = len + 2
<1>1. Len(val) + 1 = len + 2 /\ Len(val) >= 1
  BY Zenon, LengthPlusOne
<1>2. /\ SubSeq(SubSeq(Line(val), 1, Len(val) + 1), Len(val), Len(val) + 1) # <<"CR", "LF">>
      /\ SubSeq(Line(val), 1, Len(val) + 1) \in Seq(Byte)
      /\ Len(SubSeq(Line(val), 1, Len(val) + 1)) = Len(val) + 1
  BY <1>1, BulkEnds, Zenon
<1> QED
  BY <1>1, <1>2, Zenon DEF Terminated, Taken

LEMMA CatFront ==
    ASSUME NEW a \in Seq(Byte), NEW b \in Seq(Byte), NEW x \in Seq(Byte), NEW t \in Seq(Byte),
           Cat(a, b) = Cat(x, t), NEW n \in Nat, n <= Len(a), n <= Len(x)
    PROVE  Taken(a, n) = Taken(x, n)
<1>1. a \o b = x \o t
  BY Zenon DEF Cat
<1>2. SubSeq(a, 1, n) = SubSeq(x, 1, n)
  BY <1>1, OverlapFront
<1> QED
  BY <1>2, Zenon DEF Taken

LEMMA CatWhole ==
    ASSUME NEW a \in Seq(Byte), NEW b \in Seq(Byte), NEW x \in Seq(Byte), NEW t \in Seq(Byte),
           Cat(a, b) = Cat(x, t), NEW n \in Nat, n = Len(x), n <= Len(a)
    PROVE  Cat(After(a, n), b) = t
<1>1. a \o b = x \o t /\ Len(x) <= Len(a)
  BY Zenon DEF Cat
<1>2. After(a, Len(x)) \o b = t
  BY <1>1, OverlapWhole
<1> QED
  BY <1>2, Zenon DEF Cat

LEMMA CatTaken ==
    ASSUME NEW a \in Seq(Byte), NEW b \in Seq(Byte), NEW n \in Nat, n <= Len(b),
           NEW m, m = Len(a) + n
    PROVE  Taken(Cat(a, b), m) = Cat(a, Taken(b, n)) /\ After(Cat(a, b), m) = After(b, n)
<1>1. /\ SubSeq(a \o b, 1, Len(a) + n) = a \o SubSeq(b, 1, n)
      /\ After(a \o b, Len(a) + n) = After(b, n)
  BY TakeConcat
<1> QED
  BY <1>1, Zenon DEF Cat, Taken

(* A bulk string is taken with the "\r\n" behind it, however it comes. *)
LEMMA BulkCut ==
    ASSUME bb \in Seq(Byte), wire \in Seq(Byte), NEW got \in Seq(Byte), NEW val \in Seq(Byte),
           NEW u \in Seq(Byte), Cat(got, Cat(bb, wire)) = Cat(Line(val), u),
           NEW w \in Nat, w <= Len(bb), NEW m \in Nat, m = Len(got) + w, m <= Len(val) + 2
    PROVE  /\ Cat(got, Taken(bb, w)) = Taken(Line(val), m)
           /\ m = Len(val) + 2 => Cat(After(bb, w), wire) = u
<1>1. PICK y \in Seq(Byte) : y = Cat(got, bb) /\ Len(y) = Len(got) + Len(bb)
  BY CatBytes, BytesSequence, CatShape
<1>2. PICK x \in Seq(Byte) : x = Line(val) /\ Len(x) = Len(val) + 2
  BY LineType
<1>3. Cat(y, wire) = Cat(x, u)
  <2>1. Cat(Cat(got, bb), wire) = Cat(got, Cat(bb, wire))
    BY BytesSequence, CatAssoc
  <2> QED
    BY <1>1, <1>2, <2>1, Zenon
<1>5. m <= Len(y) /\ m <= Len(x)
  BY <1>1, <1>2
<1>6. Taken(y, m) = Taken(x, m)
  BY <1>3, <1>5, CatFront
<1>8. Taken(y, m) = Cat(got, Taken(bb, w)) /\ After(y, m) = After(bb, w)
  <2>1. Taken(Cat(got, bb), m) = Cat(got, Taken(bb, w)) /\ After(Cat(got, bb), m) = After(bb, w)
    BY CatTaken
  <2> QED
    BY <1>1, <2>1, Zenon
<1>9. ASSUME m = Len(x) PROVE Cat(After(y, m), wire) = u
  BY <1>3, <1>5, <1>9, CatWhole
<1> QED
  BY <1>2, <1>6, <1>8, <1>9, Zenon

LEMMA BulkLengthOf ==
    ASSUME NEW t \in Token, t.kind \in {"bulk", "badbulk"}
    PROVE  /\ t.val \in Seq(Byte) /\ BulkLength(t) \in Nat /\ BulkLength(t) <= Len(t.val)
           /\ t.kind = "bulk" => BulkLength(t) = Len(t.val)
           /\ t.kind = "badbulk" => BulkLength(t) + 1 = Len(t.val) /\ Len(t.val) >= 1
<1>1. t.val \in Seq(Byte) /\ (t.kind = "badbulk" => t.val # <<>>)
  BY TokenShape
<1>2. t.kind = "badbulk" => Len(t.val) > 0
  BY <1>1
<1>3. Len(t.val) \in Nat
  BY <1>1
<1> QED
  BY <1>1, <1>2, <1>3 DEF BulkLength

(* What has been taken of a bulk string once its length is reached. *)
LEMMA BulkTaken ==
    ASSUME bb \in Seq(Byte), wire \in Seq(Byte), NEW t \in Token, t.kind \in {"bulk", "badbulk"},
           NEW got \in Seq(Byte), NEW len, len = BulkLength(t),
           NEW scr, NEW a, NEW nx, Follows(scr, Cat(got, Cat(bb, wire)), Line(t.val), a, nx),
           NEW w \in Nat, Len(got) + w = len + 2, w <= Len(bb),
           NEW x, x = Cat(got, Taken(bb, w))
    PROVE  /\ t.kind = "bulk" => /\ Terminated(x, len) /\ Taken(x, len) = t.val
                                 /\ Written(scr, Cat(After(bb, w), wire), a, nx)
           /\ t.kind = "badbulk" => ~Terminated(x, len) /\ x \in Seq(Byte) /\ Len(x) = len + 2
<1>1. PICK u \in Seq(Byte) :
          Cat(got, Cat(bb, wire)) = Cat(Line(t.val), u) /\ Written(scr, u, a, nx)
  BY Zenon DEF Follows
<1>2. /\ t.val \in Seq(Byte) /\ len \in Nat /\ len <= Len(t.val)
      /\ t.kind = "bulk" => len = Len(t.val)
      /\ t.kind = "badbulk" => len + 1 = Len(t.val)
  BY BulkLengthOf, Zenon
<1>3. PICK val \in Seq(Byte) : val = t.val
  BY <1>2
<1>4. PICK k \in Nat : k = Len(val)
  OBVIOUS
<1>5. PICK m \in Nat : m = len + 2 /\ m <= Len(val) + 2
  <2>1. len \in Nat /\ len <= k
    BY <1>2, <1>3, <1>4, Zenon
  <2>2. len + 2 <= k + 2 /\ len + 2 \in Nat
    BY <2>1, LengthPlusTwo, Zenon
  <2> QED
    BY <1>4, <2>2, Zenon
<1>6. /\ x = Taken(Line(val), m)
      /\ m = Len(val) + 2 => Cat(After(bb, w), wire) = u
  <2>1. m = Len(got) + w /\ Cat(got, Cat(bb, wire)) = Cat(Line(val), u)
    BY <1>1, <1>3, <1>5, Zenon
  <2>2. /\ Cat(got, Taken(bb, w)) = Taken(Line(val), m)
        /\ m = Len(val) + 2 => Cat(After(bb, w), wire) = u
    BY <1>5, <2>1, BulkCut
  <2> QED
    BY <2>2, Zenon
<1>12. ASSUME t.kind = "bulk"
       PROVE  /\ Terminated(x, len) /\ Taken(x, len) = t.val
              /\ Written(scr, Cat(After(bb, w), wire), a, nx)
  <2>1. len = Len(val) /\ m = Len(val) + 2
    BY <1>2, <1>3, <1>5, <1>12, Zenon
  <2>2. Terminated(x, len) /\ Taken(x, len) = val
    BY <1>6, <2>1, BulkGood, Zenon
  <2> QED
    BY <1>1, <1>3, <1>6, <2>1, <2>2, Zenon
<1>13. ASSUME t.kind = "badbulk"
       PROVE  ~Terminated(x, len) /\ x \in Seq(Byte) /\ Len(x) = len + 2
  <2>1. len \in Nat /\ len + 1 = Len(val)
    BY <1>2, <1>3, <1>13, Zenon
  <2> QED
    BY <1>5, <1>6, <2>1, BulkBad, Zenon
<1> QED
  BY <1>12, <1>13, Zenon

LEMMA BulkRound ==
    ASSUME bb \in Seq(Byte), wire \in Seq(Byte), next \in Places, IsScript(script),
           NEW r, NEW p, BulkPhase(script, stack_rrb, Cat(bb, wire), r, p, next), BuildBulkPlain
    PROVE  RoundOf(script, r, next)
<1>1. PICK f : f = Last(stack_rrb) /\ f = top
  BY DEF top
<1>2. /\ Above(script, stack_rrb, r, p) /\ TokenAt(script, <<r, p>>).kind \in {"bulk", "badbulk"}
      /\ IsFrame(f) /\ f.kind = "bulk" /\ f.state = "plain"
      /\ f.len = BulkLength(TokenAt(script, <<r, p>>))
      /\ f.got \in Seq(Byte) /\ Len(f.got) < f.len + 2
      /\ Follows(script, Cat(f.got, Cat(bb, wire)), Line(TokenAt(script, <<r, p>>).val),
                 Succ(script, <<r, p>>), next)
  BY <1>1, Zenon DEF BulkPhase
<1>3. PICK fs : fs = Front(stack_rrb) /\ Pending(script, r, p, fs)
  BY <1>2, Zenon DEF Above
<1>4. PICK t \in Token : t = TokenAt(script, <<r, p>>)
  BY <1>3, PendingFacts
<1>5. f.len \in Nat
  <2>1. t.val \in Seq(Byte) /\ (t.kind = "badbulk" => t.val # <<>>)
    BY <1>2, <1>4, TokenShape
  <2>2. t.kind = "badbulk" => Len(t.val) > 0
    BY <2>1
  <2> QED
    BY <1>2, <1>4, <2>1, <2>2 DEF BulkLength
<1>6. PICK w \in Nat : w = f.len + 2 - Len(f.got) /\ w >= 1
  <2>1. Len(f.got) \in Nat
    BY <1>2
  <2> QED
    BY <1>2, <1>5, <2>1
<1>7. PICK n \in Nat : n = AppendSize(w) /\ n = (IF Len(bb) < w THEN Len(bb) ELSE w)
  BY DEF AppendSize
<1>8. PICK x : x = f.got \o SubSeq(bb, 1, n)
  OBVIOUS
<1>9. \/ /\ n # w /\ SetTop([top EXCEPT !.got = x])
         /\ bb' = SubSeq(bb, n + 1, Len(bb)) /\ Stops
      \/ /\ n = w /\ ~Terminated(x, f.len)
         /\ SetTop([top EXCEPT !.got = x]) /\ bb' = bb /\ Throws
      \/ /\ n = w /\ Terminated(x, f.len)
         /\ Over(fs, [kind |-> "bulk", val |-> Taken(x, f.len)])
         /\ bb' = SubSeq(bb, n + 1, Len(bb)) /\ Unfailing
  BY <1>1, <1>3, <1>6, <1>7, <1>8, Zenon DEF BuildBulkPlain, Terminated, Taken
<1>10. PICK gs : gs = stack_rrb'
  OBVIOUS
<1>11. ASSUME SetTop([top EXCEPT !.got = x])
       PROVE  gs = Replaced(stack_rrb, Filled(f, x))
  BY <1>1, <1>10, <1>11, Zenon DEF SetTop, Filled, Replaced
<1>12. ASSUME n # w, SetTop([top EXCEPT !.got = x]),
              bb' = SubSeq(bb, n + 1, Len(bb)), Stops
       PROVE  RoundOf(script, r, next)
  <2>1. n = Len(bb) /\ Len(bb) < w
    BY <1>7, <1>12
  <2>2. SubSeq(bb, 1, n) = bb /\ SubSeq(bb, n + 1, Len(bb)) = <<>>
    BY <2>1
  <2>3. x = Cat(f.got, bb) /\ bb' = <<>>
    BY <1>8, <1>12, <2>2, Zenon DEF Cat
  <2>4. gs = Replaced(stack_rrb, Filled(Last(stack_rrb), Cat(Last(stack_rrb).got, bb)))
    BY <1>1, <1>11, <1>12, <2>3, Zenon
  <2>5. Len(f.got) + Len(bb) < f.len + 2
    <3>1. PICK k \in Nat : k = Len(f.got)
      BY <1>2
    <3>2. PICK m \in Nat : m = Len(bb)
      OBVIOUS
    <3>3. w = f.len + 2 - k /\ m < w
      BY <1>6, <2>1, <3>1, <3>2
    <3>4. k + m < f.len + 2
      BY <1>5, <3>3
    <3> QED
      BY <3>1, <3>2, <3>4
  <2>6. BulkPhase(script, gs, Cat(<<>>, wire), r, p, next)
    BY <1>1, <1>5, <2>4, <2>5, BulkGrows
  <2>7. Resting(script, gs, <<>>, Cat(<<>>, wire), r, next)
    BY <2>6, Zenon DEF Resting
  <2>8. bb' \in Seq(Byte)
    BY <2>3
  <2> QED
    BY <1>10, <1>12, <2>3, <2>7, <2>8, Zenon DEF RoundOf
<1>13. ASSUME n = w
       PROVE  /\ t.kind = "bulk" => /\ Terminated(x, f.len)
                                    /\ Taken(x, f.len) = t.val
                                    /\ Written(script, Cat(After(bb, w), wire),
                                               Succ(script, <<r, p>>), next)
              /\ t.kind = "badbulk" => /\ ~Terminated(x, f.len)
                                       /\ x \in Seq(Byte) /\ Len(x) = f.len + 2
              /\ w <= Len(bb)
  <2>1. w <= Len(bb)
    BY <1>7, <1>13
  <2>2. x = Cat(f.got, Taken(bb, w))
    BY <1>8, <1>13, Zenon DEF Cat, Taken
  <2>3. PICK got \in Seq(Byte) : got = f.got
    BY <1>2
  <2>4. PICK len : len = f.len
    OBVIOUS
  <2>5. Len(got) + w = len + 2
    <3>1. PICK k \in Nat : k = Len(got)
      OBVIOUS
    <3>2. w = len + 2 - k /\ len \in Nat
      BY <1>5, <1>6, <2>3, <2>4, <3>1, Zenon
    <3>3. k + w = len + 2
      BY <3>2
    <3> QED
      BY <3>1, <3>3, Zenon
  <2>8. PICK a : a = Succ(script, <<r, p>>)
    OBVIOUS
  <2>7. /\ t.kind \in {"bulk", "badbulk"} /\ len = BulkLength(t) /\ x = Cat(got, Taken(bb, w))
        /\ Follows(script, Cat(got, Cat(bb, wire)), Line(t.val), a, next)
    BY <1>2, <1>4, <2>2, <2>3, <2>4, <2>8, Zenon
  <2>6. /\ t.kind = "bulk" => /\ Terminated(x, len)
                              /\ Taken(x, len) = t.val
                              /\ Written(script, Cat(After(bb, w), wire),
                                         Succ(script, <<r, p>>), next)
        /\ t.kind = "badbulk" => /\ ~Terminated(x, len)
                                 /\ x \in Seq(Byte) /\ Len(x) = len + 2
    <3>1. /\ t.kind = "bulk" => /\ Terminated(x, len) /\ Taken(x, len) = t.val
                                /\ Written(script, Cat(After(bb, w), wire), a, next)
          /\ t.kind = "badbulk" => ~Terminated(x, len) /\ x \in Seq(Byte) /\ Len(x) = len + 2
      BY <2>1, <2>5, <2>7, BulkTaken
    <3> QED
      BY <2>8, <3>1, Zenon
  <2> QED
    BY <2>1, <2>4, <2>6, Zenon
<1>14. ASSUME n = w, ~Terminated(x, f.len),
              SetTop([top EXCEPT !.got = x]), bb' = bb, Throws
       PROVE  RoundOf(script, r, next)
  <2>1. t.kind = "badbulk" /\ x \in Seq(Byte) /\ Len(x) = f.len + 2
    BY <1>2, <1>4, <1>13, <1>14
  <2>2. \E k \in DOMAIN script : ~WellFormed(script[k])
    <3>1. /\ r \in 1 .. Len(script) /\ p \in 1 .. Len(script[r]) /\ script[r] \in Seq(Token)
          /\ t = script[r][p]
      BY <1>3, <1>4, PendingFacts
    <3>2. script \in Seq(Seq(Token))
      BY DEF IsScript
    <3>3. r \in DOMAIN script /\ p \in DOMAIN script[r] /\ script[r][p].kind = "badbulk"
      BY <2>1, <3>1, <3>2
    <3> QED
      BY <3>3 DEF WellFormed
  <2>3. PICK g : g = Filled(f, x)
    OBVIOUS
  <2>4. g = FrameOf(f.kind, f.state, f.elemtype, f.len, x)
    BY <1>2, <2>3, FilledFrame
  <2>5. IsFrame(g) /\ g.kind = "bulk" /\ g.state = "plain" /\ g.len = f.len /\ g.got = x
    BY <1>2, <2>4, FrameFields
  <2>6. gs = Replaced(stack_rrb, g)
    BY <1>11, <1>14, <2>3, Zenon
  <2>7. Above(script, gs, r, p) /\ Last(gs) = g
    BY <1>2, <2>6, AboveReplaced
  <2>8. Sequence(gs) /\ Len(gs) >= 2 /\ Pending(script, r, p, Front(gs))
    BY <2>7, Zenon DEF Above
  <2>9. OpenFrames(Front(gs))
    BY <2>8, PendingFacts
  <2>10. Stuck(script, gs, bb)
    BY <1>5, <1>14, <2>1, <2>2, <2>5, <2>7, <2>8, <2>9, Zenon DEF Stuck, Terminated
  <2>11. bb' \in Seq(Byte)
    BY <1>14
  <2> QED
    BY <1>10, <1>14, <2>10, <2>11, Zenon DEF RoundOf
<1>15. ASSUME n = w, Terminated(x, f.len),
              Over(fs, [kind |-> "bulk", val |-> Taken(x, f.len)]),
              bb' = SubSeq(bb, n + 1, Len(bb)), Unfailing
       PROVE  RoundOf(script, r, next)
  <2>1. t.kind = "bulk" /\ w <= Len(bb)
    BY <1>2, <1>4, <1>13, <1>15
  <2>2. bb' = After(bb, w) /\ bb' \in Seq(Byte)
    <3>1. bb' = After(bb, w)
      BY <1>15, Zenon DEF After
    <3> QED
      BY <2>1, <3>1, AfterType
  <2>3. PICK value : value = [kind |-> "bulk", val |-> Taken(x, f.len)]
    OBVIOUS
  <2>4. value = t
    <3>1. Taken(x, f.len) = t.val
      BY <1>13, <1>15, <2>1
    <3>2. t = [kind |-> t.kind, val |-> t.val]
      BY TokenShape
    <3> QED
      BY <2>1, <2>3, <3>1, <3>2, Zenon
  <2>5. SetReply(value) \in Renderings(t) /\ value.kind # "nullarray" /\ t.kind # "array"
    BY <2>1, <2>4 DEF SetReply, Renderings, Short, ValueOf
  <2>6. PICK s : s = Cat(bb', wire)
    OBVIOUS
  <2>7. Written(script, s, Succ(script, <<r, p>>), next)
    BY <1>13, <1>15, <2>1, <2>2, <2>6, Zenon
  <2>8. Over(fs, value)
    BY <1>15, <2>3, Zenon
  <2>9. GoesOn(script, s, r, next)
    BY <1>3, <1>4, <2>5, <2>7, <2>8, LeafGoesOn
  <2> QED
    BY <1>15, <2>2, <2>6, <2>9, Zenon DEF RoundOf
<1> QED
  BY <1>9, <1>12, <1>14, <1>15, Zenon

(* The bytes of a simple string, in the buffer and behind it. *)
LEMMA SimpleAhead ==
    ASSUME bb \in Seq(Byte), wire \in Seq(Byte), NEW h \in Text, NEW scr, NEW a, NEW nx,
           Follows(scr, Cat(bb, wire), Line(h), a, nx)
    PROVE  /\ LineKnown =>
                /\ Taken(bb, LineEnd - 1) = h /\ SubSeq(bb, LineEnd + 2, Len(bb)) \in Seq(Byte)
                /\ Written(scr, Cat(SubSeq(bb, LineEnd + 2, Len(bb)), wire), a, nx)
           /\ ~LineKnown /\ Len(bb) >= 2 =>
                /\ TakenOfLine \in 1 .. Len(h) /\ TakenOfLine <= Len(bb)
                /\ Taken(bb, TakenOfLine) = Taken(h, TakenOfLine)
                /\ After(h, TakenOfLine) \in Text
                /\ After(bb, TakenOfLine) \in Seq(Byte) /\ Len(After(bb, TakenOfLine)) < 2
                /\ Follows(scr, Cat(After(bb, TakenOfLine), wire),
                           Line(After(h, TakenOfLine)), a, nx)
                /\ Len(h) <= 2 => TakenOfLine = Len(h)
<1>1. PICK u \in Seq(Byte) : Cat(bb, wire) = Cat(Line(h), u) /\ Written(scr, u, a, nx)
  BY Zenon DEF Follows
<1>2. bb \o wire = Line(h) \o u
  BY <1>1, Zenon DEF Cat
<1>3. ASSUME LineKnown
      PROVE  /\ Taken(bb, LineEnd - 1) = h /\ SubSeq(bb, LineEnd + 2, Len(bb)) \in Seq(Byte)
             /\ Written(scr, Cat(SubSeq(bb, LineEnd + 2, Len(bb)), wire), a, nx)
  <2>1. /\ LineEnd = Len(h) + 1 /\ SubSeq(bb, 1, LineEnd - 1) = h
        /\ SubSeq(bb, LineEnd + 2, Len(bb)) \o wire = u
    BY <1>2, <1>3, LineAhead
  <2>2. PICK m \in Nat : m = LineEnd + 2 /\ m >= 1
    BY <2>1, TextElements
  <2>3. SubSeq(bb, m, Len(bb)) \in Seq(Byte)
    BY <2>2
  <2> QED
    BY <1>1, <2>1, <2>2, <2>3, Zenon DEF Cat, Taken
<1>4. ASSUME ~LineKnown, Len(bb) >= 2
      PROVE  /\ TakenOfLine \in 1 .. Len(h) /\ TakenOfLine <= Len(bb)
             /\ Taken(bb, TakenOfLine) = Taken(h, TakenOfLine)
             /\ After(h, TakenOfLine) \in Text
             /\ After(bb, TakenOfLine) \in Seq(Byte) /\ Len(After(bb, TakenOfLine)) < 2
             /\ Follows(scr, Cat(After(bb, TakenOfLine), wire), Line(After(h, TakenOfLine)), a, nx)
             /\ Len(h) <= 2 => TakenOfLine = Len(h)
  <2>1. /\ TakenOfLine \in 1 .. Len(h) /\ TakenOfLine <= Len(bb)
        /\ SubSeq(bb, 1, TakenOfLine) = SubSeq(h, 1, TakenOfLine)
        /\ After(h, TakenOfLine) \in Text
        /\ Len(After(bb, TakenOfLine)) < 2
        /\ After(bb, TakenOfLine) \o wire = Line(After(h, TakenOfLine)) \o u
        /\ Len(h) <= 2 => TakenOfLine = Len(h)
    BY <1>2, <1>4, SimpleCut
  <2>2. PICK n \in Nat : n = TakenOfLine
    BY <2>1, TextElements
  <2>3. After(bb, n) \in Seq(Byte)
    BY <2>1, <2>2, AfterType
  <2>4. Cat(After(bb, TakenOfLine), wire) = Cat(Line(After(h, TakenOfLine)), u)
    BY <2>1, Zenon DEF Cat
  <2>5. Follows(scr, Cat(After(bb, TakenOfLine), wire), Line(After(h, TakenOfLine)), a, nx)
    BY <1>1, <2>4, Zenon DEF Follows
  <2> QED
    BY <2>1, <2>2, <2>3, <2>5, Zenon DEF Taken
<1> QED
  BY <1>3, <1>4, Zenon

LEMMA OverlaidShape ==
    ASSUME NEW got \in Seq(Byte \cup {"junk"}), NEW bytes \in Seq(Byte)
    PROVE  /\ Overlaid(got, bytes) \in Seq(Byte \cup {"junk"})
           /\ Len(Overlaid(got, bytes)) = Len(got) + Len(bytes)
           /\ got = <<>> => Overlaid(got, bytes) = bytes
           /\ bytes = <<>> => Overlaid(got, bytes) = got
<1>1. PICK n \in Nat : n = Len(got)
  OBVIOUS
<1>2. PICK m \in Nat : m = Len(bytes)
  OBVIOUS
<1>3. PICK o : o = Overlaid(got, bytes)
  OBVIOUS
<1>4. o = [i \in 1 .. n + m |-> IF i <= m THEN bytes[i] ELSE IF i <= n THEN got[i] ELSE "junk"]
  BY <1>1, <1>2, <1>3 DEF Overlaid
<1>5. ASSUME NEW i \in 1 .. n + m PROVE o[i] \in Byte \cup {"junk"}
  <2>1. i <= m => bytes[i] \in Byte
    BY <1>2, ElementOfSeq
  <2>2. i <= n => got[i] \in Byte \cup {"junk"}
    BY <1>1, ElementOfSeq
  <2>3. o[i] = IF i <= m THEN bytes[i] ELSE IF i <= n THEN got[i] ELSE "junk"
    BY <1>4
  <2> QED
    BY <2>1, <2>2, <2>3, Zenon
<1>6. o \in Seq(Byte \cup {"junk"}) /\ Len(o) = n + m
  <2>1. o \in [1 .. n + m -> Byte \cup {"junk"}]
    BY <1>4, <1>5
  <2> QED
    BY <2>1
<1>7. ASSUME got = <<>> PROVE o = bytes
  <2>1. n = 0
    BY <1>1, <1>7
  <2>2. \A i \in 1 .. m : o[i] = bytes[i]
    BY <1>4, <2>1
  <2> QED
    BY <1>2, <1>6, <2>1, <2>2, SameSequence DEF Sequence
<1>8. ASSUME bytes = <<>> PROVE o = got
  <2>1. m = 0
    BY <1>2, <1>8
  <2>2. \A i \in 1 .. n : o[i] = got[i]
    BY <1>4, <2>1
  <2> QED
    BY <1>1, <1>6, <2>1, <2>2, SameSequence DEF Sequence
<1> QED
  BY <1>1, <1>2, <1>3, <1>6, <1>7, <1>8

LEMMA TextSequence ==
    ASSUME NEW h \in Text
    PROVE  /\ h \in Seq(Byte) /\ Len(h) \in Nat /\ Taken(h, Len(h)) = h
           /\ After(h, Len(h)) = <<>> /\ (Len(h) = 0 => h = <<>>)
           /\ \A n \in 0 .. Len(h) : /\ Taken(h, n) \in Seq(Byte) /\ Len(Taken(h, n)) = n
                                     /\ Len(After(h, n)) = Len(h) - n
<1>1. h \in Seq(Byte)
  BY TextOfBytes
<1> QED
  BY <1>1 DEF Taken, After

(* More of a simple string is laid over what there is. *)
LEMMA OverlayingMore ==
    ASSUME NEW got, NEW rest, NEW val, Overlaying(got, rest, val),
           NEW n \in 1 .. Len(rest), Len(rest) <= 2 => n = Len(rest), After(rest, n) \in Text
    PROVE  Overlaying(Overlaid(got, Taken(rest, n)), After(rest, n), val)
<1>1. /\ got \in Seq(Byte \cup {"junk"}) /\ rest \in Text
      /\ Len(got) + Len(rest) = Len(val)
      /\ Len(val) <= 2 => (got = <<>> /\ rest = val) \/ (got = val /\ rest = <<>>)
  BY Zenon DEF Overlaying
<1>2. /\ Taken(rest, n) \in Seq(Byte) /\ Len(Taken(rest, n)) = n
      /\ Len(After(rest, n)) = Len(rest) - n /\ Len(rest) \in Nat
      /\ Taken(rest, Len(rest)) = rest /\ After(rest, Len(rest)) = <<>>
  BY <1>1, TextSequence
<1>3. PICK o : o = Overlaid(got, Taken(rest, n))
  OBVIOUS
<1>4. /\ o \in Seq(Byte \cup {"junk"}) /\ Len(o) = Len(got) + n
      /\ got = <<>> => o = Taken(rest, n)
  BY <1>1, <1>2, <1>3, OverlaidShape
<1>5. Len(o) + Len(After(rest, n)) = Len(val)
  <2>1. PICK k \in Nat : k = Len(got)
    BY <1>1
  <2>2. PICK m \in Nat : m = Len(rest)
    BY <1>2
  <2>3. k + n + (m - n) = k + m
    BY <2>1, <2>2
  <2> QED
    BY <1>1, <1>2, <1>4, <2>1, <2>2, <2>3, Zenon
<1>6. ASSUME Len(val) <= 2 PROVE o = val /\ After(rest, n) = <<>>
  <2>1. rest # <<>>
    <3>1. Len(<<>>) = 0
      BY EmptyShape
    <3>2. Len(rest) # 0
      BY <1>2
    <3> QED
      BY <3>1, <3>2, Zenon
  <2>2. got = <<>> /\ rest = val
    BY <1>1, <1>6, <2>1, Zenon
  <2>3. n = Len(rest)
    BY <1>6, <2>2, Zenon
  <2> QED
    BY <1>2, <1>4, <2>2, <2>3, Zenon
<1> QED
  BY <1>3, <1>4, <1>5, <1>6, Zenon DEF Overlaying

(* The whole of a simple string. *)
LEMMA OverlayingWhole ==
    ASSUME NEW got, NEW rest, NEW t \in Token, t.kind \in {"simple", "error"},
           Overlaying(got, rest, t.val), NEW value,
           value = [kind |-> t.kind, val |-> Overlaid(got, rest)]
    PROVE  SetReply(value) \in Renderings(t) /\ value.kind = t.kind
<1>1. /\ got \in Seq(Byte \cup {"junk"}) /\ rest \in Text
      /\ Len(got) + Len(rest) = Len(t.val)
      /\ Len(t.val) <= 2 => (got = <<>> /\ rest = t.val) \/ (got = t.val /\ rest = <<>>)
  BY Zenon DEF Overlaying
<1>2. PICK o : o = Overlaid(got, rest)
  OBVIOUS
<1>3. /\ o \in Seq(Byte \cup {"junk"}) /\ Len(o) = Len(t.val)
      /\ got = <<>> => o = rest
      /\ rest = <<>> => o = got
  <2>1. rest \in Seq(Byte)
    BY <1>1, TextOfBytes
  <2>2. /\ Overlaid(got, rest) \in Seq(Byte \cup {"junk"})
        /\ Len(Overlaid(got, rest)) = Len(got) + Len(rest)
        /\ got = <<>> => Overlaid(got, rest) = rest
        /\ rest = <<>> => Overlaid(got, rest) = got
    BY <1>1, <2>1, OverlaidShape
  <2> QED
    BY <1>1, <1>2, <2>2, Zenon
<1>4. value = [kind |-> t.kind, val |-> o] /\ value.kind = t.kind
  BY <1>2
<1>5. SetReply(value) = value
  BY <1>4 DEF SetReply
<1>6. CASE Short(t)
  <2>1. o = t.val
    BY <1>1, <1>3, <1>6 DEF Short
  <2>2. t = [kind |-> t.kind, val |-> t.val]
    BY TokenShape
  <2>3. ValueOf(t) = t
    BY DEF ValueOf
  <2>4. value = t
    BY <1>4, <2>1, <2>2, Zenon
  <2>5. Renderings(t) = {t}
    BY <1>6, <2>3, Zenon DEF Renderings
  <2> QED
    BY <1>4, <1>5, <2>4, <2>5
<1>7. CASE ~Short(t)
  <2>1. o \in {s \in Seq(Byte \cup {"junk"}) : Len(s) = Len(t.val)}
    BY <1>3
  <2>2. PICK V : V = {s \in Seq(Byte \cup {"junk"}) : Len(s) = Len(t.val)}
    OBVIOUS
  <2>3. value \in [kind : {t.kind}, val : V]
    BY <1>4, <2>1, <2>2
  <2>4. Renderings(t) = [kind : {t.kind}, val : V]
    BY <1>7, <2>2, Zenon DEF Renderings
  <2> QED
    BY <1>4, <1>5, <2>3, <2>4, Zenon
<1> QED
  BY <1>6, <1>7

LEMMA SimpleRound ==
    ASSUME bb \in Seq(Byte), wire \in Seq(Byte), next \in Places, IsScript(script),
           NEW r, NEW p, SimplePhase(script, stack_rrb, Cat(bb, wire), r, p, next), BuildSimplePlain
    PROVE  RoundOf(script, r, next)
<1>1. PICK f : f = Last(stack_rrb) /\ f = top
  BY DEF top
<1>2. /\ Above(script, stack_rrb, r, p) /\ TokenAt(script, <<r, p>>).kind \in {"simple", "error"}
      /\ IsFrame(f) /\ f.state = "plain" /\ f.kind = TokenAt(script, <<r, p>>).kind
  BY <1>1, Zenon DEF SimplePhase
<1>3. PICK fs : fs = Front(stack_rrb) /\ Pending(script, r, p, fs)
  BY <1>2, Zenon DEF Above
<1>4. PICK t \in Token : t = TokenAt(script, <<r, p>>)
  BY <1>3, PendingFacts
<1>5. PICK a : a = Succ(script, <<r, p>>)
  OBVIOUS
<1>6. PICK rest : Overlaying(f.got, rest, t.val) /\ Follows(script, Cat(bb, wire), Line(rest), a, next)
  BY <1>1, <1>4, <1>5, Zenon DEF SimplePhase
<1>7. rest \in Text
  BY <1>6, Zenon DEF Overlaying
<1>8. /\ LineKnown =>
           /\ Taken(bb, LineEnd - 1) = rest /\ SubSeq(bb, LineEnd + 2, Len(bb)) \in Seq(Byte)
           /\ Written(script, Cat(SubSeq(bb, LineEnd + 2, Len(bb)), wire), a, next)
      /\ ~LineKnown /\ Len(bb) >= 2 =>
           /\ TakenOfLine \in 1 .. Len(rest) /\ TakenOfLine <= Len(bb)
           /\ Taken(bb, TakenOfLine) = Taken(rest, TakenOfLine)
           /\ After(rest, TakenOfLine) \in Text
           /\ After(bb, TakenOfLine) \in Seq(Byte) /\ Len(After(bb, TakenOfLine)) < 2
           /\ Follows(script, Cat(After(bb, TakenOfLine), wire),
                      Line(After(rest, TakenOfLine)), a, next)
           /\ Len(rest) <= 2 => TakenOfLine = Len(rest)
  BY <1>6, <1>7, SimpleAhead
<1>9. PICK gs : gs = stack_rrb'
  OBVIOUS
<1>10. PICK o : o = Overlaid(f.got, Taken(bb, TakenOfLine))
  OBVIOUS
<1>11. \/ Len(bb) < 2 /\ Premature
       \/ /\ Len(bb) >= 2 /\ ~LineKnown /\ SetTop([top EXCEPT !.got = o])
          /\ bb' = SubSeq(bb, TakenOfLine + 1, Len(bb)) /\ Stops
       \/ /\ LineKnown /\ Over(fs, [kind |-> f.kind, val |-> o])
          /\ ConsumeLine /\ Unfailing
  BY <1>1, <1>3, <1>10, Zenon DEF BuildSimplePlain, Taken
<1>12. ASSUME Len(bb) < 2, Premature PROVE RoundOf(script, r, next)
  <2>1. bb' = bb /\ stack_rrb' = stack_rrb /\ Stops
    BY <1>12, Zenon DEF Premature
  <2>2. Resting(script, stack_rrb, bb, Cat(bb, wire), r, next)
    BY <1>12, Zenon DEF Resting
  <2> QED
    BY <2>1, <2>2, Zenon DEF RoundOf
<1>13. ASSUME Len(bb) >= 2, ~LineKnown, SetTop([top EXCEPT !.got = o]),
              bb' = SubSeq(bb, TakenOfLine + 1, Len(bb)), Stops
       PROVE  RoundOf(script, r, next)
  <2>1. PICK n : n = TakenOfLine
    OBVIOUS
  <2>2. /\ n \in 1 .. Len(rest) /\ Taken(bb, n) = Taken(rest, n) /\ After(rest, n) \in Text
        /\ After(bb, n) \in Seq(Byte) /\ Len(After(bb, n)) < 2
        /\ Follows(script, Cat(After(bb, n), wire), Line(After(rest, n)), a, next)
        /\ Len(rest) <= 2 => n = Len(rest)
    BY <1>8, <1>13, <2>1, Zenon
  <2>3. Overlaying(o, After(rest, n), t.val)
    <3>1. Overlaying(Overlaid(f.got, Taken(rest, n)), After(rest, n), t.val)
      BY <1>6, <2>2, OverlayingMore
    <3> QED
      BY <1>10, <2>1, <2>2, <3>1, Zenon
  <2>4. bb' = After(bb, n)
    BY <1>13, <2>1, Zenon DEF After
  <2>5. PICK g : g = Filled(f, o)
    OBVIOUS
  <2>6. g = FrameOf(f.kind, f.state, f.elemtype, f.len, o)
    BY <1>2, <2>5, FilledFrame
  <2>7. IsFrame(g) /\ g.kind = f.kind /\ g.state = "plain" /\ g.got = o
    BY <1>2, <2>6, FrameFields
  <2>8. gs = Replaced(stack_rrb, g)
    BY <1>1, <1>9, <1>13, <2>5, Zenon DEF SetTop, Filled, Replaced
  <2>9. Above(script, gs, r, p) /\ Last(gs) = g
    BY <1>2, <2>8, AboveReplaced
  <2>10. SimplePhase(script, gs, Cat(After(bb, n), wire), r, p, next)
    <3>1. Overlaying(Last(gs).got, After(rest, n), TokenAt(script, <<r, p>>).val)
      BY <1>4, <2>3, <2>7, <2>9, Zenon
    <3>2. Follows(script, Cat(After(bb, n), wire), Line(After(rest, n)), Succ(script, <<r, p>>), next)
      BY <1>5, <2>2, Zenon
    <3>3. /\ IsFrame(Last(gs)) /\ Last(gs).state = "plain"
          /\ Last(gs).kind = TokenAt(script, <<r, p>>).kind
      BY <1>2, <2>7, <2>9, Zenon
    <3> QED
      BY <1>2, <2>9, <3>1, <3>2, <3>3, Zenon DEF SimplePhase
  <2>11. Resting(script, gs, After(bb, n), Cat(After(bb, n), wire), r, next)
    BY <2>2, <2>10, Zenon DEF Resting
  <2> QED
    BY <1>9, <1>13, <2>2, <2>4, <2>11, Zenon DEF RoundOf
<1>14. ASSUME LineKnown, Over(fs, [kind |-> f.kind, val |-> o]), ConsumeLine, Unfailing
       PROVE  RoundOf(script, r, next)
  <2>1. TakenOfLine = LineEnd - 1
    BY <1>14, Zenon DEF TakenOfLine
  <2>2. o = Overlaid(f.got, rest)
    BY <1>8, <1>10, <1>14, <2>1, Zenon
  <2>3. bb' = SubSeq(bb, LineEnd + 2, Len(bb))
    BY <1>14, Zenon DEF ConsumeLine
  <2>4. PICK value : value = [kind |-> f.kind, val |-> o]
    OBVIOUS
  <2>5. value = [kind |-> t.kind, val |-> Overlaid(f.got, rest)] /\ t.kind \in {"simple", "error"}
    BY <1>2, <1>4, <2>2, <2>4, Zenon
  <2>6. SetReply(value) \in Renderings(t) /\ value.kind = t.kind
    BY <1>6, <2>5, OverlayingWhole
  <2>7. value.kind # "nullarray" /\ t.kind # "array"
    BY <2>5, <2>6
  <2>8. PICK s : s = Cat(bb', wire)
    OBVIOUS
  <2>9. bb' \in Seq(Byte) /\ Written(script, s, Succ(script, <<r, p>>), next)
    BY <1>5, <1>8, <1>14, <2>3, <2>8, Zenon
  <2>10. Over(fs, value)
    BY <1>14, <2>4, Zenon
  <2>11. GoesOn(script, s, r, next)
    BY <1>3, <1>4, <2>6, <2>7, <2>9, <2>10, LeafGoesOn
  <2> QED
    BY <1>14, <2>8, <2>9, <2>11, Zenon DEF RoundOf
<1> QED
  BY <1>11, <1>12, <1>13, <1>14, Zenon

(* The phases are told apart by the frame on top, as the builders are. *)
LEMMA PhaseTop ==
    ASSUME NEW scr, IsScript(scr), NEW st, NEW s, NEW r, NEW p, NEW nx
    PROVE  /\ TypePhase(scr, st, s, r, p, nx) =>
                Last(st).kind \in {"reply", "array"} /\ Last(st).state = "type"
           /\ ContentPhase(scr, st, s, r, p, nx) =>
                Last(st).kind \in {"reply", "array"} /\ Last(st).state = "content"
           /\ OverPhase(scr, st, s, r, p, nx) => Last(st).kind = "array" /\ Last(st).state = "over"
           /\ LenPhase(scr, st, s, r, p, nx) =>
                Last(st).kind \in {"array", "bulk"} /\ Last(st).state = "len"
           /\ BulkPhase(scr, st, s, r, p, nx) => Last(st).kind = "bulk" /\ Last(st).state = "plain"
           /\ SimplePhase(scr, st, s, r, p, nx) =>
                Last(st).kind \in {"simple", "error"} /\ Last(st).state = "plain"
<1>1. ASSUME TypePhase(scr, st, s, r, p, nx)
      PROVE  Last(st).kind \in {"reply", "array"} /\ Last(st).state = "type"
  <2>1. Context(scr, r, p, st) /\ Last(st).state = "type"
    BY <1>1, Zenon DEF TypePhase
  <2>2. OpenFrames(st)
    BY <2>1, Zenon DEF Context
  <2> QED
    BY <2>1, <2>2, OpenShape
<1>2. ASSUME ContentPhase(scr, st, s, r, p, nx)
      PROVE  Last(st).kind \in {"reply", "array"} /\ Last(st).state = "content"
  <2>1. Pending(scr, r, p, st) /\ Last(st).state = "content"
    BY <1>2, Zenon DEF ContentPhase
  <2>2. OpenFrames(st)
    BY <2>1, Zenon DEF Pending, Context
  <2> QED
    BY <2>1, <2>2, OpenShape
<1>3. ASSUME OverPhase(scr, st, s, r, p, nx)
      PROVE  Last(st).kind = "array" /\ Last(st).state = "over"
  <2>1. Context(scr, r, p, st) /\ Last(st).state = "over" /\ Len(st) >= 2
    BY <1>3, Zenon DEF OverPhase
  <2>2. OpenFrames(st)
    BY <2>1, Zenon DEF Context
  <2> QED
    BY <2>1, <2>2, OpenShape
<1>4. ASSUME LenPhase(scr, st, s, r, p, nx)
      PROVE  Last(st).kind \in {"array", "bulk"} /\ Last(st).state = "len"
  <2>1. PICK e : e \in {"array", "bulk"} /\ Last(st) = Frame(e)
    BY <1>4, Zenon DEF LenPhase
  <2> QED
    BY <2>1 DEF Frame
<1>5. ASSUME BulkPhase(scr, st, s, r, p, nx)
      PROVE  Last(st).kind = "bulk" /\ Last(st).state = "plain"
  BY <1>5, Zenon DEF BulkPhase
<1>6. ASSUME SimplePhase(scr, st, s, r, p, nx)
      PROVE  Last(st).kind \in {"simple", "error"} /\ Last(st).state = "plain"
  BY <1>6, Zenon DEF SimplePhase
<1> QED
  BY <1>1, <1>2, <1>3, <1>4, <1>5, <1>6

(* A round of a parser that has not met a violation of the protocol. *)
LEMMA ParseRound ==
    ASSUME bb \in Seq(Byte), wire \in Seq(Byte), next \in Places, IsScript(script),
           NEW r, Phase(script, stack_rrb, Cat(bb, wire), r, next), Parse
    PROVE  RoundOf(script, r, next)
<1>1. PICK p : \/ TypePhase(script, stack_rrb, Cat(bb, wire), r, p, next)
               \/ ContentPhase(script, stack_rrb, Cat(bb, wire), r, p, next)
               \/ OverPhase(script, stack_rrb, Cat(bb, wire), r, p, next)
               \/ LenPhase(script, stack_rrb, Cat(bb, wire), r, p, next)
               \/ BulkPhase(script, stack_rrb, Cat(bb, wire), r, p, next)
               \/ SimplePhase(script, stack_rrb, Cat(bb, wire), r, p, next)
  BY Zenon DEF Phase
<1>2. PICK f : f = Last(stack_rrb) /\ f = top
  BY DEF top
<1>3. \/ f.kind \in {"reply", "array"} /\ f.state = "type" /\ BuildType
      \/ f.kind \in {"reply", "array"} /\ f.state = "content" /\ BuildContent
      \/ f.kind \in {"array", "bulk"} /\ f.state = "len" /\ BuildLen
      \/ f.kind = "array" /\ f.state = "over" /\ BuildOver
      \/ f.kind = "bulk" /\ f.state = "plain" /\ BuildBulkPlain
      \/ f.kind \in {"simple", "error"} /\ f.state = "plain" /\ BuildSimplePlain
  <2>1. BuildType => f.kind \in {"reply", "array"} /\ f.state = "type"
    BY <1>2, Zenon DEF BuildType, At
  <2>2. BuildContent => f.kind \in {"reply", "array"} /\ f.state = "content"
    BY <1>2, Zenon DEF BuildContent, At
  <2>3. BuildLen => f.kind \in {"array", "bulk"} /\ f.state = "len"
    BY <1>2, Zenon DEF BuildLen, At
  <2>4. BuildOver => f.kind = "array" /\ f.state = "over"
    BY <1>2, Zenon DEF BuildOver, At
  <2>5. BuildBulkPlain => f.kind = "bulk" /\ f.state = "plain"
    BY <1>2, Zenon DEF BuildBulkPlain, At
  <2>6. BuildSimplePlain => f.kind \in {"simple", "error"} /\ f.state = "plain"
    BY <1>2, Zenon DEF BuildSimplePlain, At
  <2> QED
    BY <2>1, <2>2, <2>3, <2>4, <2>5, <2>6, Zenon DEF Parse
<1>4. CASE TypePhase(script, stack_rrb, Cat(bb, wire), r, p, next)
  <2>1. BuildType
    BY <1>2, <1>3, <1>4, PhaseTop
  <2> QED
    BY <1>4, <2>1, TypeRound
<1>5. CASE ContentPhase(script, stack_rrb, Cat(bb, wire), r, p, next)
  <2>1. BuildContent
    BY <1>2, <1>3, <1>5, PhaseTop
  <2> QED
    BY <1>5, <2>1, ContentRound
<1>6. CASE OverPhase(script, stack_rrb, Cat(bb, wire), r, p, next)
  <2>1. BuildOver
    BY <1>2, <1>3, <1>6, PhaseTop
  <2> QED
    BY <1>6, <2>1, OverRound
<1>7. CASE LenPhase(script, stack_rrb, Cat(bb, wire), r, p, next)
  <2>1. BuildLen
    BY <1>2, <1>3, <1>7, PhaseTop
  <2> QED
    BY <1>7, <2>1, LenRound
<1>8. CASE BulkPhase(script, stack_rrb, Cat(bb, wire), r, p, next)
  <2>1. BuildBulkPlain
    BY <1>2, <1>3, <1>8, PhaseTop
  <2> QED
    BY <1>8, <2>1, BulkRound
<1>9. CASE SimplePhase(script, stack_rrb, Cat(bb, wire), r, p, next)
  <2>1. BuildSimplePlain
    BY <1>2, <1>3, <1>9, PhaseTop
  <2> QED
    BY <1>9, <2>1, SimpleRound
<1> QED
  BY <1>1, <1>4, <1>5, <1>6, <1>7, <1>8, <1>9, Zenon

-----------------------------------------------------------------------------
(* The server writes: what is known of the bytes ahead stays known.         *)

LEMMA AheadType ==
    ASSUME NEW t \in Token
    PROVE  Rest(t) \in Seq(Byte)
<1>1. Line(Heading(t)) \in Seq(Byte) /\ Content(t) \in Seq(Byte)
  <2>1. Heading(t) \in Seq(Byte)
    BY HeadingType, TextOfBytes
  <2> QED
    BY <2>1, LineType, EncodeType
<1> QED
  BY <1>1, CatBytes, Zenon DEF Rest

LEMMA AheadMore ==
    ASSUME NEW scr, IsScript(scr), NEW s, NEW r, NEW p, NEW fs, Pending(scr, r, p, fs),
           NEW nx \in Places, OnScript(scr, nx), Ahead(scr, s, r, p, nx)
    PROVE  Ahead(scr, Cat(s, Encode(TokenAt(scr, nx))), r, p, Succ(scr, nx))
<1>1. PICK t \in Token : t = TokenAt(scr, <<r, p>>)
  BY PendingFacts
<1>2. PICK a \in Places : a = Succ(scr, <<r, p>>)
  BY PendingFacts
<1>3. PICK pre \in Seq(Byte) : pre = Rest(t)
  BY AheadType
<1>4. Follows(scr, s, pre, a, nx)
  BY <1>1, <1>2, <1>3, Zenon DEF Ahead
<1>5. Follows(scr, Cat(s, Encode(TokenAt(scr, nx))), pre, a, Succ(scr, nx))
  BY <1>4, FollowsMore
<1> QED
  BY <1>1, <1>2, <1>3, <1>5, Zenon DEF Ahead

LEMMA HereMore ==
    ASSUME NEW scr, IsScript(scr), NEW s \in Seq(Byte), NEW r, NEW p, NEW fs,
           Context(scr, r, p, fs), NEW nx \in Places, OnScript(scr, nx),
           Written(scr, s, Here(scr, r, p), nx)
    PROVE  Written(scr, Cat(s, Encode(TokenAt(scr, nx))), Here(scr, r, p), Succ(scr, nx))
<1>1. r \in Nat /\ p \in Nat
  BY Zenon DEF Context
<1>2. PICK a \in Places : a = Here(scr, r, p)
  BY <1>1, HerePlace
<1>3. Written(scr, s \o Encode(TokenAt(scr, nx)), a, Succ(scr, nx))
  BY <1>2, WrittenMore
<1> QED
  BY <1>2, <1>3, Zenon DEF Cat

LEMMA TypeMore ==
    ASSUME NEW scr, IsScript(scr), NEW st, NEW s \in Seq(Byte), NEW r, NEW p,
           NEW nx \in Places, OnScript(scr, nx), TypePhase(scr, st, s, r, p, nx)
    PROVE  TypePhase(scr, st, Cat(s, Encode(TokenAt(scr, nx))), r, p, Succ(scr, nx))
<1>1. /\ Context(scr, r, p, st) /\ Wanting(st) /\ Last(st).state = "type"
      /\ Written(scr, s, Here(scr, r, p), nx)
  BY Zenon DEF TypePhase
<1>2. Written(scr, Cat(s, Encode(TokenAt(scr, nx))), Here(scr, r, p), Succ(scr, nx))
  BY <1>1, HereMore
<1> QED
  BY <1>1, <1>2, Zenon DEF TypePhase

LEMMA OverMore ==
    ASSUME NEW scr, IsScript(scr), NEW st, NEW s \in Seq(Byte), NEW r, NEW p,
           NEW nx \in Places, OnScript(scr, nx), OverPhase(scr, st, s, r, p, nx)
    PROVE  OverPhase(scr, st, Cat(s, Encode(TokenAt(scr, nx))), r, p, Succ(scr, nx))
<1>1. /\ Context(scr, r, p, st) /\ r <= Len(scr)
      /\ Len(st) >= 2 /\ Len(Last(st).got) = Last(st).len /\ Last(st).state = "over"
      /\ Written(scr, s, Here(scr, r, p), nx)
  BY Zenon DEF OverPhase
<1>2. Written(scr, Cat(s, Encode(TokenAt(scr, nx))), Here(scr, r, p), Succ(scr, nx))
  BY <1>1, HereMore
<1> QED
  BY <1>1, <1>2, Zenon DEF OverPhase

LEMMA ContentMore ==
    ASSUME NEW scr, IsScript(scr), NEW st, NEW s \in Seq(Byte), NEW r, NEW p,
           NEW nx \in Places, OnScript(scr, nx), ContentPhase(scr, st, s, r, p, nx)
    PROVE  ContentPhase(scr, st, Cat(s, Encode(TokenAt(scr, nx))), r, p, Succ(scr, nx))
<1>1. /\ Pending(scr, r, p, st) /\ Last(st).state = "content"
      /\ Last(st).elemtype = LeadingType(Leading(TokenAt(scr, <<r, p>>)))
      /\ Last(st).elemtype # "unknown" /\ Ahead(scr, s, r, p, nx)
  BY Zenon DEF ContentPhase
<1>2. Ahead(scr, Cat(s, Encode(TokenAt(scr, nx))), r, p, Succ(scr, nx))
  BY <1>1, AheadMore
<1> QED
  BY <1>1, <1>2, Zenon DEF ContentPhase

LEMMA LenMore ==
    ASSUME NEW scr, IsScript(scr), NEW st, NEW s \in Seq(Byte), NEW r, NEW p,
           NEW nx \in Places, OnScript(scr, nx), LenPhase(scr, st, s, r, p, nx)
    PROVE  LenPhase(scr, st, Cat(s, Encode(TokenAt(scr, nx))), r, p, Succ(scr, nx))
<1>1. /\ Above(scr, st, r, p)
      /\ Last(st) = Frame(LeadingType(Leading(TokenAt(scr, <<r, p>>))))
      /\ LeadingType(Leading(TokenAt(scr, <<r, p>>))) \in {"array", "bulk"}
      /\ Ahead(scr, s, r, p, nx)
  BY Zenon DEF LenPhase
<1>2. PICK fs : Pending(scr, r, p, fs)
  BY <1>1, Zenon DEF Above
<1>3. Ahead(scr, Cat(s, Encode(TokenAt(scr, nx))), r, p, Succ(scr, nx))
  BY <1>1, <1>2, AheadMore
<1> QED
  BY <1>1, <1>3, Zenon DEF LenPhase

LEMMA BulkMore ==
    ASSUME NEW scr, IsScript(scr), NEW st, NEW s \in Seq(Byte), NEW r, NEW p,
           NEW nx \in Places, OnScript(scr, nx), BulkPhase(scr, st, s, r, p, nx)
    PROVE  BulkPhase(scr, st, Cat(s, Encode(TokenAt(scr, nx))), r, p, Succ(scr, nx))
<1>1. /\ Above(scr, st, r, p) /\ TokenAt(scr, <<r, p>>).kind \in {"bulk", "badbulk"}
      /\ IsFrame(Last(st)) /\ Last(st).kind = "bulk" /\ Last(st).state = "plain"
      /\ Last(st).len = BulkLength(TokenAt(scr, <<r, p>>))
      /\ Last(st).got \in Seq(Byte) /\ Len(Last(st).got) < Last(st).len + 2
      /\ Follows(scr, Cat(Last(st).got, s), Line(TokenAt(scr, <<r, p>>).val),
                 Succ(scr, <<r, p>>), nx)
  BY Zenon DEF BulkPhase
<1>2. PICK fs : Pending(scr, r, p, fs)
  BY <1>1, Zenon DEF Above
<1>3. PICK t \in Token : t = TokenAt(scr, <<r, p>>)
  BY <1>2, PendingFacts
<1>4. PICK a \in Places : a = Succ(scr, <<r, p>>)
  BY <1>2, PendingFacts
<1>5. PICK pre \in Seq(Byte) : pre = Line(t.val)
  <2>1. t.val \in Seq(Byte)
    BY <1>1, <1>3, BulkLengthOf
  <2> QED
    BY <2>1, LineType
<1>6. PICK e \in Seq(Byte) : e = Encode(TokenAt(scr, nx))
  BY TokenAtType, EncodeType
<1>7. PICK got \in Seq(Byte) : got = Last(st).got
  BY <1>1
<1>8. Follows(scr, Cat(got, s), pre, a, nx)
  BY <1>1, <1>3, <1>4, <1>5, <1>7, Zenon
<1>9. Follows(scr, Cat(Cat(got, s), e), pre, a, Succ(scr, nx))
  BY <1>6, <1>8, FollowsMore
<1>10. Cat(Cat(got, s), e) = Cat(got, Cat(s, e))
  BY BytesSequence, CatAssoc
<1>11. Follows(scr, Cat(Last(st).got, Cat(s, Encode(TokenAt(scr, nx)))),
               Line(TokenAt(scr, <<r, p>>).val), Succ(scr, <<r, p>>), Succ(scr, nx))
  BY <1>3, <1>4, <1>5, <1>6, <1>7, <1>9, <1>10, Zenon
<1> QED
  BY <1>1, <1>11, Zenon DEF BulkPhase

LEMMA SimpleMore ==
    ASSUME NEW scr, IsScript(scr), NEW st, NEW s \in Seq(Byte), NEW r, NEW p,
           NEW nx \in Places, OnScript(scr, nx), SimplePhase(scr, st, s, r, p, nx)
    PROVE  SimplePhase(scr, st, Cat(s, Encode(TokenAt(scr, nx))), r, p, Succ(scr, nx))
<1>1. /\ Above(scr, st, r, p) /\ TokenAt(scr, <<r, p>>).kind \in {"simple", "error"}
      /\ IsFrame(Last(st)) /\ Last(st).state = "plain"
      /\ Last(st).kind = TokenAt(scr, <<r, p>>).kind
  BY Zenon DEF SimplePhase
<1>2. PICK rest : /\ Overlaying(Last(st).got, rest, TokenAt(scr, <<r, p>>).val)
                  /\ Follows(scr, s, Line(rest), Succ(scr, <<r, p>>), nx)
  BY Zenon DEF SimplePhase
<1>3. PICK fs : Pending(scr, r, p, fs)
  BY <1>1, Zenon DEF Above
<1>4. PICK a \in Places : a = Succ(scr, <<r, p>>)
  BY <1>3, PendingFacts
<1>5. PICK pre \in Seq(Byte) : pre = Line(rest)
  <2>1. rest \in Text
    BY <1>2, Zenon DEF Overlaying
  <2> QED
    BY <2>1, TextOfBytes, LineType
<1>6. Follows(scr, s, pre, a, nx)
  BY <1>2, <1>4, <1>5, Zenon
<1>7. Follows(scr, Cat(s, Encode(TokenAt(scr, nx))), pre, a, Succ(scr, nx))
  BY <1>6, FollowsMore
<1>8. Follows(scr, Cat(s, Encode(TokenAt(scr, nx))), Line(rest), Succ(scr, <<r, p>>), Succ(scr, nx))
  BY <1>4, <1>5, <1>7, Zenon
<1> QED
  BY <1>1, <1>2, <1>8, Zenon DEF SimplePhase

LEMMA PhaseMore ==
    ASSUME NEW scr, IsScript(scr), NEW st, NEW s \in Seq(Byte), NEW r,
           NEW nx \in Places, OnScript(scr, nx)
    PROVE  /\ Phase(scr, st, s, r, nx) =>
                Phase(scr, st, Cat(s, Encode(TokenAt(scr, nx))), r, Succ(scr, nx))
           /\ \A b : Resting(scr, st, b, s, r, nx) =>
                Resting(scr, st, b, Cat(s, Encode(TokenAt(scr, nx))), r, Succ(scr, nx))
<1>1. PICK u : u = Cat(s, Encode(TokenAt(scr, nx)))
  OBVIOUS
<1>2. PICK ny : ny = Succ(scr, nx)
  OBVIOUS
<1>3. ASSUME NEW p
      PROVE  /\ TypePhase(scr, st, s, r, p, nx) => TypePhase(scr, st, u, r, p, ny)
             /\ OverPhase(scr, st, s, r, p, nx) => OverPhase(scr, st, u, r, p, ny)
             /\ ContentPhase(scr, st, s, r, p, nx) => ContentPhase(scr, st, u, r, p, ny)
             /\ LenPhase(scr, st, s, r, p, nx) => LenPhase(scr, st, u, r, p, ny)
             /\ BulkPhase(scr, st, s, r, p, nx) => BulkPhase(scr, st, u, r, p, ny)
             /\ SimplePhase(scr, st, s, r, p, nx) => SimplePhase(scr, st, u, r, p, ny)
  <2>1. TypePhase(scr, st, s, r, p, nx) => TypePhase(scr, st, u, r, p, ny)
    BY <1>1, <1>2, TypeMore, Zenon
  <2>2. OverPhase(scr, st, s, r, p, nx) => OverPhase(scr, st, u, r, p, ny)
    BY <1>1, <1>2, OverMore, Zenon
  <2>3. ContentPhase(scr, st, s, r, p, nx) => ContentPhase(scr, st, u, r, p, ny)
    BY <1>1, <1>2, ContentMore, Zenon
  <2>4. LenPhase(scr, st, s, r, p, nx) => LenPhase(scr, st, u, r, p, ny)
    BY <1>1, <1>2, LenMore, Zenon
  <2>5. BulkPhase(scr, st, s, r, p, nx) => BulkPhase(scr, st, u, r, p, ny)
    BY <1>1, <1>2, BulkMore, Zenon
  <2>6. SimplePhase(scr, st, s, r, p, nx) => SimplePhase(scr, st, u, r, p, ny)
    BY <1>1, <1>2, SimpleMore, Zenon
  <2> QED
    BY <2>1, <2>2, <2>3, <2>4, <2>5, <2>6, Zenon
<1>4. Phase(scr, st, s, r, nx) => Phase(scr, st, u, r, ny)
  BY <1>3, Zenon DEF Phase
<1>5. ASSUME NEW b, Resting(scr, st, b, s, r, nx) PROVE Resting(scr, st, b, u, r, ny)
  BY <1>3, <1>5, Zenon DEF Resting
<1> QED
  BY <1>1, <1>2, <1>4, <1>5, Zenon

-----------------------------------------------------------------------------
(* The invariant.  It speaks of the state as a parameter: the bytes read and those on
   their way lead from where the parser is to where the server is; the replies taken
   so far answer the first of the script.                                   *)

Answered(scr, ds) ==
    Sequence(ds) /\ Len(ds) <= Len(scr) /\ \A k \in 1 .. Len(ds) : Answer(scr[k], ds[k])

ValidPlace(scr, nx) ==
    nx \in Places /\ nx[1] >= 1 /\ nx[2] >= 1 /\ (nx[1] <= Len(scr) => OnScript(scr, nx))

Bytes(b, w) == b \in Seq(Byte) /\ w \in Seq(Byte)

Replies(scr, av, de) == Sequence(av) /\ Sequence(de) /\ Answered(scr, Cat(de, av))

(* The parser with the frames st, the bytes s before it, b of them in its buffer. *)
Going(scr, bs, er, st, b, s, r, nx) ==
    /\ ~er => Phase(scr, st, s, r, nx)
    /\ ~er /\ ~bs => Resting(scr, st, b, s, r, nx)
    /\ er => Stuck(scr, st, b)

InStep(scr, nx, w, b, bs, er, st, av, de) ==
    /\ IsScript(scr) /\ ValidPlace(scr, nx) /\ Bytes(b, w)
    /\ bs \in BOOLEAN /\ er \in BOOLEAN
    /\ Replies(scr, av, de)
    /\ ~bs /\ ~er => av = <<>>
    /\ Going(scr, bs, er, st, b, Cat(b, w), Len(Cat(de, av)) + 1, nx)

LEMMA SuccValid ==
    ASSUME NEW scr, IsScript(scr), NEW nx \in Places, OnScript(scr, nx)
    PROVE  ValidPlace(scr, Succ(scr, nx))
<1>1. PICK k \in 1 .. Len(scr) : k = nx[1]
  BY DEF OnScript
<1>2. PICK i \in 1 .. Len(scr[k]) : i = nx[2]
  BY <1>1 DEF OnScript
<1>3. Len(scr) \in Nat /\ Len(scr[k]) \in Nat /\ k \in Nat /\ i \in Nat
  BY ScriptShape
<1>4. CASE i < Len(scr[k])
  <2>1. Succ(scr, nx) = <<k, i + 1>>
    BY <1>1, <1>2, <1>4 DEF Succ
  <2>2. i + 1 \in 1 .. Len(scr[k])
    BY <1>3, <1>4
  <2> QED
    BY <1>3, <2>1, <2>2 DEF ValidPlace, OnScript, Places
<1>5. CASE ~(i < Len(scr[k]))
  <2>1. Succ(scr, nx) = <<k + 1, 1>>
    BY <1>1, <1>2, <1>5 DEF Succ
  <2>2. k + 1 <= Len(scr) => 1 \in 1 .. Len(scr[k + 1]) /\ k + 1 \in 1 .. Len(scr)
    <3>1. k + 1 <= Len(scr) => k + 1 \in 1 .. Len(scr)
      BY <1>3
    <3>2. k + 1 <= Len(scr) => Len(scr[k + 1]) >= 1 /\ Len(scr[k + 1]) \in Nat
      BY <3>1, ScriptShape
    <3> QED
      BY <3>1, <3>2
  <2>6. PICK q : q = <<k + 1, 1>>
    OBVIOUS
  <2>3. q = <<k + 1, 1>> /\ q[1] = k + 1 /\ q[2] = 1
    BY <2>6
  <2>4. q \in Places /\ q[1] >= 1 /\ q[2] >= 1
    BY <1>3, <2>3 DEF Places
  <2>5. q[1] <= Len(scr) => OnScript(scr, q)
    BY <2>2, <2>3 DEF OnScript
  <2> QED
    BY <2>1, <2>3, <2>4, <2>5, Zenon DEF ValidPlace
<1> QED
  BY <1>4, <1>5

LEMMA FirstValid ==
    ASSUME NEW scr, IsScript(scr), NEW k \in Nat, k >= 1
    PROVE  ValidPlace(scr, <<k, 1>>) /\ Here(scr, k, 1) = <<k, 1>>
<1>1. Len(scr) \in Nat
  BY DEF IsScript
<1>2. k <= Len(scr) => Len(scr[k]) >= 1 /\ Len(scr[k]) \in Nat
  <2>1. k <= Len(scr) => k \in 1 .. Len(scr)
    BY <1>1
  <2> QED
    BY <2>1, ScriptShape
<1>3. Here(scr, k, 1) = <<k, 1>>
  BY <1>1, <1>2 DEF Here
<1>4. ValidPlace(scr, <<k, 1>>)
  BY <1>1, <1>2 DEF ValidPlace, OnScript, Places
<1> QED
  BY <1>3, <1>4

(* A parser that starts on reply k, with nothing before it. *)
LEMMA FreshPhase ==
    ASSUME NEW scr, IsScript(scr), NEW k \in Nat, k >= 1, k <= Len(scr) + 1,
           NEW st, st = <<Frame("reply")>>, NEW nx, nx = <<k, 1>>
    PROVE  /\ ValidPlace(scr, nx)
           /\ Phase(scr, st, Cat(<<>>, <<>>), k, nx)
           /\ Resting(scr, st, <<>>, Cat(<<>>, <<>>), k, nx)
<1>1. Cat(<<>>, <<>>) = <<>>
  BY EmptyShape, CatEmpty
<1>2. ValidPlace(scr, <<k, 1>>) /\ Here(scr, k, 1) = <<k, 1>>
  BY FirstValid
<1>3. Context(scr, k, 1, st) /\ Wanting(st) /\ Last(st).state = "type"
  BY FreshContext
<1>4. Written(scr, <<>>, nx, nx)
  BY WrittenNothing
<1>5. TypePhase(scr, st, <<>>, k, 1, nx)
  BY <1>2, <1>3, <1>4, Zenon DEF TypePhase
<1>6. Phase(scr, st, <<>>, k, nx)
  BY <1>5, Zenon DEF Phase
<1>7. Resting(scr, st, <<>>, <<>>, k, nx)
  BY <1>5, Zenon DEF Resting
<1> QED
  BY <1>1, <1>2, <1>6, <1>7, Zenon

(* A phase is one of the reply that is being read. *)
LEMMA PhaseReply ==
    ASSUME NEW scr, NEW st, NEW s, NEW r, NEW nx, Phase(scr, st, s, r, nx)
    PROVE  r \in Nat /\ r >= 1 /\ r <= Len(scr) + 1
<1>1. PICK p : \/ TypePhase(scr, st, s, r, p, nx) \/ ContentPhase(scr, st, s, r, p, nx)
               \/ OverPhase(scr, st, s, r, p, nx) \/ LenPhase(scr, st, s, r, p, nx)
               \/ BulkPhase(scr, st, s, r, p, nx) \/ SimplePhase(scr, st, s, r, p, nx)
  BY Zenon DEF Phase
<1>2. \E fs : Context(scr, r, p, fs)
  <2>1. TypePhase(scr, st, s, r, p, nx) => \E fs : Context(scr, r, p, fs)
    BY Zenon DEF TypePhase
  <2>2. ContentPhase(scr, st, s, r, p, nx) => \E fs : Context(scr, r, p, fs)
    BY Zenon DEF ContentPhase, Pending
  <2>3. OverPhase(scr, st, s, r, p, nx) => \E fs : Context(scr, r, p, fs)
    BY Zenon DEF OverPhase
  <2>4. LenPhase(scr, st, s, r, p, nx) => \E fs : Context(scr, r, p, fs)
    BY Zenon DEF LenPhase, Above, Pending
  <2>5. BulkPhase(scr, st, s, r, p, nx) => \E fs : Context(scr, r, p, fs)
    BY Zenon DEF BulkPhase, Above, Pending
  <2>6. SimplePhase(scr, st, s, r, p, nx) => \E fs : Context(scr, r, p, fs)
    BY Zenon DEF SimplePhase, Above, Pending
  <2> QED
    BY <1>1, <2>1, <2>2, <2>3, <2>4, <2>5, <2>6, Zenon
<1> QED
  BY <1>2, Zenon DEF Context

LEMMA AnsweredMore ==
    ASSUME NEW scr, NEW ds, Answered(scr, ds), NEW r, r = Len(ds) + 1, r + 1 <= Len(scr) + 1,
           Len(scr) \in Nat, NEW x, Answer(scr[r], x)
    PROVE  Answered(scr, Append(ds, x))
<1>1. /\ Sequence(ds) /\ Len(ds) <= Len(scr) /\ \A k \in 1 .. Len(ds) : Answer(scr[k], ds[k])
  BY Zenon DEF Answered
<1>2. PICK n \in Nat : n = Len(ds)
  BY <1>1, LenType
<1>3. PICK es : es = Append(ds, x)
  OBVIOUS
<1>4. /\ Sequence(es) /\ Len(es) = n + 1 /\ es[n + 1] = x
      /\ \A i \in 1 .. n : es[i] = ds[i]
  BY <1>1, <1>2, <1>3, AppendedShape
<1>5. n + 1 <= Len(scr)
  BY <1>2
<1>6. ASSUME NEW k \in 1 .. n + 1 PROVE Answer(scr[k], es[k])
  <2>1. CASE k = n + 1
    BY <1>2, <1>4, <2>1
  <2>2. CASE k # n + 1
    <3>1. k \in 1 .. n
      BY <1>2, <2>2
    <3> QED
      BY <1>1, <1>2, <1>4, <3>1
  <2> QED
    BY <2>1, <2>2
<1> QED
  BY <1>3, <1>4, <1>5, <1>6 DEF Answered

LEMMA AnsweredFirst ==
    ASSUME NEW scr, Len(scr) \in Nat, NEW av, NEW de, Replies(scr, av, de)
    PROVE  /\ Answered(scr, Cat(de, <<>>)) /\ Sequence(de)
           /\ Len(Cat(de, <<>>)) = Len(de) /\ Len(de) \in Nat /\ Len(de) <= Len(scr)
<1>1. Sequence(av) /\ Sequence(de) /\ Answered(scr, Cat(de, av))
  BY Zenon DEF Replies
<1>2. PICK ds : ds = Cat(de, av)
  OBVIOUS
<1>3. /\ Len(ds) = Len(de) + Len(av) /\ \A i \in 1 .. Len(de) : ds[i] = de[i]
  BY <1>1, <1>2, ConcatShape DEF Cat
<1>4. Len(de) \in Nat /\ Len(av) \in Nat
  BY <1>1, LenType
<1>5. Len(ds) <= Len(scr) /\ \A k \in 1 .. Len(ds) : Answer(scr[k], ds[k])
  BY <1>1, <1>2, Zenon DEF Answered
<1>6. Len(de) <= Len(scr) /\ \A k \in 1 .. Len(de) : Answer(scr[k], de[k])
  BY <1>3, <1>4, <1>5
<1>7. Cat(de, <<>>) = de
  BY <1>1, CatEmpty
<1> QED
  BY <1>1, <1>4, <1>6, <1>7, Zenon DEF Answered

LEMMA RestingPhase ==
    ASSUME NEW scr, NEW st, NEW b, NEW s, NEW r, NEW nx, Resting(scr, st, b, s, r, nx)
    PROVE  Phase(scr, st, s, r, nx)
BY Zenon DEF Resting, Phase

LEMMA BuildersTop ==
    ASSUME Parse, NEW f, f = Last(stack_rrb)
    PROVE  /\ f.kind \in {"reply", "array"} /\ f.state = "type" => BuildType
           /\ f.kind = "bulk" /\ f.state = "plain" => BuildBulkPlain
           /\ busy /\ script' = script /\ next' = next /\ wire' = wire
<1>1. f = top
  BY DEF top
<1>2. BuildType => f.kind \in {"reply", "array"} /\ f.state = "type" /\ busy
  BY <1>1, Zenon DEF BuildType, At
<1>3. BuildContent => f.state = "content" /\ busy
  BY <1>1, Zenon DEF BuildContent, At
<1>4. BuildLen => f.state = "len" /\ busy
  BY <1>1, Zenon DEF BuildLen, At
<1>5. BuildOver => f.state = "over" /\ busy
  BY <1>1, Zenon DEF BuildOver, At
<1>6. BuildBulkPlain => f.kind = "bulk" /\ f.state = "plain" /\ busy
  BY <1>1, Zenon DEF BuildBulkPlain, At
<1>7. BuildSimplePlain => f.kind \in {"simple", "error"} /\ f.state = "plain" /\ busy
  BY <1>1, Zenon DEF BuildSimplePlain, At
<1>8. /\ \/ BuildType \/ BuildContent \/ BuildLen \/ BuildOver
         \/ BuildBulkPlain \/ BuildSimplePlain
      /\ script' = script /\ next' = next /\ wire' = wire
  BY DEF Parse, serverVars
<1>9. f.kind \in {"reply", "array"} /\ f.state = "type" => BuildType
  BY <1>3, <1>4, <1>5, <1>6, <1>7, <1>8
<1>10. f.kind = "bulk" /\ f.state = "plain" => BuildBulkPlain
  BY <1>2, <1>3, <1>4, <1>5, <1>7, <1>8
<1> QED
  BY <1>2, <1>3, <1>4, <1>5, <1>6, <1>7, <1>8, <1>9, <1>10, Zenon

(* After a violation of the protocol every further round ends as the last one did. *)
LEMMA StuckRound ==
    ASSUME bb \in Seq(Byte), Stuck(script, stack_rrb, bb), Parse
    PROVE  Throws /\ bb' = bb /\ Stuck(script, stack_rrb', bb)
<1>1. PICK f : f = Last(stack_rrb) /\ f = top
  BY DEF top
<1>2. \E k \in DOMAIN script : ~WellFormed(script[k])
  BY Zenon DEF Stuck
<1>3. CASE /\ OpenFrames(stack_rrb) /\ f.state = "type"
           /\ bb # <<>> /\ LeadingType(Head(bb)) = "unknown"
  <2>1. f.kind \in {"reply", "array"}
    BY <1>1, <1>3, OpenShape
  <2>2. BuildType
    BY <1>1, <1>3, <2>1, BuildersTop
  <2>3. Throws /\ bb' = bb /\ stack_rrb' = stack_rrb
    BY <1>3, <2>2 DEF BuildType
  <2> QED
    BY <2>3
<1>4. CASE /\ Sequence(stack_rrb) /\ Len(stack_rrb) >= 2 /\ OpenFrames(Front(stack_rrb))
           /\ IsFrame(f) /\ f.kind = "bulk" /\ f.state = "plain" /\ f.len \in Nat
           /\ f.got \in Seq(Byte) /\ Len(f.got) = f.len + 2
           /\ SubSeq(f.got, f.len + 1, f.len + 2) # <<"CR", "LF">>
  <2>1. BuildBulkPlain
    BY <1>1, <1>4, BuildersTop
  <2>2. f.len + 2 - Len(f.got) = 0
    <3>1. PICK k \in Nat : k = f.len
      BY <1>4
    <3>2. Len(f.got) = k + 2
      BY <1>4, <3>1
    <3> QED
      BY <3>1, <3>2
  <2>3. AppendSize(0) = 0
    BY DEF AppendSize
  <2>4. f.got \o SubSeq(bb, 1, 0) = f.got
    BY <1>4
  <2>5. Throws /\ bb' = bb /\ SetTop([top EXCEPT !.got = f.got])
    BY <1>1, <1>4, <2>1, <2>2, <2>3, <2>4, Zenon DEF BuildBulkPlain
  <2>6. PICK g : g = Filled(f, f.got)
    OBVIOUS
  <2>7. PICK gs : gs = stack_rrb'
    OBVIOUS
  <2>8. gs = Replaced(stack_rrb, g)
    BY <1>1, <2>5, <2>6, <2>7, Zenon DEF SetTop, Filled, Replaced
  <2>9. g = FrameOf(f.kind, f.state, f.elemtype, f.len, f.got)
    BY <1>4, <2>6, FilledFrame
  <2>10. g = f
    BY <1>4, <2>9, Zenon DEF FrameOf, IsFrame
  <2>11. Sequence(gs) /\ Len(gs) = Len(stack_rrb) /\ Front(gs) = Front(stack_rrb) /\ Last(gs) = g
    <3>1. Len(stack_rrb) >= 1
      BY <1>4, LenType
    <3> QED
      BY <1>4, <2>8, <3>1, ReplacedShape, FrontReplaced
  <2>12. Stuck(script, gs, bb)
    BY <1>2, <1>4, <2>10, <2>11, Zenon DEF Stuck
  <2> QED
    BY <2>5, <2>7, <2>12
<1> QED
  BY <1>1, <1>3, <1>4, Zenon DEF Stuck

LEMMA AfterParse ==
    ASSUME InStep(script, next, wire, bb, busy, error, stack_rrb, available, delivered), Parse
    PROVE  InStep(script, next, wire, bb', busy', error', stack_rrb', available', delivered')
<1>1. /\ IsScript(script) /\ ValidPlace(script, next) /\ Bytes(bb, wire)
      /\ busy \in BOOLEAN /\ error \in BOOLEAN
      /\ Replies(script, available, delivered)
      /\ Going(script, busy, error, stack_rrb, bb, Cat(bb, wire),
               Len(Cat(delivered, available)) + 1, next)
  BY Zenon DEF InStep
<1>2. bb \in Seq(Byte) /\ wire \in Seq(Byte) /\ next \in Places /\ Len(script) \in Nat
  BY <1>1 DEF Bytes, ValidPlace, IsScript
<1>3. /\ Sequence(available) /\ Sequence(delivered)
      /\ Answered(script, Cat(delivered, available))
  BY <1>1, Zenon DEF Replies
<1>4. busy
  BY BuildersTop
<1>5. PICK r : r = Len(Cat(delivered, available)) + 1
  OBVIOUS
<1>6. CASE error
  <2>1. Stuck(script, stack_rrb, bb)
    BY <1>1, <1>6, Zenon DEF Going
  <2>2. Throws /\ bb' = bb /\ Stuck(script, stack_rrb', bb)
    BY <1>2, <2>1, StuckRound
  <2>3. busy' = FALSE /\ error' = TRUE /\ available' = available /\ delivered' = delivered
    BY <2>2 DEF Throws
  <2>4. Going(script, FALSE, TRUE, stack_rrb', bb, Cat(bb, wire), r, next)
    BY <2>2, Zenon DEF Going
  <2> QED
    BY <1>1, <1>5, <2>2, <2>3, <2>4, Zenon DEF InStep
<1>7. CASE ~error
  <2>1. Phase(script, stack_rrb, Cat(bb, wire), r, next)
    BY <1>1, <1>5, <1>7, Zenon DEF Going
  <2>2. RoundOf(script, r, next)
    BY <1>1, <1>2, <2>1, ParseRound
  <2>3. bb' \in Seq(Byte) /\ Bytes(bb', wire)
    BY <1>2, <2>2, Zenon DEF RoundOf, Bytes
  <2>4. error = FALSE /\ busy = TRUE
    BY <1>1, <1>4, <1>7
  <2>5. PICK st : st = stack_rrb'
    OBVIOUS
  <2>6. PICK b : b = bb'
    OBVIOUS
  <2>7. ASSUME Stops, Resting(script, st, b, Cat(b, wire), r, next)
        PROVE  InStep(script, next, wire, b, busy', error', st, available', delivered')
    <3>1. /\ busy' = FALSE /\ error' = FALSE /\ available' = <<>>
          /\ delivered' = Cat(delivered, available)
      BY <2>4, <2>7 DEF Stops, Cat
    <3>2. PICK ds : ds = Cat(delivered, available)
      OBVIOUS
    <3>3. Sequence(ds) /\ Cat(ds, <<>>) = ds /\ Sequence(<<>>)
      BY <1>3, <3>2, CatShape, CatEmpty, EmptyShape
    <3>4. Replies(script, <<>>, ds)
      BY <1>3, <3>2, <3>3, Zenon DEF Replies
    <3>5. Phase(script, st, Cat(b, wire), r, next)
      BY <2>7, RestingPhase
    <3>6. Going(script, FALSE, FALSE, st, b, Cat(b, wire), r, next)
      BY <2>7, <3>5, Zenon DEF Going
    <3>7. r = Len(Cat(ds, <<>>)) + 1
      BY <1>5, <3>2, <3>3, Zenon
    <3>8. InStep(script, next, wire, b, FALSE, FALSE, st, <<>>, ds)
      <4>1. FALSE \in BOOLEAN
        OBVIOUS
      <4> QED
        BY <1>1, <2>3, <2>6, <3>4, <3>6, <3>7, <4>1, Zenon DEF InStep
    <3> QED
      BY <3>1, <3>2, <3>8, Zenon
  <2>8. ASSUME Throws, Stuck(script, st, b)
        PROVE  InStep(script, next, wire, b, busy', error', st, available', delivered')
    <3>1. busy' = FALSE /\ error' = TRUE /\ available' = available /\ delivered' = delivered
      BY <2>8 DEF Throws
    <3>2. Going(script, FALSE, TRUE, st, b, Cat(b, wire), r, next)
      BY <2>8, Zenon DEF Going
    <3>3. FALSE \in BOOLEAN /\ TRUE \in BOOLEAN
      OBVIOUS
    <3> QED
      BY <1>1, <1>5, <2>3, <2>6, <3>1, <3>2, <3>3, Zenon DEF InStep
  <2>9. ASSUME Unfailing, GoesOn(script, Cat(b, wire), r, next)
        PROVE  InStep(script, next, wire, b, busy', error', st, available', delivered')
    <3>1. busy' = TRUE /\ error' = FALSE /\ delivered' = delivered
      BY <2>4, <2>9 DEF Unfailing
    <3>2. TRUE \in BOOLEAN /\ FALSE \in BOOLEAN
      OBVIOUS
    <3>3. CASE available' = available /\ Phase(script, st, Cat(b, wire), r, next)
      <4>1. Going(script, TRUE, FALSE, st, b, Cat(b, wire), r, next)
        BY <3>3, Zenon DEF Going
      <4>2. InStep(script, next, wire, b, TRUE, FALSE, st, available, delivered)
        BY <1>1, <1>5, <2>3, <2>6, <3>2, <4>1, Zenon DEF InStep
      <4> QED
        BY <3>1, <3>3, <4>2, Zenon
    <3>4. ASSUME NEW x, Answer(script[r], x), available' = Append(available, x),
                 Phase(script, st, Cat(b, wire), r + 1, next)
          PROVE  InStep(script, next, wire, b, TRUE, FALSE, st, available', delivered)
      <4>1. PICK ds : ds = Cat(delivered, available)
        OBVIOUS
      <4>2. PICK av : av = Append(available, x)
        OBVIOUS
      <4>3. Sequence(ds) /\ Sequence(av) /\ Len(Append(ds, x)) = Len(ds) + 1
        BY <1>3, <4>1, <4>2, CatShape, AppendCat
      <4>4. Cat(delivered, av) = Append(ds, x)
        <5>1. av = Cat(available, Unit(x)) /\ Append(ds, x) = Cat(ds, Unit(x))
          BY <1>3, <4>2, <4>3, AppendCat
        <5>2. Cat(Cat(delivered, available), Unit(x)) = Cat(delivered, Cat(available, Unit(x)))
          BY <1>3, UnitType, CatAssoc
        <5> QED
          BY <4>1, <5>1, <5>2, Zenon
      <4>5. r + 1 <= Len(script) + 1
        BY <3>4, PhaseReply, Zenon
      <4>6. Answered(script, Append(ds, x))
        BY <1>2, <1>3, <1>5, <3>4, <4>1, <4>5, AnsweredMore
      <4>7. Replies(script, av, delivered)
        BY <1>3, <4>3, <4>4, <4>6, Zenon DEF Replies
      <4>8. r + 1 = Len(Cat(delivered, av)) + 1
        BY <1>5, <4>1, <4>3, <4>4, Zenon
      <4>9. Going(script, TRUE, FALSE, st, b, Cat(b, wire), r + 1, next)
        BY <3>4, Zenon DEF Going
      <4>10. InStep(script, next, wire, b, TRUE, FALSE, st, av, delivered)
        BY <1>1, <2>3, <2>6, <3>2, <4>7, <4>8, <4>9, Zenon DEF InStep
      <4> QED
        BY <3>4, <4>2, <4>10, Zenon
    <3>5. \/ available' = available /\ Phase(script, st, Cat(b, wire), r, next)
          \/ \E x : /\ Answer(script[r], x) /\ available' = Append(available, x)
                    /\ Phase(script, st, Cat(b, wire), r + 1, next)
      BY <2>5, <2>9, Zenon DEF GoesOn
    <3> QED
      BY <3>1, <3>3, <3>4, <3>5, Zenon
  <2>10. \/ Stops /\ Resting(script, st, b, Cat(b, wire), r, next)
         \/ Throws /\ Stuck(script, st, b)
         \/ Unfailing /\ GoesOn(script, Cat(b, wire), r, next)
    BY <2>2, <2>5, <2>6, Zenon DEF RoundOf
  <2> QED
    BY <2>5, <2>6, <2>7, <2>8, <2>9, <2>10, Zenon
<1> QED
  BY <1>6, <1>7

(* What the server writes is what the parser has to come. *)
LEMMA AfterServerWrites ==
    ASSUME InStep(script, next, wire, bb, busy, error, stack_rrb, available, delivered),
           ServerWrites
    PROVE  InStep(script, next', wire', bb, busy, error, stack_rrb, available, delivered)
<1>1. /\ IsScript(script) /\ ValidPlace(script, next) /\ Bytes(bb, wire)
      /\ busy \in BOOLEAN /\ error \in BOOLEAN
      /\ Replies(script, available, delivered) /\ (~busy /\ ~error => available = <<>>)
      /\ Going(script, busy, error, stack_rrb, bb, Cat(bb, wire),
               Len(Cat(delivered, available)) + 1, next)
  BY Zenon DEF InStep
<1>2. bb \in Seq(Byte) /\ wire \in Seq(Byte) /\ next \in Places
  BY <1>1, Zenon DEF Bytes, ValidPlace
<1>3. /\ wire' = wire \o Encode(script[next[1]][next[2]])
      /\ next' = IF next[2] < Len(script[next[1]]) THEN <<next[1], next[2] + 1>>
                 ELSE <<next[1] + 1, 1>>
      /\ next[1] <= Len(script)
  BY Zenon DEF ServerWrites
<1>4. OnScript(script, next)
  BY <1>1, <1>3, Zenon DEF ValidPlace
<1>5. next' = Succ(script, next)
  BY <1>3, Zenon DEF Succ
<1>6. PICK e \in Seq(Byte) : e = Encode(TokenAt(script, next))
  BY <1>1, <1>2, <1>4, TokenAtType, EncodeType
<1>7. wire' = Cat(wire, e)
  BY <1>3, <1>6, Zenon DEF Cat, TokenAt
<1>8. Cat(bb, Cat(wire, e)) = Cat(Cat(bb, wire), e) /\ Cat(wire, e) \in Seq(Byte)
      /\ Cat(bb, wire) \in Seq(Byte)
  BY <1>2, BytesSequence, CatAssoc, CatBytes
<1>9. PICK r : r = Len(Cat(delivered, available)) + 1
  OBVIOUS
<1>10. PICK ny : ny = Succ(script, next)
  OBVIOUS
<1>11. PICK u : u = Cat(Cat(bb, wire), e)
  OBVIOUS
<1>12. ValidPlace(script, ny)
  BY <1>1, <1>2, <1>4, <1>10, SuccValid
<1>13. /\ Phase(script, stack_rrb, Cat(bb, wire), r, next) =>
              Phase(script, stack_rrb, u, r, ny)
       /\ Resting(script, stack_rrb, bb, Cat(bb, wire), r, next) =>
              Resting(script, stack_rrb, bb, u, r, ny)
  BY <1>1, <1>2, <1>4, <1>6, <1>8, <1>10, <1>11, PhaseMore, Zenon
<1>14. Going(script, busy, error, stack_rrb, bb, u, r, ny)
  BY <1>1, <1>9, <1>13, Zenon DEF Going
<1>15. Bytes(bb, Cat(wire, e)) /\ Cat(bb, Cat(wire, e)) = u
  BY <1>2, <1>8, <1>11, Zenon DEF Bytes
<1>16. InStep(script, ny, Cat(wire, e), bb, busy, error, stack_rrb, available, delivered)
  BY <1>1, <1>9, <1>12, <1>14, <1>15, Zenon DEF InStep
<1> QED
  BY <1>5, <1>7, <1>10, <1>16, Zenon

(* A read moves bytes from the wire to the buffer, in their order. *)
LEMMA SplitWire ==
    ASSUME NEW w \in Seq(Byte), NEW n \in Nat, n <= Len(w)
    PROVE  /\ Taken(w, n) \in Seq(Byte) /\ After(w, n) \in Seq(Byte)
           /\ Cat(Taken(w, n), After(w, n)) = w
<1>1. Taken(w, n) \in Seq(Byte)
  BY DEF Taken
<1>2. After(w, n) \in Seq(Byte)
  BY AfterType
<1>3. n \in 0 .. Len(w) /\ Sequence(w)
  BY BytesSequence
<1>4. w = SubSeq(w, 1, n) \o SubSeq(w, n + 1, Len(w))
  BY <1>3, SplitAt
<1> QED
  BY <1>1, <1>2, <1>4, Zenon DEF Cat, Taken, After

LEMMA StuckMore ==
    ASSUME NEW scr, NEW st, NEW b \in Seq(Byte), NEW x \in Seq(Byte), Stuck(scr, st, b)
    PROVE  Stuck(scr, st, Cat(b, x))
<1>1. ASSUME b # <<>> PROVE Cat(b, x) # <<>> /\ Head(Cat(b, x)) = Head(b)
  BY <1>1 DEF Cat
<1> QED
  BY <1>1, Zenon DEF Stuck

LEMMA AfterReceive ==
    ASSUME InStep(script, next, wire, bb, busy, error, stack_rrb, available, delivered),
           NEW n \in 1 .. (IF ReadSize < Len(wire) THEN ReadSize ELSE Len(wire)), Receive(n)
    PROVE  InStep(script, next, wire', bb', TRUE, error, stack_rrb, available, delivered)
<1>1. /\ IsScript(script) /\ ValidPlace(script, next) /\ Bytes(bb, wire)
      /\ busy \in BOOLEAN /\ error \in BOOLEAN
      /\ Replies(script, available, delivered) /\ (~busy /\ ~error => available = <<>>)
      /\ Going(script, busy, error, stack_rrb, bb, Cat(bb, wire),
               Len(Cat(delivered, available)) + 1, next)
  BY Zenon DEF InStep
<1>2. bb \in Seq(Byte) /\ wire \in Seq(Byte)
  BY <1>1, Zenon DEF Bytes
<1>3. bb' = bb \o SubSeq(wire, 1, n) /\ wire' = SubSeq(wire, n + 1, Len(wire))
  BY Zenon DEF Receive
<1>4. n \in Nat /\ n <= Len(wire)
  BY <1>2, SizesAssumption
<1>5. PICK x \in Seq(Byte) : x = Taken(wire, n)
  BY <1>2, <1>4, SplitWire
<1>6. PICK y \in Seq(Byte) : y = After(wire, n)
  BY <1>2, <1>4, SplitWire
<1>7. bb' = Cat(bb, x) /\ wire' = y
  BY <1>3, <1>5, <1>6, Zenon DEF Cat, Taken, After
<1>8. Cat(Cat(bb, x), y) = Cat(bb, wire)
  <2>1. Cat(x, y) = wire
    BY <1>2, <1>4, <1>5, <1>6, SplitWire
  <2>2. Cat(Cat(bb, x), y) = Cat(bb, Cat(x, y))
    BY <1>2, BytesSequence, CatAssoc
  <2> QED
    BY <2>1, <2>2, Zenon
<1>9. PICK b \in Seq(Byte) : b = Cat(bb, x)
  BY <1>2, CatBytes
<1>10. PICK r : r = Len(Cat(delivered, available)) + 1
  OBVIOUS
<1>11. Stuck(script, stack_rrb, bb) => Stuck(script, stack_rrb, b)
  BY <1>2, <1>9, StuckMore
<1>12. Going(script, TRUE, error, stack_rrb, b, Cat(b, y), r, next)
  BY <1>1, <1>8, <1>9, <1>10, <1>11, Zenon DEF Going
<1>13. Bytes(b, y) /\ TRUE \in BOOLEAN
  BY Zenon DEF Bytes
<1>14. InStep(script, next, y, b, TRUE, error, stack_rrb, available, delivered)
  BY <1>1, <1>10, <1>12, <1>13, Zenon DEF InStep
<1> QED
  BY <1>7, <1>9, <1>14, Zenon

(* After a break the commands that are not answered are sent again: the parser and the
   server both start with the first reply that was not delivered. *)
LEMMA AfterBreak ==
    ASSUME InStep(script, next, wire, bb, busy, error, stack_rrb, available, delivered), Break
    PROVE  InStep(script, next', wire', bb', FALSE, FALSE, stack_rrb', available', delivered)
<1>1. IsScript(script) /\ Replies(script, available, delivered) /\ busy \in BOOLEAN
  BY Zenon DEF InStep
<1>2. /\ bb' = <<>> /\ stack_rrb' = <<Frame("reply")>> /\ available' = <<>>
      /\ wire' = <<>> /\ next' = <<Len(delivered) + 1, 1>>
  BY Zenon DEF Break, ResetParser
<1>3. Len(script) \in Nat
  BY <1>1 DEF IsScript
<1>4. /\ Answered(script, Cat(delivered, <<>>)) /\ Sequence(delivered)
      /\ Len(Cat(delivered, <<>>)) = Len(delivered) /\ Len(delivered) \in Nat
      /\ Len(delivered) <= Len(script)
  BY <1>1, <1>3, AnsweredFirst
<1>5. PICK k \in Nat : k = Len(delivered) + 1
  BY <1>4
<1>6. k >= 1 /\ k <= Len(script) + 1
  BY <1>3, <1>4, <1>5
<1>7. PICK st : st = <<Frame("reply")>>
  OBVIOUS
<1>8. PICK nx : nx = <<k, 1>>
  OBVIOUS
<1>9. /\ ValidPlace(script, nx)
      /\ Phase(script, st, Cat(<<>>, <<>>), k, nx)
      /\ Resting(script, st, <<>>, Cat(<<>>, <<>>), k, nx)
  BY <1>1, <1>6, <1>7, <1>8, FreshPhase
<1>10. Going(script, FALSE, FALSE, st, <<>>, Cat(<<>>, <<>>), k, nx)
  BY <1>9, Zenon DEF Going
<1>11. Replies(script, <<>>, delivered)
  BY <1>4, EmptyShape, Zenon DEF Replies
<1>12. Bytes(<<>>, <<>>)
  BY DEF Bytes
<1>13. FALSE \in BOOLEAN /\ k = Len(Cat(delivered, <<>>)) + 1
  BY <1>4, <1>5
<1>14. InStep(script, nx, <<>>, <<>>, FALSE, FALSE, st, <<>>, delivered)
  BY <1>1, <1>9, <1>10, <1>11, <1>12, <1>13, Zenon DEF InStep
<1> QED
  BY <1>2, <1>5, <1>7, <1>8, <1>14, Zenon

LEMMA AtTheStart ==
    ASSUME Init
    PROVE  InStep(script, next, wire, bb, busy, error, stack_rrb, available, delivered)
<1>1. /\ script \in Scripts /\ next = <<1, 1>> /\ wire = <<>> /\ bb = <<>>
      /\ busy = FALSE /\ error = FALSE /\ stack_rrb = <<Frame("reply")>>
      /\ available = <<>> /\ delivered = <<>>
  BY Zenon DEF Init
<1>2. IsScript(script)
  BY <1>1, ScriptsAssumption, Zenon DEF IsScript
<1>3. Len(script) \in Nat
  BY <1>2 DEF IsScript
<1>4. /\ ValidPlace(script, next)
      /\ Phase(script, stack_rrb, Cat(<<>>, <<>>), 1, next)
      /\ Resting(script, stack_rrb, <<>>, Cat(<<>>, <<>>), 1, next)
  <2>1. 1 \in Nat /\ 1 >= 1 /\ 1 <= Len(script) + 1
    BY <1>3
  <2> QED
    BY <1>1, <1>2, <2>1, FreshPhase
<1>5. Going(script, FALSE, FALSE, stack_rrb, <<>>, Cat(<<>>, <<>>), 1, next)
  BY <1>4, Zenon DEF Going
<1>6. Cat(<<>>, <<>>) = <<>> /\ Sequence(<<>>) /\ Len(<<>>) = 0
  BY EmptyShape, CatEmpty
<1>7. Replies(script, <<>>, <<>>)
  <2>1. Answered(script, <<>>)
    BY <1>3, <1>6 DEF Answered
  <2> QED
    BY <1>6, <2>1, Zenon DEF Replies
<1>8. Bytes(<<>>, <<>>)
  BY DEF Bytes
<1>9. FALSE \in BOOLEAN /\ 1 = Len(Cat(<<>>, <<>>)) + 1
  BY <1>6
<1>10. InStep(script, next, <<>>, <<>>, FALSE, FALSE, stack_rrb, <<>>, <<>>)
  BY <1>2, <1>4, <1>5, <1>7, <1>8, <1>9, Zenon DEF InStep
<1> QED
  BY <1>1, <1>10, Zenon

InStepNow == InStep(script, next, wire, bb, busy, error, stack_rrb, available, delivered)

(* The invariant: the replies and the bytes keep in step, whatever the script, the cuts
   and the breaks. *)
THEOREM StaysInStep == Spec => []InStepNow
<1>1. Init => InStepNow
  BY AtTheStart, Zenon DEF InStepNow
<1>2. ASSUME InStepNow, [Next]_vars PROVE InStepNow'
  <2>1. InStep(script, next, wire, bb, busy, error, stack_rrb, available, delivered)
    BY <1>2, Zenon DEF InStepNow
  <2> SUFFICES InStep(script', next', wire', bb', busy', error', stack_rrb', available', delivered')
    BY DEF InStepNow
  <2>2. ASSUME Parse PROVE InStepNow'
    <3>1. script' = script /\ next' = next /\ wire' = wire
      BY <2>2, BuildersTop
    <3>2. InStep(script, next, wire, bb', busy', error', stack_rrb', available', delivered')
      BY <2>1, <2>2, AfterParse
    <3> QED
      BY <3>1, <3>2 DEF InStepNow
  <2>3. ASSUME ServerWrites PROVE InStepNow'
    <3>1. /\ script' = script /\ bb' = bb /\ busy' = busy /\ error' = error
          /\ stack_rrb' = stack_rrb /\ available' = available /\ delivered' = delivered
      BY <2>3 DEF ServerWrites, parserVars
    <3>2. InStep(script, next', wire', bb, busy, error, stack_rrb, available, delivered)
      BY <2>1, <2>3, AfterServerWrites
    <3> QED
      BY <3>1, <3>2 DEF InStepNow
  <2>4. ASSUME NEW n \in 1 .. (IF ReadSize < Len(wire) THEN ReadSize ELSE Len(wire)), Receive(n)
        PROVE  InStepNow'
    <3>1. /\ script' = script /\ next' = next /\ busy' = TRUE /\ error' = error
          /\ stack_rrb' = stack_rrb /\ available' = available /\ delivered' = delivered
      BY <2>4 DEF Receive
    <3>2. InStep(script, next, wire', bb', TRUE, error, stack_rrb, available, delivered)
      BY <2>1, <2>4, AfterReceive
    <3> QED
      BY <3>1, <3>2 DEF InStepNow
  <2>5. ASSUME Break PROVE InStepNow'
    <3>1. script' = script /\ busy' = busy /\ busy = FALSE /\ error' = FALSE
          /\ delivered' = delivered
      <4>1. busy \in BOOLEAN
        BY <2>1, Zenon DEF InStep
      <4> QED
        BY <2>5, <4>1 DEF Break
    <3>2. InStep(script, next', wire', bb', FALSE, FALSE, stack_rrb', available', delivered)
      BY <2>1, <2>5, AfterBreak, Zenon
    <3> QED
      BY <3>1, <3>2, Zenon DEF InStepNow
  <2>6. ASSUME UNCHANGED vars PROVE InStepNow'
    BY <2>1, <2>6 DEF vars, serverVars, parserVars, InStepNow
  <2> QED
    BY <1>2, <2>2, <2>3, <2>4, <2>5, <2>6 DEF Next, InStepNow
<1> QED
  BY <1>1, <1>2, PTL DEF Spec

-----------------------------------------------------------------------------
(* What the invariant says of the replies.                                  *)

LEMMA AnswerUnspoilt ==
    ASSUME NEW ts \in Seq(Token), IsReply(ts), Unspoilt(ts), NEW x, Answer(ts, x)
    PROVE  x = Reading(ts)[1][1]
<1>1. Len(ts) \in Nat /\ 1 \in 1 .. Len(ts) + 1
  OBVIOUS
<1>2. ts[1].kind # "nullarray" /\ \A j \in 1 .. Len(ts) : Short(ts[j])
  BY DEF Unspoilt
<1>3. PICK w : w = Reading(ts)[1]
  OBVIOUS
<1>4. Outcomes(ts)[1] = {w}
  BY <1>1, <1>2, <1>3, ReadingShape, Zenon
<1>5. Unit(x) \in Outcomes(ts)[1]
  BY <1>2, Zenon DEF Answer
<1>6. Unit(x) = w
  BY <1>4, <1>5
<1>7. w[1] = x
  BY <1>6, UnitShape, Zenon DEF Unit
<1> QED
  BY <1>3, <1>7, Zenon

LEMMA PrefixByElements ==
    ASSUME NEW s, NEW t, Sequence(s), Sequence(t), Len(s) <= Len(t),
           \A i \in 1 .. Len(s) : s[i] = t[i]
    PROVE  IsPrefix(s, t) /\ (Len(s) = Len(t) => s = t)
<1>1. PICK S : s \in Seq(S) /\ t \in Seq(S)
  BY Common
<1>2. SubSeq(s, 1, Len(s)) = SubSeq(t, 1, Len(s))
  BY <1>1
<1>3. Len(s) = Len(t) => s = t
  BY SameElements
<1> QED
  BY <1>2, <1>3 DEF IsPrefix

LEMMA ExpectedShape ==
    ASSUME IsScript(script)
    PROVE  /\ Sequence(Expected) /\ Len(Expected) = Len(script) /\ Len(script) \in Nat
           /\ \A k \in 1 .. Len(script) : Expected[k] = Reading(script[k])[1][1]
<1>1. Len(script) \in Nat /\ DOMAIN script = 1 .. Len(script)
  BY DEF IsScript
<1>2. PICK e : e = Expected
  OBVIOUS
<1>3. e = [k \in 1 .. Len(script) |-> Reading(script[k])[1][1]]
  BY <1>1, <1>2, Zenon DEF Expected
<1>4. /\ \A k \in 1 .. Len(script) : e[k] = Reading(script[k])[1][1]
      /\ e = [k \in 1 .. Len(script) |-> e[k]]
  BY <1>3, Zenon
<1>5. e \in Seq({e[k] : k \in 1 .. Len(script)}) /\ Len(e) = Len(script)
  <2> DEFINE S == {e[k] : k \in 1 .. Len(script)}
  <2>1. \A k \in 1 .. Len(script) : e[k] \in S
    OBVIOUS
  <2> HIDE DEF S
  <2>2. [k \in 1 .. Len(script) |-> e[k]] \in Seq(S)
    BY <1>1, <2>1
  <2>3. e \in Seq(S)
    BY <1>4, <2>2, Zenon
  <2>4. DOMAIN e = 1 .. Len(script)
    BY <1>4, Zenon
  <2>5. Len(e) = Len(script)
    BY <1>1, <2>3, <2>4
  <2> QED
    BY <2>3, <2>5 DEF S
<1> QED
  BY <1>1, <1>2, <1>4, <1>5, Zenon DEF Sequence

LEMMA FaithfulNow ==
    ASSUME InStepNow, \A k \in DOMAIN script : Unspoilt(script[k])
    PROVE  /\ RepliesFaithful
           /\ Len(Cat(delivered, available)) = Len(script) => Cat(delivered, available) = Expected
<1>1. IsScript(script) /\ Replies(script, available, delivered)
  BY Zenon DEF InStepNow, InStep
<1>2. PICK ds : ds = Cat(delivered, available)
  OBVIOUS
<1>3. /\ Sequence(ds) /\ Len(ds) <= Len(script)
      /\ \A k \in 1 .. Len(ds) : Answer(script[k], ds[k])
  BY <1>1, <1>2, Zenon DEF Replies, Answered
<1>4. /\ Sequence(Expected) /\ Len(Expected) = Len(script) /\ Len(script) \in Nat
      /\ \A k \in 1 .. Len(script) : Expected[k] = Reading(script[k])[1][1]
  BY <1>1, ExpectedShape
<1>5. PICK e : e = Expected
  OBVIOUS
<1>6. ASSUME NEW k \in 1 .. Len(ds) PROVE ds[k] = e[k]
  <2>1. k \in 1 .. Len(script)
    <3>1. Len(ds) \in Nat
      BY <1>3, LenType
    <3> QED
      BY <1>3, <1>4, <3>1
  <2>2. PICK ts \in Seq(Token) : ts = script[k]
    BY <1>1, <2>1, ScriptShape
  <2>3. IsReply(ts)
    BY <1>1, <2>1, <2>2, ScriptShape
  <2>4. Unspoilt(ts)
    <3>1. k \in DOMAIN script
      BY <1>1, <2>1 DEF IsScript
    <3> QED
      BY <2>2, <3>1, Zenon
  <2>5. PICK x : x = ds[k]
    OBVIOUS
  <2>6. Answer(ts, x)
    BY <1>3, <2>2, <2>5, Zenon
  <2>7. x = Reading(ts)[1][1]
    BY <2>3, <2>4, <2>6, AnswerUnspoilt
  <2>8. e[k] = Reading(ts)[1][1]
    BY <1>4, <1>5, <2>1, <2>2, Zenon
  <2> QED
    BY <2>5, <2>7, <2>8, Zenon
<1>7. IsPrefix(ds, e) /\ (Len(ds) = Len(e) => ds = e)
  <2>1. Sequence(e) /\ Len(ds) <= Len(e)
    BY <1>3, <1>4, <1>5, Zenon
  <2> QED
    BY <1>3, <1>6, <2>1, PrefixByElements
<1>8. RepliesFaithful
  BY <1>2, <1>5, <1>7, Zenon DEF RepliesFaithful, Cat
<1> QED
  BY <1>2, <1>4, <1>5, <1>7, <1>8, Zenon

LEMMA EmptyBytes == <<>> \in Seq(Byte)
OBVIOUS

LEMMA FollowsLine ==
    ASSUME NEW scr, NEW s, NEW h \in Seq(Byte), NEW c \in Seq(Byte), NEW a, NEW nx,
           Follows(scr, s, Cat(Line(h), c), a, nx)
    PROVE  Len(s) >= Len(h) + 2
<1>1. PICK l \in Seq(Byte) : l = Line(h) /\ Len(l) = Len(h) + 2
  BY LineType
<1>2. PICK u \in Seq(Byte) : s = Cat(Cat(l, c), u)
  BY <1>1, Zenon DEF Follows
<1>3. Len(Cat(l, c)) = Len(l) + Len(c) /\ Cat(l, c) \in Seq(Byte)
  BY BytesSequence, CatShape, CatBytes
<1>4. Len(s) = Len(Cat(l, c)) + Len(u)
  BY <1>2, <1>3, BytesSequence, CatShape
<1>5. Len(l) \in Nat /\ Len(c) \in Nat /\ Len(u) \in Nat /\ Len(h) \in Nat
  OBVIOUS
<1> QED
  BY <1>1, <1>3, <1>4, <1>5

LEMMA AheadLength ==
    ASSUME NEW scr, NEW s, NEW r, NEW p, NEW nx, TokenAt(scr, <<r, p>>) \in Token,
           Ahead(scr, s, r, p, nx)
    PROVE  Len(s) >= Len(Heading(TokenAt(scr, <<r, p>>))) + 2
<1>1. PICK t \in Token : t = TokenAt(scr, <<r, p>>)
  OBVIOUS
<1>2. Heading(t) \in Seq(Byte) /\ Content(t) \in Seq(Byte)
  BY HeadingType, TextOfBytes, EncodeType
<1>3. Follows(scr, s, Cat(Line(Heading(t)), Content(t)), Succ(scr, <<r, p>>), nx)
  BY <1>1, Zenon DEF Ahead, Rest
<1> QED
  BY <1>1, <1>2, <1>3, FollowsLine

(* A parser at rest that has got all the server wrote waits for nothing the server
   has already begun. *)
LEMMA RestingDone ==
    ASSUME NEW scr, IsScript(scr), NEW st, NEW s \in Seq(Byte), NEW r,
           NEW nx \in Places, nx[1] > Len(scr), Resting(scr, st, s, s, r, nx)
    PROVE  r = Len(scr) + 1
<1>1. PICK p :
        \/ TypePhase(scr, st, s, r, p, nx) /\ s = <<>>
        \/ /\ ContentPhase(scr, st, s, r, p, nx)
           /\ Len(s) < Len(Heading(TokenAt(scr, <<r, p>>))) + 2
        \/ /\ LenPhase(scr, st, s, r, p, nx)
           /\ Len(s) < Len(Heading(TokenAt(scr, <<r, p>>))) + 2
        \/ BulkPhase(scr, st, s, r, p, nx) /\ s = <<>>
        \/ SimplePhase(scr, st, s, r, p, nx) /\ Len(s) < 2
  BY Zenon DEF Resting
<1>2. PICK t : t = TokenAt(scr, <<r, p>>)
  OBVIOUS
<1>3. ASSUME NEW fs, Pending(scr, r, p, fs) PROVE t \in Token
  BY <1>2, <1>3, PendingFacts
<1>4. ASSUME NEW fs, Pending(scr, r, p, fs), Ahead(scr, s, r, p, nx),
             Len(s) < Len(Heading(TokenAt(scr, <<r, p>>))) + 2
      PROVE  FALSE
  <2>1. t \in Token
    BY <1>3, <1>4
  <2>2. Len(s) >= Len(Heading(t)) + 2
    BY <1>2, <1>4, <2>1, AheadLength
  <2>3. PICK m \in Nat : m = Len(Heading(t))
    BY <2>1, HeadingType, TextOfBytes
  <2>4. PICK k \in Nat : k = Len(s)
    OBVIOUS
  <2> QED
    BY <1>2, <1>4, <2>2, <2>3, <2>4
<1>5. CASE TypePhase(scr, st, s, r, p, nx) /\ s = <<>>
  <2>1. Context(scr, r, p, st) /\ Wanting(st) /\ Written(scr, s, Here(scr, r, p), nx)
    BY <1>5, Zenon DEF TypePhase
  <2>2. Here(scr, r, p) = <<r, p>>
    BY <2>1, WantingHere
  <2>3. r \in Nat /\ p \in Nat /\ r <= Len(scr) + 1
    BY <2>1, Zenon DEF Context
  <2>4. PICK a \in Places : a = <<r, p>>
    BY <2>3 DEF Places
  <2>5. Written(scr, s, a, nx)
    BY <2>1, <2>2, <2>4, Zenon
  <2>6. ASSUME OnScript(scr, a), NEW u \in Seq(Byte), s = Encode(TokenAt(scr, a)) \o u
        PROVE  FALSE
    <3>1. PICK e \in Seq(Byte) : e = Encode(TokenAt(scr, a)) /\ e # <<>>
      BY <2>6, TokenAtType, EncodeType
    <3>2. Len(e) >= 1 /\ Len(u) \in Nat /\ Len(e) \in Nat
      BY <3>1
    <3>3. Len(e \o u) = Len(e) + Len(u)
      OBVIOUS
    <3>4. Len(s) = 0
      BY <1>5
    <3> QED
      BY <2>6, <3>1, <3>2, <3>3, <3>4
  <2>7. nx = a
    BY <2>5, <2>6, WrittenFirst, Zenon
  <2>8. a[1] = r
    BY <2>4
  <2>9. r > Len(scr) /\ Len(scr) \in Nat
    BY <2>7, <2>8 DEF IsScript
  <2> QED
    BY <2>3, <2>9
<1>6. CASE /\ ContentPhase(scr, st, s, r, p, nx)
           /\ Len(s) < Len(Heading(TokenAt(scr, <<r, p>>))) + 2
  <2>1. Pending(scr, r, p, st) /\ Ahead(scr, s, r, p, nx)
    BY <1>6, Zenon DEF ContentPhase
  <2> QED
    BY <1>4, <1>6, <2>1
<1>7. CASE /\ LenPhase(scr, st, s, r, p, nx)
           /\ Len(s) < Len(Heading(TokenAt(scr, <<r, p>>))) + 2
  <2>1. Pending(scr, r, p, Front(st)) /\ Ahead(scr, s, r, p, nx)
    BY <1>7, Zenon DEF LenPhase, Above
  <2> QED
    BY <1>4, <1>7, <2>1
<1>8. CASE BulkPhase(scr, st, s, r, p, nx) /\ s = <<>>
  <2>1. /\ Pending(scr, r, p, Front(st)) /\ t.kind \in {"bulk", "badbulk"}
        /\ Last(st).len = BulkLength(t) /\ Last(st).got \in Seq(Byte)
        /\ Len(Last(st).got) < Last(st).len + 2
        /\ Follows(scr, Cat(Last(st).got, s), Line(t.val), Succ(scr, <<r, p>>), nx)
    BY <1>2, <1>8, Zenon DEF BulkPhase, Above
  <2>2. t.val \in Seq(Byte) /\ BulkLength(t) \in Nat /\ BulkLength(t) <= Len(t.val)
    BY <1>3, <2>1, BulkLengthOf
  <2>3. PICK g \in Seq(Byte) : g = Last(st).got
    BY <2>1
  <2>4. Cat(g, s) = g
    BY <1>8, <2>3, BytesSequence, CatEmpty
  <2>5. <<>> \in Seq(Byte) /\ Cat(Line(t.val), <<>>) = Line(t.val)
    <3>1. PICK l \in Seq(Byte) : l = Line(t.val)
      BY <2>2, LineType, Zenon
    <3>2. Cat(l, <<>>) = l
      BY BytesSequence, CatEmpty
    <3> QED
      BY <3>1, <3>2, Zenon, EmptyBytes
  <2>6. Follows(scr, g, Cat(Line(t.val), <<>>), Succ(scr, <<r, p>>), nx)
    BY <2>1, <2>3, <2>4, <2>5, Zenon
  <2>7. Len(g) >= Len(t.val) + 2
    <3>1. PICK a : a = Succ(scr, <<r, p>>)
      OBVIOUS
    <3>2. PICK val \in Seq(Byte) : val = t.val
      BY <2>2
    <3>3. Follows(scr, g, Cat(Line(val), <<>>), a, nx)
      BY <2>6, <3>1, <3>2, Zenon
    <3>4. Len(g) >= Len(val) + 2
      BY <2>5, <3>3, FollowsLine, Zenon
    <3> QED
      BY <3>2, <3>4
  <2>8. PICK k \in Nat : k = Len(g)
    BY <2>3
  <2>9. PICK m \in Nat : m = Len(t.val)
    BY <2>2
  <2> QED
    BY <2>1, <2>2, <2>3, <2>7, <2>8, <2>9
<1>9. CASE SimplePhase(scr, st, s, r, p, nx) /\ Len(s) < 2
  <2>1. PICK rest : /\ Overlaying(Last(st).got, rest, TokenAt(scr, <<r, p>>).val)
                    /\ Follows(scr, s, Line(rest), Succ(scr, <<r, p>>), nx)
    BY <1>9, Zenon DEF SimplePhase
  <2>2. rest \in Seq(Byte)
    BY <2>1, TextOfBytes, Zenon DEF Overlaying
  <2>3. Line(rest) \in Seq(Byte) /\ <<>> \in Seq(Byte) /\ Cat(Line(rest), <<>>) = Line(rest)
    BY <2>2, LineType, BytesSequence, CatEmpty
  <2>4. Follows(scr, s, Cat(Line(rest), <<>>), Succ(scr, <<r, p>>), nx)
    BY <2>1, <2>3, Zenon
  <2>5. Len(s) >= Len(rest) + 2
    BY <2>2, <2>3, <2>4, FollowsLine
  <2>6. PICK m \in Nat : m = Len(rest)
    BY <2>2
  <2> QED
    BY <1>9, <2>5, <2>6
<1> QED
  BY <1>1, <1>5, <1>6, <1>7, <1>8, <1>9, Zenon

(* How many bytes the parser leaves in the buffer. *)
LEMMA RestingSmall ==
    ASSUME NEW scr, IsScript(scr), NEW st, NEW b \in Seq(Byte), NEW s, NEW r, NEW nx,
           Resting(scr, st, b, s, r, nx)
    PROVE  \/ Len(b) < 2
           \/ \E k \in DOMAIN scr : \E i \in DOMAIN scr[k] :
                  /\ scr[k][i].kind \notin {"simple", "error"}
                  /\ scr[k][i] \in Token
                  /\ Len(b) < Len(Heading(scr[k][i])) + 2
<1>1. PICK p :
        \/ b = <<>> \/ Len(b) < 2
        \/ /\ ContentPhase(scr, st, s, r, p, nx) /\ Last(st).elemtype = "integer"
           /\ Len(b) < Len(Heading(TokenAt(scr, <<r, p>>))) + 2
        \/ /\ LenPhase(scr, st, s, r, p, nx)
           /\ Len(b) < Len(Heading(TokenAt(scr, <<r, p>>))) + 2
  BY Zenon DEF Resting
<1>2. PICK t : t = TokenAt(scr, <<r, p>>)
  OBVIOUS
<1>3. ASSUME NEW fs, Pending(scr, r, p, fs)
      PROVE  /\ t \in Token /\ t = scr[r][p]
             /\ r \in DOMAIN scr /\ p \in DOMAIN scr[r]
  <2>1. r \in 1 .. Len(scr) /\ p \in 1 .. Len(scr[r])
    BY <1>3, PendingFacts
  <2>2. DOMAIN scr = 1 .. Len(scr)
    BY DEF IsScript
  <2>3. DOMAIN scr[r] = 1 .. Len(scr[r])
    <3>1. PICK ts \in Seq(Token) : ts = scr[r]
      BY <1>3, PendingFacts
    <3> QED
      BY <3>1
  <2>4. t \in Token /\ t = scr[r][p]
    BY <1>2, <1>3, PendingFacts
  <2> QED
    BY <2>1, <2>2, <2>3, <2>4
<1>4. CASE /\ ContentPhase(scr, st, s, r, p, nx) /\ Last(st).elemtype = "integer"
           /\ Len(b) < Len(Heading(TokenAt(scr, <<r, p>>))) + 2
  <2>1. Pending(scr, r, p, st) /\ LeadingType(Leading(t)) = "integer"
    BY <1>2, <1>4, Zenon DEF ContentPhase
  <2>2. t.kind = "integer"
    BY <1>3, <2>1, LeadingTypeOf
  <2>3. t.kind \notin {"simple", "error"}
    BY <2>2
  <2> QED
    BY <1>2, <1>3, <1>4, <2>1, <2>3, Zenon
<1>5. CASE /\ LenPhase(scr, st, s, r, p, nx)
           /\ Len(b) < Len(Heading(TokenAt(scr, <<r, p>>))) + 2
  <2>1. Pending(scr, r, p, Front(st)) /\ LeadingType(Leading(t)) \in {"array", "bulk"}
    BY <1>2, <1>5, Zenon DEF LenPhase, Above
  <2>2. t \in Token
    BY <1>3, <2>1
  <2>3. t.kind \notin {"simple", "error"}
    BY <2>1, <2>2, LeadingTypeOf
  <2> QED
    BY <1>2, <1>3, <1>5, <2>1, <2>3, Zenon
<1>6. b = <<>> => Len(b) < 2
  OBVIOUS
<1> QED
  BY <1>1, <1>4, <1>5, <1>6, Zenon

-----------------------------------------------------------------------------
(* The theorems.                                                            *)

(* The script is one of those that were assumed. *)
LEMMA ScriptKept == Spec => [](script \in Scripts)
<1>1. Init => script \in Scripts
  BY DEF Init
<1>2. script \in Scripts /\ [Next]_vars => (script \in Scripts)'
  BY DEF Next, vars, Parse, ServerWrites, Receive, Break
<1> QED
  BY <1>1, <1>2, PTL DEF Spec

RepliesAnswer == Answered(script, delivered \o available)

(* The replies that come out are, in order, answers to the commands sent, none lost,
   doubled or split, however the bytes are cut and whatever is nested in what: each is
   what the tokens of its own reply say, but for simple strings of more than two bytes,
   whose length alone is known, and for a null array, which may become an empty one. *)
THEOREM EachReplyAnswers == Spec => []RepliesAnswer
<1>1. InStepNow => RepliesAnswer
  BY Zenon DEF InStepNow, InStep, Replies, RepliesAnswer, Cat
<1> QED
  BY <1>1, StaysInStep, PTL

(* Of scripts without the two kinds of replies this parser spoils (a simple string of
   more than two bytes that may be cut, a null array), the replies delivered are exactly
   those the server gave. *)
THEOREM Faithful ==
    ASSUME \A s \in Scripts : \A k \in DOMAIN s : Unspoilt(s[k])
    PROVE  Spec => []RepliesFaithful
<1>1. InStepNow /\ script \in Scripts => RepliesFaithful
  BY FaithfulNow
<1> QED
  BY <1>1, StaysInStep, ScriptKept, PTL

(* Once all is read, every reply has been delivered. *)
LEMMA AllDelivered ==
    ASSUME InStepNow, next[1] > Len(script), wire = <<>>, ~busy, ~error
    PROVE  /\ Len(delivered) = Len(script) /\ Cat(delivered, available) = delivered
<1>1. /\ IsScript(script) /\ ValidPlace(script, next) /\ Bytes(bb, wire)
      /\ Replies(script, available, delivered) /\ available = <<>>
      /\ Going(script, busy, error, stack_rrb, bb, Cat(bb, wire),
               Len(Cat(delivered, available)) + 1, next)
  BY Zenon DEF InStepNow, InStep
<1>2. bb \in Seq(Byte) /\ next \in Places
  BY <1>1, Zenon DEF Bytes, ValidPlace
<1>3. Sequence(delivered)
  BY <1>1, Zenon DEF Replies
<1>4. Cat(bb, wire) = bb /\ Cat(delivered, available) = delivered
  <2>1. Cat(bb, <<>>) = bb /\ Cat(delivered, <<>>) = delivered
    BY <1>2, <1>3, BytesSequence, CatEmpty
  <2> QED
    BY <1>1, <2>1, Zenon
<1>5. PICK r : r = Len(delivered) + 1
  OBVIOUS
<1>6. Resting(script, stack_rrb, bb, bb, r, next)
  BY <1>1, <1>4, <1>5, Zenon DEF Going
<1>7. r = Len(script) + 1
  BY <1>1, <1>2, <1>6, RestingDone
<1>8. Len(script) \in Nat /\ Len(delivered) \in Nat
  BY <1>1, <1>3, LenType DEF IsScript
<1> QED
  BY <1>4, <1>5, <1>7, <1>8

NoneHeldBack ==
    next[1] > Len(script) /\ wire = <<>> /\ ~busy /\ ~error => Len(delivered) = Len(script)

(* No reply is held back for bytes to come: when the last byte the server wrote has been
   read, every command has its reply, of any script. *)
THEOREM NoReplyHeldBack == Spec => []NoneHeldBack
<1>1. InStepNow => NoneHeldBack
  BY AllDelivered DEF NoneHeldBack
<1> QED
  BY <1>1, StaysInStep, PTL

(* And of the scripts the parser does not spoil they are the replies expected. *)
THEOREM AllThereAtTheEnd ==
    ASSUME \A s \in Scripts : \A k \in DOMAIN s : Unspoilt(s[k])
    PROVE  Spec => []NothingHeldBack
<1>1. ASSUME InStepNow, script \in Scripts PROVE NothingHeldBack
  <2> SUFFICES ASSUME next[1] > Len(script), wire = <<>>, ~busy, ~error
               PROVE  delivered = Expected
    BY DEF NothingHeldBack
  <2>1. Len(delivered) = Len(script) /\ Cat(delivered, available) = delivered
    BY <1>1, AllDelivered
  <2>2. Len(Cat(delivered, available)) = Len(script) => Cat(delivered, available) = Expected
    BY <1>1, FaithfulNow
  <2> QED
    BY <2>1, <2>2, Zenon
<1> QED
  BY <1>1, StaysInStep, ScriptKept, PTL

(* The parser throws only where the server broke the protocol: no cut of well-formed
   replies, of any kind and nesting, looks like a violation. *)
THEOREM ErrorsGenuine == Spec => []OnlyGenuineErrors
<1>1. ASSUME InStepNow PROVE OnlyGenuineErrors
  <2>1. error => Stuck(script, stack_rrb, bb)
    BY <1>1, Zenon DEF InStepNow, InStep, Going
  <2> QED
    BY <2>1, Zenon DEF Stuck, OnlyGenuineErrors
<1> QED
  BY <1>1, StaysInStep, PTL

(* Between two reads of well-formed replies there is room for the next one, so that the
   buffer keeps its first size. *)
CapacityKept == (\A i \in DOMAIN script : WellFormed(script[i])) => capacity = InitCapacity

LEMMA RoomNow ==
    ASSUME RoomForLines, InStepNow, script \in Scripts, ~busy,
           \A i \in DOMAIN script : WellFormed(script[i])
    PROVE  Len(bb) \in Nat /\ Len(bb) + ReadSize <= InitCapacity
<1>1. /\ IsScript(script) /\ Bytes(bb, wire) /\ error \in BOOLEAN
      /\ Going(script, busy, error, stack_rrb, bb, Cat(bb, wire),
               Len(Cat(delivered, available)) + 1, next)
  BY Zenon DEF InStepNow, InStep
<1>2. PICK b \in Seq(Byte) : b = bb
  BY <1>1, Zenon DEF Bytes
<1>3. ~error
  BY <1>1, Zenon DEF Going, Stuck
<1>4. Resting(script, stack_rrb, b, Cat(bb, wire), Len(Cat(delivered, available)) + 1, next)
  BY <1>1, <1>2, <1>3, Zenon DEF Going
<1>5. \/ Len(b) < 2
      \/ \E k \in DOMAIN script : \E i \in DOMAIN script[k] :
             /\ script[k][i].kind \notin {"simple", "error"}
             /\ script[k][i] \in Token
             /\ Len(b) < Len(Heading(script[k][i])) + 2
  BY <1>1, <1>4, RestingSmall, Zenon
<1>6. PICK l \in Nat : l = Len(b)
  OBVIOUS
<1>7. ReadSize \in Nat /\ InitCapacity \in Nat
  BY SizesAssumption
<1>8. ReadSize + 1 <= InitCapacity
  BY Zenon DEF RoomForLines
<1>9. CASE l < 2
  BY <1>2, <1>6, <1>7, <1>8, <1>9
<1>10. ASSUME NEW k \in DOMAIN script, NEW i \in DOMAIN script[k],
              script[k][i].kind \notin {"simple", "error"},
              script[k][i] \in Token, l < Len(Heading(script[k][i])) + 2
       PROVE  l + ReadSize <= InitCapacity
  <2>1. ReadSize + Len(Heading(script[k][i])) + 1 <= InitCapacity
    BY <1>10, Zenon DEF RoomForLines
  <2>2. PICK m \in Nat : m = Len(Heading(script[k][i]))
    BY <1>10, HeadingType, TextOfBytes
  <2>3. ReadSize + m + 1 <= InitCapacity /\ l < m + 2
    BY <1>10, <2>1, <2>2, Zenon
  <2> QED
    BY <1>7, <2>3
<1>11. l + ReadSize <= InitCapacity
  BY <1>5, <1>6, <1>7, <1>8, <1>9, <1>10
<1> QED
  BY <1>2, <1>6, <1>11

LEMMA CapacityStays ==
    ASSUME RoomForLines, InStepNow, script \in Scripts, CapacityKept, [Next]_vars
    PROVE  CapacityKept'
<1>1. ASSUME NEW n, Receive(n), \A i \in DOMAIN script : WellFormed(script[i])
      PROVE  capacity' = InitCapacity
  <2>1. capacity = InitCapacity
    BY <1>1, Zenon DEF CapacityKept
  <2>2. ~busy /\ capacity' = IF ReadSize > capacity - Len(bb)
                             THEN next_power_of_two(capacity + ReadSize) ELSE capacity
    BY <1>1, Zenon DEF Receive
  <2>3. PICK l \in Nat : l = Len(bb)
    BY <1>1, <2>2, RoomNow
  <2>4. l + ReadSize <= InitCapacity
    BY <1>1, <2>2, <2>3, RoomNow
  <2>5. ~(ReadSize > capacity - l)
    BY <2>1, <2>4, SizesAssumption
  <2> QED
    BY <2>1, <2>2, <2>3, <2>5, Zenon
<1>2. ASSUME NEW n, Receive(n) PROVE CapacityKept'
  <2>1. script' = script
    BY <1>2, Zenon DEF Receive
  <2> QED
    BY <1>1, <1>2, <2>1 DEF CapacityKept
<1>3. ASSUME script' = script /\ capacity' = capacity PROVE CapacityKept'
  BY <1>3 DEF CapacityKept
<1>4. Parse => CapacityKept'
  BY <1>3 DEF Parse
<1>5. ServerWrites => CapacityKept'
  BY <1>3 DEF ServerWrites
<1>6. Break => CapacityKept'
  BY <1>3 DEF Break
<1>7. UNCHANGED vars => CapacityKept'
  BY <1>3 DEF vars
<1> QED
  BY <1>2, <1>4, <1>5, <1>6, <1>7 DEF Next

(* With room for one read behind the longest line of digits, the buffer never grows
   under well-formed replies, and the assertion before each read holds. *)
THEOREM BufferSmall == ASSUME RoomForLines PROVE Spec => []BufferStaysSmall
<1>1. Init => CapacityKept
  BY DEF Init, CapacityKept
<1>2. InStepNow /\ script \in Scripts /\ CapacityKept /\ [Next]_vars => CapacityKept'
  BY CapacityStays
<1>3. ASSUME InStepNow, script \in Scripts, CapacityKept PROVE BufferStaysSmall
  <2> SUFFICES ASSUME \A i \in DOMAIN script : WellFormed(script[i])
               PROVE  capacity = InitCapacity /\ ReadHasRoom
    BY DEF BufferStaysSmall
  <2>1. capacity = InitCapacity
    BY <1>3, Zenon DEF CapacityKept
  <2>2. ASSUME ~busy PROVE Len(bb) # capacity
    <3>1. Len(bb) \in Nat /\ Len(bb) + ReadSize <= InitCapacity
      BY <1>3, <2>2, RoomNow
    <3>2. PICK l \in Nat : l = Len(bb)
      BY <3>1
    <3>3. l # InitCapacity
      BY <3>1, <3>2, SizesAssumption
    <3> QED
      BY <2>1, <3>2, <3>3, Zenon
  <2> QED
    BY <2>1, <2>2 DEF ReadHasRoom
<1> QED
  BY <1>1, <1>2, <1>3, StaysInStep, ScriptKept, PTL DEF Spec

-----------------------------------------------------------------------------
(* Types.                                                                   *)

(* The powers of two grow beyond every number, so that there is a first that fits. *)
IsPower(f, x) == f = [k \in 0 .. x |-> IF k = 0 THEN 1 ELSE 2 * f[k - 1]]

LEMMA PowerExists == \A x \in Nat : \E f : IsPower(f, x)
<1> DEFINE S == {x \in Nat : \E f : IsPower(f, x)}
<1>1. 0 \in S
  <2>1. IsPower([k \in 0 .. 0 |-> 1], 0)
    BY DEF IsPower
  <2> QED
    BY <2>1
<1>2. ASSUME NEW x \in Nat, x \in S PROVE x + 1 \in S
  <2>1. PICK f : f = [k \in 0 .. x |-> IF k = 0 THEN 1 ELSE 2 * f[k - 1]]
    BY <1>2 DEF IsPower
  <2> DEFINE g == [k \in 0 .. x + 1 |-> IF k = x + 1 THEN 2 * f[x] ELSE f[k]]
  <2>2. g = [k \in 0 .. x + 1 |-> IF k = 0 THEN 1 ELSE 2 * g[k - 1]]
    BY <2>1
  <2> HIDE DEF g
  <2>3. IsPower(g, x + 1)
    BY <2>2 DEF IsPower
  <2> QED
    BY <2>3
<1>3. Nat \subseteq S
  <2> HIDE DEF S
  <2> QED
    BY <1>1, <1>2, SetInduction
<1> QED
  BY <1>3

LEMMA PowerGrows ==
    ASSUME NEW x \in Nat, NEW f, IsPower(f, x)
    PROVE  \A k \in 0 .. x : f[k] \in Nat /\ f[k] >= k + 1
<1> DEFINE S == {k \in Nat : k <= x => f[k] \in Nat /\ f[k] >= k + 1}
<1>0. f = [k \in 0 .. x |-> IF k = 0 THEN 1 ELSE 2 * f[k - 1]]
  BY DEF IsPower
<1>1. 0 \in S
  BY <1>0
<1>2. ASSUME NEW k \in Nat, k \in S PROVE k + 1 \in S
  <2> SUFFICES ASSUME k + 1 <= x PROVE f[k + 1] \in Nat /\ f[k + 1] >= k + 1 + 1
    OBVIOUS
  <2>1. f[k + 1] = 2 * f[k]
    BY <1>0
  <2>2. f[k] \in Nat /\ f[k] >= k + 1
    BY <1>2
  <2> QED
    BY <2>1, <2>2
<1>3. Nat \subseteq S
  <2> HIDE DEF S
  <2> QED
    BY <1>1, <1>2, SetInduction
<1> QED
  BY <1>3

(* The capacity a buffer grows to is the first power of two that holds x. *)
LEMMA NextPower ==
    ASSUME NEW x \in Nat
    PROVE  next_power_of_two(x) \in Nat /\ next_power_of_two(x) >= x /\ next_power_of_two(x) >= 1
<1> DEFINE power == CHOOSE f : IsPower(f, x)
           Holds(k) == power[k] >= x
           S == {k \in Nat : ~(k <= x /\ Holds(k))}
           first == CHOOSE k \in 0 .. x : Holds(k) /\ \A j \in 0 .. k - 1 : power[j] < x
<1>1. IsPower(power, x)
  BY PowerExists, Zenon
<1>2. next_power_of_two(x) = power[first]
  BY Zenon DEF next_power_of_two, IsPower
<1> HIDE DEF power
<1>3. \A k \in 0 .. x : power[k] \in Nat /\ power[k] >= k + 1
  BY <1>1, PowerGrows
<1>4. \E k \in 0 .. x : Holds(k) /\ \A j \in 0 .. k - 1 : power[j] < x
  <2> SUFFICES ASSUME \A k \in 0 .. x : Holds(k) => \E j \in 0 .. k - 1 : ~(power[j] < x)
               PROVE  FALSE
    OBVIOUS
  <2>1. ASSUME NEW n \in Nat, \A k \in Nat : k < n => k \in S PROVE n \in S
    <3> SUFFICES ASSUME n <= x, Holds(n) PROVE FALSE
      OBVIOUS
    <3>1. PICK j \in 0 .. n - 1 : ~(power[j] < x)
      OBVIOUS
    <3>2. j \in Nat /\ j < n /\ j <= x /\ power[j] \in Nat
      BY <1>3
    <3>3. j \in S
      BY <2>1, <3>2
    <3> QED
      BY <3>1, <3>2, <3>3
  <2>2. Nat \subseteq S
    <3> HIDE DEF S
    <3> QED
      BY <2>1, StrongSetInduction
  <2>3. x \in S /\ x <= x /\ power[x] >= x
    BY <1>3, <2>2
  <2> QED
    BY <2>3
<1>5. first \in 0 .. x /\ Holds(first)
  BY <1>4
<1> HIDE DEF first
<1> QED
  BY <1>2, <1>3, <1>5

Shaped(st) ==
    /\ st # <<>> /\ st[1].kind = "reply"
    /\ \A i \in 2 .. Len(st) : st[i].kind \in {"array", "bulk", "simple", "error"}
    /\ \A i \in 2 .. Len(st) - 1 : st[i].kind = "array"

LEMMA ShapedOpen ==
    ASSUME NEW st, OpenFrames(st)
    PROVE  Shaped(st)
<1>1. /\ Sequence(st) /\ Len(st) >= 1 /\ st[1].kind = "reply"
      /\ \A i \in 2 .. Len(st) : st[i].kind = "array"
  BY Zenon DEF OpenFrames
<1>2. Len(st) \in Nat
  BY <1>1, LenType
<1>3. st # <<>>
  BY <1>1, EmptyShape
<1> QED
  BY <1>1, <1>2, <1>3 DEF Shaped

LEMMA ShapedAbove ==
    ASSUME NEW st, Sequence(st), Len(st) >= 2, OpenFrames(Front(st)),
           Last(st).kind \in {"array", "bulk", "simple", "error"}
    PROVE  Shaped(st)
<1>1. PICK n \in Nat : n = Len(st)
  BY LenType
<1>2. PICK fs : fs = Front(st)
  OBVIOUS
<1>3. Len(fs) = n - 1 /\ \A i \in 1 .. n - 1 : fs[i] = st[i]
  BY <1>1, <1>2, FrontShape
<1>4. fs[1].kind = "reply" /\ \A i \in 2 .. n - 1 : fs[i].kind = "array"
  <2>1. fs[1].kind = "reply" /\ \A i \in 2 .. Len(fs) : fs[i].kind = "array"
    BY <1>2, Zenon DEF OpenFrames
  <2> QED
    BY <1>3, <2>1
<1>5. st[1].kind = "reply" /\ \A i \in 2 .. n - 1 : st[i].kind = "array"
  BY <1>1, <1>3, <1>4
<1>6. st[n].kind \in {"array", "bulk", "simple", "error"}
  BY <1>1 DEF Last
<1>7. st # <<>>
  BY EmptyShape
<1> QED
  BY <1>1, <1>5, <1>6, <1>7 DEF Shaped

LEMMA PhaseShaped ==
    ASSUME NEW scr, NEW st, NEW s, NEW r, NEW nx, Phase(scr, st, s, r, nx)
    PROVE  Shaped(st)
<1>1. PICK p : \/ TypePhase(scr, st, s, r, p, nx) \/ ContentPhase(scr, st, s, r, p, nx)
               \/ OverPhase(scr, st, s, r, p, nx) \/ LenPhase(scr, st, s, r, p, nx)
               \/ BulkPhase(scr, st, s, r, p, nx) \/ SimplePhase(scr, st, s, r, p, nx)
  BY Zenon DEF Phase
<1>2. ASSUME Above(scr, st, r, p), Last(st).kind \in {"array", "bulk", "simple", "error"}
      PROVE  Shaped(st)
  BY <1>2, ShapedAbove, Zenon DEF Above, Pending, Context
<1>3. TypePhase(scr, st, s, r, p, nx) => Shaped(st)
  BY ShapedOpen, Zenon DEF TypePhase, Context
<1>4. ContentPhase(scr, st, s, r, p, nx) => Shaped(st)
  BY ShapedOpen, Zenon DEF ContentPhase, Pending, Context
<1>5. OverPhase(scr, st, s, r, p, nx) => Shaped(st)
  BY ShapedOpen, Zenon DEF OverPhase, Context
<1>6. ASSUME LenPhase(scr, st, s, r, p, nx) PROVE Shaped(st)
  <2>1. PICK k : k = LeadingType(Leading(TokenAt(scr, <<r, p>>)))
    OBVIOUS
  <2>2. Above(scr, st, r, p) /\ Last(st) = Frame(k) /\ k \in {"array", "bulk"}
    BY <1>6, <2>1, Zenon DEF LenPhase
  <2>3. Last(st).kind = k
    BY <2>2 DEF Frame
  <2> QED
    BY <1>2, <2>2, <2>3
<1>7. ASSUME BulkPhase(scr, st, s, r, p, nx) PROVE Shaped(st)
  <2>1. Above(scr, st, r, p) /\ Last(st).kind = "bulk"
    BY <1>7, Zenon DEF BulkPhase
  <2> QED
    BY <1>2, <2>1
<1>8. ASSUME SimplePhase(scr, st, s, r, p, nx) PROVE Shaped(st)
  <2>1. PICK t : t = TokenAt(scr, <<r, p>>)
    OBVIOUS
  <2>2. Above(scr, st, r, p) /\ Last(st).kind = t.kind /\ t.kind \in {"simple", "error"}
    BY <1>8, <2>1, Zenon DEF SimplePhase
  <2> QED
    BY <1>2, <2>2
<1> QED
  BY <1>1, <1>3, <1>4, <1>5, <1>6, <1>7, <1>8, Zenon

LEMMA StuckShaped ==
    ASSUME NEW scr, NEW st, NEW b, Stuck(scr, st, b)
    PROVE  Shaped(st)
<1>1. \/ OpenFrames(st)
      \/ Sequence(st) /\ Len(st) >= 2 /\ OpenFrames(Front(st)) /\ Last(st).kind = "bulk"
  BY Zenon DEF Stuck
<1> QED
  BY <1>1, ShapedOpen, ShapedAbove

Sizes == capacity \in Nat \ {0} /\ breaks \in 0 .. MaxBreaks

(* The variables keep their types; the frames are those of nested arrays in a reply, with
   at most one builder of another kind on top, and none of an unknown kind. *)
THEOREM TypeCorrect == Spec => []TypeOK
<1>1. Init => Sizes
  BY SizesAssumption, BreaksAssumption DEF Init, Sizes
<1>2. ASSUME InStepNow, Sizes, [Next]_vars PROVE Sizes'
  <2>1. ASSUME NEW n, Receive(n) PROVE Sizes'
    <3>1. capacity + ReadSize \in Nat
      BY <1>2, SizesAssumption DEF Sizes
    <3>2. PICK c : c = next_power_of_two(capacity + ReadSize)
      OBVIOUS
    <3>3. c \in Nat /\ c >= 1
      BY <3>1, <3>2, NextPower
    <3>4. (capacity' = c \/ capacity' = capacity) /\ breaks' = breaks
      BY <2>1, <3>2, Zenon DEF Receive
    <3> QED
      BY <1>2, <3>3, <3>4 DEF Sizes
  <2>2. ASSUME Break PROVE Sizes'
    BY <1>2, <2>2, BreaksAssumption DEF Break, Sizes
  <2>3. ASSUME Parse \/ ServerWrites \/ UNCHANGED vars PROVE Sizes'
    <3>1. capacity' = capacity /\ breaks' = breaks
      BY <2>3 DEF Parse, ServerWrites, vars
    <3> QED
      BY <1>2, <3>1 DEF Sizes
  <2> QED
    BY <1>2, <2>1, <2>2, <2>3 DEF Next
<1>3. ASSUME InStepNow, Sizes PROVE TypeOK
  <2>1. /\ busy \in BOOLEAN /\ error \in BOOLEAN
        /\ ~error => Phase(script, stack_rrb, Cat(bb, wire),
                           Len(Cat(delivered, available)) + 1, next)
        /\ error => Stuck(script, stack_rrb, bb)
    BY <1>3, Zenon DEF InStepNow, InStep, Going
  <2>2. Shaped(stack_rrb)
    BY <2>1, PhaseShaped, StuckShaped, Zenon
  <2> QED
    BY <1>3, <2>1, <2>2 DEF TypeOK, Sizes, Shaped
<1> QED
  BY <1>1, <1>2, <1>3, StaysInStep, PTL DEF Spec

=============================================================================
