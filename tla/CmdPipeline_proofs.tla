-------------------------- MODULE CmdPipeline_proofs --------------------------
(***************************************************************************)
(* Lemmas about the operators of Selection, for every sequence and every   *)
(* set of positions, and about those of CmdPipeline, for every deque: what *)
(* the loops over a deque keep, and what rebuilding it leaves in it.       *)
(***************************************************************************)
EXTENDS CmdPipeline, FiniteSetTheorems, SequenceTheorems, TLAPS

-----------------------------------------------------------------------------
(* Selection.                                                               *)

(* The ranks of the members of a set of positions are numbers from 1 on, one each. *)
LEMMA RankIsInto ==
    ASSUME NEW n \in Nat, NEW S \in SUBSET (1 .. n)
    PROVE  /\ IsFiniteSet(S)
           /\ Cardinality(S) \in Nat
           /\ \A i \in S : Rank(S, i) \in 1 .. Cardinality(S)
           /\ \A i, j \in S : Rank(S, i) = Rank(S, j) => i = j
<1> DEFINE below(i) == {j \in S : j <= i}
           C == Cardinality(S)
<1>1. IsFiniteSet(1 .. n)
  <2>1. 1 \in Int /\ n \in Int
    OBVIOUS
  <2> QED
    BY <2>1, FS_Interval
<1>2. IsFiniteSet(S) /\ C \in Nat
  <2>1. IsFiniteSet(S)
    BY <1>1, FS_Subset
  <2> QED
    BY <2>1, FS_CardinalityType
<1>3. ASSUME NEW i \in S
      PROVE  IsFiniteSet(below(i)) /\ Rank(S, i) \in 1 .. C
  <2>1. below(i) \in SUBSET S /\ i \in below(i)
    OBVIOUS
  <2>2. IsFiniteSet(below(i)) /\ Cardinality(below(i)) <= C
    BY <1>2, <2>1, FS_Subset
  <2>3. Cardinality(below(i)) \in Nat /\ Cardinality(below(i)) # 0
    BY <2>1, <2>2, FS_CardinalityType, FS_EmptySet
  <2> QED
    BY <1>2, <2>2, <2>3 DEF Rank
<1>4. ASSUME NEW i \in S, NEW j \in S, i < j
      PROVE  Rank(S, i) # Rank(S, j)
  <2>1. below(i) \in SUBSET below(j)
    <3>1. ASSUME NEW x \in S, x <= i PROVE x <= j
      <4>1. x \in Int /\ i \in Int /\ j \in Int
        OBVIOUS
      <4> QED
        BY <1>4, <3>1, <4>1
    <3> QED
      BY <3>1
  <2>2. below(i) # below(j)
    BY <1>4
  <2>3. Cardinality(below(j)) = Cardinality(below(i)) => below(j) = below(i)
    BY <1>3, <2>1, FS_Subset
  <2> QED
    BY <2>2, <2>3 DEF Rank
<1> QED
  <2>1. \A i, j \in S : i \in Int /\ j \in Int /\ (i < j \/ j < i \/ i = j)
    OBVIOUS
  <2> QED
    BY <1>2, <1>3, <1>4, <2>1

(* And every such number up to the size of the set is the rank of one. *)
LEMMA RankIsOnto ==
    ASSUME NEW n \in Nat, NEW S \in SUBSET (1 .. n)
    PROVE  /\ IsFiniteSet(S)
           /\ Cardinality(S) \in Nat
           /\ \A k \in 1 .. Cardinality(S) : \E i \in S : Rank(S, i) = k
<1> DEFINE f == [i \in S |-> Rank(S, i)]
           C == Cardinality(S)
<1>1. IsFiniteSet(S) /\ C \in Nat
  BY RankIsInto
<1>2. f \in Injection(S, 1 .. C)
  BY RankIsInto DEF Injection, IsInjective
<1>3. IsFiniteSet(1 .. C) /\ Cardinality(1 .. C) = C
  BY <1>1, FS_Interval
<1>4. f \in Surjection(S, 1 .. C)
  BY <1>2, <1>3, <1>1, FS_Injection
<1> QED
  BY <1>1, <1>4 DEF Surjection

(* Selected returns a sequence of elements of s, one per position. *)
LEMMA SelectedType ==
    ASSUME NEW T, NEW s \in Seq(T), NEW S \in SUBSET DOMAIN s
    PROVE  /\ Selected(s, S) \in Seq(T)
           /\ Len(Selected(s, S)) = Cardinality(S)
           /\ Cardinality(S) \in Nat
<1> DEFINE pick(k) == CHOOSE i \in S : Rank(S, i) = k
<1>1. Len(s) \in Nat /\ DOMAIN s = 1 .. Len(s)
  OBVIOUS
<1>2. Cardinality(S) \in Nat /\ \A k \in 1 .. Cardinality(S) : \E i \in S : Rank(S, i) = k
  BY <1>1, RankIsOnto
<1>3. \A k \in 1 .. Cardinality(S) : s[pick(k)] \in T
  BY <1>1, <1>2
<1>4. Selected(s, S) = [k \in 1 .. Cardinality(S) |-> s[pick(k)]]
  BY DEF Selected
<1> QED
  BY <1>2, <1>3, <1>4, IsASeq

(* The positions from m + 1 on select the end of s. *)
LEMMA SelectedSuffix ==
    ASSUME NEW n \in Nat, NEW m \in 0 .. n, NEW s
    PROVE  Selected(s, (m + 1) .. n) = [k \in 1 .. (n - m) |-> s[m + k]]
<1> DEFINE S == (m + 1) .. n
           pick(k) == CHOOSE i \in S : Rank(S, i) = k
<1>1. m + 1 \in Int /\ n \in Int /\ m \in Int
  OBVIOUS
<1>2. Cardinality(S) = n - m
  <2>1. Cardinality(S) = IF m + 1 > n THEN 0 ELSE n - (m + 1) + 1
    BY <1>1, FS_Interval
  <2> QED
    BY <1>1, <2>1
<1>3. ASSUME NEW i \in S PROVE Rank(S, i) = i - m
  <2>1. {j \in S : j <= i} = (m + 1) .. i
    OBVIOUS
  <2>2. i \in Int /\ i >= m + 1
    OBVIOUS
  <2>3. Cardinality((m + 1) .. i) = IF m + 1 > i THEN 0 ELSE i - (m + 1) + 1
    BY <1>1, <2>2, FS_Interval
  <2>4. Cardinality((m + 1) .. i) = i - m
    BY <1>1, <2>2, <2>3
  <2> QED
    BY <2>1, <2>4 DEF Rank
<1>4. ASSUME NEW k \in 1 .. (n - m) PROVE pick(k) = m + k
  <2>1. m + k \in S /\ Rank(S, m + k) = k
    BY <1>3
  <2>2. \A i \in S : Rank(S, i) = k => i = m + k
    BY <1>3
  <2> QED
    BY <2>1, <2>2
<1>5. Selected(s, S) = [k \in 1 .. (n - m) |-> s[pick(k)]]
  BY <1>2 DEF Selected
<1> HIDE DEF pick
<1> QED
  BY <1>4, <1>5

(* Every element at one of the positions is selected, and nothing else; elements that
   are selected at two places come from two places. *)
LEMMA SelectedMembers ==
    ASSUME NEW T, NEW s \in Seq(T), NEW S \in SUBSET DOMAIN s
    PROVE  /\ \A i \in S : \E k \in DOMAIN Selected(s, S) : Selected(s, S)[k] = s[i]
           /\ \A k \in DOMAIN Selected(s, S) : \E i \in S :
                 Selected(s, S)[k] = s[i] /\ Rank(S, i) = k
<1> DEFINE pick(k) == CHOOSE i \in S : Rank(S, i) = k
<1>1. Len(s) \in Nat /\ DOMAIN s = 1 .. Len(s)
  OBVIOUS
<1>2. \A k \in 1 .. Cardinality(S) : \E i \in S : Rank(S, i) = k
  BY <1>1, RankIsOnto
<1>3. \A i \in S : Rank(S, i) \in 1 .. Cardinality(S)
  BY <1>1, RankIsInto
<1>4. \A i, j \in S : Rank(S, i) = Rank(S, j) => i = j
  BY <1>1, RankIsInto
<1>5. Selected(s, S) = [k \in 1 .. Cardinality(S) |-> s[pick(k)]]
  BY DEF Selected
<1>6. \A k \in 1 .. Cardinality(S) : pick(k) \in S /\ Rank(S, pick(k)) = k
  BY <1>2
<1> HIDE DEF pick
<1>7. \A i \in S : pick(Rank(S, i)) = i
  BY <1>3, <1>4, <1>6
<1> QED
  BY <1>3, <1>5, <1>6, <1>7

(* A sequence is its first r elements and then the others. *)
LEMMA FirstAndRest ==
    ASSUME NEW T, NEW s \in Seq(T), NEW r \in 0 .. Len(s)
    PROVE  [k \in 1 .. r |-> s[k]] \o [k \in 1 .. (Len(s) - r) |-> s[r + k]] = s
<1> DEFINE n == Len(s)
           a == [k \in 1 .. r |-> s[k]]
           b == [k \in 1 .. (n - r) |-> s[r + k]]
<1>1. n \in Nat /\ r \in Nat /\ n - r \in Nat /\ \A k \in 1 .. n : s[k] \in T
  OBVIOUS
<1>2. (\A k \in 1 .. r : k \in 1 .. n) /\ \A k \in 1 .. (n - r) : r + k \in 1 .. n
  BY <1>1
<1>3. a \in Seq(T) /\ Len(a) = r /\ b \in Seq(T) /\ Len(b) = n - r
  <2>1. a \in Seq(T)
    BY <1>1, <1>2, IsASeq
  <2>2. b \in Seq(T)
    <3>1. \A k \in 1 .. (n - r) : s[r + k] \in T
      BY <1>1, <1>2
    <3> HIDE DEF n
    <3> QED
      BY <1>1, <3>1, IsASeq
  <2> QED
    BY <1>1, <2>1, <2>2
<1>4. /\ \A k \in 1 .. r : a[k] = s[k]
      /\ \A k \in 1 .. (n - r) : b[k] = s[r + k]
  OBVIOUS
<1> HIDE DEF a, b, n
<1>5. /\ a \o b \in Seq(T) /\ Len(a \o b) = Len(a) + Len(b)
      /\ \A k \in 1 .. Len(a) + Len(b) : (a \o b)[k] = IF k <= Len(a) THEN a[k] ELSE b[k - Len(a)]
  BY <1>3, ConcatProperties
<1>6. Len(a \o b) = n
  BY <1>1, <1>3, <1>5
<1>7. ASSUME NEW k \in 1 .. n PROVE (a \o b)[k] = s[k]
  <2>1. CASE k <= r
    BY <1>1, <1>3, <1>4, <1>5, <2>1
  <2>2. CASE k > r
    <3>1. k - r \in 1 .. (n - r) /\ r + (k - r) = k /\ k \in 1 .. Len(a) + Len(b)
      BY <1>1, <1>3, <2>2
    <3>2. (a \o b)[k] = b[k - r]
      BY <1>1, <1>3, <1>5, <2>2, <3>1
    <3>3. b[k - r] = s[k]
      BY <1>4, <3>1
    <3> QED
      BY <3>2, <3>3
  <2>3. k <= r \/ k > r
    <3>1. k \in Nat /\ r \in Nat
      BY <1>1
    <3> QED
      BY <3>1
  <2> QED
    BY <2>1, <2>2, <2>3
<1>8. a \o b = s
  BY <1>5, <1>6, <1>7, SeqEqual DEF n
<1> QED
  BY <1>8 DEF a, b, n

-----------------------------------------------------------------------------
(* A selection from a sequence that grows.                                  *)

(* The place of a selected element. *)
LEMMA SelectedAt ==
    ASSUME NEW n \in Nat, NEW S \in SUBSET (1 .. n), NEW i \in S, NEW s
    PROVE  Rank(S, i) \in 1 .. Cardinality(S) /\ Selected(s, S)[Rank(S, i)] = s[i]
<1> DEFINE j == CHOOSE j \in S : Rank(S, j) = Rank(S, i)
<1>1. Rank(S, i) \in 1 .. Cardinality(S)
  BY RankIsInto
<1>2. j \in S /\ Rank(S, j) = Rank(S, i)
  OBVIOUS
<1>3. j = i
  BY <1>2, RankIsInto
<1>4. Selected(s, S)[Rank(S, i)] = s[j]
  BY <1>1 DEF Selected
<1> QED
  BY <1>1, <1>3, <1>4

(* An element that is not selected changes nothing, *)
LEMMA SelectedWithout ==
    ASSUME NEW T, NEW s \in Seq(T), NEW x \in T, NEW S \in SUBSET DOMAIN s
    PROVE  Selected(Append(s, x), S) = Selected(s, S)
<1> DEFINE n    == Len(s)
           more == Append(s, x)
           C    == Cardinality(S)
<1>1. n \in Nat /\ S \in SUBSET (1 .. n) /\ \A i \in 1 .. n : more[i] = s[i]
  BY AppendProperties
<1> HIDE DEF n, more
<1>2. ASSUME NEW k \in 1 .. C PROVE Selected(more, S)[k] = Selected(s, S)[k]
  <2>1. PICK i \in S : Rank(S, i) = k
    BY <1>1, RankIsOnto
  <2>2. Selected(more, S)[k] = more[i] /\ Selected(s, S)[k] = s[i]
    BY <1>1, <2>1, SelectedAt
  <2> QED
    BY <1>1, <2>2
<1>3. /\ Selected(more, S) = [k \in 1 .. C |-> Selected(more, S)[k]]
      /\ Selected(s, S) = [k \in 1 .. C |-> Selected(s, S)[k]]
  BY DEF Selected
<1> HIDE DEF C
<1> QED
  BY <1>2, <1>3 DEF more

(* and one that is comes last. *)
LEMMA SelectedWith ==
    ASSUME NEW T, NEW s \in Seq(T), NEW x \in T, NEW S \in SUBSET DOMAIN s
    PROVE  Selected(Append(s, x), S \cup {Len(s) + 1}) = Append(Selected(s, S), x)
<1> DEFINE n    == Len(s)
           more == Append(s, x)
           C    == Cardinality(S)
           U    == S \cup {n + 1}
           a    == Selected(more, U)
           b    == Selected(s, S)
<1>1. /\ n \in Nat /\ S \in SUBSET (1 .. n)
      /\ U \in SUBSET (1 .. (n + 1)) /\ n + 1 \in Nat
      /\ more \in Seq(T) /\ U \in SUBSET DOMAIN more
      /\ \A i \in 1 .. n : more[i] = s[i]
      /\ more[n + 1] = x
  BY AppendProperties
<1>2. IsFiniteSet(S) /\ C \in Nat /\ n + 1 \notin S
  <2> HIDE DEF n
  <2>1. IsFiniteSet(S) /\ Cardinality(S) \in Nat
    BY <1>1, RankIsInto
  <2> QED
    BY <1>1, <2>1
<1>3. Cardinality(U) = C + 1
  BY <1>2, FS_AddElement
<1>4. /\ a \in Seq(T) /\ Len(a) = C + 1
      /\ b \in Seq(T) /\ Len(b) = C
  BY <1>1, <1>3, SelectedType
<1>5. /\ Append(b, x) \in Seq(T) /\ Len(Append(b, x)) = C + 1
      /\ \A k \in 1 .. C : Append(b, x)[k] = b[k]
      /\ Append(b, x)[C + 1] = x
  <2> HIDE DEF b, C
  <2> QED
    BY <1>4, AppendProperties
<1>6. \A i \in S : Rank(U, i) = Rank(S, i)
  <2>1. ASSUME NEW i \in S PROVE {j \in U : j <= i} = {j \in S : j <= i}
    BY <1>1
  <2> QED
    BY <2>1 DEF Rank
<1>7. Rank(U, n + 1) = C + 1
  <2>1. {j \in U : j <= n + 1} = U
    BY <1>1
  <2> QED
    BY <1>3, <2>1 DEF Rank
<1>8. ASSUME NEW k \in 1 .. (C + 1) PROVE a[k] = Append(b, x)[k]
  <2>1. CASE k \in 1 .. C
    <3>1. PICK i \in S : Rank(S, i) = k
      BY <1>1, <2>1, RankIsOnto
    <3>2. b[k] = s[i]
      BY <1>1, <3>1, SelectedAt
    <3>3. a[k] = more[i]
      <4>1. i \in U /\ Rank(U, i) = k
        BY <1>6, <3>1
      <4> HIDE DEF U
      <4> QED
        BY <1>1, <4>1, SelectedAt
    <3> HIDE DEF a, b, more
    <3> QED
      BY <1>1, <1>5, <2>1, <3>2, <3>3
  <2>2. CASE k = C + 1
    <3>1. a[k] = more[n + 1]
      <4>1. n + 1 \in U /\ Rank(U, n + 1) = k
        BY <1>7, <2>2
      <4> HIDE DEF U, n
      <4> QED
        BY <1>1, <4>1, SelectedAt
    <3> HIDE DEF a, b, more
    <3> QED
      BY <1>1, <1>5, <2>2, <3>1
  <2>3. k \in 1 .. C \/ k = C + 1
    BY <1>2
  <2> QED
    BY <2>1, <2>2, <2>3
<1> HIDE DEF a, b, C
<1>9. a = Append(b, x)
  BY <1>4, <1>5, <1>8, SeqEqual
<1> QED
  BY <1>9 DEF a, b

(* Every selected position has a rank of its own, and every rank a position. *)
LEMMA SelectedItems ==
    ASSUME NEW T, NEW s \in Seq(T), NEW S \in SUBSET DOMAIN s
    PROVE  /\ IsFiniteSet(S) /\ Cardinality(S) \in Nat
           /\ \A i \in S : /\ Rank(S, i) \in 1 .. Cardinality(S)
                         /\ Selected(s, S)[Rank(S, i)] = s[i]
           /\ \A k \in 1 .. Cardinality(S) : \E i \in S : Rank(S, i) = k
<1>1. PICK n \in Nat : n = Len(s) /\ DOMAIN s = 1 .. n
  OBVIOUS
<1>2. S \in SUBSET (1 .. n)
  BY <1>1
<1>3. ASSUME NEW i \in S
      PROVE  Rank(S, i) \in 1 .. Cardinality(S) /\ Selected(s, S)[Rank(S, i)] = s[i]
  BY <1>2, SelectedAt
<1> QED
  BY <1>2, <1>3, RankIsOnto

(* A selection from what is left of a sequence without its head. *)
LEMMA SelectedTail ==
    ASSUME NEW T, NEW s \in Seq(T), s # <<>>, NEW S \in SUBSET DOMAIN s,
           NEW R \in SUBSET DOMAIN Tail(s), \A i \in DOMAIN Tail(s) : i \in R <=> i + 1 \in S
    PROVE  /\ 1 \in S => Selected(s, S) = <<Head(s)>> \o Selected(Tail(s), R)
           /\ 1 \notin S => Selected(s, S) = Selected(Tail(s), R)
<1> DEFINE t == Tail(s)
           d == IF 1 \in S THEN 1 ELSE 0
           below(i) == {j \in S : j <= i + 1}
           less(i)  == {j \in R : j <= i}
<1>1. PICK n \in Nat : Len(s) = n + 1
  <2>1. Len(s) \in Nat /\ Len(s) # 0
    BY EmptySeq
  <2> QED
    BY <2>1
<1>2. /\ t \in Seq(T) /\ Len(t) = n /\ DOMAIN t = 1 .. n /\ DOMAIN s = 1 .. (n + 1)
      /\ Head(s) = s[1] /\ s[1] \in T
      /\ \A i \in 1 .. n : t[i] = s[i + 1]
  BY <1>1, HeadTailProperties
<1>3. R = {i \in 1 .. n : i + 1 \in S} /\ R \in SUBSET (1 .. n) /\ S \in SUBSET (1 .. (n + 1))
  BY <1>2
<1>4. IsFiniteSet(1 .. n)
  BY FS_Interval
<1> HIDE DEF t
<1>5. ASSUME NEW i \in 0 .. n PROVE Cardinality(below(i)) = Cardinality(less(i)) + d
  <2> DEFINE B == {j \in S : 2 <= j /\ j <= i + 1}
             f == [x \in less(i) |-> x + 1]
  <2>1. IsFiniteSet(less(i)) /\ Cardinality(less(i)) \in Nat
    <3>1. IsFiniteSet(less(i))
      BY <1>3, <1>4, FS_Subset
    <3> QED
      BY <3>1, FS_CardinalityType
  <2>2. f \in Bijection(less(i), B)
    <3>1. ASSUME NEW x \in less(i) PROVE x + 1 \in B
      BY <1>3
    <3>2. ASSUME NEW j \in B PROVE \E x \in less(i) : f[x] = j
      <4>1. j - 1 \in less(i) /\ (j - 1) + 1 = j
        BY <1>3
      <4> QED
        BY <4>1
    <3>3. \A x, y \in less(i) : x + 1 = y + 1 => x = y
      BY <1>3
    <3> QED
      BY <3>1, <3>2, <3>3 DEF Bijection, Injection, IsInjective, Surjection
  <2>3. IsFiniteSet(B) /\ Cardinality(B) = Cardinality(less(i))
    BY <2>1, <2>2, FS_Bijection DEF ExistsBijection
  <2>4. 1 \notin B
    OBVIOUS
  <2>5. CASE 1 \in S
    <3>1. below(i) = B \cup {1}
      BY <1>3, <2>5
    <3>2. Cardinality(B \cup {1}) = Cardinality(B) + 1
      BY <2>3, <2>4, FS_AddElement
    <3>3. d = 1
      BY <2>5
    <3> HIDE DEF below, less, B, d
    <3> QED
      BY <2>3, <3>1, <3>2, <3>3
  <2>6. CASE 1 \notin S
    <3>1. below(i) = B
      <4>1. ASSUME NEW j \in S PROVE 2 <= j
        BY <1>3, <2>6
      <4> QED
        BY <4>1
    <3>2. d = 0
      BY <2>6
    <3> HIDE DEF below, less, B, d
    <3> QED
      BY <2>1, <2>3, <3>1, <3>2
  <2> QED
    BY <2>5, <2>6
<1>6. \A i \in R : Rank(S, i + 1) = Rank(R, i) + d
  <2> SUFFICES ASSUME NEW i \in R PROVE Rank(S, i + 1) = Rank(R, i) + d
    OBVIOUS
  <2>1. i \in 0 .. n
    BY <1>3
  <2> QED
    BY <1>5, <2>1 DEF Rank
<1>7. Cardinality(S) = Cardinality(R) + d
  <2>1. below(n) = S /\ less(n) = R
    BY <1>3
  <2>2. n \in 0 .. n
    OBVIOUS
  <2> HIDE DEF below, less, d
  <2> QED
    BY <1>5, <2>1, <2>2
<1>8. /\ Selected(s, S) \in Seq(T) /\ Len(Selected(s, S)) = Cardinality(S)
      /\ Selected(t, R) \in Seq(T) /\ Len(Selected(t, R)) = Cardinality(R)
      /\ Cardinality(R) \in Nat /\ Cardinality(S) \in Nat
  <2>1. R \in SUBSET DOMAIN t
    BY <1>2, <1>3
  <2> QED
    BY <1>2, <2>1, SelectedType
<1>9. /\ \A i \in R : Selected(t, R)[Rank(R, i)] = t[i]
      /\ \A k \in 1 .. Cardinality(R) : \E i \in R : Rank(R, i) = k
  <2>1. R \in SUBSET DOMAIN t
    BY <1>2, <1>3
  <2> QED
    BY <1>2, <2>1, SelectedItems
<1>10. \A i \in S : Selected(s, S)[Rank(S, i)] = s[i]
  BY SelectedItems
<1>11. \A k \in 1 .. Cardinality(R) : Selected(s, S)[k + d] = Selected(t, R)[k]
  <2> SUFFICES ASSUME NEW k \in 1 .. Cardinality(R) PROVE Selected(s, S)[k + d] = Selected(t, R)[k]
    OBVIOUS
  <2>1. PICK i \in R : Rank(R, i) = k
    BY <1>9
  <2>2. Selected(t, R)[k] = t[i]
    BY <1>9, <2>1
  <2>3. i + 1 \in S /\ Rank(S, i + 1) = k + d
    BY <1>3, <1>6, <2>1
  <2>4. PICK j \in S : j = i + 1
    BY <2>3
  <2>5. Selected(s, S)[Rank(S, j)] = s[j]
    BY <1>10
  <2> QED
    BY <1>2, <1>3, <2>2, <2>3, <2>4, <2>5
<1>12. CASE 1 \in S
  <2> DEFINE q == <<Head(s)>> \o Selected(t, R)
             h == <<Head(s)>>
  <2>1. Selected(s, S)[1] = Head(s)
    <3>1. {j \in S : j <= 1} = {1}
      BY <1>3, <1>12
    <3>2. Rank(S, 1) = 1
      BY <3>1, FS_Singleton DEF Rank
    <3>3. Selected(s, S)[Rank(S, 1)] = s[1]
      BY <1>12, <1>10
    <3> QED
      BY <1>2, <3>2, <3>3
  <2>2. h \in Seq(T) /\ Len(h) = 1 /\ h[1] = Head(s)
    BY <1>2
  <2> HIDE DEF h
  <2>3. /\ q \in Seq(T) /\ Len(q) = 1 + Cardinality(R)
        /\ \A k \in 1 .. (1 + Cardinality(R)) : q[k] = IF k <= 1 THEN h[k] ELSE Selected(t, R)[k - 1]
    <3>1. PICK r \in Seq(T) : r = Selected(t, R)
      BY <1>8
    <3>2. Len(r) = Cardinality(R) /\ q = h \o r
      BY <1>8, <3>1 DEF h
    <3>3. /\ h \o r \in Seq(T) /\ Len(h \o r) = Len(h) + Len(r)
          /\ \A k \in 1 .. (Len(h) + Len(r)) :
                 (h \o r)[k] = IF k <= Len(h) THEN h[k] ELSE r[k - Len(h)]
      BY <2>2, ConcatProperties
    <3> HIDE DEF q
    <3> QED
      BY <2>2, <3>1, <3>2, <3>3
  <2> HIDE DEF q
  <2>4. ASSUME NEW k \in 1 .. (1 + Cardinality(R)) PROVE q[k] = Selected(s, S)[k]
    <3>1. CASE k = 1
      BY <2>1, <2>2, <2>3, <3>1
    <3>2. CASE k > 1
      <4>1. k - 1 \in 1 .. Cardinality(R) /\ (k - 1) + 1 = k /\ ~(k <= 1)
        BY <1>8, <3>2
      <4>2. Selected(s, S)[(k - 1) + d] = Selected(t, R)[k - 1]
        BY <1>11, <4>1
      <4> QED
        BY <1>12, <2>3, <4>1, <4>2
    <3> QED
      BY <1>8, <3>1, <3>2
  <2>5. Len(Selected(s, S)) = 1 + Cardinality(R)
    BY <1>7, <1>8, <1>12
  <2>6. Selected(s, S) = q
    <3>1. PICK a \in Seq(T) : a = Selected(s, S)
      BY <1>8
    <3> QED
      BY <2>3, <2>4, <2>5, <3>1, SeqEqual
  <2> QED
    BY <1>12, <2>6 DEF q, t
<1>13. CASE 1 \notin S
  <2>1. Len(Selected(s, S)) = Cardinality(R)
    BY <1>7, <1>8, <1>13
  <2>2. ASSUME NEW k \in 1 .. Cardinality(R) PROVE Selected(s, S)[k] = Selected(t, R)[k]
    <3>1. k + d = k
      BY <1>8, <1>13
    <3> QED
      BY <1>11, <3>1
  <2>3. Selected(s, S) = Selected(t, R)
    <3>1. PICK a \in Seq(T) : a = Selected(s, S)
      BY <1>8
    <3>2. PICK b \in Seq(T) : b = Selected(t, R)
      BY <1>8
    <3> QED
      BY <1>8, <2>1, <2>2, <3>1, <3>2, SeqEqual
  <2> QED
    BY <1>13, <2>3 DEF t
<1> QED
  BY <1>12, <1>13

(* A selection from the beginning of a sequence. *)
LEMMA SelectedPrefix ==
    ASSUME NEW T, NEW s \in Seq(T), NEW n \in 0 .. Len(s), NEW S \in SUBSET DOMAIN s,
           NEW R, R = {i \in S : i <= n}
    PROVE  /\ Cardinality(R) \in 0 .. Cardinality(S)
           /\ Selected(SubSeq(s, 1, n), R) = SubSeq(Selected(s, S), 1, Cardinality(R))
<1> DEFINE t == SubSeq(s, 1, n)
           a == Selected(t, R)
           b == Selected(s, S)
           m == Cardinality(R)
<1>1. Len(s) \in Nat /\ DOMAIN s = 1 .. Len(s) /\ S \in SUBSET (1 .. Len(s)) /\ n \in Nat
  OBVIOUS
<1>2. /\ t \in Seq(T) /\ Len(t) = n /\ DOMAIN t = 1 .. n
      /\ \A i \in 1 .. n : t[i] = s[i]
  BY <1>1, SubSeqProperties
<1>3. R \in SUBSET (1 .. n) /\ R \in SUBSET S
  BY <1>1
<1> HIDE DEF t
<1>4. a \in Seq(T) /\ Len(a) = m /\ b \in Seq(T) /\ Len(b) = Cardinality(S)
  <2>1. R \in SUBSET DOMAIN t
    BY <1>2, <1>3
  <2> QED
    BY <1>2, <2>1, SelectedType
<1>5. m \in 0 .. Cardinality(S)
  <2>1. IsFiniteSet(S) /\ Cardinality(S) \in Nat
    BY <1>1, RankIsInto
  <2>2. IsFiniteSet(R) /\ m <= Cardinality(S)
    BY <1>3, <2>1, FS_Subset
  <2>3. m \in Nat
    BY <2>2, FS_CardinalityType
  <2> QED
    BY <2>1, <2>2, <2>3
<1>6. ASSUME NEW k \in 1 .. m PROVE a[k] = b[k]
  <2>1. R \in SUBSET DOMAIN t
    BY <1>2, <1>3
  <2>2. /\ \A i \in R : a[Rank(R, i)] = t[i]
        /\ \A l \in 1 .. m : \E i \in R : Rank(R, i) = l
    BY <1>2, <2>1, SelectedItems
  <2>3. PICK i \in R : Rank(R, i) = k
    BY <2>2
  <2>4. a[k] = t[i]
    BY <2>3, <2>2
  <2>5. Rank(S, i) = k
    <3>1. {j \in S : j <= i} = {j \in R : j <= i}
      <4>1. ASSUME NEW j \in S, j <= i PROVE j <= n
        <5>1. i \in Int /\ i <= n /\ j \in Int
          BY <1>1, <1>3
        <5> QED
          BY <1>1, <4>1, <5>1
      <4> QED
        BY <1>3, <4>1
    <3> QED
      BY <2>3, <3>1 DEF Rank
  <2>6. b[k] = s[i]
    <3>1. i \in S
      BY <1>3
    <3> QED
      BY <2>5, <3>1, SelectedItems
  <2> QED
    BY <1>2, <1>3, <2>4, <2>6
<1> HIDE DEF a, b, m
<1>7. a = SubSeq(b, 1, m)
  <2>1. m \in Nat /\ m <= Len(b)
    BY <1>4, <1>5, <1>1, RankIsInto
  <2>2. SubSeq(b, 1, m) \in Seq(T) /\ Len(SubSeq(b, 1, m)) = m /\ \A k \in 1 .. m : SubSeq(b, 1, m)[k] = b[k]
    BY <1>4, <2>1, SubSeqProperties
  <2> QED
    BY <1>4, <1>6, <2>2, SeqEqual
<1> QED
  BY <1>5, <1>7 DEF a, b, m, t

-----------------------------------------------------------------------------
(* Deques.                                                                  *)

(* A loop that sets the state of some pipelines changes nothing else. *)
LEMMA MarkedType ==
    ASSUME NEW dq \in Seq(Pipeline), NEW S, NEW st \in PipelineState
    PROVE  /\ Marked(dq, S, st) \in Seq(Pipeline)
           /\ Len(Marked(dq, S, st)) = Len(dq)
           /\ DOMAIN Marked(dq, S, st) = DOMAIN dq
           /\ \A i \in DOMAIN dq :
                /\ Marked(dq, S, st)[i].sn = dq[i].sn
                /\ Marked(dq, S, st)[i].built_num = dq[i].built_num
                /\ Marked(dq, S, st)[i].processed_num = dq[i].processed_num
                /\ Marked(dq, S, st)[i].state = IF i \in S THEN st ELSE dq[i].state
<1> DEFINE mk == Marked(dq, S, st)
<1>1. DOMAIN dq = 1 .. Len(dq) /\ Len(dq) \in Nat
  OBVIOUS
<1>2. ASSUME NEW i \in DOMAIN dq
      PROVE  /\ mk[i] \in Pipeline
             /\ mk[i].sn = dq[i].sn
             /\ mk[i].built_num = dq[i].built_num
             /\ mk[i].processed_num = dq[i].processed_num
             /\ mk[i].state = IF i \in S THEN st ELSE dq[i].state
  <2>1. dq[i] \in Pipeline
    BY <1>1
  <2> QED
    BY <2>1 DEF Marked, Pipeline
<1>3. mk = [i \in 1 .. Len(dq) |-> mk[i]]
  BY <1>1 DEF Marked
<1>4. mk \in Seq(Pipeline) /\ Len(mk) = Len(dq)
  BY <1>1, <1>2, <1>3, IsASeq
<1> QED
  BY <1>1, <1>2, <1>3, <1>4

-----------------------------------------------------------------------------
(* What keeps a deque in order (HoldsUnanswered) as the connection changes it. *)

(* A deque that holds the pipelines c + 1 .. n, none of them over. *)
QueueOK(dq, c, n) ==
    HoldsUnanswered(dq, c, n) /\ \A i \in DOMAIN dq : dq[i].state < PROCESS_OVER

(* Setting states does not disturb it. *)
LEMMA QueueMarked ==
    ASSUME NEW dq \in Seq(Pipeline), NEW S, NEW st \in PipelineState, st < PROCESS_OVER,
           NEW c \in Nat, NEW n \in Nat, QueueOK(dq, c, n)
    PROVE  QueueOK(Marked(dq, S, st), c, n)
BY MarkedType DEF QueueOK, HoldsUnanswered, OwnLeft

(* Pipelines that continue the numbering may be appended. *)
LEMMA QueueAppended ==
    ASSUME NEW dq \in Seq(Pipeline), NEW batch \in Seq(Pipeline),
           NEW c \in Nat, NEW n \in Nat, QueueOK(dq, c, n),
           \A k \in DOMAIN batch : batch[k].sn = n + k /\ batch[k].state < PROCESS_OVER
    PROVE  QueueOK(dq \o batch, c, n + Len(batch))
<1> DEFINE new == dq \o batch
<1>1. /\ Len(dq) \in Nat /\ DOMAIN dq = 1 .. Len(dq)
      /\ Len(batch) \in Nat /\ DOMAIN batch = 1 .. Len(batch)
  OBVIOUS
<1>2. /\ new \in Seq(Pipeline)
      /\ Len(new) = Len(dq) + Len(batch)
      /\ \A i \in 1 .. Len(dq) + Len(batch) :
            new[i] = IF i <= Len(dq) THEN dq[i] ELSE batch[i - Len(dq)]
  BY ConcatProperties
<1>3. DOMAIN new = 1 .. Len(dq) + Len(batch)
  BY <1>2
<1>4. OwnLeft(new, c, n + Len(batch)) = OwnLeft(dq, c, n)
  BY <1>1, <1>2 DEF OwnLeft
<1>5. ASSUME NEW i \in DOMAIN new
      PROVE  /\ new[i].sn = IF i <= OwnLeft(dq, c, n) THEN 0 ELSE c + i - OwnLeft(dq, c, n)
             /\ new[i].state < PROCESS_OVER
  <2>1. CASE i <= Len(dq)
    BY <1>1, <1>2, <1>3, <2>1 DEF QueueOK, HoldsUnanswered
  <2>2. CASE i > Len(dq)
    <3>1. i - Len(dq) \in DOMAIN batch /\ new[i] = batch[i - Len(dq)]
      BY <1>1, <1>2, <1>3, <2>2
    <3>2. new[i].sn = n + (i - Len(dq)) /\ new[i].state < PROCESS_OVER
      BY <3>1
    <3>3. ~(i <= OwnLeft(dq, c, n)) /\ n + (i - Len(dq)) = c + i - OwnLeft(dq, c, n)
      BY <1>1, <1>3, <2>2 DEF OwnLeft, QueueOK, HoldsUnanswered
    <3> QED
      BY <3>2, <3>3
  <2> QED
    BY <1>1, <1>3, <2>1, <2>2
<1> QED
  BY <1>4, <1>5 DEF QueueOK, HoldsUnanswered

(* The rebuilt deque is a deque of pipelines. *)
LEMMA RebuiltType ==
    ASSUME NEW init \in Seq(Pipeline), NEW dq \in Seq(Pipeline)
    PROVE  Rebuilt(init, dq) \in Seq(Pipeline)
<1>1. Positions(dq, Unfinished) \in SUBSET DOMAIN dq
  BY DEF Positions
<1>2. Selected(dq, Positions(dq, Unfinished)) \in Seq(Pipeline)
  BY <1>1, SelectedType
<1> QED
  BY <1>2, ConcatProperties DEF Rebuilt

(* It is made of the connection's own pipelines and the callers'. *)
LEMMA RebuiltMembers ==
    ASSUME NEW init \in Seq(Pipeline), NEW dq \in Seq(Pipeline)
    PROVE  \A i \in DOMAIN Rebuilt(init, dq) :
              \/ \E j \in DOMAIN init : Rebuilt(init, dq)[i] = init[j]
              \/ \E j \in DOMAIN dq : dq[j].sn > 0 /\ Rebuilt(init, dq)[i] = dq[j]
<1> DEFINE S    == Positions(dq, Unfinished)
           kept == Selected(dq, S)
           new  == Rebuilt(init, dq)
<1>1. S \in SUBSET DOMAIN dq /\ \A j \in S : dq[j].sn > 0
  BY DEF Positions, Unfinished
<1>2. new = init \o kept
  BY DEF Rebuilt
<1> HIDE DEF S, new
<1>3. kept \in Seq(Pipeline) /\ \A k \in DOMAIN kept : \E j \in S : kept[k] = dq[j]
  BY <1>1, SelectedType, SelectedMembers
<1> HIDE DEF kept
<1>4. /\ Len(init) \in Nat /\ DOMAIN init = 1 .. Len(init)
      /\ Len(kept) \in Nat /\ DOMAIN kept = 1 .. Len(kept)
  BY <1>3
<1>5. /\ DOMAIN new = 1 .. Len(init) + Len(kept)
      /\ \A i \in 1 .. Len(init) + Len(kept) :
            new[i] = IF i <= Len(init) THEN init[i] ELSE kept[i - Len(init)]
  BY <1>2, <1>3, ConcatProperties
<1>6. ASSUME NEW i \in DOMAIN new
      PROVE  \/ \E j \in DOMAIN init : new[i] = init[j]
             \/ \E j \in DOMAIN dq : dq[j].sn > 0 /\ new[i] = dq[j]
  <2>1. CASE i <= Len(init)
    <3>1. i \in DOMAIN init /\ new[i] = init[i]
      BY <1>4, <1>5, <2>1
    <3> QED
      BY <3>1
  <2>2. CASE i > Len(init)
    <3>1. i - Len(init) \in DOMAIN kept /\ new[i] = kept[i - Len(init)]
      BY <1>4, <1>5, <2>2
    <3> QED
      BY <1>1, <1>3, <3>1
  <2> QED
    BY <1>4, <1>5, <2>1, <2>2
<1> QED
  BY <1>6 DEF new

(* OnClientConnect drops what the connection itself had sent, and nothing else. *)
LEMMA QueueRebuilt ==
    ASSUME NEW init \in Seq(Pipeline), NEW dq \in Seq(Pipeline),
           \A i \in DOMAIN init : init[i].sn = 0 /\ init[i].state < PROCESS_OVER,
           NEW c \in Nat, NEW n \in Nat, QueueOK(dq, c, n)
    PROVE  QueueOK(Rebuilt(init, dq), c, n)
<1> DEFINE left == OwnLeft(dq, c, n)
           kept == Selected(dq, Positions(dq, Unfinished))
<1>1. /\ Len(dq) \in Nat /\ DOMAIN dq = 1 .. Len(dq)
      /\ left \in 0 .. Len(dq) /\ Len(dq) - left = n - c
  BY DEF QueueOK, HoldsUnanswered, OwnLeft
<1>2. Positions(dq, Unfinished) = (left + 1) .. Len(dq)
  <2>1. ASSUME NEW i \in DOMAIN dq PROVE Unfinished(dq[i]) <=> i > left
    BY <1>1 DEF Unfinished, QueueOK, HoldsUnanswered
  <2> QED
    BY <1>1, <2>1 DEF Positions
<1>3. kept = [k \in 1 .. (n - c) |-> dq[left + k]]
  <2>1. Selected(dq, (left + 1) .. Len(dq)) = [k \in 1 .. (Len(dq) - left) |-> dq[left + k]]
    <3>1. Len(dq) \in Nat /\ left \in 0 .. Len(dq)
      BY <1>1
    <3> HIDE DEF left
    <3> QED
      BY <3>1, SelectedSuffix
  <2> QED
    BY <1>1, <1>2, <2>1
<1>4. kept \in Seq(Pipeline)
  <2>1. Positions(dq, Unfinished) \in SUBSET DOMAIN dq
    BY DEF Positions
  <2> QED
    BY <2>1, SelectedType
<1>5. n - c \in Nat /\ Len(kept) = n - c /\ DOMAIN kept = 1 .. (n - c)
  BY <1>1, <1>3
<1>6. \A k \in DOMAIN kept : kept[k].sn = c + k /\ kept[k].state < PROCESS_OVER
  <2>1. ASSUME NEW k \in 1 .. (n - c)
        PROVE  dq[left + k].sn = c + k /\ dq[left + k].state < PROCESS_OVER
    <3>1. left + k \in DOMAIN dq /\ ~(left + k <= left) /\ c + (left + k) - left = c + k
      BY <1>1
    <3> QED
      BY <3>1 DEF QueueOK, HoldsUnanswered
  <2> QED
    BY <1>3, <1>5, <2>1
<1>7. QueueOK(init, c, c)
  <2>1. OwnLeft(init, c, c) = Len(init) /\ Len(init) \in Nat /\ DOMAIN init = 1 .. Len(init)
    BY DEF OwnLeft
  <2> QED
    BY <2>1 DEF QueueOK, HoldsUnanswered
<1>8. QueueOK(init \o kept, c, c + Len(kept))
  BY <1>4, <1>6, <1>7, QueueAppended
<1>9. c + Len(kept) = n
  BY <1>5
<1> QED
  BY <1>8, <1>9 DEF Rebuilt

(* Popping the front pipeline answers the next caller, or one of the connection's
   own commands. *)
LEMMA QueuePopped ==
    ASSUME NEW dq \in Seq(Pipeline), dq # <<>>,
           NEW c \in Nat, NEW n \in Nat, QueueOK(dq, c, n)
    PROVE  /\ Head(dq).sn = 0 => QueueOK(Tail(dq), c, n)
           /\ Head(dq).sn # 0 => /\ Head(dq).sn = c + 1
                                 /\ QueueOK(Tail(dq), c + 1, n)
<1> DEFINE left == OwnLeft(dq, c, n)
           rest == Tail(dq)
<1>1. /\ Len(dq) \in Nat \ {0} /\ DOMAIN dq = 1 .. Len(dq)
      /\ left \in 0 .. Len(dq) /\ left = Len(dq) - (n - c)
  BY EmptySeq DEF QueueOK, HoldsUnanswered, OwnLeft
<1>2. /\ rest \in Seq(Pipeline) /\ Len(rest) = Len(dq) - 1
      /\ \A i \in 1 .. Len(rest) : rest[i] = dq[i + 1]
      /\ Head(dq) = dq[1]
  BY HeadTailProperties
<1>3. DOMAIN rest = 1 .. (Len(dq) - 1)
  BY <1>2
<1>4. \A i \in DOMAIN dq : /\ dq[i].sn = IF i <= left THEN 0 ELSE c + i - left
                          /\ dq[i].state < PROCESS_OVER
  BY DEF QueueOK, HoldsUnanswered
<1>5. \A i \in DOMAIN rest : /\ rest[i].sn = IF i + 1 <= left THEN 0 ELSE c + (i + 1) - left
                            /\ rest[i].state < PROCESS_OVER
  <2>1. \A i \in DOMAIN rest : i + 1 \in DOMAIN dq
    BY <1>1, <1>3
  <2> QED
    BY <1>2, <1>4, <2>1
<1>6. ASSUME Head(dq).sn = 0 PROVE QueueOK(rest, c, n)
  <2>1. left >= 1
    BY <1>1, <1>2, <1>4, <1>6
  <2>2. OwnLeft(rest, c, n) = left - 1 /\ c <= n
    BY <1>1, <1>2 DEF OwnLeft, QueueOK, HoldsUnanswered
  <2> QED
    BY <1>1, <1>3, <1>5, <2>1, <2>2 DEF QueueOK, HoldsUnanswered
<1>7. ASSUME Head(dq).sn # 0 PROVE Head(dq).sn = c + 1 /\ QueueOK(rest, c + 1, n)
  <2>1. left = 0 /\ Head(dq).sn = c + 1
    BY <1>1, <1>2, <1>4, <1>7
  <2>2. OwnLeft(rest, c + 1, n) = 0 /\ c + 1 <= n
    BY <1>1, <1>2, <2>1 DEF OwnLeft
  <2>3. \A i \in DOMAIN rest : /\ rest[i].sn = IF i <= 0 THEN 0 ELSE (c + 1) + i - 0
                              /\ rest[i].state < PROCESS_OVER
    BY <1>1, <1>3, <1>5, <2>1
  <2> QED
    BY <2>1, <2>2, <2>3 DEF QueueOK, HoldsUnanswered
<1> QED
  BY <1>6, <1>7

(* The deque with its front pipeline replaced. *)
LEMMA FrontReplaced ==
    ASSUME NEW dq \in Seq(Pipeline), dq # <<>>, NEW cp \in Pipeline
    PROVE  LET new == <<cp>> \o Tail(dq)
           IN  /\ new \in Seq(Pipeline)
               /\ DOMAIN new = DOMAIN dq /\ Len(new) = Len(dq)
               /\ new[1] = cp
               /\ \A i \in DOMAIN dq : i > 1 => new[i] = dq[i]
<1> DEFINE new == <<cp>> \o Tail(dq)
<1>1. Len(dq) \in Nat \ {0} /\ DOMAIN dq = 1 .. Len(dq)
  BY EmptySeq
<1>2. /\ Tail(dq) \in Seq(Pipeline) /\ Len(Tail(dq)) = Len(dq) - 1
      /\ \A i \in 1 .. Len(Tail(dq)) : Tail(dq)[i] = dq[i + 1]
  BY HeadTailProperties
<1>3. <<cp>> \in Seq(Pipeline) /\ Len(<<cp>>) = 1 /\ <<cp>>[1] = cp
  OBVIOUS
<1>4. /\ new \in Seq(Pipeline) /\ Len(new) = 1 + (Len(dq) - 1)
      /\ \A i \in 1 .. 1 + (Len(dq) - 1) :
            new[i] = IF i <= 1 THEN <<cp>>[i] ELSE Tail(dq)[i - 1]
  BY <1>2, <1>3, ConcatProperties
<1>5. DOMAIN new = DOMAIN dq /\ Len(new) = Len(dq)
  BY <1>1, <1>4
<1>6. new[1] = cp
  BY <1>1, <1>3, <1>4
<1>7. ASSUME NEW i \in DOMAIN dq, i > 1 PROVE new[i] = dq[i]
  <2>1. i - 1 \in 1 .. Len(Tail(dq)) /\ (i - 1) + 1 = i
    BY <1>1, <1>2, <1>7
  <2> QED
    BY <1>1, <1>2, <1>4, <1>7, <2>1
<1> QED
  BY <1>4, <1>5, <1>6, <1>7

(* Counting a reply for the front pipeline does not disturb the deque. *)
LEMMA QueueFrontReplaced ==
    ASSUME NEW dq \in Seq(Pipeline), dq # <<>>, NEW cp \in Pipeline,
           cp.sn = Head(dq).sn, cp.state < PROCESS_OVER,
           NEW c \in Nat, NEW n \in Nat, QueueOK(dq, c, n)
    PROVE  /\ <<cp>> \o Tail(dq) \in Seq(Pipeline)
           /\ QueueOK(<<cp>> \o Tail(dq), c, n)
<1> DEFINE new == <<cp>> \o Tail(dq)
<1>1. Len(dq) \in Nat \ {0} /\ DOMAIN dq = 1 .. Len(dq) /\ Head(dq) = dq[1]
  BY EmptySeq
<1>2. /\ new \in Seq(Pipeline)
      /\ DOMAIN new = DOMAIN dq /\ Len(new) = Len(dq)
      /\ new[1] = cp
      /\ \A i \in DOMAIN dq : i > 1 => new[i] = dq[i]
  BY FrontReplaced
<1> HIDE DEF new
<1>3. ASSUME NEW i \in DOMAIN dq
      PROVE  new[i].sn = dq[i].sn /\ new[i].state < PROCESS_OVER
  <2>1. i = 1 \/ i > 1
    BY <1>1
  <2> QED
    BY <1>1, <1>2, <2>1 DEF QueueOK
<1> QED
  BY <1>2, <1>3 DEF QueueOK, HoldsUnanswered, OwnLeft, new

-----------------------------------------------------------------------------
(* How many pipelines of a deque have been committed and still wait for replies. *)

InFlight(dq) == {i \in DOMAIN dq : dq[i].state >= COMMITTING}

LEMMA InFlightCount ==
    ASSUME NEW dq \in Seq(Pipeline)
    PROVE  /\ IsFiniteSet(InFlight(dq))
           /\ Cardinality(InFlight(dq)) \in Nat
<1>1. Len(dq) \in Nat /\ InFlight(dq) \in SUBSET (1 .. Len(dq))
  BY DEF InFlight
<1> QED
  BY <1>1, RankIsOnto

(* Committing the pipelines at S adds at most as many as S has. *)
LEMMA InFlightMarked ==
    ASSUME NEW dq \in Seq(Pipeline), NEW S \in SUBSET DOMAIN dq
    PROVE  /\ Cardinality(S) \in Nat
           /\ Cardinality(InFlight(Marked(dq, S, COMMITTING)))
                <= Cardinality(InFlight(dq)) + Cardinality(S)
<1> DEFINE mk == Marked(dq, S, COMMITTING)
<1>1. COMMITTING \in PipelineState
  BY DEF COMMITTING, PipelineState, QUEUEING, PROCESS_OVER
<1>2. InFlight(mk) \in SUBSET (InFlight(dq) \cup S)
  <2>1. \A i \in DOMAIN mk : i \in DOMAIN dq /\ (i \notin S => mk[i].state = dq[i].state)
    BY <1>1, MarkedType
  <2> QED
    BY <2>1 DEF InFlight
<1>3. IsFiniteSet(S) /\ Cardinality(S) \in Nat
  <2>1. Len(dq) \in Nat /\ S \in SUBSET (1 .. Len(dq))
    OBVIOUS
  <2> QED
    BY <2>1, RankIsOnto
<1>4. IsFiniteSet(InFlight(dq)) /\ Cardinality(InFlight(dq)) \in Nat
  BY InFlightCount
<1> DEFINE both == InFlight(dq) \cup S
           common == InFlight(dq) \cap S
<1>5. /\ IsFiniteSet(both)
      /\ Cardinality(both) = Cardinality(InFlight(dq)) + Cardinality(S) - Cardinality(common)
  BY <1>3, <1>4, FS_Union
<1>6. Cardinality(common) \in Nat
  BY <1>4, FS_Intersection, FS_CardinalityType
<1>7. Cardinality(InFlight(mk)) <= Cardinality(both) /\ IsFiniteSet(InFlight(mk))
  BY <1>2, <1>5, FS_Subset
<1>8. Cardinality(InFlight(mk)) \in Nat
  BY <1>7, FS_CardinalityType
<1> HIDE DEF mk, both, common
<1> QED
  BY <1>3, <1>4, <1>5, <1>6, <1>7, <1>8 DEF mk

(* Marking every pipeline with an earlier state leaves none. *)
LEMMA InFlightNone ==
    ASSUME NEW dq \in Seq(Pipeline), NEW st \in PipelineState, st < COMMITTING
    PROVE  Cardinality(InFlight(Marked(dq, DOMAIN dq, st))) = 0
<1> DEFINE mk == Marked(dq, DOMAIN dq, st)
<1>1. st \in Int /\ COMMITTING \in Int
  BY DEF PipelineState, QUEUEING, COMMITTING, PROCESS_OVER
<1>2. \A i \in DOMAIN mk : mk[i].state = st
  BY MarkedType
<1>3. InFlight(mk) = {}
  BY <1>1, <1>2 DEF InFlight
<1> QED
  BY <1>3, FS_EmptySet

(* Pipelines that are only being sent do not count. *)
LEMMA InFlightAppended ==
    ASSUME NEW dq \in Seq(Pipeline), NEW batch \in Seq(Pipeline),
           \A k \in DOMAIN batch : batch[k].state = SENDING
    PROVE  InFlight(dq \o batch) = InFlight(dq)
<1> DEFINE new == dq \o batch
<1>1. /\ Len(dq) \in Nat /\ DOMAIN dq = 1 .. Len(dq)
      /\ Len(batch) \in Nat /\ DOMAIN batch = 1 .. Len(batch)
  OBVIOUS
<1>2. /\ new \in Seq(Pipeline)
      /\ Len(new) = Len(dq) + Len(batch)
      /\ \A i \in 1 .. Len(dq) + Len(batch) :
            new[i] = IF i <= Len(dq) THEN dq[i] ELSE batch[i - Len(dq)]
  BY ConcatProperties
<1>3. DOMAIN new = 1 .. Len(dq) + Len(batch)
  BY <1>2
<1>4. ASSUME NEW i \in DOMAIN new
      PROVE  /\ i \in DOMAIN dq => new[i] = dq[i]
             /\ i \notin DOMAIN dq => ~(new[i].state >= COMMITTING)
  <2>1. CASE i <= Len(dq)
    BY <1>1, <1>2, <1>3, <2>1
  <2>2. CASE i > Len(dq)
    <3>1. i - Len(dq) \in DOMAIN batch /\ new[i] = batch[i - Len(dq)] /\ i \notin DOMAIN dq
      BY <1>1, <1>2, <1>3, <2>2
    <3> QED
      BY <3>1 DEF SENDING, COMMITTING
  <2> QED
    BY <1>1, <1>3, <2>1, <2>2
<1>5. DOMAIN dq \subseteq DOMAIN new
  BY <1>1, <1>3
<1> HIDE DEF new
<1> QED
  BY <1>4, <1>5 DEF InFlight, new

(* Popping one that counts leaves one less. *)
LEMMA InFlightPopped ==
    ASSUME NEW dq \in Seq(Pipeline), dq # <<>>, Head(dq).state >= COMMITTING
    PROVE  Cardinality(InFlight(Tail(dq))) <= Cardinality(InFlight(dq)) - 1
<1> DEFINE rest == Tail(dq)
           f == [i \in InFlight(rest) |-> i + 1]
<1>1. Len(dq) \in Nat \ {0} /\ DOMAIN dq = 1 .. Len(dq)
  BY EmptySeq
<1>2. /\ rest \in Seq(Pipeline) /\ Len(rest) = Len(dq) - 1
      /\ \A i \in 1 .. Len(rest) : rest[i] = dq[i + 1]
      /\ Head(dq) = dq[1]
  BY HeadTailProperties
<1>3. DOMAIN rest = 1 .. (Len(dq) - 1)
  BY <1>2
<1>4. 1 \in InFlight(dq)
  BY <1>1, <1>2 DEF InFlight
<1>5. f \in Injection(InFlight(rest), InFlight(dq) \ {1})
  <2>1. \A i \in InFlight(rest) : i \in Int /\ i + 1 \in InFlight(dq) \ {1}
    BY <1>1, <1>2, <1>3 DEF InFlight
  <2>2. \A i, j \in InFlight(rest) : f[i] = f[j] => i = j
    BY <2>1
  <2>3. f \in [InFlight(rest) -> InFlight(dq) \ {1}]
    BY <2>1
  <2> HIDE DEF f
  <2> QED
    BY <2>2, <2>3 DEF Injection, IsInjective
<1>6. IsFiniteSet(InFlight(dq)) /\ Cardinality(InFlight(dq)) \in Nat
  BY InFlightCount
<1>7. /\ IsFiniteSet(InFlight(dq) \ {1})
      /\ Cardinality(InFlight(dq) \ {1}) = Cardinality(InFlight(dq)) - 1
  BY <1>4, <1>6, FS_RemoveElement
<1> HIDE DEF rest, f
<1>8. Cardinality(InFlight(rest)) <= Cardinality(InFlight(dq) \ {1})
  BY <1>5, <1>7, FS_Injection
<1> QED
  BY <1>7, <1>8 DEF rest

(* Counting a reply for the front pipeline changes nothing here. *)
LEMMA InFlightFrontReplaced ==
    ASSUME NEW dq \in Seq(Pipeline), dq # <<>>, Head(dq).state >= COMMITTING,
           NEW cp \in Pipeline, cp.state >= COMMITTING
    PROVE  InFlight(<<cp>> \o Tail(dq)) = InFlight(dq)
<1> DEFINE new == <<cp>> \o Tail(dq)
<1>1. Len(dq) \in Nat \ {0} /\ DOMAIN dq = 1 .. Len(dq)
  BY EmptySeq
<1>2. /\ DOMAIN new = DOMAIN dq /\ new[1] = cp
      /\ \A i \in DOMAIN dq : i > 1 => new[i] = dq[i]
  BY FrontReplaced
<1>3. Head(dq) = dq[1]
  OBVIOUS
<1> HIDE DEF new
<1>4. \A i \in DOMAIN dq : i = 1 \/ i > 1
  BY <1>1
<1> QED
  BY <1>2, <1>3, <1>4 DEF InFlight, new

-----------------------------------------------------------------------------
(* Pipelines of one command.                                                *)

(* A pipeline of one command, whose reply, if it is a caller's, is not counted yet:
   the connection's own are counted when they are answered with a wrong hash. *)
Single(cp) == cp.built_num = 1 /\ (cp.sn > 0 => cp.processed_num = 0)

AllSingle(dq) == \A i \in DOMAIN dq : Single(dq[i])

(* Setting states leaves them so. *)
LEMMA SingleMarked ==
    ASSUME NEW dq \in Seq(Pipeline), NEW S, NEW st \in PipelineState, AllSingle(dq)
    PROVE  AllSingle(Marked(dq, S, st))
<1> DEFINE mk == Marked(dq, S, st)
<1>1. /\ DOMAIN mk = DOMAIN dq
      /\ \A i \in DOMAIN dq : /\ mk[i].sn = dq[i].sn
                              /\ mk[i].built_num = dq[i].built_num
                              /\ mk[i].processed_num = dq[i].processed_num
  BY MarkedType
<1> HIDE DEF mk
<1>2. AllSingle(mk)
  BY <1>1 DEF AllSingle, Single
<1> QED
  BY <1>2 DEF mk

(* So does putting two deques together. *)
LEMMA SingleAppended ==
    ASSUME NEW dq \in Seq(Pipeline), NEW batch \in Seq(Pipeline), AllSingle(dq), AllSingle(batch)
    PROVE  AllSingle(dq \o batch)
<1> DEFINE new == dq \o batch
<1>1. /\ Len(dq) \in Nat /\ DOMAIN dq = 1 .. Len(dq)
      /\ Len(batch) \in Nat /\ DOMAIN batch = 1 .. Len(batch)
  OBVIOUS
<1>2. /\ DOMAIN new = 1 .. Len(dq) + Len(batch)
      /\ \A i \in 1 .. Len(dq) + Len(batch) :
            new[i] = IF i <= Len(dq) THEN dq[i] ELSE batch[i - Len(dq)]
  BY ConcatProperties
<1> HIDE DEF new
<1>3. ASSUME NEW i \in DOMAIN new PROVE Single(new[i])
  <2>1. CASE i <= Len(dq)
    <3>1. new[i] = dq[i] /\ i \in DOMAIN dq
      BY <1>1, <1>2, <2>1
    <3> QED
      BY <3>1 DEF AllSingle
  <2>2. CASE i > Len(dq)
    <3>1. new[i] = batch[i - Len(dq)] /\ i - Len(dq) \in DOMAIN batch
      BY <1>1, <1>2, <2>2
    <3> QED
      BY <3>1 DEF AllSingle
  <2> QED
    BY <1>1, <1>2, <2>1, <2>2
<1>4. AllSingle(new)
  BY <1>3 DEF AllSingle
<1> QED
  BY <1>4 DEF new

(* So does rebuilding the deque, *)
LEMMA SingleRebuilt ==
    ASSUME NEW init \in Seq(Pipeline), NEW dq \in Seq(Pipeline), AllSingle(init), AllSingle(dq)
    PROVE  AllSingle(Rebuilt(init, dq))
<1> DEFINE S    == Positions(dq, Unfinished)
           kept == Selected(dq, S)
<1>1. S \in SUBSET DOMAIN dq
  BY DEF Positions
<1> HIDE DEF S
<1>2. kept \in Seq(Pipeline) /\ \A k \in DOMAIN kept : \E i \in S : kept[k] = dq[i]
  BY <1>1, SelectedType, SelectedMembers
<1>3. AllSingle(kept)
  BY <1>1, <1>2 DEF AllSingle
<1> HIDE DEF kept
<1>4. AllSingle(init \o kept)
  BY <1>2, <1>3, SingleAppended
<1> QED
  BY <1>4 DEF Rebuilt, kept, S

(* popping the front, *)
LEMMA SinglePopped ==
    ASSUME NEW dq \in Seq(Pipeline), dq # <<>>, AllSingle(dq)
    PROVE  Single(Head(dq)) /\ AllSingle(Tail(dq))
<1> DEFINE rest == Tail(dq)
<1>1. /\ Len(dq) \in Nat \ {0} /\ DOMAIN dq = 1 .. Len(dq)
      /\ DOMAIN rest = 1 .. (Len(dq) - 1) /\ Head(dq) = dq[1]
  BY EmptySeq, HeadTailProperties
<1>2. \A i \in DOMAIN rest : rest[i] = dq[i + 1] /\ i + 1 \in DOMAIN dq
  BY <1>1
<1> HIDE DEF rest
<1>3. AllSingle(rest)
  BY <1>2 DEF AllSingle
<1> QED
  BY <1>1, <1>3 DEF AllSingle, rest

(* and counting a reply for it, if it is the connection's own. *)
LEMMA SingleFrontReplaced ==
    ASSUME NEW dq \in Seq(Pipeline), dq # <<>>, AllSingle(dq), NEW cp \in Pipeline, Single(cp)
    PROVE  AllSingle(<<cp>> \o Tail(dq))
<1> DEFINE new == <<cp>> \o Tail(dq)
<1>1. Len(dq) \in Nat \ {0} /\ DOMAIN dq = 1 .. Len(dq)
  BY EmptySeq
<1>2. /\ DOMAIN new = DOMAIN dq /\ new[1] = cp
      /\ \A i \in DOMAIN dq : i > 1 => new[i] = dq[i]
  BY FrontReplaced
<1> HIDE DEF new
<1>3. AllSingle(new)
  BY <1>1, <1>2 DEF AllSingle
<1> QED
  BY <1>3 DEF new

=============================================================================
