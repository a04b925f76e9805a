--------------------------- MODULE SelectionProofs ---------------------------
(***************************************************************************)
(* Facts about Hits, Selected and Images: what an element more or less at  *)
(* either end changes.                                                     *)
(***************************************************************************)
EXTENDS Selection, SequencesExt, FiniteSetTheorems, SequenceTheorems, WellFoundedInduction, TLAPS

\* A non-empty set of natural numbers has a least one.
LEMMA LeastNatural ==
    ASSUME NEW S \in SUBSET Nat, S # {}
    PROVE  \E n \in S : \A m \in S : n <= m
<1> DEFINE R == OpToRel(<, Nat)
<1>1. IsWellFoundedOn(R, Nat)
  BY NatLessThanWellFounded
<1>2. R = {ss \in Nat \X Nat : ss[1] < ss[2]}
  BY DEF OpToRel
<1> HIDE DEF R
<1>3. PICK n \in S : \A m \in S : <<m, n>> \notin R
  BY <1>1, WFMin
<1>4. ASSUME NEW m \in S PROVE n <= m
  <2>1. <<m, n>> \notin {ss \in Nat \X Nat : ss[1] < ss[2]}
    BY <1>2, <1>3
  <2>2. ~(m < n)
    BY <2>1
  <2> QED
    BY <2>2
<1> QED
  BY <1>3, <1>4

-----------------------------------------------------------------------------
(* Counting in sequences. *)

LEMMA HitsFinite ==
    ASSUME NEW S, NEW s \in Seq(S), NEW P
    PROVE  IsFiniteSet({i \in DOMAIN s : s[i] \in P}) /\ Hits(s, P) \in Nat
<1>1. IsFiniteSet(1..Len(s)) /\ DOMAIN s = 1..Len(s)
  BY FS_Interval
<1>2. IsFiniteSet({i \in DOMAIN s : s[i] \in P})
  BY <1>1, FS_Subset
<1> QED
  BY <1>2, FS_CardinalityType DEF Hits

LEMMA HitsEmpty ==
    ASSUME NEW P
    PROVE  Hits(<<>>, P) = 0
<1>1. {i \in DOMAIN <<>> : <<>>[i] \in P} = {}
  OBVIOUS
<1> QED
  BY <1>1, FS_EmptySet DEF Hits

\* A new last element counts once, if at all.
LEMMA HitsAppend ==
    ASSUME NEW S, NEW s \in Seq(S), NEW x \in S, NEW P
    PROVE  Hits(Append(s, x), P) = Hits(s, P) + IF x \in P THEN 1 ELSE 0
<1> DEFINE t == Append(s, x)
           A == {i \in DOMAIN s : s[i] \in P}
           B == {i \in DOMAIN t : t[i] \in P}
           n == Len(s) + 1
<1>1. /\ DOMAIN s = 1..Len(s) /\ DOMAIN t = 1..n /\ t[n] = x
      /\ \A i \in 1..Len(s) : t[i] = s[i] /\ n \notin A
  OBVIOUS
<1>2. IsFiniteSet(A) /\ Cardinality(A) = Hits(s, P) /\ Cardinality(B) = Hits(t, P)
      /\ Hits(s, P) \in Nat
  BY HitsFinite DEF Hits
<1>3. B = IF x \in P THEN A \cup {n} ELSE A
  BY <1>1
<1>4. n \notin A
  BY <1>1
<1> HIDE DEF A, B, n
<1>5. CASE x \in P
  BY <1>2, <1>3, <1>4, <1>5, FS_AddElement
<1>6. CASE x \notin P
  BY <1>2, <1>3, <1>6
<1> QED
  BY <1>5, <1>6

\* Appending to the last part appends to the whole.
LEMMA AppendToLast ==
    ASSUME NEW S, NEW a \in Seq(S), NEW b \in Seq(S), NEW c \in Seq(S), NEW x \in S
    PROVE  a \o (b \o Append(c, x)) = Append(a \o (b \o c), x)
<1>1. /\ b \o c \in Seq(S) /\ a \o (b \o c) \in Seq(S)
      /\ Append(c, x) \in Seq(S)
  OBVIOUS
<1>2. b \o Append(c, x) = Append(b \o c, x)
  OBVIOUS
<1>3. \A d \in Seq(S) : a \o Append(d, x) = Append(a \o d, x)
  OBVIOUS
<1> QED
  BY <1>1, <1>2, <1>3

\* What is left after one element has been taken out.
LEMMA Removal ==
    ASSUME NEW S, NEW s \in Seq(S), NEW k \in 1..Len(s)
    PROVE  /\ RemoveAt(s, k) \in Seq(S) /\ Len(RemoveAt(s, k)) = Len(s) - 1
           /\ \A i \in 1..(Len(s) - 1) : RemoveAt(s, k)[i] = s[IF i < k THEN i ELSE i + 1]
<1> DEFINE u == SubSeq(s, 1, k - 1)
           v == SubSeq(s, k + 1, Len(s))
<1>1. u \in Seq(S) /\ Len(u) = k - 1 /\ \A i \in 1..(k - 1) : u[i] = s[i]
  OBVIOUS
<1>2. v \in Seq(S) /\ Len(v) = Len(s) - k /\ \A i \in 1..(Len(s) - k) : v[i] = s[k + i]
  OBVIOUS
<1>3. RemoveAt(s, k) = u \o v
  BY DEF RemoveAt
<1>4. k \in Nat /\ Len(s) \in Nat /\ 1 <= k /\ k <= Len(s)
  OBVIOUS
<1> HIDE DEF u, v
<1>5. u \o v \in Seq(S) /\ Len(u \o v) = Len(s) - 1
  <2>1. u \o v \in Seq(S) /\ Len(u \o v) = Len(u) + Len(v)
    BY <1>1, <1>2, ConcatProperties
  <2> QED
    BY <1>1, <1>2, <1>4, <2>1
<1>6. ASSUME NEW i \in 1..(Len(s) - 1)
      PROVE  (u \o v)[i] = s[IF i < k THEN i ELSE i + 1]
  <2>1. CASE i < k
    <3>1. i \in 1..Len(u)
      BY <1>1, <1>4, <2>1
    <3>2. (u \o v)[i] = u[i]
      BY <1>1, <1>2, <3>1
    <3> QED
      BY <1>1, <2>1, <3>1, <3>2
  <2>2. CASE i >= k
    <3>1. i - Len(u) \in 1..Len(v) /\ i \in (Len(u) + 1)..(Len(u) + Len(v))
      BY <1>1, <1>2, <1>4, <2>2
    <3>2. (u \o v)[i] = v[i - Len(u)]
      BY <1>1, <1>2, <3>1
    <3>3. k + (i - Len(u)) = i + 1
      BY <1>1, <1>4
    <3>4. v[i - Len(u)] = s[i + 1]
      BY <1>2, <3>1, <3>3
    <3>5. ~(i < k)
      BY <1>4, <2>2
    <3> QED
      BY <3>2, <3>4, <3>5
  <2>3. i < k \/ i >= k
    BY <1>4
  <2> QED
    BY <2>1, <2>2, <2>3, Zenon
<1> QED
  BY <1>3, <1>5, <1>6

\* The tail is what is left without the first element.
LEMMA TailIsRemoval ==
    ASSUME NEW S, NEW s \in Seq(S), s # <<>>
    PROVE  Tail(s) = RemoveAt(s, 1) /\ Head(s) = s[1] /\ 1 \in 1..Len(s)
<1>1. /\ Len(s) \in Nat \ {0}
      /\ Len(Tail(s)) = Len(s) - 1 /\ Tail(s) \in Seq(S)
      /\ \A i \in 1..(Len(s) - 1) : Tail(s)[i] = s[i + 1]
  OBVIOUS
<1>2. 1 \in 1..Len(s)
  BY <1>1
<1>3. /\ RemoveAt(s, 1) \in Seq(S) /\ Len(RemoveAt(s, 1)) = Len(s) - 1
      /\ \A i \in 1..(Len(s) - 1) : RemoveAt(s, 1)[i] = s[IF i < 1 THEN i ELSE i + 1]
  BY <1>2, Removal
<1>4. \A i \in 1..(Len(s) - 1) : RemoveAt(s, 1)[i] = s[i + 1]
  BY <1>1, <1>3
<1> QED
  BY <1>1, <1>2, <1>3, <1>4

LEMMA HitsRemoveAt ==
    ASSUME NEW S, NEW s \in Seq(S), NEW k \in 1..Len(s), NEW P
    PROVE  Hits(s, P) = Hits(RemoveAt(s, k), P) + IF s[k] \in P THEN 1 ELSE 0
<1> DEFINE t == RemoveAt(s, k)
           A == {i \in DOMAIN s : s[i] \in P}
           B == {i \in DOMAIN t : t[i] \in P}
           f == [i \in B |-> IF i < k THEN i ELSE i + 1]
<1>1. /\ t \in Seq(S) /\ Len(s) \in Nat /\ DOMAIN s = 1..Len(s) /\ DOMAIN t = 1..(Len(s) - 1)
      /\ \A i \in 1..(Len(s) - 1) : t[i] = s[IF i < k THEN i ELSE i + 1]
  BY Removal
<1>2. /\ IsFiniteSet(A) /\ Cardinality(A) = Hits(s, P) /\ Cardinality(B) = Hits(t, P)
      /\ IsFiniteSet(B) /\ Hits(s, P) \in Nat /\ Hits(t, P) \in Nat
  BY <1>1, HitsFinite DEF Hits
<1> HIDE DEF t
<1>3. f \in Bijection(B, A \ {k})
  <2>1. \A i \in B : f[i] \in A \ {k}
    BY <1>1
  <2>2. \A i, j \in B : f[i] = f[j] => i = j
    BY <1>1
  <2>3. ASSUME NEW j \in A \ {k} PROVE \E i \in B : f[i] = j
    <3>1. CASE j < k
      <4>1. j \in B
        BY <1>1, <2>3, <3>1
      <4> QED
        BY <4>1, <3>1
    <3>2. CASE j > k
      <4>1. j - 1 \in B /\ ~(j - 1 < k)
        BY <1>1, <2>3, <3>2
      <4> QED
        BY <4>1, <1>1
    <3> QED
      BY <1>1, <2>3, <3>1, <3>2
  <2>4. f \in [B -> A \ {k}]
    BY <2>1
  <2> HIDE DEF f, A, B
  <2> QED
    BY <2>2, <2>3, <2>4 DEF Bijection, Injection, IsInjective, Surjection
<1>4. k \in A <=> s[k] \in P
  BY <1>1
<1> HIDE DEF f, A, B
<1>5. Cardinality(A \ {k}) = Cardinality(B)
  BY <1>2, <1>3, FS_Bijection DEF ExistsBijection
<1>6. Cardinality(A \ {k}) = IF k \in A THEN Cardinality(A) - 1 ELSE Cardinality(A)
  BY <1>2, FS_RemoveElement
<1>7. Hits(s, P) = Hits(t, P) + IF s[k] \in P THEN 1 ELSE 0
  BY <1>2, <1>4, <1>5, <1>6
<1> QED
  BY <1>7 DEF t
-----------------------------------------------------------------------------
(* Ranks. *)

LEMMA RankStep ==
    ASSUME NEW S, NEW s \in Seq(S), NEW P
    PROVE  /\ \A i \in Nat : Rank(s, P, i) \in Nat
           /\ Rank(s, P, 0) = 0 /\ Rank(s, P, Len(s)) = Hits(s, P)
           /\ \A i \in 1..Len(s) :
                 Rank(s, P, i) = Rank(s, P, i - 1) + IF s[i] \in P THEN 1 ELSE 0
<1> DEFINE Upto(i) == {j \in DOMAIN s : j <= i /\ s[j] \in P}
<1>1. DOMAIN s = 1..Len(s) /\ Len(s) \in Nat
  OBVIOUS
<1>2. \A i : IsFiniteSet(Upto(i))
  <2>1. IsFiniteSet({i \in DOMAIN s : s[i] \in P})
    BY HitsFinite
  <2>2. \A i : Upto(i) \subseteq {j \in DOMAIN s : s[j] \in P}
    OBVIOUS
  <2> QED
    BY <2>1, <2>2, FS_Subset
<1>3. \A i \in Nat : Rank(s, P, i) \in Nat
  BY <1>2, FS_CardinalityType DEF Rank
<1>4. Upto(0) = {} /\ Upto(Len(s)) = {j \in DOMAIN s : s[j] \in P}
  BY <1>1
<1>5. Rank(s, P, 0) = 0 /\ Rank(s, P, Len(s)) = Hits(s, P)
  BY <1>4, FS_EmptySet DEF Rank, Hits
<1>6. ASSUME NEW i \in 1..Len(s)
      PROVE  Rank(s, P, i) = Rank(s, P, i - 1) + IF s[i] \in P THEN 1 ELSE 0
  <2>1. Upto(i) = IF s[i] \in P THEN Upto(i - 1) \cup {i} ELSE Upto(i - 1)
    BY <1>1
  <2>2. i \notin Upto(i - 1) /\ i - 1 \in Nat
    BY <1>1
  <2>3. Cardinality(Upto(i)) = Rank(s, P, i) /\ Cardinality(Upto(i - 1)) = Rank(s, P, i - 1)
    BY DEF Rank
  <2>4. IsFiniteSet(Upto(i - 1)) /\ Rank(s, P, i - 1) \in Nat
    BY <1>2, <1>3, <2>2
  <2> HIDE DEF Upto
  <2>5. CASE s[i] \in P
    <3>1. Upto(i) = Upto(i - 1) \cup {i}
      BY <2>1, <2>5
    <3>2. Cardinality(Upto(i - 1) \cup {i}) = Cardinality(Upto(i - 1)) + 1
      BY <2>2, <2>4, FS_AddElement
    <3> QED
      BY <2>3, <2>5, <3>1, <3>2
  <2>6. CASE s[i] \notin P
    <3>1. Upto(i) = Upto(i - 1)
      BY <2>1, <2>6
    <3> QED
      BY <2>3, <2>4, <2>6, <3>1
  <2> QED
    BY <2>5, <2>6
<1> QED
  BY <1>3, <1>5, <1>6

\* Of two positions the first has no higher rank, and a lower one if the second
\* is selected.
LEMMA RankOrder ==
    ASSUME NEW S, NEW s \in Seq(S), NEW P, NEW i \in 0..Len(s), NEW j \in 0..Len(s), i < j
    PROVE  /\ Rank(s, P, i) <= Rank(s, P, j)
           /\ s[j] \in P => Rank(s, P, i) < Rank(s, P, j)
<1> DEFINE Upto(n) == {k \in DOMAIN s : k <= n /\ s[k] \in P}
<1>1. \A n : IsFiniteSet(Upto(n))
  <2>1. IsFiniteSet({k \in DOMAIN s : s[k] \in P})
    BY HitsFinite
  <2>2. \A n : Upto(n) \subseteq {k \in DOMAIN s : s[k] \in P}
    OBVIOUS
  <2> QED
    BY <2>1, <2>2, FS_Subset
<1>2. DOMAIN s = 1..Len(s) /\ Len(s) \in Nat
  OBVIOUS
<1>3. Upto(i) \subseteq Upto(j - 1) /\ Upto(i) \subseteq Upto(j)
  BY <1>2
<1>4. \A n : Cardinality(Upto(n)) = Rank(s, P, n)
  BY DEF Rank
<1> HIDE DEF Upto
<1>5. Rank(s, P, i) <= Rank(s, P, j - 1) /\ Rank(s, P, i) <= Rank(s, P, j)
  BY <1>1, <1>3, <1>4, FS_Subset
<1>6. j \in 1..Len(s) /\ j - 1 \in Nat /\ i \in Nat
  BY <1>2
<1>7. Rank(s, P, i) \in Nat /\ Rank(s, P, j - 1) \in Nat
  BY <1>6, RankStep
<1>8. Rank(s, P, j) = Rank(s, P, j - 1) + IF s[j] \in P THEN 1 ELSE 0
  <2>1. \A n \in 1..Len(s) :
           Rank(s, P, n) = Rank(s, P, n - 1) + IF s[n] \in P THEN 1 ELSE 0
    BY RankStep
  <2> QED
    BY <1>6, <2>1
<1>9. CASE s[j] \in P
  <2>1. Rank(s, P, j) = Rank(s, P, j - 1) + 1
    BY <1>8, <1>9
  <2> QED
    BY <1>5, <1>7, <2>1
<1> QED
  BY <1>5, <1>9

\* Each rank is that of exactly one selected position.
LEMMA RankReached ==
    ASSUME NEW S, NEW s \in Seq(S), NEW P, NEW k \in 1..Hits(s, P)
    PROVE  \E i \in DOMAIN s : s[i] \in P /\ Rank(s, P, i) = k
<1> DEFINE Enough == {i \in 0..Len(s) : Rank(s, P, i) >= k}
<1>1. Len(s) \in Nat /\ DOMAIN s = 1..Len(s) /\ Hits(s, P) \in Nat
  <2>1. Hits(s, P) \in Nat
    BY HitsFinite
  <2> QED
    BY <2>1
<1>2. Len(s) \in Enough
  BY <1>1, RankStep
<1>3. Enough \in SUBSET Nat
  BY <1>1
<1>4. PICK i \in Enough : \A m \in Enough : i <= m
  BY <1>2, <1>3, LeastNatural
<1>5. i # 0
  <2>1. Rank(s, P, 0) = 0
    BY RankStep
  <2> QED
    BY <1>1, <1>4, <2>1
<1>6. i \in 1..Len(s) /\ i - 1 \in 0..Len(s) /\ i - 1 \notin Enough /\ i - 1 \in Nat
  BY <1>1, <1>4, <1>5
<1>7. /\ Rank(s, P, i) = Rank(s, P, i - 1) + IF s[i] \in P THEN 1 ELSE 0
      /\ Rank(s, P, i - 1) \in Nat
  BY <1>6, RankStep
<1>8. Rank(s, P, i - 1) < k /\ Rank(s, P, i) >= k
  BY <1>1, <1>4, <1>6, <1>7
<1> QED
  BY <1>1, <1>6, <1>7, <1>8

LEMMA RankOnce ==
    ASSUME NEW S, NEW s \in Seq(S), NEW P, NEW i \in DOMAIN s, NEW j \in DOMAIN s,
           s[i] \in P, s[j] \in P, Rank(s, P, i) = Rank(s, P, j)
    PROVE  i = j
<1>1. i \in 0..Len(s) /\ j \in 0..Len(s) /\ i \in Nat /\ j \in Nat
  OBVIOUS
<1>2. Rank(s, P, i) \in Nat /\ Rank(s, P, j) \in Nat
  BY <1>1, RankStep
<1>3. CASE i < j
  BY <1>1, <1>2, <1>3, RankOrder
<1>4. CASE j < i
  BY <1>1, <1>2, <1>4, RankOrder
<1> QED
  BY <1>1, <1>3, <1>4
-----------------------------------------------------------------------------
(* What is selected. *)

\* Selected elements come from the sequence, each at its rank.
LEMMA SelectedAt ==
    ASSUME NEW S, NEW s \in Seq(S), NEW P
    PROVE  /\ Selected(s, P) \in Seq(S \cap P) /\ Len(Selected(s, P)) = Hits(s, P)
           /\ \A i \in DOMAIN s : s[i] \in P =>
                 Rank(s, P, i) \in 1..Hits(s, P) /\ Selected(s, P)[Rank(s, P, i)] = s[i]
<1> DEFINE At(k) == CHOOSE i \in DOMAIN s : s[i] \in P /\ Rank(s, P, i) = k
<1>1. Hits(s, P) \in Nat /\ DOMAIN s = 1..Len(s) /\ Len(s) \in Nat
  <2>1. Hits(s, P) \in Nat
    BY HitsFinite
  <2> QED
    BY <2>1
<1>2. \A k \in 1..Hits(s, P) : At(k) \in DOMAIN s /\ s[At(k)] \in P /\ Rank(s, P, At(k)) = k
  BY RankReached
<1>3. \A k \in 1..Hits(s, P) : Selected(s, P)[k] = s[At(k)]
  BY DEF Selected
<1>4. \A k \in 1..Hits(s, P) : s[At(k)] \in S \cap P
  BY <1>2
<1>5. Selected(s, P) = [k \in 1..Hits(s, P) |-> s[At(k)]]
  BY DEF Selected
<1> HIDE DEF At
<1>6. Selected(s, P) \in Seq(S \cap P) /\ Len(Selected(s, P)) = Hits(s, P)
  BY <1>1, <1>4, <1>5
<1>7. ASSUME NEW i \in DOMAIN s, s[i] \in P
      PROVE  Rank(s, P, i) \in 1..Hits(s, P) /\ Selected(s, P)[Rank(s, P, i)] = s[i]
  <2>1. i \in 1..Len(s) /\ i \in Nat /\ i \in 0..Len(s) /\ 0 \in 0..Len(s) /\ Len(s) \in 0..Len(s) /\ 0 < i
    BY <1>1
  <2>2. Rank(s, P, i) \in Nat /\ Rank(s, P, 0) = 0 /\ Rank(s, P, Len(s)) = Hits(s, P)
    BY <2>1, RankStep
  <2>3. Rank(s, P, i) > 0
    BY <1>7, <2>1, <2>2, RankOrder
  <2>4. Rank(s, P, i) <= Hits(s, P)
    <3>1. CASE i = Len(s)
      BY <1>1, <2>2, <3>1
    <3>2. CASE i < Len(s)
      BY <2>1, <2>2, <3>2, RankOrder
    <3> QED
      BY <2>1, <3>1, <3>2
  <2>5. Rank(s, P, i) \in 1..Hits(s, P)
    BY <1>1, <2>2, <2>3, <2>4
  <2>6. At(Rank(s, P, i)) = i
    BY <1>2, <1>7, <2>5, RankOnce
  <2> QED
    BY <1>3, <2>5, <2>6
<1> QED
  BY <1>6, <1>7

\* Nothing else has the selected elements at their ranks.
LEMMA SelectedUnique ==
    ASSUME NEW S, NEW s \in Seq(S), NEW P, NEW T, NEW t \in Seq(T), Len(t) = Hits(s, P),
           \A i \in DOMAIN s : s[i] \in P => t[Rank(s, P, i)] = s[i]
    PROVE  t = Selected(s, P)
<1> DEFINE u == Selected(s, P)
<1>1. u \in Seq(S \cap P) /\ Len(u) = Hits(s, P) /\ Hits(s, P) \in Nat
  BY SelectedAt, HitsFinite
<1>2. ASSUME NEW k \in 1..Hits(s, P) PROVE t[k] = u[k]
  <2>1. PICK i \in DOMAIN s : s[i] \in P /\ Rank(s, P, i) = k
    BY RankReached
  <2>2. u[k] = s[i]
    BY <2>1, SelectedAt
  <2> QED
    BY <2>1, <2>2
<1> HIDE DEF u
<1>3. t = u
  BY <1>1, <1>2, SeqEqual
<1> QED
  BY <1>3 DEF u

LEMMA SelectedEmpty ==
    ASSUME NEW P
    PROVE  Selected(<<>>, P) = <<>>
<1>1. <<>> \in Seq({}) /\ Hits(<<>>, P) = 0
  BY HitsEmpty
<1>2. Selected(<<>>, P) \in Seq({} \cap P) /\ Len(Selected(<<>>, P)) = 0
  BY <1>1, SelectedAt
<1> QED
  BY <1>2

\* A new last element comes last, if it is selected.
LEMMA SelectedAppend ==
    ASSUME NEW S, NEW s \in Seq(S), NEW x \in S, NEW P
    PROVE  Selected(Append(s, x), P) =
               IF x \in P THEN Append(Selected(s, P), x) ELSE Selected(s, P)
<1> DEFINE t == Append(s, x)
           u == Selected(s, P)
           v == IF x \in P THEN Append(u, x) ELSE u
           n == Len(s) + 1
           h == Hits(s, P)
<1>1. /\ t \in Seq(S) /\ Len(s) \in Nat /\ DOMAIN t = 1..n /\ Len(t) = n /\ t[n] = x
      /\ n \in 1..n /\ n - 1 = Len(s) /\ n \in Nat /\ DOMAIN s = 1..Len(s)
      /\ \A i \in 1..Len(s) : t[i] = s[i] /\ i \in 1..n
  OBVIOUS
<1>2. u \in Seq(S \cap P) /\ Len(u) = h /\ h \in Nat
  BY SelectedAt, HitsFinite
<1>3. Hits(t, P) = h + IF x \in P THEN 1 ELSE 0
  BY HitsAppend
<1>4. \A i \in 0..Len(s) : Rank(t, P, i) = Rank(s, P, i)
  <2> SUFFICES ASSUME NEW i \in 0..Len(s)
               PROVE  {j \in DOMAIN t : j <= i /\ t[j] \in P}
                      = {j \in DOMAIN s : j <= i /\ s[j] \in P}
    BY DEF Rank
  <2> QED
    BY <1>1
<1>5. Rank(s, P, Len(s)) = h
  BY RankStep
<1>6. Rank(t, P, n) = h + IF x \in P THEN 1 ELSE 0
  <2>1. Rank(t, P, Len(t)) = Hits(t, P)
    BY <1>1, RankStep
  <2> QED
    BY <1>1, <1>3, <2>1, Zenon
<1>7. v \in Seq(S \cap P) /\ Len(v) = Hits(t, P) /\ (x \in P => v[h + 1] = x)
      /\ \A k \in 1..h : v[k] = u[k]
  <2> HIDE DEF u, h
  <2> QED
    BY <1>2, <1>3
<1>8. ASSUME NEW i \in DOMAIN t, t[i] \in P
      PROVE  v[Rank(t, P, i)] = t[i]
  <2>1. CASE i = n
    <3>1. x \in P /\ Rank(t, P, n) = h + 1
      BY <1>1, <1>6, <1>8, <2>1
    <3> QED
      BY <1>1, <1>7, <2>1, <3>1, Zenon
  <2>2. CASE i # n
    <3>1. i \in DOMAIN s /\ t[i] = s[i] /\ i \in 0..Len(s)
      BY <1>1, <2>2
    <3>2. Rank(s, P, i) \in 1..h /\ u[Rank(s, P, i)] = s[i]
      BY <1>8, <3>1, SelectedAt
    <3>3. Rank(t, P, i) = Rank(s, P, i)
      BY <1>4, <3>1
    <3> QED
      BY <1>7, <3>1, <3>2, <3>3, Zenon
  <2> QED
    BY <2>1, <2>2
<1> HIDE DEF t, v
<1>9. v = Selected(t, P)
  BY <1>1, <1>7, <1>8, SelectedUnique
<1> QED
  BY <1>9 DEF t, v, u

\* An element selected with nothing selected after it is the last selected.
LEMMA SelectedLast ==
    ASSUME NEW S, NEW s \in Seq(S), NEW P, NEW i \in DOMAIN s, s[i] \in P,
           \A j \in DOMAIN s : s[j] \in P => j <= i
    PROVE  /\ Len(Selected(s, P)) \in Nat \ {0}
           /\ Selected(s, P)[Len(Selected(s, P))] = s[i]
<1>1. /\ Rank(s, P, i) \in 1..Hits(s, P) /\ Selected(s, P)[Rank(s, P, i)] = s[i]
      /\ Len(Selected(s, P)) = Hits(s, P) /\ Hits(s, P) \in Nat
  BY SelectedAt, HitsFinite
<1>2. {j \in DOMAIN s : j <= i /\ s[j] \in P} = {j \in DOMAIN s : s[j] \in P}
  OBVIOUS
<1>3. Rank(s, P, i) = Hits(s, P)
  BY <1>2 DEF Rank, Hits
<1> QED
  BY <1>1, <1>3

\* There is such an element, or none at all is selected.
LEMMA LastSelected ==
    ASSUME NEW S, NEW s \in Seq(S), NEW P, Selected(s, P) # <<>>
    PROVE  \E i \in DOMAIN s : s[i] \in P /\ \A j \in DOMAIN s : s[j] \in P => j <= i
<1>1. /\ Selected(s, P) \in Seq(S \cap P) /\ Len(Selected(s, P)) = Hits(s, P) /\ Hits(s, P) \in Nat
      /\ DOMAIN s = 1..Len(s) /\ Len(s) \in Nat
  BY SelectedAt, HitsFinite
<1>2. Hits(s, P) \in 1..Hits(s, P)
  BY <1>1
<1>3. PICK i \in DOMAIN s : s[i] \in P /\ Rank(s, P, i) = Hits(s, P)
  BY <1>2, RankReached
<1>4. ASSUME NEW j \in DOMAIN s, s[j] \in P, i < j
      PROVE  FALSE
  <2>1. i \in 0..Len(s) /\ j \in 0..Len(s)
    BY <1>1
  <2>2. Rank(s, P, i) < Rank(s, P, j)
    BY <1>4, <2>1, RankOrder
  <2>3. Rank(s, P, j) \in 1..Hits(s, P)
    BY <1>4, SelectedAt
  <2> QED
    BY <1>1, <1>3, <2>2, <2>3
<1> QED
  BY <1>1, <1>3, <1>4

\* A first element comes first, if it is selected.
LEMMA SelectedTail ==
    ASSUME NEW S, NEW s \in Seq(S), s # <<>>, NEW P
    PROVE  /\ Tail(s) \in Seq(S) /\ Head(s) \in S
           /\ Selected(s, P) = (IF Head(s) \in P THEN <<Head(s)>> ELSE <<>>)
                               \o Selected(Tail(s), P)
<1> DEFINE r == Tail(s)
           x == Head(s)
           n == Len(s)
           a == IF x \in P THEN 1 ELSE 0
           h == Hits(r, P)
           u == Selected(r, P)
           w == IF x \in P THEN <<x>> ELSE <<>>
           v == w \o u
<1>1. /\ r \in Seq(S) /\ x \in S /\ x = s[1] /\ Len(r) = n - 1 /\ n \in Nat \ {0}
      /\ DOMAIN s = 1..n /\ DOMAIN r = 1..(n - 1)
      /\ \A i \in 1..(n - 1) : r[i] = s[i + 1]
  OBVIOUS
<1>2. a \in {0, 1} /\ w \in Seq(S \cap P) /\ Len(w) = a /\ (x \in P => a = 1 /\ w[1] = x)
  <2>1. x \in S
    BY <1>1
  <2> HIDE DEF x
  <2>2. CASE x \in P
    <3>1. w = <<x>> /\ a = 1 /\ x \in S \cap P
      BY <2>1, <2>2
    <3> HIDE DEF w, a
    <3> QED
      BY <3>1
  <2>3. CASE x \notin P
    BY <2>3
  <2> QED
    BY <2>2, <2>3
<1>3. u \in Seq(S \cap P) /\ Len(u) = h /\ h \in Nat
  BY <1>1, SelectedAt, HitsFinite
<1> HIDE DEF r, u, w, a, h
<1>4. v \in Seq(S \cap P) /\ Len(v) = a + h /\ (x \in P => v[1] = x)
      /\ \A k \in 1..h : v[k + a] = u[k]
  <2> HIDE DEF x
  <2>1. /\ v \in Seq(S \cap P) /\ Len(v) = a + h
        /\ \A i \in 1..Len(w) : v[i] = w[i]
        /\ \A i \in (Len(w) + 1)..(Len(w) + Len(u)) : v[i] = u[i - Len(w)]
    BY <1>2, <1>3, ConcatProperties
  <2>2. x \in P => v[1] = x
    <3>1. x \in P => 1 \in 1..Len(w) /\ w[1] = x
      BY <1>2
    <3> QED
      BY <2>1, <3>1
  <2>3. ASSUME NEW k \in 1..h PROVE v[k + a] = u[k]
    <3>1. k + a \in (Len(w) + 1)..(Len(w) + Len(u)) /\ (k + a) - Len(w) = k
      BY <1>2, <1>3
    <3> QED
      BY <2>1, <3>1
  <2> QED
    BY <2>1, <2>2, <2>3
<1> HIDE DEF v
<1>5. /\ \A i \in 0..n : Rank(s, P, i) \in Nat
      /\ \A i \in 0..(n - 1) : Rank(r, P, i) \in Nat
      /\ Rank(s, P, 0) = 0 /\ Rank(r, P, 0) = 0
      /\ Rank(s, P, n) = Hits(s, P) /\ Rank(r, P, n - 1) = h
  <2>1. (\A i \in Nat : Rank(s, P, i) \in Nat) /\ Rank(s, P, 0) = 0 /\ Rank(s, P, n) = Hits(s, P)
    BY RankStep
  <2>2. /\ \A i \in Nat : Rank(r, P, i) \in Nat
        /\ Rank(r, P, 0) = 0 /\ Rank(r, P, Len(r)) = h
    BY <1>1, RankStep DEF h
  <2>3. (\A i \in 0..n : i \in Nat) /\ (\A i \in 0..(n - 1) : i \in Nat) /\ Len(r) = n - 1
    BY <1>1
  <2> QED
    BY <2>1, <2>2, <2>3
<1>6. \A i \in 1..n : Rank(s, P, i) = Rank(s, P, i - 1) + IF s[i] \in P THEN 1 ELSE 0
  BY RankStep
<1>7. \A i \in 1..(n - 1) : Rank(r, P, i) = Rank(r, P, i - 1) + IF r[i] \in P THEN 1 ELSE 0
  <2>1. \A i \in 1..Len(r) : Rank(r, P, i) = Rank(r, P, i - 1) + IF r[i] \in P THEN 1 ELSE 0
    BY <1>1, RankStep
  <2>2. Len(r) = n - 1
    BY <1>1
  <2> QED
    BY <2>1, <2>2
<1>8. \A i \in 1..n : Rank(s, P, i) = a + Rank(r, P, i - 1)
  <2> DEFINE Wrong == {i \in 1..n : Rank(s, P, i) # a + Rank(r, P, i - 1)}
  <2>1. SUFFICES Wrong = {}
    OBVIOUS
  <2>2. SUFFICES ASSUME Wrong # {} PROVE FALSE
    OBVIOUS
  <2>3. Wrong \in SUBSET Nat
    BY <1>1
  <2>4. PICK i \in Wrong : \A m \in Wrong : i <= m
    BY <2>2, <2>3, LeastNatural
  <2>5. CASE i = 1
    <3>1. Rank(s, P, 1) = 0 + a /\ 1 - 1 = 0 /\ 1 \in 1..n
      BY <1>1, <1>5, <1>6 DEF a
    <3> QED
      BY <1>2, <1>5, <2>4, <2>5, <3>1
  <2>6. CASE i > 1
    <3>1. i - 1 \in 1..n /\ i - 1 \in 1..(n - 1) /\ i \in 1..n /\ i - 1 \notin Wrong /\ (i - 1) + 1 = i
          /\ i - 1 \in 0..n /\ (i - 1) - 1 \in 0..(n - 1)
      BY <1>1, <2>4, <2>6
    <3>2. Rank(s, P, i - 1) = a + Rank(r, P, (i - 1) - 1)
      BY <3>1
    <3>3. r[i - 1] = s[i]
      BY <1>1, <3>1
    <3>4. Rank(s, P, i) = Rank(s, P, i - 1) + IF s[i] \in P THEN 1 ELSE 0
      BY <1>6, <3>1
    <3>5. Rank(r, P, i - 1) = Rank(r, P, (i - 1) - 1) + IF s[i] \in P THEN 1 ELSE 0
      BY <1>7, <3>1, <3>3
    <3>6. Rank(s, P, i - 1) \in Nat /\ Rank(r, P, (i - 1) - 1) \in Nat
      BY <1>5, <3>1
    <3>7. i \in Wrong
      BY <2>4
    <3>8. Rank(s, P, i) # a + Rank(r, P, i - 1)
      BY <3>7
    <3> QED
      BY <1>2, <3>2, <3>4, <3>5, <3>6, <3>8
  <2>7. i = 1 \/ i > 1
    BY <1>1, <2>4
  <2> QED
    BY <2>5, <2>6, <2>7
<1>9. Hits(s, P) = a + h
  BY <1>1, <1>5, <1>8
<1>10. ASSUME NEW i \in DOMAIN s, s[i] \in P
       PROVE  v[Rank(s, P, i)] = s[i]
  <2>1. Rank(s, P, i) = a + Rank(r, P, i - 1) /\ i \in 1..n
    BY <1>1, <1>8
  <2>2. CASE i = 1
    <3>1. Rank(s, P, i) = 1 /\ x \in P /\ s[i] = x
      BY <1>1, <1>2, <1>5, <1>10, <2>1, <2>2
    <3> QED
      BY <1>4, <3>1
  <2>3. CASE i # 1
    <3>1. i - 1 \in DOMAIN r /\ r[i - 1] = s[i]
      BY <1>1, <2>1, <2>3
    <3>2. Rank(r, P, i - 1) \in 1..h /\ u[Rank(r, P, i - 1)] = s[i]
      <4>1. \A j \in DOMAIN r : r[j] \in P =>
               Rank(r, P, j) \in 1..h /\ u[Rank(r, P, j)] = r[j]
        <5>1. r \in Seq(S)
          BY <1>1
        <5>2. \A j \in DOMAIN r : r[j] \in P =>
                 Rank(r, P, j) \in 1..Hits(r, P) /\ Selected(r, P)[Rank(r, P, j)] = r[j]
          BY <5>1, SelectedAt
        <5> QED
          BY <5>2 DEF u, h
      <4> QED
        BY <1>10, <3>1, <4>1
    <3>3. v[Rank(r, P, i - 1) + a] = s[i]
      BY <1>4, <3>2
    <3> QED
      BY <1>2, <1>3, <2>1, <3>2, <3>3
  <2> QED
    BY <2>2, <2>3
<1>11. v = Selected(s, P)
  BY <1>4, <1>9, <1>10, SelectedUnique
<1> QED
  BY <1>1, <1>11 DEF v, w, u, r
-----------------------------------------------------------------------------
(* What is made of the selected elements. *)

Mapped(t, f) == [k \in DOMAIN t |-> f[t[k]]]

LEMMA MappedAt ==
    ASSUME NEW D, NEW f, NEW v \in Seq(D)
    PROVE  /\ Len(Mapped(v, f)) = Len(v) /\ Len(v) \in Nat
           /\ \A k \in 1..Len(v) : Mapped(v, f)[k] = f[v[k]]
<1>1. Len(v) \in Nat /\ DOMAIN v = 1..Len(v)
  OBVIOUS
<1>2. Mapped(v, f) = [k \in 1..Len(v) |-> f[v[k]]]
  BY <1>1 DEF Mapped
<1> QED
  BY <1>1, <1>2

LEMMA MappedType ==
    ASSUME NEW D, NEW T, NEW f, \A x \in D : f[x] \in T, NEW v \in Seq(D)
    PROVE  Mapped(v, f) \in Seq(T)
<1>1. Len(v) \in Nat /\ DOMAIN v = 1..Len(v) /\ \A k \in 1..Len(v) : v[k] \in D
  OBVIOUS
<1>2. \A k \in 1..Len(v) : f[v[k]] \in T
  BY <1>1
<1>3. Mapped(v, f) = [k \in 1..Len(v) |-> f[v[k]]]
  BY <1>1 DEF Mapped
<1>4. Mapped(v, f) \in [1..Len(v) -> T]
  BY <1>2, <1>3
<1> QED
  BY <1>1, <1>4

LEMMA MappedConcat ==
    ASSUME NEW D, NEW f, NEW t \in Seq(D), NEW u \in Seq(D)
    PROVE  Mapped(t \o u, f) = Mapped(t, f) \o Mapped(u, f)
<1> DEFINE T == {f[x] : x \in D}
           a == Mapped(t, f)
           b == Mapped(u, f)
           c == Mapped(t \o u, f)
<1>1. \A x \in D : f[x] \in T
  OBVIOUS
<1>2. /\ t \o u \in Seq(D) /\ Len(t \o u) = Len(t) + Len(u)
      /\ \A i \in 1..(Len(t) + Len(u)) : (t \o u)[i] = IF i <= Len(t) THEN t[i] ELSE u[i - Len(t)]
  BY ConcatProperties
<1> HIDE DEF T
<1>3. ASSUME NEW v \in Seq(D)
      PROVE  /\ Mapped(v, f) \in Seq(T) /\ Len(Mapped(v, f)) = Len(v)
             /\ Len(v) \in Nat /\ \A k \in 1..Len(v) : Mapped(v, f)[k] = f[v[k]]
  <2>1. Mapped(v, f) \in Seq(T)
    BY <1>1, MappedType
  <2> QED
    BY <2>1, MappedAt
<1>4. /\ a \in Seq(T) /\ Len(a) = Len(t) /\ Len(t) \in Nat /\ (\A k \in 1..Len(t) : a[k] = f[t[k]])
      /\ b \in Seq(T) /\ Len(b) = Len(u) /\ Len(u) \in Nat /\ (\A k \in 1..Len(u) : b[k] = f[u[k]])
  BY <1>3
<1>5. /\ c \in Seq(T) /\ Len(c) = Len(t) + Len(u)
      /\ \A k \in 1..(Len(t) + Len(u)) : c[k] = f[(t \o u)[k]]
  BY <1>2, <1>3
<1> HIDE DEF a, b, c
<1>6. /\ a \o b \in Seq(T) /\ Len(a \o b) = Len(a) + Len(b)
      /\ \A i \in 1..(Len(a) + Len(b)) : (a \o b)[i] = IF i <= Len(a) THEN a[i] ELSE b[i - Len(a)]
  BY <1>4, ConcatProperties
<1>7. ASSUME NEW i \in 1..Len(c) PROVE c[i] = (a \o b)[i]
  <2>1. i \in 1..(Len(t) + Len(u)) /\ c[i] = f[(t \o u)[i]]
        /\ (a \o b)[i] = IF i <= Len(t) THEN a[i] ELSE b[i - Len(t)]
    BY <1>4, <1>5, <1>6
  <2>2. CASE i <= Len(t)
    <3>1. i \in 1..Len(t)
      BY <2>1, <2>2, <1>4
    <3> QED
      BY <1>2, <1>4, <2>1, <2>2, <3>1
  <2>3. CASE ~(i <= Len(t))
    <3>1. i - Len(t) \in 1..Len(u)
      BY <2>1, <2>3, <1>4
    <3>2. b[i - Len(t)] = f[u[i - Len(t)]]
      BY <1>4, <3>1
    <3>3. (t \o u)[i] = u[i - Len(t)]
      BY <1>2, <2>1, <2>3
    <3> QED
      BY <2>1, <2>3, <3>2, <3>3
  <2> QED
    BY <2>2, <2>3
<1>8. c = a \o b
  BY <1>4, <1>5, <1>6, <1>7, SeqEqual
<1> QED
  BY <1>8 DEF a, b, c

LEMMA ImagesAre ==
    ASSUME NEW S, NEW s \in Seq(S), NEW f
    PROVE  /\ Selected(s, DOMAIN f) \in Seq(DOMAIN f)
           /\ Images(s, f) = Mapped(Selected(s, DOMAIN f), f)
<1>1. Selected(s, DOMAIN f) \in Seq(S \cap DOMAIN f)
  BY SelectedAt
<1>2. Selected(s, DOMAIN f) \in Seq(DOMAIN f)
  BY <1>1
<1> QED
  BY <1>2 DEF Images, Mapped

LEMMA ImagesType ==
    ASSUME NEW S, NEW s \in Seq(S), NEW T, NEW f, \A x \in DOMAIN f : f[x] \in T
    PROVE  Images(s, f) \in Seq(T)
<1>1. /\ Selected(s, DOMAIN f) \in Seq(DOMAIN f)
      /\ Images(s, f) = Mapped(Selected(s, DOMAIN f), f)
  BY ImagesAre
<1>2. Mapped(Selected(s, DOMAIN f), f) \in Seq(T)
  BY <1>1, MappedType
<1> QED
  BY <1>1, <1>2

LEMMA ImagesEmpty ==
    ASSUME NEW f
    PROVE  Images(<<>>, f) = <<>>
<1>1. Selected(<<>>, DOMAIN f) = <<>>
  BY SelectedEmpty
<1>2. Images(<<>>, f) = [k \in DOMAIN <<>> |-> f[<<>>[k]]]
  BY <1>1 DEF Images
<1> QED
  BY <1>2

\* One more element at the end has one more image at the end, if any.
LEMMA ImagesAppend ==
    ASSUME NEW S, NEW s \in Seq(S), NEW x \in S, NEW f
    PROVE  Images(Append(s, x), f) =
               IF x \in DOMAIN f THEN Images(s, f) \o <<f[x]>> ELSE Images(s, f)
<1> DEFINE D == DOMAIN f
           u == Selected(s, D)
<1>1. Append(s, x) \in Seq(S)
  OBVIOUS
<1>2. /\ Images(s, f) = Mapped(u, f) /\ u \in Seq(D)
      /\ Images(Append(s, x), f) = Mapped(Selected(Append(s, x), D), f)
  BY <1>1, ImagesAre
<1>3. Selected(Append(s, x), D) = IF x \in D THEN Append(u, x) ELSE u
  BY SelectedAppend
<1> HIDE DEF u, D
<1>4. CASE x \in D
  <2>1. Append(u, x) = u \o <<x>> /\ <<x>> \in Seq(D)
    BY <1>2, <1>4, AppendIsConcat
  <2>2. Mapped(u \o <<x>>, f) = Mapped(u, f) \o Mapped(<<x>>, f)
    BY <1>2, <2>1, MappedConcat
  <2>3. Mapped(<<x>>, f) = <<f[x]>>
    BY DEF Mapped
  <2>4. Images(Append(s, x), f) = Images(s, f) \o <<f[x]>>
    BY <1>2, <1>3, <1>4, <2>1, <2>2, <2>3
  <2> QED
    BY <1>4, <2>4 DEF D
<1>5. CASE x \notin D
  <2>1. Images(Append(s, x), f) = Images(s, f)
    BY <1>2, <1>3, <1>5
  <2> QED
    BY <1>5, <2>1 DEF D
<1> QED
  BY <1>4, <1>5

\* The first element has the first image, if any.
LEMMA ImagesTail ==
    ASSUME NEW S, NEW s \in Seq(S), s # <<>>, NEW f
    PROVE  Images(s, f) =
               (IF Head(s) \in DOMAIN f THEN <<f[Head(s)]>> ELSE <<>>) \o Images(Tail(s), f)
<1> DEFINE D == DOMAIN f
           w == IF Head(s) \in D THEN <<Head(s)>> ELSE <<>>
           r == Tail(s)
<1>1. r \in Seq(S) /\ Selected(s, D) = w \o Selected(r, D)
  BY SelectedTail
<1>2. w \in Seq(D)
  <2> HIDE DEF D
  <2>1. CASE Head(s) \in D
    BY <2>1
  <2>2. CASE Head(s) \notin D
    BY <2>2
  <2> QED
    BY <2>1, <2>2
<1>3. Mapped(w, f) = IF Head(s) \in D THEN <<f[Head(s)]>> ELSE <<>>
  BY DEF Mapped
<1> HIDE DEF w, r
<1>4. /\ Images(s, f) = Mapped(Selected(s, D), f)
      /\ Images(r, f) = Mapped(Selected(r, D), f) /\ Selected(r, D) \in Seq(D)
  BY <1>1, ImagesAre
<1> HIDE DEF D
<1>5. Mapped(w \o Selected(r, D), f) = Mapped(w, f) \o Mapped(Selected(r, D), f)
  BY <1>2, <1>4, MappedConcat
<1>6. Images(s, f) = Mapped(w, f) \o Images(r, f)
  BY <1>1, <1>4, <1>5
<1> QED
  BY <1>3, <1>6 DEF r, D
=============================================================================
