---------------------------- MODULE ScoringProofs ----------------------------
(***************************************************************************)
(* Theorems about Scoring, for every transaction: any amounts, any number  *)
(* of inputs and outputs, and any configured weights.                      *)
(***************************************************************************)
EXTENDS Scoring, SelectionProofs

-----------------------------------------------------------------------------
(* Arithmetic. *)

\* Division rounds down.
LEMMA DivBounds ==
    ASSUME NEW a \in Int, NEW b \in Nat \ {0}
    PROVE  /\ a \div b \in Int
           /\ \A m \in Int : m * b <= a => m <= a \div b
           /\ \A m \in Int : a < m * b => a \div b < m
  OBVIOUS

\* A rule that saturates stays below its highest value.
LEMMA SigmoidBounds ==
    ASSUME NEW x \in Nat, NEW half \in Nat \ {0}
    PROVE  Sigmoid(x, half) \in 0..Unit
<1>1. Unit \in Nat
  BY CoinJoinAssumption DEF Unit
<1>2. Unit * x \in Nat /\ half + x \in Nat \ {0}
  BY <1>1
<1>3. 0 * (half + x) <= Unit * x
  BY <1>2
<1>4. Unit * x < (Unit + 1) * (half + x)
  <2>1. Unit * x <= Unit * (half + x)
    BY <1>1
  <2>2. (Unit + 1) * (half + x) = Unit * (half + x) + (half + x)
    BY <1>1, <1>2
  <2>3. Unit * (half + x) \in Nat
    BY <1>1, <1>2
  <2> QED
    BY <1>1, <1>2, <2>1, <2>2, <2>3
<1>5. (Unit * x) \div (half + x) \in Int
      /\ 0 <= (Unit * x) \div (half + x)
      /\ (Unit * x) \div (half + x) < Unit + 1
  BY <1>1, <1>2, <1>3, <1>4, DivBounds
<1> QED
  BY <1>1, <1>5 DEF Sigmoid

-----------------------------------------------------------------------------
(* The verdict. *)

\* How often a value occurs is a natural number.
LEMMA CountType ==
    ASSUME NEW outs \in Seq(Nat), NEW v
    PROVE  Count(outs, v) \in Nat
<1>1. IsFiniteSet(1..Len(outs))
  BY FS_Interval
<1>2. IsFiniteSet({i \in DOMAIN outs : outs[i] = v})
  BY <1>1, FS_Subset
<1> QED
  BY <1>2, FS_CardinalityType DEF Count

\* Two different values share the outputs.
LEMMA TwoValues ==
    ASSUME NEW outs \in Seq(Nat), NEW v, NEW w, v # w
    PROVE  Count(outs, v) + Count(outs, w) <= Len(outs)
<1> DEFINE At(x) == {i \in 1..Len(outs) : outs[i] = x}
<1>1. Len(outs) \in Nat /\ DOMAIN outs = 1..Len(outs)
  OBVIOUS
<1>2. IsFiniteSet(1..Len(outs)) /\ Cardinality(1..Len(outs)) = Len(outs)
  BY <1>1, FS_Interval
<1>3. IsFiniteSet(At(v)) /\ IsFiniteSet(At(w))
  BY <1>2, FS_Subset
<1>4. At(v) \cap At(w) = {}
  OBVIOUS
<1>5. IsFiniteSet(At(v) \cup At(w))
      /\ Cardinality(At(v) \cup At(w)) = Cardinality(At(v)) + Cardinality(At(w)) - Cardinality({})
  BY <1>3, <1>4, FS_Union
<1>6. Cardinality(At(v) \cup At(w)) <= Len(outs)
  <2>1. At(v) \cup At(w) \in SUBSET (1..Len(outs))
    OBVIOUS
  <2> QED
    BY <2>1, <1>2, FS_Subset
<1>7. Cardinality(At(v)) \in Nat /\ Cardinality(At(w)) \in Nat /\ Cardinality({}) = 0
  BY <1>3, FS_CardinalityType, FS_EmptySet
<1>8. Count(outs, v) = Cardinality(At(v)) /\ Count(outs, w) = Cardinality(At(w))
  BY <1>1 DEF Count
<1> HIDE DEF At
<1> QED
  BY <1>5, <1>6, <1>7, <1>8

\* The order of the iteration does not matter: of two most common values neither
\* is more than half of the outputs.
LEMMA OneVerdict ==
    ASSUME NEW outs \in Seq(Nat), NEW n,
           NEW d \in DetectCoinjoin(n, outs), NEW e \in DetectCoinjoin(n, outs)
    PROVE  d = e
<1>1. CASE n < 3 \/ Len(outs) < 3 \/ MostCommon(outs) = {}
  BY <1>1 DEF DetectCoinjoin
<1>2. CASE ~(n < 3 \/ Len(outs) < 3 \/ MostCommon(outs) = {})
  <2>1. PICK v \in MostCommon(outs) : d = Verdict(n, outs, v)
    BY <1>2 DEF DetectCoinjoin
  <2>2. PICK w \in MostCommon(outs) : e = Verdict(n, outs, w)
    BY <1>2 DEF DetectCoinjoin
  <2>3. CASE v = w
    BY <2>1, <2>2, <2>3
  <2>4. CASE v # w
    <3>1. Count(outs, v) \in Nat /\ Count(outs, w) \in Nat /\ Len(outs) \in Nat
      BY CountType
    <3>2. Count(outs, v) = Count(outs, w)
      BY <3>1 DEF MostCommon
    <3>3. Count(outs, v) + Count(outs, w) <= Len(outs)
      BY <2>4, TwoValues
    <3>4. ~MoreThanHalf(outs, v) /\ ~MoreThanHalf(outs, w)
      BY <3>1, <3>2, <3>3 DEF MoreThanHalf
    <3> QED
      BY <2>1, <2>2, <3>4 DEF Verdict
  <2> QED
    BY <2>3, <2>4
<1> QED
  BY <1>1, <1>2

\* A verdict is that of no CoinJoin, or at least half a confidence.
LEMMA VerdictType ==
    ASSUME NEW n, NEW outs, NEW d \in DetectCoinjoin(n, outs)
    PROVE  \/ d = NotCoinjoin
           \/ d.is_coinjoin /\ d.confidence \in Percent(50)..Unit
<1>1. \A p \in {50, 75, 85, 95} : Percent(p) \in Percent(50)..Unit
  BY CoinJoinAssumption DEF Percent, Unit
<1>2. \A p, pattern : /\ Coinjoin(p, pattern).is_coinjoin
                      /\ Coinjoin(p, pattern).confidence = Percent(p)
  BY DEF Coinjoin
<1>3. \A v : \/ Verdict(n, outs, v) = NotCoinjoin
             \/ \E p \in {50, 75, 85, 95}, pattern \in {"WhirlpoolPool", "WasabiLike", "EqualOutput"} :
                    Verdict(n, outs, v) = Coinjoin(p, pattern)
  BY DEF Verdict
<1> QED
  BY <1>1, <1>2, <1>3 DEF DetectCoinjoin

-----------------------------------------------------------------------------
(* Types. *)

SumsType ==
    [ inputs : Nat, value : Nat, cdd : Nat, age : Nat, out : Nat,
      rbf : BOOLEAN, to : TagConfidence, from : TagConfidence ]

\* TypeOK without the score.
StateOK ==
    /\ override \in Override
    /\ unresolved \in [InputKind -> Nat]
    /\ sums \in SumsType
    /\ outputs \in Seq(Nat)

\* The constants of the code are numbers.
LEMMA Numbers ==
    /\ Unit \in Nat \ {0} /\ Coin \in Nat \ {0} /\ MilliCoin \in Nat \ {0}
    /\ Percent(50) \in Confidence /\ Unit \in Confidence
    /\ Confidence \subseteq Nat
BY CoinJoinAssumption DEF Unit, Coin, Percent, Confidence

\* The higher of two confidences is one of them.
LEMMA HigherType ==
    ASSUME NEW a \in TagConfidence, NEW b \in TagConfidence
    PROVE  Higher(a, b) \in TagConfidence
BY DEF Higher

\* The sequence with an output more, seen from the outside.
LEMMA WithOutputAt ==
    ASSUME outputs \in Seq(Nat), NEW v \in Nat
    PROVE  \E p \in 1..(Len(outputs) + 1) :
               LET t == WithOutput(v)
               IN  /\ t \in Seq(Nat) /\ Len(t) = Len(outputs) + 1 /\ t[p] = v
                   /\ \A i \in 1..Len(outputs) : t[IF i < p THEN i ELSE i + 1] = outputs[i]
<1> DEFINE S == {i \in DOMAIN outputs : outputs[i] <= v}
           p == Cardinality(S)
           a == SubSeq(outputs, 1, p)
           b == SubSeq(outputs, p + 1, Len(outputs))
           t == WithOutput(v)
<1>1. Len(outputs) \in Nat /\ DOMAIN outputs = 1..Len(outputs)
  OBVIOUS
<1>2. IsFiniteSet(1..Len(outputs)) /\ Cardinality(1..Len(outputs)) = Len(outputs)
  BY <1>1, FS_Interval
<1>3. S \in SUBSET (1..Len(outputs))
  OBVIOUS
<1>4. IsFiniteSet(S) /\ p <= Len(outputs)
  BY <1>2, <1>3, FS_Subset
<1>5. p \in 0..Len(outputs)
  BY <1>1, <1>4, FS_CardinalityType
<1>6. t = a \o <<v>> \o b
  BY DEF WithOutput
<1> HIDE DEF p, t
<1>7. /\ a \in Seq(Nat) /\ Len(a) = p /\ \A i \in 1..p : a[i] = outputs[i]
      /\ b \in Seq(Nat) /\ Len(b) = Len(outputs) - p
      /\ \A i \in 1..(Len(outputs) - p) : b[i] = outputs[p + i]
  <2>1. p \in Nat /\ p <= Len(outputs)
    BY <1>5
  <2>2. a \in Seq(Nat) /\ Len(a) = p /\ \A i \in 1..p : a[i] = outputs[i]
    BY <1>1, <2>1
  <2>3. /\ b \in Seq(Nat) /\ Len(b) = Len(outputs) - p
        /\ \A i \in 1..(Len(outputs) - p) : b[i] = outputs[p + i]
    <3>1. p + 1 \in Int /\ Len(outputs) \in Int /\ \A i \in (p + 1)..Len(outputs) : outputs[i] \in Nat
      BY <1>1, <2>1
    <3>2. /\ b \in Seq(Nat)
          /\ Len(b) = IF p + 1 <= Len(outputs) THEN Len(outputs) - (p + 1) + 1 ELSE 0
          /\ \A i \in 1..(Len(outputs) - (p + 1) + 1) : b[i] = outputs[(p + 1) + i - 1]
      BY <3>1, SubSeqProperties
    <3> HIDE DEF b
    <3>3. Len(b) = Len(outputs) - p
      <4>1. \A x, y \in Nat : x <= y => (IF x + 1 <= y THEN y - (x + 1) + 1 ELSE 0) = y - x
        OBVIOUS
      <4> QED
        BY <1>1, <2>1, <3>2, <4>1
    <3>4. ASSUME NEW i \in 1..(Len(outputs) - p) PROVE b[i] = outputs[p + i]
      <4>1. i \in 1..(Len(outputs) - (p + 1) + 1) /\ (p + 1) + i - 1 = p + i
        BY <1>1, <2>1
      <4> QED
        BY <3>2, <4>1
    <3> QED
      BY <3>2, <3>3, <3>4
  <2> QED
    BY <2>2, <2>3
<1> HIDE DEF a, b
<1> DEFINE c == a \o <<v>>
<1>8. /\ c \in Seq(Nat) /\ Len(c) = p + 1 /\ c[p + 1] = v /\ \A i \in 1..p : c[i] = outputs[i]
  BY <1>5, <1>7
<1>9. t = c \o b
  BY <1>6
<1> HIDE DEF c
<1>10. /\ t \in Seq(Nat) /\ Len(t) = Len(outputs) + 1
       /\ \A i \in 1..(p + 1) : t[i] = c[i]
       /\ \A i \in 1..(Len(outputs) - p) : t[p + 1 + i] = b[i]
  <2>1. p \in Nat /\ Len(outputs) - p \in Nat
    BY <1>1, <1>5
  <2>2. t \in Seq(Nat) /\ Len(t) = Len(c) + Len(b)
    BY <1>7, <1>8, <1>9, ConcatProperties
  <2>3. ASSUME NEW i \in 1..(p + 1) PROVE t[i] = c[i]
    BY <1>7, <1>8, <1>9, <2>1
  <2>4. ASSUME NEW i \in 1..(Len(outputs) - p) PROVE t[p + 1 + i] = b[i]
    <3>1. /\ p + 1 + i \in 1..(Len(c) + Len(b)) /\ p + 1 + i > Len(c)
          /\ (p + 1 + i) - Len(c) = i
      BY <1>7, <1>8, <2>1
    <3>2. \A j \in 1..(Len(c) + Len(b)) : t[j] = IF j <= Len(c) THEN c[j] ELSE b[j - Len(c)]
      <4>1. c \in Seq(Nat) /\ b \in Seq(Nat)
        BY <1>7, <1>8
      <4>2. \A j \in 1..(Len(c) + Len(b)) :
               (c \o b)[j] = IF j <= Len(c) THEN c[j] ELSE b[j - Len(c)]
        BY <4>1, ConcatProperties, Zenon
      <4> QED
        BY <1>9, <4>2, Zenon
    <3>3. ~(p + 1 + i <= Len(c)) /\ t[p + 1 + i] = b[(p + 1 + i) - Len(c)]
      <4>1. ~(p + 1 + i <= Len(c))
        BY <1>8, <2>1, <3>1
      <4> QED
        BY <3>1, <3>2, <4>1
    <3> QED
      BY <3>1, <3>3
  <2> QED
    BY <1>1, <1>7, <1>8, <2>1, <2>2, <2>3, <2>4
<1>11. ASSUME NEW i \in 1..Len(outputs)
       PROVE  t[IF i < p + 1 THEN i ELSE i + 1] = outputs[i]
  <2>1. CASE i < p + 1
    <3>1. i \in 1..p /\ i \in 1..(p + 1)
      BY <1>5, <2>1
    <3> QED
      BY <1>8, <1>10, <2>1, <3>1
  <2>2. CASE ~(i < p + 1)
    <3>1. i - p \in 1..(Len(outputs) - p) /\ p + 1 + (i - p) = i + 1 /\ p + (i - p) = i
      BY <1>1, <1>5, <2>2
    <3>2. t[i + 1] = b[i - p] /\ b[i - p] = outputs[i]
      BY <1>7, <1>10, <3>1
    <3> QED
      BY <2>2, <3>2
  <2> QED
    BY <2>1, <2>2
<1>12. p + 1 \in 1..(Len(outputs) + 1) /\ t[p + 1] = v
  <2>1. p + 1 \in 1..(p + 1)
    BY <1>5
  <2> QED
    BY <1>1, <1>5, <1>8, <1>10, <2>1
<1> QED
  BY <1>10, <1>11, <1>12 DEF t

\* Its value occurs once more, every other one as often as before.
LEMMA WithOutputCounts ==
    ASSUME outputs \in Seq(Nat), NEW v \in Nat
    PROVE  /\ WithOutput(v) \in Seq(Nat) /\ Len(WithOutput(v)) = Len(outputs) + 1
           /\ \A w : Count(WithOutput(v), w) = Count(outputs, w) + IF w = v THEN 1 ELSE 0
<1> DEFINE t == WithOutput(v)
<1>1. PICK p \in 1..(Len(outputs) + 1) :
         /\ t \in Seq(Nat) /\ Len(t) = Len(outputs) + 1 /\ t[p] = v
         /\ \A i \in 1..Len(outputs) : t[IF i < p THEN i ELSE i + 1] = outputs[i]
  BY WithOutputAt
<1> HIDE DEF t
<1>2. p \in 1..Len(t) /\ Len(outputs) \in Nat
  BY <1>1
<1>3. RemoveAt(t, p) = outputs
  <2>1. /\ RemoveAt(t, p) \in Seq(Nat) /\ Len(RemoveAt(t, p)) = Len(t) - 1
        /\ \A i \in 1..(Len(t) - 1) : RemoveAt(t, p)[i] = t[IF i < p THEN i ELSE i + 1]
    BY <1>1, <1>2, Removal
  <2>2. Len(t) - 1 = Len(outputs)
    BY <1>1, <1>2
  <2>3. \A i \in 1..Len(outputs) : RemoveAt(t, p)[i] = outputs[i]
    BY <1>1, <2>1, <2>2
  <2> QED
    BY <2>1, <2>2, <2>3, SeqEqual
<1>4. \A s, w : Count(s, w) = Hits(s, {w})
  BY DEF Count, Hits
<1>5. \A w : Hits(t, {w}) = Hits(outputs, {w}) + IF t[p] \in {w} THEN 1 ELSE 0
  BY <1>1, <1>2, <1>3, HitsRemoveAt
<1>6. \A w : Count(t, w) = Count(outputs, w) + IF w = v THEN 1 ELSE 0
  BY <1>1, <1>4, <1>5
<1> QED
  BY <1>1, <1>6 DEF t

\* Nothing is added up at the start.
LEMMA InitState == Init => StateOK
BY DEF Init, StateOK, SumsType, TagConfidence

\* Every step keeps the types.
LEMMA NextState == StateOK /\ [Next]_vars => StateOK'
<1> SUFFICES ASSUME StateOK, [Next]_vars PROVE StateOK'
  OBVIOUS
<1>k. \A k \in InputKind : /\ k.value \in Nat /\ k.age \in Nat
                           /\ k.tag \in TagConfidence /\ k.rbf \in BOOLEAN
  BY ScoringAssumption
<1>b. Batches \subseteq Nat
  BY ScoringAssumption
<1>1. ASSUME NEW k \in InputKind, NEW n \in Batches, AddInputs(k, n)
      PROVE  StateOK'
  <2>1. n \in Nat /\ unresolved[k] \in Nat /\ k.rbf \in BOOLEAN
    BY <1>k, <1>b DEF StateOK
  <2>2. sums \in SumsType /\ unresolved \in [InputKind -> Nat] /\ override \in Override
        /\ outputs \in Seq(Nat)
    BY DEF StateOK
  <2>3. sums.inputs + n \in Nat
    BY <2>1, <2>2 DEF SumsType
  <2>4. (sums.rbf \/ k.rbf) \in BOOLEAN
    OBVIOUS
  <2>5. [sums EXCEPT !.inputs = sums.inputs + n, !.rbf = sums.rbf \/ k.rbf] \in SumsType
    BY <2>2, <2>3, <2>4 DEF SumsType
  <2>6. unresolved[k] + n \in Nat
    BY <2>1
  <2>7. unresolved' \in [InputKind -> Nat]
    BY <1>1, <2>2, <2>6 DEF AddInputs
  <2> QED
    BY <1>1, <2>2, <2>5, <2>7 DEF AddInputs, StateOK
<1>2. ASSUME NEW v \in Amount, NEW tag \in {NoTag, Percent(50), Unit}, AddOutput(v, tag)
      PROVE  StateOK'
  <2>1. v \in Nat /\ tag \in TagConfidence
    BY Numbers, ScoringAssumption DEF TagConfidence
  <2>2. WithOutput(v) \in Seq(Nat)
    BY <2>1, WithOutputCounts DEF StateOK
  <2>3. Higher(sums.to, tag) \in TagConfidence
    BY <2>1, HigherType DEF StateOK, SumsType
  <2>4. sums \in SumsType /\ unresolved \in [InputKind -> Nat] /\ override \in Override
    BY DEF StateOK
  <2>5. sums.out + v \in Nat
    BY <2>1, <2>4 DEF SumsType
  <2>6. [sums EXCEPT !.out = sums.out + v, !.to = Higher(sums.to, tag)] \in SumsType
    BY <2>3, <2>4, <2>5 DEF SumsType
  <2> QED
    BY <1>2, <2>2, <2>4, <2>6 DEF AddOutput, StateOK
<1>3. ASSUME NEW k \in InputKind, NEW n \in Batches, Resolve(k, n)
      PROVE  StateOK'
  <2>1. n \in Nat /\ unresolved[k] \in Nat /\ n <= unresolved[k]
    BY <1>3, <1>b DEF StateOK, Resolve
  <2>2. sums.value + n * k.value \in Nat
    <3>1. n * k.value \in Nat
      BY <1>k, <2>1
    <3> QED
      BY <3>1 DEF StateOK, SumsType
  <2>3. sums.cdd + n * ((k.value * k.age) \div Coin) \in Nat
    <3>1. k.value * k.age \in Nat
      BY <1>k
    <3>2. (k.value * k.age) \div Coin \in Nat
      <4>1. 0 * Coin <= k.value * k.age
        BY <3>1, Numbers
      <4> QED
        BY <3>1, <4>1, Numbers, DivBounds
    <3>3. n * ((k.value * k.age) \div Coin) \in Nat
      BY <2>1, <3>2
    <3>4. sums.cdd \in Nat
      BY DEF StateOK, SumsType
    <3> QED
      BY <3>3, <3>4
  <2>4. Older(sums.age, k.age) \in Nat
    BY <1>k DEF Older, StateOK, SumsType
  <2>5. Higher(sums.from, k.tag) \in TagConfidence
    BY <1>k, HigherType DEF StateOK, SumsType
  <2>6. unresolved[k] - n \in Nat
    BY <2>1
  <2>7. sums \in SumsType /\ unresolved \in [InputKind -> Nat] /\ override \in Override
        /\ outputs \in Seq(Nat)
    BY DEF StateOK
  <2>8. [sums EXCEPT !.value = sums.value + n * k.value,
                     !.cdd   = sums.cdd + n * ((k.value * k.age) \div Coin),
                     !.age   = Older(sums.age, k.age),
                     !.from  = Higher(sums.from, k.tag)] \in SumsType
    BY <2>2, <2>3, <2>4, <2>5, <2>7 DEF SumsType
  <2>9. unresolved' \in [InputKind -> Nat]
    BY <1>3, <2>6, <2>7 DEF Resolve
  <2> QED
    BY <1>3, <2>7, <2>8, <2>9 DEF Resolve, StateOK
<1>4. CASE UNCHANGED vars
  BY <1>4 DEF vars, StateOK
<1> QED
  BY <1>1, <1>2, <1>3, <1>4 DEF Next

-----------------------------------------------------------------------------
(* Scores. *)

\* What each rule can return.
LEMMA RuleValues ==
    ASSUME StateOK, NEW v \in Verdicts
    PROVE  /\ Sigmoid(sums.value, 10 * Coin) \in 0..Unit
           /\ Sigmoid(sums.age, 365) \in 0..Unit
           /\ Sigmoid(sums.cdd, 1000) \in 0..Unit
           /\ Sigmoid(sums.inputs, 20) \in 0..Unit
           /\ Sigmoid(Fee(sums.value, sums.out), FeeHalf * VSize) \in 0..Unit
           /\ RbfValue \in 0..Percent(50)
           /\ CoinJoinValue(v) \in 0..Unit
           /\ v.is_coinjoin => CoinJoinValue(v) >= Percent(50)
           /\ ExchangeFlow \in Int /\ ExchangeFlow <= Unit
           /\ sums.to = NoTag => ExchangeFlow <= 0
<1>1. sums.value \in Nat /\ sums.age \in Nat /\ sums.cdd \in Nat /\ sums.inputs \in Nat
      /\ sums.out \in Nat /\ sums.to \in TagConfidence /\ sums.from \in TagConfidence
  BY DEF StateOK, SumsType
<1>2. Fee(sums.value, sums.out) \in Nat
  BY <1>1 DEF Fee
<1>3. FeeHalf * VSize \in Nat \ {0} /\ 10 * Coin \in Nat \ {0}
  <2>1. VSize \in Nat \ {0}
    BY <1>1 DEF VSize, StateOK
  <2> QED
    BY <2>1, Numbers, ScoringAssumption
<1>4. RbfValue \in 0..Percent(50)
  BY CoinJoinAssumption DEF RbfValue, Percent, Unit
<1>5. v = NotCoinjoin \/ (v.is_coinjoin /\ v.confidence \in Percent(50)..Unit)
  BY VerdictType DEF Verdicts
<1>6. CoinJoinValue(v) \in 0..Unit /\ (v.is_coinjoin => CoinJoinValue(v) >= Percent(50))
  BY <1>5, Numbers DEF CoinJoinValue, NotCoinjoin, Confidence
<1>7. /\ ExchangeFlow \in Int /\ ExchangeFlow <= Unit
      /\ sums.to = NoTag => ExchangeFlow <= 0
  <2>1. CASE sums.to # NoTag
    BY <1>1, <2>1, Numbers DEF ExchangeFlow, TagConfidence, Confidence
  <2>2. CASE sums.to = NoTag /\ sums.from # NoTag
    <3>1. sums.from \in Nat
      BY <1>1, <2>2, Numbers DEF TagConfidence
    <3>2. sums.from \div 2 \in Nat
      BY <3>1
    <3> QED
      BY <2>2, <3>2, Numbers DEF ExchangeFlow
  <2>3. CASE sums.to = NoTag /\ sums.from = NoTag
    BY <2>3, Numbers DEF ExchangeFlow
  <2> QED
    BY <2>1, <2>2, <2>3
<1>8. Sigmoid(sums.value, 10 * Coin) \in 0..Unit
  BY <1>1, <1>3, SigmoidBounds
<1>9. \A x \in Nat : /\ Sigmoid(x, 365) \in 0..Unit
                    /\ Sigmoid(x, 1000) \in 0..Unit
                    /\ Sigmoid(x, 20) \in 0..Unit
  <2>1. 365 \in Nat \ {0} /\ 1000 \in Nat \ {0} /\ 20 \in Nat \ {0}
    OBVIOUS
  <2> QED
    BY <2>1, SigmoidBounds
<1>10. Sigmoid(Fee(sums.value, sums.out), FeeHalf * VSize) \in 0..Unit
  BY <1>2, <1>3, SigmoidBounds
<1> QED
  BY <1>1, <1>4, <1>6, <1>7, <1>8, <1>9, <1>10

\* Every weight is an integer.
LEMMA WeightType ==
    ASSUME override \in Override, NEW r \in Rules
    PROVE  Weight(r) \in Int
<1>1. DefaultWeight(r) \in Int
  BY DEF DefaultWeight, Rules
<1> QED
  BY <1>1, ScoringAssumption DEF Weight

\* A score is one of 0 to 100.
LEMMA ScoreType ==
    ASSUME StateOK, NEW v \in Verdicts
    PROVE  Composite(v) \in 0..(100 * Unit)
<1>1. \A r \in Rules : Weight(r) \in Int
  BY WeightType DEF StateOK
<1>2. /\ Weight("tx_value") \in Int /\ Weight("utxo_age") \in Int /\ Weight("cdd") \in Int
      /\ Weight("input_count") \in Int /\ Weight("fee_rate") \in Int
      /\ Weight("rbf_flag") \in Int /\ Weight("exchange_flow") \in Int
      /\ Weight("coinjoin") \in Int
  BY <1>1 DEF Rules
<1>3. \A a, b \in Int : a * b \in Int
  OBVIOUS
<1>4. Total(v) \in Int
  <2>1. /\ Sigmoid(sums.value, 10 * Coin) \in Int
        /\ Sigmoid(sums.age, 365) \in Int
        /\ Sigmoid(sums.cdd, 1000) \in Int
        /\ Sigmoid(sums.inputs, 20) \in Int
        /\ Sigmoid(Fee(sums.value, sums.out), FeeHalf * VSize) \in Int
        /\ RbfValue \in Int /\ ExchangeFlow \in Int /\ CoinJoinValue(v) \in Int
    BY RuleValues
  <2>2. /\ Weight("tx_value") * Sigmoid(sums.value, 10 * Coin) \in Int
        /\ Weight("utxo_age") * Sigmoid(sums.age, 365) \in Int
        /\ Weight("cdd") * Sigmoid(sums.cdd, 1000) \in Int
        /\ Weight("input_count") * Sigmoid(sums.inputs, 20) \in Int
        /\ Weight("fee_rate") * Sigmoid(Fee(sums.value, sums.out), FeeHalf * VSize) \in Int
        /\ Weight("rbf_flag") * RbfValue \in Int
        /\ Weight("exchange_flow") * ExchangeFlow \in Int
        /\ Weight("coinjoin") * CoinJoinValue(v) \in Int
    BY <1>2, <1>3, <2>1
  <2> QED
    BY <2>2 DEF Total
<1>5. MaxPossible \in Nat
  BY <1>2 DEF MaxPossible, Abs
<1>6. \A n \in Int : Clamped(n) \in 0..(100 * Unit)
  BY Numbers DEF Clamped
<1>7. CASE MaxPossible = 0
  BY <1>7, Numbers DEF Composite
<1>8. CASE MaxPossible # 0
  <2>1. 100 * Total(v) \in Int
    BY <1>4
  <2>2. (100 * Total(v)) \div MaxPossible \in Int
    BY <1>5, <1>8, <2>1, DivBounds
  <2> QED
    BY <1>6, <1>8, <2>2 DEF Composite
<1> QED
  BY <1>7, <1>8

\* In every reachable state the sums have their types and every score is in range,
\* whatever weights are configured.
THEOREM TypeCorrect == Spec => []TypeOK
<1>1. StateOK => TypeOK
  BY ScoreType DEF StateOK, SumsType, TypeOK
<1> QED
  BY <1>1, InitState, NextState, PTL DEF Spec

\* A transaction gets one verdict: the iteration order of the HashMap never matters.
THEOREM VerdictCorrect == Spec => []VerdictIsUnique
<1>1. StateOK => VerdictIsUnique
  BY OneVerdict DEF StateOK, VerdictIsUnique, Verdicts
<1> QED
  BY <1>1, InitState, NextState, PTL DEF Spec

\* With the default weights a score of 80 needs a deposit and excludes a CoinJoin.
LEMMA DefaultTotal ==
    ASSUME StateOK, DOMAIN override = {}, NEW v \in Verdicts,
           AlertLevel(Composite(v)) = "Critical"
    PROVE  sums.to # NoTag /\ ~v.is_coinjoin
<1>1. /\ Weight("tx_value") = 6 /\ Weight("utxo_age") = 8 /\ Weight("cdd") = 9
      /\ Weight("input_count") = 4 /\ Weight("fee_rate") = 3 /\ Weight("rbf_flag") = 2
      /\ Weight("exchange_flow") = 10 /\ Weight("coinjoin") = -6
  BY DEF Weight, DefaultWeight
<1>2. MaxPossible = 48
  BY <1>1 DEF MaxPossible, Abs
<1> DEFINE s1 == Sigmoid(sums.value, 10 * Coin)
           s2 == Sigmoid(sums.age, 365)
           s3 == Sigmoid(sums.cdd, 1000)
           s4 == Sigmoid(sums.inputs, 20)
           s5 == Sigmoid(Fee(sums.value, sums.out), FeeHalf * VSize)
           c == CoinJoinValue(v)
<1>3. Total(v) = 6 * s1 + 8 * s2 + 9 * s3 + 4 * s4 + 3 * s5 + 2 * RbfValue
                 + 10 * ExchangeFlow + (-6) * c
  BY <1>1 DEF Total
<1>4. /\ s1 \in 0..Unit /\ s2 \in 0..Unit /\ s3 \in 0..Unit /\ s4 \in 0..Unit
      /\ s5 \in 0..Unit /\ RbfValue \in 0..Percent(50) /\ c \in 0..Unit
      /\ v.is_coinjoin => c >= Percent(50)
      /\ ExchangeFlow \in Int /\ ExchangeFlow <= Unit
      /\ sums.to = NoTag => ExchangeFlow <= 0
  BY RuleValues
<1> HIDE DEF s1, s2, s3, s4, s5, c
<1>5. Hundredth \in Nat \ {0} /\ Unit = 100 * Hundredth /\ Percent(50) = 50 * Hundredth
  BY CoinJoinAssumption DEF Unit, Percent
<1>6. Total(v) \in Int
  BY <1>3, <1>4, <1>5
<1>7. Composite(v) >= 80 * Unit
  BY DEF AlertLevel
<1>8. (100 * Total(v)) \div 48 >= 80 * Unit
  <2>1. (100 * Total(v)) \div 48 \in Int
    BY <1>6, DivBounds
  <2> QED
    BY <1>2, <1>5, <1>7, <2>1 DEF Composite, Clamped
<1>9. 100 * Total(v) >= 48 * (80 * Unit)
  BY <1>5, <1>6, <1>8, DivBounds
<1>10. ASSUME sums.to = NoTag PROVE FALSE
  BY <1>3, <1>4, <1>5, <1>9, <1>10
<1>11. ASSUME v.is_coinjoin PROVE FALSE
  BY <1>3, <1>4, <1>5, <1>9, <1>11
<1> QED
  BY <1>10, <1>11

\* Critical is for deposits to a known exchange that are no CoinJoins.
THEOREM CriticalCorrect == Spec => []CriticalIsDeposit
<1>1. StateOK => CriticalIsDeposit
  BY DefaultTotal DEF CriticalIsDeposit
<1> QED
  BY <1>1, InitState, NextState, PTL DEF Spec

-----------------------------------------------------------------------------
(* Knowing more. *)

\* A sigmoid does not fall.
LEMMA SigmoidRises ==
    ASSUME NEW x \in Nat, NEW y \in Nat, x <= y, NEW half \in Nat \ {0}
    PROVE  Sigmoid(x, half) <= Sigmoid(y, half)
<1> DEFINE q == Sigmoid(x, half)
<1>1. Unit \in Nat /\ q \in 0..Unit
  BY SigmoidBounds, Numbers
<1>2. Unit * x \in Nat /\ Unit * y \in Nat /\ half + x \in Nat \ {0} /\ half + y \in Nat \ {0}
  BY <1>1
<1>3. q * (half + x) <= Unit * x
  <2>1. q = (Unit * x) \div (half + x)
    BY DEF Sigmoid
  <2>2. ~(Unit * x < q * (half + x))
    <3> HIDE DEF q
    <3>1. Unit * x < q * (half + x) => (Unit * x) \div (half + x) < q
      BY <1>1, <1>2, DivBounds
    <3> QED
      BY <1>1, <2>1, <3>1
  <2> HIDE DEF q
  <2>3. q * (half + x) \in Int
    BY <1>1, <1>2
  <2> QED
    BY <1>2, <2>2, <2>3
<1> HIDE DEF q
<1>4. PICK d \in Nat : y = x + d
  <2>1. y - x \in Nat /\ y = x + (y - x)
    OBVIOUS
  <2> QED
    BY <2>1
<1>5. q * d <= Unit * d
  BY <1>1, <1>4
<1>6. q * (half + y) = q * (half + x) + q * d /\ Unit * y = Unit * x + Unit * d
  BY <1>1, <1>4
<1>7. q * (half + y) <= Unit * y
  <2>1. q * d \in Int /\ Unit * d \in Int /\ q * (half + x) \in Int
    BY <1>1, <1>2, <1>4
  <2> QED
    BY <1>2, <1>3, <1>5, <1>6, <2>1
<1>8. q <= (Unit * y) \div (half + y)
  BY <1>1, <1>2, <1>7, DivBounds
<1> QED
  BY <1>8 DEF q, Sigmoid

\* A weight that is not negative keeps the order, and so does rounding down.
LEMMA WeightedRises ==
    ASSUME NEW w \in Nat, NEW a \in Int, NEW b \in Int, a <= b
    PROVE  w * a <= w * b
OBVIOUS

LEMMA DivRises ==
    ASSUME NEW a \in Int, NEW b \in Int, a <= b, NEW m \in Nat \ {0}
    PROVE  a \div m <= b \div m
<1>1. a \div m \in Int /\ (a \div m) * m \in Int
  OBVIOUS
<1>2. (a \div m) * m <= a
  <2>1. a < (a \div m) * m => a \div m < a \div m
    BY <1>1, DivBounds
  <2> QED
    BY <1>1, <2>1
<1>3. (a \div m) * m <= b
  BY <1>1, <1>2
<1> QED
  BY <1>1, <1>3, DivBounds

LEMMA ResolveRaises ==
    ASSUME StateOK, NEW k \in InputKind, NEW n \in Batches, Resolve(k, n),
           sums'.from = sums.from \/ sums.to # NoTag,
           \A r \in {"tx_value", "utxo_age", "cdd", "fee_rate"} : Weight(r) >= 0,
           NEW v \in Verdicts, v \in Verdicts'
    PROVE  Composite(v) <= Composite(v)'
<1>1. StateOK'
  BY NextState DEF Next
<1>2. /\ sums.value <= sums'.value /\ sums.cdd <= sums'.cdd /\ sums.age <= sums'.age
      /\ sums'.inputs = sums.inputs /\ sums'.out = sums.out /\ sums'.rbf = sums.rbf
      /\ sums'.to = sums.to
      /\ outputs' = outputs /\ override' = override
  <2>1. k.value \in Nat /\ k.age \in Nat /\ n \in Nat
    BY ScoringAssumption
  <2>2. n * k.value \in Nat
    BY <2>1
  <2>3. n * ((k.value * k.age) \div Coin) \in Nat
    <3>1. k.value * k.age \in Nat
      BY <2>1
    <3>2. (k.value * k.age) \div Coin \in Nat
      <4>1. 0 * Coin <= k.value * k.age
        BY <3>1, Numbers
      <4> QED
        BY <3>1, <4>1, Numbers, DivBounds
    <3> QED
      BY <2>1, <3>2
  <2>4. sums \in SumsType
    BY DEF StateOK
  <2>5. /\ sums' = [sums EXCEPT !.value = sums.value + n * k.value,
                                !.cdd   = sums.cdd + n * ((k.value * k.age) \div Coin),
                                !.age   = Older(sums.age, k.age),
                                !.from  = Higher(sums.from, k.tag)]
        /\ outputs' = outputs /\ override' = override
    BY DEF Resolve
  <2>6. /\ sums'.value = sums.value + n * k.value
        /\ sums'.cdd = sums.cdd + n * ((k.value * k.age) \div Coin)
        /\ sums'.age = Older(sums.age, k.age)
        /\ sums'.inputs = sums.inputs /\ sums'.out = sums.out /\ sums'.rbf = sums.rbf
        /\ sums'.to = sums.to
    BY <2>4, <2>5 DEF SumsType
  <2>7. sums.value \in Nat /\ sums.cdd \in Nat /\ sums.age \in Nat
    BY <2>4 DEF SumsType
  <2> QED
    BY <2>1, <2>2, <2>3, <2>5, <2>6, <2>7 DEF Older
<1>3. /\ sums.value \in Nat /\ sums'.value \in Nat /\ sums.cdd \in Nat /\ sums'.cdd \in Nat
      /\ sums.age \in Nat /\ sums'.age \in Nat /\ sums.out \in Nat /\ sums.inputs \in Nat
  BY <1>1 DEF StateOK, SumsType
<1>4. \A r : Weight(r)' = Weight(r)
  BY <1>2 DEF Weight, DefaultWeight
<1>5. /\ Weight("tx_value") \in Nat /\ Weight("utxo_age") \in Nat /\ Weight("cdd") \in Nat
      /\ Weight("fee_rate") \in Nat
      /\ Weight("input_count") \in Int /\ Weight("rbf_flag") \in Int
      /\ Weight("exchange_flow") \in Int /\ Weight("coinjoin") \in Int
  <2>1. \A r \in Rules : Weight(r) \in Int
    BY WeightType DEF StateOK
  <2> QED
    BY <2>1 DEF Rules
<1>6. /\ VSize' = VSize /\ VSize \in Nat \ {0} /\ RbfValue' = RbfValue
      /\ CoinJoinValue(v)' = CoinJoinValue(v) /\ MaxPossible' = MaxPossible
      /\ ExchangeFlow' = ExchangeFlow
  <2>1. VSize' = VSize /\ VSize \in Nat \ {0}
    BY <1>2, <1>3 DEF VSize, StateOK
  <2>2. RbfValue' = RbfValue /\ CoinJoinValue(v)' = CoinJoinValue(v)
    BY <1>2 DEF RbfValue, CoinJoinValue
  <2>3. MaxPossible' = MaxPossible
    BY <1>4 DEF MaxPossible
  <2>4. ExchangeFlow' = ExchangeFlow
    BY <1>2 DEF ExchangeFlow
  <2> QED
    BY <2>1, <2>2, <2>3, <2>4
<1>7. /\ Sigmoid(sums.value, 10 * Coin) <= Sigmoid(sums'.value, 10 * Coin)
      /\ Sigmoid(sums.age, 365) <= Sigmoid(sums'.age, 365)
      /\ Sigmoid(sums.cdd, 1000) <= Sigmoid(sums'.cdd, 1000)
      /\ Sigmoid(Fee(sums.value, sums.out), FeeHalf * VSize)
            <= Sigmoid(Fee(sums'.value, sums.out), FeeHalf * VSize)
  <2>1. 10 * Coin \in Nat \ {0} /\ 365 \in Nat \ {0} /\ 1000 \in Nat \ {0}
    BY Numbers
  <2>2. FeeHalf * VSize \in Nat \ {0}
    BY <1>6, ScoringAssumption
  <2>3. /\ Fee(sums.value, sums.out) \in Nat /\ Fee(sums'.value, sums.out) \in Nat
        /\ Fee(sums.value, sums.out) <= Fee(sums'.value, sums.out)
    BY <1>2, <1>3 DEF Fee
  <2> QED
    BY <1>2, <1>3, <2>1, <2>2, <2>3, SigmoidRises
<1> DEFINE a1 == Sigmoid(sums.value, 10 * Coin)
           a2 == Sigmoid(sums.age, 365)
           a3 == Sigmoid(sums.cdd, 1000)
           a4 == Sigmoid(Fee(sums.value, sums.out), FeeHalf * VSize)
           b1 == Sigmoid(sums'.value, 10 * Coin)
           b2 == Sigmoid(sums'.age, 365)
           b3 == Sigmoid(sums'.cdd, 1000)
           b4 == Sigmoid(Fee(sums'.value, sums.out), FeeHalf * VSize)
           w1 == Weight("tx_value")
           w2 == Weight("utxo_age")
           w3 == Weight("cdd")
           w4 == Weight("fee_rate")
           c1 == Weight("input_count") * Sigmoid(sums.inputs, 20)
           c2 == Weight("rbf_flag") * RbfValue
           c3 == Weight("exchange_flow") * ExchangeFlow
           c4 == Weight("coinjoin") * CoinJoinValue(v)
<1>8. /\ Total(v) = w1 * a1 + w2 * a2 + w3 * a3 + c1 + w4 * a4 + c2 + c3 + c4
      /\ Total(v)' = w1 * b1 + w2 * b2 + w3 * b3 + c1 + w4 * b4 + c2 + c3 + c4
  <2>1. Total(v) = w1 * a1 + w2 * a2 + w3 * a3 + c1 + w4 * a4 + c2 + c3 + c4
    BY DEF Total
  <2>2. Total(v)' = Weight("tx_value")' * Sigmoid(sums'.value, 10 * Coin)
                    + Weight("utxo_age")' * Sigmoid(sums'.age, 365)
                    + Weight("cdd")' * Sigmoid(sums'.cdd, 1000)
                    + Weight("input_count")' * Sigmoid(sums'.inputs, 20)
                    + Weight("fee_rate")' * Sigmoid(Fee(sums'.value, sums'.out), FeeHalf * VSize')
                    + Weight("rbf_flag")' * RbfValue'
                    + Weight("exchange_flow")' * ExchangeFlow'
                    + Weight("coinjoin")' * CoinJoinValue(v)'
    BY DEF Total, Sigmoid, Fee, Unit, Coin
  <2> QED
    BY <1>2, <1>4, <1>6, <2>1, <2>2
<1>9. /\ a1 \in Int /\ a2 \in Int /\ a3 \in Int /\ a4 \in Int
      /\ c1 \in Int /\ c2 \in Int /\ c3 \in Int /\ c4 \in Int
  <2>1. /\ a1 \in Int /\ a2 \in Int /\ a3 \in Int /\ a4 \in Int /\ Sigmoid(sums.inputs, 20) \in Int
        /\ RbfValue \in Int /\ ExchangeFlow \in Int /\ CoinJoinValue(v) \in Int
    BY RuleValues
  <2>2. \A x, y \in Int : x * y \in Int
    OBVIOUS
  <2> QED
    BY <1>5, <2>1, <2>2
<1>10. b1 \in Int /\ b2 \in Int /\ b3 \in Int /\ b4 \in Int
  <2>1. \A x \in Nat, h \in Nat \ {0} : Sigmoid(x, h) \in Int
    BY SigmoidBounds, Numbers
  <2>2. 10 * Coin \in Nat \ {0} /\ 365 \in Nat \ {0} /\ 1000 \in Nat \ {0}
    BY Numbers
  <2>3. FeeHalf * VSize \in Nat \ {0} /\ Fee(sums'.value, sums.out) \in Nat
    BY <1>3, <1>6, ScoringAssumption DEF Fee
  <2> QED
    BY <1>3, <2>1, <2>2, <2>3
<1>11. /\ w1 * a1 <= w1 * b1 /\ w2 * a2 <= w2 * b2 /\ w3 * a3 <= w3 * b3 /\ w4 * a4 <= w4 * b4
       /\ w1 * a1 \in Int /\ w2 * a2 \in Int /\ w3 * a3 \in Int /\ w4 * a4 \in Int
       /\ w1 * b1 \in Int /\ w2 * b2 \in Int /\ w3 * b3 \in Int /\ w4 * b4 \in Int
  <2>1. w1 \in Nat /\ w2 \in Nat /\ w3 \in Nat /\ w4 \in Nat
    BY <1>5
  <2>2. a1 <= b1 /\ a2 <= b2 /\ a3 <= b3 /\ a4 <= b4
    BY <1>7
  <2>3. \A x \in Nat, y \in Int : x * y \in Int
    OBVIOUS
  <2> HIDE DEF a1, a2, a3, a4, b1, b2, b3, b4, w1, w2, w3, w4
  <2> QED
    BY <1>9, <1>10, <2>1, <2>2, <2>3, WeightedRises
<1> HIDE DEF a1, a2, a3, a4, b1, b2, b3, b4, w1, w2, w3, w4, c1, c2, c3, c4
<1>12. Total(v) <= Total(v)' /\ Total(v) \in Int /\ Total(v)' \in Int
  BY <1>8, <1>9, <1>11
<1>13. Composite(v)' = IF MaxPossible = 0 THEN 0 ELSE Clamped((100 * Total(v)') \div MaxPossible)
  BY <1>6 DEF Composite, Clamped, Unit
<1>14. CASE MaxPossible = 0
  BY <1>13, <1>14 DEF Composite
<1>15. CASE MaxPossible # 0
  <2>1. MaxPossible \in Nat \ {0}
    BY <1>5, <1>15 DEF MaxPossible, Abs
  <2>2. 100 * Total(v) <= 100 * Total(v)' /\ 100 * Total(v) \in Int /\ 100 * Total(v)' \in Int
    BY <1>12
  <2>3. /\ (100 * Total(v)) \div MaxPossible <= (100 * Total(v)') \div MaxPossible
        /\ (100 * Total(v)) \div MaxPossible \in Int /\ (100 * Total(v)') \div MaxPossible \in Int
    BY <2>1, <2>2, DivRises, DivBounds
  <2>4. \A x, y \in Int : x <= y => Clamped(x) <= Clamped(y)
    BY Numbers DEF Clamped
  <2> QED
    BY <1>13, <1>15, <2>3, <2>4 DEF Composite
<1> QED
  BY <1>14, <1>15

\* ARCHITECTURE.md:68, unresolved inputs contribute 0: a resolved input never lowers
\* the score, unless it is found to come from an exchange.
THEOREM KnowingCorrect == Spec => KnowingMoreRaises
<1>1. ASSUME StateOK, [Next]_vars
      PROVE  [sums'.inputs = sums.inputs /\ outputs' = outputs
              /\ (sums'.from = sums.from \/ sums.to # NoTag)
              /\ (\A r \in {"tx_value", "utxo_age", "cdd", "fee_rate"} : Weight(r) >= 0)
              => \A v \in Verdicts, w \in Verdicts' :
                     v = w => Composite(v) <= Composite(w)']_vars
  <2> SUFFICES ASSUME Next,
                      sums'.inputs = sums.inputs, outputs' = outputs,
                      sums'.from = sums.from \/ sums.to # NoTag,
                      \A r \in {"tx_value", "utxo_age", "cdd", "fee_rate"} : Weight(r) >= 0,
                      NEW v \in Verdicts, v \in Verdicts'
               PROVE  Composite(v) <= Composite(v)'
    BY <1>1
  <2>1. ASSUME NEW k \in InputKind, NEW n \in Batches, AddInputs(k, n)
        PROVE  FALSE
    <3>1. sums \in SumsType /\ n \in Nat \ {0}
      BY <1>1, ScoringAssumption DEF StateOK
    <3>2. sums'.inputs = sums.inputs + n /\ sums.inputs \in Nat
      BY <2>1, <3>1 DEF AddInputs, SumsType
    <3> QED
      BY <3>1, <3>2
  <2>2. ASSUME NEW x \in Amount, NEW tag \in {NoTag, Percent(50), Unit}, AddOutput(x, tag)
        PROVE  FALSE
    <3>1. Len(WithOutput(x)) = Len(outputs) + 1 /\ Len(outputs) \in Nat
      BY <1>1, WithOutputCounts, ScoringAssumption DEF StateOK
    <3> QED
      BY <2>2, <3>1 DEF AddOutput
  <2>3. ASSUME NEW k \in InputKind, NEW n \in Batches, Resolve(k, n)
        PROVE  Composite(v) <= Composite(v)'
    BY <1>1, <2>3, ResolveRaises
  <2> QED
    BY <2>1, <2>2, <2>3 DEF Next
<1> QED
  BY <1>1, InitState, NextState, PTL DEF Spec, KnowingMoreRaises

-----------------------------------------------------------------------------
(* One more participant. *)

\* What makes a CoinJoin with m as the common value.
Common(n, outs, m) ==
    /\ n >= 3 /\ Len(outs) >= 3
    /\ m \in MostCommon(outs)
    /\ MoreThanHalf(outs, m)
    /\ (Count(outs, m) >= 5 /\ ManyIO(n, outs)) \/ VeryEqual(outs, m)

\* In a CoinJoin all of the most common values are such values, and there is one.
LEMMA CommonNeeded ==
    ASSUME NEW n \in Nat, NEW outs \in Seq(Nat), \A d \in DetectCoinjoin(n, outs) : d.is_coinjoin
    PROVE  MostCommon(outs) # {} /\ \A m \in MostCommon(outs) : Common(n, outs, m)
<1>1. ~NotCoinjoin.is_coinjoin
  BY DEF NotCoinjoin
<1>2. n >= 3 /\ Len(outs) >= 3 /\ MostCommon(outs) # {}
  <2>1. ~(n < 3 \/ Len(outs) < 3 \/ MostCommon(outs) = {})
    BY <1>1 DEF DetectCoinjoin
  <2>2. Len(outs) \in Nat
    OBVIOUS
  <2> QED
    BY <2>1, <2>2
<1>3. ASSUME NEW m \in MostCommon(outs)
      PROVE  Common(n, outs, m)
  <2>1. Verdict(n, outs, m) \in DetectCoinjoin(n, outs)
    BY <1>2 DEF DetectCoinjoin
  <2>2. Verdict(n, outs, m) # NotCoinjoin
    BY <1>1, <2>1
  <2>3. Count(outs, m) = 5 => Count(outs, m) >= 5
    OBVIOUS
  <2>4. /\ MoreThanHalf(outs, m)
        /\ (Count(outs, m) >= 5 /\ ManyIO(n, outs)) \/ VeryEqual(outs, m)
    BY <2>2, <2>3 DEF Verdict
  <2> QED
    BY <1>2, <1>3, <2>4 DEF Common
<1> QED
  BY <1>2, <1>3

\* One such value makes a CoinJoin of every verdict.
LEMMA CommonEnough ==
    ASSUME NEW n \in Nat, NEW outs \in Seq(Nat), NEW m, Common(n, outs, m),
           NEW d \in DetectCoinjoin(n, outs)
    PROVE  d.is_coinjoin
<1>1. \A p, pattern : Coinjoin(p, pattern).is_coinjoin
  BY DEF Coinjoin
<1>2. m \in MostCommon(outs) /\ MoreThanHalf(outs, m) /\ n >= 3 /\ Len(outs) >= 3
      /\ Len(outs) \in Nat
  BY DEF Common
<1>3. PICK w \in MostCommon(outs) : d = Verdict(n, outs, w)
  BY <1>2 DEF DetectCoinjoin
<1>4. w = m
  <2>1. SUFFICES ASSUME w # m PROVE FALSE
    OBVIOUS
  <2>2. Count(outs, m) \in Nat /\ Count(outs, w) \in Nat
    BY CountType
  <2>3. Count(outs, m) = Count(outs, w)
    BY <1>2, <1>3, <2>2 DEF MostCommon
  <2>4. Count(outs, w) + Count(outs, m) <= Len(outs)
    BY <2>1, TwoValues
  <2> QED
    BY <1>2, <2>2, <2>3, <2>4 DEF MoreThanHalf
<1>5. (Count(outs, m) >= 5 /\ ManyIO(n, outs)) \/ VeryEqual(outs, m)
  BY DEF Common
<1> QED
  BY <1>1, <1>2, <1>3, <1>4, <1>5 DEF Verdict

\* Another output of the common value is another vote for it.
LEMMA OutputJoins ==
    ASSUME NEW n \in Nat, NEW outs \in Seq(Nat), NEW m, Common(n, outs, m),
           NEW more \in Seq(Nat), Len(more) = Len(outs) + 1,
           Count(more, m) = Count(outs, m) + 1
    PROVE  Common(n, more, m)
<1>1. /\ Len(outs) \in Nat /\ Len(more) \in Nat
      /\ Count(outs, m) \in Nat /\ Count(more, m) \in Nat
      /\ \A w : Count(more, w) \in Nat
  BY CountType
<1>2. /\ n >= 3 /\ Len(outs) >= 3 /\ Count(outs, m) >= 3 /\ 2 * Count(outs, m) > Len(outs)
      /\ \/ Count(outs, m) >= 5 /\ n >= 5 /\ Len(outs) >= 5
         \/ 10 * Count(outs, m) > 7 * Len(outs)
  BY DEF Common, MostCommon, MoreThanHalf, ManyIO, VeryEqual
<1> DEFINE l == Len(outs)
           c == Count(outs, m)
<1>x. l \in Nat /\ c \in Nat /\ Len(more) = l + 1 /\ Count(more, m) = c + 1
  BY <1>1
<1>y. /\ l >= 3 /\ c >= 3 /\ 2 * c > l
      /\ (c >= 5 /\ n >= 5 /\ l >= 5) \/ 10 * c > 7 * l
  BY <1>2
<1> HIDE DEF l, c
<1>3. 2 * Count(more, m) > Len(more) /\ Count(more, m) >= 3 /\ Len(more) >= 3
  BY <1>x, <1>y
<1>4. \/ Count(more, m) >= 5 /\ n >= 5 /\ Len(more) >= 5
      \/ 10 * Count(more, m) > 7 * Len(more)
  BY <1>x, <1>y
<1>5. \A w : Count(more, w) <= Count(more, m)
  <2> SUFFICES ASSUME NEW w, w # m PROVE Count(more, w) <= Count(more, m)
    BY <1>1
  <2>1. Count(more, w) + Count(more, m) <= Len(more)
    BY TwoValues
  <2> QED
    BY <1>1, <1>3, <2>1
<1>6. m \in Range(more)
  <2>1. SUFFICES ASSUME m \notin Range(more) PROVE FALSE
    OBVIOUS
  <2>2. {i \in DOMAIN more : more[i] = m} = {}
    BY <2>1 DEF Range
  <2>3. Count(more, m) = 0
    BY <2>2, FS_EmptySet DEF Count
  <2> QED
    BY <1>3, <2>3
<1> QED
  BY <1>2, <1>3, <1>4, <1>5, <1>6 DEF Common, MostCommon, MoreThanHalf, ManyIO, VeryEqual

\* Nor does another input take a vote away.
LEMMA InputJoins ==
    ASSUME NEW n \in Nat, NEW more \in Nat, n <= more, NEW outs \in Seq(Nat), NEW m,
           Common(n, outs, m)
    PROVE  Common(more, outs, m)
BY DEF Common, ManyIO

\* Another input, or another output of the common value, does not hide a CoinJoin.
THEOREM JoiningCorrect == Spec => JoiningKeepsVerdict
<1>1. ASSUME StateOK, [Next]_vars
      PROVE  [(\A v \in Verdicts : v.is_coinjoin)
              /\ (outputs' # outputs =>
                     \E m \in MostCommon(outputs) : Count(outputs', m) > Count(outputs, m))
              => \A v \in Verdicts' : v.is_coinjoin]_vars
  <2> SUFFICES ASSUME Next,
                      \A v \in Verdicts : v.is_coinjoin,
                      outputs' # outputs =>
                          \E m \in MostCommon(outputs) : Count(outputs', m) > Count(outputs, m)
               PROVE  \A v \in Verdicts' : v.is_coinjoin
    BY <1>1
  <2>0. StateOK'
    BY <1>1, NextState
  <2>1. /\ sums.inputs \in Nat /\ sums'.inputs \in Nat
        /\ outputs \in Seq(Nat) /\ outputs' \in Seq(Nat)
    BY <1>1, <2>0 DEF StateOK, SumsType
  <2>2. Verdicts' = DetectCoinjoin(sums'.inputs, outputs')
    BY DEF Verdicts, DetectCoinjoin, Verdict, MostCommon, Range, MoreThanHalf, ManyIO, VeryEqual,
           Count, Coinjoin, Percent, IsRound, WhirlpoolPools, NotCoinjoin
  <2>3. MostCommon(outputs) # {} /\ \A m \in MostCommon(outputs) : Common(sums.inputs, outputs, m)
    BY <2>1, CommonNeeded DEF Verdicts
  <2>4. \E m : Common(sums'.inputs, outputs', m)
    <3>1. ASSUME NEW k \in InputKind, NEW n \in Batches, AddInputs(k, n)
          PROVE  \E m : Common(sums'.inputs, outputs', m)
      <4>1. sums \in SumsType /\ n \in Nat
        BY <1>1, ScoringAssumption DEF StateOK
      <4>2. sums'.inputs = sums.inputs + n /\ outputs' = outputs
        BY <3>1, <4>1 DEF AddInputs, SumsType
      <4> QED
        BY <2>1, <2>3, <4>1, <4>2, InputJoins
    <3>2. ASSUME NEW x \in Amount, NEW tag \in {NoTag, Percent(50), Unit}, AddOutput(x, tag)
          PROVE  \E m : Common(sums'.inputs, outputs', m)
      <4>1. /\ Len(outputs') = Len(outputs) + 1
            /\ \A w : Count(outputs', w) = Count(outputs, w) + IF w = x THEN 1 ELSE 0
        BY <2>1, <3>2, WithOutputCounts, ScoringAssumption DEF AddOutput
      <4>2. outputs' # outputs
        BY <2>1, <4>1
      <4>3. PICK m \in MostCommon(outputs) : Count(outputs', m) > Count(outputs, m)
        BY <4>2
      <4>4. Count(outputs', m) = Count(outputs, m) + 1
        <5>1. Count(outputs, m) \in Nat
          BY <2>1, CountType
        <5> QED
          BY <4>1, <4>3, <5>1
      <4>5. sums'.inputs = sums.inputs
        <5>1. sums \in SumsType
          BY <1>1 DEF StateOK
        <5> QED
          BY <3>2, <5>1 DEF AddOutput, SumsType
      <4> QED
        BY <2>1, <2>3, <4>1, <4>3, <4>4, <4>5, OutputJoins
    <3>3. ASSUME NEW k \in InputKind, NEW n \in Batches, Resolve(k, n)
          PROVE  \E m : Common(sums'.inputs, outputs', m)
      <4>1. sums \in SumsType
        BY <1>1 DEF StateOK
      <4>2. sums'.inputs = sums.inputs /\ outputs' = outputs
        BY <3>3, <4>1 DEF Resolve, SumsType
      <4> QED
        BY <2>3, <4>2
    <3> QED
      BY <3>1, <3>2, <3>3 DEF Next
  <2> QED
    BY <2>1, <2>2, <2>4, CommonEnough
<1> QED
  BY <1>1, InitState, NextState, PTL DEF Spec, JoiningKeepsVerdict
=============================================================================
