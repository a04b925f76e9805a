------------------------------- MODULE Scoring -------------------------------
(***************************************************************************)
(* From a transaction to its score: what the handler of TxAdded adds up    *)
(* about inputs and outputs (core/pipeline.rs), the CoinJoin verdict, the  *)
(* rules (signals/rules.rs), the composite score (signals/score.rs) and    *)
(* the alert level (core/mod.rs).                                          *)
(*                                                                         *)
(* The transaction grows by inputs and outputs, and its inputs become      *)
(* known, in any order, so that a property can compare what is scored with *)
(* what would be scored if more were known.  The surroundings (which       *)
(* inputs and outputs there are) are outside the repository.               *)
(*                                                                         *)
(* Numbers: a value of a rule is one of 0..Unit, rounded down; the vsize   *)
(* is one more than inputs and outputs; an age is in days, 0 for an output *)
(* that is in no block or in a block of the last day.  The clock is not    *)
(* behind the time of a block by a day.                                    *)
(***************************************************************************)
EXTENDS CoinJoin

CONSTANTS
    FeeHalf,         \* the fee per vsize at which the fee rule is at one half
    Amount,          \* the values of the outputs
    InputKind,       \* the inputs: records of value, age, tag and rbf
    NoTag,           \* no tag under the address
    Override,        \* the configurations of [signals.weights]
    Batches,         \* how many inputs of a kind come at once
    InputCounts,     \* bound: the numbers of inputs that occur
    MaxPlain,        \* bound on them when there are more outputs than MaxFew
    MaxOutputs,      \* bound on the outputs
    MaxFew           \* bound on the outputs when an input is resolved

TagConfidence == Confidence \cup {NoTag}

Rules == {"tx_value", "utxo_age", "cdd", "input_count", "fee_rate", "rbf_flag",
          "exchange_flow", "coinjoin"}

ASSUME ScoringAssumption ==
    /\ FeeHalf \in Nat \ {0}
    /\ NoTag \notin Confidence
    /\ Amount \subseteq Nat
    /\ InputKind \subseteq [value : Nat, age : Nat, tag : TagConfidence, rbf : BOOLEAN]
    /\ \A o \in Override : DOMAIN o \subseteq Rules /\ \A r \in DOMAIN o : o[r] \in Int
    /\ Batches \subseteq Nat \ {0}

VARIABLES
    override,     \* weight_overrides of the engine
    unresolved,   \* input kind -> inputs of it that are not resolved
    sums,         \* what is added up over inputs and outputs
    outputs       \* the values of the outputs

vars == <<override, unresolved, sums, outputs>>

Init ==
    /\ override \in Override
    /\ unresolved = [k \in InputKind |-> 0]
    /\ sums = [ inputs |-> 0, value |-> 0, cdd |-> 0, age |-> 0, out |-> 0,
                rbf |-> FALSE, to |-> NoTag, from |-> NoTag ]
    /\ outputs = <<>>

-----------------------------------------------------------------------------
(* What is added up. *)

Coin == 1000 * MilliCoin

\* The fold with f64::max over the confidences of the matches.
Higher(a, b) == IF a = NoTag THEN b ELSE IF b = NoTag THEN a ELSE IF a > b THEN a ELSE b

\* Inputs of a kind that are not resolved: only their number and their sequence
\* number count.
AddInputs(k, n) ==
    /\ sums.inputs + n \in InputCounts
    /\ Len(outputs) > MaxFew => sums.inputs + n <= MaxPlain
    /\ unresolved' = [unresolved EXCEPT ![k] = @ + n]
    /\ sums' = [sums EXCEPT !.inputs = @ + n, !.rbf = @ \/ k.rbf]
    /\ UNCHANGED <<override, outputs>>

\* Outputs are kept in order of value: the code only counts them.
WithOutput(v) ==
    LET p == Cardinality({i \in DOMAIN outputs : outputs[i] <= v})
    IN  SubSeq(outputs, 1, p) \o <<v>> \o SubSeq(outputs, p + 1, Len(outputs))

AddOutput(v, tag) ==
    /\ Len(outputs) < MaxOutputs
    /\ Len(outputs) < MaxFew \/ (sums.inputs <= MaxPlain /\ sums.value = 0)
    /\ outputs' = WithOutput(v)
    /\ sums' = [sums EXCEPT !.out = @ + v, !.to = Higher(@, tag)]
    /\ UNCHANGED <<override, unresolved>>

Older(a, b) == IF a > b THEN a ELSE b

\* n inputs of kind k are resolved, each adding its coin days.
Resolve(k, n) ==
    /\ Len(outputs) <= MaxFew
    /\ n <= unresolved[k]
    /\ unresolved' = [unresolved EXCEPT ![k] = @ - n]
    /\ sums' = [sums EXCEPT !.value = @ + n * k.value,
                            !.cdd   = @ + n * ((k.value * k.age) \div Coin),
                            !.age   = Older(@, k.age),
                            !.from  = Higher(@, k.tag)]
    /\ UNCHANGED <<override, outputs>>

Next ==
    \/ \E k \in InputKind, n \in Batches : AddInputs(k, n)
    \/ \E v \in Amount, tag \in {NoTag, Percent(50), Unit} : AddOutput(v, tag)
    \/ \E k \in InputKind, n \in Batches : Resolve(k, n)

Spec == Init /\ [][Next]_vars

-----------------------------------------------------------------------------
(* The rules. *)

\* 1 - 1 / (1 + x / half)
Sigmoid(x, half) == (Unit * x) \div (half + x)

\* Variant: the subtraction wraps around (here at 2^16).
WrappingFee(in, out) == IF in > 0 THEN (in - out) % 65536 ELSE 0

\* Without any known input there is no fee; saturating_sub.
Fee(in, out) == IF in > out THEN in - out ELSE 0

VSize == 1 + sums.inputs + Len(outputs)

RbfValue == IF sums.rbf THEN Unit \div 2 ELSE 0

CoinJoinValue(verdict) == IF verdict.is_coinjoin THEN verdict.confidence ELSE 0

ExchangeFlow ==
    IF sums.to # NoTag THEN sums.to
    ELSE IF sums.from # NoTag THEN -(sums.from \div 2) ELSE 0

DefaultWeight(rule) ==
    CASE rule = "tx_value"      -> 6
      [] rule = "utxo_age"      -> 8
      [] rule = "cdd"           -> 9
      [] rule = "input_count"   -> 4
      [] rule = "fee_rate"      -> 3
      [] rule = "rbf_flag"      -> 2
      [] rule = "exchange_flow" -> 10
      [] rule = "coinjoin"      -> -6

Weight(rule) == IF rule \in DOMAIN override THEN override[rule] ELSE DefaultWeight(rule)

Abs(n) == IF n < 0 THEN -n ELSE n

Total(verdict) ==
      Weight("tx_value") * Sigmoid(sums.value, 10 * Coin)
    + Weight("utxo_age") * Sigmoid(sums.age, 365)
    + Weight("cdd") * Sigmoid(sums.cdd, 1000)
    + Weight("input_count") * Sigmoid(sums.inputs, 20)
    + Weight("fee_rate") * Sigmoid(Fee(sums.value, sums.out), FeeHalf * VSize)
    + Weight("rbf_flag") * RbfValue
    + Weight("exchange_flow") * ExchangeFlow
    + Weight("coinjoin") * CoinJoinValue(verdict)

\* Variant: the penalty counts against what is possible.
SumOfWeights ==
      Weight("tx_value") + Weight("utxo_age") + Weight("cdd") + Weight("input_count")
    + Weight("fee_rate") + Weight("rbf_flag") + Weight("exchange_flow") + Weight("coinjoin")

MaxPossible ==
      Abs(Weight("tx_value")) + Abs(Weight("utxo_age")) + Abs(Weight("cdd"))
    + Abs(Weight("input_count")) + Abs(Weight("fee_rate")) + Abs(Weight("rbf_flag"))
    + Abs(Weight("exchange_flow")) + Abs(Weight("coinjoin"))

\* Variant: only the upper end is clamped.
ClampedAbove(n) == IF n > 100 * Unit THEN 100 * Unit ELSE n

Clamped(n) == IF n < 0 THEN 0 ELSE IF n > 100 * Unit THEN 100 * Unit ELSE n

\* compute_composite, of 100 * Unit.
Composite(verdict) ==
    IF MaxPossible = 0 THEN 0 ELSE Clamped((100 * Total(verdict)) \div MaxPossible)

\* The verdicts the handler can come to, and the level of a score.
Verdicts == DetectCoinjoin(sums.inputs, outputs)

AlertLevel(score) ==
    IF score >= 80 * Unit THEN "Critical"
    ELSE IF score >= 60 * Unit THEN "High"
    ELSE IF score >= 40 * Unit THEN "Medium" ELSE "Low"

-----------------------------------------------------------------------------
(* Properties. *)

(* Every variable keeps its type, and a score is one of 0 to 100.          *)
TypeOK ==
    /\ override \in Override
    /\ unresolved \in [InputKind -> Nat]
    /\ sums \in [ inputs : Nat, value : Nat, cdd : Nat, age : Nat, out : Nat,
                  rbf : BOOLEAN, to : TagConfidence, from : TagConfidence ]
    /\ outputs \in Seq(Nat)
    /\ \A v \in Verdicts : Composite(v) \in 0..(100 * Unit)

(* A transaction gets one verdict, in whatever order the HashMap of output *)
(* values is iterated: a tie between values never matters.                 *)
VerdictIsUnique == \A v, w \in Verdicts : v = w

(* One more participant does not hide a CoinJoin: with another input, or   *)
(* another output of the common value, the verdict stays.                  *)
JoiningKeepsVerdict ==
    [][(\A v \in Verdicts : v.is_coinjoin)
       /\ (outputs' # outputs =>
              \E m \in MostCommon(outputs) : Count(outputs', m) > Count(outputs, m))
       => \A v \in Verdicts' : v.is_coinjoin]_vars

(* ARCHITECTURE.md:68: unresolved inputs contribute 0.  So when one more   *)
(* input is resolved, the score does not fall, unless the input is found   *)
(* to come from an exchange; with any weights that are not negative for    *)
(* the rules that look at inputs.                                          *)
KnowingMoreRaises ==
    [][sums'.inputs = sums.inputs /\ outputs' = outputs
       /\ (sums'.from = sums.from \/ sums.to # NoTag)
       /\ (\A r \in {"tx_value", "utxo_age", "cdd", "fee_rate"} : Weight(r) >= 0)
       => \A v \in Verdicts, w \in Verdicts' :
              v = w => Composite(v) <= Composite(w)']_vars

(* docs/SIGNALS.md:37: Critical is for what is likely market-moving.  With *)
(* the default weights a transaction is Critical only when it pays to a    *)
(* known exchange and is no CoinJoin, however large, old and urgent it is. *)
CriticalIsDeposit ==
    DOMAIN override = {} =>
        \A v \in Verdicts :
            AlertLevel(Composite(v)) = "Critical" => sums.to # NoTag /\ ~v.is_coinjoin
=============================================================================
