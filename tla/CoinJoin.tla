------------------------------- MODULE CoinJoin -------------------------------
(***************************************************************************)
(* detect_coinjoin (signals/coinjoin.rs): a verdict from the number of     *)
(* inputs and the values of the outputs.                                   *)
(*                                                                         *)
(* The code counts values in a HashMap and takes the last of the most      *)
(* common ones in the order of its iteration, which differs from process   *)
(* to process.  So the verdict is one of a set.                            *)
(***************************************************************************)
EXTENDS Integers, FiniteSets, Sequences, Functions

CONSTANTS
    MilliCoin,       \* the value of 0.001 bitcoin
    Hundredth        \* confidence 0.01

ASSUME CoinJoinAssumption == MilliCoin \in Nat \ {0} /\ Hundredth \in Nat \ {0}

Unit == 100 * Hundredth

Percent(n) == n * Hundredth

Confidence == 0..Unit

\* WHIRLPOOL_POOLS: 0.001, 0.01, 0.05 and 0.5 bitcoin.
WhirlpoolPools == {n * MilliCoin : n \in {1, 10, 50, 500}}

IsRound(v) == v > 0 /\ v % MilliCoin = 0

NotCoinjoin == [is_coinjoin |-> FALSE, confidence |-> 0, pattern |-> "Unknown"]

Coinjoin(percent, pattern) ==
    [is_coinjoin |-> TRUE, confidence |-> Percent(percent), pattern |-> pattern]

\* value_counts
Count(outputs, v) == Cardinality({i \in DOMAIN outputs : outputs[i] = v})

\* The values the iteration can end with.
MostCommon(outputs) ==
    {v \in Range(outputs) :
        /\ Count(outputs, v) >= 3
        /\ \A w \in Range(outputs) : Count(outputs, w) <= Count(outputs, v)}

\* Variant: half of the outputs is enough.
AtLeastHalf(outputs, v) == 2 * Count(outputs, v) >= Len(outputs)

MoreThanHalf(outputs, v) == 2 * Count(outputs, v) > Len(outputs)

ManyIO(inputCount, outputs) == inputCount >= 5 /\ Len(outputs) >= 5

\* Variant: exactly three equal outputs.
ExactlyThree(outputs, v) == 10 * Count(outputs, v) > 7 * Len(outputs) /\ Count(outputs, v) = 3

\* The weaker signal: more than 70 % of the outputs are equal.
VeryEqual(outputs, v) == 10 * Count(outputs, v) > 7 * Len(outputs) /\ Count(outputs, v) >= 3

\* The verdict when v is the best value.
Verdict(inputCount, outputs, v) ==
    LET many == ManyIO(inputCount, outputs)
        n == Count(outputs, v)
    IN  IF ~MoreThanHalf(outputs, v) THEN NotCoinjoin
        ELSE IF n = 5 /\ v \in WhirlpoolPools /\ many THEN Coinjoin(95, "WhirlpoolPool")
        ELSE IF n >= 5 /\ many
             THEN Coinjoin(IF IsRound(v) THEN 85 ELSE 75,
                           IF IsRound(v) /\ n >= 10 THEN "WasabiLike" ELSE "EqualOutput")
        ELSE IF VeryEqual(outputs, v) THEN Coinjoin(50, "EqualOutput")
        ELSE NotCoinjoin

DetectCoinjoin(inputCount, outputs) ==
    IF inputCount < 3 \/ Len(outputs) < 3 \/ MostCommon(outputs) = {}
    THEN {NotCoinjoin}
    ELSE {Verdict(inputCount, outputs, v) : v \in MostCommon(outputs)}
=============================================================================
