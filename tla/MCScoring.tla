------------------------------ MODULE MCScoring ------------------------------
(* An instance of Scoring for TLC. *)
EXTENDS Scoring, TLC

\* 0.001 bitcoin is 2: a pool's value, and one that is not round.
Amounts == {2, 3}

Input(value, age, tag, rbf) == [value |-> value, age |-> age, tag |-> tag, rbf |-> rbf]

\* Dust, old coins of 50 bitcoin, coins of an exchange.
InputKinds ==
    { Input(1, 0, NoTag, FALSE), Input(100000, 6200, NoTag, TRUE), Input(4, 1, Unit, FALSE) }

Defaults == [r \in {} |-> 0]
NoWeights == [r \in Rules |-> 0]
Exchanges == ("coinjoin" :> 0) @@ ("exchange_flow" :> 20)
Configs == {Defaults, NoWeights, Exchanges}

OneOrForty == {1, 40}
=============================================================================
