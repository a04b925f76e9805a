---------------------------- MODULE MCEnrichment ----------------------------
(* Instances of Enrichment for TLC. *)
EXTENDS Enrichment, TLC

CONSTANTS a1, a2, a3, f1, f2, binance, kraken

TwoFundings == {f1, f2}
Outpoints == TwoFundings \X {0, 1}
Values == (<<f1, 0>> :> 1 @@ <<f1, 1>> :> 2 @@ <<f2, 0>> :> 4 @@ <<f2, 1>> :> 8)
Addresses == {a1, a2, a3}

\* Two outputs have the same address: a tag can go from a1 to a2 and on to a3.
AddressesOfAll ==
    (<<f1, 0>> :> a1 @@ <<f1, 1>> :> a2 @@ <<f2, 0>> :> a2 @@ <<f2, 1>> :> a3)

InputLists ==
    { << <<f1, 0>>, <<f1, 1>> >>, << <<f2, 0>>, <<f2, 1>> >>, << <<f1, 0>>, <<f2, 0>> >>,
      <<NullOutpoint>> }

Entities == {binance, kraken}

CsvTag(e, c) == [entity |-> e, confidence |-> c, source |-> "csv"]

\* Two editions of the file: in the second, one tag is weaker than what
\* clustering made of it, and the strong tag has moved to another exchange.
Editions ==
    { (a1 :> CsvTag(binance, 900) @@ a2 :> CsvTag(kraken, 500) @@ a3 :> NoTag),
      (a1 :> CsvTag(kraken, 900) @@ a2 :> NoTag @@ a3 :> CsvTag(binance, 600)) }
OneEdition ==
    { (a1 :> CsvTag(binance, 900) @@ a2 :> NoTag @@ a3 :> NoTag) }
=============================================================================
