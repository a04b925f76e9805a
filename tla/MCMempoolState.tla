--------------------------- MODULE MCMempoolState ---------------------------
(* Instances of MempoolState for TLC. *)
EXTENDS MempoolState

CONSTANTS t1, t2

TwoTxids == {t1, t2}

\* Zero is the rate of a transaction none of whose inputs was resolved, 100 the
\* lower edge of the open bucket.
EdgeRates == {0, 100}
=============================================================================
