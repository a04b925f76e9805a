------------------------------ MODULE Selection ------------------------------
(***************************************************************************)
(* The part of a sequence that is in a set, in the order of the sequence:  *)
(* SelectSeq for a set instead of a test, and said by ranks instead of     *)
(* recursively, so that it can be proved about.                            *)
(***************************************************************************)
EXTENDS Naturals, FiniteSets, Sequences

\* How many elements of s are in P.
Hits(s, P) == Cardinality({i \in DOMAIN s : s[i] \in P})

\* How many of the first i.
Rank(s, P, i) == Cardinality({j \in DOMAIN s : j <= i /\ s[j] \in P})

Selected(s, P) ==
    [k \in 1..Hits(s, P) |-> s[CHOOSE i \in DOMAIN s : s[i] \in P /\ Rank(s, P, i) = k]]

\* What f makes of the elements of s it is defined for.
Images(s, f) ==
    LET known == Selected(s, DOMAIN f)
    IN  [k \in DOMAIN known |-> f[known[k]]]
=============================================================================
