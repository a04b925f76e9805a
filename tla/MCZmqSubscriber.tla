--------------------------- MODULE MCZmqSubscriber ---------------------------
(* Instances of ZmqSubscriber for TLC. *)
EXTENDS ZmqSubscriber

CONSTANTS t1, b1

OneTx == {t1}
OneBlock == {b1}

\* Selected and Images, defined by ranks, agree with the library's SelectSeq.
ASSUME SelectionAgrees ==
    \A s \in BoundedSeq({1, 2, 3}, 5), P \in SUBSET {1, 2, 3} :
        LET known == SelectSeq(s, LAMBDA x : x \in P)
        IN  /\ Selected(s, P) = known
            /\ Images(s, [x \in P |-> 2 * x]) = [k \in DOMAIN known |-> 2 * known[k]]
=============================================================================
