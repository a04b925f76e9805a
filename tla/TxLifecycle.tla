----------------------------- MODULE TxLifecycle -----------------------------
(***************************************************************************)
(* What the mempool tracker promises about a transaction, whatever map it  *)
(* keeps: a transaction becomes pending, leaves by departing (confirmed,   *)
(* replaced or evicted), and only a departed one is forgotten.  A pending  *)
(* transaction is never lost without a departure, and nothing departs that *)
(* was not pending.                                                        *)
(***************************************************************************)
CONSTANT Txid

VARIABLE status       \* the lifecycle position of every txid

Init == status = [t \in Txid |-> "unknown"]

\* A transaction is announced; one that had departed starts over.
Enter(t) == status' = [status EXCEPT ![t] = "pending"]

\* Some pending transactions leave the mempool.
Depart(ts) ==
    /\ ts \subseteq {t \in Txid : status[t] = "pending"}
    /\ status' = [t \in Txid |-> IF t \in ts THEN "departed" ELSE status[t]]

\* Some departed transactions are dropped from the tracker.
Forget(ts) ==
    /\ ts \subseteq {t \in Txid : status[t] = "departed"}
    /\ status' = [t \in Txid |-> IF t \in ts THEN "unknown" ELSE status[t]]

Next ==
    \/ \E t \in Txid : Enter(t)
    \/ \E ts \in SUBSET Txid : Depart(ts) \/ Forget(ts)

Spec == Init /\ [][Next]_status
=============================================================================
