---------------------------- MODULE MempoolState ----------------------------
(***************************************************************************)
(* The in-memory mempool tracker, MempoolState of core/mempool.rs, as a    *)
(* state machine: one action per method that changes it, and a clock.      *)
(*                                                                         *)
(* Next is the whole public interface.  The pipeline calls add_tx,         *)
(* remove_tx and prune_old; record_replacement and confirm_txids are       *)
(* marked dead_code in the source.  confirm_all_pending changes nothing    *)
(* and has no action.                                                      *)
(***************************************************************************)
EXTENDS MempoolOps

CONSTANTS
    MaxAge,        \* the argument of prune_old (PRUNE_MAX_AGE in the pipeline)
    MaxTime,       \* bound on the clock
    MaxRemovals,   \* bound on the removals counted
    MaxUncounted   \* bound on the departures that are not counted

ASSUME MaxAgeAssumption == MaxAge \in Nat

ASSUME BoundsAssumption ==
    MaxTime \in Nat /\ MaxRemovals \in Nat /\ MaxUncounted \in Nat

VARIABLES
    entries,            \* txid -> MempoolEntry
    replacementChain,   \* replaced txid -> replacing txid
    removalStats,       \* counters by reason
    now,                \* Utc::now()
    uncounted           \* history: departures by the methods that keep no count

vars == <<entries, replacementChain, removalStats, now, uncounted>>

Init ==
    /\ entries = [t \in Txid |-> NoEntry]
    /\ replacementChain = [t \in Txid |-> NoTxid]
    /\ removalStats = NoRemovals
    /\ now = 0
    /\ uncounted = 0

AddTx(t, rate) ==
    /\ entries' = Inserted(entries, t, rate, now)
    /\ UNCHANGED <<replacementChain, removalStats, now, uncounted>>

RemoveTx(t, reason) ==
    /\ Total(removalStats) < MaxRemovals
    /\ entries' = Removed(entries, t, reason, now)
    /\ removalStats' = StatsAfterRemoval(removalStats, entries, t, reason)
    /\ UNCHANGED <<replacementChain, now, uncounted>>

PruneOld ==
    /\ entries' = Pruned(entries, MaxAge, now)
    /\ replacementChain' = ChainAfterPrune(replacementChain, entries, MaxAge, now)
    /\ UNCHANGED <<removalStats, now, uncounted>>

RecordReplacement(old, new) ==
    /\ uncounted < MaxUncounted
    /\ replacementChain' = [replacementChain EXCEPT ![old] = new]
    /\ entries' = ReplacedBy(entries, old, new, now)
    /\ uncounted' = IF old \in PendingTxids(entries) THEN uncounted + 1 ELSE uncounted
    /\ UNCHANGED <<removalStats, now>>

ConfirmTxids(txids) ==
    /\ uncounted < MaxUncounted
    /\ entries' = ConfirmedIn(entries, txids, now)
    /\ uncounted' = uncounted + Cardinality(txids \cap PendingTxids(entries))
    /\ UNCHANGED <<replacementChain, removalStats, now>>

Tick ==
    /\ now < MaxTime
    /\ now' = now + 1
    /\ UNCHANGED <<entries, replacementChain, removalStats, uncounted>>

Next ==
    \/ \E t \in Txid, rate \in FeeRate : AddTx(t, rate)
    \/ \E t \in Txid, reason \in RemovalReason : RemoveTx(t, reason)
    \/ PruneOld
    \/ Tick
    \/ \E old, new \in Txid : RecordReplacement(old, new)
    \/ \E txids \in SUBSET Txid : ConfirmTxids(txids)

Spec == Init /\ [][Next]_vars

-----------------------------------------------------------------------------
(* Every variable keeps its type: each entry is a well-formed record and   *)
(* the counters are natural numbers (core/mempool.rs, the struct).         *)
TypeOK ==
    /\ entries \in [Txid -> MempoolEntry \cup {NoEntry}]
    /\ replacementChain \in [Txid -> Txid \cup {NoTxid}]
    /\ removalStats \in RemovalStats
    /\ now \in Nat
    /\ uncounted \in Nat

(* An entry that names its replacement is not pending, and the chain names *)
(* the same replacement: the two places record_replacement writes never    *)
(* disagree, through later removals, re-announcements and pruning.         *)
ReplacementLinks ==
    \A t \in Tracked(entries) :
        entries[t].replacedBy # NoTxid =>
            /\ entries[t].state # "Pending"
            /\ replacementChain[t] = entries[t].replacedBy

(* The histogram sent to the UI counts every pending transaction exactly   *)
(* once: its buckets add up to pending_count, with no rate (zero, a        *)
(* boundary, a huge one) falling between or into two buckets.              *)
HistogramComplete ==
    LET h == FeeHistogram(entries)
    IN  h[1] + h[2] + h[3] + h[4] + h[5] + h[6] = PendingCount(entries)

(* Every tracked transaction that is out of Pending was counted in the     *)
(* removal statistics shown by the UI, or was taken out by one of the two  *)
(* methods that keep no count: the counters fall behind by no other way,   *)
(* whatever is re-announced, removed twice, or removed before it was seen. *)
(* The calls the pipeline makes leave uncounted at 0.                      *)
NonPendingCounted ==
    Cardinality(Departed(entries)) <= Total(removalStats) + uncounted

(* A transaction leaves the map only when it has been out of Pending for   *)
(* longer than MaxAge, and its replacement link goes with it: prune_old    *)
(* never drops a pending transaction and leaves no link of a dropped one.  *)
PruneTakesOldWithLinks ==
    [][\A t \in Txid : entries[t] # NoEntry /\ entries'[t] = NoEntry =>
            /\ entries[t].state # "Pending"
            /\ entries[t].changedAt + MaxAge < now
            /\ replacementChain'[t] = NoTxid]_vars

-----------------------------------------------------------------------------
(* The tracker implements the abstract lifecycle. *)

Status ==
    [t \in Txid |->
        IF t \notin Tracked(entries) THEN "unknown"
        ELSE IF entries[t].state = "Pending" THEN "pending"
        ELSE "departed"]

Lifecycle == INSTANCE TxLifecycle WITH status <- Status

(* Through every method, dormant ones included, a transaction follows the  *)
(* lifecycle of TxLifecycle: it departs only from pending and is forgotten *)
(* only once departed.                                                     *)
LifecycleSpec == Lifecycle!Spec
=============================================================================
