----------------------------- MODULE MempoolOps -----------------------------
(***************************************************************************)
(* The data of the mempool tracker (core/mempool.rs) and what each of its  *)
(* methods computes, as operators without state.  MempoolState turns them  *)
(* into a state machine; Pipeline applies the same operators inside its    *)
(* event handlers.                                                         *)
(*                                                                         *)
(* The map `entries` is a total function on Txid whose value is NoEntry    *)
(* where the HashMap has no key.  Of the analysed transaction only the fee *)
(* rate is kept: fees and virtual sizes are summed over the same set of    *)
(* pending entries.                                                        *)
(*                                                                         *)
(* A definition introduced as a "variant" is a plausible mistake in the    *)
(* definition that follows it.  No specification uses it: the project      *)
(* substitutes it to see that a property notices.                          *)
(***************************************************************************)
EXTENDS Naturals, FiniteSets

CONSTANTS
    Txid,          \* the txids, as the hex strings that key the maps
    NoTxid,        \* Option::None of a txid
    NoEntry,       \* the map has no entry under a txid
    FeeRate,       \* the fee rates that occur, sat/vB
    RateCeiling    \* f64::MAX, the open end of the last fee bucket

ASSUME TxidAssumption == IsFiniteSet(Txid) /\ NoTxid \notin Txid

ASSUME FeeRateAssumption ==
    /\ RateCeiling \in Nat
    /\ RateCeiling > 100
    /\ \A r \in FeeRate : r \in Nat /\ r < RateCeiling

TxState == {"Pending", "Confirmed", "Replaced", "Evicted"}

RemovalReason == {"Confirmed", "Replaced", "Evicted", "Conflict", "Unknown"}

\* state_changed_at is a wall-clock reading, in units of the model's clock.
MempoolEntry ==
    [ feeRate      : FeeRate,
      state        : TxState,
      changedAt    : Nat,
      replacedBy   : Txid \cup {NoTxid} ]

ASSUME NoEntryAssumption == NoEntry \notin MempoolEntry

RemovalStats == [ confirmed : Nat, replaced : Nat, evicted : Nat, unknown : Nat ]

NoRemovals == [confirmed |-> 0, replaced |-> 0, evicted |-> 0, unknown |-> 0]

Total(stats) == stats.confirmed + stats.replaced + stats.evicted + stats.unknown

-----------------------------------------------------------------------------
(* The keys of the map, and their split by state. *)

Tracked(es) == {t \in Txid : es[t] # NoEntry}

PendingTxids(es) == {t \in Tracked(es) : es[t].state = "Pending"}

Departed(es) == {t \in Tracked(es) : es[t].state # "Pending"}

PendingCount(es) == Cardinality(PendingTxids(es))

-----------------------------------------------------------------------------
(* add_tx: insert, or overwrite whatever the map held. *)

Fresh(rate, time) ==
    [ feeRate |-> rate, state |-> "Pending", changedAt |-> time, replacedBy |-> NoTxid ]

Inserted(es, t, rate, time) == [es EXCEPT ![t] = Fresh(rate, time)]

-----------------------------------------------------------------------------
(* remove_tx: the state is rewritten whatever it was; the removal is       *)
(* counted when the entry was Pending, or when there is no entry.          *)

\* Variant: the reason itself becomes the state.
NewStateVerbatim(reason) == reason

NewState(reason) ==
    CASE reason = "Confirmed" -> "Confirmed"
      [] reason = "Replaced"  -> "Replaced"
      [] OTHER                -> "Evicted"

Removed(es, t, reason, time) ==
    [es EXCEPT ![t] = IF @ = NoEntry THEN NoEntry
                      ELSE [@ EXCEPT !.state = NewState(reason), !.changedAt = time]]

\* Variant: the state is tested after it has been overwritten.
CountsTooLate(es, t) == t \notin Tracked(es)

Counts(es, t) == t \in Tracked(es) => es[t].state = "Pending"

Tallied(stats, reason) ==
    CASE reason = "Confirmed" -> [stats EXCEPT !.confirmed = @ + 1]
      [] reason = "Replaced"  -> [stats EXCEPT !.replaced = @ + 1]
      [] reason = "Evicted"   -> [stats EXCEPT !.evicted = @ + 1]
      [] OTHER                -> [stats EXCEPT !.unknown = @ + 1]

StatsAfterRemoval(stats, es, t, reason) ==
    IF Counts(es, t) THEN Tallied(stats, reason) ELSE stats

-----------------------------------------------------------------------------
(* record_replacement and confirm_txids: two methods marked dead_code,     *)
(* waiting for replacement information and block contents.                 *)

\* Variant: the replacement is noted, the state is not changed.
ReplacedByKeepsState(es, old, new, time) ==
    [es EXCEPT ![old] = IF @ = NoEntry THEN NoEntry
                        ELSE [@ EXCEPT !.replacedBy = new, !.changedAt = time]]

ReplacedBy(es, old, new, time) ==
    [es EXCEPT ![old] = IF @ = NoEntry THEN NoEntry
                        ELSE [@ EXCEPT !.replacedBy = new,
                                       !.state = "Replaced",
                                       !.changedAt = time]]

ConfirmedIn(es, txids, time) ==
    [t \in Txid |-> IF t \in txids \cap PendingTxids(es)
                    THEN [es[t] EXCEPT !.state = "Confirmed", !.changedAt = time]
                    ELSE es[t]]

-----------------------------------------------------------------------------
(* prune_old: entries out of Pending for longer than maxAge.  The code     *)
(* compares state_changed_at < now - max_age; the sum avoids a negative.   *)

\* Variant: the state is not looked at.
ExpiredAnyState(es, maxAge, time) ==
    {t \in Tracked(es) : es[t].changedAt + maxAge < time}

Expired(es, maxAge, time) ==
    {t \in Departed(es) : es[t].changedAt + maxAge < time}

Pruned(es, maxAge, time) ==
    [t \in Txid |-> IF t \in Expired(es, maxAge, time) THEN NoEntry ELSE es[t]]

\* Variant: the chain is left alone.
ChainKept(chain, es, maxAge, time) == chain

ChainAfterPrune(chain, es, maxAge, time) ==
    [t \in Txid |-> IF t \in Expired(es, maxAge, time) THEN NoTxid ELSE chain[t]]

-----------------------------------------------------------------------------
(* fee_histogram: each pending entry is counted in the first bucket whose  *)
(* half-open interval holds its rate, and in none if no interval does.     *)

FeeBuckets ==
    << <<0, 5>>, <<5, 10>>, <<10, 20>>, <<20, 50>>, <<50, 100>>, <<100, RateCeiling>> >>

InBucket(rate, i) == FeeBuckets[i][1] <= rate /\ rate < FeeBuckets[i][2]

FeeHistogram(es) ==
    [i \in 1..6 |-> Cardinality({t \in PendingTxids(es) :
                        /\ InBucket(es[t].feeRate, i)
                        /\ \A j \in 1..(i - 1) : ~InBucket(es[t].feeRate, j)})]
=============================================================================
