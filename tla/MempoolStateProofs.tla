-------------------------- MODULE MempoolStateProofs --------------------------
(***************************************************************************)
(* Theorems about MempoolState, for every set of txids and of fee rates,   *)
(* every MaxAge and every bound.                                           *)
(***************************************************************************)
EXTENDS MempoolState, TLAPS, FiniteSetTheorems

-----------------------------------------------------------------------------
(* What the operators return. *)

\* Each method maps a well-typed map to a well-typed map.
Map == [Txid -> MempoolEntry \cup {NoEntry}]

\* add_tx stores a well-formed entry.
LEMMA InsertedType ==
    ASSUME NEW es \in Map, NEW t \in Txid, NEW r \in FeeRate, NEW time \in Nat
    PROVE  Inserted(es, t, r, time) \in Map
BY DEF Map, Inserted, Fresh, MempoolEntry, TxState

\* remove_tx keeps the entry well formed.
LEMMA RemovedType ==
    ASSUME NEW es \in Map, NEW t \in Txid, NEW reason \in RemovalReason, NEW time \in Nat
    PROVE  Removed(es, t, reason, time) \in Map
<1>1. NewState(reason) \in TxState
  BY DEF NewState, TxState
<1>2. CASE es[t] = NoEntry
  BY <1>2 DEF Map, Removed
<1>3. CASE es[t] # NoEntry
  <2>1. [es[t] EXCEPT !.state = NewState(reason), !.changedAt = time] \in MempoolEntry
    BY <1>1, <1>3 DEF Map, MempoolEntry
  <2> QED
    BY <2>1, <1>3 DEF Map, Removed
<1> QED
  BY <1>2, <1>3

\* record_replacement keeps the entry well formed.
LEMMA ReplacedByType ==
    ASSUME NEW es \in Map, NEW old \in Txid, NEW new \in Txid, NEW time \in Nat
    PROVE  ReplacedBy(es, old, new, time) \in Map
<1>1. CASE es[old] = NoEntry
  BY <1>1 DEF Map, ReplacedBy
<1>2. CASE es[old] # NoEntry
  <2>1. [es[old] EXCEPT !.replacedBy = new, !.state = "Replaced", !.changedAt = time]
            \in MempoolEntry
    BY <1>2 DEF Map, MempoolEntry, TxState
  <2> QED
    BY <2>1, <1>2 DEF Map, ReplacedBy
<1> QED
  BY <1>1, <1>2

\* confirm_txids keeps every entry well formed.
LEMMA ConfirmedInType ==
    ASSUME NEW es \in Map, NEW txids \in SUBSET Txid, NEW time \in Nat
    PROVE  ConfirmedIn(es, txids, time) \in Map
<1>1. ASSUME NEW t \in txids \cap PendingTxids(es)
      PROVE  [es[t] EXCEPT !.state = "Confirmed", !.changedAt = time] \in MempoolEntry
  BY <1>1 DEF Map, PendingTxids, Tracked, MempoolEntry, TxState
<1> QED
  BY <1>1 DEF Map, ConfirmedIn

\* The counters stay counters, and a counted removal adds one to their total.
LEMMA TalliedType ==
    ASSUME NEW stats \in RemovalStats, NEW reason \in RemovalReason
    PROVE  /\ Tallied(stats, reason) \in RemovalStats
           /\ Total(Tallied(stats, reason)) = Total(stats) + 1
           /\ Total(stats) \in Nat
BY DEF Tallied, RemovalStats, RemovalReason, Total

\* A set of txids is finite, and a part of it has no more elements.
LEMMA TxidSubset ==
    ASSUME NEW S \in SUBSET Txid, NEW T \in SUBSET S
    PROVE  /\ IsFiniteSet(S)
           /\ Cardinality(S) \in Nat
           /\ Cardinality(T) \in Nat
           /\ Cardinality(T) <= Cardinality(S)
<1>1. IsFiniteSet(S)
  BY TxidAssumption, FS_Subset
<1>2. IsFiniteSet(T)
  BY <1>1, FS_Subset
<1> QED
  BY <1>1, <1>2, FS_Subset, FS_CardinalityType

-----------------------------------------------------------------------------
(* Type correctness, for the whole interface. *)

\* The initial state is well typed.
LEMMA InitTypeOK == Init => TypeOK
BY DEF Init, TypeOK, NoRemovals, RemovalStats

\* Every method, dormant ones included, keeps every variable well typed.
LEMMA NextTypeOK == TypeOK /\ [Next]_vars => TypeOK'
<1> SUFFICES ASSUME TypeOK, [Next]_vars
             PROVE  TypeOK'
  OBVIOUS
<1>0. entries \in Map /\ now \in Nat
  BY DEF TypeOK, Map
<1>1. ASSUME NEW t \in Txid, NEW rate \in FeeRate, AddTx(t, rate)
      PROVE  TypeOK'
  BY <1>0, <1>1, InsertedType DEF AddTx, TypeOK, Map
<1>2. ASSUME NEW t \in Txid, NEW reason \in RemovalReason, RemoveTx(t, reason)
      PROVE  TypeOK'
  <2>1. entries' \in Map
    BY <1>0, <1>2, RemovedType DEF RemoveTx
  <2>2. removalStats' \in RemovalStats
    BY <1>2, TalliedType DEF RemoveTx, StatsAfterRemoval, TypeOK
  <2> QED
    BY <1>2, <2>1, <2>2 DEF RemoveTx, TypeOK, Map
<1>3. CASE PruneOld
  BY <1>3 DEF PruneOld, Pruned, ChainAfterPrune, TypeOK
<1>4. CASE Tick
  BY <1>4 DEF Tick, TypeOK
<1>5. ASSUME NEW old \in Txid, NEW new \in Txid, RecordReplacement(old, new)
      PROVE  TypeOK'
  <2>1. entries' \in Map
    BY <1>0, <1>5, ReplacedByType DEF RecordReplacement
  <2>2. uncounted' \in Nat
    BY <1>5 DEF RecordReplacement, TypeOK
  <2>3. /\ replacementChain' \in [Txid -> Txid \cup {NoTxid}]
        /\ removalStats' \in RemovalStats /\ now' \in Nat
    BY <1>5 DEF RecordReplacement, TypeOK
  <2> QED
    BY <2>1, <2>2, <2>3 DEF TypeOK, Map
<1>6. ASSUME NEW txids \in SUBSET Txid, ConfirmTxids(txids)
      PROVE  TypeOK'
  <2>1. entries' \in Map
    BY <1>0, <1>6, ConfirmedInType DEF ConfirmTxids
  <2>2. Cardinality(txids \cap PendingTxids(entries)) \in Nat
    BY TxidSubset
  <2> QED
    BY <1>6, <2>1, <2>2 DEF ConfirmTxids, TypeOK, Map
<1>7. CASE UNCHANGED vars
  BY <1>7 DEF vars, TypeOK
<1> QED
  BY <1>1, <1>2, <1>3, <1>4, <1>5, <1>6, <1>7 DEF Next

(* Every variable keeps its type under the whole interface.                *)
THEOREM TypeCorrect == Spec => []TypeOK
BY InitTypeOK, NextTypeOK, PTL DEF Spec

-----------------------------------------------------------------------------
(* Every departed transaction is counted. *)

\* add_tx takes a transaction out of the departed ones, if it was there.
LEMMA DepartedAfterInsert ==
    ASSUME NEW es \in Map, NEW t \in Txid, NEW r \in FeeRate, NEW time \in Nat
    PROVE  Departed(Inserted(es, t, r, time)) \subseteq Departed(es)
BY DEF Departed, Tracked, Inserted, Fresh, Map

\* remove_tx adds at most the removed transaction to the departed ones, and
\* nothing when the removal is not counted.
LEMMA DepartedAfterRemoval ==
    ASSUME NEW es \in Map, NEW t \in Txid, NEW reason \in RemovalReason, NEW time \in Nat
    PROVE  /\ Departed(Removed(es, t, reason, time)) \subseteq Departed(es) \cup {t}
           /\ ~Counts(es, t) => Departed(Removed(es, t, reason, time)) \subseteq Departed(es)
<1>1. ASSUME NEW u \in Txid, u # t
      PROVE  Removed(es, t, reason, time)[u] = es[u]
  BY <1>1 DEF Removed, Map
<1>2. Departed(Removed(es, t, reason, time)) \subseteq Departed(es) \cup {t}
  BY <1>1 DEF Departed, Tracked
<1>3. ~Counts(es, t) => t \in Departed(es)
  BY DEF Counts, Departed, Tracked
<1> QED
  BY <1>2, <1>3

\* prune_old only drops departed transactions.
LEMMA DepartedAfterPrune ==
    ASSUME NEW es \in Map, NEW time \in Nat
    PROVE  Departed(Pruned(es, MaxAge, time)) \subseteq Departed(es)
BY DEF Departed, Tracked, Pruned

\* record_replacement adds at most the replaced transaction to the departed
\* ones, and nothing when it was not pending.
LEMMA DepartedAfterReplacement ==
    ASSUME NEW es \in Map, NEW old \in Txid, NEW new \in Txid, NEW time \in Nat
    PROVE  /\ Departed(ReplacedBy(es, old, new, time)) \subseteq Departed(es) \cup {old}
           /\ old \notin PendingTxids(es) =>
                Departed(ReplacedBy(es, old, new, time)) \subseteq Departed(es)
<1>1. ASSUME NEW u \in Txid, u # old
      PROVE  ReplacedBy(es, old, new, time)[u] = es[u]
  BY <1>1 DEF ReplacedBy, Map
<1>2. Departed(ReplacedBy(es, old, new, time)) \subseteq Departed(es) \cup {old}
  BY <1>1 DEF Departed, Tracked
<1>3. CASE old \in Departed(es)
  BY <1>2, <1>3
<1>4. CASE old \in PendingTxids(es)
  BY <1>2, <1>4
<1>5. CASE old \notin Tracked(es)
  <2>1. ReplacedBy(es, old, new, time)[old] = NoEntry
    BY <1>5 DEF ReplacedBy, Tracked, Map
  <2> QED
    BY <1>1, <1>2, <2>1 DEF Departed, Tracked
<1> QED
  BY <1>2, <1>3, <1>4, <1>5 DEF Departed, PendingTxids, Tracked

\* confirm_txids adds the listed pending transactions to the departed ones.
LEMMA DepartedAfterConfirm ==
    ASSUME NEW es \in Map, NEW txids \in SUBSET Txid, NEW time \in Nat
    PROVE  Departed(ConfirmedIn(es, txids, time)) \subseteq
               Departed(es) \cup (txids \cap PendingTxids(es))
BY DEF Departed, Tracked, ConfirmedIn

\* A union has no more elements than its two parts together.
LEMMA UnionBound ==
    ASSUME NEW S \in SUBSET Txid, NEW T \in SUBSET Txid, NEW U \in SUBSET (S \cup T)
    PROVE  Cardinality(U) <= Cardinality(S) + Cardinality(T)
<1>1. /\ IsFiniteSet(S) /\ Cardinality(S) \in Nat
      /\ IsFiniteSet(T) /\ Cardinality(T) \in Nat
  BY TxidSubset
<1>2. /\ S \cup T \in SUBSET Txid /\ S \cap T \in SUBSET Txid
  OBVIOUS
<1>3. Cardinality(S \cap T) \in Nat
  BY <1>2, TxidSubset
<1>4. Cardinality(S \cup T) = Cardinality(S) + Cardinality(T) - Cardinality(S \cap T)
  BY <1>1, FS_Union
<1>5. /\ Cardinality(U) <= Cardinality(S \cup T)
      /\ Cardinality(U) \in Nat /\ Cardinality(S \cup T) \in Nat
  BY <1>2, TxidSubset
<1> QED
  BY <1>1, <1>3, <1>4, <1>5

\* Each method that adds departed transactions counts them, in the removal
\* statistics or in uncounted.
LEMMA NextCounted ==
    TypeOK /\ NonPendingCounted /\ [Next]_vars => NonPendingCounted'
<1> SUFFICES ASSUME TypeOK, NonPendingCounted, [Next]_vars
             PROVE  NonPendingCounted'
  OBVIOUS
<1> DEFINE D == Departed(entries)
<1>0. /\ entries \in Map /\ now \in Nat /\ removalStats \in RemovalStats
      /\ uncounted \in Nat
      /\ D \in SUBSET Txid
      /\ Departed(entries') = Departed(entries)'
      /\ Total(removalStats') = Total(removalStats)'
  BY DEF TypeOK, Map, Departed, Tracked, Total
<1>1. /\ Cardinality(D) \in Nat /\ Total(removalStats) \in Nat
      /\ Cardinality(D) <= Total(removalStats) + uncounted
  BY <1>0, TxidSubset DEF RemovalStats, Total, NonPendingCounted
<1>2. ASSUME NEW X \in SUBSET Txid, Departed(entries') \subseteq D \cup X,
             Total(removalStats') + uncounted' =
                 Total(removalStats) + uncounted + Cardinality(X)
      PROVE  NonPendingCounted'
  <2>1. Cardinality(Departed(entries')) <= Cardinality(D) + Cardinality(X)
    BY <1>0, <1>2, UnionBound
  <2>2. Cardinality(X) \in Nat /\ Cardinality(Departed(entries')) \in Nat
    <3>1. Departed(entries') \in SUBSET Txid
      BY DEF Departed, Tracked
    <3> QED
      BY <3>1, TxidSubset
  <2> HIDE DEF D
  <2> QED
    BY <1>0, <1>1, <1>2, <2>1, <2>2 DEF NonPendingCounted
<1>3. ASSUME Departed(entries') \subseteq D, removalStats' = removalStats,
             uncounted' = uncounted
      PROVE  NonPendingCounted'
  <2>1. Cardinality({}) = 0
    BY FS_EmptySet
  <2>2. Total(removalStats') + uncounted' = Total(removalStats) + uncounted + Cardinality({})
    BY <1>0, <1>1, <1>3, <2>1
  <2> QED
    BY <1>2, <1>3, <2>2
<1>5. ASSUME NEW t \in Txid, NEW rate \in FeeRate, AddTx(t, rate)
      PROVE  NonPendingCounted'
  <2>1. Departed(entries') \subseteq D
    BY <1>0, <1>5, DepartedAfterInsert DEF AddTx
  <2> QED
    BY <1>3, <1>5, <2>1 DEF AddTx
<1>6. ASSUME NEW t \in Txid, NEW reason \in RemovalReason, RemoveTx(t, reason)
      PROVE  NonPendingCounted'
  <2>1. CASE ~Counts(entries, t)
    <3>1. Departed(entries') \subseteq D
      BY <1>0, <1>6, <2>1, DepartedAfterRemoval DEF RemoveTx
    <3> QED
      BY <1>3, <1>6, <2>1, <3>1 DEF RemoveTx, StatsAfterRemoval
  <2>2. CASE Counts(entries, t)
    <3>1. Departed(entries') \subseteq D \cup {t}
      BY <1>0, <1>6, DepartedAfterRemoval DEF RemoveTx
    <3>2. Cardinality({t}) = 1
      BY FS_Singleton
    <3>3. Total(removalStats') = Total(removalStats) + 1
      BY <1>0, <1>6, <2>2, TalliedType DEF RemoveTx, StatsAfterRemoval
    <3>4. uncounted' = uncounted
      BY <1>6 DEF RemoveTx
    <3>5. Total(removalStats') + uncounted' =
              Total(removalStats) + uncounted + Cardinality({t})
      BY <1>0, <1>1, <3>2, <3>3, <3>4
    <3> QED
      BY <1>2, <3>1, <3>5
  <2> QED
    BY <2>1, <2>2
<1>7. CASE PruneOld
  <2>1. Departed(entries') \subseteq D
    BY <1>0, <1>7, DepartedAfterPrune DEF PruneOld
  <2> QED
    BY <1>3, <1>7, <2>1 DEF PruneOld
<1>8. ASSUME NEW old \in Txid, NEW new \in Txid, RecordReplacement(old, new)
      PROVE  NonPendingCounted'
  <2>1. CASE old \notin PendingTxids(entries)
    <3>1. Departed(entries') \subseteq D
      BY <1>0, <1>8, <2>1, DepartedAfterReplacement DEF RecordReplacement
    <3> QED
      BY <1>3, <1>8, <2>1, <3>1 DEF RecordReplacement
  <2>2. CASE old \in PendingTxids(entries)
    <3>1. Departed(entries') \subseteq D \cup {old}
      BY <1>0, <1>8, DepartedAfterReplacement DEF RecordReplacement
    <3>2. Cardinality({old}) = 1
      BY FS_Singleton
    <3>3. removalStats' = removalStats /\ uncounted' = uncounted + 1
      BY <1>8, <2>2 DEF RecordReplacement
    <3>4. Total(removalStats') + uncounted' =
              Total(removalStats) + uncounted + Cardinality({old})
      BY <1>0, <1>1, <3>2, <3>3
    <3> QED
      BY <1>2, <3>1, <3>4
  <2> QED
    BY <2>1, <2>2
<1>9. ASSUME NEW txids \in SUBSET Txid, ConfirmTxids(txids)
      PROVE  NonPendingCounted'
  <2> DEFINE X == txids \cap PendingTxids(entries)
  <2>1. Departed(entries') \subseteq D \cup X
    BY <1>0, <1>9, DepartedAfterConfirm DEF ConfirmTxids
  <2>2. removalStats' = removalStats /\ uncounted' = uncounted + Cardinality(X)
    BY <1>9 DEF ConfirmTxids
  <2>3. X \in SUBSET Txid /\ Cardinality(X) \in Nat
    BY TxidSubset
  <2> HIDE DEF X
  <2>4. Total(removalStats') + uncounted' = Total(removalStats) + uncounted + Cardinality(X)
    BY <1>0, <1>1, <2>2, <2>3
  <2> QED
    BY <1>2, <2>1, <2>3, <2>4
<1>10. CASE Tick \/ UNCHANGED vars
  <2>1. entries' = entries /\ removalStats' = removalStats /\ uncounted' = uncounted
    BY <1>10 DEF Tick, vars
  <2> QED
    BY <1>3, <2>1
<1> QED
  BY <1>5, <1>6, <1>7, <1>8, <1>9, <1>10 DEF Next

\* Nothing has departed at the start.
LEMMA InitCounted == Init => NonPendingCounted
<1> SUFFICES ASSUME Init PROVE NonPendingCounted
  OBVIOUS
<1>1. Departed(entries) = {}
  BY DEF Init, Departed, Tracked
<1> QED
  BY <1>1, FS_EmptySet DEF Init, NonPendingCounted, Total, NoRemovals

(* Every transaction that has left Pending and is still tracked was        *)
(* counted in the removal statistics or taken out by a method that keeps   *)
(* no count, for every number of transactions.                             *)
THEOREM RemovalsCounted == Spec => []NonPendingCounted
BY InitTypeOK, InitCounted, NextTypeOK, NextCounted, PTL DEF Spec

-----------------------------------------------------------------------------
(* Pruning and replacement links, for the whole interface. *)

\* prune_old is the only method that drops an entry.
LEMMA OnlyPruneDrops ==
    ASSUME TypeOK, [Next]_vars, NEW t \in Txid,
           entries[t] # NoEntry, entries'[t] = NoEntry
    PROVE  PruneOld /\ t \in Expired(entries, MaxAge, now)
<1>0. NoEntry \notin MempoolEntry /\ entries \in Map
  BY NoEntryAssumption DEF TypeOK, Map
<1>1. ASSUME NEW u \in Txid, NEW rate \in FeeRate, AddTx(u, rate)
      PROVE  FALSE
  <2>1. now \in Nat /\ Fresh(rate, now) \in MempoolEntry
    BY DEF TypeOK, Fresh, MempoolEntry, TxState
  <2> QED
    BY <1>0, <1>1, <2>1 DEF AddTx, Inserted, Map
<1>2. ASSUME NEW u \in Txid, NEW reason \in RemovalReason, RemoveTx(u, reason)
      PROVE  FALSE
  <2>1. [entries[t] EXCEPT !.state = NewState(reason), !.changedAt = now] \in MempoolEntry
    BY <1>0 DEF Map, MempoolEntry, TypeOK, NewState, TxState
  <2> QED
    BY <1>0, <1>2, <2>1 DEF RemoveTx, Removed, Map
<1>3. ASSUME NEW old \in Txid, NEW new \in Txid, RecordReplacement(old, new)
      PROVE  FALSE
  <2>1. [entries[t] EXCEPT !.replacedBy = new, !.state = "Replaced", !.changedAt = now]
            \in MempoolEntry
    BY <1>0 DEF Map, MempoolEntry, TypeOK, TxState
  <2> QED
    BY <1>0, <1>3, <2>1 DEF RecordReplacement, ReplacedBy, Map
<1>4. ASSUME NEW txids \in SUBSET Txid, ConfirmTxids(txids)
      PROVE  FALSE
  <2>1. [entries[t] EXCEPT !.state = "Confirmed", !.changedAt = now] \in MempoolEntry
    BY <1>0 DEF Map, MempoolEntry, TypeOK, TxState
  <2> QED
    BY <1>0, <1>4, <2>1 DEF ConfirmTxids, ConfirmedIn, Map
<1>5. CASE Tick \/ UNCHANGED vars
  BY <1>5 DEF Tick, vars
<1>6. CASE PruneOld
  BY <1>6 DEF PruneOld, Pruned
<1> QED
  BY <1>1, <1>2, <1>3, <1>4, <1>5, <1>6 DEF Next

\* What prune_old drops is old enough, and its link goes with it.
LEMMA NextPrunesOld ==
    TypeOK /\ [Next]_vars =>
        \A t \in Txid : entries[t] # NoEntry /\ entries'[t] = NoEntry =>
            /\ entries[t].state # "Pending"
            /\ entries[t].changedAt + MaxAge < now
            /\ replacementChain'[t] = NoTxid
<1> SUFFICES ASSUME TypeOK, [Next]_vars, NEW t \in Txid,
                    entries[t] # NoEntry, entries'[t] = NoEntry
             PROVE  /\ entries[t].state # "Pending"
                    /\ entries[t].changedAt + MaxAge < now
                    /\ replacementChain'[t] = NoTxid
  OBVIOUS
<1>1. PruneOld /\ t \in Expired(entries, MaxAge, now)
  BY OnlyPruneDrops
<1> QED
  BY <1>1 DEF PruneOld, ChainAfterPrune, Expired, Departed, Tracked

(* prune_old drops a transaction only when it left Pending longer than     *)
(* MaxAge ago, and drops its replacement link with it.                     *)
THEOREM PruningIsSafe == Spec => PruneTakesOldWithLinks
BY InitTypeOK, NextTypeOK, NextPrunesOld, PTL DEF Spec, PruneTakesOldWithLinks

\* Replacement links agree after every method.
LEMMA NextLinks == TypeOK /\ ReplacementLinks /\ [Next]_vars => ReplacementLinks'
<1> SUFFICES ASSUME TypeOK, ReplacementLinks, [Next]_vars, NEW t \in Txid,
                    entries'[t] # NoEntry, entries'[t].replacedBy # NoTxid
             PROVE  /\ entries'[t].state # "Pending"
                    /\ replacementChain'[t] = entries'[t].replacedBy
  BY DEF ReplacementLinks, Tracked
<1>0. /\ entries \in Map
      /\ entries[t] # NoEntry => entries[t] \in MempoolEntry
      /\ entries[t] # NoEntry /\ entries[t].replacedBy # NoTxid =>
            /\ entries[t].state # "Pending"
            /\ replacementChain[t] = entries[t].replacedBy
      /\ replacementChain \in [Txid -> Txid \cup {NoTxid}]
  BY DEF TypeOK, Map, ReplacementLinks, Tracked
<1>1. ASSUME NEW u \in Txid, NEW rate \in FeeRate, AddTx(u, rate)
      PROVE  /\ entries'[t].state # "Pending"
             /\ replacementChain'[t] = entries'[t].replacedBy
  <2>1. t # u /\ entries'[t] = entries[t]
    BY <1>0, <1>1 DEF AddTx, Inserted, Fresh, Map
  <2> QED
    BY <1>0, <1>1, <2>1 DEF AddTx
<1>2. ASSUME NEW u \in Txid, NEW reason \in RemovalReason, RemoveTx(u, reason)
      PROVE  /\ entries'[t].state # "Pending"
             /\ replacementChain'[t] = entries'[t].replacedBy
  <2>1. CASE t # u
    BY <1>0, <1>2, <2>1 DEF RemoveTx, Removed, Map
  <2>2. CASE t = u
    <3>1. /\ entries[t] # NoEntry
          /\ entries'[t] = [entries[t] EXCEPT !.state = NewState(reason), !.changedAt = now]
      BY <1>0, <1>2, <2>2 DEF RemoveTx, Removed, Map
    <3>2. entries'[t].state = NewState(reason) /\ entries'[t].replacedBy = entries[t].replacedBy
      BY <1>0, <3>1 DEF MempoolEntry
    <3>3. NewState(reason) # "Pending"
      BY DEF NewState
    <3> QED
      BY <1>0, <1>2, <3>1, <3>2, <3>3 DEF RemoveTx
  <2> QED
    BY <2>1, <2>2
<1>3. ASSUME NEW old \in Txid, NEW new \in Txid, RecordReplacement(old, new)
      PROVE  /\ entries'[t].state # "Pending"
             /\ replacementChain'[t] = entries'[t].replacedBy
  <2>1. CASE t # old
    BY <1>0, <1>3, <2>1 DEF RecordReplacement, ReplacedBy, Map
  <2>2. CASE t = old
    <3>1. /\ entries[t] # NoEntry
          /\ entries'[t] = [entries[t] EXCEPT !.replacedBy = new, !.state = "Replaced",
                                              !.changedAt = now]
      BY <1>0, <1>3, <2>2 DEF RecordReplacement, ReplacedBy, Map
    <3>2. entries'[t].state = "Replaced" /\ entries'[t].replacedBy = new
      BY <1>0, <3>1 DEF MempoolEntry
    <3> QED
      BY <1>0, <1>3, <2>2, <3>2 DEF RecordReplacement
  <2> QED
    BY <2>1, <2>2
<1>4. ASSUME NEW txids \in SUBSET Txid, ConfirmTxids(txids)
      PROVE  /\ entries'[t].state # "Pending"
             /\ replacementChain'[t] = entries'[t].replacedBy
  <2>1. CASE t \notin txids \cap PendingTxids(entries)
    BY <1>0, <1>4, <2>1 DEF ConfirmTxids, ConfirmedIn
  <2>2. CASE t \in txids \cap PendingTxids(entries)
    <3>1. /\ entries[t] # NoEntry /\ entries[t].state = "Pending"
          /\ entries'[t] = [entries[t] EXCEPT !.state = "Confirmed", !.changedAt = now]
      BY <1>4, <2>2 DEF ConfirmTxids, ConfirmedIn, PendingTxids, Tracked
    <3>2. entries'[t].replacedBy = entries[t].replacedBy
      BY <1>0, <3>1 DEF MempoolEntry
    <3> QED
      BY <1>0, <3>1, <3>2
  <2> QED
    BY <2>1, <2>2
<1>5. CASE PruneOld
  BY <1>0, <1>5 DEF PruneOld, Pruned, ChainAfterPrune
<1>6. CASE Tick \/ UNCHANGED vars
  BY <1>0, <1>6 DEF Tick, vars
<1> QED
  BY <1>1, <1>2, <1>3, <1>4, <1>5, <1>6 DEF Next

\* There is no replacement at the start.
LEMMA InitLinks == Init => ReplacementLinks
BY DEF Init, ReplacementLinks, Tracked

(* An entry and the replacement chain never disagree about what replaced   *)
(* a transaction, and a transaction with a replacement is not pending.     *)
THEOREM LinksAgree == Spec => []ReplacementLinks
BY InitTypeOK, NextTypeOK, InitLinks, NextLinks, PTL DEF Spec

-----------------------------------------------------------------------------
(* The tracker implements the lifecycle. *)

\* Before the first event every transaction is unknown.
LEMMA InitRefines == Init => Lifecycle!Init
BY DEF Init, Lifecycle!Init, Status, Tracked

\* A step of any method is one step of the lifecycle, or none.
LEMMA NextRefines == TypeOK /\ [Next]_vars => [Lifecycle!Next]_Status
<1> SUFFICES ASSUME TypeOK, [Next]_vars
             PROVE  Lifecycle!Next \/ UNCHANGED Status
  OBVIOUS
<1>0. /\ entries \in Map
      /\ NoEntry \notin MempoolEntry
      /\ entries' \in Map
      /\ now \in Nat
  BY NextTypeOK, NoEntryAssumption DEF TypeOK, Map
<1>1. ASSUME NEW t \in Txid, NEW rate \in FeeRate, AddTx(t, rate)
      PROVE  Lifecycle!Enter(t)
  <2>1. Fresh(rate, now) # NoEntry /\ Fresh(rate, now).state = "Pending"
    BY <1>0 DEF Fresh, MempoolEntry, TxState
  <2>2. entries' = [entries EXCEPT ![t] = Fresh(rate, now)]
    BY <1>1 DEF AddTx, Inserted
  <2> QED
    BY <1>0, <2>1, <2>2 DEF Lifecycle!Enter, Status, Tracked, Map
<1>2. ASSUME NEW t \in Txid, NEW reason \in RemovalReason, RemoveTx(t, reason)
      PROVE  Lifecycle!Depart({t}) \/ UNCHANGED Status
  <2>1. CASE t \notin Tracked(entries)
    <3>1. entries' = entries
      BY <1>0, <1>2, <2>1 DEF RemoveTx, Removed, Tracked, Map
    <3> QED
      BY <3>1 DEF Status, Tracked
  <2>2. CASE t \in Tracked(entries)
    <3> DEFINE e == [entries[t] EXCEPT !.state = NewState(reason), !.changedAt = now]
    <3>1. entries' = [entries EXCEPT ![t] = e]
      BY <1>0, <1>2, <2>2 DEF RemoveTx, Removed, Tracked, Map
    <3>2. e # NoEntry /\ e.state # "Pending"
      <4>1. entries[t] \in MempoolEntry
        BY <1>0, <2>2 DEF Tracked, Map
      <4>2. NewState(reason) # "Pending" /\ NewState(reason) \in TxState
        BY DEF NewState, TxState
      <4>3. e \in MempoolEntry /\ e.state = NewState(reason)
        BY <1>0, <4>1, <4>2 DEF MempoolEntry
      <4> QED
        BY <1>0, <4>2, <4>3
    <3> HIDE DEF e
    <3>3. CASE entries[t].state = "Pending"
      BY <1>0, <2>2, <3>1, <3>2, <3>3 DEF Lifecycle!Depart, Status, Tracked, Map
    <3>4. CASE entries[t].state # "Pending"
      BY <1>0, <2>2, <3>1, <3>2, <3>4 DEF Status, Tracked, Map
    <3> QED
      BY <3>3, <3>4
  <2> QED
    BY <2>1, <2>2
<1>3. CASE PruneOld
  <2> DEFINE X == Expired(entries, MaxAge, now)
  <2>1. X \subseteq {t \in Txid : Status[t] = "departed"}
    BY DEF Expired, Departed, Tracked, Status
  <2>2. Status' = [t \in Txid |-> IF t \in X THEN "unknown" ELSE Status[t]]
    BY <1>3 DEF PruneOld, Pruned, Status, Tracked
  <2> QED
    BY <2>1, <2>2 DEF Lifecycle!Next, Lifecycle!Forget, Expired, Departed, Tracked
<1>4. ASSUME NEW old \in Txid, NEW new \in Txid, RecordReplacement(old, new)
      PROVE  Lifecycle!Depart({old}) \/ UNCHANGED Status
  <2>1. CASE old \notin Tracked(entries)
    <3>1. entries' = entries
      BY <1>0, <1>4, <2>1 DEF RecordReplacement, ReplacedBy, Tracked, Map
    <3> QED
      BY <3>1 DEF Status, Tracked
  <2>2. CASE old \in Tracked(entries)
    <3> DEFINE e == [entries[old] EXCEPT !.replacedBy = new, !.state = "Replaced",
                                         !.changedAt = now]
    <3>1. entries' = [entries EXCEPT ![old] = e]
      BY <1>0, <1>4, <2>2 DEF RecordReplacement, ReplacedBy, Tracked, Map
    <3>2. e # NoEntry /\ e.state # "Pending"
      <4>1. entries[old] \in MempoolEntry
        BY <1>0, <2>2 DEF Tracked, Map
      <4>2. e \in MempoolEntry /\ e.state = "Replaced"
        BY <1>0, <4>1 DEF MempoolEntry, TxState
      <4> QED
        BY <1>0, <4>2
    <3> HIDE DEF e
    <3>3. CASE entries[old].state = "Pending"
      BY <1>0, <2>2, <3>1, <3>2, <3>3 DEF Lifecycle!Depart, Status, Tracked, Map
    <3>4. CASE entries[old].state # "Pending"
      BY <1>0, <2>2, <3>1, <3>2, <3>4 DEF Status, Tracked, Map
    <3> QED
      BY <3>3, <3>4
  <2> QED
    BY <2>1, <2>2
<1>5. ASSUME NEW txids \in SUBSET Txid, ConfirmTxids(txids)
      PROVE  Lifecycle!Depart(txids \cap PendingTxids(entries))
  <2> DEFINE X == txids \cap PendingTxids(entries)
  <2>1. X \subseteq {t \in Txid : Status[t] = "pending"}
    BY DEF PendingTxids, Tracked, Status
  <2>2. ASSUME NEW t \in X
        PROVE  entries'[t] # NoEntry /\ entries'[t].state = "Confirmed"
    <3>1. entries'[t] = [entries[t] EXCEPT !.state = "Confirmed", !.changedAt = now]
      BY <1>5, <2>2 DEF ConfirmTxids, ConfirmedIn, PendingTxids, Tracked
    <3>2. entries[t] \in MempoolEntry
      BY <1>0, <2>2 DEF PendingTxids, Tracked, Map
    <3>3. entries'[t] \in MempoolEntry /\ entries'[t].state = "Confirmed"
      BY <1>0, <3>1, <3>2 DEF MempoolEntry, TxState
    <3> QED
      BY <1>0, <3>3
  <2>3. ASSUME NEW t \in Txid, t \notin X
        PROVE  entries'[t] = entries[t]
    BY <1>5, <2>3 DEF ConfirmTxids, ConfirmedIn
  <2>4. Status' = [t \in Txid |-> IF t \in X THEN "departed" ELSE Status[t]]
    BY <2>2, <2>3 DEF Status, Tracked
  <2> QED
    BY <2>1, <2>4 DEF Lifecycle!Depart
<1>6. CASE Tick \/ UNCHANGED vars
  BY <1>6 DEF Tick, vars, Status, Tracked
<1> QED
  BY <1>1, <1>2, <1>3, <1>4, <1>5, <1>6 DEF Next, Lifecycle!Next

(* Through every method of the tracker a transaction departs only from     *)
(* pending and is forgotten only once departed.                            *)
THEOREM ImplementsLifecycle == Spec => LifecycleSpec
BY InitTypeOK, NextTypeOK, InitRefines, NextRefines, PTL
   DEF Spec, LifecycleSpec, Lifecycle!Spec

-----------------------------------------------------------------------------
(* The fee histogram. *)

\* Of a partition in six, the parts add up to the whole.
LEMMA SixParts ==
    ASSUME NEW S, IsFiniteSet(S), NEW F,
           S = F[1] \cup F[2] \cup F[3] \cup F[4] \cup F[5] \cup F[6],
           \A i, j \in 1..6 : i # j => F[i] \cap F[j] = {}
    PROVE  Cardinality(F[1]) + Cardinality(F[2]) + Cardinality(F[3]) + Cardinality(F[4])
               + Cardinality(F[5]) + Cardinality(F[6]) = Cardinality(S)
<1> DEFINE P1 == F[1]  P2 == F[2]  P3 == F[3]  P4 == F[4]  P5 == F[5]  P6 == F[6]
<1>0. /\ S = P1 \cup P2 \cup P3 \cup P4 \cup P5 \cup P6
      /\ P1 \cap P2 = {} /\ (P1 \cup P2) \cap P3 = {} /\ (P1 \cup P2 \cup P3) \cap P4 = {}
      /\ (P1 \cup P2 \cup P3 \cup P4) \cap P5 = {}
      /\ (P1 \cup P2 \cup P3 \cup P4 \cup P5) \cap P6 = {}
  OBVIOUS
<1> SUFFICES Cardinality(P1) + Cardinality(P2) + Cardinality(P3) + Cardinality(P4)
                 + Cardinality(P5) + Cardinality(P6) = Cardinality(S)
  OBVIOUS
<1> HIDE DEF P1, P2, P3, P4, P5, P6
<1>1. /\ IsFiniteSet(P1) /\ IsFiniteSet(P2) /\ IsFiniteSet(P3)
      /\ IsFiniteSet(P4) /\ IsFiniteSet(P5) /\ IsFiniteSet(P6)
  BY <1>0, FS_Subset
<1>2. ASSUME NEW A, NEW B, IsFiniteSet(A), IsFiniteSet(B), A \cap B = {}
      PROVE  IsFiniteSet(A \cup B) /\ Cardinality(A \cup B) = Cardinality(A) + Cardinality(B)
  <2>1. Cardinality(A \cap B) = 0
    BY <1>2, FS_EmptySet, Zenon
  <2>2. Cardinality(A) \in Nat /\ Cardinality(B) \in Nat
    BY <1>2, FS_CardinalityType
  <2>3. IsFiniteSet(A \cup B)
        /\ Cardinality(A \cup B) = Cardinality(A) + Cardinality(B) - Cardinality(A \cap B)
    BY <1>2, FS_Union
  <2> QED
    BY <2>1, <2>2, <2>3
<1>3. IsFiniteSet(P1 \cup P2) /\ Cardinality(P1 \cup P2) = Cardinality(P1) + Cardinality(P2)
  BY <1>0, <1>1, <1>2
<1>4. /\ IsFiniteSet(P1 \cup P2 \cup P3)
      /\ Cardinality(P1 \cup P2 \cup P3) = Cardinality(P1 \cup P2) + Cardinality(P3)
  BY <1>0, <1>1, <1>2, <1>3
<1>5. /\ IsFiniteSet(P1 \cup P2 \cup P3 \cup P4)
      /\ Cardinality(P1 \cup P2 \cup P3 \cup P4) = Cardinality(P1 \cup P2 \cup P3) + Cardinality(P4)
  BY <1>0, <1>1, <1>2, <1>4
<1>6. /\ IsFiniteSet(P1 \cup P2 \cup P3 \cup P4 \cup P5)
      /\ Cardinality(P1 \cup P2 \cup P3 \cup P4 \cup P5)
             = Cardinality(P1 \cup P2 \cup P3 \cup P4) + Cardinality(P5)
  BY <1>0, <1>1, <1>2, <1>5
<1>7. Cardinality(S) = Cardinality(P1 \cup P2 \cup P3 \cup P4 \cup P5) + Cardinality(P6)
  BY <1>0, <1>1, <1>2, <1>6
<1> QED
  BY <1>3, <1>4, <1>5, <1>6, <1>7

\* No rate falls between two buckets or into two.
LEMMA OneBucket ==
    ASSUME NEW r \in FeeRate
    PROVE  /\ \E i \in 1..6 : InBucket(r, i)
           /\ \A i, j \in 1..6 : InBucket(r, i) /\ InBucket(r, j) => i = j
<1>1. r \in Nat /\ r < RateCeiling /\ RateCeiling \in Nat /\ RateCeiling > 100
  BY FeeRateAssumption
<1>2. /\ InBucket(r, 1) <=> r < 5
      /\ InBucket(r, 2) <=> 5 <= r /\ r < 10
      /\ InBucket(r, 3) <=> 10 <= r /\ r < 20
      /\ InBucket(r, 4) <=> 20 <= r /\ r < 50
      /\ InBucket(r, 5) <=> 50 <= r /\ r < 100
      /\ InBucket(r, 6) <=> 100 <= r
  BY <1>1 DEF InBucket, FeeBuckets
<1>3. \E i \in 1..6 : InBucket(r, i)
  BY <1>1, <1>2
<1>4. ASSUME NEW i \in 1..6, NEW j \in 1..6, InBucket(r, i), InBucket(r, j)
      PROVE  i = j
  <2>1. i \in {1, 2, 3, 4, 5, 6} /\ j \in {1, 2, 3, 4, 5, 6}
    OBVIOUS
  <2> QED
    BY <1>1, <1>2, <1>4, <2>1
<1> QED
  BY <1>3, <1>4

\* The buckets split the pending transactions.
LEMMA HistogramOfTyped == ASSUME entries \in Map PROVE HistogramComplete
<1> DEFINE P == PendingTxids(entries)
           B(i) == {t \in P : /\ InBucket(entries[t].feeRate, i)
                              /\ \A j \in 1..(i - 1) : ~InBucket(entries[t].feeRate, j)}
<1>1. \A t \in P : entries[t].feeRate \in FeeRate
  BY DEF Map, PendingTxids, Tracked, MempoolEntry
<1>2. IsFiniteSet(P)
  BY TxidAssumption, FS_Subset DEF PendingTxids, Tracked
<1>3. ASSUME NEW i \in 1..6
      PROVE  B(i) = {t \in P : InBucket(entries[t].feeRate, i)}
  BY <1>1, OneBucket
<1>4. P = B(1) \cup B(2) \cup B(3) \cup B(4) \cup B(5) \cup B(6)
  <2>1. ASSUME NEW t \in P PROVE \E i \in 1..6 : t \in B(i)
    BY <1>1, <1>3, OneBucket
  <2>2. \A i \in 1..6 : i \in {1, 2, 3, 4, 5, 6}
    OBVIOUS
  <2> HIDE DEF B
  <2>3. P \subseteq B(1) \cup B(2) \cup B(3) \cup B(4) \cup B(5) \cup B(6)
    BY <2>1, <2>2
  <2>4. \A i \in 1..6 : B(i) \subseteq P
    BY DEF B
  <2> QED
    BY <2>3, <2>4
<1>5. \A i, j \in 1..6 : i # j => B(i) \cap B(j) = {}
  BY <1>1, <1>3, OneBucket
<1> HIDE DEF B
<1> DEFINE F == [i \in 1..6 |-> B(i)]
<1>6. Cardinality(F[1]) + Cardinality(F[2]) + Cardinality(F[3]) + Cardinality(F[4])
          + Cardinality(F[5]) + Cardinality(F[6]) = Cardinality(P)
  <2>1. P = F[1] \cup F[2] \cup F[3] \cup F[4] \cup F[5] \cup F[6]
    BY <1>4
  <2>2. \A i, j \in 1..6 : i # j => F[i] \cap F[j] = {}
    BY <1>5
  <2> HIDE DEF P, F
  <2> QED
    BY <1>2, <2>1, <2>2, SixParts
<1>7. \A i \in 1..6 : FeeHistogram(entries)[i] = Cardinality(B(i))
  BY DEF FeeHistogram, B
<1>8. \A i \in 1..6 : F[i] = B(i)
  OBVIOUS
<1> HIDE DEF P, F
<1>9. LET h == FeeHistogram(entries)
      IN  h[1] + h[2] + h[3] + h[4] + h[5] + h[6] = Cardinality(P)
  BY <1>6, <1>7, <1>8
<1> QED
  BY <1>9 DEF P, HistogramComplete, PendingCount

(* The histogram that the UI shows counts every pending transaction once,  *)
(* whatever its fee rate is.                                               *)
THEOREM HistogramCorrect == Spec => []HistogramComplete
<1>1. TypeOK => HistogramComplete
  BY HistogramOfTyped DEF TypeOK, Map
<1> QED
  BY <1>1, TypeCorrect, PTL
=============================================================================
