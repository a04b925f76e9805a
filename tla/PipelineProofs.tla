---------------------------- MODULE PipelineProofs ----------------------------
(***************************************************************************)
(* Theorems about Pipeline, for any hashes, scores and intervals and every *)
(* order of events, answers and clock ticks; and at the end about TxRadar, *)
(* where the events come from the subscriber:                              *)
(*   - WireInv: what is on the wire is of its topic;                       *)
(*   - PassInv: the channel loses, repeats and reorders nothing.           *)
(***************************************************************************)
EXTENDS TxRadar, SelectionProofs

-----------------------------------------------------------------------------
(* Facts about the tracker's operators. *)

Map == [Txid -> MempoolEntry \cup {NoEntry}]

\* add_tx makes the transaction pending and touches no other.
LEMMA AfterInsert ==
    ASSUME NEW es \in Map, NEW t \in Txid, NEW r \in FeeRate, NEW time \in Nat
    PROVE  /\ Inserted(es, t, r, time) \in Map
           /\ PendingTxids(Inserted(es, t, r, time)) = PendingTxids(es) \cup {t}
           /\ Departed(Inserted(es, t, r, time)) = Departed(es) \ {t}
           /\ \A u \in Departed(es) \ {t} : Inserted(es, t, r, time)[u] = es[u]
<1> DEFINE after == Inserted(es, t, r, time)
<1>1. Fresh(r, time) \in MempoolEntry /\ Fresh(r, time).state = "Pending"
  BY DEF Fresh, MempoolEntry, TxState
<1>2. /\ after \in Map /\ after[t] = Fresh(r, time)
      /\ \A u \in Txid \ {t} : after[u] = es[u]
  BY <1>1 DEF Map, Inserted
<1>3. after[t] # NoEntry
  BY <1>1, <1>2, NoEntryAssumption
<1> HIDE DEF after
<1>4. /\ PendingTxids(after) = PendingTxids(es) \cup {t}
      /\ Departed(after) = Departed(es) \ {t}
      /\ \A u \in Departed(es) \ {t} : after[u] = es[u]
  BY <1>1, <1>2, <1>3 DEF PendingTxids, Departed, Tracked
<1> QED
  BY <1>2, <1>4 DEF after

\* remove_tx takes the transaction out of the pending ones, now, and touches no
\* other.
LEMMA AfterRemoval ==
    ASSUME NEW es \in Map, NEW t \in Txid, NEW reason \in RemovalReason, NEW time \in Nat
    PROVE  /\ Removed(es, t, reason, time) \in Map
           /\ PendingTxids(Removed(es, t, reason, time)) = PendingTxids(es) \ {t}
           /\ Departed(Removed(es, t, reason, time)) = Departed(es) \cup ({t} \cap Tracked(es))
           /\ \A u \in Txid \ {t} : Removed(es, t, reason, time)[u] = es[u]
           /\ t \in Tracked(es) => Removed(es, t, reason, time)[t].changedAt = time
<1> DEFINE after == Removed(es, t, reason, time)
<1>1. NewState(reason) \in TxState \ {"Pending"}
  BY DEF NewState, TxState
<1>2. \A u \in Txid \ {t} : after[u] = es[u]
  BY DEF Map, Removed
<1>3. CASE es[t] = NoEntry
  <2>1. after = es
    BY <1>3 DEF Map, Removed
  <2>2. t \notin Tracked(es)
    BY <1>3 DEF Tracked
  <2> HIDE DEF after
  <2>3. /\ PendingTxids(after) = PendingTxids(es) \ {t}
        /\ Departed(after) = Departed(es) \cup ({t} \cap Tracked(es))
    BY <2>1, <2>2 DEF PendingTxids, Departed
  <2> QED
    BY <1>2, <2>1, <2>2, <2>3 DEF after
<1>4. CASE es[t] # NoEntry
  <2> DEFINE entry == [es[t] EXCEPT !.state = NewState(reason), !.changedAt = time]
  <2>1. entry \in MempoolEntry /\ entry.state = NewState(reason) /\ entry.changedAt = time
    BY <1>1, <1>4 DEF Map, MempoolEntry
  <2>2. after \in Map /\ after[t] = entry
    BY <1>4, <2>1 DEF Map, Removed
  <2>3. entry # NoEntry /\ t \in Tracked(es)
    BY <1>4, <2>1, NoEntryAssumption DEF Tracked
  <2> HIDE DEF after, entry
  <2>4. /\ PendingTxids(after) = PendingTxids(es) \ {t}
        /\ Departed(after) = Departed(es) \cup ({t} \cap Tracked(es))
    BY <1>1, <1>2, <2>1, <2>2, <2>3 DEF PendingTxids, Departed, Tracked
  <2> QED
    BY <1>2, <2>1, <2>2, <2>4 DEF after
<1> QED
  BY <1>3, <1>4

\* prune_old drops the expired, all of them departed, and touches no other.
LEMMA AfterPrune ==
    ASSUME NEW es \in Map, NEW time \in Nat
    PROVE  /\ Pruned(es, MaxAge, time) \in Map
           /\ PendingTxids(Pruned(es, MaxAge, time)) = PendingTxids(es)
           /\ Departed(Pruned(es, MaxAge, time)) = Departed(es) \ Expired(es, MaxAge, time)
           /\ \A u \in Txid \ Expired(es, MaxAge, time) : Pruned(es, MaxAge, time)[u] = es[u]
<1> DEFINE after == Pruned(es, MaxAge, time)
<1>1. /\ after \in Map
      /\ \A u \in Txid \ Expired(es, MaxAge, time) : after[u] = es[u]
      /\ \A u \in Expired(es, MaxAge, time) : after[u] = NoEntry
      /\ Expired(es, MaxAge, time) \subseteq Departed(es)
  BY DEF Map, Pruned, Expired, Departed, Tracked
<1>2. /\ PendingTxids(after) = PendingTxids(es)
      /\ Departed(after) = Departed(es) \ Expired(es, MaxAge, time)
  <2> HIDE DEF after
  <2> QED
    BY <1>1 DEF PendingTxids, Departed, Tracked
<1> QED
  BY <1>1, <1>2

\* The counters stay counters, and a counted removal adds one to their total.
LEMMA AfterTally ==
    ASSUME NEW stats \in RemovalStats, NEW reason \in RemovalReason
    PROVE  /\ Tallied(stats, reason) \in RemovalStats
           /\ Total(Tallied(stats, reason)) = Total(stats) + 1
           /\ Total(stats) \in Nat
BY DEF Tallied, RemovalStats, RemovalReason, Total

\* A set of txids is finite, and a part of it has no more elements.
LEMMA TxidSubset ==
    ASSUME NEW S \in SUBSET Txid, NEW T \in SUBSET S
    PROVE  /\ IsFiniteSet(S)
           /\ Cardinality(S) \in Nat
           /\ Cardinality(T) \in Nat
           /\ Cardinality(T) <= Cardinality(S)
<1>1. IsFiniteSet(S)
  BY TxidAssumption, FS_Subset
<1>2. IsFiniteSet(T)
  BY <1>1, FS_Subset
<1> QED
  BY <1>1, <1>2, FS_Subset, FS_CardinalityType

-----------------------------------------------------------------------------
(* Type correctness. *)

Added == [type : {"TxAdded"}, raw : Hash \cup {Garbage}]
Gone == [type : {"TxRemoved"}, txid : Hash, reason : {"Unknown"}]
OfBlock == [type : {"BlockConnected", "BlockDisconnected"}, block : Block, height : {0}]

Event == Added \cup Gone \cup OfBlock

Told == [ newTx : Nat, blocks : Nat,
          stats : [pending : Nat, removals : Nat, at : Nat, after : Nat] ]

(* TypeOK with the types of the other variables.                           *)
TypeInv ==
    /\ TypeOK
    /\ channel \in Seq(Event) /\ handled \in Seq(Event)
    /\ current \in [hash : Hash, rate : Nat] \cup {None}
    /\ pc = "resolved" => current.rate \in FeeRate
    /\ ui \in Told
    /\ now \in Nat /\ txCount \in Nat
    /\ senderOpen \in BOOLEAN /\ uiOpen \in BOOLEAN

\* The first event of the channel is an event, and so are the others.
LEMMA ReceiveType ==
    ASSUME TypeInv, NEW type, Receive(type)
    PROVE  /\ Head(channel) \in Event /\ Head(channel).type = type
           /\ channel' \in Seq(Event)
           /\ pc = "recv" /\ UNCHANGED <<senderOpen, receiverOpen, eventsSent>>
  BY HeadTailProperties DEF Receive, TypeInv

\* Statistics are numbers.
LEMMA StatsType ==
    ASSUME NEW es \in Map, NEW stats \in RemovalStats, NEW count \in Nat, now \in Nat
    PROVE  Stats(es, stats, count) \in [pending : Nat, removals : Nat, at : Nat, after : Nat]
<1>1. PendingCount(es) \in Nat
  BY TxidSubset DEF PendingCount, PendingTxids, Tracked
<1>2. Total(stats) \in Nat
  BY DEF Total, RemovalStats
<1> QED
  BY <1>1, <1>2 DEF Stats

\* What the UI is told keeps its type.
LEMMA ToldType ==
    ASSUME NEW old \in Told,
           NEW stats \in [pending : Nat, removals : Nat, at : Nat, after : Nat]
    PROVE  /\ [old EXCEPT !.newTx = @ + 1, !.stats = stats] \in Told
           /\ [old EXCEPT !.blocks = @ + 1, !.stats = stats] \in Told
<1> DEFINE S == [pending : Nat, removals : Nat, at : Nat, after : Nat]
<1>1. Told = [newTx : Nat, blocks : Nat, stats : S] /\ stats \in S
  BY DEF Told
<1> HIDE DEF S
<1>2. /\ [old EXCEPT !.newTx = @ + 1] \in Told
      /\ [old EXCEPT !.blocks = @ + 1] \in Told
  BY <1>1
<1>3. \A new \in Told : [new EXCEPT !.stats = stats] \in Told
  BY <1>1
<1>4. /\ [old EXCEPT !.newTx = @ + 1, !.stats = stats] =
             [[old EXCEPT !.newTx = @ + 1] EXCEPT !.stats = stats]
      /\ [old EXCEPT !.blocks = @ + 1, !.stats = stats] =
             [[old EXCEPT !.blocks = @ + 1] EXCEPT !.stats = stats]
  OBVIOUS
<1> QED
  BY <1>2, <1>3, <1>4

\* Nothing has happened at the start.
LEMMA InitType ==
    ASSUME PipelineAssumption, Init
    PROVE  TypeInv
<1>1. channel \in Seq(Event) /\ handled \in Seq(Event)
  BY DEF Init
<1>2. TypeOK
  <2>1. /\ pc \in {"recv", "resolving", "resolved", "stopped"}
        /\ (current # None) = (pc \in {"resolving", "resolved"})
    BY DEF Init
  <2>2. receiverOpen = (pc # "stopped")
    BY DEF Init
  <2>3. /\ entries \in [Txid -> MempoolEntry \cup {NoEntry}]
        /\ removalStats \in RemovalStats
    BY DEF Init, NoRemovals, RemovalStats
  <2>4. /\ lastStats \in 0..now /\ lastPrune \in 0..now
        /\ lastSent \in (0..now) \cup {None}
        /\ ui.newTx \in Nat /\ ui.blocks \in Nat
    BY DEF Init
  <2> QED
    BY <2>1, <2>2, <2>3, <2>4 DEF TypeOK
<1>3. ui \in Told
  BY DEF Init, NoStats, Told
<1> QED
  BY <1>1, <1>2, <1>3 DEF Init, TypeInv

\* The surroundings.
LEMMA OutsideType ==
    ASSUME PipelineAssumption, TypeInv,
           SubscriberNext \/ (\E rate \in FeeRate : RpcAnswers(rate)) \/ CloseUi \/ Tick
           \/ UNCHANGED vars
    PROVE  TypeInv'
<1> USE DEF channelVars, mempoolVars, localVars, outVars, historyVars
<1>1. ASSUME NEW e \in Event, SendEvent(e)
      PROVE  TypeInv'
  <2>1. channel' \in Seq(Event)
    BY <1>1 DEF SendEvent, TypeInv
  <2> QED
    BY <1>1, <2>1 DEF SendEvent, TypeInv, TypeOK
<1>2. CASE SubscriberNext
  <2>1. ASSUME NEW raw \in Hash \cup {Garbage}
        PROVE  TxAdded(raw) \in Event
    BY DEF TxAdded, Event, Added
  <2>2. ASSUME NEW h \in Hash
        PROVE  TxRemoved(h) \in Event
    BY DEF TxRemoved, Event, Gone
  <2>3. ASSUME NEW b \in Block
        PROVE  BlockConnected(b) \in Event /\ BlockDisconnected(b) \in Event
    BY DEF BlockConnected, BlockDisconnected, Event, OfBlock
  <2>4. CASE CloseSender
    BY <2>4 DEF CloseSender, TypeInv, TypeOK
  <2> QED
    BY <1>1, <1>2, <2>1, <2>2, <2>3, <2>4 DEF SubscriberNext
<1>3. ASSUME NEW rate \in FeeRate, RpcAnswers(rate)
      PROVE  TypeInv'
  <2>1. current \in [hash : Hash, rate : Nat] /\ rate \in Nat
    BY <1>3, FeeRateAssumption DEF RpcAnswers, TypeInv, TypeOK
  <2>2. current' \in [hash : Hash, rate : Nat] /\ current'.rate = rate /\ current' # None
    BY <1>3, <2>1 DEF RpcAnswers, PipelineAssumption
  <2> QED
    BY <1>3, <2>2 DEF RpcAnswers, TypeInv, TypeOK
<1>4. CASE CloseUi
  BY <1>4 DEF CloseUi, TypeInv, TypeOK
<1>5. CASE Tick
  BY <1>5 DEF Tick, TypeInv, TypeOK
<1>6. CASE UNCHANGED vars
  BY <1>6 DEF vars, TypeInv, TypeOK
<1> QED
  BY <1>2, <1>3, <1>4, <1>5, <1>6
\* What a removal does to the map and the counters.
LEMMA RemovalTypes ==
    ASSUME PipelineAssumption, TypeInv, TxRemovedHandler
    PROVE  /\ Head(channel) \in Gone
           /\ HexOfRemoved(Head(channel).txid) \in Txid
           /\ entries' = Removed(entries, HexOfRemoved(Head(channel).txid), "Unknown", now)
           /\ removalStats' = StatsAfterRemoval(removalStats, entries,
                                  HexOfRemoved(Head(channel).txid), "Unknown")
           /\ entries \in Map /\ entries' \in Map
           /\ removalStats \in RemovalStats /\ removalStats' \in RemovalStats
           /\ handled' = Append(handled, Head(channel))
<1> DEFINE e == Head(channel)
           txid == HexOfRemoved(e.txid)
<1>1. e \in Gone
  BY ReceiveType DEF TxRemovedHandler, Event, Added, Gone, OfBlock
<1>2. txid \in Txid /\ e.reason = "Unknown"
  BY <1>1 DEF Gone, HexOfRemoved, PipelineAssumption
<1>3. /\ entries' = Removed(entries, txid, "Unknown", now)
      /\ removalStats' = StatsAfterRemoval(removalStats, entries, txid, "Unknown")
      /\ handled' = Append(handled, e)
  BY <1>2 DEF TxRemovedHandler, Handled
<1>4. entries \in Map /\ removalStats \in RemovalStats /\ now \in Nat
  BY DEF TypeInv, TypeOK, Map
<1>5. "Unknown" \in RemovalReason
  BY DEF RemovalReason
<1> HIDE DEF txid
<1>6. entries' \in Map
  BY <1>2, <1>3, <1>4, <1>5, AfterRemoval
<1>7. removalStats' \in RemovalStats
  BY <1>3, <1>4, <1>5, AfterTally DEF StatsAfterRemoval
<1> QED
  BY <1>1, <1>2, <1>3, <1>4, <1>6, <1>7 DEF txid

\* The map and the UI's view after a transaction, whether it is pruned or not.
LEMMA FinishTypes ==
    ASSUME PipelineAssumption, TypeInv, NEW score \in Score, TxAddedFinishes(score)
    PROVE  /\ current \in [hash : Hash, rate : Nat] /\ current.rate \in FeeRate
           /\ TxidOfParsed(current.hash) \in Txid
           /\ Inserted(entries, TxidOfParsed(current.hash), current.rate, now) \in Map
           /\ score \in Nat
<1>1. current \in [hash : Hash, rate : Nat] /\ current.rate \in FeeRate
  BY DEF TxAddedFinishes, TypeInv, TypeOK
<1>2. TxidOfParsed(current.hash) \in Txid
  BY <1>1 DEF TxidOfParsed, PipelineAssumption
<1>3. entries \in Map /\ now \in Nat
  BY DEF TypeInv, TypeOK, Map
<1>4. Inserted(entries, TxidOfParsed(current.hash), current.rate, now) \in Map
  BY <1>1, <1>2, <1>3, AfterInsert
<1> QED
  BY <1>1, <1>2, <1>4 DEF PipelineAssumption

\* The second half of the TxAdded handler.
LEMMA FinishType ==
    ASSUME PipelineAssumption, TypeInv, NEW score \in Score, TxAddedFinishes(score)
    PROVE  TypeInv'
<1> DEFINE txid == TxidOfParsed(current.hash)
           added == Inserted(entries, txid, current.rate, now)
           count == txCount + 1
<1>1. added \in Map /\ current.hash \in Hash /\ now \in Nat /\ count \in Nat
  BY FinishTypes DEF TypeInv
<1>2. TxAdded(current.hash) \in Event
  BY <1>1 DEF TxAdded, Event, Added
<1>3. handled' \in Seq(Event)
  <2>1. handled' = Append(handled, TxAdded(current.hash))
    BY DEF TxAddedFinishes, Handled
  <2> QED
    BY <1>2, <2>1 DEF TypeInv
<1>4. /\ removalStats' \in RemovalStats /\ current' = None
      /\ now' = now /\ txCount' = count /\ UNCHANGED <<senderOpen, uiOpen>>
  BY DEF TxAddedFinishes, TypeInv, TypeOK
<1>5. lastSent' \in (0..now) \cup {None}
  BY DEF TxAddedFinishes, SentAt, TypeInv, TypeOK
<1>6. CASE UiTakes
  <2>1. /\ pc' = "recv" /\ UNCHANGED <<channel, receiverOpen>> /\ receiverOpen
        /\ entries' = IF PruneDue THEN Pruned(added, MaxAge, now) ELSE added
        /\ lastStats' = IF StatsDue(count) THEN now ELSE lastStats
        /\ lastPrune' = IF PruneDue THEN now ELSE lastPrune
        /\ ui' = [ui EXCEPT !.newTx = @ + 1,
                            !.stats = IF StatsDue(count)
                                      THEN Stats(added, removalStats, count) ELSE @]
    BY <1>6 DEF TxAddedFinishes, TypeInv, TypeOK
  <2>2. entries' \in Map
    <3> HIDE DEF added
    <3> QED
      BY <1>1, <2>1, AfterPrune
  <2>3. lastStats' \in 0..now /\ lastPrune' \in 0..now
    <3>1. lastStats \in 0..now /\ lastPrune \in 0..now /\ now \in 0..now
      BY <1>1 DEF TypeInv, TypeOK
    <3>2. lastStats' \in {now, lastStats} /\ lastPrune' \in {now, lastPrune}
      <4> HIDE DEF added, count
      <4> QED
        BY <2>1
    <3> QED
      BY <3>1, <3>2
  <2>4. ui' \in Told
    <3>1. Stats(added, removalStats, count)
              \in [pending : Nat, removals : Nat, at : Nat, after : Nat]
      BY <1>1, StatsType DEF TypeInv, TypeOK
    <3>2. ui \in Told /\ ui.stats \in [pending : Nat, removals : Nat, at : Nat, after : Nat]
      BY DEF TypeInv, Told
    <3> HIDE DEF added, count
    <3>3. CASE StatsDue(count)
      <4>1. ui' = [ui EXCEPT !.newTx = @ + 1, !.stats = Stats(added, removalStats, count)]
        BY <2>1, <3>3
      <4> QED
        BY <3>1, <3>2, <4>1, ToldType
    <3>4. CASE ~StatsDue(count)
      <4>1. ui' = [ui EXCEPT !.newTx = @ + 1, !.stats = ui.stats]
        BY <2>1, <3>2, <3>4 DEF Told
      <4> QED
        BY <3>2, <4>1, ToldType
    <3> QED
      BY <3>3, <3>4
  <2>5. ui'.newTx \in Nat /\ ui'.blocks \in Nat
    BY <2>4 DEF Told
  <2>6. entries' \in [Txid -> MempoolEntry \cup {NoEntry}]
    BY <2>2 DEF Map
  <2>7. receiverOpen' = (pc' # "stopped")
    BY <2>1
  <2>8. (current' # None) = (pc' \in {"resolving", "resolved"})
    BY <1>4, <2>1
  <2>9. channel' \in Seq(Event) /\ UNCHANGED <<senderOpen, uiOpen>>
    BY <1>4, <2>1 DEF TypeInv
  <2>10. pc' = "recv"
    BY <2>1
  <2> QED
    BY <1>3, <1>4, <1>5, <2>3, <2>4, <2>5, <2>6, <2>7, <2>8, <2>9, <2>10 DEF TypeInv, TypeOK
<1>7. CASE ~UiTakes
  <2>1. /\ pc' = "stopped" /\ receiverOpen' = FALSE /\ channel' = <<>>
        /\ entries' = added /\ UNCHANGED <<ui, lastStats, lastPrune>>
    BY <1>7 DEF TxAddedFinishes, Return
  <2>2. channel' \in Seq(Event)
    BY <2>1
  <2>3. entries' \in [Txid -> MempoolEntry \cup {NoEntry}]
    BY <1>1, <2>1 DEF Map
  <2>4. receiverOpen' = (pc' # "stopped")
    BY <2>1
  <2>5. (current' # None) = (pc' \in {"resolving", "resolved"})
    BY <1>4, <2>1
  <2> QED
    BY <1>3, <1>4, <1>5, <2>1, <2>2, <2>3, <2>4, <2>5 DEF TypeInv, TypeOK
<1> QED
  BY <1>6, <1>7

\* The task's other steps.
LEMMA TaskType ==
    ASSUME PipelineAssumption, TypeInv, PipelineNext
    PROVE  TypeInv'
<1> USE DEF mempoolVars, localVars, outVars, historyVars
<1>1. CASE RecvClosed
  <2>1. channel' = <<>> /\ channel' \in Seq(Event)
    BY <1>1 DEF RecvClosed, Return
  <2>2. pc' = "stopped" /\ receiverOpen' = FALSE /\ current = None /\ UNCHANGED current
    BY <1>1 DEF RecvClosed, Return, TypeInv, TypeOK
  <2>3. receiverOpen' = (pc' # "stopped")
    BY <2>2
  <2>4. (current' # None) = (pc' \in {"resolving", "resolved"})
    BY <2>2
  <2>5. UNCHANGED <<senderOpen, uiOpen, handled, entries, removalStats, lastStats, lastPrune,
                    lastSent, ui, now, txCount>>
    BY <1>1 DEF RecvClosed
  <2> QED
    BY <2>1, <2>2, <2>3, <2>4, <2>5 DEF TypeInv, TypeOK
<1>2. CASE TxAddedUnparsable
  <2>1. Receive("TxAdded") /\ handled' = Append(handled, Head(channel))
    BY <1>2 DEF TxAddedUnparsable, Handled
  <2>2. channel' \in Seq(Event) /\ handled' \in Seq(Event)
    BY <2>1, ReceiveType DEF TypeInv
  <2>3. UNCHANGED <<senderOpen, receiverOpen>>
    BY <2>1, ReceiveType
  <2> QED
    BY <1>2, <2>2, <2>3 DEF TxAddedUnparsable, TypeInv, TypeOK
<1>3. CASE TxAddedStarts
  <2>1. Receive("TxAdded") /\ Head(channel).raw # Garbage
    BY <1>3 DEF TxAddedStarts
  <2>2. channel' \in Seq(Event) /\ UNCHANGED <<senderOpen, receiverOpen>> /\ pc = "recv"
    BY <2>1, ReceiveType
  <2>3. Head(channel).raw \in Hash
    BY <2>1, ReceiveType DEF Event, Added, Gone, OfBlock
  <2>4. current' \in [hash : Hash, rate : Nat] /\ current' # None
    BY <1>3, <2>3 DEF TxAddedStarts, PipelineAssumption
  <2> QED
    BY <1>3, <2>2, <2>4 DEF TxAddedStarts, TypeInv, TypeOK
<1>4. ASSUME NEW score \in Score, TxAddedFinishes(score)
      PROVE  TypeInv'
  BY <1>4, FinishType
<1>5. CASE BlockConnectedHandler
  <2>1. Receive("BlockConnected") /\ handled' = Append(handled, Head(channel))
    BY <1>5 DEF BlockConnectedHandler, Handled
  <2>2. channel' \in Seq(Event) /\ handled' \in Seq(Event)
    BY <2>1, ReceiveType DEF TypeInv
  <2>3. UNCHANGED <<senderOpen, receiverOpen>>
    BY <2>1, ReceiveType
  <2>4. ui' \in Told
    <3>1. Stats(entries, removalStats, txCount)
              \in [pending : Nat, removals : Nat, at : Nat, after : Nat]
      BY StatsType DEF TypeInv, TypeOK, Map
    <3>2. ui' = IF uiOpen
                THEN [ui EXCEPT !.blocks = @ + 1,
                                !.stats = Stats(entries, removalStats, txCount)]
                ELSE ui
      BY <1>5 DEF BlockConnectedHandler
    <3> QED
      BY <3>1, <3>2, ToldType DEF TypeInv
  <2>5. ui'.newTx \in Nat /\ ui'.blocks \in Nat
    BY <2>4 DEF Told
  <2> QED
    BY <1>5, <2>2, <2>3, <2>4, <2>5 DEF BlockConnectedHandler, TypeInv, TypeOK
<1>6. CASE BlockDisconnectedHandler
  <2>1. Receive("BlockDisconnected") /\ handled' = Append(handled, Head(channel))
    BY <1>6 DEF BlockDisconnectedHandler, Handled
  <2>2. channel' \in Seq(Event) /\ handled' \in Seq(Event)
    BY <2>1, ReceiveType DEF TypeInv
  <2>3. UNCHANGED <<senderOpen, receiverOpen>>
    BY <2>1, ReceiveType
  <2> QED
    BY <1>6, <2>2, <2>3 DEF BlockDisconnectedHandler, TypeInv, TypeOK
<1>7. CASE TxRemovedHandler
  <2>1. Receive("TxRemoved") /\ handled' = Append(handled, Head(channel))
    BY <1>7 DEF TxRemovedHandler, Handled
  <2>2. channel' \in Seq(Event) /\ handled' \in Seq(Event)
    BY <2>1, ReceiveType DEF TypeInv
  <2>3. UNCHANGED <<senderOpen, receiverOpen>>
    BY <2>1, ReceiveType
  <2>4. entries' \in Map /\ removalStats' \in RemovalStats
    BY <1>7, RemovalTypes
  <2> QED
    BY <1>7, <2>2, <2>3, <2>4 DEF TxRemovedHandler, TypeInv, TypeOK, Map
<1> QED
  BY <1>1, <1>2, <1>3, <1>4, <1>5, <1>6, <1>7 DEF PipelineNext
\* Every step keeps the types.
LEMMA StepType ==
    ASSUME PipelineAssumption, TypeInv, [Next]_vars
    PROVE  TypeInv'
BY OutsideType, TaskType DEF Next

(* The variables keep their types, and a transaction is being handled      *)
(* exactly between the two halves of the TxAdded handler.                  *)
THEOREM TypeCorrect == Spec => []TypeOK
<1>1. Init => TypeInv
  BY PipelineAssumption, InitType
<1>2. TypeInv /\ [Next]_vars => TypeInv'
  BY PipelineAssumption, StepType
<1>3. TypeInv => TypeOK
  BY DEF TypeInv
<1> QED
  BY <1>1, <1>2, <1>3, PTL DEF Spec

-----------------------------------------------------------------------------
(* The steps, by what they disturb. *)

\* A step that handles no event to the end.
Quiet ==
    /\ UNCHANGED <<mempoolVars, localVars, outVars, historyVars>>
    /\ now <= now' /\ now' \in Nat
    /\ pc' # "stopped" => pc # "stopped"

\* A step that handles an event about no transaction that parses.
Unconcerned ==
    /\ UNCHANGED <<mempoolVars, scored, signals, now, pc, txCount, lastStats, lastPrune, lastSent>>
    /\ \E e \in Event :
          /\ handled' = Append(handled, e)
          /\ e.type # "TxRemoved"
          /\ \A h \in Hash : ~Concerns(e, h)

\* The handlers in two halves, and the others.
LEMMA StepKinds ==
    ASSUME PipelineAssumption, TypeInv, [Next]_vars
    PROVE  \/ Quiet
           \/ Unconcerned /\ (UNCHANGED <<ui, blockHeight>> \/ BlockConnectedHandler)
           \/ \E score \in Score : TxAddedFinishes(score)
           \/ TxRemovedHandler
<1> USE DEF mempoolVars, localVars, outVars, historyVars
<1>1. now \in Nat
  BY DEF TypeInv
<1>2. CASE SubscriberNext \/ (\E rate \in FeeRate : RpcAnswers(rate)) \/ CloseUi \/ Tick
           \/ UNCHANGED vars
  BY <1>1, <1>2 DEF SubscriberNext, SendEvent, CloseSender, RpcAnswers, CloseUi, Tick, vars, Quiet
<1>3. CASE RecvClosed
  BY <1>1, <1>3 DEF RecvClosed, Return, Quiet
<1>4. CASE TxAddedStarts
  BY <1>1, <1>4 DEF TxAddedStarts, Receive, Quiet
<1>5. CASE TxAddedUnparsable
  <2>1. Head(channel) \in Event /\ Head(channel).type = "TxAdded" /\ Head(channel).raw = Garbage
    BY <1>5, ReceiveType DEF TxAddedUnparsable
  <2>2. \A h \in Hash : ~Concerns(Head(channel), h)
    BY <2>1 DEF Concerns, PipelineAssumption
  <2> QED
    BY <1>5, <2>1, <2>2 DEF TxAddedUnparsable, Handled, Unconcerned
<1>6. CASE BlockConnectedHandler
  <2>1. Head(channel) \in Event /\ Head(channel).type = "BlockConnected"
    BY <1>6, ReceiveType DEF BlockConnectedHandler
  <2>2. \A h \in Hash : ~Concerns(Head(channel), h)
    BY <2>1 DEF Concerns
  <2> QED
    BY <1>6, <2>1, <2>2 DEF BlockConnectedHandler, Handled, Unconcerned
<1>7. CASE BlockDisconnectedHandler
  <2>1. Head(channel) \in Event /\ Head(channel).type = "BlockDisconnected"
    BY <1>7, ReceiveType DEF BlockDisconnectedHandler
  <2>2. \A h \in Hash : ~Concerns(Head(channel), h)
    BY <2>1 DEF Concerns
  <2> QED
    BY <1>7, <2>1, <2>2 DEF BlockDisconnectedHandler, Handled, Unconcerned
<1> QED
  BY <1>2, <1>3, <1>4, <1>5, <1>6, <1>7 DEF Next, PipelineNext

-----------------------------------------------------------------------------
(* The tracker mirrors the events. *)

\* Displayed hashes are as different as the hashes.
LEMMA ReversalIsOneToOne ==
    ASSUME NEW S, NEW s \in Seq(S), NEW t \in Seq(S), Reverse(s) = Reverse(t)
    PROVE  s = t
<1>1. DOMAIN Reverse(s) = 1..Len(s) /\ DOMAIN Reverse(t) = 1..Len(t)
  BY DEF Reverse
<1>2. Len(s) = Len(t) /\ Len(s) \in Nat
  BY <1>1
<1>3. ASSUME NEW i \in 1..Len(s)
      PROVE  s[i] = t[i]
  <2>1. Len(s) - i + 1 \in 1..Len(s)
    BY <1>2
  <2>2. Reverse(s)[Len(s) - i + 1] = s[i] /\ Reverse(t)[Len(s) - i + 1] = t[i]
    BY <1>2, <2>1 DEF Reverse
  <2> QED
    BY <2>2
<1> QED
  BY <1>2, <1>3, SeqEqual

\* An event handled is the last about what it concerns, and changes nothing
\* for the others.
LEMMA LastAfter ==
    ASSUME TypeInv, NEW e \in Event, handled' = Append(handled, e), NEW h \in Hash
    PROVE  LastIsAdd(h)' <=> IF Concerns(e, h) THEN e.type = "TxAdded" ELSE LastIsAdd(h)
<1> DEFINE n == Len(handled)
<1>1. /\ n \in Nat /\ DOMAIN handled = 1..n /\ DOMAIN handled' = 1..(n + 1)
      /\ handled'[n + 1] = e /\ \A i \in 1..n : handled'[i] = handled[i]
  BY DEF TypeInv
<1> HIDE DEF n
<1>2. CASE Concerns(e, h)
  <2>1. ASSUME NEW i \in DOMAIN handled',
               \A j \in DOMAIN handled' : Concerns(handled'[j], h) => j <= i
        PROVE  i = n + 1
    BY <1>1, <1>2, <2>1
  <2>2. ASSUME e.type = "TxAdded"
        PROVE  LastIsAdd(h)'
    BY <1>1, <1>2, <2>2 DEF LastIsAdd, Concerns
  <2>3. ASSUME LastIsAdd(h)'
        PROVE  e.type = "TxAdded"
    BY <1>1, <2>1, <2>3 DEF LastIsAdd, Concerns
  <2> QED
    BY <1>2, <2>2, <2>3
<1>3. CASE ~Concerns(e, h)
  <2>1. \A j \in DOMAIN handled' : Concerns(handled'[j], h) =>
            j \in DOMAIN handled /\ Concerns(handled[j], h)
    BY <1>1, <1>3
  <2>2. ASSUME LastIsAdd(h)
        PROVE  LastIsAdd(h)'
    <3>1. PICK i \in DOMAIN handled :
             /\ Concerns(handled[i], h) /\ handled[i].type = "TxAdded"
             /\ \A j \in DOMAIN handled : Concerns(handled[j], h) => j <= i
      BY <2>2 DEF LastIsAdd
    <3>2. i \in DOMAIN handled' /\ handled'[i] = handled[i]
      BY <1>1
    <3>3. \A j \in DOMAIN handled' : Concerns(handled'[j], h) => j <= i
      BY <2>1, <3>1
    <3> QED
      BY <3>1, <3>2, <3>3 DEF LastIsAdd, Concerns
  <2>3. ASSUME LastIsAdd(h)'
        PROVE  LastIsAdd(h)
    <3>1. PICK i \in DOMAIN handled' :
             /\ Concerns(handled'[i], h) /\ handled'[i].type = "TxAdded"
             /\ \A j \in DOMAIN handled' : Concerns(handled'[j], h) => j <= i
      BY <2>3 DEF LastIsAdd, Concerns
    <3>2. i \in DOMAIN handled /\ handled'[i] = handled[i]
      BY <1>1, <2>1, <3>1
    <3>3. \A j \in DOMAIN handled : Concerns(handled[j], h) => j <= i
      BY <1>1, <3>1
    <3> QED
      BY <3>1, <3>2, <3>3 DEF LastIsAdd
  <2> QED
    BY <1>3, <2>2, <2>3
<1> QED
  BY <1>2, <1>3
\* What a finished transaction does to the map, pruned or not.
LEMMA AfterFinish ==
    ASSUME PipelineAssumption, TypeInv, NEW score \in Score, TxAddedFinishes(score)
    PROVE  LET txid  == TxidOfParsed(current.hash)
               added == Inserted(entries, txid, current.rate, now)
           IN  /\ PendingTxids(entries') = PendingTxids(entries) \cup {txid}
               /\ Departed(entries') \subseteq Departed(entries) \ {txid}
               /\ \A t \in Departed(entries') : entries'[t] = entries[t]
               /\ UiTakes /\ PruneDue =>
                      \A t \in Departed(entries') : ~(entries[t].changedAt + MaxAge < now)
               /\ current.hash \in Hash /\ txid \in Txid
<1> DEFINE txid == TxidOfParsed(current.hash)
           added == Inserted(entries, txid, current.rate, now)
<1>1. /\ current.hash \in Hash /\ current.rate \in FeeRate /\ txid \in Txid
      /\ entries \in Map /\ now \in Nat
  BY FinishTypes DEF TypeInv, TypeOK, Map
<1> HIDE DEF txid
<1>2. /\ added \in Map /\ PendingTxids(added) = PendingTxids(entries) \cup {txid}
      /\ Departed(added) = Departed(entries) \ {txid}
      /\ \A t \in Departed(entries) \ {txid} : added[t] = entries[t]
  BY <1>1, AfterInsert
<1> HIDE DEF added
<1>3. /\ PendingTxids(Pruned(added, MaxAge, now)) = PendingTxids(added)
      /\ Departed(Pruned(added, MaxAge, now)) = Departed(added) \ Expired(added, MaxAge, now)
      /\ \A t \in Txid \ Expired(added, MaxAge, now) : Pruned(added, MaxAge, now)[t] = added[t]
  BY <1>1, <1>2, AfterPrune
<1>4. CASE UiTakes /\ PruneDue
  <2>1. entries' = Pruned(added, MaxAge, now)
    BY <1>4 DEF TxAddedFinishes, txid, added
  <2>2. \A t \in Departed(entries') :
            t \in Departed(added) /\ t \notin Expired(added, MaxAge, now) /\ t \in Txid
    BY <1>3, <2>1 DEF Departed, Tracked
  <2>3. \A t \in Departed(entries') :
            entries'[t] = entries[t] /\ ~(entries[t].changedAt + MaxAge < now)
    BY <1>2, <1>3, <2>1, <2>2 DEF Expired
  <2> QED
    BY <1>1, <1>2, <1>3, <2>1, <2>2, <2>3 DEF txid
<1>5. CASE ~(UiTakes /\ PruneDue)
  <2>1. entries' = added
    BY <1>5 DEF TxAddedFinishes, txid, added
  <2> QED
    BY <1>1, <1>2, <1>5, <2>1 DEF txid
<1> QED
  BY <1>4, <1>5

\* Every step keeps the mirror.
LEMMA MirrorStep ==
    ASSUME PipelineAssumption, TypeInv, PendingMirrorsEvents, [Next]_vars
    PROVE  PendingMirrorsEvents'
<1> DEFINE Mirrored == {g \in Hash : LastIsAdd(g)}
           MirroredNext == {g \in Hash : LastIsAdd(g)'}
<1>1. ASSUME NEW pending, NEW mirrored, pending = PendingTxids(entries'),
             mirrored = MirroredNext, pending = {TxidOfParsed(h) : h \in mirrored}
      PROVE  PendingMirrorsEvents'
  BY <1>1 DEF PendingMirrorsEvents, PendingTxids, Tracked
<1>2. PendingTxids(entries) = {TxidOfParsed(h) : h \in Mirrored}
  BY DEF PendingMirrorsEvents
<1>3. \A g, h \in Hash : TxidOfParsed(g) = TxidOfParsed(h) => g = h
  BY ReversalIsOneToOne DEF PipelineAssumption, TxidOfParsed
<1>4. CASE Quiet
  <2>1. entries' = entries /\ handled' = handled
    BY <1>4 DEF Quiet, mempoolVars, historyVars
  <2>2. MirroredNext = Mirrored
    BY <2>1 DEF LastIsAdd
  <2> QED
    BY <1>1, <1>2, <2>1, <2>2
<1>5. CASE Unconcerned
  <2>1. PICK e \in Event : /\ handled' = Append(handled, e)
                           /\ \A h \in Hash : ~Concerns(e, h)
    BY <1>5 DEF Unconcerned
  <2>2. entries' = entries
    BY <1>5 DEF Unconcerned, mempoolVars
  <2>3. MirroredNext = Mirrored
    BY <2>1, LastAfter
  <2> QED
    BY <1>1, <1>2, <2>2, <2>3
<1>6. ASSUME NEW score \in Score, TxAddedFinishes(score)
      PROVE  PendingMirrorsEvents'
  <2>1. current.hash \in Hash /\ handled' = Append(handled, TxAdded(current.hash))
    BY <1>6, AfterFinish DEF TxAddedFinishes, Handled
  <2>2. TxAdded(current.hash) \in Event
    BY <2>1 DEF TxAdded, Event, Added
  <2>3. \A h \in Hash : Concerns(TxAdded(current.hash), h) <=> h = current.hash
    BY DEF Concerns, TxAdded
  <2>4. TxAdded(current.hash).type = "TxAdded"
    BY DEF TxAdded
  <2>5. MirroredNext = Mirrored \cup {current.hash}
    BY <2>1, <2>2, <2>3, <2>4, LastAfter
  <2>6. PendingTxids(entries') = PendingTxids(entries) \cup {TxidOfParsed(current.hash)}
    BY <1>6, AfterFinish
  <2> HIDE DEF Mirrored, MirroredNext
  <2>7. PendingTxids(entries') = {TxidOfParsed(h) : h \in MirroredNext}
    BY <1>2, <2>5, <2>6
  <2> QED
    BY <1>1, <2>7
<1>7. CASE TxRemovedHandler
  <2> DEFINE e == Head(channel)
             txid == HexOfRemoved(e.txid)
  <2>1. /\ e \in Gone /\ txid \in Txid /\ entries \in Map
        /\ handled' = Append(handled, e)
        /\ entries' = Removed(entries, txid, "Unknown", now)
    BY <1>7, RemovalTypes
  <2>2. e \in Event /\ e.type = "TxRemoved" /\ e.txid \in Hash
    BY <2>1 DEF Event, Gone
  <2>3. \A h \in Hash : Concerns(e, h) <=> h = e.txid
    BY <2>2 DEF Concerns
  <2>4. MirroredNext = Mirrored \ {e.txid}
    BY <2>1, <2>2, <2>3, LastAfter
  <2>5. PendingTxids(entries') = PendingTxids(entries) \ {txid}
    <3>1. "Unknown" \in RemovalReason /\ now \in Nat
      BY DEF RemovalReason, TypeInv
    <3> HIDE DEF txid
    <3> QED
      BY <2>1, <3>1, AfterRemoval
  <2>6. txid = TxidOfParsed(e.txid)
    BY DEF HexOfRemoved, TxidOfParsed
  <2>7. Mirrored \subseteq Hash
    OBVIOUS
  <2> HIDE DEF Mirrored, MirroredNext, e, txid
  <2>8. PendingTxids(entries') = {TxidOfParsed(h) : h \in MirroredNext}
    BY <1>2, <1>3, <2>2, <2>4, <2>5, <2>6, <2>7
  <2> QED
    BY <1>1, <2>8
<1> QED
  BY <1>4, <1>5, <1>6, <1>7, StepKinds

\* Nothing is pending at the start.
LEMMA InitMirror ==
    ASSUME Init
    PROVE  PendingMirrorsEvents
<1>1. DOMAIN handled = {} /\ \A t \in Txid : entries[t] = NoEntry
  BY DEF Init
<1>2. PendingTxids(entries) = {} /\ \A h \in Hash : ~LastIsAdd(h)
  BY <1>1 DEF PendingTxids, Tracked, LastIsAdd
<1> QED
  BY <1>2 DEF PendingMirrorsEvents

(* The tracker mirrors the events handled: the pending transactions are    *)
(* those last announced, for any hashes and however long the wait for the  *)
(* prevouts is.                                                            *)
THEOREM MirrorCorrect == Spec => []PendingMirrorsEvents
<1>1. Init => TypeInv /\ PendingMirrorsEvents
  BY PipelineAssumption, InitType, InitMirror
<1>2. TypeInv /\ PendingMirrorsEvents /\ [Next]_vars => (TypeInv /\ PendingMirrorsEvents)'
  BY PipelineAssumption, StepType, MirrorStep
<1> QED
  BY <1>1, <1>2, PTL DEF Spec
-----------------------------------------------------------------------------
(* Removals. *)

RemovalsHandled == {i \in DOMAIN handled : handled[i].type = "TxRemoved"}

\* The history of events grows by one, which may be a removal.
LEMMA RemovalsAfter ==
    ASSUME TypeInv, NEW e \in Event, handled' = Append(handled, e)
    PROVE  /\ Cardinality(RemovalsHandled) \in Nat
           /\ Cardinality(RemovalsHandled') =
                  Cardinality(RemovalsHandled) + (IF e.type = "TxRemoved" THEN 1 ELSE 0)
<1> DEFINE n == Len(handled)
<1>1. /\ n \in Nat /\ DOMAIN handled = 1..n /\ DOMAIN handled' = 1..(n + 1)
      /\ handled'[n + 1] = e /\ \A i \in 1..n : handled'[i] = handled[i]
  BY DEF TypeInv
<1> HIDE DEF n
<1>2. IsFiniteSet(RemovalsHandled) /\ Cardinality(RemovalsHandled) \in Nat
  <2>1. IsFiniteSet(1..n) /\ RemovalsHandled \subseteq 1..n
    BY <1>1, FS_Interval DEF RemovalsHandled
  <2> QED
    BY <2>1, FS_Subset, FS_CardinalityType
<1>3. CASE e.type = "TxRemoved"
  <2>1. RemovalsHandled' = RemovalsHandled \cup {n + 1} /\ n + 1 \notin RemovalsHandled
    BY <1>1, <1>3 DEF RemovalsHandled
  <2> QED
    BY <1>2, <1>3, <2>1, FS_AddElement
<1>4. CASE e.type # "TxRemoved"
  <2>1. RemovalsHandled' = RemovalsHandled
    BY <1>1, <1>4 DEF RemovalsHandled
  <2> QED
    BY <1>2, <1>4, <2>1
<1> QED
  BY <1>3, <1>4

\* Every step keeps the sums.
LEMMA RemovalsStep ==
    ASSUME PipelineAssumption, TypeInv, RemovalsAddUp, [Next]_vars
    PROVE  RemovalsAddUp'
<1>1. /\ Total(removalStats) <= Cardinality(RemovalsHandled)
      /\ Cardinality(Departed(entries)) <= Total(removalStats)
  BY DEF RemovalsAddUp, RemovalsHandled
<1>2. SUFFICES /\ Total(removalStats') <= Cardinality(RemovalsHandled')
               /\ Cardinality(Departed(entries')) <= Total(removalStats')
  BY DEF RemovalsAddUp, RemovalsHandled, Departed, Tracked, Total
<1>3. /\ entries \in Map /\ removalStats \in RemovalStats /\ Total(removalStats) \in Nat
      /\ Departed(entries) \in SUBSET Txid /\ Cardinality(Departed(entries)) \in Nat
  <2>1. entries \in Map /\ removalStats \in RemovalStats
    BY DEF TypeInv, TypeOK, Map
  <2>2. Departed(entries) \in SUBSET Txid
    BY DEF Departed, Tracked
  <2> QED
    BY <2>1, <2>2, TxidSubset DEF Total, RemovalStats
<1>4. CASE Quiet
  BY <1>1, <1>4 DEF Quiet, mempoolVars, historyVars, RemovalsHandled
<1>5. CASE Unconcerned
  <2>1. PICK e \in Event : handled' = Append(handled, e) /\ e.type # "TxRemoved"
    BY <1>5 DEF Unconcerned
  <2>2. Cardinality(RemovalsHandled') = Cardinality(RemovalsHandled)
    BY <2>1, RemovalsAfter
  <2> QED
    BY <1>1, <1>5, <2>2 DEF Unconcerned, mempoolVars
<1>6. ASSUME NEW score \in Score, TxAddedFinishes(score)
      PROVE  /\ Total(removalStats') <= Cardinality(RemovalsHandled')
             /\ Cardinality(Departed(entries')) <= Total(removalStats')
  <2>1. /\ removalStats' = removalStats
        /\ handled' = Append(handled, TxAdded(current.hash))
    BY <1>6 DEF TxAddedFinishes, Handled
  <2>2. TxAdded(current.hash) \in Event /\ TxAdded(current.hash).type # "TxRemoved"
    BY <1>6, AfterFinish DEF TxAdded, Event, Added
  <2>3. Cardinality(RemovalsHandled') = Cardinality(RemovalsHandled)
    BY <2>1, <2>2, RemovalsAfter
  <2>4. Departed(entries') \subseteq Departed(entries)
    BY <1>6, AfterFinish
  <2>5. /\ Cardinality(Departed(entries')) \in Nat
        /\ Cardinality(Departed(entries')) <= Cardinality(Departed(entries))
    BY <1>3, <2>4, TxidSubset
  <2> QED
    BY <1>1, <1>3, <2>1, <2>3, <2>5
<1>7. CASE TxRemovedHandler
  <2> DEFINE e == Head(channel)
             txid == HexOfRemoved(e.txid)
  <2>1. /\ e \in Gone /\ txid \in Txid
        /\ handled' = Append(handled, e)
        /\ entries' = Removed(entries, txid, "Unknown", now)
        /\ removalStats' = StatsAfterRemoval(removalStats, entries, txid, "Unknown")
    BY <1>7, RemovalTypes
  <2>2. e \in Event /\ e.type = "TxRemoved"
    BY <2>1 DEF Event, Gone
  <2>3. /\ Cardinality(RemovalsHandled) \in Nat
        /\ Cardinality(RemovalsHandled') = Cardinality(RemovalsHandled) + 1
    BY <2>1, <2>2, RemovalsAfter
  <2>4. "Unknown" \in RemovalReason /\ now \in Nat
    BY DEF RemovalReason, TypeInv
  <2> HIDE DEF e, txid
  <2>5. Departed(entries') = Departed(entries) \cup ({txid} \cap Tracked(entries))
    BY <1>3, <2>1, <2>4, AfterRemoval
  <2>6. CASE Counts(entries, txid)
    <3>1. Total(removalStats') = Total(removalStats) + 1
      BY <1>3, <2>1, <2>4, <2>6, AfterTally DEF StatsAfterRemoval
    <3>2. /\ IsFiniteSet(Departed(entries) \cup {txid})
          /\ Cardinality(Departed(entries) \cup {txid}) <= Cardinality(Departed(entries)) + 1
          /\ Cardinality(Departed(entries) \cup {txid}) \in Nat
      <4>1. IsFiniteSet(Departed(entries))
        BY <1>3, TxidSubset
      <4>2. /\ IsFiniteSet(Departed(entries) \cup {txid})
            /\ Cardinality(Departed(entries) \cup {txid}) =
                   IF txid \in Departed(entries) THEN Cardinality(Departed(entries))
                                                ELSE Cardinality(Departed(entries)) + 1
        BY <4>1, FS_AddElement
      <4> QED
        BY <1>3, <4>2
    <3>3. /\ Cardinality(Departed(entries')) <= Cardinality(Departed(entries) \cup {txid})
          /\ Cardinality(Departed(entries')) \in Nat
      <4>1. Departed(entries') \subseteq Departed(entries) \cup {txid}
        BY <2>5
      <4> QED
        BY <3>2, <4>1, FS_Subset, FS_CardinalityType
    <3> QED
      BY <1>1, <1>3, <2>3, <3>1, <3>2, <3>3
  <2>7. CASE ~Counts(entries, txid)
    <3>1. txid \in Departed(entries)
      BY <2>1, <2>7 DEF Counts, Departed, Tracked
    <3>2. Departed(entries') = Departed(entries)
      BY <2>5, <3>1
    <3>3. removalStats' = removalStats
      BY <2>1, <2>7 DEF StatsAfterRemoval
    <3> QED
      BY <1>1, <1>3, <2>3, <3>2, <3>3
  <2> QED
    BY <2>6, <2>7
<1> QED
  BY <1>4, <1>5, <1>6, <1>7, StepKinds

(* The removals shown add up: no more are counted than were announced, and *)
(* every departed entry still held is among them.                          *)
THEOREM RemovalsCorrect == Spec => []RemovalsAddUp
<1>1. Init => TypeInv /\ RemovalsAddUp
  <2>1. SUFFICES ASSUME Init
                 PROVE  RemovalsAddUp
    BY PipelineAssumption, InitType
  <2>2. /\ {i \in DOMAIN handled : handled[i].type = "TxRemoved"} = {}
        /\ Departed(entries) = {}
    BY <2>1 DEF Init, Departed, Tracked
  <2>3. Total(removalStats) = 0
    BY <2>1 DEF Init, NoRemovals, Total
  <2>4. Cardinality({}) = 0
    BY FS_EmptySet
  <2> QED
    BY <2>2, <2>3, <2>4 DEF RemovalsAddUp
<1>2. TypeInv /\ RemovalsAddUp /\ [Next]_vars => (TypeInv /\ RemovalsAddUp)'
  BY PipelineAssumption, StepType, RemovalsStep
<1> QED
  BY <1>1, <1>2, PTL DEF Spec
-----------------------------------------------------------------------------
(* Notifications. *)

Scored == [txid : Txid, score : Nat, at : Nat, shown : BOOLEAN]

(* The notifier remembers when the last notification was shown.            *)
QuotaInv ==
    /\ scored \in Seq(Scored)
    /\ \A i \in DOMAIN scored : scored[i].at <= now
    /\ \/ lastSent = None /\ \A i \in DOMAIN scored : ~scored[i].shown
       \/ /\ \E i \in DOMAIN scored : scored[i].shown /\ scored[i].at = lastSent
          /\ \A i \in DOMAIN scored : scored[i].shown => scored[i].at <= lastSent
    /\ NotifierQuota

\* The times of the history are times, and past.
LEMMA ScoredAt ==
    ASSUME QuotaInv, NEW i \in DOMAIN scored
    PROVE  scored[i].at \in Nat /\ scored[i].at <= now
<1>1. scored \in Seq(Scored) /\ scored[i].at <= now
  BY DEF QuotaInv
<1>2. scored[i] \in Scored
  BY <1>1
<1> QED
  BY <1>1, <1>2 DEF Scored

\* A notification is due exactly when none was shown less than a cooldown ago.
LEMMA DueExactly ==
    ASSUME PipelineAssumption, TypeInv, QuotaInv, NEW score \in Nat
    PROVE  Notifies(score) <=>
               /\ NotifyEnabled /\ score >= NotifyMin
               /\ \A i \in DOMAIN scored : ~(scored[i].shown /\ now - scored[i].at < Cooldown)
<1>1. now \in Nat /\ Cooldown \in Nat
  BY DEF TypeInv, PipelineAssumption
<1>2. \A i \in DOMAIN scored : scored[i].at \in Nat /\ scored[i].at <= now
  BY ScoredAt
<1>3. CASE lastSent = None /\ \A i \in DOMAIN scored : ~scored[i].shown
  BY <1>3 DEF Notifies
<1>4. ASSUME NEW k \in DOMAIN scored, scored[k].shown, scored[k].at = lastSent,
             \A i \in DOMAIN scored : scored[i].shown => scored[i].at <= lastSent
      PROVE  Notifies(score) <=>
                 /\ NotifyEnabled /\ score >= NotifyMin
                 /\ \A i \in DOMAIN scored : ~(scored[i].shown /\ now - scored[i].at < Cooldown)
  <2>1. lastSent \in Nat /\ lastSent # None /\ lastSent <= now
    BY <1>2, <1>4 DEF PipelineAssumption
  <2>2. Notifies(score) <=> NotifyEnabled /\ score >= NotifyMin /\ now - lastSent >= Cooldown
    BY <2>1 DEF Notifies
  <2>3. ASSUME now - lastSent >= Cooldown, NEW i \in DOMAIN scored, scored[i].shown
        PROVE  ~(now - scored[i].at < Cooldown)
    BY <1>1, <1>2, <1>4, <2>1, <2>3
  <2>4. ASSUME ~(now - lastSent >= Cooldown)
        PROVE  scored[k].shown /\ now - scored[k].at < Cooldown
    BY <1>1, <1>4, <2>1, <2>4
  <2> QED
    BY <2>2, <2>3, <2>4
<1> QED
  BY <1>3, <1>4 DEF QuotaInv

\* A scored transaction.
LEMMA QuotaFinish ==
    ASSUME PipelineAssumption, TypeInv, QuotaInv, NEW score \in Score, TxAddedFinishes(score)
    PROVE  QuotaInv'
<1> DEFINE n == Len(scored)
           row == [txid |-> TxidOfParsed(current.hash), score |-> score, at |-> now,
                   shown |-> Notifies(score)]
<1>1. /\ scored' = Append(scored, row) /\ lastSent' = SentAt(score) /\ now' = now
      /\ now \in Nat /\ score \in Nat
  BY FinishTypes DEF TxAddedFinishes, TypeInv
<1>2. Notifies(score) \in BOOLEAN
  BY DEF Notifies
<1>3. row \in Scored
  BY <1>1, <1>2, AfterFinish DEF Scored
<1>4. row.score = score /\ row.at = now /\ (row.shown <=> Notifies(score))
  OBVIOUS
<1> HIDE DEF row
<1>5. /\ scored' \in Seq(Scored) /\ n \in Nat
      /\ DOMAIN scored = 1..n /\ DOMAIN scored' = 1..(n + 1)
      /\ scored'[n + 1] = row /\ \A i \in 1..n : scored'[i] = scored[i]
  BY <1>1, <1>3 DEF QuotaInv
<1> HIDE DEF n
<1>6. \A i \in DOMAIN scored' : scored'[i].at <= now'
  BY <1>1, <1>4, <1>5 DEF QuotaInv
<1>7. \/ lastSent' = None /\ \A i \in DOMAIN scored' : ~scored'[i].shown
      \/ /\ \E i \in DOMAIN scored' : scored'[i].shown /\ scored'[i].at = lastSent'
         /\ \A i \in DOMAIN scored' : scored'[i].shown => scored'[i].at <= lastSent'
  <2>1. CASE Notifies(score)
    <3>1. lastSent' = now
      BY <1>1, <2>1 DEF SentAt
    <3>2. scored'[n + 1].shown /\ scored'[n + 1].at = lastSent' /\ n + 1 \in DOMAIN scored'
      BY <1>4, <1>5, <2>1, <3>1
    <3> QED
      BY <1>1, <1>6, <3>1, <3>2
  <2>2. CASE ~Notifies(score)
    <3>1. lastSent' = lastSent
      BY <1>1, <2>2 DEF SentAt
    <3>2. ~scored'[n + 1].shown
      BY <1>4, <1>5, <2>2
    <3>3. CASE lastSent = None /\ \A i \in DOMAIN scored : ~scored[i].shown
      BY <1>5, <3>1, <3>2, <3>3
    <3>4. CASE /\ \E i \in DOMAIN scored : scored[i].shown /\ scored[i].at = lastSent
               /\ \A i \in DOMAIN scored : scored[i].shown => scored[i].at <= lastSent
      BY <1>5, <3>1, <3>2, <3>4
    <3> QED
      BY <3>3, <3>4 DEF QuotaInv
  <2> QED
    BY <2>1, <2>2
<1>8. NotifierQuota'
  <2>1. SUFFICES ASSUME NEW j \in DOMAIN scored'
                 PROVE  scored'[j].shown <=>
                            /\ NotifyEnabled /\ scored'[j].score >= NotifyMin
                            /\ \A i \in 1..(j - 1) :
                                  ~(scored'[i].shown /\ scored'[j].at - scored'[i].at < Cooldown)
    BY DEF NotifierQuota
  <2>2. CASE j \in 1..n
    <3>1. scored'[j] = scored[j] /\ \A i \in 1..(j - 1) : scored'[i] = scored[i]
      BY <1>5, <2>2
    <3>2. j \in DOMAIN scored
      BY <1>5, <2>2
    <3>3. scored[j].shown <=>
              /\ NotifyEnabled /\ scored[j].score >= NotifyMin
              /\ \A i \in 1..(j - 1) : ~(scored[i].shown /\ scored[j].at - scored[i].at < Cooldown)
      BY <3>2 DEF QuotaInv, NotifierQuota
    <3> QED
      BY <3>1, <3>3
  <2>3. CASE j = n + 1
    <3>1. /\ j - 1 = n /\ scored'[j].at = now /\ scored'[j].score = score
          /\ (scored'[j].shown <=> Notifies(score))
      BY <1>4, <1>5, <2>3
    <3>2. Notifies(score) <=>
              /\ NotifyEnabled /\ score >= NotifyMin
              /\ \A i \in 1..n : ~(scored[i].shown /\ now - scored[i].at < Cooldown)
      BY <1>1, <1>5, DueExactly
    <3> QED
      BY <1>5, <3>1, <3>2
  <2> QED
    BY <1>5, <2>2, <2>3
<1> QED
  BY <1>5, <1>6, <1>7, <1>8 DEF QuotaInv

\* Every step keeps the quota.
LEMMA QuotaStep ==
    ASSUME PipelineAssumption, TypeInv, QuotaInv, [Next]_vars
    PROVE  QuotaInv'
<1>1. ASSUME UNCHANGED <<scored, lastSent>>, now <= now', now' \in Nat
      PROVE  QuotaInv'
  <2>1. \A i \in DOMAIN scored : scored[i].at <= now'
    BY <1>1, ScoredAt DEF TypeInv
  <2> QED
    BY <1>1, <2>1 DEF QuotaInv, NotifierQuota
<1>2. CASE Quiet
  BY <1>1, <1>2 DEF Quiet, localVars, historyVars
<1>3. CASE Unconcerned
  BY <1>1, <1>3 DEF Unconcerned, TypeInv
<1>4. CASE TxRemovedHandler
  BY <1>1, <1>4 DEF TxRemovedHandler, localVars, TypeInv
<1> QED
  BY <1>2, <1>3, <1>4, QuotaFinish, StepKinds

(* A transaction gets a notification exactly when it deserves one and none *)
(* was shown less than a cooldown before, for any scores and any times.    *)
THEOREM QuotaCorrect == Spec => []NotifierQuota
<1>1. Init => TypeInv /\ QuotaInv
  <2>1. SUFFICES ASSUME Init
                 PROVE  QuotaInv
    BY PipelineAssumption, InitType
  <2>2. scored \in Seq(Scored) /\ DOMAIN scored = {} /\ lastSent = None
    BY <2>1 DEF Init
  <2> QED
    BY <2>2 DEF QuotaInv, NotifierQuota
<1>2. TypeInv /\ QuotaInv /\ [Next]_vars => (TypeInv /\ QuotaInv)'
  BY PipelineAssumption, StepType, QuotaStep
<1>3. QuotaInv => NotifierQuota
  BY DEF QuotaInv
<1> QED
  BY <1>1, <1>2, <1>3, PTL DEF Spec
-----------------------------------------------------------------------------
(* Signals. *)

\* What is queued for the database names a transaction.
SignalRow == [txid : Txid, score : Nat, block : Nat]

(* Queued entry by queued entry, the transactions above the threshold.     *)
SignalInv ==
    /\ scored \in Seq(Scored) /\ signals \in Seq(SignalRow) /\ blockHeight \in Nat
    /\ Len(signals) = Len(Selected(scored, Loud))
    /\ \A i \in DOMAIN signals :
          /\ signals[i].txid = Selected(scored, Loud)[i].txid
          /\ signals[i].score = Selected(scored, Loud)[i].score

LEMMA SignalFinish ==
    ASSUME PipelineAssumption, TypeInv, SignalInv, NEW score \in Score, TxAddedFinishes(score)
    PROVE  SignalInv'
<1> DEFINE txid == TxidOfParsed(current.hash)
           row == [txid |-> txid, score |-> score, at |-> now, shown |-> Notifies(score)]
           entry == SignalEntry(txid, score)
           loud == Selected(scored, Loud)
           n == Len(signals)
<1>1. /\ scored' = Append(scored, row) /\ blockHeight' = blockHeight
      /\ signals' = IF Persisted(score) THEN Append(signals, entry) ELSE signals
      /\ now \in Nat /\ score \in Nat /\ txid \in Txid
  BY FinishTypes, AfterFinish DEF TxAddedFinishes, TypeInv
<1>2. /\ row \in Scored /\ (row \in Loud <=> Persisted(score))
      /\ row.txid = txid /\ row.score = score
  <2>1. Notifies(score) \in BOOLEAN
    BY DEF Notifies
  <2> QED
    BY <1>1, <2>1 DEF Scored, Loud, Persisted
<1>3. entry \in SignalRow /\ entry.txid = txid /\ entry.score = score
  BY <1>1 DEF SignalEntry, SignalRow, SignalInv
<1> HIDE DEF row, entry, txid
<1>4. /\ scored \in Seq(Scored) /\ signals \in Seq(SignalRow) /\ n \in Nat
      /\ DOMAIN signals = 1..n /\ Len(loud) = n /\ blockHeight \in Nat
      /\ \A i \in 1..n : signals[i].txid = loud[i].txid /\ signals[i].score = loud[i].score
  BY DEF SignalInv
<1>5. loud \in Seq(Scored)
  <2>1. loud \in Seq(Scored \cap Loud)
    BY <1>4, SelectedAt
  <2> QED
    BY <2>1
<1>6. Selected(scored', Loud) = IF row \in Loud THEN Append(loud, row) ELSE loud
  BY <1>1, <1>2, <1>4, SelectedAppend
<1>7. scored' \in Seq(Scored) /\ blockHeight' \in Nat
  BY <1>1, <1>2, <1>4
<1> HIDE DEF loud, n
<1>8. CASE Persisted(score)
  <2>1. signals' = Append(signals, entry) /\ Selected(scored', Loud) = Append(loud, row)
    BY <1>1, <1>2, <1>6, <1>8
  <2>2. /\ signals' \in Seq(SignalRow) /\ DOMAIN signals' = 1..(n + 1)
        /\ Len(signals') = n + 1 /\ signals'[n + 1] = entry
        /\ \A i \in 1..n : signals'[i] = signals[i]
    BY <1>3, <1>4, <2>1 DEF n
  <2>3. /\ Len(Append(loud, row)) = n + 1 /\ Append(loud, row)[n + 1] = row
        /\ \A i \in 1..n : Append(loud, row)[i] = loud[i]
    BY <1>2, <1>4, <1>5
  <2>4. ASSUME NEW i \in 1..(n + 1)
        PROVE  /\ signals'[i].txid = Append(loud, row)[i].txid
               /\ signals'[i].score = Append(loud, row)[i].score
    <3>1. i \in 1..n \/ i = n + 1
      <4>1. n \in Nat
        BY <1>4
      <4> QED
        BY <4>1
    <3> QED
      BY <1>2, <1>3, <1>4, <2>2, <2>3, <3>1, Zenon
  <2> QED
    BY <1>7, <2>1, <2>2, <2>3, <2>4, Zenon DEF SignalInv
<1>9. CASE ~Persisted(score)
  <2>1. signals' = signals /\ Selected(scored', Loud) = loud
    BY <1>1, <1>2, <1>6, <1>9
  <2> QED
    BY <1>4, <1>7, <2>1 DEF SignalInv, n
<1> QED
  BY <1>8, <1>9

LEMMA SignalStep ==
    ASSUME PipelineAssumption, TypeInv, SignalInv, [Next]_vars
    PROVE  SignalInv'
<1>1. ASSUME UNCHANGED <<scored, signals>>, blockHeight' \in Nat
      PROVE  SignalInv'
  BY <1>1 DEF SignalInv
<1>2. CASE Quiet
  BY <1>1, <1>2 DEF Quiet, localVars, outVars, historyVars, SignalInv
<1>3. CASE Unconcerned /\ BlockConnectedHandler
  <2>1. Head(channel) \in Event /\ Head(channel).type = "BlockConnected"
    BY <1>3, ReceiveType DEF BlockConnectedHandler
  <2>2. Head(channel).height = 0
    BY <2>1 DEF Event, Added, Gone, OfBlock
  <2>3. blockHeight' = blockHeight
    BY <1>3, <2>2 DEF BlockConnectedHandler
  <2> QED
    BY <1>1, <1>3, <2>3 DEF Unconcerned, SignalInv
<1>4. CASE Unconcerned /\ UNCHANGED <<ui, blockHeight>>
  BY <1>1, <1>4 DEF Unconcerned, SignalInv
<1>5. CASE TxRemovedHandler
  BY <1>1, <1>5 DEF TxRemovedHandler, localVars, outVars, SignalInv
<1> QED
  BY <1>2, <1>3, <1>4, <1>5, SignalFinish, StepKinds

(* Every transaction above the noise threshold is queued for the database, *)
(* once and in order, whatever is announced and scored and whenever the UI *)
(* goes.                                                                   *)
THEOREM SignalsCorrect == Spec => []SignalsComplete
<1>1. Init => TypeInv /\ SignalInv
  <2>1. SUFFICES ASSUME Init
                 PROVE  SignalInv
    BY PipelineAssumption, InitType
  <2>2. scored = <<>> /\ signals = <<>> /\ blockHeight = 0
    BY <2>1 DEF Init
  <2>3. Selected(scored, Loud) = <<>>
    BY <2>2, SelectedEmpty
  <2> QED
    BY <2>2, <2>3 DEF SignalInv
<1>2. TypeInv /\ SignalInv /\ [Next]_vars => (TypeInv /\ SignalInv)'
  BY PipelineAssumption, StepType, SignalStep
<1>3. SignalInv => SignalsComplete
  <2>1. SUFFICES ASSUME SignalInv
                 PROVE  SignalsComplete
    OBVIOUS
  <2> DEFINE loud == Selected(scored, Loud)
  <2>2. loud \in Seq(Scored \cap Loud)
    BY <2>1, SelectedAt DEF SignalInv
  <2> HIDE DEF loud
  <2>3. DOMAIN loud = 1..Len(loud) /\ DOMAIN signals = 1..Len(signals)
        /\ Len(signals) = Len(loud)
    BY <2>1, <2>2 DEF SignalInv, loud
  <2>4. \A i \in DOMAIN signals : signals[i].txid = loud[i].txid /\ signals[i].score = loud[i].score
    BY <2>1 DEF SignalInv, loud
  <2> QED
    BY <2>3, <2>4 DEF SignalsComplete, loud
<1> QED
  BY <1>1, <1>2, <1>3, PTL DEF Spec
-----------------------------------------------------------------------------
(* Pruning. *)

(* What was departed for longer than MaxAge at the last prune is gone.     *)
PruneInv ==
    \A t \in Departed(entries) : lastPrune <= entries[t].changedAt + MaxAge

\* The time at which an entry departed is a time.
LEMMA ChangedAtType ==
    ASSUME TypeInv, NEW t \in Departed(entries)
    PROVE  entries[t].changedAt \in Nat
<1>1. entries \in Map /\ t \in Txid /\ entries[t] # NoEntry
  BY DEF TypeInv, TypeOK, Map, Departed, Tracked
<1>2. entries[t] \in MempoolEntry
  BY <1>1 DEF Map
<1> QED
  BY <1>2 DEF MempoolEntry

\* Every step keeps the invariant: what departs later is younger.
LEMMA PruneStep ==
    ASSUME PipelineAssumption, TypeInv, PruneInv, [Next]_vars
    PROVE  PruneInv'
<1>1. /\ now \in Nat /\ lastPrune \in Nat /\ lastPrune <= now /\ MaxAge \in Nat
      /\ entries \in Map
  BY DEF TypeInv, TypeOK, PipelineAssumption, Map
<1>2. SUFFICES \A t \in Departed(entries') : lastPrune' <= entries'[t].changedAt + MaxAge
  BY DEF PruneInv, Departed, Tracked
<1>3. CASE UNCHANGED <<entries, lastPrune>>
  BY <1>3 DEF PruneInv
<1>4. ASSUME NEW score \in Score, TxAddedFinishes(score), NEW t \in Departed(entries')
      PROVE  lastPrune' <= entries'[t].changedAt + MaxAge
  <2>1. t \in Departed(entries) /\ entries'[t] = entries[t]
    BY <1>4, AfterFinish
  <2>2. CASE UiTakes /\ PruneDue
    <3>1. lastPrune' = now /\ ~(entries[t].changedAt + MaxAge < now)
      BY <1>4, <2>2, AfterFinish DEF TxAddedFinishes
    <3> QED
      BY <1>1, <2>1, <3>1, ChangedAtType
  <2>3. CASE ~(UiTakes /\ PruneDue)
    <3>1. lastPrune' = lastPrune
      BY <1>4, <2>3 DEF TxAddedFinishes
    <3> QED
      BY <2>1, <3>1 DEF PruneInv
  <2> QED
    BY <2>2, <2>3
<1>5. ASSUME TxRemovedHandler, NEW t \in Departed(entries')
      PROVE  lastPrune' <= entries'[t].changedAt + MaxAge
  <2> DEFINE txid == HexOfRemoved(Head(channel).txid)
  <2>1. entries' = Removed(entries, txid, "Unknown", now) /\ txid \in Txid
    BY <1>5, RemovalTypes
  <2>2. "Unknown" \in RemovalReason
    BY DEF RemovalReason
  <2>3. lastPrune' = lastPrune
    BY <1>5 DEF TxRemovedHandler, localVars
  <2> HIDE DEF txid
  <2>4. /\ Departed(entries') = Departed(entries) \cup ({txid} \cap Tracked(entries))
        /\ \A u \in Txid \ {txid} : entries'[u] = entries[u]
        /\ txid \in Tracked(entries) => entries'[txid].changedAt = now
    BY <1>1, <2>1, <2>2, AfterRemoval
  <2>5. CASE t = txid
    <3>1. entries'[t].changedAt = now
      BY <1>5, <2>4, <2>5 DEF Departed
    <3> QED
      BY <1>1, <2>3, <3>1
  <2>6. CASE t # txid
    <3>1. t \in Departed(entries) /\ entries'[t] = entries[t]
      BY <1>5, <2>4, <2>6 DEF Departed, Tracked
    <3> QED
      BY <2>3, <3>1 DEF PruneInv
  <2> QED
    BY <2>5, <2>6
<1>6. CASE Quiet \/ Unconcerned
  BY <1>3, <1>6 DEF Quiet, Unconcerned, mempoolVars, localVars
<1> QED
  BY <1>4, <1>5, <1>6, StepKinds

\* The number of transactions changes only when one has been handled.
LEMMA CountedOnFinish ==
    ASSUME PipelineAssumption, TypeInv, [Next]_vars, txCount' # txCount, pc' = "recv"
    PROVE  \E score \in Score : TxAddedFinishes(score) /\ UiTakes
<1>1. ASSUME NEW score \in Score, TxAddedFinishes(score)
      PROVE  UiTakes
  BY <1>1 DEF TxAddedFinishes, Return
<1>2. ~(Quiet \/ Unconcerned \/ TxRemovedHandler)
  BY DEF Quiet, Unconcerned, TxRemovedHandler, localVars
<1> QED
  BY <1>1, <1>2, StepKinds

(* Each time a transaction has been handled, no departed entry is held for *)
(* longer than MaxAge and one prune interval, for any rate of events.      *)
THEOREM PruningCorrect == Spec => PrunedInTime
<1>1. Init => TypeInv /\ PruneInv
  <2>1. SUFFICES ASSUME Init
                 PROVE  PruneInv
    BY PipelineAssumption, InitType
  <2>2. Departed(entries) = {}
    BY <2>1 DEF Init, Departed, Tracked
  <2> QED
    BY <2>2 DEF PruneInv
<1>2. TypeInv /\ PruneInv /\ [Next]_vars => (TypeInv /\ PruneInv)'
  BY PipelineAssumption, StepType, PruneStep
<1>3. TypeInv /\ PruneInv /\ [Next]_vars =>
          [txCount' # txCount /\ pc' = "recv" =>
              \A t \in Departed(entries') : now < entries'[t].changedAt + MaxAge + PruneInterval]_vars
  <2>1. SUFFICES ASSUME TypeInv, PruneInv, [Next]_vars, txCount' # txCount, pc' = "recv",
                        NEW t \in Departed(entries')
                 PROVE  now < entries'[t].changedAt + MaxAge + PruneInterval
    OBVIOUS
  <2>2. PICK score \in Score : TxAddedFinishes(score) /\ UiTakes
    BY <2>1, PipelineAssumption, CountedOnFinish
  <2>3. /\ t \in Departed(entries) /\ entries'[t] = entries[t]
        /\ PruneDue => ~(entries[t].changedAt + MaxAge < now)
    BY <2>1, <2>2, PipelineAssumption, AfterFinish
  <2>4. /\ entries[t].changedAt \in Nat
        /\ lastPrune <= entries[t].changedAt + MaxAge
    BY <2>1, <2>3, ChangedAtType DEF PruneInv
  <2>5. /\ now \in Nat /\ lastPrune \in Nat /\ lastPrune <= now
        /\ MaxAge \in Nat /\ PruneInterval \in Nat \ {0}
    BY <2>1, PipelineAssumption DEF TypeInv, TypeOK, PipelineAssumption
  <2>6. CASE PruneDue
    BY <2>3, <2>4, <2>5, <2>6
  <2>7. CASE ~PruneDue
    BY <2>3, <2>4, <2>5, <2>7 DEF PruneDue
  <2> QED
    BY <2>6, <2>7
<1> QED
  BY <1>1, <1>2, <1>3, PTL DEF Spec, PrunedInTime

-----------------------------------------------------------------------------
(* Statistics. *)

\* Division with remainder.
LEMMA DivMod ==
    ASSUME NEW n \in Nat, NEW S \in Nat \ {0}
    PROVE  n % S \in 0..(S - 1) /\ n \div S \in Nat /\ n = (S * (n \div S)) + (n % S)
<1>1. n % S \in 0..(S - 1) /\ n = (S * (n \div S)) + (n % S)
  OBVIOUS
<1>2. n \div S \in Nat
  OBVIOUS
<1> QED
  BY <1>1, <1>2

\* The remainder counts up until it is 0 again.
LEMMA NextMod ==
    ASSUME NEW n \in Nat, NEW m \in Nat, m = n + 1, NEW S \in Nat \ {0}, m % S # 0
    PROVE  m % S = (n % S) + 1
<1>1. PICK q \in Nat, r \in 0..(S - 1) : n = (S * q) + r /\ r = n % S
  BY DivMod
<1>2. PICK p \in Nat, s \in 0..(S - 1) : m = (S * p) + s /\ s = m % S
  BY DivMod
<1>3. s \in 1..(S - 1)
  BY <1>2
<1>4. S * (p - q) = r + 1 - s
  BY <1>1, <1>2
<1>5. CASE p = q
  <2>1. r + 1 = s
    BY <1>4, <1>5
  <2> QED
    BY <1>1, <1>2, <2>1
<1>6. CASE p - q >= 1
  <2>1. S * (p - q) >= S
    BY <1>6
  <2> QED
    BY <2>1, <1>3, <1>4
<1>7. CASE p - q <= -1
  <2>1. S * (p - q) <= -S
    BY <1>7
  <2> QED
    BY <2>1, <1>3, <1>4
<1> QED
  BY <1>5, <1>6, <1>7

(* The statistics shown are at least as new as the last that were due, and *)
(* so is the number of transactions after which they were made.            *)
StatsInv ==
    pc # "stopped" =>
        /\ lastStats <= ui.stats.at
        /\ txCount <= ui.stats.after + (txCount % StatsTx)

\* Statistics are made now, of what has been counted.
LEMMA MadeNow ==
    ASSUME NEW es, NEW stats, NEW count
    PROVE  Stats(es, stats, count).at = now /\ Stats(es, stats, count).after = count
BY DEF Stats

\* What a transaction leaves of the statistics while the UI is there.
LEMMA StatsAfterTx ==
    ASSUME PipelineAssumption, TypeInv, StatsInv, NEW score \in Score, TxAddedFinishes(score),
           UiTakes
    PROVE  /\ txCount' = txCount + 1 /\ txCount' \in Nat
           /\ ui'.stats.at \in Nat /\ ui'.stats.after \in Nat
           /\ lastStats' <= ui'.stats.at
           /\ txCount' <= ui'.stats.after + (txCount' % StatsTx)
           /\ now < ui'.stats.at + StatsTime
<1> DEFINE count == txCount + 1
<1>1. /\ now \in Nat /\ count \in Nat /\ StatsTx \in Nat \ {0} /\ StatsTime \in Nat \ {0}
      /\ lastStats \in Nat /\ lastStats <= now /\ pc # "stopped" /\ txCount' = count
      /\ txCount \in Nat
  <2>1. StatsTx \in Nat \ {0} /\ StatsTime \in Nat \ {0}
    BY DEF PipelineAssumption
  <2>2. now \in Nat /\ lastStats \in Nat /\ lastStats <= now /\ txCount \in Nat
    BY DEF TypeInv, TypeOK
  <2>3. pc = "resolved"
    BY DEF TxAddedFinishes
  <2>4. txCount' = count
    BY DEF TxAddedFinishes
  <2> QED
    BY <2>1, <2>2, <2>3, <2>4
<1>2. /\ ui.stats \in [pending : Nat, removals : Nat, at : Nat, after : Nat]
      /\ ui.stats.at \in Nat /\ ui.stats.after \in Nat
  BY DEF TypeInv, Told
<1>3. ui'.stats \in [pending : Nat, removals : Nat, at : Nat, after : Nat]
      /\ ui'.stats.at \in Nat /\ ui'.stats.after \in Nat
  BY FinishType DEF TypeInv, Told
<1>4. CASE StatsDue(count)
  <2>1. /\ lastStats' = now
        /\ ui'.stats.at = now /\ ui'.stats.after = count
    <3>1. PICK es : ui' = [ui EXCEPT !.newTx = @ + 1, !.stats = Stats(es, removalStats, count)]
      BY <1>4 DEF TxAddedFinishes
    <3>2. ui'.stats = Stats(es, removalStats, count)
      BY <3>1 DEF TypeInv, Told
    <3>3. lastStats' = now
      BY <1>4 DEF TxAddedFinishes
    <3> QED
      BY <3>2, <3>3, MadeNow
  <2>2. count % StatsTx \in 0..(StatsTx - 1)
    BY <1>1, DivMod
  <2> HIDE DEF count
  <2> QED
    BY <1>1, <1>3, <2>1, <2>2 DEF count
<1>5. CASE ~StatsDue(count)
  <2>1. lastStats' = lastStats /\ ui'.stats = ui.stats
    <3>1. /\ lastStats' = lastStats
          /\ ui' = [ui EXCEPT !.newTx = @ + 1, !.stats = @]
      BY <1>5 DEF TxAddedFinishes
    <3> QED
      BY <3>1 DEF TypeInv, Told
  <2>2. count % StatsTx # 0 /\ now - lastStats < StatsTime
    BY <1>1, <1>5 DEF StatsDue
  <2>3. count % StatsTx = (txCount % StatsTx) + 1
    BY <1>1, <2>2, NextMod
  <2>4. txCount % StatsTx \in 0..(StatsTx - 1)
    BY <1>1, DivMod
  <2>5. lastStats <= ui.stats.at /\ txCount <= ui.stats.after + (txCount % StatsTx)
    BY <1>1 DEF StatsInv
  <2>6. count <= ui.stats.after + (count % StatsTx)
    BY <1>1, <1>2, <2>3, <2>4, <2>5
  <2>7. now < ui.stats.at + StatsTime
    BY <1>1, <1>2, <2>2, <2>5
  <2> HIDE DEF count
  <2> QED
    BY <1>1, <1>2, <2>1, <2>5, <2>6, <2>7 DEF count
<1> QED
  BY <1>4, <1>5

\* Every step keeps the invariant.
LEMMA StatsStep ==
    ASSUME PipelineAssumption, TypeInv, StatsInv, [Next]_vars
    PROVE  StatsInv'
<1>1. ASSUME UNCHANGED <<lastStats, txCount, ui>>, pc' # "stopped" => pc # "stopped"
      PROVE  StatsInv'
  BY <1>1 DEF StatsInv
<1>2. CASE Quiet
  BY <1>1, <1>2 DEF Quiet, localVars, outVars
<1>3. CASE Unconcerned /\ UNCHANGED ui
  BY <1>1, <1>3 DEF Unconcerned
<1>4. CASE BlockConnectedHandler
  <2>1. CASE ~uiOpen
    BY <1>1, <1>4, <2>1 DEF BlockConnectedHandler
  <2>2. CASE uiOpen
    <3>1. ui' = [ui EXCEPT !.blocks = @ + 1, !.stats = Stats(entries, removalStats, txCount)]
      BY <1>4, <2>2 DEF BlockConnectedHandler
    <3>2. ui'.stats = Stats(entries, removalStats, txCount)
      BY <3>1 DEF TypeInv, Told
    <3>3. ui'.stats.at = now /\ ui'.stats.after = txCount
      BY <3>2, MadeNow
    <3>4. UNCHANGED <<lastStats, txCount>> /\ lastStats <= now /\ txCount \in Nat
      BY <1>4 DEF BlockConnectedHandler, TypeInv, TypeOK
    <3>5. txCount % StatsTx \in Nat
      BY <3>4, DivMod DEF PipelineAssumption
    <3> QED
      BY <3>3, <3>4, <3>5 DEF StatsInv
  <2> QED
    BY <2>1, <2>2
<1>5. ASSUME NEW score \in Score, TxAddedFinishes(score)
      PROVE  StatsInv'
  <2>1. CASE UiTakes
    BY <1>5, <2>1, StatsAfterTx DEF StatsInv
  <2>2. CASE ~UiTakes
    BY <1>5, <2>2 DEF TxAddedFinishes, Return, StatsInv
  <2> QED
    BY <2>1, <2>2
<1>6. CASE TxRemovedHandler
  BY <1>1, <1>6 DEF TxRemovedHandler, localVars, outVars
<1> QED
  BY <1>2, <1>3, <1>4, <1>5, <1>6, StepKinds

(* Each time a transaction has been handled, the UI has statistics younger *)
(* than StatsTime and fewer than StatsTx transactions old.                 *)
THEOREM StatsCorrect == Spec => StatsFreshAfterTx
<1>1. Init => TypeInv /\ StatsInv
  <2>1. SUFFICES ASSUME Init
                 PROVE  StatsInv
    BY PipelineAssumption, InitType
  <2>2. lastStats = 0 /\ txCount = 0 /\ ui.stats.at = 0 /\ ui.stats.after = 0
    BY <2>1 DEF Init, NoStats
  <2>3. txCount % StatsTx \in Nat
    <3>1. StatsTx \in Nat \ {0} /\ txCount \in Nat
      BY <2>2, PipelineAssumption
    <3>2. txCount % StatsTx \in 0..(StatsTx - 1)
      BY <3>1, DivMod
    <3> QED
      BY <3>1, <3>2
  <2> QED
    BY <2>2, <2>3 DEF StatsInv
<1>2. TypeInv /\ StatsInv /\ [Next]_vars => (TypeInv /\ StatsInv)'
  BY PipelineAssumption, StepType, StatsStep
<1>3. TypeInv /\ StatsInv /\ [Next]_vars =>
          [txCount' # txCount /\ pc' = "recv" =>
              /\ now < ui'.stats.at + StatsTime
              /\ txCount' < ui'.stats.after + StatsTx]_vars
  <2>1. SUFFICES ASSUME TypeInv, StatsInv, [Next]_vars, txCount' # txCount, pc' = "recv"
                 PROVE  /\ now < ui'.stats.at + StatsTime
                        /\ txCount' < ui'.stats.after + StatsTx
    OBVIOUS
  <2>2. PICK score \in Score : TxAddedFinishes(score) /\ UiTakes
    BY <2>1, PipelineAssumption, CountedOnFinish
  <2>3. /\ txCount' \in Nat /\ ui'.stats.after \in Nat
        /\ txCount' <= ui'.stats.after + (txCount' % StatsTx)
        /\ now < ui'.stats.at + StatsTime
    BY <2>1, <2>2, PipelineAssumption, StatsAfterTx
  <2>4. txCount' % StatsTx \in 0..(StatsTx - 1) /\ StatsTx \in Nat
    BY <2>3, PipelineAssumption, DivMod DEF PipelineAssumption
  <2>5. PICK r \in 0..(StatsTx - 1) : txCount' <= ui'.stats.after + r
    BY <2>3, <2>4
  <2>6. txCount' < ui'.stats.after + StatsTx
    BY <2>3, <2>4, <2>5
  <2> QED
    BY <2>3, <2>6
<1> QED
  BY <1>1, <1>2, <1>3, PTL DEF Spec, StatsFreshAfterTx

-----------------------------------------------------------------------------
(* The composition: what the thread tells the task. *)

\* What is published on each topic, as far as the thread looks at it.
OnTopic(k) ==
    {Subscriber!BadMsg} \cup
    CASE k = "rawtx"     -> {Subscriber!RawtxMsg(x) : x \in Hash \cup {Garbage}}
      [] k = "hashblock" -> {Subscriber!HashblockMsg(b) : b \in Block}
      [] k = "sequence"  ->
            {m \in [frames : {"sequence"}, label : {"A", "R", "C", "D", "other"},
                    body : Hash \cup Block \cup {Garbage},
                    seq : Nat \cup {None}, at : Nat] :
                /\ m.label = "R" => m.body \in Hash
                /\ m.label \in {"C", "D"} => m.body \in Block}

(* Whatever is on the wire is of its topic, and the thread reads only      *)
(* topics on which something is pending.                                   *)
WireInv ==
    /\ DOMAIN wire = Subscriber!Topic
    /\ \A k \in Subscriber!Topic : wire[k] \in Seq(OnTopic(k))
    /\ stamp \in Nat
    /\ ready \subseteq Subscriber!Subscribed
    /\ \A k \in ready : wire[k] # <<>>

Held == IF current = None THEN 0 ELSE 1

(* What was sent is what was handled, what is in work, and what waits in   *)
(* the channel, one after the other.                                       *)
PassInv ==
    /\ sent \in Seq(Event)
    /\ pc # "stopped" =>
          /\ Len(sent) = Len(handled) + Held + Len(channel)
          /\ \A i \in 1..Len(handled) : handled[i] = sent[i]
          /\ current # None => sent[Len(handled) + 1] = TxAdded(current.hash)
          /\ \A i \in 1..Len(channel) : channel[i] = sent[Len(handled) + Held + i]

LEMMA OnTopics ==
    ASSUME CounterMod \in Nat \ {0}
    PROVE  /\ \A t \in Hash : Subscriber!RawtxMsg(t) \in OnTopic("rawtx")
           /\ \A b \in Block : Subscriber!HashblockMsg(b) \in OnTopic("hashblock")
           /\ \A t \in Hash, n \in Nat : /\ Subscriber!Numbered("A", t, n) \in OnTopic("sequence")
                                         /\ Subscriber!Numbered("R", t, n) \in OnTopic("sequence")
           /\ \A b \in Block, n \in Nat : /\ Subscriber!Numbered("C", b, n) \in OnTopic("sequence")
                                          /\ Subscriber!Numbered("D", b, n) \in OnTopic("sequence")
           /\ stamp \in Nat => \A k \in Subscriber!Topic :
                                  \A m \in Subscriber!MalformedOn(k) : m \in OnTopic(k)
<1> USE DEF OnTopic, Subscriber!RawtxMsg, Subscriber!HashblockMsg, Subscriber!Numbered,
            Subscriber!SequenceMsg, Subscriber!BadMsg
<1>1. \A n \in Nat : n % CounterMod \in Nat
  OBVIOUS
<1>2. \A t \in Hash : Subscriber!RawtxMsg(t) \in OnTopic("rawtx")
  OBVIOUS
<1>3. \A b \in Block : Subscriber!HashblockMsg(b) \in OnTopic("hashblock")
  OBVIOUS
<1>4. \A t \in Hash, n \in Nat : /\ Subscriber!Numbered("A", t, n) \in OnTopic("sequence")
                                 /\ Subscriber!Numbered("R", t, n) \in OnTopic("sequence")
  BY <1>1
<1>5. \A b \in Block, n \in Nat : /\ Subscriber!Numbered("C", b, n) \in OnTopic("sequence")
                                  /\ Subscriber!Numbered("D", b, n) \in OnTopic("sequence")
  BY <1>1
<1>6. ASSUME stamp \in Nat, NEW k \in Subscriber!Topic, NEW m \in Subscriber!MalformedOn(k)
      PROVE  m \in OnTopic(k)
  <2>1. CASE m = Subscriber!BadMsg
    BY <2>1
  <2>2. CASE k = "rawtx" /\ m = Subscriber!RawtxMsg(Garbage)
    BY <2>2
  <2>3. CASE /\ k = "sequence"
             /\ m \in {Subscriber!Numbered("other", Garbage, stamp),
                       Subscriber!SequenceMsg("other", Garbage, None, stamp)}
    BY <1>1, <1>6, <2>3
  <2> QED
    BY <1>6, <2>1, <2>2, <2>3 DEF Subscriber!MalformedOn, Subscriber!Topic
<1> QED
  BY <1>2, <1>3, <1>4, <1>5, <1>6

\* Publishing what belongs on the topics.
LEMMA PublishWire ==
    ASSUME WireInv, NEW msgs, UNCHANGED <<ready, sequenceConnected>>, stamp' \in Nat,
           \A k \in Subscriber!Topic : msgs[k] \in Seq(OnTopic(k)),
           Subscriber!Publish(msgs)
    PROVE  WireInv'
<1>1. DOMAIN wire' = Subscriber!Topic
  BY DEF Subscriber!Publish
<1>2. \A k \in Subscriber!Topic :
         wire'[k] = IF k \in Subscriber!Subscribed THEN wire[k] \o msgs[k] ELSE <<>>
  BY DEF Subscriber!Publish
<1>3. ASSUME NEW k \in Subscriber!Topic
      PROVE  /\ wire'[k] \in Seq(OnTopic(k))
             /\ k \in Subscriber!Subscribed /\ wire[k] # <<>> => wire'[k] # <<>>
  <2>1. wire[k] \in Seq(OnTopic(k)) /\ msgs[k] \in Seq(OnTopic(k))
    BY DEF WireInv
  <2>2. \A s, t \in Seq(OnTopic(k)) : s \o t \in Seq(OnTopic(k)) /\ (s # <<>> => s \o t # <<>>)
    OBVIOUS
  <2>3. <<>> \in Seq(OnTopic(k))
    OBVIOUS
  <2> QED
    BY <1>2, <2>1, <2>2, <2>3
<1>4. Subscriber!Subscribed' = Subscriber!Subscribed /\ Subscriber!Subscribed \subseteq Subscriber!Topic
  BY DEF Subscriber!Subscribed, Subscriber!Topic
<1>5. Subscriber!Topic' = Subscriber!Topic
  BY DEF Subscriber!Topic
<1> QED
  BY <1>1, <1>3, <1>4, <1>5 DEF WireInv

\* One message at most on each topic.
LEMMA OnEachTopic ==
    ASSUME NEW r \in Seq(OnTopic("rawtx")), NEW h \in Seq(OnTopic("hashblock")),
           NEW q \in Seq(OnTopic("sequence")), NEW k \in Subscriber!Topic
    PROVE  [rawtx |-> r, hashblock |-> h, sequence |-> q][k] \in Seq(OnTopic(k))
<1>1. CASE k = "rawtx"
  BY <1>1
<1>2. CASE k = "hashblock"
  BY <1>2
<1>3. CASE k = "sequence"
  BY <1>3
<1> QED
  BY <1>1, <1>2, <1>3 DEF Subscriber!Topic

\* The node's steps, and messages lost.
LEMMA NodeWire ==
    ASSUME CounterMod \in Nat \ {0}, WireInv, Subscriber!NodeNext
    PROVE  WireInv' /\ UNCHANGED <<channel, receiverOpen, sent>>
<1> USE DEF Subscriber!NodeDoes, Subscriber!channelVars, Subscriber!threadVars
<1>1. stamp \in Nat
  BY DEF WireInv
<1>2. ASSUME NEW t \in Hash, Subscriber!Accept(t)
      PROVE  WireInv' /\ UNCHANGED <<channel, receiverOpen, sent>>
  <2> DEFINE msgs == [rawtx |-> <<Subscriber!RawtxMsg(t)>>, hashblock |-> <<>>,
                      sequence |-> <<Subscriber!Numbered("A", t, stamp)>>]
  <2>1. Subscriber!Publish(msgs) /\ stamp' = stamp + 1
        /\ UNCHANGED <<ready, sequenceConnected, channel, receiverOpen, sent>>
    BY <1>2 DEF Subscriber!Accept
  <2>2. \A k \in Subscriber!Topic : msgs[k] \in Seq(OnTopic(k))
    <3>1. /\ <<Subscriber!RawtxMsg(t)>> \in Seq(OnTopic("rawtx"))
          /\ <<>> \in Seq(OnTopic("hashblock"))
          /\ <<Subscriber!Numbered("A", t, stamp)>> \in Seq(OnTopic("sequence"))
      BY <1>1, OnTopics
    <3> QED
      BY <3>1, OnEachTopic
  <2> HIDE DEF msgs
  <2> QED
    BY <1>1, <2>1, <2>2, PublishWire
<1>3. ASSUME NEW t \in Hash, Subscriber!Evict(t)
      PROVE  WireInv' /\ UNCHANGED <<channel, receiverOpen, sent>>
  <2> DEFINE msgs == [rawtx |-> <<>>, hashblock |-> <<>>,
                      sequence |-> <<Subscriber!Numbered("R", t, stamp)>>]
  <2>1. Subscriber!Publish(msgs) /\ stamp' = stamp + 1
        /\ UNCHANGED <<ready, sequenceConnected, channel, receiverOpen, sent>>
    BY <1>3 DEF Subscriber!Evict
  <2>2. \A k \in Subscriber!Topic : msgs[k] \in Seq(OnTopic(k))
    <3>1. /\ <<>> \in Seq(OnTopic("rawtx"))
          /\ <<>> \in Seq(OnTopic("hashblock"))
          /\ <<Subscriber!Numbered("R", t, stamp)>> \in Seq(OnTopic("sequence"))
      BY <1>1, OnTopics
    <3> QED
      BY <3>1, OnEachTopic
  <2> HIDE DEF msgs
  <2> QED
    BY <1>1, <2>1, <2>2, PublishWire
<1>4. ASSUME NEW b \in Block, Subscriber!Connect(b)
      PROVE  WireInv' /\ UNCHANGED <<channel, receiverOpen, sent>>
  <2> DEFINE msgs == [rawtx |-> <<>>, hashblock |-> <<Subscriber!HashblockMsg(b)>>,
                      sequence |-> <<Subscriber!Numbered("C", b, stamp)>>]
  <2>1. Subscriber!Publish(msgs) /\ stamp' = stamp + 1
        /\ UNCHANGED <<ready, sequenceConnected, channel, receiverOpen, sent>>
    BY <1>4 DEF Subscriber!Connect
  <2>2. \A k \in Subscriber!Topic : msgs[k] \in Seq(OnTopic(k))
    <3>1. /\ <<>> \in Seq(OnTopic("rawtx"))
          /\ <<Subscriber!HashblockMsg(b)>> \in Seq(OnTopic("hashblock"))
          /\ <<Subscriber!Numbered("C", b, stamp)>> \in Seq(OnTopic("sequence"))
      BY <1>1, OnTopics
    <3> QED
      BY <3>1, OnEachTopic
  <2> HIDE DEF msgs
  <2> QED
    BY <1>1, <2>1, <2>2, PublishWire
<1>5. ASSUME NEW b \in Block, Subscriber!Disconnect(b)
      PROVE  WireInv' /\ UNCHANGED <<channel, receiverOpen, sent>>
  <2> DEFINE msgs == [rawtx |-> <<>>, hashblock |-> <<>>,
                      sequence |-> <<Subscriber!Numbered("D", b, stamp)>>]
  <2>1. Subscriber!Publish(msgs) /\ stamp' = stamp + 1
        /\ UNCHANGED <<ready, sequenceConnected, channel, receiverOpen, sent>>
    BY <1>5 DEF Subscriber!Disconnect
  <2>2. \A k \in Subscriber!Topic : msgs[k] \in Seq(OnTopic(k))
    <3>1. /\ <<>> \in Seq(OnTopic("rawtx"))
          /\ <<>> \in Seq(OnTopic("hashblock"))
          /\ <<Subscriber!Numbered("D", b, stamp)>> \in Seq(OnTopic("sequence"))
      BY <1>1, OnTopics
    <3> QED
      BY <3>1, OnEachTopic
  <2> HIDE DEF msgs
  <2> QED
    BY <1>1, <2>1, <2>2, PublishWire
<1>6. ASSUME NEW k \in Subscriber!Subscribed, NEW msg \in Subscriber!MalformedOn(k),
             Subscriber!Malformed(k, msg)
      PROVE  WireInv' /\ UNCHANGED <<channel, receiverOpen, sent>>
  <2> DEFINE msgs == [j \in Subscriber!Topic |-> IF j = k THEN <<msg>> ELSE <<>>]
  <2>1. /\ Subscriber!Publish(msgs)
        /\ stamp' = (IF k = "sequence" THEN stamp + 1 ELSE stamp)
        /\ UNCHANGED <<ready, sequenceConnected, channel, receiverOpen, sent>>
    BY <1>6 DEF Subscriber!Malformed
  <2>2. k \in Subscriber!Topic /\ msg \in OnTopic(k)
    BY <1>1, OnTopics DEF Subscriber!Subscribed, Subscriber!Topic
  <2>3. \A j \in Subscriber!Topic : msgs[j] \in Seq(OnTopic(j))
    BY <2>2
  <2> HIDE DEF msgs
  <2> QED
    BY <1>1, <2>1, <2>3, PublishWire
<1>7. ASSUME NEW k \in Subscriber!Subscribed, NEW i, Subscriber!Lose(k, i)
      PROVE  WireInv' /\ UNCHANGED <<channel, receiverOpen, sent>>
  <2>1. /\ i \in 1..Len(wire[k]) /\ (k \in ready => i > 1)
        /\ wire' = [wire EXCEPT ![k] = RemoveAt(@, i)]
        /\ UNCHANGED <<stamp, ready, sequenceConnected, channel, receiverOpen, sent>>
    <3>1. /\ i \in 1..Len(wire[k]) /\ (k \in ready => i > 1)
          /\ wire' = [wire EXCEPT ![k] = Subscriber!RemoveAt(@, i)]
      BY <1>7 DEF Subscriber!Lose
    <3>3. Subscriber!RemoveAt(wire[k], i) = RemoveAt(wire[k], i)
      BY DEF Subscriber!RemoveAt, RemoveAt
    <3>2. UNCHANGED <<stamp, ready, sequenceConnected, channel, receiverOpen, sent>>
      BY <1>7, Zenon DEF Subscriber!Lose
    <3> QED
      BY <3>1, <3>2, <3>3
  <2>2. k \in Subscriber!Topic /\ wire[k] \in Seq(OnTopic(k)) /\ DOMAIN wire = Subscriber!Topic
    BY DEF WireInv, Subscriber!Subscribed, Subscriber!Topic
  <2>3. RemoveAt(wire[k], i) \in Seq(OnTopic(k)) /\ Len(RemoveAt(wire[k], i)) = Len(wire[k]) - 1
    BY <2>1, <2>2, Removal
  <2>4. k \in ready => RemoveAt(wire[k], i) # <<>>
    BY <2>1, <2>2, <2>3
  <2>5. /\ DOMAIN wire' = Subscriber!Topic /\ wire'[k] = RemoveAt(wire[k], i)
        /\ \A j \in Subscriber!Topic : j # k => wire'[j] = wire[j]
    BY <2>1, <2>2
  <2>6. Subscriber!Subscribed' = Subscriber!Subscribed /\ Subscriber!Topic' = Subscriber!Topic
        /\ Subscriber!Subscribed \subseteq Subscriber!Topic
    BY <2>1 DEF Subscriber!Subscribed, Subscriber!Topic
  <2> QED
    BY <2>1, <2>3, <2>4, <2>5, <2>6 DEF WireInv
<1>8. ASSUME NEW t \in Hash
      PROVE  \A k \in Subscriber!Topic : Subscriber!RawtxOnly(t)[k] \in Seq(OnTopic(k))
  <2>1. /\ <<Subscriber!RawtxMsg(t)>> \in Seq(OnTopic("rawtx"))
        /\ <<>> \in Seq(OnTopic("hashblock")) /\ <<>> \in Seq(OnTopic("sequence"))
    BY <1>1, OnTopics
  <2> QED
    BY <2>1, OnEachTopic DEF Subscriber!RawtxOnly
<1>9. ASSUME NEW t \in Hash, NEW b \in Block, Subscriber!Mine(t, b)
      PROVE  WireInv' /\ UNCHANGED <<channel, receiverOpen, sent>>
  <2>1. Subscriber!Publish(Subscriber!RawtxOnly(t)) /\ stamp' = stamp
        /\ UNCHANGED <<ready, sequenceConnected, channel, receiverOpen, sent>>
    BY <1>9 DEF Subscriber!Mine
  <2> QED
    BY <1>1, <1>8, <2>1, PublishWire
<1>10. ASSUME NEW t \in Hash, Subscriber!Unmine(t)
      PROVE  WireInv' /\ UNCHANGED <<channel, receiverOpen, sent>>
  <2>1. Subscriber!Publish(Subscriber!RawtxOnly(t)) /\ stamp' = stamp
        /\ UNCHANGED <<ready, sequenceConnected, channel, receiverOpen, sent>>
    BY <1>10 DEF Subscriber!Unmine
  <2> QED
    BY <1>1, <1>8, <2>1, PublishWire
<1> QED
  BY <1>2, <1>3, <1>4, <1>5, <1>6, <1>7, <1>9, <1>10 DEF Subscriber!NodeNext

\* A thread's step tells the task of one event or of none.
Tells ==
    /\ UNCHANGED receiverOpen
    /\ \/ UNCHANGED <<channel, sent>>
       \/ \E e \in Event : /\ receiverOpen
                           /\ channel' = Append(channel, e)
                           /\ sent' = Append(sent, e)

LEMMA SendTells ==
    ASSUME NEW k, NEW e \in Event, Subscriber!Send(k, e)
    PROVE  Tells /\ ready' \subseteq ready \ {k}
<1>1. CASE receiverOpen
  BY <1>1 DEF Subscriber!Send, Tells
<1>2. CASE ~receiverOpen
  BY <1>2 DEF Subscriber!Send, Tells
<1> QED
  BY <1>1, <1>2

LEMMA SkipTells ==
    ASSUME NEW k, Subscriber!Skip(k)
    PROVE  Tells /\ ready' \subseteq ready \ {k}
BY DEF Subscriber!Skip, Subscriber!channelVars, Tells

\* Taking the first message from a topic.
LEMMA ReadWire ==
    ASSUME WireInv, NEW k \in ready, Subscriber!Consume(k), ready' \subseteq ready \ {k},
           UNCHANGED <<stamp, sequenceConnected>>
    PROVE  WireInv' /\ Head(wire[k]) \in OnTopic(k)
<1>1. /\ k \in Subscriber!Topic /\ wire[k] \in Seq(OnTopic(k)) /\ wire[k] # <<>>
      /\ DOMAIN wire = Subscriber!Topic
  BY DEF WireInv, Subscriber!Subscribed, Subscriber!Topic
<1>2. Tail(wire[k]) \in Seq(OnTopic(k)) /\ Head(wire[k]) \in OnTopic(k)
  BY <1>1, HeadTailProperties
<1>3. /\ DOMAIN wire' = Subscriber!Topic /\ wire'[k] = Tail(wire[k])
      /\ \A j \in Subscriber!Topic : j # k => wire'[j] = wire[j]
  BY <1>1 DEF Subscriber!Consume
<1>4. Subscriber!Subscribed' = Subscriber!Subscribed /\ Subscriber!Topic' = Subscriber!Topic
      /\ Subscriber!Subscribed \subseteq Subscriber!Topic
  BY DEF Subscriber!Subscribed, Subscriber!Topic
<1> QED
  BY <1>2, <1>3, <1>4 DEF WireInv

LEMMA ThreadTells ==
    ASSUME WireInv, Subscriber!ThreadNext
    PROVE  WireInv' /\ Tells
<1> USE DEF Subscriber!nodeVars, Subscriber!trackVars
<1>1. ASSUME NEW topics, Subscriber!Poll(topics)
      PROVE  WireInv' /\ Tells
  <2>1. /\ ready' = topics /\ topics \subseteq Subscriber!Subscribed
        /\ \A k \in topics : wire[k] # <<>>
        /\ UNCHANGED <<wire, stamp, sequenceConnected, channel, receiverOpen, sent>>
    BY <1>1 DEF Subscriber!Poll, Subscriber!channelVars
  <2> QED
    BY <2>1 DEF WireInv, Subscriber!Subscribed, Subscriber!Topic, Tells
<1>2. CASE Subscriber!RecvRawtx
  <2> DEFINE msg == Head(wire["rawtx"])
  <2>1. /\ "rawtx" \in ready /\ Subscriber!Consume("rawtx")
        /\ UNCHANGED <<stamp, sequenceConnected>>
        /\ IF msg.frames = "rawtx" THEN Subscriber!Send("rawtx", Subscriber!TxAdded(msg.body))
                                   ELSE Subscriber!Skip("rawtx")
    BY <1>2 DEF Subscriber!RecvRawtx
  <2>2. wire["rawtx"] # <<>> /\ wire["rawtx"] \in Seq(OnTopic("rawtx"))
    BY <2>1 DEF WireInv, Subscriber!Subscribed, Subscriber!Topic
  <2>3. msg \in OnTopic("rawtx")
    BY <2>2, HeadTailProperties
  <2>4. msg.frames = "rawtx" => Subscriber!TxAdded(msg.body) \in Event
    BY <2>3 DEF OnTopic, Subscriber!RawtxMsg, Subscriber!BadMsg, Subscriber!TxAdded, Event, Added
  <2> HIDE DEF msg
  <2>5. Tells /\ ready' \subseteq ready \ {"rawtx"}
    BY <2>1, <2>4, SendTells, SkipTells
  <2> QED
    BY <2>1, <2>5, ReadWire
<1>3. CASE Subscriber!RecvHashblock
  <2> DEFINE msg == Head(wire["hashblock"])
  <2>1. /\ "hashblock" \in ready /\ Subscriber!Consume("hashblock")
        /\ UNCHANGED <<stamp, sequenceConnected>>
        /\ IF msg.frames = "hashblock"
           THEN Subscriber!Send("hashblock", Subscriber!BlockConnected(msg.body))
           ELSE Subscriber!Skip("hashblock")
    BY <1>3 DEF Subscriber!RecvHashblock
  <2>2. wire["hashblock"] # <<>> /\ wire["hashblock"] \in Seq(OnTopic("hashblock"))
    BY <2>1 DEF WireInv, Subscriber!Subscribed, Subscriber!Topic
  <2>3. msg \in OnTopic("hashblock")
    BY <2>2, HeadTailProperties
  <2>4. msg.frames = "hashblock" => Subscriber!BlockConnected(msg.body) \in Event
    BY <2>3 DEF OnTopic, Subscriber!HashblockMsg, Subscriber!BadMsg, Subscriber!BlockConnected,
                Event, OfBlock
  <2> HIDE DEF msg
  <2>5. Tells /\ ready' \subseteq ready \ {"hashblock"}
    BY <2>1, <2>4, SendTells, SkipTells
  <2> QED
    BY <2>1, <2>5, ReadWire
<1>4. CASE Subscriber!RecvSequence
  <2> DEFINE msg == Head(wire["sequence"])
  <2>1. /\ "sequence" \in ready /\ Subscriber!Consume("sequence")
        /\ UNCHANGED <<stamp, sequenceConnected>>
        /\ \/ msg.frames = "sequence" /\ Subscriber!Dispatch(msg)
           \/ Subscriber!Skip("sequence")
    BY <1>4 DEF Subscriber!RecvSequence
  <2>2. wire["sequence"] # <<>> /\ wire["sequence"] \in Seq(OnTopic("sequence"))
    BY <2>1 DEF WireInv, Subscriber!Subscribed, Subscriber!Topic
  <2>3. msg \in OnTopic("sequence")
    BY <2>2, HeadTailProperties
  <2>4. msg.frames = "sequence"
        => /\ msg.label = "R" => Subscriber!TxRemoved(msg.body) \in Event
           /\ msg.label = "C" => Subscriber!BlockConnected(msg.body) \in Event
           /\ msg.label = "D" => Subscriber!BlockDisconnected(msg.body) \in Event
    BY <2>3 DEF OnTopic, Subscriber!BadMsg, Subscriber!TxRemoved, Subscriber!BlockConnected,
                Subscriber!BlockDisconnected, Event, Gone, OfBlock
  <2> HIDE DEF msg
  <2>5. Tells /\ ready' \subseteq ready \ {"sequence"}
    <3>1. CASE Subscriber!Skip("sequence")
      BY <3>1, SkipTells
    <3>2. CASE msg.frames = "sequence" /\ Subscriber!Dispatch(msg)
      <4>1. \/ Subscriber!Skip("sequence")
            \/ msg.label = "R" /\ Subscriber!Send("sequence", Subscriber!TxRemoved(msg.body))
            \/ msg.label = "C" /\ Subscriber!Send("sequence", Subscriber!BlockConnected(msg.body))
            \/ msg.label = "D" /\ Subscriber!Send("sequence", Subscriber!BlockDisconnected(msg.body))
        BY <3>2 DEF Subscriber!Dispatch
      <4> QED
        BY <2>4, <3>2, <4>1, SendTells, SkipTells
    <3> QED
      BY <2>1, <3>1, <3>2
  <2> QED
    BY <2>1, <2>5, ReadWire
<1> QED
  BY <1>1, <1>2, <1>3, <1>4 DEF Subscriber!ThreadNext

-----------------------------------------------------------------------------
(* The composition: what the task makes of it. *)

\* The types of the task's variables under the steps of both.
LEMMA RadarTypes ==
    ASSUME PipelineAssumption, TypeInv, WireInv, CounterMod \in Nat \ {0}, [RadarNext]_radarVars
    PROVE  TypeInv' /\ WireInv'
<1> USE DEF subscriberOnly, taskOnly
<1>1. CASE NodeStep
  <2>1. WireInv' /\ UNCHANGED <<channel, receiverOpen, taskOnly>>
    BY <1>1, NodeWire DEF NodeStep
  <2> QED
    BY <2>1 DEF TypeInv, TypeOK
<1>2. CASE ThreadStep
  <2>1. WireInv' /\ Tells /\ UNCHANGED taskOnly
    BY <1>2, ThreadTells DEF ThreadStep
  <2>2. channel \in Seq(Event)
    BY DEF TypeInv
  <2>3. channel' \in Seq(Event) /\ UNCHANGED receiverOpen
    BY <2>1, <2>2 DEF Tells
  <2> QED
    BY <2>1, <2>3 DEF TypeInv, TypeOK
<1>3. ASSUME UNCHANGED subscriberOnly
      PROVE  WireInv'
  BY <1>3 DEF WireInv, Subscriber!Subscribed, Subscriber!Topic
<1>4. CASE TaskStep
  BY <1>3, <1>4, TaskType DEF TaskStep
<1>5. CASE RpcStep \/ OutsideStep
  BY <1>3, <1>5, OutsideType DEF RpcStep, OutsideStep
<1>6. CASE UNCHANGED radarVars
  <2>1. UNCHANGED <<channel, receiverOpen, taskOnly>> /\ UNCHANGED subscriberOnly
    BY <1>6 DEF radarVars
  <2> QED
    BY <1>3, <2>1 DEF TypeInv, TypeOK
<1> QED
  BY <1>1, <1>2, <1>4, <1>5, <1>6 DEF RadarNext

\* An event taken from the channel and handled at once.
LEMMA PassWhole ==
    ASSUME TypeInv, PassInv, NEW type, Receive(type), Handled(Head(channel)),
           UNCHANGED <<pc, current, sent>>
    PROVE  PassInv'
<1> DEFINE n == Len(handled)
<1>1. /\ pc = "recv" /\ current = None /\ channel # <<>> /\ channel' = Tail(channel)
      /\ handled' = Append(handled, Head(channel)) /\ sent' = sent /\ current' = None
  BY DEF Receive, Handled, TypeInv, TypeOK
<1>2. /\ channel \in Seq(Event) /\ handled \in Seq(Event) /\ sent \in Seq(Event)
      /\ Len(channel) \in Nat \ {0} /\ n \in Nat
  BY <1>1 DEF TypeInv, PassInv
<1>3. /\ Len(sent) = n + Len(channel) /\ \A i \in 1..n : handled[i] = sent[i]
      /\ \A i \in 1..Len(channel) : channel[i] = sent[n + i]
  BY <1>1, <1>2 DEF PassInv, Held
<1>4. /\ Len(channel') = Len(channel) - 1
      /\ \A i \in 1..(Len(channel) - 1) : channel'[i] = channel[i + 1]
  BY <1>1, <1>2
<1>5. Len(handled') = n + 1 /\ handled'[n + 1] = channel[1] /\ \A i \in 1..n : handled'[i] = handled[i]
  BY <1>1, <1>2
<1>6. 1 \in 1..Len(channel) /\ channel[1] = sent[n + 1]
  BY <1>2, <1>3
<1> HIDE DEF n
<1>7. \A i \in 1..Len(handled') : handled'[i] = sent'[i]
  BY <1>1, <1>2, <1>3, <1>5, <1>6
<1>8. ASSUME NEW i \in 1..Len(channel')
      PROVE  channel'[i] = sent'[Len(handled') + 0 + i]
  <2>1. i + 1 \in 1..Len(channel) /\ i \in 1..(Len(channel) - 1) /\ i \in Nat
    BY <1>2, <1>4
  <2>2. channel'[i] = sent[n + (i + 1)] /\ n + (i + 1) = Len(handled') + 0 + i
    BY <1>2, <1>3, <1>4, <1>5, <2>1
  <2> QED
    BY <1>1, <2>2
<1>9. Held' = 0 /\ Len(sent') = Len(handled') + 0 + Len(channel')
  BY <1>1, <1>2, <1>3, <1>4, <1>5 DEF Held
<1> QED
  BY <1>1, <1>2, <1>7, <1>8, <1>9 DEF PassInv

\* A transaction taken from the channel.
LEMMA PassStart ==
    ASSUME PipelineAssumption, TypeInv, PassInv, TxAddedStarts, UNCHANGED sent
    PROVE  PassInv'
<1> DEFINE n == Len(handled)
<1>1. /\ pc = "recv" /\ current = None /\ channel # <<>> /\ channel' = Tail(channel)
      /\ handled' = handled /\ sent' = sent
      /\ Head(channel).type = "TxAdded"
      /\ current' = [hash |-> Head(channel).raw, rate |-> 0]
  BY DEF TxAddedStarts, Receive, historyVars, TypeInv, TypeOK
<1>2. /\ channel \in Seq(Event) /\ handled \in Seq(Event) /\ sent \in Seq(Event)
      /\ Len(channel) \in Nat \ {0} /\ n \in Nat
  BY <1>1 DEF TypeInv, PassInv
<1>3. /\ Len(sent) = n + Len(channel) /\ \A i \in 1..n : handled[i] = sent[i]
      /\ \A i \in 1..Len(channel) : channel[i] = sent[n + i]
  BY <1>1, <1>2 DEF PassInv, Held
<1>4. /\ Len(channel') = Len(channel) - 1
      /\ \A i \in 1..(Len(channel) - 1) : channel'[i] = channel[i + 1]
  BY <1>1, <1>2
<1>5. Head(channel) = channel[1] /\ channel[1] \in Event
  BY <1>2
<1>6. channel[1] = TxAdded(channel[1].raw) /\ channel[1].raw \in Hash \cup {Garbage}
  BY <1>1, <1>5 DEF Event, Added, Gone, OfBlock, TxAdded
<1>7. current'.hash = channel[1].raw
  BY <1>1, <1>5
<1>8. current' # None
  <2>1. channel[1].raw # Garbage
    BY <1>5 DEF TxAddedStarts
  <2> QED
    BY <1>1, <1>5, <1>6, <2>1 DEF PipelineAssumption
<1>9. sent'[Len(handled') + 1] = TxAdded(current'.hash)
  <2>1. 1 \in 1..Len(channel)
    BY <1>2
  <2> QED
    BY <1>1, <1>3, <1>6, <1>7, <2>1
<1> HIDE DEF n
<1>10. ASSUME NEW i \in 1..Len(channel')
       PROVE  channel'[i] = sent'[Len(handled') + 1 + i]
  <2>1. i + 1 \in 1..Len(channel) /\ i \in 1..(Len(channel) - 1) /\ i \in Nat
    BY <1>2, <1>4
  <2>2. n + (i + 1) = n + 1 + i
    BY <1>2, <2>1
  <2>3. channel[i + 1] = sent[n + (i + 1)]
    BY <1>3, <2>1
  <2>4. channel'[i] = channel[i + 1]
    BY <1>4, <2>1
  <2> QED
    BY <1>1, <2>2, <2>3, <2>4 DEF n
<1>11. Held' = 1 /\ Len(sent') = Len(handled') + 1 + Len(channel')
  BY <1>1, <1>2, <1>3, <1>4, <1>8 DEF Held, n
<1> QED
  BY <1>1, <1>2, <1>3, <1>9, <1>10, <1>11 DEF PassInv, n

\* A transaction that has been handled.
LEMMA PassFinish ==
    ASSUME PipelineAssumption, TypeInv, PassInv, NEW score \in Score, TxAddedFinishes(score),
           UNCHANGED sent
    PROVE  PassInv'
<1> DEFINE n == Len(handled)
<1>1. /\ pc = "resolved" /\ current # None /\ current' = None
      /\ handled' = Append(handled, TxAdded(current.hash)) /\ sent' = sent
      /\ pc' # "stopped" => channel' = channel
  BY DEF TxAddedFinishes, Handled, Return, TypeInv, TypeOK
<1>2. channel \in Seq(Event) /\ handled \in Seq(Event) /\ sent \in Seq(Event) /\ n \in Nat
      /\ Len(channel) \in Nat
  BY DEF TypeInv, PassInv
<1>3. /\ Len(sent) = n + 1 + Len(channel) /\ \A i \in 1..n : handled[i] = sent[i]
      /\ sent[n + 1] = TxAdded(current.hash)
      /\ \A i \in 1..Len(channel) : channel[i] = sent[n + 1 + i]
  BY <1>1 DEF PassInv, Held
<1>4. /\ Len(handled') = n + 1 /\ handled'[n + 1] = TxAdded(current.hash)
      /\ \A i \in 1..n : handled'[i] = handled[i]
  BY <1>1, <1>2
<1> HIDE DEF n
<1>5. \A i \in 1..Len(handled') : handled'[i] = sent'[i]
  BY <1>1, <1>2, <1>3, <1>4
<1>6. Held' = 0 /\ \A m \in Nat : m + 0 = m
  BY <1>1 DEF Held
<1>7. pc' # "stopped" => /\ Len(sent') = Len(handled') + 0 + Len(channel')
                         /\ \A i \in 1..Len(channel') : channel'[i] = sent'[Len(handled') + 0 + i]
  BY <1>1, <1>2, <1>3, <1>4, <1>6
<1> QED
  BY <1>1, <1>2, <1>5, <1>6, <1>7 DEF PassInv

\* An event sent.
LEMMA PassTells ==
    ASSUME TypeInv, PassInv, Tells, UNCHANGED <<pc, current, handled>>
    PROVE  PassInv'
<1>1. CASE UNCHANGED <<channel, sent>>
  BY <1>1 DEF PassInv, Held
<1>2. ASSUME NEW e \in Event, receiverOpen, channel' = Append(channel, e), sent' = Append(sent, e)
      PROVE  PassInv'
  <2> DEFINE p == Len(handled) + Held
  <2>1. /\ channel \in Seq(Event) /\ handled \in Seq(Event) /\ sent \in Seq(Event)
        /\ p \in Nat /\ Len(channel) \in Nat /\ Len(handled) \in Nat /\ Held \in {0, 1}
        /\ current # None => Held = 1
    BY DEF TypeInv, PassInv, Held
  <2>2. pc # "stopped"
    BY <1>2 DEF TypeInv, TypeOK
  <2>3. /\ Len(sent) = p + Len(channel) /\ \A i \in 1..Len(handled) : handled[i] = sent[i]
        /\ current # None => sent[Len(handled) + 1] = TxAdded(current.hash)
        /\ \A i \in 1..Len(channel) : channel[i] = sent[p + i]
    BY <2>2 DEF PassInv
  <2>4. /\ Len(sent') = Len(sent) + 1 /\ sent'[Len(sent) + 1] = e
        /\ \A i \in 1..Len(sent) : sent'[i] = sent[i]
        /\ Len(channel') = Len(channel) + 1 /\ channel'[Len(channel) + 1] = e
        /\ \A i \in 1..Len(channel) : channel'[i] = channel[i]
        /\ sent' \in Seq(Event)
    BY <1>2, <2>1
  <2>5. \A i \in 1..Len(handled) : handled[i] = sent'[i]
    <3>1. 1..Len(handled) \subseteq 1..Len(sent)
      BY <2>1, <2>3
    <3> QED
      BY <2>3, <2>4, <3>1
  <2>6. current # None => sent'[Len(handled) + 1] = TxAdded(current.hash)
    <3>1. current # None => Len(handled) + 1 \in 1..Len(sent)
      BY <2>1, <2>3
    <3> QED
      BY <2>3, <2>4, <3>1
  <2>7. ASSUME NEW i \in 1..Len(channel')
        PROVE  channel'[i] = sent'[p + i]
    <3> HIDE DEF p
    <3>1. CASE i \in 1..Len(channel)
      <4>1. p + i \in 1..Len(sent)
        BY <2>1, <2>3, <3>1
      <4> QED
        BY <2>3, <2>4, <3>1, <4>1
    <3>2. CASE i = Len(channel) + 1
      <4>1. p + i = Len(sent) + 1
        BY <2>1, <2>3, <3>2
      <4> QED
        BY <2>4, <3>2, <4>1
    <3> QED
      BY <2>1, <2>4, <3>1, <3>2
  <2>8. Len(sent') = p + Len(channel')
    BY <2>1, <2>3, <2>4
  <2>9. Held' = Held /\ pc' = pc /\ handled' = handled /\ current' = current
    BY DEF Held
  <2> QED
    BY <2>4, <2>5, <2>6, <2>7, <2>8, <2>9 DEF PassInv
<1> QED
  BY <1>1, <1>2 DEF Tells

\* Every step of the composition.
LEMMA PassStep ==
    ASSUME PipelineAssumption, TypeInv, WireInv, PassInv, CounterMod \in Nat \ {0},
           [RadarNext]_radarVars
    PROVE  PassInv'
<1> USE DEF subscriberOnly, taskOnly
<1>1. CASE NodeStep
  <2>1. UNCHANGED <<channel, receiverOpen, sent, taskOnly>>
    BY <1>1, NodeWire DEF NodeStep
  <2> QED
    BY <2>1 DEF PassInv, Held
<1>2. CASE ThreadStep
  <2>1. Tells /\ UNCHANGED taskOnly
    BY <1>2, ThreadTells DEF ThreadStep
  <2> QED
    BY <2>1, PassTells
<1>3. CASE TaskStep
  <2>1. UNCHANGED sent /\ PipelineNext
    BY <1>3 DEF TaskStep
  <2>2. sent \in Seq(Event)
    BY DEF PassInv
  <2>3. CASE RecvClosed
    <3>1. pc' = "stopped"
      BY <2>3 DEF RecvClosed, Return
    <3> QED
      BY <2>1, <2>2, <3>1 DEF PassInv
  <2>4. CASE TxAddedUnparsable
    BY <2>1, <2>4, PassWhole DEF TxAddedUnparsable
  <2>5. CASE BlockConnectedHandler
    BY <2>1, <2>5, PassWhole DEF BlockConnectedHandler
  <2>6. CASE BlockDisconnectedHandler
    BY <2>1, <2>6, PassWhole DEF BlockDisconnectedHandler
  <2>7. CASE TxRemovedHandler
    BY <2>1, <2>7, PassWhole DEF TxRemovedHandler
  <2> QED
    BY <2>1, <2>3, <2>4, <2>5, <2>6, <2>7, PassStart, PassFinish DEF PipelineNext
<1>4. CASE RpcStep
  <2>1. PICK rate \in FeeRate : RpcAnswers(rate) /\ UNCHANGED sent
    BY <1>4 DEF RpcStep
  <2>2. /\ pc = "resolving" /\ pc' = "resolved" /\ current # None
        /\ current' = [current EXCEPT !.rate = rate]
        /\ UNCHANGED <<channel, handled>>
    BY <2>1 DEF RpcAnswers, channelVars, historyVars, TypeInv, TypeOK
  <2>3. current \in [hash : Hash, rate : Nat]
    BY <2>2 DEF TypeInv
  <2>4. current'.hash = current.hash
    BY <2>2, <2>3
  <2>5. TypeInv'
    BY RadarTypes
  <2>6. current' # None
    BY <2>2, <2>5 DEF TypeInv, TypeOK
  <2>7. Held' = Held
    BY <2>2, <2>6 DEF Held
  <2> QED
    BY <2>1, <2>2, <2>4, <2>6, <2>7 DEF PassInv
<1>5. CASE OutsideStep
  <2>1. UNCHANGED <<sent, channel, handled, current, pc>>
    BY <1>5 DEF OutsideStep, CloseUi, Tick, channelVars, historyVars
  <2> QED
    BY <2>1 DEF PassInv, Held
<1>6. CASE UNCHANGED radarVars
  BY <1>6 DEF radarVars, PassInv, Held
<1> QED
  BY <1>1, <1>2, <1>3, <1>4, <1>5, <1>6 DEF RadarNext

\* The mirror is the task's, whoever sends the events.
LEMMA RadarMirror ==
    ASSUME PipelineAssumption, TypeInv, WireInv, PendingMirrorsEvents, CounterMod \in Nat \ {0},
           [RadarNext]_radarVars
    PROVE  PendingMirrorsEvents'
<1>1. CASE NodeStep \/ ThreadStep \/ UNCHANGED radarVars
  <2>1. UNCHANGED <<entries, handled>>
    BY <1>1 DEF NodeStep, ThreadStep, radarVars, taskOnly
  <2> QED
    BY <2>1 DEF PendingMirrorsEvents, LastIsAdd, PendingTxids, Tracked
<1>2. CASE TaskStep \/ RpcStep \/ OutsideStep
  <2>1. Next
    BY <1>2 DEF TaskStep, RpcStep, OutsideStep, Next
  <2> QED
    BY <2>1, MirrorStep
<1> QED
  BY <1>1, <1>2 DEF RadarNext

\* What the channel said last of a transaction is what was handled last of it.
LEMMA StoryEnds ==
    ASSUME handled \in Seq(Event), sent = handled, NEW h \in Hash
    PROVE  LastIsAdd(h) <=> ChannelStory(h) # <<>> /\ Last(ChannelStory(h)) = "announce"
<1> DEFINE P == {TxAdded(h), TxRemoved(h)}
           f == [e \in P |-> IF e.type = "TxAdded" THEN "announce" ELSE "remove"]
           u == Selected(sent, P)
<1>1. \A e \in Event : Concerns(e, h) <=> e \in P
  BY DEF Event, Added, Gone, OfBlock, Concerns, TxAdded, TxRemoved
<1>2. /\ DOMAIN handled = 1..Len(handled) /\ Len(handled) \in Nat
      /\ \A i \in DOMAIN handled : handled[i] \in Event
  OBVIOUS
<1>3. u \in Seq(Event \cap P) /\ Len(u) \in Nat /\ DOMAIN u = 1..Len(u)
  BY SelectedAt
<1>4. DOMAIN f = P /\ f[TxAdded(h)] = "announce" /\ f[TxRemoved(h)] = "remove"
  BY DEF TxAdded, TxRemoved
<1>5. ChannelStory(h) = [k \in DOMAIN u |-> f[u[k]]]
  BY <1>4 DEF ChannelStory, Images
<1> HIDE DEF P, f, u
<1>6. Len(ChannelStory(h)) = Len(u)
  BY <1>3, <1>5
<1>7. /\ ChannelStory(h) # <<>> <=> Len(u) # 0
      /\ Len(u) # 0 => Last(ChannelStory(h)) = f[u[Len(u)]]
  BY <1>3, <1>5, <1>6 DEF Last
<1>8. ASSUME NEW i \in DOMAIN handled, handled[i] \in P,
             \A j \in DOMAIN handled : handled[j] \in P => j <= i
      PROVE  Len(u) # 0 /\ u[Len(u)] = handled[i]
  BY <1>8, SelectedLast DEF u
<1>9. ASSUME LastIsAdd(h)
      PROVE  ChannelStory(h) # <<>> /\ Last(ChannelStory(h)) = "announce"
  <2>1. PICK i \in DOMAIN handled :
            /\ Concerns(handled[i], h) /\ handled[i].type = "TxAdded"
            /\ \A j \in DOMAIN handled : Concerns(handled[j], h) => j <= i
    BY <1>9 DEF LastIsAdd
  <2>2. Len(u) # 0 /\ u[Len(u)] = handled[i]
    BY <1>1, <1>2, <1>8, <2>1
  <2>3. handled[i] = TxAdded(h)
    BY <1>1, <1>2, <2>1 DEF P, TxRemoved
  <2> QED
    BY <1>4, <1>7, <2>2, <2>3
<1>10. ASSUME ChannelStory(h) # <<>>, Last(ChannelStory(h)) = "announce"
       PROVE  LastIsAdd(h)
  <2>1. Selected(handled, P) # <<>>
    BY <1>3, <1>7, <1>10 DEF u
  <2>2. PICK i \in DOMAIN handled :
            handled[i] \in P /\ \A j \in DOMAIN handled : handled[j] \in P => j <= i
    BY <2>1, LastSelected
  <2>3. f[handled[i]] = "announce"
    BY <1>7, <1>8, <1>10, <2>2
  <2>4. handled[i] = TxAdded(h)
    BY <1>4, <2>2, <2>3 DEF P
  <2> QED
    BY <1>1, <1>2, <2>2, <2>4 DEF LastIsAdd, TxAdded
<1> QED
  BY <1>9, <1>10

(* The whole program: nothing goes wrong inside it.  Whatever the node     *)
(* does, whatever is lost, malformed or reordered on the way, and however  *)
(* long the RPC server takes: when everything has been handled, a          *)
(* transaction of which the channel told the node's story is shown as      *)
(* pending exactly if the story ends with an announcement.                 *)
THEOREM RadarCorrect == RadarSpec => []MirrorsNode
<1> DEFINE IInv == TypeInv /\ WireInv /\ PassInv /\ PendingMirrorsEvents
<1>1. RadarInit => IInv
  <2> SUFFICES ASSUME RadarInit PROVE IInv
    OBVIOUS
  <2>1. TypeInv
    BY PipelineAssumption, InitType DEF RadarInit
  <2>2. WireInv
    BY DEF RadarInit, Subscriber!Init, WireInv
  <2>3. PassInv
    BY DEF RadarInit, Init, Subscriber!Init, PassInv, Held
  <2>4. PendingMirrorsEvents
    BY InitMirror DEF RadarInit
  <2> QED
    BY <2>1, <2>2, <2>3, <2>4
<1>2. IInv /\ [RadarNext]_radarVars => IInv'
  <2>1. CounterMod \in Nat \ {0}
    BY RadarAssumption DEF Subscriber!ZmqAssumption
  <2> QED
    BY <2>1, PipelineAssumption, RadarTypes, PassStep, RadarMirror
<1>3. IInv => MirrorsNode
  <2> SUFFICES ASSUME IInv, Drained, NEW h \in Hash, NodeStory(h) = ChannelStory(h)
               PROVE  Pending(h) <=> NodeStory(h) # <<>> /\ Last(NodeStory(h)) = "announce"
    BY DEF MirrorsNode
  <2>1. /\ handled \in Seq(Event) /\ sent \in Seq(Event)
        /\ pc = "recv" /\ channel = <<>> /\ current = None
    BY DEF Drained, TypeInv, TypeOK, PassInv
  <2>2. Len(sent) = Len(handled) /\ \A i \in 1..Len(handled) : handled[i] = sent[i]
    BY <2>1 DEF PassInv, Held
  <2>3. sent = handled
    BY <2>1, <2>2, SeqEqual
  <2>4. LastIsAdd(h) <=> ChannelStory(h) # <<>> /\ Last(ChannelStory(h)) = "announce"
    BY <2>1, <2>3, StoryEnds
  <2>5. \A g \in Hash : TxidOfParsed(g) = TxidOfParsed(h) => g = h
    BY PipelineAssumption, ReversalIsOneToOne DEF PipelineAssumption, TxidOfParsed
  <2>6. Pending(h) <=> LastIsAdd(h)
    BY <2>5 DEF Pending, PendingMirrorsEvents
  <2> QED
    BY <2>4, <2>6
<1> HIDE DEF IInv
<1> QED
  BY <1>1, <1>2, <1>3, PTL DEF RadarSpec
=============================================================================
