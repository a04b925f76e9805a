------------------------------- MODULE Pipeline -------------------------------
(***************************************************************************)
(* run_pipeline of core/pipeline.rs: one task that takes the events of the *)
(* channel in order and handles each to the end, with one await inside the *)
(* handler of TxAdded, for the prevouts of the transaction.                *)
(*                                                                         *)
(* What a transaction is worth (fee rate, score) is decided by its data    *)
(* and by what the prevout resolution found, and is chosen freely here.    *)
(* Both clocks of the code (Utc::now for the tracker, Instant for the      *)
(* intervals) are the one variable `now`.                                  *)
(***************************************************************************)
EXTENDS MempoolOps, MempoolEvents, Sequences, SequencesExt, Selection

CONSTANTS
    Hash,            \* transaction hashes, as sequences of bytes
    Garbage,         \* a raw transaction that does not parse
    Block,           \* block hashes
    None,            \* Option::None
    Score,           \* composite scores that occur
    MinPersist,      \* config.signals.min_score_persist
    NotifyEnabled,   \* config.notifications
    NotifyMin,
    Cooldown,
    StatsTx,         \* config.ui.stats_update_interval_txs
    StatsTime,       \* STATS_TIME_INTERVAL
    PruneInterval,   \* PRUNE_INTERVAL
    MaxAge,          \* PRUNE_MAX_AGE
    MaxEvents,       \* bound on the events sent
    MaxTime          \* bound on the clock

ASSUME PipelineAssumption ==
    /\ Hash \subseteq Seq(Nat)
    /\ \A h \in Hash : Reverse(h) \in Txid
    /\ Garbage \notin Hash
    /\ None \notin Nat /\ None \notin [hash : Hash, rate : Nat]
    /\ Score \subseteq Nat /\ MinPersist \in Nat /\ NotifyMin \in Nat
    /\ NotifyEnabled \in BOOLEAN
    /\ StatsTx \in Nat \ {0}
    /\ Cooldown \in Nat /\ MaxAge \in Nat
    /\ StatsTime \in Nat \ {0} /\ PruneInterval \in Nat \ {0}
    /\ MaxEvents \in Nat /\ MaxTime \in Nat

VARIABLES
    channel,         \* events sent and not yet received
    senderOpen,      \* the subscriber thread still holds the sender
    receiverOpen,    \* run_pipeline has not returned
    eventsSent,      \* events put in the channel so far
    pc,              \* where run_pipeline is
    current,         \* the transaction being handled
    entries, replacementChain, removalStats,    \* the MempoolState
    txCount, blockCount, blockHeight,
    lastStats, lastPrune,                       \* last_stats_time, last_prune_time
    lastSent,        \* the notifier's last_sent
    uiOpen,          \* the UI still holds its receiver
    ui,              \* what the UI has been told
    signals,         \* entries sent to the signal flusher
    now,
    handled,         \* history: events handled
    scored           \* history: transactions scored

channelVars == <<channel, senderOpen, receiverOpen, eventsSent>>
mempoolVars == <<entries, replacementChain, removalStats>>
localVars == <<txCount, blockCount, blockHeight, lastStats, lastPrune, lastSent>>
outVars == <<ui, signals>>
historyVars == <<handled, scored>>
vars == <<channelVars, pc, current, mempoolVars, localVars, outVars, uiOpen, now, historyVars>>

NoStats == [pending |-> 0, removals |-> 0, at |-> 0, after |-> 0]

Init ==
    /\ channel = <<>> /\ senderOpen = TRUE /\ receiverOpen = TRUE /\ eventsSent = 0
    /\ pc = "recv" /\ current = None
    /\ entries = [t \in Txid |-> NoEntry]
    /\ replacementChain = [t \in Txid |-> NoTxid]
    /\ removalStats = NoRemovals
    /\ txCount = 0 /\ blockCount = 0 /\ blockHeight = 0
    /\ lastStats = 0 /\ lastPrune = 0 /\ lastSent = None
    /\ uiOpen = TRUE /\ ui = [newTx |-> 0, blocks |-> 0, stats |-> NoStats]
    /\ signals = <<>> /\ now = 0
    /\ handled = <<>> /\ scored = <<>>

-----------------------------------------------------------------------------
(* Txids.  A hash is displayed with its bytes reversed: compute_txid's     *)
(* to_string does it for a parsed transaction, the handler of TxRemoved    *)
(* for the hash of the message.                                            *)

TxidOfParsed(hash) == Reverse(hash)

\* Variant: the bytes are printed in the order of the message.
HexUnreversed(hash) == hash

HexOfRemoved(hash) == Reverse(hash)

-----------------------------------------------------------------------------
(* The surroundings: the subscriber, the node's RPC server, the UI, time.  *)

SendEvent(e) ==
    /\ senderOpen /\ receiverOpen
    /\ eventsSent < MaxEvents
    /\ eventsSent' = eventsSent + 1
    /\ channel' = Append(channel, e)
    /\ UNCHANGED <<senderOpen, receiverOpen, pc, current, mempoolVars, localVars, outVars,
                   uiOpen, now, historyVars>>

\* The subscriber thread is gone (it panics when it cannot set up its sockets).
CloseSender ==
    /\ senderOpen
    /\ senderOpen' = FALSE
    /\ UNCHANGED <<channel, receiverOpen, eventsSent, pc, current, mempoolVars, localVars,
                   outVars, uiOpen, now, historyVars>>

\* The last RPC call for the transaction answers, with a result or an error;
\* inputs that stay unresolved leave the fee rate at what the others give.
RpcAnswers(rate) ==
    /\ pc = "resolving"
    /\ pc' = "resolved"
    /\ current' = [current EXCEPT !.rate = rate]
    /\ UNCHANGED <<channelVars, mempoolVars, localVars, outVars, uiOpen, now, historyVars>>

CloseUi ==
    /\ uiOpen
    /\ uiOpen' = FALSE
    /\ UNCHANGED <<channelVars, pc, current, mempoolVars, localVars, outVars, now, historyVars>>

Tick ==
    /\ now < MaxTime
    /\ now' = now + 1
    /\ UNCHANGED <<channelVars, pc, current, mempoolVars, localVars, outVars, uiOpen,
                   historyVars>>

-----------------------------------------------------------------------------
(* The task. *)

Receive(type) ==
    /\ pc = "recv"
    /\ channel # <<>>
    /\ Head(channel).type = type
    /\ channel' = Tail(channel)
    /\ UNCHANGED <<senderOpen, receiverOpen, eventsSent>>

Handled(e) == handled' = Append(handled, e)

\* Variant: the receiver outlives the loop.
ReturnKeepsReceiver ==
    /\ pc' = "stopped"
    /\ UNCHANGED <<receiverOpen, channel>>

\* run_pipeline returns: the receiver is dropped with what is queued in it.
Return ==
    /\ pc' = "stopped"
    /\ receiverOpen' = FALSE
    /\ channel' = <<>>

\* recv() yields None: every sender is gone and the queue is empty.
RecvClosed ==
    /\ pc = "recv" /\ channel = <<>> /\ ~senderOpen
    /\ Return
    /\ UNCHANGED <<senderOpen, eventsSent, current, mempoolVars, localVars, outVars, uiOpen,
                   now, historyVars>>

\* A raw transaction that does not parse is skipped.
TxAddedUnparsable ==
    /\ Receive("TxAdded")
    /\ Head(channel).raw = Garbage
    /\ Handled(Head(channel))
    /\ UNCHANGED <<pc, current, mempoolVars, localVars, outVars, uiOpen, now, scored>>

\* Up to the await in resolve_all_prevouts.
TxAddedStarts ==
    /\ Receive("TxAdded")
    /\ Head(channel).raw # Garbage
    /\ pc' = "resolving"
    /\ current' = [hash |-> Head(channel).raw, rate |-> 0]
    /\ UNCHANGED <<mempoolVars, localVars, outVars, uiOpen, now, historyVars>>

\* Notifier::notify
Notifies(score) ==
    /\ NotifyEnabled
    /\ score >= NotifyMin
    /\ lastSent # None => now - lastSent >= Cooldown

\* Variant: every pass through the cooldown check restarts it.
SentAtAlways(score) == now

\* check_cooldown: the time is taken only when it passes.
SentAt(score) == IF Notifies(score) THEN now ELSE lastSent

\* What send_stats tells, of a tracker es with removal counters stats.
Stats(es, stats, count) ==
    [pending |-> PendingCount(es), removals |-> Total(stats), at |-> now, after |-> count]

\* Variant: a score at the threshold is persisted too.
PersistedAtThreshold(score) == score >= MinPersist

Persisted(score) == score > MinPersist

SignalEntry(txid, score) == [txid |-> txid, score |-> score, block |-> blockHeight]

\* Variant: only the elapsed time makes stats due.
StatsDueByTime(count) == now - lastStats >= StatsTime

StatsDue(count) == count % StatsTx = 0 \/ now - lastStats >= StatsTime

\* Variant: stats reset the prune timer.
PruneDueSinceStats == now - lastStats >= PruneInterval

PruneDue == now - lastPrune >= PruneInterval

\* ui_tx.send succeeds.
UiTakes == uiOpen

\* From the answer to the end of the handler: there is no other await.  A UI
\* that has gone ends the loop after the signal is queued.
TxAddedFinishes(score) ==
    /\ pc = "resolved"
    /\ LET txid  == TxidOfParsed(current.hash)
           added == Inserted(entries, txid, current.rate, now)
           count == txCount + 1
       IN  /\ txCount' = count
           /\ lastSent' = SentAt(score)
           /\ signals' = IF Persisted(score)
                         THEN Append(signals, SignalEntry(txid, score)) ELSE signals
           /\ scored' = Append(scored, [txid |-> txid, score |-> score, at |-> now,
                                        shown |-> Notifies(score)])
           /\ Handled(TxAdded(current.hash))
           /\ IF UiTakes
              THEN /\ pc' = "recv"
                   /\ ui' = [ui EXCEPT !.newTx = @ + 1,
                                       !.stats = IF StatsDue(count)
                                                 THEN Stats(added, removalStats, count) ELSE @]
                   /\ lastStats' = IF StatsDue(count) THEN now ELSE lastStats
                   /\ entries' = IF PruneDue THEN Pruned(added, MaxAge, now) ELSE added
                   /\ replacementChain' =
                          IF PruneDue
                          THEN ChainAfterPrune(replacementChain, added, MaxAge, now)
                          ELSE replacementChain
                   /\ lastPrune' = IF PruneDue THEN now ELSE lastPrune
                   /\ UNCHANGED <<channel, receiverOpen>>
              ELSE /\ Return
                   /\ entries' = added
                   /\ UNCHANGED <<ui, lastStats, lastPrune, replacementChain>>
    /\ current' = None
    /\ UNCHANGED <<senderOpen, eventsSent, removalStats, blockCount, blockHeight, uiOpen, now>>

\* A closed UI is not noticed here: the results of these sends are ignored.
BlockConnectedHandler ==
    /\ Receive("BlockConnected")
    /\ LET e == Head(channel)
       IN  /\ blockCount' = blockCount + 1
           /\ blockHeight' = IF e.height > 0 THEN e.height ELSE blockHeight
           /\ ui' = IF uiOpen
                    THEN [ui EXCEPT !.blocks = @ + 1,
                                    !.stats = Stats(entries, removalStats, txCount)]
                    ELSE ui
           /\ Handled(e)
    /\ UNCHANGED <<pc, current, mempoolVars, txCount, lastStats, lastPrune, lastSent, signals,
                   uiOpen, now, scored>>

BlockDisconnectedHandler ==
    /\ Receive("BlockDisconnected")
    /\ Handled(Head(channel))
    /\ UNCHANGED <<pc, current, mempoolVars, localVars, outVars, uiOpen, now, scored>>

TxRemovedHandler ==
    /\ Receive("TxRemoved")
    /\ LET e == Head(channel)
           txid == HexOfRemoved(e.txid)
       IN  /\ entries' = Removed(entries, txid, e.reason, now)
           /\ removalStats' = StatsAfterRemoval(removalStats, entries, txid, e.reason)
           /\ Handled(e)
    /\ UNCHANGED <<pc, current, replacementChain, localVars, outVars, uiOpen, now, scored>>

PipelineNext ==
    \/ RecvClosed
    \/ TxAddedUnparsable
    \/ TxAddedStarts
    \/ \E score \in Score : TxAddedFinishes(score)
    \/ BlockConnectedHandler
    \/ BlockDisconnectedHandler
    \/ TxRemovedHandler

SubscriberNext ==
    \/ \E raw \in Hash \cup {Garbage} : SendEvent(TxAdded(raw))
    \/ \E h \in Hash : SendEvent(TxRemoved(h))
    \/ \E b \in Block : SendEvent(BlockConnected(b)) \/ SendEvent(BlockDisconnected(b))
    \/ CloseSender

Next ==
    \/ SubscriberNext
    \/ \E rate \in FeeRate : RpcAnswers(rate)
    \/ CloseUi
    \/ Tick
    \/ PipelineNext

Spec == Init /\ [][Next]_vars

-----------------------------------------------------------------------------
(* Properties. *)

(* Every variable keeps its type, and a transaction is being handled       *)
(* exactly between the two halves of the TxAdded handler.                  *)
TypeOK ==
    /\ pc \in {"recv", "resolving", "resolved", "stopped"}
    /\ (current # None) = (pc \in {"resolving", "resolved"})
    /\ receiverOpen = (pc # "stopped")
    /\ entries \in [Txid -> MempoolEntry \cup {NoEntry}]
    /\ removalStats \in RemovalStats
    /\ lastStats \in 0..now /\ lastPrune \in 0..now
    /\ lastSent \in (0..now) \cup {None}
    /\ ui.newTx \in Nat /\ ui.blocks \in Nat

\* The last event handled about a transaction.
Concerns(e, h) ==
    \/ e.type = "TxAdded" /\ e.raw = h
    \/ e.type = "TxRemoved" /\ e.txid = h

LastIsAdd(h) ==
    \E i \in DOMAIN handled :
        /\ Concerns(handled[i], h) /\ handled[i].type = "TxAdded"
        /\ \A j \in DOMAIN handled : Concerns(handled[j], h) => j <= i

(* The tracker mirrors the events: a transaction is pending exactly when   *)
(* the last event handled about it is its announcement.  The removal       *)
(* finds the entry the announcement made (both turn the same hash into the *)
(* same key), and neither the wait for prevouts nor pruning comes between. *)
PendingMirrorsEvents ==
    PendingTxids(entries) = {TxidOfParsed(h) : h \in {g \in Hash : LastIsAdd(g)}}

(* The removals shown to the user add up: after a burst of events no more  *)
(* removals are counted than removal events were handled, and every        *)
(* departed entry still held is among them.                                *)
RemovalsAddUp ==
    /\ Total(removalStats) <=
         Cardinality({i \in DOMAIN handled : handled[i].type = "TxRemoved"})
    /\ Cardinality(Departed(entries)) <= Total(removalStats)

\* The transactions scored above the noise threshold.
Loud == [txid : Txid, score : {n \in Score : n > MinPersist}, at : Nat, shown : BOOLEAN]

(* Every transaction above the noise threshold is queued for the database, *)
(* once and in order, the one that finds the UI gone included.             *)
SignalsComplete ==
    [i \in DOMAIN signals |-> <<signals[i].txid, signals[i].score>>] =
    LET loud == Selected(scored, Loud)
    IN  [i \in DOMAIN loud |-> <<loud[i].txid, loud[i].score>>]

(* Notifications: two of them are at least a cooldown apart, and a         *)
(* transaction that deserves one is passed over only if one was shown less *)
(* than a cooldown before it: those passed over do not extend the silence. *)
NotifierQuota ==
    \A j \in DOMAIN scored :
        LET recent == {i \in 1..(j - 1) : scored[i].shown /\ scored[j].at - scored[i].at < Cooldown}
        IN  scored[j].shown <=> NotifyEnabled /\ scored[j].score >= NotifyMin /\ recent = {}

(* Each time a transaction has been handled, no departed entry is held for *)
(* longer than MaxAge and one prune interval.                              *)
PrunedInTime ==
    [][txCount' # txCount /\ pc' = "recv" =>
        \A t \in Departed(entries') : now < entries'[t].changedAt + MaxAge + PruneInterval]_vars

(* Each time a transaction has been handled, the UI has stats younger than *)
(* StatsTime and fewer than StatsTx transactions old.                      *)
StatsFreshAfterTx ==
    [][txCount' # txCount /\ pc' = "recv" =>
        /\ now < ui'.stats.at + StatsTime
        /\ txCount' < ui'.stats.after + StatsTx]_vars
=============================================================================
