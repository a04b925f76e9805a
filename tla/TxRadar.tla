------------------------------- MODULE TxRadar -------------------------------
(***************************************************************************)
(* The subscriber thread and the pipeline task together, joined by the     *)
(* unbounded channel of MempoolEvents that main.rs creates: what the user  *)
(* sees as the mempool against what the node's mempool is.                 *)
(*                                                                         *)
(* This is Pipeline with a subscriber for its SubscriberNext: whatever is  *)
(* put in the channel comes from a step of the thread.                     *)
(***************************************************************************)
EXTENDS Pipeline

CONSTANTS
    CounterMod, MaxNodeEvents, MaxLost, MaxMalformed    \* of ZmqSubscriber

VARIABLES
    pool, connected, minedIn, nodeLog, stamp, lost, malformed, wire,
    sequenceConnected, running, ready, lastSeq, gapWarnings, sent, lastStamp, realGaps,
    wraps

Subscriber == INSTANCE ZmqSubscriber WITH Tx <- Hash

ASSUME RadarAssumption == Subscriber!ZmqAssumption

subscriberOnly ==
    <<pool, connected, minedIn, nodeLog, stamp, lost, malformed, wire,
      sequenceConnected, running, ready, lastSeq, gapWarnings, sent, lastStamp, realGaps,
      wraps>>

taskOnly ==
    <<senderOpen, eventsSent, pc, current, entries, replacementChain, removalStats,
      txCount, blockCount, blockHeight, lastStats, lastPrune, lastSent,
      uiOpen, ui, signals, now, handled, scored>>

radarVars == <<subscriberOnly, channel, receiverOpen, taskOnly>>

RadarInit == Subscriber!Init /\ Init

NodeStep == Subscriber!NodeNext /\ UNCHANGED taskOnly

ThreadStep == Subscriber!ThreadNext /\ UNCHANGED taskOnly

TaskStep == PipelineNext /\ UNCHANGED subscriberOnly

\* The RPC server answers, the window is closed, time passes.
RpcStep == (\E rate \in FeeRate : RpcAnswers(rate)) /\ UNCHANGED subscriberOnly

OutsideStep == (CloseUi \/ Tick) /\ UNCHANGED subscriberOnly

RadarNext == NodeStep \/ ThreadStep \/ TaskStep \/ RpcStep \/ OutsideStep

RadarSpec == RadarInit /\ [][RadarNext]_radarVars

(* Both threads run, published messages become readable, and RPC calls are *)
(* answered.  The window stays open or not, the node does what it likes.   *)
Fairness ==
    /\ \A k \in Subscriber!Topic :
           SF_radarVars(\E topics \in SUBSET Subscriber!Subscribed :
                       k \in topics /\ Subscriber!Poll(topics) /\ UNCHANGED taskOnly)
    /\ WF_radarVars(ThreadStep /\ ready # {})
    /\ WF_radarVars(TaskStep)
    /\ WF_radarVars(RpcStep)

RadarFairSpec == RadarSpec /\ Fairness

-----------------------------------------------------------------------------
(* Properties. *)

Pending(h) == TxidOfParsed(h) \in PendingTxids(entries)

(* Everything the node published has been read, sent and handled. *)
Drained ==
    /\ pc = "recv"
    /\ channel = <<>>
    /\ \A k \in Subscriber!Subscribed : wire[k] = <<>>

Deed == {"announce", "remove", "connect", "disconnect"}

\* What the node did to a transaction, and what the channel said of it.
NodeStory(h) == Images(nodeLog, [e \in [does : Deed, on : {h}] |-> e.does])

ChannelStory(h) ==
    Images(sent, [e \in {TxAdded(h), TxRemoved(h)} |->
                      IF e.type = "TxAdded" THEN "announce" ELSE "remove"])

(* When the system is drained, a transaction whose events came through     *)
(* complete and in order is pending exactly when the last the node         *)
(* published about it was an announcement.  So the only ways to show a     *)
(* transaction that is not in the node's mempool, or to miss one that is,  *)
(* are a lost or reordered message and a block (whose transactions are     *)
(* announced once more): nothing goes wrong inside the program.            *)
MirrorsNode ==
    Drained =>
        \A h \in Hash : NodeStory(h) = ChannelStory(h) =>
            (Pending(h) <=> NodeStory(h) # <<>> /\ Last(NodeStory(h)) = "announce")

\* No block was ever connected, not even in part.
NoBlocks ==
    /\ \A i \in DOMAIN nodeLog : nodeLog[i].does # "connect"
    /\ \A h \in Hash : minedIn[h] = None

(* docs/ARCHITECTURE.md:15 and :22: ordered events feed a map of pending   *)
(* transactions.  With both topics there, nothing lost and no block, a     *)
(* drained system shows the node's mempool.  Announcements and removals    *)
(* come over two sockets, and a removal that is read first leaves its      *)
(* transaction pending.                                                    *)
PendingIsPool ==
    Drained /\ sequenceConnected /\ lost = 0 /\ NoBlocks =>
        \A h \in Hash : Pending(h) <=> h \in pool

(* ARCHITECTURE.md:82: a transaction included in a block goes from Pending *)
(* to Confirmed, by a TxRemoved with reason Confirmed.  In a drained       *)
(* system that was told everything about it, a transaction that had been   *)
(* announced before it was mined, in a block of the chain, is Confirmed.   *)
(* Nothing in the program sends that reason, a block event touches no      *)
(* transaction, and the block's own rawtx makes it pending anew.           *)
MinedConfirmed ==
    Drained =>
        \A h \in Hash :
            (/\ NodeStory(h) = ChannelStory(h)
             /\ Len(NodeStory(h)) > 1
             /\ minedIn[h] \in connected)
                => entries[TxidOfParsed(h)].state = "Confirmed"

Scorings(txid) == Cardinality({i \in DOMAIN scored : scored[i].txid = txid})

(* Everything the node does to a transaction is eventually handled, if no  *)
(* message is lost on the way and the window stays open: it is scored once *)
(* for each time it was announced, and a removal reaches the tracker when  *)
(* there is a sequence socket, whatever else the (boundedly busy) node     *)
(* does in between and wherever the thread and the wait for prevouts are.  *)
EventuallyHandled ==
    \A h \in Hash :
        /\ \A n \in 1..MaxNodeEvents :
              (Subscriber!Did("announce", h) >= n)
                 ~> (Scorings(TxidOfParsed(h)) >= n \/ lost > 0 \/ ~uiOpen)
        /\ (\E i \in DOMAIN nodeLog : nodeLog[i] = [does |-> "remove", on |-> h])
              ~> \/ \E i \in DOMAIN handled :
                        handled[i].type = "TxRemoved" /\ handled[i].txid = h
                 \/ lost > 0 \/ ~uiOpen \/ ~sequenceConnected

(* The program winds down by itself: once the window is closed, the next   *)
(* transaction ends the pipeline; once the pipeline has ended, the next    *)
(* raw transaction (if it is not lost) ends the subscriber thread, which   *)
(* does not go on reading for a closed channel.                            *)
WindsDown ==
    /\ (~uiOpen /\ pc = "resolving") ~> pc = "stopped"
    /\ (/\ pc = "stopped"
        /\ \E i \in DOMAIN wire["rawtx"] : wire["rawtx"][i].frames = "rawtx")
          ~> (~running \/ lost > 0)
=============================================================================
