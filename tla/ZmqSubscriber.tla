---------------------------- MODULE ZmqSubscriber ----------------------------
(***************************************************************************)
(* The subscriber thread of rpc/zmq_sub.rs between the node's ZMQ sockets  *)
(* and the channel of MempoolEvents.                                       *)
(*                                                                         *)
(* The node is outside the repository: it publishes on three sockets that  *)
(* share no order, a publication may be lost (PUB drops what it cannot     *)
(* queue) and a message may be malformed.  `wire` holds what has been      *)
(* published and not yet read; when a message is readable is up to the     *)
(* network, so Poll finds any non-empty choice of the pending topics.      *)
(*                                                                         *)
(* The thread reads at most one message per socket and poll, rawtx first,  *)
(* then hashblock, then sequence.                                          *)
(***************************************************************************)
EXTENDS Naturals, FiniteSets, Sequences, SequencesExt, MempoolEvents, Selection

CONSTANTS
    Tx,                  \* transactions, named by their hash
    Block,               \* blocks, named by their hash
    Garbage,             \* a rawtx body that is no transaction
    None,                \* Option::None
    CounterMod,          \* the node's u32 message counter wraps here
    MaxNodeEvents,       \* bound on what the node does
    MaxLost,             \* bound on lost publications
    MaxMalformed         \* bound on malformed messages

ASSUME ZmqAssumption ==
    /\ Garbage \notin Tx /\ None \notin Nat \cup Block
    /\ Tx \cap Block = {}
    /\ CounterMod \in Nat \ {0}
    /\ MaxNodeEvents \in Nat /\ MaxLost \in Nat /\ MaxMalformed \in Nat

VARIABLES
    \* the node
    pool,             \* transactions in the node's mempool
    connected,        \* blocks of the node's chain
    minedIn,          \* the block a transaction has been announced with, or None
    nodeLog,          \* history: what the node did
    stamp,            \* sequence messages published so far
    lost,             \* history: publications lost
    malformed,        \* history: malformed messages
    wire,             \* topic -> published messages not yet read
    \* the thread
    sequenceConnected,    \* the optional third socket could be set up
    running,          \* the thread has not returned
    ready,            \* topics of this iteration still to be read
    lastSeq,          \* last_seq
    gapWarnings,      \* "ZMQ sequence gap detected" lines logged
    \* the channel
    channel,          \* events sent and not yet received
    receiverOpen,     \* the pipeline still holds the receiver
    sent,             \* history: every event sent
    lastStamp,        \* history: position of the last numbered message
    realGaps,         \* history: numbered messages that skipped positions
    wraps             \* history: numbered messages in order at which the counter wrapped

nodeVars == <<pool, connected, minedIn, nodeLog, stamp, lost, malformed>>
trackVars == <<lastSeq, gapWarnings, lastStamp, realGaps, wraps>>
threadVars == <<sequenceConnected, running, ready, trackVars>>
channelVars == <<channel, receiverOpen, sent>>
vars == <<nodeVars, wire, threadVars, channelVars>>

Topic == {"rawtx", "hashblock", "sequence"}

Subscribed == IF sequenceConnected THEN Topic ELSE Topic \ {"sequence"}

Init ==
    /\ pool = {} /\ connected = {} /\ nodeLog = <<>>
    /\ minedIn = [t \in Tx |-> None]
    /\ stamp = 0 /\ lost = 0 /\ malformed = 0
    /\ wire = [k \in Topic |-> <<>>]
    /\ sequenceConnected \in BOOLEAN
    /\ running = TRUE /\ ready = {}
    /\ lastSeq = None /\ gapWarnings = 0
    /\ channel = <<>> /\ receiverOpen = TRUE /\ sent = <<>>
    /\ lastStamp = None /\ realGaps = 0 /\ wraps = 0

-----------------------------------------------------------------------------
(* Messages. *)

RawtxMsg(body) == [frames |-> "rawtx", body |-> body]

HashblockMsg(b) == [frames |-> "hashblock", body |-> b]

\* A sequence message: label, hash, counter (None: the frame is missing), and
\* its true position.
SequenceMsg(label, hash, seq, at) ==
    [frames |-> "sequence", label |-> label, body |-> hash, seq |-> seq, at |-> at]

\* Frames the thread does not recognise, or a body of the wrong length.
BadMsg == [frames |-> "bad"]

-----------------------------------------------------------------------------
(* The node (external).  Each step publishes on the topics it concerns; a  *)
(* topic nobody subscribed to carries nothing.                             *)
(*                                                                         *)
(* rawtx does not only carry what enters the mempool: the node publishes   *)
(* every transaction of a block there when it connects the block, and when *)
(* it disconnects it, before the messages about the block itself.  A block *)
(* is therefore a step for each of its transactions and one for the block. *)
(* A mined transaction need not have been in the mempool: a coinbase never *)
(* was.  A block connected again may hold other transactions here; this    *)
(* only adds behaviours.                                                   *)

Numbered(label, hash, n) == SequenceMsg(label, hash, n % CounterMod, n)

Publish(msgs) ==
    wire' = [k \in Topic |-> IF k \in Subscribed THEN wire[k] \o msgs[k] ELSE <<>>]

NodeDoes(event) ==
    /\ Len(nodeLog) < MaxNodeEvents
    /\ nodeLog' = Append(nodeLog, event)
    /\ UNCHANGED <<lost, malformed, threadVars, channelVars>>

\* A transaction enters the mempool.
Accept(t) ==
    /\ t \notin pool
    /\ minedIn[t] = None
    /\ pool' = pool \cup {t}
    /\ NodeDoes([does |-> "announce", on |-> t])
    /\ stamp' = stamp + 1
    /\ Publish([rawtx |-> <<RawtxMsg(t)>>, hashblock |-> <<>>,
                sequence |-> <<Numbered("A", t, stamp)>>])
    /\ UNCHANGED <<connected, minedIn>>

\* A transaction is evicted, replaced, or expires.
Evict(t) ==
    /\ t \in pool
    /\ pool' = pool \ {t}
    /\ NodeDoes([does |-> "remove", on |-> t])
    /\ stamp' = stamp + 1
    /\ Publish([rawtx |-> <<>>, hashblock |-> <<>>,
                sequence |-> <<Numbered("R", t, stamp)>>])
    /\ UNCHANGED <<connected, minedIn>>

RawtxOnly(t) == [rawtx |-> <<RawtxMsg(t)>>, hashblock |-> <<>>, sequence |-> <<>>]

\* A transaction of the block that is being connected; it leaves the mempool
\* if it was there, and no 'R' tells of it.
Mine(t, b) ==
    /\ b \notin connected
    /\ minedIn[t] = None
    /\ \A u \in Tx : minedIn[u] \in connected \cup {b, None}
    /\ minedIn' = [minedIn EXCEPT ![t] = b]
    /\ pool' = pool \ {t}
    /\ NodeDoes([does |-> "announce", on |-> t])
    /\ Publish(RawtxOnly(t))
    /\ UNCHANGED <<connected, stamp>>

Connect(b) ==
    /\ b \notin connected
    /\ \A u \in Tx : minedIn[u] \in connected \cup {b, None}
    /\ connected' = connected \cup {b}
    /\ NodeDoes([does |-> "connect", on |-> b])
    /\ stamp' = stamp + 1
    /\ Publish([rawtx |-> <<>>, hashblock |-> <<HashblockMsg(b)>>,
                sequence |-> <<Numbered("C", b, stamp)>>])
    /\ UNCHANGED <<pool, minedIn>>

\* A transaction of a block that is being disconnected; if it returns to the
\* mempool, Accept announces it again.
Unmine(t) ==
    /\ minedIn[t] \in connected
    /\ minedIn' = [minedIn EXCEPT ![t] = None]
    /\ NodeDoes([does |-> "announce", on |-> t])
    /\ Publish(RawtxOnly(t))
    /\ UNCHANGED <<pool, connected, stamp>>

Disconnect(b) ==
    /\ b \in connected
    /\ \A t \in Tx : minedIn[t] # b
    /\ connected' = connected \ {b}
    /\ NodeDoes([does |-> "disconnect", on |-> b])
    /\ stamp' = stamp + 1
    /\ Publish([rawtx |-> <<>>, hashblock |-> <<>>,
                sequence |-> <<Numbered("D", b, stamp)>>])
    /\ UNCHANGED <<pool, minedIn>>

\* Something the thread must skip: unexpected frames or body on any topic, a
\* label it does not know, a sequence message without its counter, a rawtx
\* body that no transaction parses from.
Malformed(k, msg) ==
    /\ malformed < MaxMalformed
    /\ malformed' = malformed + 1
    /\ stamp' = IF k = "sequence" THEN stamp + 1 ELSE stamp
    /\ Publish([j \in Topic |-> IF j = k THEN <<msg>> ELSE <<>>])
    /\ UNCHANGED <<pool, connected, minedIn, nodeLog, lost, threadVars, channelVars>>

MalformedOn(k) ==
    {BadMsg} \cup
    CASE k = "rawtx"     -> {RawtxMsg(Garbage)}
      [] k = "hashblock" -> {}
      [] k = "sequence"  -> {Numbered("other", Garbage, stamp),
                             SequenceMsg("other", Garbage, None, stamp)}

\* A publication is dropped before it reaches the thread.
Lose(k, i) ==
    /\ lost < MaxLost
    /\ i \in 1..Len(wire[k])
    /\ k \in ready => i > 1
    /\ lost' = lost + 1
    /\ wire' = [wire EXCEPT ![k] = RemoveAt(@, i)]
    /\ UNCHANGED <<pool, connected, minedIn, nodeLog, stamp, malformed, threadVars,
                  channelVars>>

\* The pipeline returns and drops the receiver.
CloseReceiver ==
    /\ receiverOpen
    /\ receiverOpen' = FALSE
    /\ channel' = <<>>
    /\ UNCHANGED <<nodeVars, wire, threadVars, sent>>

NodeNext ==
    \/ \E t \in Tx : Accept(t) \/ Evict(t) \/ Unmine(t) \/ \E b \in Block : Mine(t, b)
    \/ \E b \in Block : Connect(b) \/ Disconnect(b)
    \/ \E k \in Subscribed : \E msg \in MalformedOn(k) : Malformed(k, msg)
    \/ \E k \in Subscribed, i \in 1..(MaxNodeEvents + MaxMalformed) : Lose(k, i)

-----------------------------------------------------------------------------
(* The thread. *)

\* zmq::poll: one or more sockets are readable.  A timeout or an error of
\* poll starts the loop again and changes nothing.
Poll(topics) ==
    /\ running
    /\ ready = {}
    /\ topics # {}
    /\ topics \subseteq {k \in Subscribed : wire[k] # <<>>}
    /\ ready' = topics
    /\ UNCHANGED <<nodeVars, wire, sequenceConnected, running, trackVars, channelVars>>

Consume(k) == wire' = [wire EXCEPT ![k] = Tail(@)]

\* Variant: a failed send is ignored.
SendIgnoringClosed(k, event) ==
    /\ IF receiverOpen
       THEN /\ channel' = Append(channel, event)
            /\ sent' = Append(sent, event)
       ELSE UNCHANGED <<channel, sent>>
    /\ ready' = ready \ {k}
    /\ UNCHANGED <<running, receiverOpen>>

\* tx.send: the thread returns when the receiver is gone.
Send(k, event) ==
    /\ running' = receiverOpen
    /\ IF receiverOpen
       THEN /\ channel' = Append(channel, event)
            /\ sent' = Append(sent, event)
            /\ ready' = ready \ {k}
       ELSE /\ ready' = {}
            /\ UNCHANGED <<channel, sent>>
    /\ UNCHANGED receiverOpen

\* Variant: the thread gives up on a message it cannot use.
SkipReturns(k) ==
    /\ ready' = {}
    /\ running' = FALSE
    /\ UNCHANGED channelVars

\* Variant: the topic stays marked ready.
SkipStaysReady(k) ==
    /\ ready' = ready
    /\ UNCHANGED <<running, channelVars>>

Skip(k) ==
    /\ ready' = ready \ {k}
    /\ UNCHANGED <<running, channelVars>>

RecvRawtx ==
    /\ "rawtx" \in ready
    /\ LET msg == Head(wire["rawtx"])
       IN  IF msg.frames = "rawtx" THEN Send("rawtx", TxAdded(msg.body)) ELSE Skip("rawtx")
    /\ Consume("rawtx")
    /\ UNCHANGED <<nodeVars, sequenceConnected, trackVars>>

RecvHashblock ==
    /\ "hashblock" \in ready /\ "rawtx" \notin ready
    /\ LET msg == Head(wire["hashblock"])
       IN  IF msg.frames = "hashblock" THEN Send("hashblock", BlockConnected(msg.body))
                                       ELSE Skip("hashblock")
    /\ Consume("hashblock")
    /\ UNCHANGED <<nodeVars, sequenceConnected, trackVars>>

\* Variant: compared with the last number itself.
IsOther(prev, s) == s # prev

\* Missed-event detection compares with prev + 1 in u64.
IsGap(prev, s) == s # prev + 1

TrackSequence(msg) ==
    IF msg.seq = None
    THEN UNCHANGED trackVars
    ELSE /\ gapWarnings' = IF lastSeq # None /\ IsGap(lastSeq, msg.seq)
                           THEN gapWarnings + 1 ELSE gapWarnings
         /\ lastSeq' = msg.seq
         /\ realGaps' = IF lastStamp # None /\ msg.at # lastStamp + 1
                        THEN realGaps + 1 ELSE realGaps
         /\ wraps' = IF lastStamp # None /\ msg.at = lastStamp + 1 /\ msg.at % CounterMod = 0
                     THEN wraps + 1 ELSE wraps
         /\ lastStamp' = msg.at

\* Variant: an added transaction is announced from this topic too.
DispatchAdds(msg) ==
    CASE msg.label = "A" -> Send("sequence", TxAdded(msg.body))
      [] msg.label = "R" -> Send("sequence", TxRemoved(msg.body))
      [] msg.label = "C" -> Send("sequence", BlockConnected(msg.body))
      [] msg.label = "D" -> Send("sequence", BlockDisconnected(msg.body))
      [] OTHER           -> Skip("sequence")

\* Variant: a disconnected block is not reported.
DispatchNoDisconnect(msg) ==
    CASE msg.label = "R" -> Send("sequence", TxRemoved(msg.body))
      [] msg.label = "C" -> Send("sequence", BlockConnected(msg.body))
      [] OTHER           -> Skip("sequence")

\* 'A' is ignored: rawtx carries the transaction.
Dispatch(msg) ==
    CASE msg.label = "R" -> Send("sequence", TxRemoved(msg.body))
      [] msg.label = "C" -> Send("sequence", BlockConnected(msg.body))
      [] msg.label = "D" -> Send("sequence", BlockDisconnected(msg.body))
      [] OTHER           -> Skip("sequence")

RecvSequence ==
    /\ ready = {"sequence"}
    /\ LET msg == Head(wire["sequence"])
       IN  IF msg.frames = "sequence"
           THEN TrackSequence(msg) /\ Dispatch(msg)
           ELSE /\ Skip("sequence")
                /\ UNCHANGED trackVars
    /\ Consume("sequence")
    /\ UNCHANGED <<nodeVars, sequenceConnected>>

ThreadNext ==
    \/ \E topics \in SUBSET Subscribed : Poll(topics)
    \/ RecvRawtx
    \/ RecvHashblock
    \/ RecvSequence

Next == NodeNext \/ CloseReceiver \/ ThreadNext

Spec == Init /\ [][Next]_vars

-----------------------------------------------------------------------------
(* Properties. *)

Times(events, e) == Cardinality({i \in DOMAIN events : events[i] = e})

Did(what, x) == Times(nodeLog, [does |-> what, on |-> x])

(* Every variable keeps its type: topics read are pending ones, and the    *)
(* thread has returned only once the receiver is gone.                     *)
TypeOK ==
    /\ pool \subseteq Tx /\ connected \subseteq Block
    /\ minedIn \in [Tx -> Block \cup {None}]
    /\ ready \subseteq {k \in Subscribed : wire[k] # <<>>}
    /\ lastSeq \in (0..(CounterMod - 1)) \cup {None}
    /\ running \in BOOLEAN /\ receiverOpen \in BOOLEAN
    /\ ~running => ~receiverOpen
    /\ gapWarnings \in Nat /\ realGaps \in Nat
    /\ Len(channel) <= Len(sent)

(* Missed-event detection warns exactly when positions of the sequence     *)
(* topic were skipped between two numbered messages (lost, or unreadable), *)
(* and, falsely, each time the node's u32 counter wraps: the comparison is *)
(* made in u64.  No gap goes unreported, and there is no other false one,  *)
(* as long as fewer messages are missing than the counter has values.      *)
GapWarningsExact == gapWarnings = realGaps + wraps

(* The channel carries no more events about a transaction or a block than  *)
(* the node published: a transaction is announced once for each time rawtx *)
(* carried it (entering the mempool, in a block connected or disconnected) *)
(* although the sequence topic tells of an acceptance too; a removal once, *)
(* a disconnection once.  A connection is announced once by hashblock and, *)
(* where the sequence topic is subscribed, once more by its 'C'; the       *)
(* pipeline counts each as a block.                                        *)
NothingTwice ==
    /\ \A t \in Tx :
        /\ Times(sent, TxAdded(t)) <= Did("announce", t)
        /\ Times(sent, TxRemoved(t)) <= Did("remove", t)
    /\ \A b \in Block :
        /\ Times(sent, BlockConnected(b)) <= (IF sequenceConnected THEN 2 ELSE 1) * Did("connect", b)
        /\ Times(sent, BlockDisconnected(b)) <= Did("disconnect", b)

\* What the three kinds of events are about, and what the node's deeds are.
AddedTx == [e \in [type : {"TxAdded"}, raw : Tx] |-> e.raw]

RemovedTx == [e \in [type : {"TxRemoved"}, txid : Tx, reason : {"Unknown"}] |-> e.txid]

DisconnectedBlock == [e \in [type : {"BlockDisconnected"}, block : Block, height : {0}] |-> e.block]

Deeds(what) == [e \in [does : {what}, on : Tx \cup Block] |-> e.on]

(* Once everything published has been read, and nothing was lost, every    *)
(* announcement of a transaction, removal and disconnection of the node    *)
(* has reached the channel, each kind in the order of the node.            *)
CompleteWhenDrained ==
    (\A k \in Subscribed : wire[k] = <<>>) /\ receiverOpen /\ lost = 0
    => /\ Images(sent, AddedTx) = Images(nodeLog, Deeds("announce"))
       /\ sequenceConnected =>
            /\ Images(sent, RemovedTx) = Images(nodeLog, Deeds("remove"))
            /\ Images(sent, DisconnectedBlock) = Images(nodeLog, Deeds("disconnect"))
=============================================================================
