------------------------------ MODULE RpcProofs ------------------------------
(***************************************************************************)
(* The two modules of src/rpc: what the subscriber's thread (zmq_sub.rs)   *)
(* tells the pipeline about the node, and where the RPC client             *)
(* (mod.rs) has its credentials from.                                      *)
(*                                                                         *)
(* The invariants of the subscriber, apart from types (TypeInv):           *)
(*   - SpacingInv: positions on the sequence topic grow by one for each    *)
(*     message and one more for each that was lost or cannot be read, so   *)
(*     two neighbours are never further apart than what is missing;        *)
(*   - BudgetInv: what the channel has been told, together with what is    *)
(*     still on the wire, is no more than the node did;                    *)
(*   - StoryInv: while nothing is lost it is what the node did, in order.  *)
(***************************************************************************)
EXTENDS ZmqSubscriber, RpcClient, SelectionProofs

\* Counting an element is counting a set of one.
LEMMA TimesIsHits ==
    ASSUME NEW s, NEW e
    PROVE  Times(s, e) = Hits(s, {e})
<1>1. {i \in DOMAIN s : s[i] = e} = {i \in DOMAIN s : s[i] \in {e}}
  OBVIOUS
<1> QED
  BY <1>1 DEF Times, Hits

-----------------------------------------------------------------------------
(* Types. *)

Body == Tx \cup Block \cup {Garbage}

SeqMsg == [frames : {"sequence"}, label : {"A", "R", "C", "D", "other"}, body : Body,
           seq : (0..(CounterMod - 1)) \cup {None}, at : Nat]

Message == [frames : {"rawtx"}, body : Tx \cup {Garbage}]
           \cup [frames : {"hashblock"}, body : Block] \cup SeqMsg \cup {BadMsg}

Event == [type : {"TxAdded"}, raw : Body]
         \cup [type : {"TxRemoved"}, txid : Body, reason : {"Unknown"}]
         \cup [type : {"BlockConnected", "BlockDisconnected"}, block : Body, height : {0}]

Deed == [does : {"announce", "remove", "connect", "disconnect"}, on : Body]

(* TypeOK, with the types it leaves out: what is on the wire and in the    *)
(* channel, and that a topic nobody subscribed to stays empty.             *)
TypeInv ==
    /\ TypeOK
    /\ wire \in [Topic -> Seq(Message)]
    /\ sequenceConnected \in BOOLEAN
    /\ ~sequenceConnected => wire["sequence"] = <<>> /\ lastStamp = None
    /\ nodeLog \in Seq(Deed) /\ stamp \in Nat
    /\ lost \in 0..MaxLost /\ malformed \in 0..MaxMalformed
    /\ channel \in Seq(Event) /\ sent \in Seq(Event)
    /\ lastStamp \in Nat \cup {None} /\ (lastStamp = None <=> lastSeq = None)
    /\ wraps \in Nat

IsNumbered(m) == m \in SeqMsg /\ m.seq # None

Unnumbered == {m \in Message : ~IsNumbered(m)}

(* Positions of the sequence topic: those of the messages on the wire that *)
(* have one, and behind them the next to be given.                         *)
Places(q) == {i \in DOMAIN q : IsNumbered(q[i])} \cup {Len(q) + 1}

At(q, next, i) == IF i \in DOMAIN q THEN q[i].at ELSE next

\* Two places are as far apart as their messages, up to `more` missing ones.
Spaced(q, next, more) ==
    \A i, j \in Places(q) :
        i < j => At(q, next, i) + (j - i) <= At(q, next, j)
                 /\ At(q, next, j) <= At(q, next, i) + (j - i) + more

\* The same from the position last read to each place.
Since(q, next, last, more) ==
    \A i \in Places(q) :
        last + i <= At(q, next, i) /\ At(q, next, i) <= last + i + more

SpacingInv ==
    LET q == wire["sequence"]
        unread == malformed - Hits(q, Unnumbered)
    IN  /\ \A i \in DOMAIN q : IsNumbered(q[i]) => q[i].seq = q[i].at % CounterMod
        /\ Spaced(q, stamp, lost)
        /\ unread >= 0
        /\ lastStamp # None => /\ lastSeq = lastStamp % CounterMod
                               /\ Since(q, stamp, lastStamp, lost + unread)

OfLabel(label, x) == {m \in SeqMsg : m.label = label /\ m.body = x}

BudgetInv ==
    /\ \A t \in Tx :
        /\ Times(sent, TxAdded(t)) + Hits(wire["rawtx"], {RawtxMsg(t)}) <= Did("announce", t)
        /\ Times(sent, TxRemoved(t)) + Hits(wire["sequence"], OfLabel("R", t)) <= Did("remove", t)
    /\ \A b \in Block :
        /\ Times(sent, BlockConnected(b)) + Hits(wire["hashblock"], {HashblockMsg(b)})
               + Hits(wire["sequence"], OfLabel("C", b))
             <= (IF sequenceConnected THEN 2 ELSE 1) * Did("connect", b)
        /\ Times(sent, BlockDisconnected(b)) + Hits(wire["sequence"], OfLabel("D", b))
             <= Did("disconnect", b)

\* Nothing on the wire is of two kinds.
LEMMA Kinds ==
    ASSUME ZmqAssumption
    PROVE  /\ \A x \in Tx \cup {Garbage} : RawtxMsg(x) \in Message
           /\ \A b \in Block : HashblockMsg(b) \in Message
           /\ BadMsg \in Unnumbered
           /\ \A m \in Message : m.frames = "sequence" => m \in SeqMsg
           /\ \A m \in Message : m.frames = "rawtx" => m.body \in Body /\ m = RawtxMsg(m.body)
           /\ \A m \in Message : m.frames = "hashblock" => m.body \in Block /\ m = HashblockMsg(m.body)
<1> USE DEF Message, SeqMsg, RawtxMsg, HashblockMsg, BadMsg, Body
<1>1. /\ \A x \in Tx \cup {Garbage} : RawtxMsg(x) \in Message
      /\ \A b \in Block : HashblockMsg(b) \in Message
  OBVIOUS
<1>2. BadMsg.frames = "bad" /\ BadMsg \in Message
  OBVIOUS
<1>3. BadMsg \in Unnumbered
  BY <1>2 DEF Unnumbered, IsNumbered
<1>4. \A m \in Message : m.frames = "sequence" => m \in SeqMsg
  OBVIOUS
<1>5. \A m \in Message : m.frames = "rawtx" => m.body \in Body /\ m = RawtxMsg(m.body)
  OBVIOUS
<1>6. \A m \in Message : m.frames = "hashblock" => m.body \in Block /\ m = HashblockMsg(m.body)
  OBVIOUS
<1> QED
  BY <1>1, <1>3, <1>4, <1>5, <1>6

\* A position modulo the counter's size is a value of the counter.
LEMMA Remainder ==
    ASSUME ZmqAssumption, NEW n \in Nat
    PROVE  /\ CounterMod \in Nat \ {0} /\ n % CounterMod \in 0..(CounterMod - 1)
           /\ n = CounterMod * (n \div CounterMod) + (n % CounterMod)
           /\ n \div CounterMod \in Nat
BY DEF ZmqAssumption

\* What the node numbers is readable.
LEMMA NumberedIs ==
    ASSUME ZmqAssumption, NEW n \in Nat, NEW x \in Body,
           NEW label \in {"A", "R", "C", "D", "other"}
    PROVE  LET m == Numbered(label, x, n)
           IN  /\ m \in SeqMsg /\ m \in Message /\ m \notin Unnumbered
               /\ m.seq = n % CounterMod /\ m.at = n /\ m.label = label /\ m.body = x
<1> DEFINE m == Numbered(label, x, n)
<1>1. /\ n % CounterMod \in 0..(CounterMod - 1) /\ n % CounterMod # None
  BY Remainder DEF ZmqAssumption
<1>2. m = [frames |-> "sequence", label |-> label, body |-> x, seq |-> n % CounterMod, at |-> n]
  BY DEF Numbered, SequenceMsg
<1> HIDE DEF m
<1>3. m \in SeqMsg /\ m.seq = n % CounterMod /\ m.at = n /\ m.label = label /\ m.body = x
  BY <1>1, <1>2 DEF SeqMsg
<1>4. m \in Message /\ m \notin Unnumbered
  BY <1>1, <1>3 DEF Message, Unnumbered, IsNumbered
<1> QED
  BY <1>3, <1>4 DEF m

\* What a step publishes: at most one message for each topic.
Bundle == [Topic -> {<<>>} \cup {<<m>> : m \in Message}]

LEMMA PublishWire ==
    ASSUME TypeInv, NEW msgs \in Bundle, Publish(msgs), UNCHANGED sequenceConnected
    PROVE  /\ wire' \in [Topic -> Seq(Message)]
           /\ \A k \in Topic : wire[k] # <<>> /\ k \in Subscribed => wire'[k] # <<>>
           /\ Subscribed' = Subscribed
           /\ ~sequenceConnected => wire'["sequence"] = <<>>
           /\ \A k \in Subscribed : \A m \in Message : msgs[k] = <<m>> => wire'[k] = Append(wire[k], m)
           /\ \A k \in Subscribed : msgs[k] = <<>> => wire'[k] = wire[k]
           /\ \A k \in Topic \ Subscribed : wire'[k] = <<>>
<1>1. wire \in [Topic -> Seq(Message)]
  BY DEF TypeInv
<1>2. \A k \in Topic : \A m \in Message : msgs[k] = <<m>> => wire[k] \o msgs[k] = Append(wire[k], m)
  BY <1>1
<1>3. \A k \in Topic : msgs[k] = <<>> => wire[k] \o msgs[k] = wire[k]
  BY <1>1
<1>4. \A k \in Topic : wire'[k] = IF k \in Subscribed THEN wire[k] \o msgs[k] ELSE <<>>
  BY DEF Publish
<1>5. wire' = [k \in Topic |-> IF k \in Subscribed THEN wire[k] \o msgs[k] ELSE <<>>]
  BY DEF Publish
<1>6. Subscribed' = Subscribed /\ Subscribed \subseteq Topic /\ ("sequence" \in Subscribed <=> sequenceConnected)
  BY DEF Subscribed, Topic
<1>7. \A k \in Topic : msgs[k] = <<>> \/ \E m \in Message : msgs[k] = <<m>>
  BY DEF Bundle
<1>8. \A k \in Topic : wire'[k] \in Seq(Message) /\ (wire[k] # <<>> /\ k \in Subscribed => wire'[k] # <<>>)
  <2> TAKE k \in Topic
  <2>1. wire[k] \in Seq(Message) /\ <<>> \in Seq(Message)
    BY <1>1
  <2>2. CASE k \notin Subscribed
    BY <1>4, <2>1, <2>2
  <2>3. CASE k \in Subscribed /\ msgs[k] = <<>>
    BY <1>3, <1>4, <2>1, <2>3
  <2>4. ASSUME k \in Subscribed, NEW m \in Message, msgs[k] = <<m>>
        PROVE  wire'[k] \in Seq(Message) /\ wire'[k] # <<>>
    <3>1. wire'[k] = Append(wire[k], m)
      BY <1>2, <1>4, <2>4
    <3>2. Append(wire[k], m) \in Seq(Message) /\ Append(wire[k], m) # <<>>
      BY <2>1, AppendProperties
    <3> QED
      BY <3>1, <3>2
  <2> QED
    BY <1>7, <2>2, <2>3, <2>4
<1>9. wire' \in [Topic -> Seq(Message)]
  BY <1>5, <1>8
<1> QED
  BY <1>2, <1>3, <1>4, <1>6, <1>8, <1>9 DEF Topic

\* The bundles of the node.
LEMMA NodeBundles ==
    ASSUME ZmqAssumption, TypeInv
    PROVE  /\ \A t \in Tx : /\ [rawtx |-> <<RawtxMsg(t)>>, hashblock |-> <<>>,
                                sequence |-> <<Numbered("A", t, stamp)>>] \in Bundle
                            /\ [rawtx |-> <<>>, hashblock |-> <<>>,
                                sequence |-> <<Numbered("R", t, stamp)>>] \in Bundle
                            /\ RawtxOnly(t) \in Bundle
           /\ \A b \in Block : /\ [rawtx |-> <<>>, hashblock |-> <<HashblockMsg(b)>>,
                                   sequence |-> <<Numbered("C", b, stamp)>>] \in Bundle
                               /\ [rawtx |-> <<>>, hashblock |-> <<>>,
                                   sequence |-> <<Numbered("D", b, stamp)>>] \in Bundle
           /\ \A k \in Topic : \A msg \in Message : [j \in Topic |-> IF j = k THEN <<msg>> ELSE <<>>] \in Bundle
<1>1. stamp \in Nat
  BY DEF TypeInv
<1>2. \A x \in Tx \cup Block, label \in {"A", "R", "C", "D"} : Numbered(label, x, stamp) \in Message
  BY <1>1, NumberedIs DEF Body
<1>3. \A m \in Message, n \in Message : /\ [rawtx |-> <<m>>, hashblock |-> <<>>, sequence |-> <<n>>] \in Bundle
                                        /\ [rawtx |-> <<>>, hashblock |-> <<m>>, sequence |-> <<n>>] \in Bundle
                                        /\ [rawtx |-> <<>>, hashblock |-> <<>>, sequence |-> <<n>>] \in Bundle
                                        /\ [rawtx |-> <<m>>, hashblock |-> <<>>, sequence |-> <<>>] \in Bundle
  BY DEF Bundle, Topic
<1>4. \A k \in Topic : \A msg \in Message : [j \in Topic |-> IF j = k THEN <<msg>> ELSE <<>>] \in Bundle
  BY DEF Bundle
<1> QED
  BY <1>2, <1>3, <1>4, Kinds DEF RawtxOnly

\* What is malformed is a message, and a numbered one has the next position.
LEMMA MalformedType ==
    ASSUME ZmqAssumption, TypeInv, NEW k \in Subscribed, NEW msg \in MalformedOn(k)
    PROVE  /\ k \in Topic /\ msg \in Message
           /\ k = "sequence" => msg \in Unnumbered \/ (msg \in SeqMsg /\ msg.at = stamp /\ msg.seq = stamp % CounterMod)
           /\ \A x : /\ msg # HashblockMsg(x) /\ (x \in Tx => msg # RawtxMsg(x))
                     /\ msg \notin OfLabel("R", x) \cup OfLabel("C", x) \cup OfLabel("D", x)
<1>1. k \in Topic /\ stamp \in Nat
  BY DEF Subscribed, Topic, TypeInv
<1>2. CASE msg = BadMsg
  BY <1>1, <1>2, Kinds DEF BadMsg, OfLabel, SeqMsg, HashblockMsg, RawtxMsg, Unnumbered
<1>3. CASE k = "rawtx" /\ msg = RawtxMsg(Garbage)
  BY <1>1, <1>3, Kinds DEF ZmqAssumption, OfLabel, SeqMsg, HashblockMsg, RawtxMsg
<1>4. CASE k = "sequence" /\ msg = Numbered("other", Garbage, stamp)
  <2>1. /\ msg \in SeqMsg /\ msg \in Message /\ msg.at = stamp /\ msg.seq = stamp % CounterMod
        /\ msg.label = "other"
    BY <1>1, <1>4, NumberedIs DEF Body
  <2>2. msg.frames = "sequence"
    BY <2>1 DEF SeqMsg
  <2> QED
    BY <1>1, <2>1, <2>2 DEF OfLabel, HashblockMsg, RawtxMsg
<1>5. CASE k = "sequence" /\ msg = SequenceMsg("other", Garbage, None, stamp)
  <2>1. msg \in SeqMsg /\ msg.seq = None /\ msg.label = "other" /\ msg.frames = "sequence"
    BY <1>1, <1>5 DEF SequenceMsg, SeqMsg, Body
  <2>2. msg \in Unnumbered
    BY <2>1 DEF Unnumbered, IsNumbered, Message
  <2> QED
    BY <1>1, <2>1, <2>2 DEF Unnumbered, OfLabel, HashblockMsg, RawtxMsg
<1>6. \/ msg = BadMsg
      \/ k = "rawtx" /\ msg = RawtxMsg(Garbage)
      \/ k = "sequence" /\ msg \in {Numbered("other", Garbage, stamp), SequenceMsg("other", Garbage, None, stamp)}
  BY <1>1 DEF MalformedOn, Topic
<1> QED
  BY <1>2, <1>3, <1>4, <1>5, <1>6

\* What the node logs.
LEMMA Logged ==
    ASSUME TypeInv, NEW what \in {"announce", "remove", "connect", "disconnect"},
           NEW x \in Tx \cup Block, NodeDoes([does |-> what, on |-> x])
    PROVE  /\ nodeLog' \in Seq(Deed)
           /\ nodeLog' = Append(nodeLog, [does |-> what, on |-> x])
           /\ [does |-> what, on |-> x] \in Deed
           /\ UNCHANGED <<lost, malformed, threadVars, channelVars>>
<1>1. [does |-> what, on |-> x] \in Deed
  BY DEF Deed, Body
<1>2. nodeLog \in Seq(Deed)
  BY DEF TypeInv
<1> HIDE DEF Deed
<1> QED
  BY <1>1, <1>2, AppendProperties DEF NodeDoes

LEMMA InitTypes == ZmqAssumption /\ Init => TypeInv
<1> SUFFICES ASSUME ZmqAssumption, Init PROVE TypeInv
  OBVIOUS
<1>1. wire \in [Topic -> Seq(Message)] /\ wire["sequence"] = <<>>
  BY DEF Init, Topic
<1>2. nodeLog \in Seq(Deed) /\ channel \in Seq(Event) /\ sent \in Seq(Event) /\ Len(channel) <= Len(sent)
  BY DEF Init
<1>3. lost \in 0..MaxLost /\ malformed \in 0..MaxMalformed
  BY DEF Init, ZmqAssumption
<1> QED
  BY <1>1, <1>2, <1>3 DEF Init, TypeInv, TypeOK

\* What a publication leaves of the types.
LEMMA PublishTypes ==
    ASSUME TypeInv, NEW msgs \in Bundle, Publish(msgs), UNCHANGED <<threadVars, channelVars>>,
           pool' \subseteq Tx, connected' \subseteq Block,
           minedIn' \in [Tx -> Block \cup {None}], nodeLog' \in Seq(Deed), stamp' \in Nat,
           lost' \in 0..MaxLost, malformed' \in 0..MaxMalformed
    PROVE  TypeInv'
<1>1. /\ wire' \in [Topic -> Seq(Message)]
      /\ \A k \in Topic : wire[k] # <<>> /\ k \in Subscribed => wire'[k] # <<>>
      /\ Subscribed' = Subscribed /\ Subscribed \subseteq Topic
      /\ ~sequenceConnected => wire'["sequence"] = <<>>
  BY PublishWire DEF threadVars, Subscribed
<1>2. ready' \subseteq {k \in Subscribed' : wire'[k] # <<>>}
  BY <1>1 DEF TypeInv, TypeOK, threadVars
<1>3. TypeOK'
  BY <1>2 DEF TypeInv, TypeOK, threadVars, trackVars, channelVars
<1> QED
  BY <1>1, <1>3 DEF TypeInv, threadVars, trackVars, channelVars

LEMMA NodeTypes ==
    ASSUME ZmqAssumption, TypeInv, NodeNext
    PROVE  TypeInv'
<1> USE DEF TypeInv, TypeOK
<1>1. ASSUME NEW t \in Tx, Accept(t) PROVE TypeInv'
  <2>1. nodeLog' \in Seq(Deed) /\ UNCHANGED <<lost, malformed, threadVars, channelVars>>
    BY <1>1, Logged DEF Accept
  <2>2. pool' \subseteq Tx /\ connected' \subseteq Block /\ stamp' \in Nat /\ minedIn' = minedIn
    BY <1>1 DEF Accept
  <2> QED
    BY <1>1, <2>1, <2>2, NodeBundles, PublishTypes DEF Accept
<1>2. ASSUME NEW t \in Tx, Evict(t) PROVE TypeInv'
  <2>1. nodeLog' \in Seq(Deed) /\ UNCHANGED <<lost, malformed, threadVars, channelVars>>
    BY <1>2, Logged DEF Evict
  <2>2. pool' \subseteq Tx /\ connected' \subseteq Block /\ stamp' \in Nat /\ minedIn' = minedIn
    BY <1>2 DEF Evict
  <2> QED
    BY <1>2, <2>1, <2>2, NodeBundles, PublishTypes DEF Evict
<1>3. ASSUME NEW b \in Block, Connect(b) PROVE TypeInv'
  <2>1. nodeLog' \in Seq(Deed) /\ UNCHANGED <<lost, malformed, threadVars, channelVars>>
    BY <1>3, Logged DEF Connect
  <2>2. pool' \subseteq Tx /\ connected' \subseteq Block /\ stamp' \in Nat /\ minedIn' = minedIn
    BY <1>3 DEF Connect
  <2> QED
    BY <1>3, <2>1, <2>2, NodeBundles, PublishTypes DEF Connect
<1>4. ASSUME NEW b \in Block, Disconnect(b) PROVE TypeInv'
  <2>1. nodeLog' \in Seq(Deed) /\ UNCHANGED <<lost, malformed, threadVars, channelVars>>
    BY <1>4, Logged DEF Disconnect
  <2>2. pool' \subseteq Tx /\ connected' \subseteq Block /\ stamp' \in Nat /\ minedIn' = minedIn
    BY <1>4 DEF Disconnect
  <2> QED
    BY <1>4, <2>1, <2>2, NodeBundles, PublishTypes DEF Disconnect
<1>5. ASSUME NEW k \in Subscribed, NEW msg \in MalformedOn(k), Malformed(k, msg) PROVE TypeInv'
  <2>1. k \in Topic /\ msg \in Message
    BY MalformedType
  <2>2. [j \in Topic |-> IF j = k THEN <<msg>> ELSE <<>>] \in Bundle
    BY <2>1, NodeBundles
  <2>3. stamp' \in Nat /\ malformed' \in 0..MaxMalformed
    BY <1>5 DEF Malformed, ZmqAssumption
  <2> QED
    BY <1>5, <2>2, <2>3, PublishTypes DEF Malformed
<1>6. ASSUME NEW k \in Subscribed, NEW i \in 1..(MaxNodeEvents + MaxMalformed), Lose(k, i) PROVE TypeInv'
  <2>1. k \in Topic /\ i \in 1..Len(wire[k]) /\ wire[k] \in Seq(Message)
    BY <1>6 DEF Lose, Subscribed, Topic
  <2>2. RemoveAt(wire[k], i) \in Seq(Message) /\ Len(RemoveAt(wire[k], i)) = Len(wire[k]) - 1
    BY <2>1, Removal
  <2>3. /\ wire' \in [Topic -> Seq(Message)] /\ wire'[k] = RemoveAt(wire[k], i)
        /\ \A j \in Topic \ {k} : wire'[j] = wire[j]
    BY <1>6, <2>1, <2>2 DEF Lose
  <2>4. lost' \in 0..MaxLost
    BY <1>6 DEF Lose, ZmqAssumption
  <2>5. UNCHANGED <<pool, connected, minedIn, nodeLog, stamp, malformed, threadVars, channelVars>>
    BY <1>6 DEF Lose
  <2>6. k \in ready => wire'[k] # <<>>
    BY <1>6, <2>1, <2>2, <2>3 DEF Lose
  <2>7. Subscribed' = Subscribed /\ Subscribed \subseteq Topic
    BY <2>5 DEF Subscribed, threadVars
  <2>8. ready' \subseteq {j \in Subscribed' : wire'[j] # <<>>}
    BY <2>3, <2>5, <2>6, <2>7 DEF threadVars
  <2>9. ~sequenceConnected => wire'["sequence"] = <<>>
    BY <2>3 DEF Subscribed, Topic
  <2> QED
    BY <2>3, <2>4, <2>5, <2>8, <2>9 DEF threadVars, trackVars, channelVars
<1>7. ASSUME NEW t \in Tx, NEW b \in Block, Mine(t, b) PROVE TypeInv'
  <2>1. nodeLog' \in Seq(Deed) /\ UNCHANGED <<lost, malformed, threadVars, channelVars>>
    BY <1>7, Logged DEF Mine
  <2>2. /\ pool' \subseteq Tx /\ connected' \subseteq Block /\ stamp' \in Nat
        /\ minedIn' \in [Tx -> Block \cup {None}]
    BY <1>7 DEF Mine
  <2> QED
    BY <1>7, <2>1, <2>2, NodeBundles, PublishTypes DEF Mine
<1>8. ASSUME NEW t \in Tx, Unmine(t) PROVE TypeInv'
  <2>1. nodeLog' \in Seq(Deed) /\ UNCHANGED <<lost, malformed, threadVars, channelVars>>
    BY <1>8, Logged DEF Unmine
  <2>2. /\ pool' \subseteq Tx /\ connected' \subseteq Block /\ stamp' \in Nat
        /\ minedIn' \in [Tx -> Block \cup {None}]
    BY <1>8 DEF Unmine
  <2> QED
    BY <1>8, <2>1, <2>2, NodeBundles, PublishTypes DEF Unmine
<1> QED
  BY <1>1, <1>2, <1>3, <1>4, <1>5, <1>6, <1>7, <1>8 DEF NodeNext

\* What a reading leaves on the wire.
LEMMA ConsumeWire ==
    ASSUME TypeInv, NEW k \in Topic, k \in ready, Consume(k), UNCHANGED sequenceConnected
    PROVE  /\ wire[k] \in Seq(Message) /\ wire[k] # <<>>
           /\ Head(wire[k]) \in Message /\ Head(wire[k]) = wire[k][1] /\ 1 \in 1..Len(wire[k])
           /\ wire' \in [Topic -> Seq(Message)]
           /\ wire'[k] = RemoveAt(wire[k], 1)
           /\ \A j \in Topic \ {k} : wire'[j] = wire[j]
           /\ Subscribed' = Subscribed /\ k \in Subscribed
           /\ ~sequenceConnected => wire'["sequence"] = <<>>
<1>1. wire[k] \in Seq(Message) /\ wire[k] # <<>> /\ k \in Subscribed /\ wire \in [Topic -> Seq(Message)]
  BY DEF TypeInv, TypeOK
<1>2. Tail(wire[k]) = RemoveAt(wire[k], 1) /\ Head(wire[k]) = wire[k][1] /\ 1 \in 1..Len(wire[k])
  BY <1>1, TailIsRemoval
<1>3. Head(wire[k]) \in Message /\ Tail(wire[k]) \in Seq(Message)
  BY <1>1, HeadTailProperties
<1>4. /\ wire' \in [Topic -> Seq(Message)] /\ wire'[k] = Tail(wire[k])
      /\ \A j \in Topic \ {k} : wire'[j] = wire[j]
  BY <1>1, <1>3 DEF Consume
<1>5. Subscribed' = Subscribed
  BY DEF Subscribed
<1>6. ~sequenceConnected => wire'["sequence"] = <<>>
  BY <1>1, <1>4 DEF TypeInv, Subscribed, Topic
<1> QED
  BY <1>1, <1>2, <1>3, <1>4, <1>5, <1>6

\* What a send does to the channel.
LEMMA SendTypes ==
    ASSUME TypeInv, NEW k, NEW event \in Event, Send(k, event) \/ Skip(k)
    PROVE  /\ channel' \in Seq(Event) /\ sent' \in Seq(Event) /\ Len(channel') <= Len(sent')
           /\ ready' \subseteq ready \ {k} /\ running' \in BOOLEAN /\ receiverOpen' = receiverOpen
           /\ ~running' => ~receiverOpen
           /\ sent' \in {sent, Append(sent, event)}
<1>1. /\ channel \in Seq(Event) /\ sent \in Seq(Event) /\ Len(channel) <= Len(sent)
      /\ running \in BOOLEAN /\ receiverOpen \in BOOLEAN /\ (~running => ~receiverOpen)
  BY DEF TypeInv, TypeOK
<1>2. CASE Skip(k)
  BY <1>1, <1>2 DEF Skip, channelVars
<1>3. CASE Send(k, event) /\ receiverOpen
  <2>1. /\ channel' = Append(channel, event) /\ sent' = Append(sent, event)
        /\ ready' = ready \ {k} /\ running' = receiverOpen /\ receiverOpen' = receiverOpen
    BY <1>3 DEF Send
  <2>2. /\ Append(channel, event) \in Seq(Event) /\ Append(sent, event) \in Seq(Event)
        /\ Len(Append(channel, event)) <= Len(Append(sent, event))
    BY <1>1, AppendProperties
  <2> QED
    BY <1>1, <2>1, <2>2
<1>4. CASE Send(k, event) /\ ~receiverOpen
  BY <1>1, <1>4 DEF Send
<1> QED
  BY <1>2, <1>3, <1>4

\* The events a message is turned into.
LEMMA EventTypes ==
    ASSUME ZmqAssumption
    PROVE  /\ TxAdded(Garbage) \in Event
           /\ \A m \in Message :
                /\ m.frames = "rawtx" => TxAdded(m.body) \in Event
                /\ m.frames = "hashblock" => BlockConnected(m.body) \in Event
                /\ m.frames = "sequence" => /\ TxRemoved(m.body) \in Event
                                            /\ BlockConnected(m.body) \in Event
                                            /\ BlockDisconnected(m.body) \in Event
<1>1. \A x \in Body : /\ TxAdded(x) \in Event /\ TxRemoved(x) \in Event
                      /\ BlockConnected(x) \in Event /\ BlockDisconnected(x) \in Event
  BY DEF Event, TxAdded, TxRemoved, BlockConnected, BlockDisconnected
<1>2. \A m \in Message : m.frames \in {"rawtx", "hashblock", "sequence"} => m.body \in Body
  BY Kinds DEF SeqMsg, Body
<1>3. Garbage \in Body
  BY DEF Body
<1> QED
  BY <1>1, <1>2, <1>3

LEMMA ThreadTypes ==
    ASSUME ZmqAssumption, TypeInv, ThreadNext
    PROVE  TypeInv'
<1>1. ASSUME NEW topics \in SUBSET Subscribed, Poll(topics) PROVE TypeInv'
  <2>1. Subscribed' = Subscribed
    BY <1>1 DEF Poll, Subscribed
  <2> QED
    BY <1>1, <2>1 DEF Poll, nodeVars, trackVars, channelVars, TypeInv, TypeOK
<1>2. ASSUME NEW k \in Topic, k \in ready, Consume(k), UNCHANGED <<nodeVars, sequenceConnected>>,
             NEW event \in Event, Send(k, event) \/ Skip(k),
             \/ UNCHANGED trackVars
             \/ /\ k = "sequence" /\ Head(wire[k]) \in SeqMsg
                /\ TrackSequence(Head(wire[k]))
      PROVE  TypeInv'
  <2> USE <1>2
  <2>1. /\ wire' \in [Topic -> Seq(Message)] /\ \A j \in Topic \ {k} : wire'[j] = wire[j]
        /\ Subscribed' = Subscribed /\ k \in Subscribed
        /\ ~sequenceConnected => wire'["sequence"] = <<>>
    BY ConsumeWire
  <2>2. /\ channel' \in Seq(Event) /\ sent' \in Seq(Event) /\ Len(channel') <= Len(sent')
        /\ ready' \subseteq ready \ {k} /\ running' \in BOOLEAN /\ receiverOpen' = receiverOpen
        /\ (~running' => ~receiverOpen')
    BY SendTypes
  <2>3. ready' \subseteq {j \in Subscribed' : wire'[j] # <<>>}
    BY <2>1, <2>2 DEF TypeInv, TypeOK, Subscribed
  <2>4. /\ lastSeq' \in (0..(CounterMod - 1)) \cup {None} /\ lastStamp' \in Nat \cup {None}
        /\ (lastStamp' = None <=> lastSeq' = None) /\ wraps' \in Nat
        /\ gapWarnings' \in Nat /\ realGaps' \in Nat
        /\ ~sequenceConnected => lastStamp' = None
    <3>1. CASE UNCHANGED trackVars
      BY <3>1 DEF trackVars, TypeInv, TypeOK
    <3>2. ASSUME k = "sequence", Head(wire[k]) \in SeqMsg, TrackSequence(Head(wire[k])) PROVE <2>4
      <4> DEFINE m == Head(wire[k])
      <4>1. m.seq \in (0..(CounterMod - 1)) \cup {None} /\ m.at \in Nat
        BY <3>2 DEF SeqMsg
      <4>2. sequenceConnected
        BY <2>1, <3>2 DEF Subscribed
      <4>3. None \notin Nat /\ \A x \in 0..(CounterMod - 1) : x # None
        BY DEF ZmqAssumption
      <4>4. TrackSequence(m)
        BY <3>2
      <4>5. /\ lastSeq \in (0..(CounterMod - 1)) \cup {None} /\ lastStamp \in Nat \cup {None}
            /\ (lastStamp = None <=> lastSeq = None) /\ wraps \in Nat
            /\ gapWarnings \in Nat /\ realGaps \in Nat
        BY DEF TypeInv, TypeOK
      <4> HIDE DEF m
      <4>6. CASE m.seq = None
        BY <4>2, <4>4, <4>5, <4>6 DEF TrackSequence, trackVars
      <4>7. CASE m.seq # None
        BY <4>1, <4>2, <4>3, <4>4, <4>5, <4>7 DEF TrackSequence
      <4> QED
        BY <4>6, <4>7
    <3> QED
      BY <3>1, <3>2
  <2> QED
    BY <2>1, <2>2, <2>3, <2>4 DEF TypeInv, TypeOK, nodeVars
<1>3. CASE RecvRawtx
  <2>1. "rawtx" \in Topic /\ "rawtx" \in ready /\ Consume("rawtx")
        /\ UNCHANGED <<nodeVars, sequenceConnected, trackVars>>
    BY <1>3 DEF RecvRawtx, Topic
  <2>2. Head(wire["rawtx"]) \in Message
    BY <2>1, ConsumeWire
  <2>3. \E event \in Event : Send("rawtx", event) \/ Skip("rawtx")
    <3> DEFINE m == Head(wire["rawtx"])
    <3>1. \/ m.frames = "rawtx" /\ Send("rawtx", TxAdded(m.body))
          \/ Skip("rawtx")
      BY <1>3 DEF RecvRawtx
    <3> HIDE DEF m
    <3>2. m \in Message
      BY <2>2 DEF m
    <3> QED
      BY <3>1, <3>2, EventTypes, Zenon
  <2> QED
    BY <1>2, <2>1, <2>3
<1>4. CASE RecvHashblock
  <2>1. "hashblock" \in Topic /\ "hashblock" \in ready /\ Consume("hashblock")
        /\ UNCHANGED <<nodeVars, sequenceConnected, trackVars>>
    BY <1>4 DEF RecvHashblock, Topic
  <2>2. Head(wire["hashblock"]) \in Message
    BY <2>1, ConsumeWire
  <2>3. \E event \in Event : Send("hashblock", event) \/ Skip("hashblock")
    <3> DEFINE m == Head(wire["hashblock"])
    <3>1. \/ m.frames = "hashblock" /\ Send("hashblock", BlockConnected(m.body))
          \/ Skip("hashblock")
      BY <1>4 DEF RecvHashblock
    <3> HIDE DEF m
    <3>2. m \in Message
      BY <2>2 DEF m
    <3> QED
      BY <3>1, <3>2, EventTypes, Zenon
  <2> QED
    BY <1>2, <2>1, <2>3
<1>5. CASE RecvSequence
  <2> DEFINE m == Head(wire["sequence"])
  <2>1. "sequence" \in Topic /\ "sequence" \in ready /\ Consume("sequence")
        /\ UNCHANGED <<nodeVars, sequenceConnected>>
    BY <1>5 DEF RecvSequence, Topic
  <2>2. m \in Message
    BY <2>1, ConsumeWire
  <2>3. \/ m.frames = "sequence" /\ TrackSequence(m) /\ Dispatch(m)
        \/ Skip("sequence") /\ UNCHANGED trackVars
    BY <1>5 DEF RecvSequence
  <2>4. \E event \in Event : Send("sequence", event) \/ Skip("sequence")
    <3> HIDE DEF m
    <3>1. Dispatch(m) => \/ Send("sequence", TxRemoved(m.body))
                         \/ Send("sequence", BlockConnected(m.body))
                         \/ Send("sequence", BlockDisconnected(m.body))
                         \/ Skip("sequence")
      BY DEF Dispatch
    <3> QED
      BY <2>2, <2>3, <3>1, EventTypes, Zenon
  <2>5. m.frames = "sequence" => m \in SeqMsg
    BY <2>2, Kinds
  <2> HIDE DEF m
  <2> QED
    BY <1>2, <2>1, <2>3, <2>4, <2>5 DEF m
<1> QED
  BY <1>1, <1>3, <1>4, <1>5 DEF ThreadNext

LEMMA NextTypes ==
    ASSUME ZmqAssumption, TypeInv, [Next]_vars
    PROVE  TypeInv'
<1>1. CASE CloseReceiver
  <2>1. Subscribed' = Subscribed
    BY <1>1 DEF CloseReceiver, Subscribed, threadVars
  <2>2. channel' = <<>> /\ <<>> \in Seq(Event) /\ sent' = sent /\ Len(<<>>) <= Len(sent)
    BY <1>1 DEF CloseReceiver, TypeInv
  <2>3. UNCHANGED <<nodeVars, wire, threadVars>> /\ receiverOpen' = FALSE
    BY <1>1 DEF CloseReceiver
  <2> QED
    BY <2>1, <2>2, <2>3 DEF nodeVars, threadVars, trackVars, TypeInv, TypeOK
<1>2. CASE UNCHANGED vars
  <2>1. Subscribed' = Subscribed
    BY <1>2 DEF vars, Subscribed, threadVars
  <2> QED
    BY <1>2, <2>1 DEF vars, nodeVars, threadVars, trackVars, channelVars, TypeInv, TypeOK
<1> QED
  BY <1>1, <1>2, NodeTypes, ThreadTypes DEF Next
-----------------------------------------------------------------------------
(* Positions of the sequence topic. *)

LEMMA PlaceTypes ==
    ASSUME NEW q \in Seq(Message), NEW next \in Nat
    PROVE  /\ Places(q) \subseteq 1..(Len(q) + 1) /\ Len(q) \in Nat /\ DOMAIN q = 1..Len(q)
           /\ Len(q) + 1 \in Places(q) /\ At(q, next, Len(q) + 1) = next
           /\ \A i \in Places(q) : At(q, next, i) \in Nat /\ i \in Nat
<1>1. Len(q) \in Nat /\ DOMAIN q = 1..Len(q)
  OBVIOUS
<1>2. Places(q) \subseteq 1..(Len(q) + 1) /\ Len(q) + 1 \in Places(q) /\ At(q, next, Len(q) + 1) = next
  BY <1>1 DEF Places, At
<1>3. ASSUME NEW i \in Places(q) PROVE At(q, next, i) \in Nat
  BY <1>1 DEF Places, At, IsNumbered, SeqMsg
<1> QED
  BY <1>1, <1>2, <1>3

\* A publication takes the next position, if it has one.
LEMMA PlacesAppend ==
    ASSUME NEW q \in Seq(Message), NEW next \in Nat, NEW m \in Message,
           IsNumbered(m) => m.at = next
    PROVE  \A i \in Places(Append(q, m)) :
              \/ i \in Places(q) /\ i <= Len(q) + 1 /\ At(Append(q, m), next + 1, i) = At(q, next, i)
              \/ i = Len(q) + 2 /\ At(Append(q, m), next + 1, i) = next + 1
<1> DEFINE r == Append(q, m)
<1>1. /\ DOMAIN q = 1..Len(q) /\ DOMAIN r = 1..(Len(q) + 1) /\ Len(r) = Len(q) + 1 /\ Len(q) \in Nat
      /\ r[Len(q) + 1] = m /\ \A i \in 1..Len(q) : r[i] = q[i]
  OBVIOUS
<1> HIDE DEF r
<1> SUFFICES ASSUME NEW i \in Places(r)
             PROVE  \/ i \in Places(q) /\ i <= Len(q) + 1 /\ At(r, next + 1, i) = At(q, next, i)
                    \/ i = Len(q) + 2 /\ At(r, next + 1, i) = next + 1
  BY DEF r
<1>2. CASE i \in 1..Len(q)
  BY <1>1, <1>2 DEF Places, At
<1>3. CASE i = Len(q) + 1
  BY <1>1, <1>3 DEF Places, At
<1>4. CASE i = Len(q) + 2
  BY <1>1, <1>4 DEF Places, At
<1> QED
  BY <1>1, <1>2, <1>3, <1>4 DEF Places

LEMMA SpacedAppend ==
    ASSUME NEW q \in Seq(Message), NEW next \in Nat, NEW m \in Message, NEW more \in Nat,
           IsNumbered(m) => m.at = next, Spaced(q, next, more)
    PROVE  Spaced(Append(q, m), next + 1, more)
<1> SUFFICES ASSUME NEW i \in Places(Append(q, m)), NEW j \in Places(Append(q, m)), i < j
             PROVE  LET r == Append(q, m)
                    IN  /\ At(r, next + 1, i) + (j - i) <= At(r, next + 1, j)
                        /\ At(r, next + 1, j) <= At(r, next + 1, i) + (j - i) + more
  BY DEF Spaced
<1>1. CASE j \in Places(q) /\ i \in Places(q) /\ At(Append(q, m), next + 1, i) = At(q, next, i)
           /\ At(Append(q, m), next + 1, j) = At(q, next, j)
  BY <1>1 DEF Spaced
<1>2. CASE j = Len(q) + 2 /\ At(Append(q, m), next + 1, j) = next + 1
           /\ i \in Places(q) /\ At(Append(q, m), next + 1, i) = At(q, next, i)
  <2>1. /\ Len(q) + 1 \in Places(q) /\ At(q, next, Len(q) + 1) = next
        /\ At(q, next, i) \in Nat /\ i \in Nat /\ i <= Len(q) + 1 /\ Len(q) \in Nat
    BY <1>2, PlaceTypes
  <2>2. CASE i = Len(q) + 1
    BY <1>2, <2>1, <2>2
  <2>3. CASE i < Len(q) + 1
    <3>1. At(q, next, i) + (Len(q) + 1 - i) <= next /\ next <= At(q, next, i) + (Len(q) + 1 - i) + more
      BY <1>2, <2>1, <2>3 DEF Spaced
    <3> QED
      BY <1>2, <2>1, <3>1
  <2> QED
    BY <2>1, <2>2, <2>3
<1>3. /\ i \in Places(q) /\ i <= Len(q) + 1 /\ At(Append(q, m), next + 1, i) = At(q, next, i)
      /\ \/ j \in Places(q) /\ At(Append(q, m), next + 1, j) = At(q, next, j)
         \/ j = Len(q) + 2 /\ At(Append(q, m), next + 1, j) = next + 1
  <2>1. Len(q) \in Nat /\ \A k \in Places(q) : k \in Nat
    BY PlaceTypes
  <2>2. j <= Len(q) + 2 /\ j \in Nat
    BY <2>1, PlacesAppend
  <2> QED
    BY <2>1, <2>2, PlacesAppend
<1> QED
  BY <1>1, <1>2, <1>3

LEMMA SinceAppend ==
    ASSUME NEW q \in Seq(Message), NEW next \in Nat, NEW m \in Message, NEW more \in Nat,
           NEW last \in Nat, IsNumbered(m) => m.at = next, Since(q, next, last, more)
    PROVE  Since(Append(q, m), next + 1, last, more)
<1> SUFFICES ASSUME NEW i \in Places(Append(q, m))
             PROVE  LET r == Append(q, m)
                    IN  /\ last + i <= At(r, next + 1, i)
                        /\ At(r, next + 1, i) <= last + i + more
  BY DEF Since
<1>1. CASE i \in Places(q) /\ At(Append(q, m), next + 1, i) = At(q, next, i)
  BY <1>1 DEF Since
<1>2. CASE i = Len(q) + 2 /\ At(Append(q, m), next + 1, i) = next + 1
  <2>1. last + (Len(q) + 1) <= next /\ next <= last + (Len(q) + 1) + more /\ Len(q) \in Nat
    BY PlaceTypes DEF Since
  <2> QED
    BY <1>2, <2>1
<1> QED
  BY <1>1, <1>2, PlacesAppend

\* Without its k-th message, the rest moves up.
LEMMA PlacesRemove ==
    ASSUME NEW q \in Seq(Message), NEW next \in Nat, NEW k \in 1..Len(q),
           NEW i \in Places(RemoveAt(q, k))
    PROVE  LET g == IF i < k THEN i ELSE i + 1
           IN  g \in Places(q) /\ At(RemoveAt(q, k), next, i) = At(q, next, g) /\ i \in Nat \ {0}
<1> DEFINE r == RemoveAt(q, k)
<1>1. /\ r \in Seq(Message) /\ Len(r) = Len(q) - 1 /\ Len(q) \in Nat /\ k \in Nat
      /\ DOMAIN q = 1..Len(q) /\ DOMAIN r = 1..(Len(q) - 1)
      /\ \A j \in 1..(Len(q) - 1) : r[j] = q[IF j < k THEN j ELSE j + 1]
  <2>1. /\ r \in Seq(Message) /\ Len(r) = Len(q) - 1
        /\ \A j \in 1..(Len(q) - 1) : r[j] = q[IF j < k THEN j ELSE j + 1]
    BY Removal
  <2> HIDE DEF r
  <2>2. Len(q) \in Nat /\ k \in Nat /\ DOMAIN q = 1..Len(q) /\ DOMAIN r = 1..Len(r)
    BY <2>1
  <2> QED
    BY <2>1, <2>2
<1>2. i \in Places(r)
  OBVIOUS
<1> HIDE DEF r
<1>3. CASE i \in 1..(Len(q) - 1)
  <2>1. r[i] = q[IF i < k THEN i ELSE i + 1] /\ (IF i < k THEN i ELSE i + 1) \in 1..Len(q)
    BY <1>1, <1>3
  <2> QED
    BY <1>1, <1>2, <1>3, <2>1 DEF Places, At, r
<1>4. CASE i = Len(q)
  BY <1>1, <1>2, <1>4 DEF Places, At, r
<1> QED
  BY <1>1, <1>2, <1>3, <1>4 DEF Places

LEMMA SpacedRemove ==
    ASSUME NEW q \in Seq(Message), NEW next \in Nat, NEW k \in 1..Len(q), NEW more \in Nat,
           Spaced(q, next, more)
    PROVE  Spaced(RemoveAt(q, k), next, IF k = 1 THEN more ELSE more + 1)
<1> SUFFICES ASSUME NEW i \in Places(RemoveAt(q, k)), NEW j \in Places(RemoveAt(q, k)), i < j
             PROVE  LET r == RemoveAt(q, k)
                    IN  /\ At(r, next, i) + (j - i) <= At(r, next, j)
                        /\ At(r, next, j) <= At(r, next, i) + (j - i) + (IF k = 1 THEN more ELSE more + 1)
  BY DEF Spaced
<1> DEFINE gi == IF i < k THEN i ELSE i + 1
           gj == IF j < k THEN j ELSE j + 1
<1>1. /\ gi \in Places(q) /\ gj \in Places(q) /\ i \in Nat \ {0} /\ j \in Nat \ {0}
      /\ At(RemoveAt(q, k), next, i) = At(q, next, gi)
      /\ At(RemoveAt(q, k), next, j) = At(q, next, gj)
  BY PlacesRemove
<1>2. k \in Nat \ {0}
  OBVIOUS
<1>3. gi < gj /\ (gj - gi = j - i \/ (gj - gi = j - i + 1 /\ k # 1)) /\ gi \in Nat /\ gj \in Nat
  BY <1>1, <1>2
<1>4. At(q, next, gi) \in Nat /\ At(q, next, gj) \in Nat
  BY <1>1, PlaceTypes
<1> HIDE DEF gi, gj
<1>5. At(q, next, gi) + (gj - gi) <= At(q, next, gj) /\ At(q, next, gj) <= At(q, next, gi) + (gj - gi) + more
  BY <1>1, <1>3 DEF Spaced
<1> QED
  BY <1>1, <1>3, <1>4, <1>5

LEMMA SinceRemove ==
    ASSUME NEW q \in Seq(Message), NEW next \in Nat, NEW k \in 1..Len(q), NEW more \in Nat,
           NEW last \in Nat, Since(q, next, last, more)
    PROVE  Since(RemoveAt(q, k), next, last, more + 1)
<1> SUFFICES ASSUME NEW i \in Places(RemoveAt(q, k))
             PROVE  LET r == RemoveAt(q, k)
                    IN  last + i <= At(r, next, i) /\ At(r, next, i) <= last + i + (more + 1)
  BY DEF Since
<1> DEFINE g == IF i < k THEN i ELSE i + 1
<1>1. g \in Places(q) /\ At(RemoveAt(q, k), next, i) = At(q, next, g) /\ i \in Nat
  BY PlacesRemove
<1>2. last + g <= At(q, next, g) /\ At(q, next, g) <= last + g + more
  BY <1>1 DEF Since
<1>3. At(q, next, g) \in Nat
  BY <1>1, PlaceTypes
<1>4. g \in {i, i + 1}
  OBVIOUS
<1> HIDE DEF g
<1> QED
  BY <1>1, <1>2, <1>3, <1>4

\* From a message that was read, the rest is as far as it was on the wire.
LEMMA SinceRead ==
    ASSUME NEW q \in Seq(Message), NEW next \in Nat, NEW more \in Nat,
           1 \in 1..Len(q), IsNumbered(q[1]), Spaced(q, next, more)
    PROVE  Since(RemoveAt(q, 1), next, q[1].at, more)
<1> SUFFICES ASSUME NEW i \in Places(RemoveAt(q, 1))
             PROVE  LET r == RemoveAt(q, 1)
                    IN  q[1].at + i <= At(r, next, i) /\ At(r, next, i) <= q[1].at + i + more
  BY DEF Since
<1>1. i + 1 \in Places(q) /\ At(RemoveAt(q, 1), next, i) = At(q, next, i + 1) /\ i \in Nat \ {0}
  BY PlacesRemove
<1>2. 1 \in Places(q) /\ At(q, next, 1) = q[1].at
  BY DEF Places, At
<1>3. At(q, next, 1) \in Nat /\ At(q, next, i + 1) \in Nat
  BY <1>1, <1>2, PlaceTypes
<1>4. /\ At(q, next, 1) + ((i + 1) - 1) <= At(q, next, i + 1)
      /\ At(q, next, i + 1) <= At(q, next, 1) + ((i + 1) - 1) + more
  BY <1>1, <1>2 DEF Spaced
<1> QED
  BY <1>1, <1>2, <1>3, <1>4

LEMMA SinceMore ==
    ASSUME NEW q \in Seq(Message), NEW next \in Nat, NEW last \in Nat, NEW more \in Nat,
           NEW still \in Nat, more <= still, Since(q, next, last, more)
    PROVE  Since(q, next, last, still)
<1> SUFFICES ASSUME NEW i \in Places(q)
             PROVE  last + i <= At(q, next, i) /\ At(q, next, i) <= last + i + still
  BY DEF Since
<1>1. last + i <= At(q, next, i) /\ At(q, next, i) <= last + i + more
  BY DEF Since
<1>2. At(q, next, i) \in Nat /\ i \in Nat
  BY PlaceTypes
<1> QED
  BY <1>1, <1>2

LEMMA SpacedMore ==
    ASSUME NEW q \in Seq(Message), NEW next \in Nat, NEW more \in Nat,
           NEW still \in Nat, more <= still, Spaced(q, next, more)
    PROVE  Spaced(q, next, still)
<1> SUFFICES ASSUME NEW i \in Places(q), NEW j \in Places(q), i < j
             PROVE  /\ At(q, next, i) + (j - i) <= At(q, next, j)
                    /\ At(q, next, j) <= At(q, next, i) + (j - i) + still
  BY DEF Spaced
<1>1. /\ At(q, next, i) + (j - i) <= At(q, next, j)
      /\ At(q, next, j) <= At(q, next, i) + (j - i) + more
  BY DEF Spaced
<1>2. At(q, next, i) \in Nat /\ At(q, next, j) \in Nat /\ i \in Nat /\ j \in Nat
  BY PlaceTypes
<1> QED
  BY <1>1, <1>2

LEMMA SpacingTypes ==
    ASSUME ZmqAssumption, TypeInv
    PROVE  /\ wire["sequence"] \in Seq(Message) /\ stamp \in Nat /\ lost \in Nat /\ malformed \in Nat
           /\ Hits(wire["sequence"], Unnumbered) \in Nat
           /\ (lastStamp # None => lastStamp \in Nat)
<1>1. wire["sequence"] \in Seq(Message)
  BY DEF TypeInv, Topic
<1>2. Hits(wire["sequence"], Unnumbered) \in Nat
  BY <1>1, HitsFinite
<1> QED
  BY <1>1, <1>2 DEF TypeInv, ZmqAssumption

LEMMA SpacedEmpty ==
    ASSUME NEW next, NEW more
    PROVE  Spaced(<<>>, next, more) /\ Hits(<<>>, Unnumbered) = 0 /\ DOMAIN <<>> = {}
<1>1. Places(<<>>) = {1} /\ DOMAIN <<>> = {}
  BY DEF Places
<1> QED
  BY <1>1, HitsEmpty DEF Spaced

\* Nothing on the topic, and nothing read from it.
LEMMA SpacingUnsubscribed ==
    ASSUME ZmqAssumption, TypeInv', wire'["sequence"] = <<>>, lastStamp' = None
    PROVE  SpacingInv'
<1>1. malformed' - 0 >= 0
  <2>1. malformed' \in 0..MaxMalformed
    BY DEF TypeInv
  <2>2. MaxMalformed \in Nat
    BY DEF ZmqAssumption
  <2>3. \A n \in 0..MaxMalformed : n - 0 >= 0
    BY <2>2
  <2> QED
    BY <2>1, <2>3, Zenon
<1> QED
  BY <1>1, SpacedEmpty DEF SpacingInv

\* A numbered message is published.
LEMMA SpacingNumbered ==
    ASSUME ZmqAssumption, TypeInv, SpacingInv, NEW m \in SeqMsg, m \in Message,
           m.at = stamp, m.seq = stamp % CounterMod, m \notin Unnumbered,
           wire'["sequence"] = Append(wire["sequence"], m), stamp' = stamp + 1,
           lost' = lost /\ malformed' \in {malformed, malformed + 1},
           lastSeq' = lastSeq /\ lastStamp' = lastStamp
    PROVE  SpacingInv'
<1> DEFINE q == wire["sequence"]
           unread == malformed - Hits(q, Unnumbered)
           unreadNow == malformed' - Hits(q, Unnumbered)
<1>1. /\ q \in Seq(Message) /\ stamp \in Nat /\ lost \in Nat /\ malformed \in Nat
      /\ Hits(q, Unnumbered) \in Nat /\ (lastStamp # None => lastStamp \in Nat)
  BY SpacingTypes
<1>2. /\ \A i \in DOMAIN q : IsNumbered(q[i]) => q[i].seq = q[i].at % CounterMod
      /\ Spaced(q, stamp, lost) /\ unread >= 0
      /\ lastStamp # None => lastSeq = lastStamp % CounterMod /\ Since(q, stamp, lastStamp, lost + unread)
  BY DEF SpacingInv
<1>3. Hits(Append(q, m), Unnumbered) = Hits(q, Unnumbered)
  BY <1>1, HitsAppend
<1>4. wire'["sequence"] = Append(q, m)
  OBVIOUS
<1> HIDE DEF q
<1>5. \A i \in DOMAIN Append(q, m) :
        IsNumbered(Append(q, m)[i]) => Append(q, m)[i].seq = Append(q, m)[i].at % CounterMod
  BY <1>1, <1>2
<1>6. Spaced(Append(q, m), stamp + 1, lost)
  BY <1>1, <1>2, SpacedAppend
<1>7. lost + unread \in Nat
  BY <1>1, <1>2
<1>8. lastStamp # None => Since(Append(q, m), stamp + 1, lastStamp, lost + unread)
  BY <1>1, <1>2, <1>7, SinceAppend
<1>9. Append(q, m) \in Seq(Message) /\ stamp + 1 \in Nat
  BY <1>1, AppendProperties
<1>10. unreadNow >= 0 /\ lost + unreadNow \in Nat /\ lost + unread <= lost + unreadNow
  BY <1>1, <1>2
<1> HIDE DEF unread, unreadNow
<1>11. lastStamp # None => Since(Append(q, m), stamp + 1, lastStamp, lost + unreadNow)
  BY <1>1, <1>7, <1>8, <1>9, <1>10, SinceMore
<1> QED
  BY <1>2, <1>3, <1>4, <1>5, <1>6, <1>10, <1>11 DEF SpacingInv, unreadNow

\* One that cannot be numbered is published.
LEMMA SpacingUnnumbered ==
    ASSUME ZmqAssumption, TypeInv, SpacingInv, NEW m \in Unnumbered,
           wire'["sequence"] = Append(wire["sequence"], m), stamp' = stamp + 1,
           lost' = lost /\ malformed' = malformed + 1 /\ lastSeq' = lastSeq /\ lastStamp' = lastStamp
    PROVE  SpacingInv'
<1> DEFINE q == wire["sequence"]
           unread == malformed - Hits(q, Unnumbered)
<1>1. /\ q \in Seq(Message) /\ stamp \in Nat /\ lost \in Nat /\ malformed \in Nat
      /\ Hits(q, Unnumbered) \in Nat /\ (lastStamp # None => lastStamp \in Nat)
      /\ m \in Message /\ ~IsNumbered(m)
  BY SpacingTypes DEF Unnumbered
<1>2. /\ \A i \in DOMAIN q : IsNumbered(q[i]) => q[i].seq = q[i].at % CounterMod
      /\ Spaced(q, stamp, lost) /\ unread >= 0
      /\ lastStamp # None => lastSeq = lastStamp % CounterMod /\ Since(q, stamp, lastStamp, lost + unread)
  BY DEF SpacingInv
<1>3. Hits(Append(q, m), Unnumbered) = Hits(q, Unnumbered) + 1
  BY <1>1, HitsAppend
<1>4. wire'["sequence"] = Append(q, m)
  OBVIOUS
<1> HIDE DEF q
<1>5. \A i \in DOMAIN Append(q, m) :
        IsNumbered(Append(q, m)[i]) => Append(q, m)[i].seq = Append(q, m)[i].at % CounterMod
  BY <1>1, <1>2
<1>6. Spaced(Append(q, m), stamp + 1, lost)
  BY <1>1, <1>2, SpacedAppend
<1>7. lost + unread \in Nat
  BY <1>1, <1>2
<1>8. lastStamp # None => Since(Append(q, m), stamp + 1, lastStamp, lost + unread)
  BY <1>1, <1>2, <1>7, SinceAppend
<1>9. malformed' - Hits(Append(q, m), Unnumbered) = unread
  BY <1>1, <1>3
<1> QED
  BY <1>2, <1>4, <1>5, <1>6, <1>8, <1>9 DEF SpacingInv

\* The topic is left alone.
LEMMA SpacingElsewhere ==
    ASSUME ZmqAssumption, TypeInv, TypeInv', SpacingInv,
           wire'["sequence"] = wire["sequence"], stamp' = stamp,
           lost' \in {lost, lost + 1}, malformed' \in {malformed, malformed + 1},
           lastSeq' = lastSeq /\ lastStamp' = lastStamp
    PROVE  SpacingInv'
<1> DEFINE q == wire["sequence"]
           unread == malformed - Hits(q, Unnumbered)
           unreadNow == malformed' - Hits(q, Unnumbered)
<1>1. /\ q \in Seq(Message) /\ stamp \in Nat /\ lost \in Nat /\ malformed \in Nat
      /\ Hits(q, Unnumbered) \in Nat /\ (lastStamp # None => lastStamp \in Nat)
  BY SpacingTypes
<1>2. /\ \A i \in DOMAIN q : IsNumbered(q[i]) => q[i].seq = q[i].at % CounterMod
      /\ Spaced(q, stamp, lost) /\ unread >= 0
      /\ lastStamp # None => lastSeq = lastStamp % CounterMod /\ Since(q, stamp, lastStamp, lost + unread)
  BY DEF SpacingInv
<1>3. /\ lost' \in Nat /\ lost <= lost' /\ unreadNow >= 0 /\ lost + unread \in Nat
      /\ lost' + unreadNow \in Nat /\ lost + unread <= lost' + unreadNow
  BY <1>1, <1>2
<1>4. wire'["sequence"] = q
  OBVIOUS
<1> HIDE DEF q, unread
<1>5. Spaced(q, stamp, lost')
  BY <1>1, <1>2, <1>3, SpacedMore
<1>6. lastStamp # None => Since(q, stamp, lastStamp, lost' + unreadNow)
  BY <1>1, <1>2, <1>3, SinceMore
<1> QED
  BY <1>2, <1>3, <1>4, <1>5, <1>6 DEF SpacingInv

\* A message is lost, or read by nobody.
LEMMA SpacingRemove ==
    ASSUME ZmqAssumption, TypeInv, SpacingInv, NEW k \in 1..Len(wire["sequence"]),
           wire'["sequence"] = RemoveAt(wire["sequence"], k), stamp' = stamp, malformed' = malformed,
           \/ lost' = lost + 1
           \/ lost' = lost /\ k = 1 /\ wire["sequence"][1] \in Unnumbered,
           lastSeq' = lastSeq /\ lastStamp' = lastStamp
    PROVE  SpacingInv'
<1> DEFINE q == wire["sequence"]
           r == RemoveAt(q, k)
           unread == malformed - Hits(q, Unnumbered)
           unreadNow == malformed - Hits(r, Unnumbered)
<1>1. /\ q \in Seq(Message) /\ stamp \in Nat /\ lost \in Nat /\ malformed \in Nat
      /\ Hits(q, Unnumbered) \in Nat /\ (lastStamp # None => lastStamp \in Nat)
  BY SpacingTypes
<1>2. /\ \A i \in DOMAIN q : IsNumbered(q[i]) => q[i].seq = q[i].at % CounterMod
      /\ Spaced(q, stamp, lost) /\ unread >= 0
      /\ lastStamp # None => lastSeq = lastStamp % CounterMod /\ Since(q, stamp, lastStamp, lost + unread)
  BY DEF SpacingInv
<1>3. /\ r \in Seq(Message) /\ Len(r) = Len(q) - 1
      /\ \A i \in 1..(Len(q) - 1) : r[i] = q[IF i < k THEN i ELSE i + 1]
  BY <1>1, Removal
<1>4. Hits(r, Unnumbered) \in Nat
  BY <1>3, HitsFinite
<1>5. Hits(q, Unnumbered) = Hits(r, Unnumbered) + IF q[k] \in Unnumbered THEN 1 ELSE 0
  BY <1>1, HitsRemoveAt
<1>6. wire'["sequence"] = r
  OBVIOUS
<1>7. Spaced(r, stamp, IF k = 1 THEN lost ELSE lost + 1) /\ lost + unread \in Nat
  <2>1. lost + unread \in Nat
    BY <1>1, <1>2
  <2>2. k \in 1..Len(q)
    OBVIOUS
  <2> HIDE DEF q
  <2> QED
    BY <1>1, <1>2, <2>1, <2>2, SpacedRemove
<1>8. lastStamp # None => Since(r, stamp, lastStamp, (lost + unread) + 1)
  BY <1>1, <1>2, <1>7, SinceRemove
<1>9. k \in 1..Len(q) /\ (lost' = lost + 1 \/ (lost' = lost /\ k = 1 /\ q[k] \in Unnumbered))
  OBVIOUS
<1> HIDE DEF q, r
<1>10. \A i \in DOMAIN r : IsNumbered(r[i]) => r[i].seq = r[i].at % CounterMod
  <2>1. \A i \in 1..(Len(q) - 1) : (IF i < k THEN i ELSE i + 1) \in 1..Len(q)
    BY <1>1, <1>9
  <2>2. DOMAIN q = 1..Len(q) /\ DOMAIN r = 1..(Len(q) - 1)
    BY <1>1, <1>3
  <2> QED
    BY <1>2, <1>3, <2>1, <2>2
<1>11. /\ lost' \in Nat /\ (IF k = 1 THEN lost ELSE lost + 1) <= lost' /\ (IF k = 1 THEN lost ELSE lost + 1) \in Nat
       /\ unreadNow >= 0 /\ (lost + unread) + 1 \in Nat
       /\ (lost + unread) + 1 <= lost' + unreadNow /\ lost' + unreadNow \in Nat
  <2>1. unread \in Nat /\ unreadNow \in Int
    BY <1>1, <1>2, <1>4
  <2>2. CASE q[k] \in Unnumbered
    <3>1. unreadNow = unread + 1
      BY <1>1, <1>4, <1>5, <2>2
    <3> HIDE DEF unread, unreadNow
    <3> QED
      BY <1>1, <1>9, <2>1, <3>1
  <2>3. CASE q[k] \notin Unnumbered
    <3>1. unreadNow = unread /\ lost' = lost + 1
      BY <1>1, <1>4, <1>5, <1>9, <2>3
    <3> QED
      BY <1>1, <2>1, <3>1
  <2> QED
    BY <2>2, <2>3
<1> HIDE DEF unread
<1>12. Spaced(r, stamp, lost')
  BY <1>1, <1>3, <1>7, <1>11, SpacedMore
<1>13. lastStamp # None => Since(r, stamp, lastStamp, lost' + unreadNow)
  BY <1>1, <1>3, <1>8, <1>11, SinceMore
<1> QED
  BY <1>2, <1>6, <1>10, <1>11, <1>12, <1>13 DEF SpacingInv

\* A numbered message is read.
LEMMA SpacingRead ==
    ASSUME ZmqAssumption, TypeInv, SpacingInv, 1 \in 1..Len(wire["sequence"]),
           IsNumbered(wire["sequence"][1]),
           wire'["sequence"] = RemoveAt(wire["sequence"], 1),
           stamp' = stamp, malformed' = malformed, lost' = lost,
           lastSeq' = wire["sequence"][1].seq, lastStamp' = wire["sequence"][1].at
    PROVE  SpacingInv'
<1> DEFINE q == wire["sequence"]
           r == RemoveAt(q, 1)
           unread == malformed - Hits(q, Unnumbered)
<1>1. /\ q \in Seq(Message) /\ stamp \in Nat /\ lost \in Nat /\ malformed \in Nat
      /\ Hits(q, Unnumbered) \in Nat
  BY SpacingTypes
<1>2. /\ \A i \in DOMAIN q : IsNumbered(q[i]) => q[i].seq = q[i].at % CounterMod
      /\ Spaced(q, stamp, lost) /\ unread >= 0
  BY DEF SpacingInv
<1>3. /\ r \in Seq(Message) /\ Len(r) = Len(q) - 1
      /\ \A i \in 1..(Len(q) - 1) : r[i] = q[IF i < 1 THEN i ELSE i + 1]
  BY <1>1, Removal
<1>4. Hits(q, Unnumbered) = Hits(r, Unnumbered)
  <2>1. q[1] \notin Unnumbered
    BY DEF Unnumbered
  <2>2. Hits(r, Unnumbered) \in Nat
    BY <1>3, HitsFinite
  <2> QED
    BY <1>1, <2>1, <2>2, HitsRemoveAt
<1>5. wire'["sequence"] = r
  OBVIOUS
<1>6. Spaced(r, stamp, lost)
  BY <1>1, <1>2, SpacedRemove
<1>7. Since(r, stamp, q[1].at, lost)
  BY <1>1, <1>2, SinceRead
<1>8. q[1].at \in Nat
  BY DEF IsNumbered, SeqMsg
<1>9. /\ 1 \in 1..Len(q) /\ 1 \in DOMAIN q /\ IsNumbered(q[1])
      /\ lastSeq' = q[1].seq /\ lastStamp' = q[1].at
  BY <1>1
<1> HIDE DEF q, r
<1>10. \A i \in DOMAIN r : IsNumbered(r[i]) => r[i].seq = r[i].at % CounterMod
  <2>1. \A i \in 1..(Len(q) - 1) : i + 1 \in 1..Len(q) /\ ~(i < 1)
    BY <1>1
  <2>2. DOMAIN q = 1..Len(q) /\ DOMAIN r = 1..(Len(q) - 1)
    BY <1>1, <1>3
  <2> QED
    BY <1>2, <1>3, <2>1, <2>2
<1>11. Since(r, stamp, q[1].at, lost + unread)
  BY <1>1, <1>2, <1>3, <1>7, <1>8, SinceMore
<1>12. q[1].seq = q[1].at % CounterMod
  BY <1>2, <1>9
<1> QED
  BY <1>2, <1>4, <1>5, <1>6, <1>9, <1>10, <1>11, <1>12 DEF SpacingInv

LEMMA InitSpacing == ZmqAssumption /\ Init => SpacingInv
<1> SUFFICES ASSUME ZmqAssumption, Init PROVE SpacingInv
  OBVIOUS
<1>1. wire["sequence"] = <<>> /\ malformed - 0 >= 0 /\ lastStamp = None
  BY DEF Init, Topic
<1> QED
  BY <1>1, SpacedEmpty DEF SpacingInv

\* The node publishes on the sequence topic.
LEMMA SpacingPublish ==
    ASSUME ZmqAssumption, TypeInv, TypeInv', SpacingInv, NEW msgs \in Bundle, Publish(msgs),
           UNCHANGED <<threadVars, lost>>,
           \/ /\ \E m \in SeqMsg : /\ msgs["sequence"] = <<m>> /\ m.at = stamp
                                   /\ m.seq = stamp % CounterMod /\ m \in Message \ Unnumbered
              /\ stamp' = stamp + 1 /\ malformed' \in {malformed, malformed + 1}
           \/ /\ \E m \in Unnumbered : msgs["sequence"] = <<m>>
              /\ stamp' = stamp + 1 /\ malformed' = malformed + 1
           \/ /\ msgs["sequence"] = <<>>
              /\ stamp' = stamp /\ malformed' \in {malformed, malformed + 1}
    PROVE  SpacingInv'
<1>1. "sequence" \in Topic /\ ("sequence" \in Subscribed <=> sequenceConnected)
  BY DEF Topic, Subscribed
<1>2. sequenceConnected' = sequenceConnected /\ lastSeq' = lastSeq /\ lastStamp' = lastStamp /\ lost' = lost
  BY DEF threadVars, trackVars
<1>3. CASE ~sequenceConnected
  <2>1. wire'["sequence"] = <<>> /\ lastStamp' = None
    BY <1>2, <1>3, PublishWire DEF TypeInv
  <2> QED
    BY <2>1, SpacingUnsubscribed
<1>4. CASE sequenceConnected
  <2>1. \A m \in Message : msgs["sequence"] = <<m>> => wire'["sequence"] = Append(wire["sequence"], m)
    BY <1>1, <1>2, <1>4, PublishWire
  <2>2. msgs["sequence"] = <<>> => wire'["sequence"] = wire["sequence"]
    BY <1>1, <1>2, <1>4, PublishWire
  <2>3. ASSUME NEW m \in SeqMsg, msgs["sequence"] = <<m>>, m.at = stamp, m.seq = stamp % CounterMod,
               m \in Message \ Unnumbered, stamp' = stamp + 1, malformed' \in {malformed, malformed + 1}
        PROVE  SpacingInv'
    BY <1>2, <2>1, <2>3, SpacingNumbered
  <2>4. ASSUME NEW m \in Unnumbered, msgs["sequence"] = <<m>>, stamp' = stamp + 1, malformed' = malformed + 1
        PROVE  SpacingInv'
    BY <1>2, <2>1, <2>4, SpacingUnnumbered DEF Unnumbered
  <2>5. CASE msgs["sequence"] = <<>> /\ stamp' = stamp /\ malformed' \in {malformed, malformed + 1}
    BY <1>2, <2>2, <2>5, SpacingElsewhere
  <2> QED
    BY <2>3, <2>4, <2>5
<1> QED
  BY <1>3, <1>4

LEMMA SpacingNode ==
    ASSUME ZmqAssumption, TypeInv, TypeInv', SpacingInv, NodeNext
    PROVE  SpacingInv'
<1>1. ASSUME NEW x \in Tx \cup Block, NEW label \in {"A", "R", "C", "D"}, NEW msgs \in Bundle,
             msgs["sequence"] = <<Numbered(label, x, stamp)>>, Publish(msgs), stamp' = stamp + 1,
             UNCHANGED <<lost, malformed, threadVars>>
      PROVE  SpacingInv'
  <2> DEFINE m == Numbered(label, x, stamp)
  <2>1. stamp \in Nat /\ x \in Body /\ label \in {"A", "R", "C", "D", "other"}
    BY SpacingTypes DEF Body
  <2>2. m \in SeqMsg /\ m.at = stamp /\ m.seq = stamp % CounterMod /\ m \in Message /\ m \notin Unnumbered
    BY <2>1, NumberedIs
  <2>3. msgs["sequence"] = <<m>>
    BY <1>1
  <2> HIDE DEF m
  <2> QED
    BY <1>1, <2>2, <2>3, SpacingPublish
<1>2. ASSUME NEW t \in Tx, Accept(t) PROVE SpacingInv'
  BY <1>1, <1>2, NodeBundles DEF Accept, NodeDoes
<1>3. ASSUME NEW t \in Tx, Evict(t) PROVE SpacingInv'
  BY <1>1, <1>3, NodeBundles DEF Evict, NodeDoes
<1>4. ASSUME NEW b \in Block, Connect(b) PROVE SpacingInv'
  BY <1>1, <1>4, NodeBundles DEF Connect, NodeDoes
<1>5. ASSUME NEW b \in Block, Disconnect(b) PROVE SpacingInv'
  BY <1>1, <1>5, NodeBundles DEF Disconnect, NodeDoes
<1>6. ASSUME NEW k \in Subscribed, NEW msg \in MalformedOn(k), Malformed(k, msg) PROVE SpacingInv'
  <2> DEFINE msgs == [j \in Topic |-> IF j = k THEN <<msg>> ELSE <<>>]
  <2>1. /\ k \in Topic /\ msg \in Message
        /\ k = "sequence" => \/ msg \in Unnumbered
                             \/ /\ msg \in SeqMsg /\ msg.at = stamp /\ msg.seq = stamp % CounterMod
                                /\ msg \in Message \ Unnumbered
    BY MalformedType
  <2>2. msgs \in Bundle /\ msgs["sequence"] = IF k = "sequence" THEN <<msg>> ELSE <<>>
    BY <2>1, NodeBundles DEF Topic
  <2>3. Publish(msgs) /\ malformed' = malformed + 1 /\ UNCHANGED <<threadVars, lost>>
    BY <1>6 DEF Malformed
  <2>4. stamp' = IF k = "sequence" THEN stamp + 1 ELSE stamp
    BY <1>6 DEF Malformed
  <2> HIDE DEF msgs
  <2>5. CASE k # "sequence"
    BY <2>2, <2>3, <2>4, <2>5, SpacingPublish
  <2>6. CASE k = "sequence" /\ msg \in Unnumbered
    BY <2>2, <2>3, <2>4, <2>6, SpacingPublish
  <2>7. CASE k = "sequence" /\ msg \notin Unnumbered
    BY <2>1, <2>2, <2>3, <2>4, <2>7, SpacingPublish
  <2> QED
    BY <2>5, <2>6, <2>7
<1>7. ASSUME NEW k \in Subscribed, NEW i \in 1..(MaxNodeEvents + MaxMalformed), Lose(k, i) PROVE SpacingInv'
  <2>1. /\ i \in 1..Len(wire[k]) /\ lost' = lost + 1 /\ wire' = [wire EXCEPT ![k] = RemoveAt(wire[k], i)]
        /\ stamp' = stamp /\ malformed' = malformed /\ lastSeq' = lastSeq /\ lastStamp' = lastStamp
    BY <1>7 DEF Lose, threadVars, trackVars
  <2>2. wire \in [Topic -> Seq(Message)] /\ k \in Topic /\ "sequence" \in Topic
    BY DEF TypeInv, Subscribed, Topic
  <2>3. CASE k = "sequence"
    <3>1. wire'["sequence"] = RemoveAt(wire["sequence"], i) /\ i \in 1..Len(wire["sequence"])
      BY <2>1, <2>2, <2>3
    <3> QED
      BY <2>1, <3>1, SpacingRemove
  <2>4. CASE k # "sequence"
    <3>1. wire'["sequence"] = wire["sequence"]
      BY <2>1, <2>2, <2>4
    <3> QED
      BY <2>1, <3>1, SpacingElsewhere
  <2> QED
    BY <2>3, <2>4
<1>8. ASSUME NEW t \in Tx, Publish(RawtxOnly(t)), UNCHANGED <<stamp, lost, malformed, threadVars>>
      PROVE  SpacingInv'
  <2>1. RawtxOnly(t) \in Bundle /\ RawtxOnly(t)["sequence"] = <<>>
    BY NodeBundles DEF RawtxOnly
  <2> QED
    BY <1>8, <2>1, SpacingPublish
<1>9. ASSUME NEW t \in Tx, NEW b \in Block, Mine(t, b) PROVE SpacingInv'
  BY <1>8, <1>9 DEF Mine, NodeDoes
<1>10. ASSUME NEW t \in Tx, Unmine(t) PROVE SpacingInv'
  BY <1>8, <1>10 DEF Unmine, NodeDoes
<1> QED
  BY <1>2, <1>3, <1>4, <1>5, <1>6, <1>7, <1>9, <1>10 DEF NodeNext

\* What RecvSequence reads: a message it tracks, or one without a number.
LEMMA SequenceStep ==
    ASSUME ZmqAssumption, TypeInv, RecvSequence
    PROVE  LET m == wire["sequence"][1]
           IN  /\ 1 \in 1..Len(wire["sequence"]) /\ m \in Message
               /\ wire'["sequence"] = RemoveAt(wire["sequence"], 1)
               /\ UNCHANGED <<nodeVars, sequenceConnected>>
               /\ \/ IsNumbered(m) /\ TrackSequence(m)
                  \/ m \in Unnumbered /\ UNCHANGED trackVars
<1> DEFINE m == wire["sequence"][1]
<1>1. "sequence" \in Topic /\ "sequence" \in ready /\ Consume("sequence")
      /\ UNCHANGED <<nodeVars, sequenceConnected>>
  BY DEF RecvSequence, Topic
<1>2. /\ 1 \in 1..Len(wire["sequence"]) /\ m \in Message /\ Head(wire["sequence"]) = m
      /\ wire'["sequence"] = RemoveAt(wire["sequence"], 1)
  BY <1>1, ConsumeWire
<1>3. \/ m.frames = "sequence" /\ TrackSequence(m)
      \/ m.frames # "sequence" /\ UNCHANGED trackVars
  BY <1>2 DEF RecvSequence
<1> HIDE DEF m
<1>4. m.frames = "sequence" => m \in SeqMsg
  BY <1>2, Kinds
<1>5. m.frames # "sequence" => m \notin SeqMsg
  BY DEF SeqMsg
<1>6. CASE m.frames = "sequence" /\ m.seq = None
  <2>1. UNCHANGED trackVars
    BY <1>3, <1>6 DEF TrackSequence
  <2>2. m \in Unnumbered
    BY <1>2, <1>6 DEF Unnumbered, IsNumbered
  <2> QED
    BY <1>1, <1>2, <2>1, <2>2 DEF m
<1>7. CASE m.frames = "sequence" /\ m.seq # None
  BY <1>1, <1>2, <1>3, <1>4, <1>7 DEF IsNumbered, m
<1>8. CASE m.frames # "sequence"
  <2>1. m \in Unnumbered
    BY <1>2, <1>5, <1>8 DEF Unnumbered, IsNumbered
  <2> QED
    BY <1>1, <1>2, <1>3, <1>8, <2>1 DEF m
<1> QED
  BY <1>6, <1>7, <1>8

\* Only RecvSequence touches the sequence topic, and what is known of it.
LEMMA OtherThreadStep ==
    ASSUME TypeInv, RecvRawtx \/ RecvHashblock \/ (\E topics \in SUBSET Subscribed : Poll(topics))
                    \/ CloseReceiver \/ UNCHANGED vars
    PROVE  wire'["sequence"] = wire["sequence"] /\ UNCHANGED <<nodeVars, trackVars, sequenceConnected>>
<1>1. \A k \in {"rawtx", "hashblock"} : Consume(k) => wire'["sequence"] = wire["sequence"]
  BY DEF Consume, TypeInv, Topic
<1>2. CASE RecvRawtx
  BY <1>1, <1>2 DEF RecvRawtx
<1>3. CASE RecvHashblock
  BY <1>1, <1>3 DEF RecvHashblock
<1>4. CASE \E topics \in SUBSET Subscribed : Poll(topics)
  BY <1>4 DEF Poll
<1>5. CASE CloseReceiver
  BY <1>5 DEF CloseReceiver, threadVars
<1>6. CASE UNCHANGED vars
  BY <1>6 DEF vars, threadVars
<1> QED
  BY <1>2, <1>3, <1>4, <1>5, <1>6

LEMMA NextSpacing ==
    ASSUME ZmqAssumption, TypeInv, TypeInv', SpacingInv, [Next]_vars
    PROVE  SpacingInv'
<1>1. CASE NodeNext
  BY <1>1, SpacingNode
<1>2. CASE RecvSequence
  <2> DEFINE m == wire["sequence"][1]
  <2>1. /\ 1 \in 1..Len(wire["sequence"]) /\ wire'["sequence"] = RemoveAt(wire["sequence"], 1)
        /\ stamp' = stamp /\ malformed' = malformed /\ lost' = lost
        /\ \/ IsNumbered(m) /\ TrackSequence(m)
           \/ m \in Unnumbered /\ UNCHANGED trackVars
    BY <1>2, SequenceStep DEF nodeVars
  <2>2. CASE IsNumbered(m) /\ TrackSequence(m)
    <3>1. lastSeq' = m.seq /\ lastStamp' = m.at
      BY <2>2 DEF TrackSequence, IsNumbered
    <3> QED
      BY <2>1, <2>2, <3>1, SpacingRead
  <2>3. CASE m \in Unnumbered /\ UNCHANGED trackVars
    BY <2>1, <2>3, SpacingRemove DEF trackVars
  <2> QED
    BY <2>1, <2>2, <2>3
<1>3. CASE RecvRawtx \/ RecvHashblock \/ (\E topics \in SUBSET Subscribed : Poll(topics))
           \/ CloseReceiver \/ UNCHANGED vars
  BY <1>3, OtherThreadStep, SpacingElsewhere DEF nodeVars, trackVars
<1> QED
  BY <1>1, <1>2, <1>3 DEF Next, ThreadNext
-----------------------------------------------------------------------------
(* Warnings. *)

\* The next value of the counter follows the last unless it wrapped, as long
\* as it cannot have come all the way round.
LEMMA CounterFollows ==
    ASSUME ZmqAssumption, NEW p \in Nat, NEW a \in Nat, p < a, a <= p + CounterMod
    PROVE  (a % CounterMod = (p % CounterMod) + 1) <=> (a = p + 1 /\ a % CounterMod # 0)
<1> DEFINE pr == p % CounterMod
           ar == a % CounterMod
           pd == p \div CounterMod
           ad == a \div CounterMod
<1>1. /\ CounterMod \in Nat \ {0}
      /\ pr \in 0..(CounterMod - 1) /\ p = CounterMod * pd + pr /\ pd \in Nat
      /\ ar \in 0..(CounterMod - 1) /\ a = CounterMod * ad + ar /\ ad \in Nat
  BY Remainder
<1> HIDE DEF pr, ar, pd, ad
<1>2. CounterMod * (ad - pd) = CounterMod * ad - CounterMod * pd
  BY <1>1
<1>3. a - p = CounterMod * (ad - pd) + (ar - pr)
  BY <1>1, <1>2
<1>4. ad - pd \in {0, 1}
  <2>1. CASE ad - pd < 0
    <3>1. CounterMod * (ad - pd) <= -CounterMod
      BY <1>1, <2>1
    <3> QED
      BY <1>1, <1>3, <3>1
  <2>2. CASE ad - pd > 1
    <3>1. CounterMod * (ad - pd) >= CounterMod * 2
      BY <1>1, <2>2
    <3> QED
      BY <1>1, <1>3, <3>1
  <2> QED
    BY <1>1, <2>1, <2>2
<1>5. CASE ad - pd = 0
  <2>1. CounterMod * (ad - pd) = 0
    BY <1>1, <1>5
  <2>2. a - p = ar - pr
    BY <1>1, <1>3, <2>1
  <2>3. ar = pr + 1 <=> a = p + 1
    BY <1>1, <2>2
  <2>4. ar # 0
    BY <1>1, <2>2
  <2> QED
    BY <2>3, <2>4 DEF ar, pr
<1>6. CASE ad - pd = 1
  <2>1. CounterMod * (ad - pd) = CounterMod
    BY <1>1, <1>6
  <2>2. a - p = CounterMod + ar - pr
    BY <1>1, <1>3, <2>1
  <2>3. ar <= pr
    BY <1>1, <2>2
  <2>4. a = p + 1 => ar = 0
    BY <1>1, <2>2
  <2> QED
    BY <1>1, <2>3, <2>4 DEF ar, pr
<1> QED
  BY <1>4, <1>5, <1>6

\* A warning too many for each wrap, and one for each real gap.
LEMMA NextWarning ==
    ASSUME ZmqAssumption, MaxLost + MaxMalformed < CounterMod,
           TypeInv, SpacingInv, GapWarningsExact, [Next]_vars
    PROVE  GapWarningsExact'
<1>1. CASE UNCHANGED trackVars
  BY <1>1 DEF GapWarningsExact, trackVars
<1>2. CASE RecvSequence
  <2> DEFINE q == wire["sequence"]
             m == q[1]
  <2>1. 1 \in 1..Len(q) /\ (UNCHANGED trackVars \/ (IsNumbered(m) /\ TrackSequence(m)))
    BY <1>2, SequenceStep
  <2>2. CASE IsNumbered(m) /\ TrackSequence(m)
    <3>1. m.at \in Nat /\ m.seq # None /\ m.seq = m.at % CounterMod
      <4>1. DOMAIN q = 1..Len(q)
        BY SpacingTypes
      <4> QED
        BY <2>1, <2>2, <4>1 DEF SpacingInv, IsNumbered, SeqMsg
    <3>2. ASSUME lastStamp # None
          PROVE  /\ lastStamp \in Nat /\ lastSeq # None /\ lastSeq = lastStamp % CounterMod
                 /\ lastStamp < m.at /\ m.at <= lastStamp + CounterMod
      <4>1. 1 \in Places(q) /\ At(q, stamp, 1) = m.at
        BY <2>1, <2>2, SpacingTypes DEF Places, At
      <4>2. /\ lastStamp \in Nat /\ lost \in 0..MaxLost /\ malformed \in 0..MaxMalformed
            /\ Hits(q, Unnumbered) \in Nat /\ MaxLost \in Nat /\ MaxMalformed \in Nat /\ CounterMod \in Nat
        BY <3>2, SpacingTypes DEF TypeInv, ZmqAssumption
      <4>3. /\ lastSeq = lastStamp % CounterMod
            /\ lastStamp + 1 <= m.at /\ m.at <= lastStamp + 1 + (lost + (malformed - Hits(q, Unnumbered)))
        BY <3>2, <4>1 DEF SpacingInv, Since
      <4>4. lastSeq # None
        BY <3>2 DEF TypeInv
      <4> HIDE DEF q, m
      <4> QED
        BY <3>1, <4>2, <4>3, <4>4
    <3> HIDE DEF q, m
    <3>3. lastStamp = None <=> lastSeq = None
      BY DEF TypeInv
    <3>4. /\ gapWarnings' = IF lastSeq # None /\ m.seq # lastSeq + 1 THEN gapWarnings + 1 ELSE gapWarnings
          /\ realGaps' = IF lastStamp # None /\ m.at # lastStamp + 1 THEN realGaps + 1 ELSE realGaps
          /\ wraps' = IF lastStamp # None /\ m.at = lastStamp + 1 /\ m.at % CounterMod = 0
                      THEN wraps + 1 ELSE wraps
      BY <2>2, <3>1 DEF TrackSequence, IsGap
    <3>5. gapWarnings \in Nat /\ realGaps \in Nat /\ wraps \in Nat /\ gapWarnings = realGaps + wraps
      BY DEF TypeInv, TypeOK, GapWarningsExact
    <3>6. CASE lastStamp = None
      BY <3>3, <3>4, <3>5, <3>6 DEF GapWarningsExact
    <3>7. CASE lastStamp # None
      <4>1. (m.at % CounterMod = (lastStamp % CounterMod) + 1) <=> (m.at = lastStamp + 1 /\ m.at % CounterMod # 0)
        BY <3>1, <3>2, <3>7, CounterFollows
      <4>2. (m.seq = lastSeq + 1) <=> (m.at = lastStamp + 1 /\ m.at % CounterMod # 0)
        BY <3>1, <3>2, <3>7, <4>1
      <4> QED
        BY <3>3, <3>4, <3>5, <3>7, <4>2 DEF GapWarningsExact
    <3> QED
      BY <3>6, <3>7
  <2> QED
    BY <1>1, <2>1, <2>2
<1>3. CASE NodeNext
  <2>1. UNCHANGED threadVars
    BY <1>3 DEF NodeNext, Accept, Evict, Mine, Connect, Unmine, Disconnect, NodeDoes, Malformed, Lose
  <2> QED
    BY <1>1, <2>1 DEF threadVars
<1>4. CASE RecvRawtx \/ RecvHashblock \/ (\E topics \in SUBSET Subscribed : Poll(topics))
           \/ CloseReceiver \/ UNCHANGED vars
  BY <1>1, <1>4, OtherThreadStep
<1> QED
  BY <1>2, <1>3, <1>4 DEF Next, ThreadNext
-----------------------------------------------------------------------------
(* What the channel has been told, and what is still on its way. *)

\* A message of the bundle that is in P.
InBundle(msgs, k, P) == IF \E m \in P : msgs[k] = <<m>> THEN 1 ELSE 0

LEMMA HitsOnWire ==
    ASSUME TypeInv, NEW k \in Topic, NEW P
    PROVE  wire[k] \in Seq(Message) /\ Hits(wire[k], P) \in Nat
<1>1. wire[k] \in Seq(Message)
  BY DEF TypeInv
<1> QED
  BY <1>1, HitsFinite

LEMMA PublishHits ==
    ASSUME TypeInv, NEW msgs \in Bundle, Publish(msgs), UNCHANGED sequenceConnected,
           NEW k \in Topic, NEW P
    PROVE  /\ Hits(wire'[k], P) \in Nat
           /\ Hits(wire'[k], P) <= Hits(wire[k], P) + InBundle(msgs, k, P)
           /\ k \notin Subscribed => Hits(wire'[k], P) = 0
<1>1. wire[k] \in Seq(Message) /\ Hits(wire[k], P) \in Nat
  BY HitsOnWire
<1>2. InBundle(msgs, k, P) \in {0, 1}
  BY DEF InBundle
<1>3. CASE k \notin Subscribed
  <2>1. Hits(wire'[k], P) = 0
    BY <1>3, PublishWire, HitsEmpty
  <2> QED
    BY <1>1, <1>2, <2>1
<1>4. CASE k \in Subscribed /\ msgs[k] = <<>>
  BY <1>1, <1>2, <1>4, PublishWire
<1>5. ASSUME k \in Subscribed, NEW m \in Message, msgs[k] = <<m>>
      PROVE  /\ Hits(wire'[k], P) \in Nat
             /\ Hits(wire'[k], P) <= Hits(wire[k], P) + InBundle(msgs, k, P)
  <2>1. wire'[k] = Append(wire[k], m)
    BY <1>5, PublishWire
  <2>2. Hits(wire'[k], P) = Hits(wire[k], P) + IF m \in P THEN 1 ELSE 0
    BY <1>1, <2>1, HitsAppend
  <2>3. m \in P => InBundle(msgs, k, P) = 1
    BY <1>5 DEF InBundle
  <2> QED
    BY <1>1, <1>2, <2>2, <2>3
<1>6. msgs[k] = <<>> \/ \E m \in Message : msgs[k] = <<m>>
  BY DEF Bundle
<1> QED
  BY <1>3, <1>4, <1>5, <1>6

\* A message less on the wire.
LEMMA RemoveHits ==
    ASSUME TypeInv, NEW k \in Topic, NEW i \in 1..Len(wire[k]), NEW P,
           wire'[k] = RemoveAt(wire[k], i)
    PROVE  /\ Hits(wire'[k], P) \in Nat
           /\ Hits(wire[k], P) = Hits(wire'[k], P) + IF wire[k][i] \in P THEN 1 ELSE 0
<1>1. wire[k] \in Seq(Message)
  BY HitsOnWire
<1>2. RemoveAt(wire[k], i) \in Seq(Message)
  BY <1>1, Removal
<1>3. Hits(RemoveAt(wire[k], i), P) \in Nat
  BY <1>2, HitsFinite
<1>4. Hits(wire[k], P) = Hits(RemoveAt(wire[k], i), P) + IF wire[k][i] \in P THEN 1 ELSE 0
  BY <1>1, HitsRemoveAt
<1> QED
  BY <1>3, <1>4

LEMMA CountTypes ==
    ASSUME TypeInv, NEW what, NEW x, NEW e
    PROVE  Did(what, x) \in Nat /\ Times(sent, e) \in Nat
<1>1. nodeLog \in Seq(Deed) /\ sent \in Seq(Event)
  BY DEF TypeInv
<1> QED
  BY <1>1, TimesIsHits, HitsFinite DEF Did

\* The node's log counts what is new.
LEMMA DidAppend ==
    ASSUME TypeInv, NEW deed \in Deed, nodeLog' = Append(nodeLog, deed), NEW what, NEW x
    PROVE  Did(what, x)' = Did(what, x) + IF deed = [does |-> what, on |-> x] THEN 1 ELSE 0
<1>1. nodeLog \in Seq(Deed)
  BY DEF TypeInv
<1>2. Hits(Append(nodeLog, deed), {[does |-> what, on |-> x]})
        = Hits(nodeLog, {[does |-> what, on |-> x]}) + IF deed \in {[does |-> what, on |-> x]} THEN 1 ELSE 0
  BY <1>1, HitsAppend
<1> QED
  BY <1>2, TimesIsHits DEF Did

\* The channel counts what is sent.
LEMMA SentAppend ==
    ASSUME TypeInv, NEW event \in Event, sent' = Append(sent, event), NEW e
    PROVE  Times(sent', e) = Times(sent, e) + IF event = e THEN 1 ELSE 0
<1>1. sent \in Seq(Event)
  BY DEF TypeInv
<1>2. Hits(Append(sent, event), {e}) = Hits(sent, {e}) + IF event \in {e} THEN 1 ELSE 0
  BY <1>1, HitsAppend
<1> QED
  BY <1>2, TimesIsHits

LEMMA BudgetPublish ==
    ASSUME TypeInv, BudgetInv, NEW msgs \in Bundle, Publish(msgs), UNCHANGED <<threadVars, channelVars>>,
           \A x : \A w \in {"announce", "remove", "connect", "disconnect"} : Did(w, x)' \in Nat,
           \A t \in Tx :
              /\ Did("announce", t) + InBundle(msgs, "rawtx", {RawtxMsg(t)}) <= Did("announce", t)'
              /\ Did("remove", t) + InBundle(msgs, "sequence", OfLabel("R", t)) <= Did("remove", t)',
           \A b \in Block :
              /\ Did("connect", b) + InBundle(msgs, "hashblock", {HashblockMsg(b)}) <= Did("connect", b)'
              /\ Did("connect", b) + InBundle(msgs, "sequence", OfLabel("C", b)) <= Did("connect", b)'
              /\ Did("disconnect", b) + InBundle(msgs, "sequence", OfLabel("D", b)) <= Did("disconnect", b)'
    PROVE  BudgetInv'
<1>1. /\ sequenceConnected' = sequenceConnected /\ sent' = sent
      /\ "rawtx" \in Topic /\ "hashblock" \in Topic /\ "sequence" \in Topic
      /\ (~sequenceConnected => "sequence" \notin Subscribed)
  BY DEF threadVars, channelVars, Topic, Subscribed
<1>2. ASSUME NEW k \in Topic, NEW P
      PROVE  /\ Hits(wire'[k], P) \in Nat /\ Hits(wire[k], P) \in Nat /\ InBundle(msgs, k, P) \in {0, 1}
             /\ Hits(wire'[k], P) <= Hits(wire[k], P) + InBundle(msgs, k, P)
             /\ k \notin Subscribed => Hits(wire'[k], P) = 0
  <2>1. InBundle(msgs, k, P) \in {0, 1}
    BY DEF InBundle
  <2> QED
    BY <1>1, <2>1, PublishHits, HitsOnWire
<1>3. ASSUME NEW t \in Tx
      PROVE  Times(sent', TxAdded(t)) + Hits(wire'["rawtx"], {RawtxMsg(t)}) <= Did("announce", t)'
  <2>1. Times(sent, TxAdded(t)) + Hits(wire["rawtx"], {RawtxMsg(t)}) <= Did("announce", t)
    BY DEF BudgetInv
  <2>2. Times(sent, TxAdded(t)) \in Nat /\ Did("announce", t) \in Nat /\ Did("announce", t)' \in Nat
    BY CountTypes
  <2>3. Did("announce", t) + InBundle(msgs, "rawtx", {RawtxMsg(t)}) <= Did("announce", t)'
    OBVIOUS
  <2> QED
    BY <1>1, <1>2, <2>1, <2>2, <2>3
<1>4. ASSUME NEW t \in Tx
      PROVE  Times(sent', TxRemoved(t)) + Hits(wire'["sequence"], OfLabel("R", t)) <= Did("remove", t)'
  <2>1. Times(sent, TxRemoved(t)) + Hits(wire["sequence"], OfLabel("R", t)) <= Did("remove", t)
    BY DEF BudgetInv
  <2>2. Times(sent, TxRemoved(t)) \in Nat /\ Did("remove", t) \in Nat /\ Did("remove", t)' \in Nat
    BY CountTypes
  <2>3. Did("remove", t) + InBundle(msgs, "sequence", OfLabel("R", t)) <= Did("remove", t)'
    OBVIOUS
  <2> QED
    BY <1>1, <1>2, <2>1, <2>2, <2>3
<1>5. ASSUME NEW b \in Block
      PROVE  Times(sent', BlockConnected(b)) + Hits(wire'["hashblock"], {HashblockMsg(b)})
               + Hits(wire'["sequence"], OfLabel("C", b))
             <= (IF sequenceConnected THEN 2 ELSE 1) * Did("connect", b)'
  <2> DEFINE h == Hits(wire["hashblock"], {HashblockMsg(b)})
             s == Hits(wire["sequence"], OfLabel("C", b))
             hNext == Hits(wire'["hashblock"], {HashblockMsg(b)})
             sNext == Hits(wire'["sequence"], OfLabel("C", b))
             hMore == InBundle(msgs, "hashblock", {HashblockMsg(b)})
             sMore == InBundle(msgs, "sequence", OfLabel("C", b))
             told == Times(sent, BlockConnected(b))
             did == Did("connect", b)
             didNext == Did("connect", b)'
  <2>1. told + h + s <= (IF sequenceConnected THEN 2 ELSE 1) * did
    BY DEF BudgetInv
  <2>2. told \in Nat /\ did \in Nat /\ didNext \in Nat
    BY CountTypes
  <2>3. did + hMore <= didNext /\ did + sMore <= didNext
    OBVIOUS
  <2>4. /\ h \in Nat /\ s \in Nat /\ hNext \in Nat /\ sNext \in Nat /\ hMore \in {0, 1} /\ sMore \in {0, 1}
        /\ hNext <= h + hMore /\ sNext <= s + sMore /\ (~sequenceConnected => sNext = 0)
    BY <1>1, <1>2
  <2> HIDE DEF h, s, hNext, sNext, hMore, sMore, told, did, didNext
  <2>5. told + hNext + sNext <= (IF sequenceConnected THEN 2 ELSE 1) * didNext
    BY <2>1, <2>2, <2>3, <2>4
  <2> QED
    BY <1>1, <2>5 DEF told, hNext, sNext, didNext
<1>6. ASSUME NEW b \in Block
      PROVE  Times(sent', BlockDisconnected(b)) + Hits(wire'["sequence"], OfLabel("D", b)) <= Did("disconnect", b)'
  <2>1. Times(sent, BlockDisconnected(b)) + Hits(wire["sequence"], OfLabel("D", b)) <= Did("disconnect", b)
    BY DEF BudgetInv
  <2>2. Times(sent, BlockDisconnected(b)) \in Nat /\ Did("disconnect", b) \in Nat /\ Did("disconnect", b)' \in Nat
    BY CountTypes
  <2>3. Did("disconnect", b) + InBundle(msgs, "sequence", OfLabel("D", b)) <= Did("disconnect", b)'
    OBVIOUS
  <2> QED
    BY <1>1, <1>2, <2>1, <2>2, <2>3
<1> QED
  BY <1>1, <1>3, <1>4, <1>5, <1>6 DEF BudgetInv

\* What the node publishes about a deed, it has done.
LEMMA DeedPublished ==
    ASSUME ZmqAssumption, TypeInv, BudgetInv,
           NEW what \in {"announce", "remove", "connect", "disconnect"}, NEW x \in Tx \cup Block,
           NodeDoes([does |-> what, on |-> x]), NEW msgs \in Bundle, Publish(msgs),
           msgs["rawtx"] = <<>> \/ (what = "announce" /\ msgs["rawtx"] = <<RawtxMsg(x)>>),
           msgs["hashblock"] = <<>> \/ (what = "connect" /\ msgs["hashblock"] = <<HashblockMsg(x)>>),
           \/ msgs["sequence"] = <<>>
           \/ msgs["sequence"] = <<Numbered(CASE what = "announce" -> "A" [] what = "remove" -> "R"
                                              [] what = "connect" -> "C" [] what = "disconnect" -> "D",
                                            x, stamp)>>
    PROVE  BudgetInv'
<1> DEFINE deed == [does |-> what, on |-> x]
           label == CASE what = "announce" -> "A" [] what = "remove" -> "R"
                      [] what = "connect" -> "C" [] what = "disconnect" -> "D"
           m == Numbered(label, x, stamp)
<1>1. deed \in Deed /\ nodeLog' = Append(nodeLog, deed) /\ UNCHANGED <<threadVars, channelVars>>
  BY Logged
<1>2. ASSUME NEW w, NEW y
      PROVE  Did(w, y)' = Did(w, y) + IF what = w /\ x = y THEN 1 ELSE 0
  <2>1. deed = [does |-> w, on |-> y] <=> what = w /\ x = y
    OBVIOUS
  <2> QED
    BY <1>1, <2>1, DidAppend
<1>3. \A w, y : Did(w, y) \in Nat
  BY CountTypes
<1>4. m.label = label /\ m.body = x
  BY DEF Numbered, SequenceMsg
<1>5. msgs["sequence"] = <<>> \/ msgs["sequence"] = <<m>>
  OBVIOUS
<1> HIDE DEF m
<1>6. \A l, y : InBundle(msgs, "sequence", OfLabel(l, y)) = 1 => l = label /\ y = x
  <2> HIDE DEF label
  <2>1. ASSUME NEW l, NEW y, NEW n \in OfLabel(l, y), msgs["sequence"] = <<n>>
        PROVE  l = label /\ y = x
    <3>1. n = m
      BY <1>5, <2>1
    <3> QED
      BY <1>4, <2>1, <3>1 DEF OfLabel
  <2> QED
    BY <2>1 DEF InBundle
<1>7. \A y : InBundle(msgs, "rawtx", {RawtxMsg(y)}) = 1 => what = "announce" /\ y = x
  <2> HIDE DEF deed, label
  <2>1. ASSUME NEW y, msgs["rawtx"] = <<RawtxMsg(y)>>
        PROVE  what = "announce" /\ y = x
    <3>1. what = "announce" /\ <<RawtxMsg(y)>> = <<RawtxMsg(x)>>
      BY <2>1
    <3>2. RawtxMsg(y) = RawtxMsg(x)
      BY <3>1
    <3> QED
      BY <3>1, <3>2 DEF RawtxMsg
  <2> QED
    BY <2>1 DEF InBundle
<1>8. \A y : InBundle(msgs, "hashblock", {HashblockMsg(y)}) = 1 => what = "connect" /\ y = x
  <2> HIDE DEF deed, label
  <2>1. ASSUME NEW y, msgs["hashblock"] = <<HashblockMsg(y)>>
        PROVE  what = "connect" /\ y = x
    <3>1. what = "connect" /\ <<HashblockMsg(y)>> = <<HashblockMsg(x)>>
      BY <2>1
    <3>2. HashblockMsg(y) = HashblockMsg(x)
      BY <3>1
    <3> QED
      BY <3>1, <3>2 DEF HashblockMsg
  <2> QED
    BY <2>1 DEF InBundle
<1>9. \A k, P : InBundle(msgs, k, P) \in {0, 1}
  BY DEF InBundle
<1> HIDE DEF deed
<1>10. \A y : \A w \in {"announce", "remove", "connect", "disconnect"} : Did(w, y)' \in Nat
  BY <1>2, <1>3
<1>11. ASSUME NEW t \in Tx
       PROVE  /\ Did("announce", t) + InBundle(msgs, "rawtx", {RawtxMsg(t)}) <= Did("announce", t)'
              /\ Did("remove", t) + InBundle(msgs, "sequence", OfLabel("R", t)) <= Did("remove", t)'
  <2>1. InBundle(msgs, "rawtx", {RawtxMsg(t)}) = 1 => what = "announce" /\ t = x
    BY <1>7
  <2>2. InBundle(msgs, "sequence", OfLabel("R", t)) = 1 => what = "remove" /\ t = x
    BY <1>6
  <2>3. InBundle(msgs, "rawtx", {RawtxMsg(t)}) \in {0, 1} /\ InBundle(msgs, "sequence", OfLabel("R", t)) \in {0, 1}
    BY <1>9
  <2> QED
    BY <1>2, <1>3, <2>1, <2>2, <2>3
<1>12. ASSUME NEW b \in Block
       PROVE  /\ Did("connect", b) + InBundle(msgs, "hashblock", {HashblockMsg(b)}) <= Did("connect", b)'
              /\ Did("connect", b) + InBundle(msgs, "sequence", OfLabel("C", b)) <= Did("connect", b)'
              /\ Did("disconnect", b) + InBundle(msgs, "sequence", OfLabel("D", b)) <= Did("disconnect", b)'
  <2>1. InBundle(msgs, "hashblock", {HashblockMsg(b)}) = 1 => what = "connect" /\ b = x
    BY <1>8
  <2>2. /\ InBundle(msgs, "sequence", OfLabel("C", b)) = 1 => what = "connect" /\ b = x
        /\ InBundle(msgs, "sequence", OfLabel("D", b)) = 1 => what = "disconnect" /\ b = x
    BY <1>6
  <2>3. /\ InBundle(msgs, "hashblock", {HashblockMsg(b)}) \in {0, 1}
        /\ InBundle(msgs, "sequence", OfLabel("C", b)) \in {0, 1}
        /\ InBundle(msgs, "sequence", OfLabel("D", b)) \in {0, 1}
    BY <1>9
  <2> QED
    BY <1>2, <1>3, <2>1, <2>2, <2>3
<1> QED
  BY <1>1, <1>10, <1>11, <1>12, BudgetPublish

LEMMA BudgetNode ==
    ASSUME ZmqAssumption, TypeInv, BudgetInv, NodeNext
    PROVE  BudgetInv'
<1>1. ASSUME NEW t \in Tx, Accept(t) PROVE BudgetInv'
  <2> DEFINE msgs == [rawtx |-> <<RawtxMsg(t)>>, hashblock |-> <<>>, sequence |-> <<Numbered("A", t, stamp)>>]
  <2>1. NodeDoes([does |-> "announce", on |-> t]) /\ Publish(msgs) /\ msgs \in Bundle
    BY <1>1, NodeBundles DEF Accept
  <2> QED
    BY <2>1, DeedPublished
<1>2. ASSUME NEW t \in Tx, Evict(t) PROVE BudgetInv'
  <2> DEFINE msgs == [rawtx |-> <<>>, hashblock |-> <<>>, sequence |-> <<Numbered("R", t, stamp)>>]
  <2>1. NodeDoes([does |-> "remove", on |-> t]) /\ Publish(msgs) /\ msgs \in Bundle
    BY <1>2, NodeBundles DEF Evict
  <2> QED
    BY <2>1, DeedPublished
<1>3. ASSUME NEW b \in Block, Connect(b) PROVE BudgetInv'
  <2> DEFINE msgs == [rawtx |-> <<>>, hashblock |-> <<HashblockMsg(b)>>, sequence |-> <<Numbered("C", b, stamp)>>]
  <2>1. NodeDoes([does |-> "connect", on |-> b]) /\ Publish(msgs) /\ msgs \in Bundle
    BY <1>3, NodeBundles DEF Connect
  <2> QED
    BY <2>1, DeedPublished
<1>4. ASSUME NEW b \in Block, Disconnect(b) PROVE BudgetInv'
  <2> DEFINE msgs == [rawtx |-> <<>>, hashblock |-> <<>>, sequence |-> <<Numbered("D", b, stamp)>>]
  <2>1. NodeDoes([does |-> "disconnect", on |-> b]) /\ Publish(msgs) /\ msgs \in Bundle
    BY <1>4, NodeBundles DEF Disconnect
  <2> QED
    BY <2>1, DeedPublished
<1>5. ASSUME NEW k \in Subscribed, NEW msg \in MalformedOn(k), Malformed(k, msg) PROVE BudgetInv'
  <2> DEFINE msgs == [j \in Topic |-> IF j = k THEN <<msg>> ELSE <<>>]
  <2>1. msgs \in Bundle /\ Publish(msgs) /\ UNCHANGED <<nodeLog, threadVars, channelVars>>
    BY <1>5, MalformedType, NodeBundles DEF Malformed
  <2>2. \A x : /\ msg # HashblockMsg(x) /\ (x \in Tx => msg # RawtxMsg(x))
               /\ msg \notin OfLabel("R", x) \cup OfLabel("C", x) \cup OfLabel("D", x)
    BY MalformedType
  <2>3. \A j \in Topic : \A P : msg \notin P => InBundle(msgs, j, P) = 0
    BY DEF InBundle
  <2>4. "rawtx" \in Topic /\ "hashblock" \in Topic /\ "sequence" \in Topic
    BY DEF Topic
  <2> HIDE DEF msgs
  <2>5. \A w, x : Did(w, x)' = Did(w, x) /\ Did(w, x) \in Nat
    BY <2>1, CountTypes DEF Did
  <2>6. \A t \in Tx : /\ InBundle(msgs, "rawtx", {RawtxMsg(t)}) = 0
                      /\ InBundle(msgs, "sequence", OfLabel("R", t)) = 0
    BY <2>2, <2>3, <2>4
  <2>7. \A b \in Block : /\ InBundle(msgs, "hashblock", {HashblockMsg(b)}) = 0
                         /\ InBundle(msgs, "sequence", OfLabel("C", b)) = 0
                         /\ InBundle(msgs, "sequence", OfLabel("D", b)) = 0
    BY <2>2, <2>3, <2>4
  <2>8. \A t \in Tx :
           /\ Did("announce", t) + InBundle(msgs, "rawtx", {RawtxMsg(t)}) <= Did("announce", t)'
           /\ Did("remove", t) + InBundle(msgs, "sequence", OfLabel("R", t)) <= Did("remove", t)'
    BY <2>5, <2>6
  <2>9. \A b \in Block :
           /\ Did("connect", b) + InBundle(msgs, "hashblock", {HashblockMsg(b)}) <= Did("connect", b)'
           /\ Did("connect", b) + InBundle(msgs, "sequence", OfLabel("C", b)) <= Did("connect", b)'
           /\ Did("disconnect", b) + InBundle(msgs, "sequence", OfLabel("D", b)) <= Did("disconnect", b)'
    BY <2>5, <2>7
  <2>10. \A x : \A w \in {"announce", "remove", "connect", "disconnect"} : Did(w, x)' \in Nat
    BY <2>5
  <2> QED
    BY <2>1, <2>8, <2>9, <2>10, BudgetPublish
<1>6. ASSUME NEW k \in Subscribed, NEW i \in 1..(MaxNodeEvents + MaxMalformed), Lose(k, i) PROVE BudgetInv'
  <2>1. /\ k \in Topic /\ i \in 1..Len(wire[k]) /\ wire \in [Topic -> Seq(Message)]
        /\ wire' = [wire EXCEPT ![k] = RemoveAt(wire[k], i)]
        /\ nodeLog' = nodeLog /\ sent' = sent /\ sequenceConnected' = sequenceConnected
    BY <1>6 DEF Lose, Subscribed, Topic, TypeInv, threadVars, channelVars
  <2>2. ASSUME NEW j \in Topic, NEW P
        PROVE  Hits(wire'[j], P) \in Nat /\ Hits(wire[j], P) \in Nat /\ Hits(wire'[j], P) <= Hits(wire[j], P)
    <3>1. CASE j = k
      <4>1. wire'[k] = RemoveAt(wire[k], i)
        BY <2>1
      <4>2. /\ Hits(wire'[k], P) \in Nat
            /\ Hits(wire[k], P) = Hits(wire'[k], P) + IF wire[k][i] \in P THEN 1 ELSE 0
        BY <2>1, <4>1, RemoveHits
      <4> QED
        BY <3>1, <4>2
    <3>2. CASE j # k
      BY <2>1, <3>2, HitsOnWire
    <3> QED
      BY <3>1, <3>2
  <2>3. "rawtx" \in Topic /\ "hashblock" \in Topic /\ "sequence" \in Topic
    BY DEF Topic
  <2>4. \A w, x, e : /\ Did(w, x)' = Did(w, x) /\ Did(w, x) \in Nat
                     /\ Times(sent', e) = Times(sent, e) /\ Times(sent, e) \in Nat
    BY <2>1, CountTypes DEF Did
  <2>5. ASSUME NEW t \in Tx
        PROVE  /\ Times(sent', TxAdded(t)) + Hits(wire'["rawtx"], {RawtxMsg(t)}) <= Did("announce", t)'
               /\ Times(sent', TxRemoved(t)) + Hits(wire'["sequence"], OfLabel("R", t)) <= Did("remove", t)'
    <3>1. /\ Times(sent, TxAdded(t)) + Hits(wire["rawtx"], {RawtxMsg(t)}) <= Did("announce", t)
          /\ Times(sent, TxRemoved(t)) + Hits(wire["sequence"], OfLabel("R", t)) <= Did("remove", t)
      BY DEF BudgetInv
    <3> QED
      BY <2>2, <2>3, <2>4, <3>1
  <2>6. ASSUME NEW b \in Block
        PROVE  /\ Times(sent', BlockConnected(b)) + Hits(wire'["hashblock"], {HashblockMsg(b)})
                    + Hits(wire'["sequence"], OfLabel("C", b))
                  <= (IF sequenceConnected THEN 2 ELSE 1) * Did("connect", b)'
               /\ Times(sent', BlockDisconnected(b)) + Hits(wire'["sequence"], OfLabel("D", b))
                  <= Did("disconnect", b)'
    <3>1. /\ Times(sent, BlockConnected(b)) + Hits(wire["hashblock"], {HashblockMsg(b)})
                + Hits(wire["sequence"], OfLabel("C", b))
              <= (IF sequenceConnected THEN 2 ELSE 1) * Did("connect", b)
          /\ Times(sent, BlockDisconnected(b)) + Hits(wire["sequence"], OfLabel("D", b)) <= Did("disconnect", b)
      BY DEF BudgetInv
    <3> QED
      BY <2>2, <2>3, <2>4, <3>1
  <2> QED
    BY <2>1, <2>5, <2>6 DEF BudgetInv
<1>7. ASSUME NEW t \in Tx, NEW b \in Block, Mine(t, b) PROVE BudgetInv'
  <2>1. NodeDoes([does |-> "announce", on |-> t]) /\ Publish(RawtxOnly(t)) /\ RawtxOnly(t) \in Bundle
    BY <1>7, NodeBundles DEF Mine
  <2> QED
    BY <2>1, DeedPublished DEF RawtxOnly
<1>8. ASSUME NEW t \in Tx, Unmine(t) PROVE BudgetInv'
  <2>1. NodeDoes([does |-> "announce", on |-> t]) /\ Publish(RawtxOnly(t)) /\ RawtxOnly(t) \in Bundle
    BY <1>8, NodeBundles DEF Unmine
  <2> QED
    BY <2>1, DeedPublished DEF RawtxOnly
<1> QED
  BY <1>1, <1>2, <1>3, <1>4, <1>5, <1>6, <1>7, <1>8 DEF NodeNext

\* No two events are the same but of the same kind and about the same thing.
LEMMA EventsDiffer ==
    ASSUME NEW x, NEW y
    PROVE  /\ (TxAdded(x) = TxAdded(y) => x = y)
           /\ (TxRemoved(x) = TxRemoved(y) => x = y)
           /\ (BlockConnected(x) = BlockConnected(y) => x = y)
           /\ (BlockDisconnected(x) = BlockDisconnected(y) => x = y)
           /\ TxAdded(x) # TxRemoved(y) /\ TxAdded(x) # BlockConnected(y) /\ TxAdded(x) # BlockDisconnected(y)
           /\ TxRemoved(x) # BlockConnected(y) /\ TxRemoved(x) # BlockDisconnected(y)
           /\ BlockConnected(x) # BlockDisconnected(y)
<1> USE DEF TxAdded, TxRemoved, BlockConnected, BlockDisconnected
<1>1. /\ (TxAdded(x) = TxAdded(y) => x = y) /\ (TxRemoved(x) = TxRemoved(y) => x = y)
  OBVIOUS
<1>2. /\ (BlockConnected(x) = BlockConnected(y) => x = y)
      /\ (BlockDisconnected(x) = BlockDisconnected(y) => x = y)
  OBVIOUS
<1>3. /\ TxAdded(x) # TxRemoved(y) /\ TxAdded(x) # BlockConnected(y) /\ TxAdded(x) # BlockDisconnected(y)
      /\ TxRemoved(x) # BlockConnected(y) /\ TxRemoved(x) # BlockDisconnected(y)
      /\ BlockConnected(x) # BlockDisconnected(y)
  <2>1. /\ TxAdded(x).type = "TxAdded" /\ TxRemoved(x).type = "TxRemoved" /\ TxRemoved(y).type = "TxRemoved"
        /\ BlockConnected(x).type = "BlockConnected" /\ BlockConnected(y).type = "BlockConnected"
        /\ BlockDisconnected(y).type = "BlockDisconnected"
    OBVIOUS
  <2> QED
    BY <2>1
<1> QED
  BY <1>1, <1>2, <1>3

\* The event sent for message m of topic k.
Announces(k, m, event) ==
    \/ k = "rawtx" /\ m = RawtxMsg(m.body) /\ event = TxAdded(m.body)
    \/ k = "hashblock" /\ m = HashblockMsg(m.body) /\ event = BlockConnected(m.body)
    \/ /\ k = "sequence" /\ m \in SeqMsg
       /\ \/ m.label = "R" /\ event = TxRemoved(m.body)
          \/ m.label = "C" /\ event = BlockConnected(m.body)
          \/ m.label = "D" /\ event = BlockDisconnected(m.body)

\* What was on the wire is in the channel.
LEMMA BudgetRead ==
    ASSUME TypeInv, BudgetInv, NEW k \in Topic, 1 \in 1..Len(wire[k]),
           wire'[k] = RemoveAt(wire[k], 1), \A j \in Topic \ {k} : wire'[j] = wire[j],
           UNCHANGED <<nodeVars, sequenceConnected>>,
           \/ sent' = sent
           \/ \E event \in Event : Announces(k, wire[k][1], event) /\ sent' = Append(sent, event)
    PROVE  BudgetInv'
<1> DEFINE m == wire[k][1]
           Gone(j, P) == IF j = k /\ m \in P THEN 1 ELSE 0
           Sends(e) == IF sent' # sent /\ \E event \in Event : Announces(k, m, event) /\ event = e THEN 1 ELSE 0
<1>1. ASSUME NEW j \in Topic, NEW P
      PROVE  /\ Hits(wire'[j], P) \in Nat /\ Hits(wire[j], P) \in Nat
             /\ Hits(wire[j], P) = Hits(wire'[j], P) + Gone(j, P)
  <2>1. CASE j = k
    BY <2>1, RemoveHits, HitsOnWire
  <2>2. CASE j # k
    BY <2>2, HitsOnWire
  <2> QED
    BY <2>1, <2>2
<1>2. ASSUME NEW e
      PROVE  Times(sent, e) \in Nat /\ Times(sent', e) \in Nat /\ Times(sent', e) <= Times(sent, e) + Sends(e)
  <2>1. Times(sent, e) \in Nat
    BY CountTypes
  <2>2. CASE sent' = sent
    BY <2>1, <2>2
  <2>3. ASSUME NEW event \in Event, Announces(k, m, event), sent' = Append(sent, event), sent' # sent
        PROVE  Times(sent', e) \in Nat /\ Times(sent', e) <= Times(sent, e) + Sends(e)
    <3>1. Times(sent', e) = Times(sent, e) + IF event = e THEN 1 ELSE 0
      BY <2>3, SentAppend
    <3>2. event = e => Sends(e) = 1
      BY <2>3
    <3>3. Sends(e) \in {0, 1}
      OBVIOUS
    <3> QED
      BY <2>1, <3>1, <3>2, <3>3
  <2> QED
    BY <2>1, <2>2, <2>3
<1>3. \A w, x : Did(w, x)' = Did(w, x) /\ Did(w, x) \in Nat
  BY CountTypes DEF Did, nodeVars
<1>4. "rawtx" \in Topic /\ "hashblock" \in Topic /\ "sequence" \in Topic
  BY DEF Topic
<1>5. \A x : Sends(TxAdded(x)) <= Gone("rawtx", {RawtxMsg(x)})
  BY EventsDiffer DEF Announces
<1>6. \A x : Sends(TxRemoved(x)) <= Gone("sequence", OfLabel("R", x))
  BY EventsDiffer DEF Announces, OfLabel
<1>7. \A x : Sends(BlockConnected(x)) <= Gone("hashblock", {HashblockMsg(x)}) + Gone("sequence", OfLabel("C", x))
  <2> TAKE x
  <2>1. ASSUME NEW event \in Event, Announces(k, m, event), event = BlockConnected(x)
        PROVE  \/ k = "hashblock" /\ m = HashblockMsg(x)
               \/ k = "sequence" /\ m \in SeqMsg /\ m.label = "C" /\ m.body = x
    BY <2>1, EventsDiffer DEF Announces
  <2>2. Sends(BlockConnected(x)) = 1 => \/ Gone("hashblock", {HashblockMsg(x)}) = 1
                                     \/ Gone("sequence", OfLabel("C", x)) = 1
    BY <2>1 DEF OfLabel
  <2>3. /\ Sends(BlockConnected(x)) \in {0, 1} /\ Gone("hashblock", {HashblockMsg(x)}) \in {0, 1}
        /\ Gone("sequence", OfLabel("C", x)) \in {0, 1}
    OBVIOUS
  <2> QED
    BY <2>2, <2>3
<1>8. \A x : Sends(BlockDisconnected(x)) <= Gone("sequence", OfLabel("D", x))
  BY EventsDiffer DEF Announces, OfLabel
<1>9. \A j, P, e : Gone(j, P) \in {0, 1} /\ Sends(e) \in {0, 1}
  OBVIOUS
<1> HIDE DEF Gone, Sends
<1>10. ASSUME NEW t \in Tx
       PROVE  /\ Times(sent', TxAdded(t)) + Hits(wire'["rawtx"], {RawtxMsg(t)}) <= Did("announce", t)'
              /\ Times(sent', TxRemoved(t)) + Hits(wire'["sequence"], OfLabel("R", t)) <= Did("remove", t)'
  <2>1. /\ Times(sent, TxAdded(t)) + Hits(wire["rawtx"], {RawtxMsg(t)}) <= Did("announce", t)
        /\ Times(sent, TxRemoved(t)) + Hits(wire["sequence"], OfLabel("R", t)) <= Did("remove", t)
    BY DEF BudgetInv
  <2>2. /\ Times(sent, TxAdded(t)) \in Nat /\ Times(sent', TxAdded(t)) \in Nat
        /\ Times(sent', TxAdded(t)) <= Times(sent, TxAdded(t)) + Sends(TxAdded(t))
        /\ Times(sent, TxRemoved(t)) \in Nat /\ Times(sent', TxRemoved(t)) \in Nat
        /\ Times(sent', TxRemoved(t)) <= Times(sent, TxRemoved(t)) + Sends(TxRemoved(t))
    BY <1>2
  <2>3. /\ Did("announce", t)' = Did("announce", t) /\ Did("announce", t) \in Nat
        /\ Did("remove", t)' = Did("remove", t) /\ Did("remove", t) \in Nat
    BY <1>3
  <2>4. /\ Sends(TxAdded(t)) <= Gone("rawtx", {RawtxMsg(t)}) /\ Gone("rawtx", {RawtxMsg(t)}) \in {0, 1}
        /\ Sends(TxRemoved(t)) <= Gone("sequence", OfLabel("R", t)) /\ Gone("sequence", OfLabel("R", t)) \in {0, 1}
        /\ Sends(TxAdded(t)) \in {0, 1} /\ Sends(TxRemoved(t)) \in {0, 1}
    BY <1>5, <1>6, <1>9
  <2>5. /\ Hits(wire'["rawtx"], {RawtxMsg(t)}) \in Nat
        /\ Hits(wire["rawtx"], {RawtxMsg(t)}) = Hits(wire'["rawtx"], {RawtxMsg(t)}) + Gone("rawtx", {RawtxMsg(t)})
        /\ Hits(wire'["sequence"], OfLabel("R", t)) \in Nat
        /\ Hits(wire["sequence"], OfLabel("R", t))
              = Hits(wire'["sequence"], OfLabel("R", t)) + Gone("sequence", OfLabel("R", t))
    BY <1>1, <1>4
  <2> QED
    BY <2>1, <2>2, <2>3, <2>4, <2>5
<1>11. ASSUME NEW b \in Block
       PROVE  /\ Times(sent', BlockConnected(b)) + Hits(wire'["hashblock"], {HashblockMsg(b)})
                   + Hits(wire'["sequence"], OfLabel("C", b))
                 <= (IF sequenceConnected THEN 2 ELSE 1) * Did("connect", b)'
              /\ Times(sent', BlockDisconnected(b)) + Hits(wire'["sequence"], OfLabel("D", b))
                 <= Did("disconnect", b)'
  <2>1. /\ Times(sent, BlockConnected(b)) + Hits(wire["hashblock"], {HashblockMsg(b)})
              + Hits(wire["sequence"], OfLabel("C", b))
            <= (IF sequenceConnected THEN 2 ELSE 1) * Did("connect", b)
        /\ Times(sent, BlockDisconnected(b)) + Hits(wire["sequence"], OfLabel("D", b)) <= Did("disconnect", b)
    BY DEF BudgetInv
  <2>2. /\ Times(sent, BlockConnected(b)) \in Nat /\ Times(sent', BlockConnected(b)) \in Nat
        /\ Times(sent', BlockConnected(b)) <= Times(sent, BlockConnected(b)) + Sends(BlockConnected(b))
        /\ Times(sent, BlockDisconnected(b)) \in Nat /\ Times(sent', BlockDisconnected(b)) \in Nat
        /\ Times(sent', BlockDisconnected(b)) <= Times(sent, BlockDisconnected(b)) + Sends(BlockDisconnected(b))
    BY <1>2
  <2>3. /\ Did("connect", b)' = Did("connect", b) /\ Did("connect", b) \in Nat
        /\ Did("disconnect", b)' = Did("disconnect", b) /\ Did("disconnect", b) \in Nat
    BY <1>3
  <2>4. /\ Sends(BlockConnected(b)) <= Gone("hashblock", {HashblockMsg(b)}) + Gone("sequence", OfLabel("C", b))
        /\ Sends(BlockDisconnected(b)) <= Gone("sequence", OfLabel("D", b))
        /\ Gone("hashblock", {HashblockMsg(b)}) \in {0, 1} /\ Gone("sequence", OfLabel("C", b)) \in {0, 1}
        /\ Gone("sequence", OfLabel("D", b)) \in {0, 1}
        /\ Sends(BlockConnected(b)) \in {0, 1} /\ Sends(BlockDisconnected(b)) \in {0, 1}
    BY <1>7, <1>8, <1>9
  <2>5. /\ Hits(wire'["hashblock"], {HashblockMsg(b)}) \in Nat
        /\ Hits(wire["hashblock"], {HashblockMsg(b)})
              = Hits(wire'["hashblock"], {HashblockMsg(b)}) + Gone("hashblock", {HashblockMsg(b)})
        /\ Hits(wire'["sequence"], OfLabel("C", b)) \in Nat
        /\ Hits(wire["sequence"], OfLabel("C", b))
              = Hits(wire'["sequence"], OfLabel("C", b)) + Gone("sequence", OfLabel("C", b))
        /\ Hits(wire'["sequence"], OfLabel("D", b)) \in Nat
        /\ Hits(wire["sequence"], OfLabel("D", b))
              = Hits(wire'["sequence"], OfLabel("D", b)) + Gone("sequence", OfLabel("D", b))
    BY <1>1, <1>4
  <2>6. Times(sent', BlockConnected(b)) + Hits(wire'["hashblock"], {HashblockMsg(b)})
          + Hits(wire'["sequence"], OfLabel("C", b))
        <= Times(sent, BlockConnected(b)) + Hits(wire["hashblock"], {HashblockMsg(b)})
          + Hits(wire["sequence"], OfLabel("C", b))
    BY <2>2, <2>4, <2>5
  <2>7. Times(sent', BlockDisconnected(b)) + Hits(wire'["sequence"], OfLabel("D", b))
        <= Times(sent, BlockDisconnected(b)) + Hits(wire["sequence"], OfLabel("D", b))
    BY <2>2, <2>4, <2>5
  <2>8. (IF sequenceConnected THEN 2 ELSE 1) \in {1, 2}
    OBVIOUS
  <2> DEFINE now == Times(sent', BlockConnected(b)) + Hits(wire'["hashblock"], {HashblockMsg(b)})
                      + Hits(wire'["sequence"], OfLabel("C", b))
             before == Times(sent, BlockConnected(b)) + Hits(wire["hashblock"], {HashblockMsg(b)})
                         + Hits(wire["sequence"], OfLabel("C", b))
             allowed == (IF sequenceConnected THEN 2 ELSE 1) * Did("connect", b)
  <2>9. now \in Nat /\ before \in Nat /\ allowed \in Nat
    <3>1. Hits(wire["hashblock"], {HashblockMsg(b)}) \in Nat /\ Hits(wire["sequence"], OfLabel("C", b)) \in Nat
      BY <1>1, <1>4
    <3>2. now \in Nat /\ before \in Nat
      BY <2>2, <2>5, <3>1
    <3>3. allowed \in Nat
      BY <2>3, <2>8
    <3> QED
      BY <3>2, <3>3
  <2>10. now <= before /\ before <= allowed
    BY <2>1, <2>6
  <2>11. allowed = (IF sequenceConnected THEN 2 ELSE 1) * Did("connect", b)'
    BY <2>3
  <2> HIDE DEF now, before, allowed
  <2>12. now <= (IF sequenceConnected THEN 2 ELSE 1) * Did("connect", b)'
    BY <2>9, <2>10, <2>11
  <2>13. Times(sent', BlockDisconnected(b)) + Hits(wire'["sequence"], OfLabel("D", b)) <= Did("disconnect", b)'
    <3>1. Hits(wire["sequence"], OfLabel("D", b)) \in Nat /\ Hits(wire'["sequence"], OfLabel("D", b)) \in Nat
      BY <1>1, <1>4
    <3>2. Times(sent, BlockDisconnected(b)) + Hits(wire["sequence"], OfLabel("D", b)) <= Did("disconnect", b)'
      BY <2>1, <2>3
    <3> QED
      BY <2>2, <2>3, <2>7, <3>1, <3>2
  <2> QED
    BY <2>12, <2>13 DEF now
<1> QED
  BY <1>10, <1>11 DEF BudgetInv

LEMMA BudgetThread ==
    ASSUME ZmqAssumption, TypeInv, BudgetInv, RecvRawtx \/ RecvHashblock \/ RecvSequence
    PROVE  BudgetInv'
<1>1. ASSUME NEW k \in Topic, k \in ready, Consume(k), UNCHANGED <<nodeVars, sequenceConnected>>,
             Skip(k) \/ \E event \in Event : Announces(k, wire[k][1], event) /\ Send(k, event)
      PROVE  BudgetInv'
  <2>1. /\ 1 \in 1..Len(wire[k]) /\ wire'[k] = RemoveAt(wire[k], 1)
        /\ \A j \in Topic \ {k} : wire'[j] = wire[j]
    BY <1>1, ConsumeWire
  <2>2. \/ sent' = sent
        \/ \E event \in Event : Announces(k, wire[k][1], event) /\ sent' = Append(sent, event)
    BY <1>1 DEF Skip, Send, channelVars
  <2> QED
    BY <1>1, <2>1, <2>2, BudgetRead
<1>2. CASE RecvRawtx
  <2> DEFINE m == wire["rawtx"][1]
  <2>1. "rawtx" \in Topic /\ "rawtx" \in ready /\ Consume("rawtx") /\ UNCHANGED <<nodeVars, sequenceConnected>>
    BY <1>2 DEF RecvRawtx, Topic
  <2>2. m \in Message /\ Head(wire["rawtx"]) = m
    BY <2>1, ConsumeWire
  <2>3. Skip("rawtx") \/ (m.frames = "rawtx" /\ Send("rawtx", TxAdded(m.body)))
    BY <1>2, <2>2 DEF RecvRawtx
  <2> HIDE DEF m
  <2>4. m.frames = "rawtx" => TxAdded(m.body) \in Event /\ Announces("rawtx", m, TxAdded(m.body))
    BY <2>2, Kinds, EventTypes DEF Announces
  <2>5. Skip("rawtx") \/ \E event \in Event : Announces("rawtx", m, event) /\ Send("rawtx", event)
    BY <2>3, <2>4, Zenon
  <2> QED
    BY <1>1, <2>1, <2>5 DEF m
<1>3. CASE RecvHashblock
  <2> DEFINE m == wire["hashblock"][1]
  <2>1. "hashblock" \in Topic /\ "hashblock" \in ready /\ Consume("hashblock")
        /\ UNCHANGED <<nodeVars, sequenceConnected>>
    BY <1>3 DEF RecvHashblock, Topic
  <2>2. m \in Message /\ Head(wire["hashblock"]) = m
    BY <2>1, ConsumeWire
  <2>3. Skip("hashblock") \/ (m.frames = "hashblock" /\ Send("hashblock", BlockConnected(m.body)))
    BY <1>3, <2>2 DEF RecvHashblock
  <2> HIDE DEF m
  <2>4. m.frames = "hashblock" => BlockConnected(m.body) \in Event
                                 /\ Announces("hashblock", m, BlockConnected(m.body))
    BY <2>2, Kinds, EventTypes DEF Announces
  <2>5. Skip("hashblock") \/ \E event \in Event : Announces("hashblock", m, event) /\ Send("hashblock", event)
    BY <2>3, <2>4, Zenon
  <2> QED
    BY <1>1, <2>1, <2>5 DEF m
<1>4. CASE RecvSequence
  <2> DEFINE m == wire["sequence"][1]
  <2>1. "sequence" \in Topic /\ "sequence" \in ready /\ Consume("sequence")
        /\ UNCHANGED <<nodeVars, sequenceConnected>>
    BY <1>4 DEF RecvSequence, Topic
  <2>2. m \in Message /\ Head(wire["sequence"]) = m
    BY <2>1, ConsumeWire
  <2>3. Skip("sequence") \/ (m.frames = "sequence" /\ Dispatch(m))
    BY <1>4, <2>2 DEF RecvSequence
  <2> HIDE DEF m
  <2>4. Dispatch(m) => \/ m.label = "R" /\ Send("sequence", TxRemoved(m.body))
                       \/ m.label = "C" /\ Send("sequence", BlockConnected(m.body))
                       \/ m.label = "D" /\ Send("sequence", BlockDisconnected(m.body))
                       \/ Skip("sequence")
    BY DEF Dispatch
  <2>5. m.frames = "sequence" => /\ m \in SeqMsg
                                 /\ TxRemoved(m.body) \in Event /\ BlockConnected(m.body) \in Event
                                 /\ BlockDisconnected(m.body) \in Event
    BY <2>2, Kinds, EventTypes
  <2>6. m \in SeqMsg => /\ m.label = "R" => Announces("sequence", m, TxRemoved(m.body))
                        /\ m.label = "C" => Announces("sequence", m, BlockConnected(m.body))
                        /\ m.label = "D" => Announces("sequence", m, BlockDisconnected(m.body))
    BY DEF Announces
  <2>7. Skip("sequence") \/ \E event \in Event : Announces("sequence", m, event) /\ Send("sequence", event)
    BY <2>3, <2>4, <2>5, <2>6, Zenon
  <2> QED
    BY <1>1, <2>1, <2>7 DEF m
<1> QED
  BY <1>2, <1>3, <1>4

LEMMA InitBudget == ZmqAssumption /\ Init => BudgetInv
<1> SUFFICES ASSUME ZmqAssumption, Init PROVE BudgetInv
  OBVIOUS
<1>1. sent = <<>> /\ nodeLog = <<>> /\ \A k \in Topic : wire[k] = <<>>
  BY DEF Init
<1>2. \A P : Hits(<<>>, P) = 0
  BY HitsEmpty
<1>3. \A e : Times(<<>>, e) = 0
  BY <1>2, TimesIsHits
<1>4. \A w, x : Did(w, x) = 0
  BY <1>1, <1>3 DEF Did
<1>5. wire["rawtx"] = <<>> /\ wire["hashblock"] = <<>> /\ wire["sequence"] = <<>>
  BY <1>1 DEF Topic
<1> QED
  BY <1>1, <1>2, <1>3, <1>4, <1>5 DEF BudgetInv

LEMMA NextBudget ==
    ASSUME ZmqAssumption, TypeInv, BudgetInv, [Next]_vars
    PROVE  BudgetInv'
<1>1. CASE NodeNext
  BY <1>1, BudgetNode
<1>2. CASE RecvRawtx \/ RecvHashblock \/ RecvSequence
  BY <1>2, BudgetThread
<1>3. CASE CloseReceiver \/ (\E topics \in SUBSET Subscribed : Poll(topics)) \/ UNCHANGED vars
  <2>1. UNCHANGED <<wire, sent, nodeLog, sequenceConnected>>
    BY <1>3 DEF CloseReceiver, Poll, vars, nodeVars, threadVars, channelVars
  <2>2. \A w, x : Did(w, x)' = Did(w, x)
    BY <2>1 DEF Did
  <2> QED
    BY <2>1, <2>2 DEF BudgetInv
<1> QED
  BY <1>1, <1>2, <1>3 DEF Next, ThreadNext

\* What is on its way counts nothing less than nothing.
LEMMA BudgetMeansNothingTwice ==
    ASSUME TypeInv, BudgetInv
    PROVE  NothingTwice
<1>1. "rawtx" \in Topic /\ "hashblock" \in Topic /\ "sequence" \in Topic
  BY DEF Topic
<1>2. \A w, x, e : Did(w, x) \in Nat /\ Times(sent, e) \in Nat
  BY CountTypes
<1>3. \A P : Hits(wire["rawtx"], P) \in Nat /\ Hits(wire["hashblock"], P) \in Nat /\ Hits(wire["sequence"], P) \in Nat
  BY <1>1, HitsOnWire
<1>4. ASSUME NEW t \in Tx
      PROVE  Times(sent, TxAdded(t)) <= Did("announce", t) /\ Times(sent, TxRemoved(t)) <= Did("remove", t)
  <2>1. /\ Times(sent, TxAdded(t)) + Hits(wire["rawtx"], {RawtxMsg(t)}) <= Did("announce", t)
        /\ Times(sent, TxRemoved(t)) + Hits(wire["sequence"], OfLabel("R", t)) <= Did("remove", t)
    BY DEF BudgetInv
  <2> QED
    BY <1>2, <1>3, <2>1
<1>5. ASSUME NEW b \in Block
      PROVE  /\ Times(sent, BlockConnected(b)) <= (IF sequenceConnected THEN 2 ELSE 1) * Did("connect", b)
             /\ Times(sent, BlockDisconnected(b)) <= Did("disconnect", b)
  <2>1. /\ Times(sent, BlockConnected(b)) + Hits(wire["hashblock"], {HashblockMsg(b)})
              + Hits(wire["sequence"], OfLabel("C", b))
            <= (IF sequenceConnected THEN 2 ELSE 1) * Did("connect", b)
        /\ Times(sent, BlockDisconnected(b)) + Hits(wire["sequence"], OfLabel("D", b)) <= Did("disconnect", b)
    BY DEF BudgetInv
  <2> QED
    BY <1>2, <1>3, <2>1
<1> QED
  BY <1>4, <1>5 DEF NothingTwice
-----------------------------------------------------------------------------
(* What the channel has been told, in order. *)

(* Nothing is left out: as long as nothing was lost and the receiver is    *)
(* there, what the channel has been told and what is still on the wire of  *)
(* the topic that tells it make up the node's deeds, each kind in order.   *)
RawtxOf == [m \in {RawtxMsg(t) : t \in Tx} |-> m.body]

LabelledOf(label, X) == [m \in {n \in SeqMsg : n.label = label /\ n.body \in X} |-> m.body]

Story(k, event, msg, deed) == Images(sent, event) \o Images(wire[k], msg) = Images(nodeLog, deed)

StoryInv ==
    lost = 0 /\ receiverOpen
    => /\ Story("rawtx", AddedTx, RawtxOf, Deeds("announce"))
       /\ sequenceConnected =>
            /\ Story("sequence", RemovedTx, LabelledOf("R", Tx), Deeds("remove"))
            /\ Story("sequence", DisconnectedBlock, LabelledOf("D", Block), Deeds("disconnect"))

\* The images of a sequence of each kind, in one type of sequences.
LEMMA StoryTypes ==
    ASSUME TypeInv, NEW k \in Topic, NEW event, NEW msg
    PROVE  \E T : /\ Images(sent, event) \in Seq(T) /\ Images(wire[k], msg) \in Seq(T)
                  /\ \A x \in DOMAIN event : event[x] \in T
                  /\ \A x \in DOMAIN msg : msg[x] \in T
<1> DEFINE T == {event[x] : x \in DOMAIN event} \cup {msg[x] : x \in DOMAIN msg}
<1>1. sent \in Seq(Event) /\ wire[k] \in Seq(Message)
  BY DEF TypeInv
<1>2. (\A x \in DOMAIN event : event[x] \in T) /\ (\A x \in DOMAIN msg : msg[x] \in T)
  OBVIOUS
<1> HIDE DEF T
<1>3. Images(sent, event) \in Seq(T)
  BY <1>1, <1>2, ImagesType
<1>4. Images(wire[k], msg) \in Seq(T)
  BY <1>1, <1>2, ImagesType
<1> QED
  BY <1>2, <1>3, <1>4

\* A message with the image of the deed it tells follows the others.
LEMMA StoryPublished ==
    ASSUME TypeInv, NEW k \in Subscribed, NEW event, NEW msg, NEW deed, Story(k, event, msg, deed),
           NEW msgs \in Bundle, Publish(msgs), sent' = sent, UNCHANGED sequenceConnected,
           \/ /\ nodeLog' = nodeLog
              /\ msgs[k] = <<>> \/ \E m \in Message : msgs[k] = <<m>> /\ m \notin DOMAIN msg
           \/ \E d \in Deed :
                 /\ nodeLog' = Append(nodeLog, d)
                 /\ \/ /\ d \notin DOMAIN deed
                       /\ msgs[k] = <<>> \/ \E m \in Message : msgs[k] = <<m>> /\ m \notin DOMAIN msg
                    \/ /\ d \in DOMAIN deed
                       /\ \E m \in Message : /\ msgs[k] = <<m>>
                                             /\ m \in DOMAIN msg /\ msg[m] = deed[d]
    PROVE  Images(sent', event) \o Images(wire'[k], msg) = Images(nodeLog', deed)
<1> DEFINE w == wire[k]
<1>1. /\ k \in Topic /\ w \in Seq(Message) /\ nodeLog \in Seq(Deed)
      /\ \A m \in Message : msgs[k] = <<m>> => wire'[k] = Append(w, m)
      /\ msgs[k] = <<>> => wire'[k] = w
  <2>1. /\ \A j \in Subscribed : \A m \in Message : msgs[j] = <<m>> => wire'[j] = Append(wire[j], m)
        /\ \A j \in Subscribed : msgs[j] = <<>> => wire'[j] = wire[j]
    BY PublishWire
  <2>2. k \in Topic
    BY DEF Subscribed, Topic
  <2>3. wire[k] \in Seq(Message) /\ nodeLog \in Seq(Deed)
    BY <2>2 DEF TypeInv
  <2> QED
    BY <2>1, <2>2, <2>3
<1> HIDE DEF w
<1>2. ASSUME msgs[k] = <<>> \/ \E m \in Message : msgs[k] = <<m>> /\ m \notin DOMAIN msg
      PROVE  Images(wire'[k], msg) = Images(w, msg)
  <2>1. CASE msgs[k] = <<>>
    BY <1>1, <2>1
  <2>2. ASSUME NEW m \in Message, msgs[k] = <<m>>, m \notin DOMAIN msg
        PROVE  Images(wire'[k], msg) = Images(w, msg)
    <3>1. wire'[k] = Append(w, m)
      BY <1>1, <2>2
    <3>2. Images(Append(w, m), msg) = IF m \in DOMAIN msg THEN Images(w, msg) \o <<msg[m]>> ELSE Images(w, msg)
      BY <1>1, ImagesAppend
    <3> QED
      BY <2>2, <3>1, <3>2
  <2> QED
    BY <1>2, <2>1, <2>2
<1>3. Images(sent, event) \o Images(w, msg) = Images(nodeLog, deed)
  BY DEF Story, w
<1>4. CASE nodeLog' = nodeLog
           /\ (msgs[k] = <<>> \/ \E m \in Message : msgs[k] = <<m>> /\ m \notin DOMAIN msg)
  BY <1>2, <1>3, <1>4
<1>5. ASSUME NEW d \in Deed, nodeLog' = Append(nodeLog, d), d \notin DOMAIN deed,
             msgs[k] = <<>> \/ \E m \in Message : msgs[k] = <<m>> /\ m \notin DOMAIN msg
      PROVE  Images(sent', event) \o Images(wire'[k], msg) = Images(nodeLog', deed)
  <2>1. Images(Append(nodeLog, d), deed)
          = IF d \in DOMAIN deed THEN Images(nodeLog, deed) \o <<deed[d]>> ELSE Images(nodeLog, deed)
    BY <1>1, ImagesAppend
  <2>2. Images(nodeLog', deed) = Images(nodeLog, deed)
    BY <1>5, <2>1
  <2>3. Images(wire'[k], msg) = Images(w, msg)
    BY <1>2, <1>5
  <2> QED
    BY <1>3, <2>2, <2>3
<1>6. ASSUME NEW d \in Deed, nodeLog' = Append(nodeLog, d), d \in DOMAIN deed,
             NEW m \in Message, msgs[k] = <<m>>, m \in DOMAIN msg, msg[m] = deed[d]
      PROVE  Images(sent', event) \o Images(wire'[k], msg) = Images(nodeLog', deed)
  <2>1. Images(Append(nodeLog, d), deed)
          = IF d \in DOMAIN deed THEN Images(nodeLog, deed) \o <<deed[d]>> ELSE Images(nodeLog, deed)
    BY <1>1, ImagesAppend
  <2>2. Images(nodeLog', deed) = Images(nodeLog, deed) \o <<msg[m]>>
    BY <1>6, <2>1
  <2>3. wire'[k] = Append(w, m)
    BY <1>1, <1>6
  <2>4. Images(Append(w, m), msg) = IF m \in DOMAIN msg THEN Images(w, msg) \o <<msg[m]>> ELSE Images(w, msg)
    BY <1>1, ImagesAppend
  <2>5. Images(wire'[k], msg) = Images(w, msg) \o <<msg[m]>>
    BY <1>6, <2>3, <2>4
  <2>6. PICK T : /\ Images(sent, event) \in Seq(T) /\ Images(w, msg) \in Seq(T) /\ msg[m] \in T
    BY <1>1, <1>6, StoryTypes DEF w
  <2>7. <<msg[m]>> \in Seq(T)
    BY <2>6
  <2>8. (Images(sent, event) \o Images(w, msg)) \o <<msg[m]>>
          = Images(sent, event) \o (Images(w, msg) \o <<msg[m]>>)
    BY <2>6, <2>7, ConcatAssociative
  <2> QED
    BY <1>3, <2>2, <2>5, <2>8
<1> QED
  BY <1>4, <1>5, <1>6

\* A message read is told with its image.
LEMMA StoryRead ==
    ASSUME TypeInv, NEW k \in Topic, NEW event, NEW msg, NEW deed, Story(k, event, msg, deed),
           wire[k] # <<>>, wire'[k] = RemoveAt(wire[k], 1), nodeLog' = nodeLog,
           \/ wire[k][1] \notin DOMAIN msg /\ sent' = sent
           \/ \E e \in Event : /\ sent' = Append(sent, e)
                               /\ wire[k][1] \in DOMAIN msg <=> e \in DOMAIN event
                               /\ e \in DOMAIN event => event[e] = msg[wire[k][1]]
    PROVE  Images(sent', event) \o Images(wire'[k], msg) = Images(nodeLog', deed)
<1> DEFINE w == wire[k]
           m == w[1]
           r == Tail(w)
           first == IF m \in DOMAIN msg THEN <<msg[m]>> ELSE <<>>
<1>1. w \in Seq(Message) /\ sent \in Seq(Event) /\ w # <<>>
  BY DEF TypeInv
<1>2. Head(w) = m /\ wire'[k] = r
  <2>1. Tail(w) = RemoveAt(w, 1) /\ Head(w) = w[1]
    BY <1>1, TailIsRemoval
  <2> QED
    BY <2>1
<1>3. Images(w, msg) = first \o Images(r, msg)
  <2>1. Images(w, msg) = (IF Head(w) \in DOMAIN msg THEN <<msg[Head(w)]>> ELSE <<>>) \o Images(r, msg)
    BY <1>1, ImagesTail
  <2> QED
    BY <1>2, <2>1
<1>4. Images(sent, event) \o Images(w, msg) = Images(nodeLog, deed)
  BY DEF Story
<1>5. PICK T : /\ Images(sent, event) \in Seq(T)
               /\ \A x \in DOMAIN event : event[x] \in T
               /\ \A x \in DOMAIN msg : msg[x] \in T
  BY StoryTypes
<1>6. r \in Seq(Message)
  BY <1>1, HeadTailProperties
<1>7. Images(r, msg) \in Seq(T)
  BY <1>5, <1>6, ImagesType
<1>8. first \in Seq(T)
  <2>1. CASE m \in DOMAIN msg
    BY <1>5, <2>1
  <2>2. CASE m \notin DOMAIN msg
    BY <2>2
  <2> QED
    BY <2>1, <2>2
<1>9. Images(sent', event) = Images(sent, event) \o first
  <2>1. CASE m \notin DOMAIN msg /\ sent' = sent
    <3>1. first = <<>>
      BY <2>1
    <3> HIDE DEF first
    <3> QED
      BY <1>5, <2>1, <3>1, ConcatEmptySeq
  <2>2. ASSUME NEW e \in Event, sent' = Append(sent, e), m \in DOMAIN msg <=> e \in DOMAIN event,
               e \in DOMAIN event => event[e] = msg[m]
        PROVE  Images(sent', event) = Images(sent, event) \o first
    <3>1. Images(Append(sent, e), event)
            = IF e \in DOMAIN event THEN Images(sent, event) \o <<event[e]>> ELSE Images(sent, event)
      BY <1>1, ImagesAppend
    <3>2. CASE e \in DOMAIN event
      <4>1. first = <<event[e]>>
        BY <2>2, <3>2
      <4> HIDE DEF first
      <4> QED
        BY <2>2, <3>1, <3>2, <4>1
    <3>3. CASE e \notin DOMAIN event
      <4>1. first = <<>>
        BY <2>2, <3>3
      <4> HIDE DEF first
      <4>2. Images(sent', event) = Images(sent, event)
        BY <2>2, <3>1, <3>3
      <4> QED
        BY <1>5, <4>1, <4>2, ConcatEmptySeq
    <3> QED
      BY <3>2, <3>3
  <2> QED
    BY <2>1, <2>2
<1> HIDE DEF first, r, w, m
<1>10. (Images(sent, event) \o first) \o Images(r, msg) = Images(sent, event) \o (first \o Images(r, msg))
  BY <1>5, <1>7, <1>8, ConcatAssociative
<1> QED
  BY <1>2, <1>3, <1>4, <1>9, <1>10

\* What another topic tells is not in this story.
LEMMA StoryElsewhere ==
    ASSUME TypeInv, NEW k \in Topic, NEW event, NEW msg, NEW deed, Story(k, event, msg, deed),
           wire'[k] = wire[k], nodeLog' = nodeLog,
           sent' = sent \/ \E e \in Event : sent' = Append(sent, e) /\ e \notin DOMAIN event
    PROVE  Images(sent', event) \o Images(wire'[k], msg) = Images(nodeLog', deed)
<1>1. Images(sent', event) = Images(sent, event)
  <2>1. sent \in Seq(Event)
    BY DEF TypeInv
  <2>2. ASSUME NEW e \in Event, sent' = Append(sent, e), e \notin DOMAIN event
        PROVE  Images(sent', event) = Images(sent, event)
    <3>1. Images(Append(sent, e), event)
            = IF e \in DOMAIN event THEN Images(sent, event) \o <<event[e]>> ELSE Images(sent, event)
      BY <2>1, ImagesAppend
    <3> QED
      BY <2>2, <3>1
  <2> QED
    BY <2>2
<1> QED
  BY <1>1 DEF Story

\* Which events, messages and deeds the stories are of.
LEMMA EventsTell ==
    ASSUME ZmqAssumption
    PROVE  \A x : /\ TxAdded(x) \in DOMAIN AddedTx <=> x \in Tx
                  /\ x \in Tx => AddedTx[TxAdded(x)] = x
                  /\ TxAdded(x) \notin DOMAIN RemovedTx /\ TxAdded(x) \notin DOMAIN DisconnectedBlock
                  /\ TxRemoved(x) \in DOMAIN RemovedTx <=> x \in Tx
                  /\ x \in Tx => RemovedTx[TxRemoved(x)] = x
                  /\ TxRemoved(x) \notin DOMAIN AddedTx /\ TxRemoved(x) \notin DOMAIN DisconnectedBlock
                  /\ BlockConnected(x) \notin DOMAIN AddedTx /\ BlockConnected(x) \notin DOMAIN RemovedTx
                  /\ BlockConnected(x) \notin DOMAIN DisconnectedBlock
                  /\ BlockDisconnected(x) \in DOMAIN DisconnectedBlock <=> x \in Block
                  /\ x \in Block => DisconnectedBlock[BlockDisconnected(x)] = x
                  /\ BlockDisconnected(x) \notin DOMAIN AddedTx /\ BlockDisconnected(x) \notin DOMAIN RemovedTx
<1> TAKE x
<1> USE DEF TxAdded, TxRemoved, BlockConnected, BlockDisconnected, AddedTx, RemovedTx, DisconnectedBlock
<1>1. /\ TxAdded(x) \in DOMAIN AddedTx <=> x \in Tx
      /\ x \in Tx => AddedTx[TxAdded(x)] = x
  OBVIOUS
<1>2. /\ TxRemoved(x) \in DOMAIN RemovedTx <=> x \in Tx
      /\ x \in Tx => RemovedTx[TxRemoved(x)] = x
  OBVIOUS
<1>3. /\ BlockDisconnected(x) \in DOMAIN DisconnectedBlock <=> x \in Block
      /\ x \in Block => DisconnectedBlock[BlockDisconnected(x)] = x
  OBVIOUS
<1>4. /\ \A e \in DOMAIN AddedTx : e.type = "TxAdded"
      /\ \A e \in DOMAIN RemovedTx : e.type = "TxRemoved"
      /\ \A e \in DOMAIN DisconnectedBlock : e.type = "BlockDisconnected"
  OBVIOUS
<1>5. /\ TxAdded(x).type = "TxAdded" /\ TxRemoved(x).type = "TxRemoved"
      /\ BlockConnected(x).type = "BlockConnected" /\ BlockDisconnected(x).type = "BlockDisconnected"
  OBVIOUS
<1> HIDE DEF TxAdded, TxRemoved, BlockConnected, BlockDisconnected, AddedTx, RemovedTx, DisconnectedBlock
<1> QED
  BY <1>1, <1>2, <1>3, <1>4, <1>5

LEMMA MessagesTell ==
    ASSUME ZmqAssumption
    PROVE  /\ \A m : m \in DOMAIN RawtxOf <=> \E t \in Tx : m = RawtxMsg(t)
           /\ \A t \in Tx : RawtxOf[RawtxMsg(t)] = t
           /\ \A label, X, m : m \in DOMAIN LabelledOf(label, X)
                                 <=> m \in SeqMsg /\ m.label = label /\ m.body \in X
           /\ \A label, X : \A m \in DOMAIN LabelledOf(label, X) : LabelledOf(label, X)[m] = m.body
BY DEF RawtxOf, LabelledOf, RawtxMsg

LEMMA DeedsTell ==
    ASSUME NEW what, NEW w, NEW x \in Tx \cup Block
    PROVE  /\ [does |-> w, on |-> x] \in DOMAIN Deeds(what) <=> w = what
           /\ w = what => Deeds(what)[[does |-> w, on |-> x]] = x
BY DEF Deeds

LEMMA StoryDeed ==
    ASSUME ZmqAssumption, TypeInv, StoryInv,
           NEW what \in {"announce", "remove", "connect", "disconnect"},
           NEW x, x \in IF what \in {"announce", "remove"} THEN Tx ELSE Block,
           NodeDoes([does |-> what, on |-> x]), NEW msgs \in Bundle, Publish(msgs),
           msgs["rawtx"] = IF what = "announce" THEN <<RawtxMsg(x)>> ELSE <<>>,
           \/ what = "announce" /\ msgs["sequence"] = <<>>
           \/ msgs["sequence"] = <<Numbered(CASE what = "announce" -> "A" [] what = "remove" -> "R"
                                              [] what = "connect" -> "C" [] what = "disconnect" -> "D",
                                            x, stamp)>>
    PROVE  StoryInv'
<1> DEFINE deed == [does |-> what, on |-> x]
           label == CASE what = "announce" -> "A" [] what = "remove" -> "R"
                      [] what = "connect" -> "C" [] what = "disconnect" -> "D"
           m == Numbered(label, x, stamp)
<1>1. x \in Tx \cup Block
  OBVIOUS
<1>2. deed \in Deed /\ nodeLog' = Append(nodeLog, deed) /\ UNCHANGED <<lost, threadVars, channelVars>>
  BY <1>1, Logged
<1>3. /\ sent' = sent /\ sequenceConnected' = sequenceConnected /\ lost' = lost /\ receiverOpen' = receiverOpen
  BY <1>2 DEF threadVars, channelVars
<1>4. SUFFICES ASSUME lost = 0 /\ receiverOpen
               PROVE  /\ Images(sent', AddedTx) \o Images(wire'["rawtx"], RawtxOf)
                            = Images(nodeLog', Deeds("announce"))
                      /\ sequenceConnected =>
                           /\ Images(sent', RemovedTx) \o Images(wire'["sequence"], LabelledOf("R", Tx))
                                 = Images(nodeLog', Deeds("remove"))
                           /\ Images(sent', DisconnectedBlock) \o Images(wire'["sequence"], LabelledOf("D", Block))
                                 = Images(nodeLog', Deeds("disconnect"))
  BY <1>3 DEF StoryInv, Story
<1>5. /\ deed \in DOMAIN Deeds("announce") <=> what = "announce"
      /\ what = "announce" => Deeds("announce")[deed] = x
      /\ deed \in DOMAIN Deeds("remove") <=> what = "remove"
      /\ what = "remove" => Deeds("remove")[deed] = x
      /\ deed \in DOMAIN Deeds("disconnect") <=> what = "disconnect"
      /\ what = "disconnect" => Deeds("disconnect")[deed] = x
  BY <1>1, DeedsTell
<1>6. /\ label \in {"A", "R", "C", "D", "other"}
      /\ label = "R" <=> what = "remove"
      /\ label = "D" <=> what = "disconnect"
  OBVIOUS
<1>7. x \in Body /\ stamp \in Nat
  BY <1>1 DEF Body, TypeInv
<1> HIDE DEF label
<1>8. m \in SeqMsg /\ m \in Message /\ m.label = label /\ m.body = x
  BY <1>6, <1>7, NumberedIs
<1>9. msgs["sequence"] = <<m>> \/ (what = "announce" /\ msgs["sequence"] = <<>>)
  BY DEF label
<1> HIDE DEF deed, m
<1>10. Images(sent', AddedTx) \o Images(wire'["rawtx"], RawtxOf) = Images(nodeLog', Deeds("announce"))
  <2>1. Story("rawtx", AddedTx, RawtxOf, Deeds("announce")) /\ "rawtx" \in Subscribed
    BY <1>4 DEF StoryInv, Subscribed, Topic
  <2>2. CASE what = "announce"
    <3>1. x \in Tx
      BY <2>2
    <3>2. RawtxMsg(x) \in Message /\ RawtxMsg(x) \in DOMAIN RawtxOf /\ RawtxOf[RawtxMsg(x)] = x
      BY <3>1, Kinds, MessagesTell
    <3>3. msgs["rawtx"] = <<RawtxMsg(x)>>
      BY <2>2
    <3> QED
      BY <1>2, <1>3, <1>5, <2>1, <2>2, <3>2, <3>3, StoryPublished
  <2>3. CASE what # "announce"
    <3>1. msgs["rawtx"] = <<>>
      BY <2>3
    <3> QED
      BY <1>2, <1>3, <1>5, <2>1, <2>3, <3>1, StoryPublished
  <2> QED
    BY <2>2, <2>3
<1>11. ASSUME sequenceConnected
       PROVE  Images(sent', RemovedTx) \o Images(wire'["sequence"], LabelledOf("R", Tx))
                = Images(nodeLog', Deeds("remove"))
  <2>1. Story("sequence", RemovedTx, LabelledOf("R", Tx), Deeds("remove")) /\ "sequence" \in Subscribed
    BY <1>4, <1>11 DEF StoryInv, Subscribed, Topic
  <2>2. CASE what = "remove"
    <3>1. x \in Tx
      BY <2>2
    <3>2. m \in DOMAIN LabelledOf("R", Tx) /\ LabelledOf("R", Tx)[m] = x
      BY <1>6, <1>8, <2>2, <3>1, MessagesTell
    <3> QED
      BY <1>2, <1>3, <1>5, <1>8, <1>9, <2>1, <2>2, <3>2, StoryPublished
  <2>3. CASE what # "remove"
    <3>1. m \notin DOMAIN LabelledOf("R", Tx)
      BY <1>6, <1>8, <2>3, MessagesTell
    <3> QED
      BY <1>2, <1>3, <1>5, <1>8, <1>9, <2>1, <2>3, <3>1, StoryPublished
  <2> QED
    BY <2>2, <2>3
<1>12. ASSUME sequenceConnected
       PROVE  Images(sent', DisconnectedBlock) \o Images(wire'["sequence"], LabelledOf("D", Block))
                = Images(nodeLog', Deeds("disconnect"))
  <2>1. Story("sequence", DisconnectedBlock, LabelledOf("D", Block), Deeds("disconnect"))
        /\ "sequence" \in Subscribed
    BY <1>4, <1>12 DEF StoryInv, Subscribed, Topic
  <2>2. CASE what = "disconnect"
    <3>1. x \in Block
      BY <2>2
    <3>2. m \in DOMAIN LabelledOf("D", Block) /\ LabelledOf("D", Block)[m] = x
      BY <1>6, <1>8, <2>2, <3>1, MessagesTell
    <3> QED
      BY <1>2, <1>3, <1>5, <1>8, <1>9, <2>1, <2>2, <3>2, StoryPublished
  <2>3. CASE what # "disconnect"
    <3>1. m \notin DOMAIN LabelledOf("D", Block)
      BY <1>6, <1>8, <2>3, MessagesTell
    <3> QED
      BY <1>2, <1>3, <1>5, <1>8, <1>9, <2>1, <2>3, <3>1, StoryPublished
  <2> QED
    BY <2>2, <2>3
<1> QED
  BY <1>10, <1>11, <1>12

LEMMA StoryNode ==
    ASSUME ZmqAssumption, TypeInv, StoryInv, NodeNext
    PROVE  StoryInv'
<1>1. ASSUME NEW t \in Tx, Accept(t) PROVE StoryInv'
  <2> DEFINE msgs == [rawtx |-> <<RawtxMsg(t)>>, hashblock |-> <<>>, sequence |-> <<Numbered("A", t, stamp)>>]
  <2>1. NodeDoes([does |-> "announce", on |-> t]) /\ Publish(msgs) /\ msgs \in Bundle
    BY <1>1, NodeBundles DEF Accept
  <2> QED
    BY <2>1, StoryDeed
<1>2. ASSUME NEW t \in Tx, Evict(t) PROVE StoryInv'
  <2> DEFINE msgs == [rawtx |-> <<>>, hashblock |-> <<>>, sequence |-> <<Numbered("R", t, stamp)>>]
  <2>1. NodeDoes([does |-> "remove", on |-> t]) /\ Publish(msgs) /\ msgs \in Bundle
    BY <1>2, NodeBundles DEF Evict
  <2> QED
    BY <2>1, StoryDeed
<1>3. ASSUME NEW b \in Block, Connect(b) PROVE StoryInv'
  <2> DEFINE msgs == [rawtx |-> <<>>, hashblock |-> <<HashblockMsg(b)>>, sequence |-> <<Numbered("C", b, stamp)>>]
  <2>1. NodeDoes([does |-> "connect", on |-> b]) /\ Publish(msgs) /\ msgs \in Bundle
    BY <1>3, NodeBundles DEF Connect
  <2> QED
    BY <2>1, StoryDeed
<1>4. ASSUME NEW b \in Block, Disconnect(b) PROVE StoryInv'
  <2> DEFINE msgs == [rawtx |-> <<>>, hashblock |-> <<>>, sequence |-> <<Numbered("D", b, stamp)>>]
  <2>1. NodeDoes([does |-> "disconnect", on |-> b]) /\ Publish(msgs) /\ msgs \in Bundle
    BY <1>4, NodeBundles DEF Disconnect
  <2> QED
    BY <2>1, StoryDeed
<1>5. ASSUME NEW k \in Subscribed, NEW msg \in MalformedOn(k), Malformed(k, msg) PROVE StoryInv'
  <2> DEFINE msgs == [j \in Topic |-> IF j = k THEN <<msg>> ELSE <<>>]
  <2>1. msgs \in Bundle /\ Publish(msgs) /\ msg \in Message /\ UNCHANGED <<nodeLog, lost, threadVars, channelVars>>
    BY <1>5, MalformedType, NodeBundles DEF Malformed
  <2>2. /\ sent' = sent /\ sequenceConnected' = sequenceConnected /\ lost' = lost
        /\ receiverOpen' = receiverOpen /\ nodeLog' = nodeLog
    BY <2>1 DEF threadVars, channelVars
  <2>3. \A j \in Topic : msgs[j] = <<>> \/ msgs[j] = <<msg>>
    OBVIOUS
  <2>4. /\ msg \notin DOMAIN RawtxOf /\ msg \notin DOMAIN LabelledOf("R", Tx)
        /\ msg \notin DOMAIN LabelledOf("D", Block)
    <3>1. \A x : /\ x \in Tx => msg # RawtxMsg(x)
                 /\ msg \notin OfLabel("R", x) /\ msg \notin OfLabel("D", x)
      BY MalformedType
    <3>2. \A label, X : msg \in DOMAIN LabelledOf(label, X) => msg \in OfLabel(label, msg.body)
      BY MessagesTell DEF OfLabel
    <3> QED
      BY <3>1, <3>2, MessagesTell
  <2> HIDE DEF msgs
  <2>5. SUFFICES ASSUME lost = 0 /\ receiverOpen
                 PROVE  /\ Images(sent', AddedTx) \o Images(wire'["rawtx"], RawtxOf)
                              = Images(nodeLog', Deeds("announce"))
                        /\ sequenceConnected =>
                             /\ Images(sent', RemovedTx) \o Images(wire'["sequence"], LabelledOf("R", Tx))
                                   = Images(nodeLog', Deeds("remove"))
                             /\ Images(sent', DisconnectedBlock) \o Images(wire'["sequence"], LabelledOf("D", Block))
                                   = Images(nodeLog', Deeds("disconnect"))
    BY <2>2 DEF StoryInv, Story
  <2>6. ASSUME NEW j \in Subscribed, NEW event, NEW of, NEW deed, Story(j, event, of, deed), msg \notin DOMAIN of
        PROVE  Images(sent', event) \o Images(wire'[j], of) = Images(nodeLog', deed)
    <3>1. j \in Topic
      BY DEF Subscribed, Topic
    <3>2. msgs[j] = <<>> \/ \E m \in Message : msgs[j] = <<m>> /\ m \notin DOMAIN of
      BY <2>1, <2>3, <2>6, <3>1
    <3> QED
      BY <2>1, <2>2, <2>6, <3>2, StoryPublished
  <2>7. Story("rawtx", AddedTx, RawtxOf, Deeds("announce")) /\ "rawtx" \in Subscribed
    BY <2>5 DEF StoryInv, Subscribed, Topic
  <2>8. sequenceConnected => /\ Story("sequence", RemovedTx, LabelledOf("R", Tx), Deeds("remove"))
                             /\ Story("sequence", DisconnectedBlock, LabelledOf("D", Block), Deeds("disconnect"))
                             /\ "sequence" \in Subscribed
    BY <2>5 DEF StoryInv, Subscribed, Topic
  <2> QED
    BY <2>4, <2>6, <2>7, <2>8
<1>6. ASSUME NEW k \in Subscribed, NEW i \in 1..(MaxNodeEvents + MaxMalformed), Lose(k, i) PROVE StoryInv'
  <2>1. lost' = lost + 1 /\ lost \in Nat
    BY <1>6, ZmqAssumption DEF Lose, TypeInv
  <2> QED
    BY <2>1 DEF StoryInv
<1>7. ASSUME NEW t \in Tx, NEW b \in Block, Mine(t, b) PROVE StoryInv'
  <2>1. NodeDoes([does |-> "announce", on |-> t]) /\ Publish(RawtxOnly(t)) /\ RawtxOnly(t) \in Bundle
    BY <1>7, NodeBundles DEF Mine
  <2> QED
    BY <2>1, StoryDeed DEF RawtxOnly
<1>8. ASSUME NEW t \in Tx, Unmine(t) PROVE StoryInv'
  <2>1. NodeDoes([does |-> "announce", on |-> t]) /\ Publish(RawtxOnly(t)) /\ RawtxOnly(t) \in Bundle
    BY <1>8, NodeBundles DEF Unmine
  <2> QED
    BY <2>1, StoryDeed DEF RawtxOnly
<1> QED
  BY <1>1, <1>2, <1>3, <1>4, <1>5, <1>6, <1>7, <1>8 DEF NodeNext

\* The event for message m of topic k has its place in the story of topic j.
Tells(j, k, m, event, of, e) ==
    IF j = k THEN /\ m \in DOMAIN of <=> e \in DOMAIN event
                  /\ e \in DOMAIN event => event[e] = of[m]
             ELSE e \notin DOMAIN event

\* Message m of topic k is not of that story.
Silent(j, k, m, of) == j = k => m \notin DOMAIN of

LEMMA StoryReadOrElsewhere ==
    ASSUME TypeInv, NEW k \in Topic, wire[k] # <<>>, wire'[k] = RemoveAt(wire[k], 1),
           \A j \in Topic \ {k} : wire'[j] = wire[j], nodeLog' = nodeLog,
           NEW j \in Topic, NEW event, NEW of, NEW deed, Story(j, event, of, deed),
           \/ sent' = sent /\ Silent(j, k, wire[k][1], of)
           \/ \E e \in Event : sent' = Append(sent, e) /\ Tells(j, k, wire[k][1], event, of, e)
    PROVE  Images(sent', event) \o Images(wire'[j], of) = Images(nodeLog', deed)
<1>1. CASE j = k
  <2>1. \/ wire[k][1] \notin DOMAIN of /\ sent' = sent
        \/ \E e \in Event : /\ sent' = Append(sent, e)
                            /\ wire[k][1] \in DOMAIN of <=> e \in DOMAIN event
                            /\ e \in DOMAIN event => event[e] = of[wire[k][1]]
    BY <1>1 DEF Tells, Silent
  <2>2. Story(k, event, of, deed)
    BY <1>1
  <2>3. Images(sent', event) \o Images(wire'[k], of) = Images(nodeLog', deed)
    BY <2>1, <2>2, StoryRead
  <2> QED
    BY <1>1, <2>3
<1>2. CASE j # k
  <2>1. sent' = sent \/ \E e \in Event : sent' = Append(sent, e) /\ e \notin DOMAIN event
    BY <1>2 DEF Tells
  <2>2. wire'[j] = wire[j]
    BY <1>2
  <2> QED
    BY <2>1, <2>2, StoryElsewhere
<1> QED
  BY <1>1, <1>2

\* What is read is told, each kind from its topic only.
LEMMA StoryThread ==
    ASSUME ZmqAssumption, TypeInv, StoryInv, RecvRawtx \/ RecvHashblock \/ RecvSequence
    PROVE  StoryInv'
<1> DEFINE AllSilent(k, m) == /\ Silent("rawtx", k, m, RawtxOf)
                              /\ Silent("sequence", k, m, LabelledOf("R", Tx))
                              /\ Silent("sequence", k, m, LabelledOf("D", Block))
           AllTell(k, m, e) == /\ Tells("rawtx", k, m, AddedTx, RawtxOf, e)
                               /\ Tells("sequence", k, m, RemovedTx, LabelledOf("R", Tx), e)
                               /\ Tells("sequence", k, m, DisconnectedBlock, LabelledOf("D", Block), e)
<1>1. ASSUME NEW k \in Topic, k \in ready, Consume(k), UNCHANGED <<nodeVars, sequenceConnected>>,
             \/ Skip(k) /\ AllSilent(k, wire[k][1])
             \/ \E e \in Event : Send(k, e) /\ AllTell(k, wire[k][1], e)
      PROVE  StoryInv'
  <2> DEFINE m == wire[k][1]
  <2>1. /\ wire[k] # <<>> /\ wire'[k] = RemoveAt(wire[k], 1)
        /\ \A j \in Topic \ {k} : wire'[j] = wire[j]
    BY <1>1, ConsumeWire
  <2>2. /\ nodeLog' = nodeLog /\ lost' = lost /\ sequenceConnected' = sequenceConnected
        /\ receiverOpen' = receiverOpen
    BY <1>1 DEF nodeVars, Skip, Send, channelVars
  <2>3. SUFFICES ASSUME lost = 0 /\ receiverOpen
                 PROVE  /\ Images(sent', AddedTx) \o Images(wire'["rawtx"], RawtxOf)
                              = Images(nodeLog', Deeds("announce"))
                        /\ sequenceConnected =>
                             /\ Images(sent', RemovedTx) \o Images(wire'["sequence"], LabelledOf("R", Tx))
                                   = Images(nodeLog', Deeds("remove"))
                             /\ Images(sent', DisconnectedBlock) \o Images(wire'["sequence"], LabelledOf("D", Block))
                                   = Images(nodeLog', Deeds("disconnect"))
    BY <2>2 DEF StoryInv, Story
  <2>4. \/ sent' = sent /\ AllSilent(k, m)
        \/ \E e \in Event : sent' = Append(sent, e) /\ AllTell(k, m, e)
    <3>1. Skip(k) => sent' = sent
      BY DEF Skip, channelVars
    <3>2. \A e : Send(k, e) => sent' = Append(sent, e)
      BY <2>3 DEF Send
    <3> HIDE DEF AllSilent, AllTell
    <3> QED
      BY <1>1, <3>1, <3>2
  <2>5. Story("rawtx", AddedTx, RawtxOf, Deeds("announce")) /\ "rawtx" \in Topic /\ "sequence" \in Topic
    BY <2>3 DEF StoryInv, Topic
  <2>6. sequenceConnected => /\ Story("sequence", RemovedTx, LabelledOf("R", Tx), Deeds("remove"))
                             /\ Story("sequence", DisconnectedBlock, LabelledOf("D", Block), Deeds("disconnect"))
    BY <2>3 DEF StoryInv
  <2>7. Images(sent', AddedTx) \o Images(wire'["rawtx"], RawtxOf) = Images(nodeLog', Deeds("announce"))
    <3>1. \/ sent' = sent /\ Silent("rawtx", k, m, RawtxOf)
          \/ \E e \in Event : sent' = Append(sent, e) /\ Tells("rawtx", k, m, AddedTx, RawtxOf, e)
      BY <2>4
    <3> QED
      BY <2>1, <2>2, <2>5, <3>1, StoryReadOrElsewhere
  <2>8. ASSUME sequenceConnected
        PROVE  Images(sent', RemovedTx) \o Images(wire'["sequence"], LabelledOf("R", Tx))
                 = Images(nodeLog', Deeds("remove"))
    <3>1. \/ sent' = sent /\ Silent("sequence", k, m, LabelledOf("R", Tx))
          \/ \E e \in Event : /\ sent' = Append(sent, e)
                              /\ Tells("sequence", k, m, RemovedTx, LabelledOf("R", Tx), e)
      BY <2>4
    <3> QED
      BY <2>1, <2>2, <2>5, <2>6, <2>8, <3>1, StoryReadOrElsewhere
  <2>9. ASSUME sequenceConnected
        PROVE  Images(sent', DisconnectedBlock) \o Images(wire'["sequence"], LabelledOf("D", Block))
                 = Images(nodeLog', Deeds("disconnect"))
    <3>1. \/ sent' = sent /\ Silent("sequence", k, m, LabelledOf("D", Block))
          \/ \E e \in Event : /\ sent' = Append(sent, e)
                              /\ Tells("sequence", k, m, DisconnectedBlock, LabelledOf("D", Block), e)
      BY <2>4
    <3> QED
      BY <2>1, <2>2, <2>5, <2>6, <2>9, <3>1, StoryReadOrElsewhere
  <2> QED
    BY <2>7, <2>8, <2>9
<1>2. CASE RecvRawtx
  <2> DEFINE m == wire["rawtx"][1]
  <2>1. "rawtx" \in Topic /\ "rawtx" \in ready /\ Consume("rawtx") /\ UNCHANGED <<nodeVars, sequenceConnected>>
    BY <1>2 DEF RecvRawtx, Topic
  <2>2. m \in Message /\ Head(wire["rawtx"]) = m
    BY <2>1, ConsumeWire
  <2>3. IF m.frames = "rawtx" THEN Send("rawtx", TxAdded(m.body)) ELSE Skip("rawtx")
    BY <1>2, <2>2 DEF RecvRawtx
  <2> HIDE DEF m
  <2>4. CASE m.frames = "rawtx"
    <3>1. TxAdded(m.body) \in Event /\ m = RawtxMsg(m.body)
      BY <2>2, <2>4, EventTypes, Kinds
    <3>2. m \in DOMAIN RawtxOf <=> m.body \in Tx
      <4>1. \A t : m = RawtxMsg(t) => m.body = t
        BY DEF RawtxMsg
      <4> QED
        BY <3>1, <4>1, MessagesTell
    <3>3. m.body \in Tx => RawtxOf[m] = m.body
      BY <3>1, MessagesTell
    <3>4. AllTell("rawtx", m, TxAdded(m.body))
      BY <3>2, <3>3, EventsTell DEF Tells
    <3> HIDE DEF AllTell
    <3> QED
      BY <1>1, <2>1, <2>3, <2>4, <3>1, <3>4 DEF m
  <2>5. CASE m.frames # "rawtx"
    <3>1. m \notin DOMAIN RawtxOf
      <4>1. \A t : m = RawtxMsg(t) => m.frames = "rawtx"
        BY DEF RawtxMsg
      <4> QED
        BY <2>5, <4>1, MessagesTell
    <3>2. AllSilent("rawtx", m)
      BY <3>1 DEF Silent
    <3> HIDE DEF AllSilent
    <3> QED
      BY <1>1, <2>1, <2>3, <2>5, <3>2 DEF m
  <2> QED
    BY <2>4, <2>5
<1>3. CASE RecvHashblock
  <2> DEFINE m == wire["hashblock"][1]
  <2>1. "hashblock" \in Topic /\ "hashblock" \in ready /\ Consume("hashblock")
        /\ UNCHANGED <<nodeVars, sequenceConnected>>
    BY <1>3 DEF RecvHashblock, Topic
  <2>2. m \in Message /\ Head(wire["hashblock"]) = m
    BY <2>1, ConsumeWire
  <2>3. IF m.frames = "hashblock" THEN Send("hashblock", BlockConnected(m.body)) ELSE Skip("hashblock")
    BY <1>3, <2>2 DEF RecvHashblock
  <2> HIDE DEF m
  <2>4. AllSilent("hashblock", m) /\ AllTell("hashblock", m, BlockConnected(m.body))
    BY EventsTell DEF Silent, Tells
  <2>5. m.frames = "hashblock" => BlockConnected(m.body) \in Event
    BY <2>2, EventTypes
  <2> HIDE DEF AllSilent, AllTell
  <2> QED
    BY <1>1, <2>1, <2>3, <2>4, <2>5 DEF m
<1>4. CASE RecvSequence
  <2> DEFINE m == wire["sequence"][1]
  <2>1. "sequence" \in Topic /\ "sequence" \in ready /\ Consume("sequence")
        /\ UNCHANGED <<nodeVars, sequenceConnected>>
    BY <1>4 DEF RecvSequence, Topic
  <2>2. m \in Message /\ Head(wire["sequence"]) = m
    BY <2>1, ConsumeWire
  <2>3. IF m.frames = "sequence" THEN Dispatch(m) ELSE Skip("sequence")
    BY <1>4, <2>2 DEF RecvSequence
  <2> HIDE DEF m
  <2>4. /\ m \in DOMAIN LabelledOf("R", Tx) <=> m \in SeqMsg /\ m.label = "R" /\ m.body \in Tx
        /\ m \in DOMAIN LabelledOf("D", Block) <=> m \in SeqMsg /\ m.label = "D" /\ m.body \in Block
        /\ m \in DOMAIN LabelledOf("R", Tx) => LabelledOf("R", Tx)[m] = m.body
        /\ m \in DOMAIN LabelledOf("D", Block) => LabelledOf("D", Block)[m] = m.body
    BY MessagesTell
  <2>5. m \in SeqMsg <=> m.frames = "sequence"
    BY <2>2, Kinds DEF SeqMsg
  <2>6. CASE m.frames = "sequence" /\ m.label = "R"
    <3>1. Send("sequence", TxRemoved(m.body)) /\ TxRemoved(m.body) \in Event
      BY <2>2, <2>3, <2>6, EventTypes DEF Dispatch
    <3>2. AllTell("sequence", m, TxRemoved(m.body))
      BY <2>4, <2>5, <2>6, EventsTell DEF Tells
    <3> HIDE DEF AllTell
    <3> QED
      BY <1>1, <2>1, <3>1, <3>2 DEF m
  <2>7. CASE m.frames = "sequence" /\ m.label = "C"
    <3>1. Send("sequence", BlockConnected(m.body)) /\ BlockConnected(m.body) \in Event
      BY <2>2, <2>3, <2>7, EventTypes DEF Dispatch
    <3>2. AllTell("sequence", m, BlockConnected(m.body))
      BY <2>4, <2>5, <2>7, EventsTell DEF Tells
    <3> HIDE DEF AllTell
    <3> QED
      BY <1>1, <2>1, <3>1, <3>2 DEF m
  <2>8. CASE m.frames = "sequence" /\ m.label = "D"
    <3>1. Send("sequence", BlockDisconnected(m.body)) /\ BlockDisconnected(m.body) \in Event
      BY <2>2, <2>3, <2>8, EventTypes DEF Dispatch
    <3>2. AllTell("sequence", m, BlockDisconnected(m.body))
      BY <2>4, <2>5, <2>8, EventsTell DEF Tells
    <3> HIDE DEF AllTell
    <3> QED
      BY <1>1, <2>1, <3>1, <3>2 DEF m
  <2>9. CASE ~(m.frames = "sequence" /\ m.label \in {"R", "C", "D"})
    <3>1. Skip("sequence")
      BY <2>3, <2>9 DEF Dispatch
    <3>2. AllSilent("sequence", m)
      BY <2>4, <2>5, <2>9 DEF Silent
    <3> HIDE DEF AllSilent
    <3> QED
      BY <1>1, <2>1, <3>1, <3>2 DEF m
  <2> QED
    BY <2>6, <2>7, <2>8, <2>9
<1> QED
  BY <1>2, <1>3, <1>4

LEMMA InitStory == ZmqAssumption /\ Init => StoryInv
<1> SUFFICES ASSUME ZmqAssumption, Init PROVE StoryInv
  OBVIOUS
<1>1. sent = <<>> /\ nodeLog = <<>> /\ wire["rawtx"] = <<>> /\ wire["sequence"] = <<>>
  BY DEF Init, Topic
<1>2. \A f : Images(<<>>, f) = <<>>
  BY ImagesEmpty
<1>3. <<>> \o <<>> = <<>>
  OBVIOUS
<1> QED
  BY <1>1, <1>2, <1>3 DEF StoryInv, Story

LEMMA NextStory ==
    ASSUME ZmqAssumption, TypeInv, StoryInv, [Next]_vars
    PROVE  StoryInv'
<1>1. CASE NodeNext
  BY <1>1, StoryNode
<1>2. CASE RecvRawtx \/ RecvHashblock \/ RecvSequence
  BY <1>2, StoryThread
<1>3. CASE CloseReceiver
  BY <1>3 DEF CloseReceiver, StoryInv
<1>4. CASE (\E topics \in SUBSET Subscribed : Poll(topics)) \/ UNCHANGED vars
  BY <1>4 DEF Poll, vars, nodeVars, threadVars, channelVars, StoryInv, Story
<1> QED
  BY <1>1, <1>2, <1>3, <1>4 DEF Next, ThreadNext

\* A topic with nothing on it tells nothing more.
LEMMA StoryMeansComplete ==
    ASSUME TypeInv, StoryInv
    PROVE  CompleteWhenDrained
<1> SUFFICES ASSUME \A k \in Subscribed : wire[k] = <<>>, receiverOpen, lost = 0
             PROVE  /\ Images(sent, AddedTx) = Images(nodeLog, Deeds("announce"))
                    /\ sequenceConnected =>
                         /\ Images(sent, RemovedTx) = Images(nodeLog, Deeds("remove"))
                         /\ Images(sent, DisconnectedBlock) = Images(nodeLog, Deeds("disconnect"))
  BY DEF CompleteWhenDrained
<1>1. ASSUME NEW k \in Subscribed, NEW event, NEW of, NEW deed, Story(k, event, of, deed)
      PROVE  Images(sent, event) = Images(nodeLog, deed)
  <2>1. k \in Topic /\ wire[k] = <<>>
    BY DEF Subscribed, Topic
  <2>2. Images(sent, event) \o <<>> = Images(nodeLog, deed)
    BY <1>1, <2>1, ImagesEmpty DEF Story
  <2>3. PICK T : Images(sent, event) \in Seq(T)
    BY <2>1, StoryTypes
  <2> QED
    BY <2>2, <2>3, ConcatEmptySeq
<1>2. "rawtx" \in Subscribed /\ (sequenceConnected => "sequence" \in Subscribed)
  BY DEF Subscribed, Topic
<1> QED
  BY <1>1, <1>2 DEF StoryInv
-----------------------------------------------------------------------------
(* The theorems of the subscriber. *)

(* Every variable of the thread keeps its type, with any number of         *)
(* transactions, blocks, losses and malformed messages: the thread reads   *)
(* only topics on which something is pending.                              *)
THEOREM ZmqTypeCorrect == Spec => []TypeOK
<1>1. Init => TypeInv
  BY InitTypes, ZmqAssumption
<1>2. TypeInv /\ [Next]_vars => TypeInv'
  BY NextTypes, ZmqAssumption
<1>3. TypeInv => TypeOK
  BY DEF TypeInv
<1> QED
  BY <1>1, <1>2, <1>3, PTL DEF Spec

(* ZmqSubscriber::run with a counter of any size: a warning for each gap,  *)
(* and one too many each time the counter wraps, if fewer messages are     *)
(* missing altogether than the counter has values.                         *)
THEOREM GapsCorrect ==
    ASSUME MaxLost + MaxMalformed < CounterMod
    PROVE  Spec => []GapWarningsExact
<1> DEFINE IInv == TypeInv /\ SpacingInv /\ GapWarningsExact
<1>1. Init => IInv
  <2>1. Init => GapWarningsExact
    BY DEF Init, GapWarningsExact
  <2> QED
    BY <2>1, InitTypes, InitSpacing, ZmqAssumption
<1>2. IInv /\ [Next]_vars => IInv'
  <2> SUFFICES ASSUME IInv, [Next]_vars PROVE IInv'
    OBVIOUS
  <2>1. TypeInv'
    BY NextTypes, ZmqAssumption
  <2> QED
    BY <2>1, NextSpacing, NextWarning, ZmqAssumption
<1>3. IInv => GapWarningsExact
  OBVIOUS
<1> HIDE DEF IInv
<1> QED
  BY <1>1, <1>2, <1>3, PTL DEF Spec

(* The channel: what the thread has announced, together with what is still *)
(* on the wire, is no more than the node did.                              *)
THEOREM NothingTwiceCorrect == Spec => []NothingTwice
<1> DEFINE IInv == TypeInv /\ BudgetInv
<1>1. Init => IInv
  BY InitTypes, InitBudget, ZmqAssumption
<1>2. IInv /\ [Next]_vars => IInv'
  BY NextTypes, NextBudget, ZmqAssumption
<1>3. IInv => NothingTwice
  BY BudgetMeansNothingTwice
<1> HIDE DEF IInv
<1> QED
  BY <1>1, <1>2, <1>3, PTL DEF Spec

(* The channel: while nothing is lost, the subscriber leaves nothing out   *)
(* and changes no order: what it has announced and what is still on the    *)
(* wire are the node's deeds, for any number of them, of malformed         *)
(* messages, and any choice of the topics that poll finds ready.           *)
THEOREM CompleteCorrect == Spec => []CompleteWhenDrained
<1> DEFINE IInv == TypeInv /\ StoryInv
<1>1. Init => IInv
  BY InitTypes, InitStory, ZmqAssumption
<1>2. IInv /\ [Next]_vars => IInv'
  BY NextTypes, NextStory, ZmqAssumption
<1>3. IInv => CompleteWhenDrained
  BY StoryMeansComplete
<1> HIDE DEF IInv
<1> QED
  BY <1>1, <1>2, <1>3, PTL DEF Spec
-----------------------------------------------------------------------------
(* The credentials of the RPC client, for a bitcoin.conf of any length. *)

\* What has been read: user and pass are lines of their kind before the next
\* one, and 0 only if there is none.
ReadInv ==
    /\ conf \in Seq(Line)
    /\ line \in 1..(Len(conf) + 1)
    /\ user \in 0..(line - 1) /\ pass \in 0..(line - 1)
    /\ user # 0 => conf[user] = "rpcuser"
    /\ pass # 0 => conf[pass] = "rpcpassword"
    /\ user = 0 => \A i \in 1..(line - 1) : conf[i] # "rpcuser"
    /\ pass = 0 => \A i \in 1..(line - 1) : conf[i] # "rpcpassword"

CredentialsInv == ReadInv /\ CredentialsBeforePort

(* At the start nothing is read, and there is no client.                   *)
LEMMA InitRead == ClientInit => CredentialsInv
<1> SUFFICES ASSUME ClientInit PROVE CredentialsInv
    OBVIOUS
<1>1. PICK n \in 0..MaxLines : conf \in [1..n -> Line]
    BY DEF ClientInit
<1>2. n \in Nat
    BY <1>1
<1>3. conf \in Seq(Line) /\ Len(conf) = n
    BY <1>1, <1>2
<1>4. line = 1 /\ user = 0 /\ pass = 0 /\ pc = "config"
    BY DEF ClientInit
<1>5. ReadInv
    BY <1>2, <1>3, <1>4 DEF ReadInv
<1> QED
    BY <1>4, <1>5 DEF CredentialsInv, CredentialsBeforePort

(* Every step reads on, or makes a client from what was read.              *)
LEMMA NextRead == CredentialsInv /\ [ClientNext]_clientVars => CredentialsInv'
<1> SUFFICES ASSUME CredentialsInv, [ClientNext]_clientVars PROVE CredentialsInv'
    OBVIOUS
<1> USE DEF CredentialsInv, ReadInv
<1>1. CASE LoadConfig
    BY <1>1 DEF LoadConfig, environment, CredentialsBeforePort
<1>2. CASE UseConfig
    BY <1>2 DEF UseConfig, environment, Configured, CredentialsBeforePort, ConfDecides
<1>3. CASE UseCookie
    BY <1>3 DEF UseCookie, environment, CredentialsBeforePort, ConfDecides
<1>4. CASE OpenConf
    BY <1>4 DEF OpenConf, environment, CredentialsBeforePort
<1>5. CASE ReadLine
    <2> USE <1>5 DEF ReadLine, environment
    <2>1. conf' = conf /\ line' = line + 1 /\ line \in 1..Len(conf) /\ pc' = "conf"
        OBVIOUS
    <2>2. user' \in 0..(line' - 1) /\ pass' \in 0..(line' - 1)
        OBVIOUS
    <2>3. /\ user' # 0 => conf[user'] = "rpcuser"
          /\ pass' # 0 => conf[pass'] = "rpcpassword"
        OBVIOUS
    <2>4. user' = 0 => \A i \in 1..line : conf[i] # "rpcuser"
        OBVIOUS
    <2>5. pass' = 0 => \A i \in 1..line : conf[i] # "rpcpassword"
        OBVIOUS
    <2> QED
        BY <2>1, <2>2, <2>3, <2>4, <2>5 DEF CredentialsBeforePort
<1>6. CASE ReadPort
    <2> USE <1>6 DEF ReadPort, environment
    <2>1. ReadInv'
        OBVIOUS
    <2>2. ASSUME PortLast PROVE UsesConf'
        <3>1. PICK u \in 1..(line - 1), w \in 1..(line - 1) : conf[u] = "rpcuser" /\ conf[w] = "rpcpassword"
            BY <2>2 DEF PortLast
        <3>2. user # 0 /\ pass # 0
            BY <3>1
        <3>3. client'.user = ConfLine(user) /\ client'.pass = ConfLine(pass)
            BY <3>2 DEF New
        <3>4. user \in DOMAIN conf /\ pass \in DOMAIN conf
            BY <3>2
        <3> QED
            BY <3>2, <3>3, <3>4 DEF UsesConf, ConfLine
    <2>3. PortLast' <=> PortLast
        BY DEF PortLast
    <2> QED
        BY <2>1, <2>2, <2>3 DEF CredentialsBeforePort
<1>7. CASE EndOfConf
    <2> USE <1>7 DEF EndOfConf, environment
    <2>1. ReadInv'
        OBVIOUS
    <2>2. ASSUME ConfDecides PROVE UsesConf'
        <3>1. PICK u \in DOMAIN conf, w \in DOMAIN conf : conf[u] = "rpcuser" /\ conf[w] = "rpcpassword"
            BY <2>2 DEF ConfDecides
        <3>2. u \in 1..(line - 1) /\ w \in 1..(line - 1)
            OBVIOUS
        <3>3. user # 0 /\ pass # 0
            BY <3>1, <3>2
        <3>4. client'.user = ConfLine(user) /\ client'.pass = ConfLine(pass)
            BY <3>3 DEF New
        <3>5. user \in DOMAIN conf /\ pass \in DOMAIN conf
            BY <3>3
        <3> QED
            BY <3>3, <3>4, <3>5 DEF UsesConf, ConfLine
    <2>3. ConfDecides' <=> ConfDecides
        BY DEF ConfDecides, Configured
    <2> QED
        BY <2>1, <2>2, <2>3 DEF CredentialsBeforePort
<1>8. CASE UNCHANGED clientVars
    BY <1>8 DEF clientVars, environment, CredentialsBeforePort, ConfDecides, Configured, PortLast, UsesConf
<1> QED
    BY <1>1, <1>2, <1>3, <1>4, <1>5, <1>6, <1>7, <1>8 DEF ClientNext

(* from_config_with_defaults: credentials in bitcoin.conf that come before *)
(* each port are the client's, whatever else the file holds.               *)
THEOREM CredentialsCorrect == ClientSpec => []CredentialsBeforePort
<1>1. ClientSpec => []CredentialsInv
    BY InitRead, NextRead, PTL DEF ClientSpec
<1> QED
    BY <1>1, PTL DEF CredentialsInv
==============================================================================
