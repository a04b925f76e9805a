----------------------------- MODULE UiFeedProofs -----------------------------
(***************************************************************************)
(* Theorems about UiFeed, for every number of transactions, rows, failures *)
(* and every size of panel and history: the types, the summary of the      *)
(* history and its age.                                                    *)
(***************************************************************************)
EXTENDS UiFeed, SelectionProofs

Counts == [total : Nat, hour : Nat, day : Nat]

(* TypeOK with the types of the other variables. *)
TypeInv ==
    /\ TypeOK
    /\ senderOpen \in BOOLEAN /\ now \in Nat
    /\ txSinceRefresh \in Nat /\ txCount \in Nat
    /\ found \in [total : Nat, hour : Nat, day : Nat, to : Nat]
    /\ signalStats \in Counts
    /\ failed \in BOOLEAN /\ failures \in Nat

-----------------------------------------------------------------------------
(* Facts about rows, queries and the panel. *)

Rows(t, c) == [score : Nat, at : 0..t, seen : 0..c]

\* The order of the queries.
LEMMA Order ==
    /\ DOMAIN NextQuery = {"recent", "count", "hour", "day"}
    /\ NextQuery["recent"] = "count"
    /\ NextQuery["count"] = "hour"
    /\ NextQuery["hour"] = "day"
    /\ NextQuery["day"] = "select"
BY DEF NextQuery

\* What the type invariant says of the table and of what was told.
LEMMA Typed ==
    ASSUME TypeInv
    PROVE  /\ DOMAIN told = 1..Len(told) /\ Len(told) \in Nat
           /\ \A i \in DOMAIN told : told[i] \in Nat
           /\ localTxCount \in Nat
           /\ DOMAIN signals = 1..Len(signals) /\ Len(signals) \in Nat
           /\ signals \in Seq(Rows(now, localTxCount))
           /\ \A r \in DOMAIN signals :
                 /\ signals[r].score \in Nat
                 /\ signals[r].at \in Nat
                 /\ signals[r].seen \in Nat
<1>1. DOMAIN told = 1..Len(told) /\ Len(told) \in Nat /\ \A i \in DOMAIN told : told[i] \in Nat
  BY DEF TypeInv, TypeOK
<1>2. localTxCount \in Nat
  BY DEF TypeInv, TypeOK
<1>3. signals \in Seq(Rows(now, localTxCount))
  BY DEF TypeInv, TypeOK, Rows
<1>4. DOMAIN signals = 1..Len(signals) /\ Len(signals) \in Nat
  BY <1>3
<1>5. ASSUME NEW r \in DOMAIN signals
      PROVE  signals[r] \in Rows(now, localTxCount)
  BY <1>3, <1>4, ElementOfSeq
<1>6. ASSUME NEW r \in DOMAIN signals
      PROVE  signals[r].score \in Nat /\ signals[r].at \in Nat /\ signals[r].seen \in Nat
  BY <1>5 DEF Rows
<1> QED
  BY <1>1, <1>2, <1>3, <1>4, <1>6

\* The table stays one when time passes or more is received.
LEMMA TableStays ==
    ASSUME TypeInv, NEW u \in Nat, NEW d \in Nat, now <= u, localTxCount <= d
    PROVE  signals \in Seq(Rows(u, d))
<1>1. /\ now \in Nat /\ localTxCount \in Nat
      /\ signals \in Seq(Rows(now, localTxCount))
  BY Typed DEF TypeInv
<1>2. Rows(now, localTxCount) \subseteq Rows(u, d)
  BY <1>1 DEF Rows
<1> QED
  BY <1>1, <1>2, SeqMonotonic

\* A batch is added behind the rows that are there.
LEMMA RowsKept ==
    ASSUME TypeInv, UiAssumption, NEW batch \in Batches, StoreBatch(batch)
    PROVE  /\ DOMAIN signals \subseteq DOMAIN signals'
           /\ \A r \in DOMAIN signals : signals'[r] = signals[r]
           /\ \A r \in DOMAIN signals' \ DOMAIN signals : signals'[r].seen = localTxCount
           /\ signals' \in Seq(Rows(now, localTxCount))
<1> DEFINE new == [i \in DOMAIN batch |-> Row(batch[i], localTxCount)]
           R == Rows(now, localTxCount)
<1>1. PICK n \in 1..MaxRows : batch \in [1..n -> {score \in Score : score > PersistMin}]
  BY DEF Batches
<1>2. n \in Nat /\ DOMAIN batch = 1..n /\ now \in Nat /\ localTxCount \in Nat
  BY <1>1 DEF UiAssumption, TypeInv, TypeOK
<1>3. \A i \in 1..n : batch[i] \in Nat
  BY <1>1 DEF UiAssumption
<1>4. \A i \in 1..n : Row(batch[i], localTxCount) \in R /\ Row(batch[i], localTxCount).seen = localTxCount
  BY <1>2, <1>3 DEF Row, Rows
<1>5. new \in Seq(R) /\ \A i \in 1..Len(new) : new[i].seen = localTxCount
  BY <1>2, <1>4, SeqDef
<1>6. signals \in Seq(R) /\ signals' = signals \o new
  BY Typed DEF StoreBatch
<1>7. /\ signals' \in Seq(R) /\ Len(signals') = Len(signals) + Len(new)
      /\ \A i \in 1..Len(signals) + Len(new) :
            signals'[i] = IF i <= Len(signals) THEN signals[i] ELSE new[i - Len(signals)]
  <2> HIDE DEF new, R
  <2> QED
    BY <1>5, <1>6, ConcatProperties
<1>8. /\ DOMAIN signals = 1..Len(signals) /\ Len(signals) \in Nat /\ Len(new) \in Nat
      /\ DOMAIN signals' = 1..(Len(signals) + Len(new))
  <2> HIDE DEF new, R
  <2> QED
    BY <1>5, <1>6, <1>7
<1> QED
  <2> HIDE DEF new, R
  <2>1. ASSUME NEW r \in DOMAIN signals
        PROVE  r \in DOMAIN signals' /\ signals'[r] = signals[r]
    BY <1>7, <1>8
  <2>2. ASSUME NEW r \in DOMAIN signals' \ DOMAIN signals
        PROVE  signals'[r].seen = localTxCount
    <3>1. r - Len(signals) \in 1..Len(new) /\ signals'[r] = new[r - Len(signals)]
      BY <1>7, <1>8
    <3> QED
      BY <1>5, <3>1
  <2> QED
    BY <1>7, <2>1, <2>2 DEF R

\* What the queries record of a failure.
LEMMA FailsType ==
    ASSUME TypeInv, Fails
    PROVE  failed' \in BOOLEAN /\ failures' \in Nat
<1>1. failed' \in BOOLEAN
  BY Zenon DEF Fails
<1>2. failures' \in Nat
  BY DEF Fails, TypeInv
<1> QED
  BY <1>1, <1>2

\* A set of rows is finite and has no more than the table.
LEMMA RowsFinite ==
    ASSUME TypeInv, NEW rows, rows \subseteq DOMAIN signals
    PROVE  IsFiniteSet(rows) /\ Cardinality(rows) \in Nat /\ Cardinality(rows) <= Len(signals)
<1>1. IsFiniteSet(1..Len(signals)) /\ Cardinality(1..Len(signals)) = Len(signals)
  <2> DEFINE n == Len(signals)
  <2>1. n \in Int /\ 1 \in Int /\ n >= 0
    BY Typed
  <2> HIDE DEF n
  <2>2. IsFiniteSet(1..n) /\ Cardinality(1..n) = IF 1 > n THEN 0 ELSE n - 1 + 1
    BY <2>1, FS_Interval
  <2>3. Cardinality(1..n) = n
    BY <2>1, <2>2
  <2> QED
    BY <2>2, <2>3 DEF n
<1>2. IsFiniteSet(rows) /\ Cardinality(rows) <= Len(signals)
  BY <1>1, Typed, FS_Subset
<1> QED
  BY <1>2, FS_CardinalityType

\* What get_signals_above_score returns: the best rows, at most as many as
\* asked for, and a row it leaves out is outranked by a full list.
LEMMA RecentRows ==
    ASSUME TypeInv, UiAssumption, NEW top \in Recent
    PROVE  /\ top \subseteq DOMAIN signals
           /\ Cardinality(top) <= MaxHistory
           /\ \A r \in DOMAIN signals :
                 RowScore(r) >= HistoryMin =>
                    \/ r \in top
                    \/ /\ Cardinality(top) = MaxHistory
                       /\ \A h \in top : RowScore(h) >= RowScore(r)
<1> DEFINE rows == {r \in DOMAIN signals : RowScore(r) >= HistoryMin}
           Full == Cardinality(top) = MaxHistory
<1>1. /\ top \subseteq rows
      /\ Cardinality(top) = IF Cardinality(rows) < MaxHistory THEN Cardinality(rows)
                                                              ELSE MaxHistory
      /\ \A r \in top, s \in rows \ top : RowScore(r) >= RowScore(s)
  BY DEF Recent
<1>2. IsFiniteSet(rows) /\ Cardinality(rows) \in Nat
  BY RowsFinite
<1>3. MaxHistory \in Nat
  BY DEF UiAssumption
<1>4. top = rows \/ Full
  <2>1. CASE Cardinality(rows) < MaxHistory
    <3>1. Cardinality(top) = Cardinality(rows)
      BY <1>1, <2>1
    <3> HIDE DEF rows
    <3> QED
      BY <1>1, <1>2, <3>1, FS_Subset
  <2>2. CASE ~(Cardinality(rows) < MaxHistory)
    BY <1>1, <2>2
  <2> QED
    BY <2>1, <2>2
<1>5. Cardinality(top) <= MaxHistory
  <2> HIDE DEF rows
  <2> QED
    BY <1>1, <1>2, <1>3
<1>6. ASSUME NEW r \in DOMAIN signals, RowScore(r) >= HistoryMin, r \notin top
      PROVE  Full /\ \A h \in top : RowScore(h) >= RowScore(r)
  <2>1. r \in rows \ top
    BY <1>6
  <2> QED
    BY <1>1, <1>4, <2>1
<1> QED
  BY <1>1, <1>5, <1>6

\* A count of rows is a number.
LEMMA InRangeType ==
    ASSUME TypeInv, NEW span, NEW to
    PROVE  InRange(span, to) \in Nat
BY RowsFinite DEF InRange

\* A longer window holds no fewer rows.
LEMMA LongerWindow ==
    ASSUME TypeInv, NEW a \in Nat, NEW b \in Nat, a <= b, NEW to \in Nat
    PROVE  InRange(a, to) <= InRange(b, to)
<1> DEFINE Within(span) == {r \in DOMAIN signals : signals[r].at + span >= to /\ signals[r].at <= to}
<1>1. Within(a) \subseteq Within(b)
  BY Typed
<1>2. IsFiniteSet(Within(b))
  BY RowsFinite
<1>3. Cardinality(Within(a)) <= Cardinality(Within(b))
  <2> HIDE DEF Within
  <2> QED
    BY <1>1, <1>2, FS_Subset
<1> QED
  BY <1>3 DEF InRange

\* The panel keeps its bound.
LEMMA LastAlertsType ==
    ASSUME UiAssumption, NEW S, NEW alerts \in Seq(S)
    PROVE  LastAlerts(alerts) \in Seq(S) /\ Len(LastAlerts(alerts)) <= MaxPanel
<1>1. MaxPanel \in Nat \ {0} /\ Len(alerts) \in Nat
  BY DEF UiAssumption
<1>2. CASE Len(alerts) > MaxPanel
  <2> DEFINE from == Len(alerts) - MaxPanel + 1
  <2>1. from \in 1..Len(alerts) /\ from \in Int /\ Len(alerts) \in Int
    BY <1>1, <1>2
  <2>2. \A i \in from..Len(alerts) : alerts[i] \in S
    BY <2>1, ElementOfSeq
  <2>3. /\ SubSeq(alerts, from, Len(alerts)) \in Seq(S)
        /\ Len(SubSeq(alerts, from, Len(alerts)))
              = IF from <= Len(alerts) THEN Len(alerts) - from + 1 ELSE 0
    <3> HIDE DEF from
    <3> QED
      BY <2>1, <2>2, SubSeqProperties
  <2> QED
    BY <1>1, <1>2, <2>3 DEF LastAlerts
<1>3. CASE ~(Len(alerts) > MaxPanel)
  BY <1>1, <1>3 DEF LastAlerts
<1> QED
  BY <1>2, <1>3

-----------------------------------------------------------------------------
(* Type correctness. *)

\* The table is one that an earlier run left; nothing is told or shown.
LEMMA InitTypeInv ==
    ASSUME UiAssumption, Init
    PROVE  TypeInv
<1>1. Cardinality({}) = 0
  BY FS_EmptySet
<1>2. MaxPanel \in Nat /\ MaxHistory \in Nat /\ RefreshTx \in Nat \ {0}
  BY DEF UiAssumption
<1>3. /\ channel = <<>> /\ told = <<>> /\ newAlerts = <<>>
      /\ alertTxs = <<>> /\ Len(alertTxs) = 0
  BY DEF Init
<1>4. signals \in Seq([score : Nat, at : 0..now, seen : 0..localTxCount])
  <2>1. now = 0 /\ localTxCount = 0
    BY DEF Init
  <2>2. PICK scores \in Earlier : signals = [i \in DOMAIN scores |-> Row(scores[i], 0)]
    BY DEF Init
  <2>3. /\ Len(scores) \in Nat /\ DOMAIN scores = 1..Len(scores)
        /\ \A i \in 1..Len(scores) : scores[i] \in Nat
    BY <2>2 DEF UiAssumption
  <2>4. \A i \in 1..Len(scores) :
           Row(scores[i], 0) \in [score : Nat, at : 0..now, seen : 0..localTxCount]
    BY <2>1, <2>3 DEF Row
  <2> QED
    BY <2>2, <2>3, <2>4, SeqDef
<1>5. /\ channel \in Seq(Output) /\ told \in Seq(Nat)
      /\ newAlerts \in Seq(Transaction) /\ alertTxs \in Seq(Transaction)
  BY <1>3, EmptySeq
<1>6. /\ history = {} /\ localTxCount = 0 /\ txCount = 0 /\ txSinceRefresh = 0
      /\ pc = "select"
  BY DEF Init
<1>7. TypeOK
  BY <1>1, <1>2, <1>3, <1>4, <1>5, <1>6 DEF TypeOK
<1> QED
  BY <1>7 DEF Init, TypeInv, Counts, NoCounts, NothingFound

\* What the pipeline, the flusher and the clock do.
LEMMA OutsideType ==
    ASSUME UiAssumption, TypeInv,
           \/ \E score \in Score : TellTx(score)
           \/ TellOther(Block) \/ TellOther(MempoolStats)
           \/ PipelineReturns \/ (\E batch \in Batches : StoreBatch(batch)) \/ Tick
    PROVE  TypeInv'
<1>1. ASSUME NEW score \in Score, TellTx(score)
      PROVE  TypeInv'
  <2>1. score \in Nat /\ told \in Seq(Nat)
    BY DEF UiAssumption, TypeInv, TypeOK
  <2>2. told' \in Seq(Nat)
    BY <1>1, <2>1 DEF TellTx
  <2>3. channel' \in Seq(Output)
    <3>1. NewTx(score) \in Output
      BY <2>1 DEF NewTx, Output, Transaction
    <3>2. channel \in Seq(Output) /\ channel' = Append(channel, NewTx(score))
      BY <1>1 DEF TypeInv, TypeOK, TellTx
    <3> HIDE DEF Output
    <3> QED
      BY <3>1, <3>2
  <2> QED
    BY <1>1, <2>2, <2>3 DEF TellTx, TypeInv, TypeOK, panelVars, refreshVars
<1>2. ASSUME NEW output \in {Block, MempoolStats}, TellOther(output)
      PROVE  TypeInv'
  <2>1. output \in Output
    BY DEF Output
  <2>2. channel' \in Seq(Output)
    BY <1>2, <2>1 DEF TypeInv, TypeOK, TellOther
  <2> QED
    BY <1>2, <2>2 DEF TellOther, TypeInv, TypeOK, panelVars, refreshVars
<1>3. ASSUME PipelineReturns
      PROVE  TypeInv'
  BY <1>3 DEF PipelineReturns, TypeInv, TypeOK, panelVars, refreshVars
<1>4. ASSUME NEW batch \in Batches, StoreBatch(batch)
      PROVE  TypeInv'
  <2>1. DOMAIN signals \subseteq DOMAIN signals'
    BY <1>4, RowsKept
  <2>2. signals' \in Seq([score : Nat, at : 0..now, seen : 0..localTxCount])
    BY <1>4, RowsKept DEF Rows
  <2> QED
    BY <1>4, <2>1, <2>2 DEF StoreBatch, TypeInv, TypeOK, panelVars, refreshVars
<1>5. ASSUME Tick
      PROVE  TypeInv'
  <2>1. now' = now + 1 /\ now \in Nat /\ localTxCount' = localTxCount
    BY <1>5 DEF Tick, TypeInv, panelVars
  <2>2. signals \in Seq(Rows(now', localTxCount))
    <3>1. now' \in Nat /\ now <= now'
      BY <2>1
    <3>2. localTxCount \in Nat
      BY Typed
    <3> QED
      BY <3>1, <3>2, TableStays
  <2>3. signals' \in Seq([score : Nat, at : 0..now', seen : 0..localTxCount])
    BY <1>5, <2>1, <2>2 DEF Tick, Rows
  <2> QED
    BY <1>5, <2>1, <2>3 DEF Tick, TypeInv, TypeOK, panelVars, refreshVars
<1> QED
  BY <1>1, <1>2, <1>3, <1>4, <1>5

\* What the coroutine does in select!.
LEMMA SelectType ==
    ASSUME UiAssumption, TypeInv,
           ReceiveTx \/ ReceiveBlock \/ ReceiveStats \/ FlushUi \/ RecvClosed
    PROVE  TypeInv'
<1>1. ASSUME NEW type, Receive(type)
      PROVE  Head(channel) \in Output /\ channel' \in Seq(Output)
  BY <1>1, HeadTailProperties DEF Receive, TypeInv, TypeOK
<1>2. ASSUME ReceiveTx
      PROVE  TypeInv'
  <2> DEFINE tx == Head(channel)
             count == txSinceRefresh + 1
  <2>1. channel' \in Seq(Output) /\ tx \in Output /\ tx.type = "NewTx"
    BY <1>1, <1>2 DEF ReceiveTx, Receive
  <2>2. tx \in Transaction
    BY <2>1 DEF Output, Block, MempoolStats
  <2>3. newAlerts' \in Seq(Transaction)
    <3>1. newAlerts' = IF IsAlert(tx) THEN Append(newAlerts, tx) ELSE newAlerts
      BY <1>2 DEF ReceiveTx
    <3>2. newAlerts \in Seq(Transaction)
      BY DEF TypeInv, TypeOK
    <3> HIDE DEF tx
    <3> QED
      BY <2>2, <3>1, <3>2
  <2>4. txSinceRefresh' \in Nat /\ txSinceRefresh' < RefreshTx
    <3>1. count \in Nat /\ RefreshTx \in Nat \ {0}
      BY DEF TypeInv, UiAssumption
    <3>2. txSinceRefresh' = IF RefreshDue(count) THEN 0 ELSE count
      BY <1>2 DEF ReceiveTx
    <3> QED
      BY <3>1, <3>2 DEF RefreshDue
  <2>5. localTxCount' = localTxCount + 1 /\ localTxCount \in Nat
    BY <1>2 DEF ReceiveTx, TypeInv, TypeOK
  <2>6. signals' \in Seq([score : Nat, at : 0..now, seen : 0..localTxCount'])
    <3>1. signals \in Seq(Rows(now, localTxCount'))
      <4>1. localTxCount' \in Nat /\ localTxCount <= localTxCount'
        BY <2>5
      <4>2. now \in Nat
        BY DEF TypeInv
      <4> QED
        BY <4>1, <4>2, TableStays
    <3> QED
      BY <1>2, <3>1 DEF ReceiveTx, outsideVars, Rows
  <2>7. pc' \in {"recent", pc}
    BY <1>2 DEF ReceiveTx
  <2>8. txCount' <= localTxCount' /\ txCount' = txCount
    BY <1>2, <2>5 DEF ReceiveTx, TypeInv, TypeOK
  <2> QED
    BY <1>2, <2>1, <2>3, <2>4, <2>5, <2>6, <2>7, <2>8, Order
    DEF ReceiveTx, TypeInv, TypeOK, outsideVars, refreshVars
<1>3. ASSUME ReceiveBlock
      PROVE  TypeInv'
  <2>1. channel' \in Seq(Output)
    BY <1>1, <1>3 DEF ReceiveBlock
  <2> QED
    BY <1>3, <2>1, Order DEF ReceiveBlock, TypeInv, TypeOK, outsideVars, panelVars, refreshVars
<1>4. ASSUME ReceiveStats
      PROVE  TypeInv'
  <2>1. channel' \in Seq(Output)
    BY <1>1, <1>4 DEF ReceiveStats
  <2> QED
    BY <1>4, <2>1 DEF ReceiveStats, TypeInv, TypeOK, outsideVars, panelVars, refreshVars
<1>5. ASSUME FlushUi
      PROVE  TypeInv'
  <2>1. newAlerts \in Seq(Transaction) /\ alertTxs \in Seq(Transaction) /\ Len(alertTxs) <= MaxPanel
    BY DEF TypeInv, TypeOK
  <2>2. alertTxs \o newAlerts \in Seq(Transaction)
    BY <2>1, ConcatProperties
  <2>3. alertTxs' \in Seq(Transaction) /\ Len(alertTxs') <= MaxPanel
    BY <1>5, <2>1, <2>2, LastAlertsType DEF FlushUi
  <2>4. newAlerts' = <<>> /\ newAlerts' \in Seq(Transaction)
    BY <1>5 DEF FlushUi
  <2>5. txCount' = localTxCount /\ localTxCount \in Nat
    BY <1>5 DEF FlushUi, TitleCount, TypeInv, TypeOK
  <2> QED
    BY <1>5, <2>3, <2>4, <2>5 DEF FlushUi, TypeInv, TypeOK, outsideVars, refreshVars
<1>6. ASSUME RecvClosed
      PROVE  TypeInv'
  <2>1. newAlerts' \in Seq(Transaction)
    BY <1>6 DEF RecvClosed
  <2> QED
    BY <1>6, <2>1 DEF RecvClosed, TypeInv, TypeOK, outsideVars, refreshVars
<1> QED
  BY <1>2, <1>3, <1>4, <1>5, <1>6

\* The queries of refresh_history.
LEMMA RefreshType ==
    ASSUME UiAssumption, TypeInv, Refresh
    PROVE  TypeInv'
<1>1. ASSUME NEW answer \in Nat, NEW result, Result(answer, result)
      PROVE  result \in Nat /\ failed' \in BOOLEAN /\ failures' \in Nat
  <2>1. CASE result = answer /\ UNCHANGED <<failed, failures>>
    BY <2>1 DEF TypeInv
  <2>2. CASE result = 0 /\ Fails
    BY <2>2, FailsType
  <2> QED
    BY <1>1, <2>1, <2>2 DEF Result
<1>2. ASSUME QueryRecent
      PROVE  TypeInv'
  <2>1. history' \subseteq DOMAIN signals /\ Cardinality(history') <= MaxHistory
    BY <1>2, RecentRows DEF QueryRecent, TypeInv, TypeOK
  <2>2. failed' \in BOOLEAN /\ failures' \in Nat
    <3>1. CASE failed' = FALSE /\ UNCHANGED failures
      <4>1. failed' \in BOOLEAN
        BY <3>1, Zenon
      <4> QED
        BY <3>1, <4>1 DEF TypeInv
    <3>2. CASE Fails
      BY <3>2, FailsType
    <3> QED
      BY <1>2, <3>1, <3>2 DEF QueryRecent
  <2> QED
    BY <1>2, <2>1, <2>2, Order DEF QueryRecent, TypeInv, TypeOK, outsideVars, panelVars
<1>3. ASSUME QueryCount
      PROVE  TypeInv'
  <2>1. PICK n \in {0, Len(signals)} :
           /\ Result(Len(signals), n)
           /\ found' = [found EXCEPT !.total = n, !.to = now]
    BY <1>3 DEF QueryCount
  <2>2. n \in Nat /\ failed' \in BOOLEAN /\ failures' \in Nat
    BY <1>1, <2>1, Typed
  <2>3. found' \in [total : Nat, hour : Nat, day : Nat, to : Nat]
    BY <2>1, <2>2 DEF TypeInv
  <2> QED
    BY <1>3, <2>2, <2>3, Order DEF QueryCount, TypeInv, TypeOK, outsideVars, panelVars
<1>4. ASSUME NEW window \in {"hour", "day"}, NEW span \in Nat, QueryRange(window, span)
      PROVE  TypeInv'
  <2>1. PICK n \in {0, InRange(span, found.to)} :
           LET counts == [found EXCEPT ![window] = n]
           IN  /\ Result(InRange(span, found.to), n)
               /\ IF NextQuery[window] = "select"
                  THEN /\ signalStats' = [k \in DOMAIN NoCounts |-> counts[k]]
                       /\ found' = NothingFound
                  ELSE found' = counts /\ UNCHANGED signalStats
    BY <1>4 DEF QueryRange
  <2> DEFINE counts == [found EXCEPT ![window] = n]
  <2>2. n \in Nat /\ failed' \in BOOLEAN /\ failures' \in Nat
    BY <1>1, <2>1, InRangeType
  <2>3. counts \in [total : Nat, hour : Nat, day : Nat, to : Nat]
    BY <2>2 DEF TypeInv
  <2>4. NothingFound \in [total : Nat, hour : Nat, day : Nat, to : Nat]
    BY DEF NothingFound
  <2>5. [k \in DOMAIN NoCounts |-> counts[k]] \in Counts
    <3>1. DOMAIN NoCounts = {"total", "hour", "day"}
      BY DEF NoCounts
    <3> HIDE DEF counts
    <3> QED
      BY <2>3, <3>1 DEF Counts
  <2>6. found' \in [total : Nat, hour : Nat, day : Nat, to : Nat] /\ signalStats' \in Counts
    <3> HIDE DEF counts
    <3> QED
      BY <2>1, <2>3, <2>4, <2>5 DEF TypeInv, counts
  <2>7. pc' \in {"day", "select"}
    BY <1>4, Order DEF QueryRange
  <2> QED
    BY <1>4, <2>2, <2>6, <2>7, Order DEF QueryRange, TypeInv, TypeOK, outsideVars, panelVars
<1> QED
  BY <1>2, <1>3, <1>4 DEF Refresh, UiAssumption

\* A step that changes nothing.
LEMMA StutterType ==
    ASSUME TypeInv, UNCHANGED vars
    PROVE  TypeInv'
BY DEF TypeInv, TypeOK, vars, outsideVars, panelVars, refreshVars

\* Every step keeps the types.
LEMMA StepType ==
    ASSUME UiAssumption, TypeInv, [Next]_vars
    PROVE  TypeInv'
BY OutsideType, SelectType, RefreshType, StutterType DEF Next

(* The variables keep their types; the panel and the history keep their    *)
(* bounds and the history lists rows of the table, for every order of      *)
(* messages, flushes and batches.                                          *)
THEOREM TypeCorrect == Spec => []TypeOK
<1>1. Init => TypeInv
  BY UiAssumption, InitTypeInv
<1>2. TypeInv /\ [Next]_vars => TypeInv'
  BY UiAssumption, StepType
<1>3. TypeInv => TypeOK
  BY DEF TypeInv
<1> QED
  BY <1>1, <1>2, <1>3, PTL DEF Spec

-----------------------------------------------------------------------------
(* The summary of the history. *)

(* What the first queries found bounds what the later ones will.           *)
SummaryInv ==
    /\ pc \in {"hour", "day"} /\ ~failed => Cardinality(history) <= found.total
    /\ pc = "day" /\ ~failed => found.hour <= InRange(Day, found.to)
    /\ SummaryAgrees

\* Rows are only ever added: a window holds no fewer rows later.
LEMMA WindowGrows ==
    ASSUME UiAssumption, TypeInv, NEW batch \in Batches, StoreBatch(batch), NEW span \in Nat,
           NEW to \in Nat
    PROVE  InRange(span, to) <= InRange(span, to)' /\ InRange(span, to)' \in Nat
<1> DEFINE Before == {r \in DOMAIN signals : signals[r].at + span >= to /\ signals[r].at <= to}
           Later == {r \in DOMAIN signals' : signals'[r].at + span >= to /\ signals'[r].at <= to}
<1>1. DOMAIN signals \subseteq DOMAIN signals' /\ \A r \in DOMAIN signals : signals'[r] = signals[r]
  BY RowsKept
<1>2. Before \subseteq Later
  BY <1>1
<1>3. IsFiniteSet(Later)
  <2>1. IsFiniteSet(1..Len(signals')) /\ DOMAIN signals' = 1..Len(signals')
    <3>1. Len(signals') \in Nat /\ DOMAIN signals' = 1..Len(signals')
      BY RowsKept
    <3> QED
      BY <3>1, FS_Interval
  <2> QED
    BY <2>1, FS_Subset
<1>4. Cardinality(Before) <= Cardinality(Later) /\ Cardinality(Later) \in Nat
  <2> HIDE DEF Before, Later
  <2> QED
    BY <1>2, <1>3, FS_Subset, FS_CardinalityType
<1> QED
  BY <1>4 DEF InRange

\* Most steps leave the table and the history alone.
LEMMA NoQuery ==
    ASSUME \/ \E score \in Score : TellTx(score)
           \/ TellOther(Block) \/ TellOther(MempoolStats) \/ PipelineReturns \/ Tick
           \/ ReceiveTx \/ ReceiveBlock \/ ReceiveStats \/ FlushUi \/ RecvClosed
           \/ UNCHANGED vars
    PROVE  UNCHANGED <<signals, refreshVars>> /\ pc' \in {pc, "recent", "stopped"}
<1>1. ASSUME (\E score \in Score : TellTx(score)) \/ TellOther(Block) \/ TellOther(MempoolStats)
             \/ PipelineReturns \/ Tick
      PROVE  UNCHANGED <<signals, refreshVars>> /\ pc' = pc
  BY <1>1 DEF TellTx, TellOther, PipelineReturns, Tick
<1>2. ASSUME ReceiveTx \/ ReceiveBlock \/ ReceiveStats \/ FlushUi \/ RecvClosed
      PROVE  UNCHANGED <<signals, refreshVars>> /\ pc' \in {pc, "recent", "stopped"}
  BY <1>2 DEF ReceiveTx, ReceiveBlock, ReceiveStats, FlushUi, RecvClosed, outsideVars
<1>3. ASSUME UNCHANGED vars
      PROVE  UNCHANGED <<signals, refreshVars>> /\ pc' = pc
  BY <1>3 DEF vars, outsideVars
<1> QED
  BY <1>1, <1>2, <1>3

\* Without a query and a batch the summary stays as it is.
LEMMA SummaryUndisturbed ==
    ASSUME SummaryInv, UNCHANGED <<signals, refreshVars>>, pc' \in {pc, "recent", "stopped"}
    PROVE  SummaryInv'
<1>1. InRange(Day, found.to)' = InRange(Day, found.to)
  BY DEF InRange, refreshVars
<1> QED
  BY <1>1 DEF SummaryInv, SummaryAgrees, refreshVars

\* A batch between two queries: the longer window is counted later.
LEMMA SummaryStore ==
    ASSUME UiAssumption, TypeInv, SummaryInv, NEW batch \in Batches, StoreBatch(batch)
    PROVE  SummaryInv'
<1>1. UNCHANGED <<pc, refreshVars>>
  BY DEF StoreBatch
<1>2. Day \in Nat /\ found.to \in Nat /\ found.hour \in Nat
  BY DEF UiAssumption, TypeInv
<1>3. ASSUME NEW to \in Nat, to = found.to
      PROVE  InRange(Day, to) <= InRange(Day, to)' /\ InRange(Day, to)' \in Nat
  BY <1>2, WindowGrows
<1>4. /\ InRange(Day, found.to) <= InRange(Day, found.to)'
      /\ InRange(Day, found.to) \in Nat /\ InRange(Day, found.to)' \in Nat
  <2>1. found' = found
    BY <1>1 DEF refreshVars
  <2> QED
    BY <1>2, <1>3, <2>1, InRangeType DEF InRange
<1>5. ASSUME pc = "day", ~failed
      PROVE  found.hour <= InRange(Day, found.to)'
  BY <1>2, <1>4, <1>5 DEF SummaryInv
<1>6. UNCHANGED <<pc, failed, found, history, signalStats>>
  BY <1>1 DEF refreshVars
<1> QED
  BY <1>5, <1>6 DEF SummaryInv, SummaryAgrees

\* A query that does not fail yields its answer.
LEMMA Answered ==
    ASSUME NEW answer, NEW result, Result(answer, result), ~failed'
    PROVE  result = answer /\ ~failed
BY DEF Result, Fails

\* The queries.
LEMMA SummaryQueries ==
    ASSUME UiAssumption, TypeInv, SummaryInv, Refresh
    PROVE  SummaryInv'
<1>1. ASSUME QueryRecent
      PROVE  SummaryInv'
  <2>1. pc' = "count"
    BY <1>1, Order DEF QueryRecent
  <2> QED
    BY <2>1 DEF SummaryInv, SummaryAgrees
<1>2. ASSUME QueryCount
      PROVE  SummaryInv'
  <2>1. PICK n \in {0, Len(signals)} :
           /\ Result(Len(signals), n)
           /\ found' = [found EXCEPT !.total = n, !.to = now]
    BY <1>2 DEF QueryCount
  <2>2. pc' = "hour" /\ history' = history
    BY <1>2, Order DEF QueryCount
  <2>3. found'.total = n
    BY <2>1 DEF TypeInv
  <2>4. Cardinality(history) <= Len(signals)
    BY RowsFinite DEF TypeInv, TypeOK
  <2>5. ~failed' => n = Len(signals)
    BY <2>1, Answered
  <2> QED
    BY <2>2, <2>3, <2>4, <2>5 DEF SummaryInv, SummaryAgrees
<1>3. ASSUME QueryRange("hour", Hour)
      PROVE  SummaryInv'
  <2>1. PICK n \in {0, InRange(Hour, found.to)} :
           Result(InRange(Hour, found.to), n) /\ found' = [found EXCEPT !.hour = n]
    BY <1>3, Order DEF QueryRange
  <2>2. pc' = "day" /\ pc = "hour" /\ history' = history /\ signals' = signals
    BY <1>3, Order DEF QueryRange, outsideVars
  <2>3. found'.total = found.total /\ found'.hour = n /\ found'.to = found.to
    BY <2>1 DEF TypeInv
  <2>4. InRange(Hour, found.to) <= InRange(Day, found.to)
    BY LongerWindow DEF UiAssumption, TypeInv
  <2>5. InRange(Day, found.to)' = InRange(Day, found.to)
    BY <2>2, <2>3 DEF InRange
  <2>6. ~failed' => n = InRange(Hour, found.to) /\ ~failed
    BY <2>1, Answered
  <2> QED
    BY <2>2, <2>3, <2>4, <2>5, <2>6 DEF SummaryInv, SummaryAgrees
<1>4. ASSUME QueryRange("day", Day)
      PROVE  SummaryInv'
  <2>1. PICK n \in {0, InRange(Day, found.to)} :
           LET counts == [found EXCEPT !["day"] = n]
           IN  /\ Result(InRange(Day, found.to), n)
               /\ signalStats' = [k \in DOMAIN NoCounts |-> counts[k]]
    BY <1>4, Order DEF QueryRange
  <2>2. pc' = "select" /\ pc = "day" /\ history' = history
    BY <1>4, Order DEF QueryRange
  <2>3. signalStats'.total = found.total /\ signalStats'.hour = found.hour /\ signalStats'.day = n
    BY <2>1 DEF TypeInv, NoCounts
  <2>4. ~failed' => n = InRange(Day, found.to) /\ ~failed
    BY <2>1, Answered
  <2> QED
    BY <2>2, <2>3, <2>4 DEF SummaryInv, SummaryAgrees
<1> QED
  BY <1>1, <1>2, <1>3, <1>4 DEF Refresh

\* The steps, by what they disturb.
LEMMA StepKinds ==
    ASSUME [Next]_vars
    PROVE  \/ UNCHANGED <<signals, refreshVars>> /\ pc' \in {pc, "recent", "stopped"}
           \/ \E batch \in Batches : StoreBatch(batch)
           \/ Refresh
BY NoQuery DEF Next

(* What the history panel says agrees with itself, whatever the flusher    *)
(* writes between the queries.                                             *)
THEOREM SummaryCorrect == Spec => []SummaryAgrees
<1>1. Init => TypeInv /\ SummaryInv
  <2>1. SUFFICES ASSUME Init
                 PROVE  SummaryInv
    BY UiAssumption, InitTypeInv
  <2>2. Cardinality({}) = 0
    BY FS_EmptySet
  <2> QED
    BY <2>1, <2>2 DEF Init, SummaryInv, SummaryAgrees, NoCounts
<1>2. TypeInv /\ SummaryInv /\ [Next]_vars => (TypeInv /\ SummaryInv)'
  BY UiAssumption, StepType, StepKinds, SummaryUndisturbed, SummaryStore, SummaryQueries
<1>3. SummaryInv => SummaryAgrees
  BY DEF SummaryInv
<1> QED
  BY <1>1, <1>2, <1>3, PTL DEF Spec
-----------------------------------------------------------------------------
(* The age of the history. *)

Listed(r) ==
    \/ r \in history
    \/ /\ Cardinality(history) = MaxHistory
       /\ \A h \in history : RowScore(h) >= RowScore(r)

(* A row stored before the transactions that are counted since the last    *)
(* refresh were received is listed, or outranked; the queries that follow  *)
(* the first leave the list as it is.                                      *)
HistoryInv ==
    pc # "recent" /\ ~failed =>
        \A r \in DOMAIN signals :
            RowScore(r) >= HistoryMin /\ signals[r].seen + txSinceRefresh < localTxCount =>
                Listed(r)

\* A step that keeps the rows keeps a list that it does not
\* change, if it does not make a row older.
LEMMA ListStays ==
    ASSUME UiAssumption, TypeInv, HistoryInv,
           pc # "recent", ~failed, UNCHANGED history,
           DOMAIN signals \subseteq DOMAIN signals',
           \A r \in DOMAIN signals : signals'[r] = signals[r],
           \A r \in DOMAIN signals' \ DOMAIN signals :
              ~(signals'[r].seen + txSinceRefresh' < localTxCount'),
           \A r \in DOMAIN signals :
              signals[r].seen + txSinceRefresh' < localTxCount' =>
                 signals[r].seen + txSinceRefresh < localTxCount
    PROVE  HistoryInv'
<1>1. \A r \in DOMAIN signals : RowScore(r)' = RowScore(r)
  BY Typed DEF RowScore
<1>2. history \subseteq DOMAIN signals
  BY DEF TypeInv, TypeOK
<1>3. ASSUME NEW r \in DOMAIN signals', RowScore(r)' >= HistoryMin,
             signals'[r].seen + txSinceRefresh' < localTxCount'
      PROVE  Listed(r)'
  <2>1. r \in DOMAIN signals /\ signals[r].seen + txSinceRefresh < localTxCount
    BY <1>3
  <2>2. RowScore(r) >= HistoryMin
    BY <1>1, <1>3, <2>1
  <2>3. Listed(r)
    BY <2>1, <2>2 DEF HistoryInv
  <2> QED
    BY <1>1, <1>2, <2>1, <2>3 DEF Listed
<1> QED
  BY <1>3 DEF HistoryInv

\* The first query lists all rows, but for those outranked.
LEMMA ListMade ==
    ASSUME UiAssumption, TypeInv, QueryRecent
    PROVE  HistoryInv'
<1>1. UNCHANGED signals
  BY DEF QueryRecent, outsideVars
<1>2. ASSUME ~failed'
      PROVE  history' \in Recent
  BY <1>2 DEF QueryRecent, Fails
<1>3. ASSUME ~failed', NEW r \in DOMAIN signals, RowScore(r) >= HistoryMin
      PROVE  \/ r \in history'
             \/ /\ Cardinality(history') = MaxHistory
                /\ \A h \in history' : RowScore(h) >= RowScore(r)
  BY <1>2, <1>3, RecentRows
<1> QED
  BY <1>1, <1>3 DEF HistoryInv, Listed, RowScore

\* Every step keeps the list complete.
LEMMA HistoryStep ==
    ASSUME UiAssumption, TypeInv, HistoryInv, [Next]_vars
    PROVE  HistoryInv'
<1> DEFINE Kept ==
      /\ DOMAIN signals \subseteq DOMAIN signals'
      /\ \A r \in DOMAIN signals : signals'[r] = signals[r]
    NoOlder ==
      /\ \A r \in DOMAIN signals' \ DOMAIN signals :
            ~(signals'[r].seen + txSinceRefresh' < localTxCount')
      /\ \A r \in DOMAIN signals :
            signals[r].seen + txSinceRefresh' < localTxCount' =>
               signals[r].seen + txSinceRefresh < localTxCount
<1>1. CASE (\E score \in Score : TellTx(score)) \/ TellOther(Block) \/ TellOther(MempoolStats)
           \/ PipelineReturns \/ Tick \/ ReceiveStats \/ FlushUi \/ UNCHANGED vars
  <2>1. UNCHANGED <<signals, pc, localTxCount, txSinceRefresh, history, failed>>
    BY <1>1 DEF TellTx, TellOther, PipelineReturns, Tick, ReceiveStats, FlushUi, vars, outsideVars,
                panelVars, refreshVars
  <2> QED
    BY <2>1 DEF HistoryInv, Listed, RowScore
<1>2. CASE \E batch \in Batches : StoreBatch(batch)
  <2>1. PICK batch \in Batches : StoreBatch(batch)
    BY <1>2
  <2>2. UNCHANGED <<pc, localTxCount, txSinceRefresh, history, failed>>
    BY <2>1 DEF StoreBatch, panelVars, refreshVars
  <2>3. Kept
    BY <2>1, <2>2, RowsKept
  <2>4. \A r \in DOMAIN signals' \ DOMAIN signals : signals'[r].seen = localTxCount
    BY <2>1, RowsKept
  <2>5. NoOlder
    BY <2>2, <2>4, Typed DEF TypeInv
  <2> QED
    BY <2>2, <2>3, <2>5, ListStays DEF HistoryInv
<1>3. CASE ReceiveTx
  <2>1. CASE RefreshDue(txSinceRefresh + 1)
    BY <1>3, <2>1 DEF ReceiveTx, HistoryInv
  <2>2. CASE ~RefreshDue(txSinceRefresh + 1)
    <3>1. /\ txSinceRefresh' = txSinceRefresh + 1 /\ localTxCount' = localTxCount + 1
          /\ UNCHANGED <<signals, pc, history, failed>>
      BY <1>3, <2>2 DEF ReceiveTx, outsideVars, refreshVars
    <3>2. txSinceRefresh \in Nat
      BY DEF TypeInv
    <3>3. Kept /\ NoOlder
      BY <3>1, <3>2, Typed
    <3> QED
      BY <3>1, <3>3, ListStays DEF HistoryInv
  <2> QED
    BY <2>1, <2>2
<1>4. CASE ReceiveBlock
  BY <1>4 DEF ReceiveBlock, HistoryInv
<1>5. CASE RecvClosed
  <2>1. UNCHANGED <<signals, localTxCount, txSinceRefresh, history, failed>> /\ pc = "select"
    BY <1>5 DEF RecvClosed, outsideVars, refreshVars
  <2> QED
    BY <2>1 DEF HistoryInv, Listed, RowScore
<1>6. CASE QueryRecent
  BY <1>6, ListMade
<1>7. CASE QueryCount \/ QueryRange("hour", Hour) \/ QueryRange("day", Day)
  <2>1. UNCHANGED <<signals, localTxCount, txSinceRefresh, history>> /\ pc # "recent"
    BY <1>7 DEF QueryCount, QueryRange, outsideVars, panelVars
  <2>2. ~failed' => ~failed
    BY <1>7, Answered DEF QueryCount, QueryRange
  <2> QED
    BY <2>1, <2>2 DEF HistoryInv, Listed, RowScore
<1> QED
  BY <1>1, <1>2, <1>3, <1>4, <1>5, <1>6, <1>7 DEF Next, Refresh

(* The history panel is no more than RefreshTx transactions old: a row     *)
(* that was stored before is listed or outranked, whatever arrives and is  *)
(* stored meanwhile.                                                       *)
THEOREM HistoryCorrect == Spec => []HistoryCurrent
<1>1. Init => TypeInv /\ HistoryInv
  <2>1. ASSUME Init
        PROVE  HistoryInv
    <3>1. localTxCount = 0 /\ txSinceRefresh = 0
      BY <2>1 DEF Init
    <3>2. \A r \in DOMAIN signals : signals[r].seen \in Nat
      BY <2>1, UiAssumption, InitTypeInv, Typed
    <3> QED
      BY <3>1, <3>2 DEF HistoryInv
  <2> QED
    BY <2>1, UiAssumption, InitTypeInv
<1>2. TypeInv /\ HistoryInv /\ [Next]_vars => (TypeInv /\ HistoryInv)'
  BY UiAssumption, StepType, HistoryStep
<1>3. TypeInv /\ HistoryInv => HistoryCurrent
  <2>1. SUFFICES ASSUME TypeInv, HistoryInv, pc = "select", ~failed, NEW r \in DOMAIN signals,
                        RowScore(r) >= HistoryMin, signals[r].seen + RefreshTx <= localTxCount
                 PROVE  Listed(r)
    BY DEF HistoryCurrent, Listed
  <2>2. signals[r].seen \in Nat /\ localTxCount \in Nat /\ RefreshTx \in Nat
    BY <2>1, UiAssumption, Typed DEF UiAssumption
  <2>3. txSinceRefresh \in Nat /\ txSinceRefresh < RefreshTx
    BY <2>1 DEF TypeInv, TypeOK
  <2>4. signals[r].seen + txSinceRefresh < localTxCount
    BY <2>1, <2>2, <2>3
  <2> QED
    BY <2>1, <2>4 DEF HistoryInv
<1> QED
  BY <1>1, <1>2, <1>3, PTL DEF Spec

-----------------------------------------------------------------------------
(* The way of an alert. *)

\* s is what is left of all without the first gone.
Rest(s, all, gone) ==
    /\ gone \in Nat /\ Len(all) = gone + Len(s)
    /\ \A i \in 1..Len(s) : s[i] = all[gone + i]

LEMMA RestAppend ==
    ASSUME NEW S, NEW s \in Seq(S), NEW all \in Seq(S), NEW gone \in Nat, NEW x \in S,
           Rest(s, all, gone)
    PROVE  Rest(Append(s, x), Append(all, x), gone)
<1> DEFINE t == Append(s, x)
           more == Append(all, x)
<1>1. /\ Len(s) \in Nat /\ Len(all) = gone + Len(s)
      /\ \A i \in 1..Len(s) : s[i] = all[gone + i]
  BY DEF Rest
<1>2. /\ Len(t) = Len(s) + 1 /\ t[Len(s) + 1] = x /\ \A i \in 1..Len(s) : t[i] = s[i]
  OBVIOUS
<1>3. /\ Len(more) = Len(all) + 1 /\ more[Len(all) + 1] = x
      /\ \A i \in 1..Len(all) : more[i] = all[i]
  OBVIOUS
<1> HIDE DEF t, more
<1>4. ASSUME NEW i \in 1..Len(t)
      PROVE  t[i] = more[gone + i]
  <2>1. CASE i = Len(s) + 1
    <3>1. gone + i = Len(all) + 1
      BY <1>1, <2>1
    <3> QED
      BY <1>2, <1>3, <2>1, <3>1
  <2>2. CASE i # Len(s) + 1
    <3>1. i \in 1..Len(s) /\ gone + i \in 1..Len(all)
      BY <1>1, <1>2, <2>2
    <3> QED
      BY <1>1, <1>2, <1>3, <3>1
  <2> QED
    BY <2>1, <2>2
<1>5. Len(more) = gone + Len(t)
  BY <1>1, <1>2, <1>3
<1> QED
  BY <1>4, <1>5 DEF Rest, t, more

\* The end of a sequence is what is left of it, and what is left of what is left.
LEMMA RestDrop ==
    ASSUME NEW S, NEW a \in Seq(S), NEW c \in Seq(S), NEW all \in Seq(S), NEW gone \in Nat,
           NEW d \in Nat, d < Len(a), Rest(a \o c, all, gone)
    PROVE  Rest(SubSeq(a, d + 1, Len(a)) \o c, all, gone + d)
<1> DEFINE n == Len(a)
           new == SubSeq(a, d + 1, n)
           s == a \o c
           u == new \o c
<1>1. /\ n \in Nat /\ Len(c) \in Nat /\ Len(s) = n + Len(c)
      /\ \A i \in 1..n : s[i] = a[i]
      /\ \A i \in (n + 1)..(n + Len(c)) : s[i] = c[i - n]
  BY ConcatProperties
<1>2. /\ new \in Seq(S) /\ Len(new) = n - d
      /\ \A i \in 1..(n - d) : new[i] = a[d + i]
  <2>1. d + 1 \in 1..n /\ d + 1 \in Int /\ n \in Int
    BY <1>1
  <2>2. \A i \in (d + 1)..n : a[i] \in S
    BY <2>1, ElementOfSeq
  <2>3. /\ new \in Seq(S) /\ Len(new) = IF d + 1 <= n THEN n - (d + 1) + 1 ELSE 0
        /\ \A i \in 1..(n - (d + 1) + 1) : new[i] = a[(d + 1) + i - 1]
    <3> HIDE DEF n
    <3> QED
      BY <2>1, <2>2, SubSeqProperties
  <2>4. n - (d + 1) + 1 = n - d /\ \A i \in 1..(n - d) : (d + 1) + i - 1 = d + i
    BY <1>1
  <2> HIDE DEF new, n
  <2> QED
    BY <2>1, <2>3, <2>4
<1> HIDE DEF new, n
<1>3. /\ Len(u) = (n - d) + Len(c)
      /\ \A i \in 1..(n - d) : u[i] = new[i]
      /\ \A i \in ((n - d) + 1)..((n - d) + Len(c)) : u[i] = c[i - (n - d)]
  <2>1. new \in Seq(S) /\ Len(new) = n - d
    BY <1>2
  <2>2. /\ Len(u) = Len(new) + Len(c)
        /\ \A i \in 1..Len(new) : u[i] = new[i]
        /\ \A i \in (Len(new) + 1)..(Len(new) + Len(c)) : u[i] = c[i - Len(new)]
    <3>1. /\ Len(u) = Len(new) + Len(c)
          /\ \A i \in 1..(Len(new) + Len(c)) :
                u[i] = IF i <= Len(new) THEN new[i] ELSE c[i - Len(new)]
      BY <2>1, ConcatProperties
    <3>2. Len(new) \in Nat /\ Len(c) \in Nat
      BY <2>1
    <3> HIDE DEF u
    <3> QED
      BY <3>1, <3>2
  <2> QED
    BY <2>1, <2>2
<1>4. /\ Len(all) = gone + Len(s)
      /\ \A i \in 1..Len(s) : s[i] = all[gone + i]
  BY DEF Rest
<1>5. d < n
  BY DEF n
<1> HIDE DEF s, u
<1>6. ASSUME NEW i \in 1..Len(u)
      PROVE  u[i] = all[(gone + d) + i]
  <2>1. d + i \in 1..Len(s) /\ gone + (d + i) = (gone + d) + i
    BY <1>1, <1>3, <1>5
  <2>2. u[i] = s[d + i]
    <3>1. CASE i <= n - d
      <4>1. i \in 1..(n - d) /\ d + i \in 1..n
        BY <1>1, <1>5, <3>1
      <4> QED
        BY <1>1, <1>2, <1>3, <4>1
    <3>2. CASE i > n - d
      <4>1. /\ i \in ((n - d) + 1)..((n - d) + Len(c)) /\ d + i \in (n + 1)..(n + Len(c))
            /\ i - (n - d) = (d + i) - n
        BY <1>1, <1>3, <1>5, <3>2
      <4>2. u[i] = c[i - (n - d)] /\ s[d + i] = c[(d + i) - n]
        BY <1>1, <1>3, <4>1
      <4> QED
        BY <4>1, <4>2
    <3> QED
      BY <1>1, <3>1, <3>2
  <2>3. s[d + i] = all[gone + (d + i)]
    BY <1>4, <2>1
  <2> QED
    BY <2>1, <2>2, <2>3
<1>7. Len(all) = (gone + d) + Len(u) /\ gone + d \in Nat
  BY <1>1, <1>3, <1>4
<1>8. Rest(u, all, gone + d)
  BY <1>6, <1>7 DEF Rest
<1> QED
  BY <1>8 DEF u, new, n

Kept == alertTxs \o Waiting

(* NewestKept, index by index.                                             *)
PanelInv ==
    pc # "stopped" =>
        \E gone \in Nat :
            /\ Rest(Kept, Alerts, gone)
            /\ gone > 0 => Len(alertTxs) = MaxPanel

\* Both are sequences of transactions.
LEMMA AlertsType ==
    ASSUME TypeInv
    PROVE  /\ Announced \in Seq(Transaction) /\ Len(Announced) = Len(told)
           /\ Alerts \in Seq(Transaction)
           /\ Selected(channel, AlertTx) \in Seq(Transaction)
           /\ newAlerts \in Seq(Transaction) /\ alertTxs \in Seq(Transaction)
           /\ Waiting \in Seq(Transaction) /\ Kept \in Seq(Transaction)
<1>1. channel \in Seq(Output) /\ newAlerts \in Seq(Transaction) /\ alertTxs \in Seq(Transaction)
  BY DEF TypeInv, TypeOK
<1>2. Announced \in Seq(Transaction) /\ Len(Announced) = Len(told)
  <2>1. /\ DOMAIN told = 1..Len(told) /\ Len(told) \in Nat
        /\ \A i \in 1..Len(told) : told[i] \in Nat
    BY Typed
  <2>2. \A i \in 1..Len(told) : [type |-> "NewTx", id |-> i, score |-> told[i]] \in Transaction
    BY <2>1 DEF Transaction
  <2>3. Announced = [i \in 1..Len(told) |-> [type |-> "NewTx", id |-> i, score |-> told[i]]]
    BY <2>1 DEF Announced
  <2> QED
    BY <2>1, <2>2, <2>3, SeqDef
<1>3. \A S, s : S \subseteq Transaction /\ s \in Seq(S) => s \in Seq(Transaction)
  BY SeqMonotonic
<1>4. Output \cap AlertTx \subseteq Transaction
  BY DEF AlertTx, Transaction
<1>5. Transaction \cap AlertTx \subseteq Transaction
  OBVIOUS
<1>6. Alerts \in Seq(Transaction)
  <2>1. Alerts \in Seq(Transaction \cap AlertTx)
    BY <1>2, SelectedAt DEF Alerts
  <2> QED
    BY <1>3, <1>5, <2>1
<1>7. Selected(channel, AlertTx) \in Seq(Transaction)
  <2>1. Selected(channel, AlertTx) \in Seq(Output \cap AlertTx)
    BY <1>1, SelectedAt
  <2> QED
    BY <1>3, <1>4, <2>1
<1>8. Waiting \in Seq(Transaction)
  BY <1>1, <1>7, ConcatProperties DEF Waiting
<1>9. Kept \in Seq(Transaction)
  BY <1>1, <1>8, ConcatProperties DEF Kept
<1> QED
  BY <1>1, <1>2, <1>6, <1>7, <1>8, <1>9

\* A transaction told is one more at the end, of both or of none.
LEMMA PanelTold ==
    ASSUME UiAssumption, TypeInv, PanelInv, NEW score \in Score, TellTx(score)
    PROVE  PanelInv'
<1> DEFINE tx == NewTx(score)
<1>1. /\ told \in Seq(Nat) /\ score \in Nat /\ told' = Append(told, score)
      /\ channel \in Seq(Output) /\ channel' = Append(channel, tx)
      /\ UNCHANGED <<pc, newAlerts, alertTxs>>
  BY DEF UiAssumption, TypeInv, TypeOK, TellTx, panelVars
<1>2. tx \in Transaction /\ tx \in Output
  BY <1>1 DEF NewTx, Transaction, Output
<1>3. Announced' = Append(Announced, tx)
  <2>1. /\ Announced \in Seq(Transaction) /\ Len(Announced) = Len(told)
        /\ \A i \in 1..Len(told) : Announced[i] = [type |-> "NewTx", id |-> i, score |-> told[i]]
    BY <1>1, AlertsType DEF Announced
  <2>2. /\ DOMAIN told' = 1..(Len(told) + 1) /\ told'[Len(told) + 1] = score
        /\ \A i \in 1..Len(told) : told'[i] = told[i]
    BY <1>1
  <2>3. Announced' = [i \in 1..(Len(told) + 1) |-> [type |-> "NewTx", id |-> i, score |-> told'[i]]]
    BY <2>2 DEF Announced
  <2>4. tx = [type |-> "NewTx", id |-> Len(told) + 1, score |-> score]
    BY DEF NewTx
  <2> HIDE DEF tx
  <2> DEFINE more == Append(Announced, tx)
  <2>5. /\ more \in Seq(Transaction) /\ Len(more) = Len(Announced) + 1
        /\ more[Len(Announced) + 1] = tx
        /\ \A i \in 1..Len(Announced) : more[i] = Announced[i]
    <3>1. Announced \in Seq(Transaction)
      BY <2>1
    <3> HIDE DEF Announced
    <3> QED
      BY <1>2, <3>1
  <2>6. Len(told) \in Nat /\ more = [i \in 1..Len(more) |-> more[i]]
    <3>1. Len(told) \in Nat
      BY <1>1
    <3> HIDE DEF more
    <3>2. more \in Seq(Transaction)
      BY <2>5
    <3>3. more = [i \in 1..Len(more) |-> more[i]]
      BY <3>2
    <3> QED
      BY <3>1, <3>3
  <2>7. \A i \in 1..(Len(told) + 1) :
           [type |-> "NewTx", id |-> i, score |-> told'[i]] = more[i]
    <3> HIDE DEF more
    <3> DEFINE n == Len(told)
    <3>1. \A i \in 1..(Len(told) + 1) : i = Len(told) + 1 \/ i \in 1..Len(told)
      <4>1. n \in Nat
        BY <2>6
      <4> HIDE DEF n
      <4>2. \A i \in 1..(n + 1) : i = n + 1 \/ i \in 1..n
        BY <4>1
      <4> QED
        BY <4>2 DEF n
    <3> QED
      BY <2>1, <2>2, <2>4, <2>5, <3>1
  <2>8. more = [i \in 1..(Len(told) + 1) |-> more[i]]
    BY <2>1, <2>5, <2>6
  <2> HIDE DEF more
  <2>9. Announced' = more
    BY <2>3, <2>7, <2>8
  <2> QED
    BY <2>9 DEF more
<1> HIDE DEF tx
<1>4. Alerts' = IF tx \in AlertTx THEN Append(Alerts, tx) ELSE Alerts
  <2>1. Selected(Announced', AlertTx)
        = IF tx \in AlertTx THEN Append(Selected(Announced, AlertTx), tx)
                            ELSE Selected(Announced, AlertTx)
    <3>1. Announced \in Seq(Transaction)
      BY AlertsType
    <3> QED
      BY <1>2, <1>3, <3>1, SelectedAppend
  <2>2. AlertTx' = AlertTx
    BY DEF AlertTx
  <2> QED
    BY <2>1, <2>2 DEF Alerts
<1>5. Kept' = IF tx \in AlertTx THEN Append(Kept, tx) ELSE Kept
  <2> DEFINE c == Selected(channel, AlertTx)
  <2>1. Selected(channel', AlertTx) = IF tx \in AlertTx THEN Append(c, tx) ELSE c
    BY <1>1, <1>2, SelectedAppend
  <2>2. Kept' = alertTxs \o (newAlerts \o Selected(channel', AlertTx))
    BY <1>1 DEF Kept, Waiting, AlertTx
  <2>3. c \in Seq(Transaction) /\ newAlerts \in Seq(Transaction) /\ alertTxs \in Seq(Transaction)
    BY AlertsType
  <2>4. Kept = alertTxs \o (newAlerts \o c)
    BY DEF Kept, Waiting
  <2> HIDE DEF c
  <2>5. alertTxs \o (newAlerts \o Append(c, tx)) = Append(alertTxs \o (newAlerts \o c), tx)
    BY <1>2, <2>3, AppendToLast
  <2> QED
    BY <2>1, <2>2, <2>4, <2>5
<1>6. SUFFICES ASSUME pc # "stopped", NEW gone \in Nat, Rest(Kept, Alerts, gone),
                      gone > 0 => Len(alertTxs) = MaxPanel
               PROVE  Rest(Kept', Alerts', gone)
  BY <1>1 DEF PanelInv
<1>7. Kept \in Seq(Transaction) /\ Alerts \in Seq(Transaction)
  BY AlertsType
<1>8. CASE tx \in AlertTx
  BY <1>2, <1>4, <1>5, <1>6, <1>7, <1>8, RestAppend
<1>9. CASE tx \notin AlertTx
  BY <1>4, <1>5, <1>6, <1>9
<1> QED
  BY <1>8, <1>9

\* What is received goes from the channel to the buffer, if it is an alert.
LEMMA PanelReceive ==
    ASSUME UiAssumption, TypeInv, PanelInv, ReceiveTx \/ ReceiveBlock \/ ReceiveStats
    PROVE  PanelInv'
<1> DEFINE e == Head(channel)
           c == Selected(channel, AlertTx)
           d == Selected(Tail(channel), AlertTx)
<1>1. /\ channel \in Seq(Output) /\ channel # <<>> /\ channel' = Tail(channel) /\ pc = "select"
      /\ UNCHANGED <<told, alertTxs>>
  BY DEF TypeInv, TypeOK, ReceiveTx, ReceiveBlock, ReceiveStats, Receive, outsideVars, panelVars
<1>2. /\ Tail(channel) \in Seq(Output) /\ e \in Output
      /\ c = (IF e \in AlertTx THEN <<e>> ELSE <<>>) \o d
  BY <1>1, SelectedTail
<1>3. d \in Seq(Transaction)
  <2>1. d \in Seq(Output \cap AlertTx)
    BY <1>2, SelectedAt
  <2>2. Output \cap AlertTx \subseteq Transaction
    BY DEF AlertTx, Transaction
  <2> QED
    BY <2>1, <2>2, SeqMonotonic
<1>4. newAlerts \in Seq(Transaction) /\ alertTxs \in Seq(Transaction)
  BY AlertsType
<1>5. newAlerts' = IF e \in AlertTx THEN Append(newAlerts, e) ELSE newAlerts
  <2>1. CASE ReceiveTx
    <3>1. e.type = "NewTx" /\ newAlerts' = IF IsAlert(e) THEN Append(newAlerts, e) ELSE newAlerts
      BY <2>1 DEF ReceiveTx, Receive
    <3>2. e \in Transaction
      BY <1>2, <3>1 DEF Output, Block, MempoolStats
    <3>3. IsAlert(e) <=> e \in AlertTx
      BY <3>2 DEF IsAlert, AlertTx, Transaction
    <3> QED
      BY <3>1, <3>3
  <2>2. CASE ReceiveBlock \/ ReceiveStats
    <3>1. e.type # "NewTx" /\ newAlerts' = newAlerts
      BY <2>2 DEF ReceiveBlock, ReceiveStats, Receive, panelVars
    <3>2. e \notin AlertTx
      BY <3>1 DEF AlertTx
    <3> QED
      BY <3>1, <3>2
  <2> QED
    BY <2>1, <2>2
<1>6. Waiting' = Waiting
  <2>1. Waiting' = newAlerts' \o d
    BY <1>1 DEF Waiting, AlertTx
  <2>2. Waiting = newAlerts \o c
    BY DEF Waiting
  <2> HIDE DEF c, d
  <2>3. CASE e \in AlertTx
    <3>1. e \in Transaction
      BY <1>2, <2>3 DEF AlertTx, Transaction
    <3>2. newAlerts' = Append(newAlerts, e) /\ c = <<e>> \o d
      BY <1>2, <1>5, <2>3
    <3> HIDE DEF e
    <3>3. Append(newAlerts, e) \o d = newAlerts \o (<<e>> \o d)
      BY <1>3, <1>4, <3>1
    <3> QED
      BY <2>1, <2>2, <3>2, <3>3
  <2>4. CASE e \notin AlertTx
    <3>1. newAlerts' = newAlerts /\ c = <<>> \o d
      BY <1>2, <1>5, <2>4
    <3>2. <<>> \o d = d
      BY <1>3
    <3> QED
      BY <2>1, <2>2, <3>1, <3>2
  <2> QED
    BY <2>3, <2>4
<1>7. Kept' = Kept /\ Alerts' = Alerts
  BY <1>1, <1>6 DEF Kept, Alerts, Announced, AlertTx
<1> QED
  BY <1>1, <1>7 DEF PanelInv

\* The flush moves the buffer to the panel and drops only what is too much.
LEMMA PanelFlush ==
    ASSUME UiAssumption, TypeInv, PanelInv, FlushUi
    PROVE  PanelInv'
<1> DEFINE all == alertTxs \o newAlerts
           c == Selected(channel, AlertTx)
           n == Len(all)
<1>1. /\ pc = "select" /\ pc' = pc /\ UNCHANGED <<channel, told>>
      /\ newAlerts' = <<>>
      /\ alertTxs' = IF newAlerts # <<>> THEN LastAlerts(all) ELSE alertTxs
  BY DEF FlushUi, outsideVars
<1>2. /\ newAlerts \in Seq(Transaction) /\ alertTxs \in Seq(Transaction) /\ c \in Seq(Transaction)
      /\ Kept \in Seq(Transaction)
  BY AlertsType
<1>3. Len(alertTxs) <= MaxPanel /\ MaxPanel \in Nat \ {0}
  BY DEF TypeInv, TypeOK, UiAssumption
<1>4. Alerts' = Alerts /\ c' = c
  BY <1>1 DEF Alerts, Announced, AlertTx
<1> HIDE DEF c
<1>5. Kept' = alertTxs' \o c
  <2>1. Kept' = alertTxs' \o (<<>> \o c)
    BY <1>1, <1>4 DEF Kept, Waiting, c
  <2>2. <<>> \o c = c
    BY <1>2
  <2> QED
    BY <2>1, <2>2
<1>6. Kept = all \o c
  <2>1. Kept = alertTxs \o (newAlerts \o c)
    BY DEF Kept, Waiting, c
  <2> QED
    BY <1>2, <2>1
<1>7. all \in Seq(Transaction) /\ n \in Nat /\ n = Len(alertTxs) + Len(newAlerts)
      /\ Len(c) \in Nat /\ Len(alertTxs) \in Nat /\ Len(newAlerts) \in Nat
  BY <1>2
<1>8. PICK gone \in Nat : Rest(Kept, Alerts, gone) /\ (gone > 0 => Len(alertTxs) = MaxPanel)
  BY <1>1 DEF PanelInv
<1> HIDE DEF all, n
<1>9. CASE newAlerts = <<>>
  <2>1. alertTxs' = alertTxs
    BY <1>1, <1>9
  <2>2. all = alertTxs
    BY <1>2, <1>9 DEF all
  <2>3. Kept' = Kept
    BY <1>5, <1>6, <2>1, <2>2
  <2> QED
    BY <1>1, <1>4, <1>8, <2>1, <2>3 DEF PanelInv
<1>10. CASE newAlerts # <<>> /\ ~(n > MaxPanel)
  <2>1. alertTxs' = all
    BY <1>1, <1>10 DEF LastAlerts, n
  <2>2. Kept' = Kept
    BY <1>5, <1>6, <2>1
  <2>3. Len(newAlerts) > 0
    BY <1>2, <1>10
  <2>4. gone = 0
    BY <1>3, <1>7, <1>8, <1>10, <2>3
  <2> QED
    BY <1>1, <1>4, <1>8, <2>2, <2>4 DEF PanelInv
<1>11. CASE newAlerts # <<>> /\ n > MaxPanel
  <2> DEFINE d == n - MaxPanel
             new == SubSeq(all, d + 1, n)
  <2>1. d \in Nat /\ d < n /\ n = Len(all) /\ gone + d \in Nat
    BY <1>3, <1>7, <1>11 DEF n
  <2>2. alertTxs' = new
    BY <1>1, <1>11 DEF LastAlerts, n
  <2>3. Len(alertTxs') = MaxPanel
    <3>1. Len(new) = n - (d + 1) + 1
      <4> HIDE DEF d
      <4> QED
        BY <1>7, <2>1
    <3>2. n - (d + 1) + 1 = MaxPanel
      BY <1>3, <1>7
    <3> QED
      BY <2>2, <3>1, <3>2
  <2> HIDE DEF d
  <2>4. Rest(all \o c, Alerts, gone)
    BY <1>6, <1>8
  <2>5. Alerts \in Seq(Transaction)
    BY AlertsType
  <2>6. Rest(SubSeq(all, d + 1, Len(all)) \o c, Alerts, gone + d)
    BY <1>2, <1>7, <2>1, <2>4, <2>5, RestDrop
  <2>7. Rest(Kept', Alerts', gone + d)
    BY <1>4, <1>5, <2>1, <2>2, <2>6
  <2> QED
    BY <2>1, <2>3, <2>7 DEF PanelInv
<1> QED
  BY <1>9, <1>10, <1>11

\* Every step keeps the alerts.
LEMMA PanelStep ==
    ASSUME UiAssumption, TypeInv, PanelInv, [Next]_vars
    PROVE  PanelInv'
<1> DEFINE Still == UNCHANGED <<told, newAlerts, alertTxs, channel>> /\ (pc' # "stopped" => pc # "stopped")
<1>1. ASSUME Still
      PROVE  PanelInv'
  <2>1. Kept' = Kept /\ Alerts' = Alerts
    BY <1>1 DEF Kept, Waiting, Alerts, Announced, AlertTx
  <2> QED
    BY <1>1, <2>1 DEF PanelInv
<1>2. CASE TellOther(Block) \/ TellOther(MempoolStats)
  <2>1. PICK e \in {Block, MempoolStats} : channel' = Append(channel, e)
    BY <1>2 DEF TellOther
  <2>2. UNCHANGED <<told, newAlerts, alertTxs, pc>>
    BY <1>2 DEF TellOther, panelVars
  <2>3. e \in Output /\ e \notin AlertTx /\ channel \in Seq(Output)
    BY DEF Output, Block, MempoolStats, AlertTx, TypeInv, TypeOK
  <2>4. Selected(channel', AlertTx) = Selected(channel, AlertTx)
    BY <2>1, <2>3, SelectedAppend
  <2>5. Kept' = Kept /\ Alerts' = Alerts
    BY <2>2, <2>4 DEF Kept, Waiting, Alerts, Announced, AlertTx
  <2> QED
    BY <2>2, <2>5 DEF PanelInv
<1>3. CASE PipelineReturns \/ (\E batch \in Batches : StoreBatch(batch)) \/ Tick \/ Refresh
           \/ UNCHANGED vars
  <2>1. Still
    BY <1>3 DEF PipelineReturns, StoreBatch, Tick, Refresh, QueryRecent, QueryCount, QueryRange,
                vars, outsideVars, panelVars
  <2> QED
    BY <1>1, <2>1
<1>4. CASE RecvClosed
  BY <1>4 DEF RecvClosed, PanelInv
<1> QED
  BY <1>2, <1>3, <1>4, PanelTold, PanelReceive, PanelFlush DEF Next

(* No alert is lost, repeated or reordered between the pipeline and the    *)
(* panel, and only a full panel drops any, for every size of the panel,    *)
(* every order of messages and flushes and any other traffic.              *)
THEOREM PanelCorrect == Spec => []NewestKept
<1>1. Init => TypeInv /\ PanelInv
  <2>1. SUFFICES ASSUME Init
                 PROVE  PanelInv
    BY UiAssumption, InitTypeInv
  <2>2. channel = <<>> /\ told = <<>> /\ newAlerts = <<>> /\ alertTxs = <<>>
    BY <2>1 DEF Init
  <2>3. Announced = <<>>
    BY <2>2 DEF Announced
  <2>4. Alerts = <<>> /\ Kept = <<>>
    BY <2>2, <2>3, SelectedEmpty DEF Alerts, Kept, Waiting
  <2>5. Rest(Kept, Alerts, 0)
    BY <2>4 DEF Rest
  <2> QED
    BY <2>5 DEF PanelInv
<1>2. TypeInv /\ PanelInv /\ [Next]_vars => (TypeInv /\ PanelInv)'
  BY UiAssumption, StepType, PanelStep
<1>3. TypeInv /\ PanelInv => NewestKept
  <2>1. SUFFICES ASSUME TypeInv, PanelInv, pc # "stopped"
                 PROVE  /\ Len(Alerts) - Len(Kept) >= 0
                        /\ Kept = SubSeq(Alerts, (Len(Alerts) - Len(Kept)) + 1, Len(Alerts))
                        /\ Len(Alerts) - Len(Kept) > 0 => Len(alertTxs) = MaxPanel
    BY DEF NewestKept, Kept
  <2>2. PICK gone \in Nat : Rest(Kept, Alerts, gone) /\ (gone > 0 => Len(alertTxs) = MaxPanel)
    BY <2>1 DEF PanelInv
  <2>3. Kept \in Seq(Transaction) /\ Alerts \in Seq(Transaction)
    BY <2>1, AlertsType
  <2> DEFINE n == Len(Alerts)
             m == Len(Kept)
  <2>4. n \in Nat /\ m \in Nat /\ n = gone + m /\ n - m = gone
    BY <2>2, <2>3 DEF Rest
  <2>5. Kept = SubSeq(Alerts, gone + 1, n)
    <3>1. \A i \in (gone + 1)..n : Alerts[i] \in Transaction
      BY <2>3, <2>4, ElementOfSeq
    <3>2. /\ SubSeq(Alerts, gone + 1, n) \in Seq(Transaction)
          /\ Len(SubSeq(Alerts, gone + 1, n)) = m
          /\ \A i \in 1..m : SubSeq(Alerts, gone + 1, n)[i] = Alerts[gone + i]
      BY <2>3, <2>4
    <3>3. \A i \in 1..m : Kept[i] = Alerts[gone + i]
      BY <2>2 DEF Rest
    <3> HIDE DEF n
    <3> QED
      BY <2>3, <3>2, <3>3, SeqEqual
  <2> QED
    BY <2>2, <2>4, <2>5
<1> QED
  BY <1>1, <1>2, <1>3, PTL DEF Spec
=============================================================================
