-------------------------------- MODULE UiFeed --------------------------------
(***************************************************************************)
(* The UI coroutine of ui/mod.rs: it takes what the pipeline tells it,     *)
(* collects alerts and puts them on the panel once a second, and reads the *)
(* signal history from the database that the flusher task writes.          *)
(*                                                                         *)
(* The coroutine gives way only in select!, but refresh_history takes the  *)
(* lock of the database once per query, so a batch of the flusher can come *)
(* between two of its queries: each query is a step.                       *)
(*                                                                         *)
(* The interval between two flushes of the panel is left out: a flush may  *)
(* come whenever the coroutine is in select!.  `now` is the wall clock of  *)
(* the database.  The statistics go to the panel as they come and are left *)
(* out but for their message.                                              *)
(***************************************************************************)
EXTENDS Naturals, FiniteSets, Sequences, Selection

CONSTANTS
    Score,           \* composite scores that occur
    AlertMin,        \* scores from here on are buffered (40.0)
    PersistMin,      \* min_score_persist: scores above are stored
    MaxPanel,        \* alerts that are kept (200)
    HistoryMin,      \* scores of the history (10.0)
    MaxHistory,      \* its length (50)
    RefreshTx,       \* it is refreshed every so many transactions (500)
    Hour, Day,       \* windows of the history's summary
    Earlier,         \* tables that earlier runs may have left: their scores
    MaxTxs,          \* bound on the transactions told
    MaxQueued,       \* bound on what waits in the channel
    MaxRows,         \* bound on the rows the flusher brings the table to
    MaxFailures,     \* bound on failing queries
    MaxTime          \* bound on the clock

ASSUME UiAssumption ==
    /\ Score \subseteq Nat
    /\ Earlier \subseteq Seq(Nat)
    /\ AlertMin \in Nat /\ PersistMin \in Nat /\ HistoryMin \in Nat
    /\ MaxPanel \in Nat \ {0} /\ MaxHistory \in Nat \ {0} /\ RefreshTx \in Nat \ {0}
    /\ Hour \in Nat /\ Day \in Nat /\ Hour <= Day
    /\ MaxTxs \in Nat /\ MaxQueued \in Nat /\ MaxRows \in Nat
    /\ MaxFailures \in Nat /\ MaxTime \in Nat

VARIABLES
    channel,           \* told and not yet received
    senderOpen,        \* run_pipeline has not returned
    told,              \* history: the scores of all transactions told
    signals,           \* the table: score, created_at, what was received by then
    now,
    pc,                \* select, a query of refresh_history, or stopped
    newAlerts,         \* new_alerts
    localTxCount, txSinceRefresh,
    found,             \* the locals of refresh_history
    failed, failures,  \* history: in the last refresh; in all
    alertTxs,          \* signals of the UI: the alerts, the number of
    txCount,           \*   transactions, the history, its summary
    history,
    signalStats

outsideVars == <<senderOpen, told, signals, now>>
panelVars == <<newAlerts, localTxCount, alertTxs, txCount>>
refreshVars == <<found, failed, failures, history, signalStats>>
vars == <<channel, outsideVars, pc, panelVars, txSinceRefresh, refreshVars>>

NoCounts == [total |-> 0, hour |-> 0, day |-> 0]
NothingFound == [total |-> 0, hour |-> 0, day |-> 0, to |-> 0]

Row(score, seen) == [score |-> score, at |-> now, seen |-> seen]

Init ==
    /\ channel = <<>> /\ senderOpen = TRUE /\ told = <<>>
    /\ now = 0
    /\ \E scores \in Earlier : signals = [i \in DOMAIN scores |-> Row(scores[i], 0)]
    /\ pc = "select"
    /\ newAlerts = <<>> /\ localTxCount = 0 /\ txSinceRefresh = 0
    /\ found = NothingFound /\ failed = FALSE /\ failures = 0
    /\ alertTxs = <<>> /\ txCount = 0 /\ history = {} /\ signalStats = NoCounts

-----------------------------------------------------------------------------
(* The surroundings: the pipeline, the flusher, time. *)

NewTx(score) == [type |-> "NewTx", id |-> Len(told) + 1, score |-> score]

Block == [type |-> "BlockConnected"]

MempoolStats == [type |-> "MempoolStats"]

TellTx(score) ==
    /\ senderOpen /\ Len(told) < MaxTxs /\ Len(channel) < MaxQueued
    /\ channel' = Append(channel, NewTx(score))
    /\ told' = Append(told, score)
    /\ UNCHANGED <<senderOpen, signals, now, pc, panelVars, txSinceRefresh, refreshVars>>

\* A block, or statistics: as often as the node and the timer will have it.
TellOther(output) ==
    /\ senderOpen /\ Len(channel) < MaxQueued
    /\ channel' = Append(channel, output)
    /\ UNCHANGED <<senderOpen, told, signals, now, pc, panelVars, txSinceRefresh, refreshVars>>

PipelineReturns ==
    /\ senderOpen
    /\ senderOpen' = FALSE
    /\ UNCHANGED <<channel, told, signals, now, pc, panelVars, txSinceRefresh,
                   refreshVars>>

\* Scores of signals.  The pipeline sends a signal to the flusher before it
\* tells the UI of the transaction: rows may be ahead of the channel.
Batches ==
    UNION {[1..n -> {score \in Score : score > PersistMin}] : n \in 1..MaxRows}

\* The flusher commits a batch: rows are only ever added.
StoreBatch(batch) ==
    /\ Len(signals) + Len(batch) <= MaxRows
    /\ signals' = signals \o [i \in DOMAIN batch |-> Row(batch[i], localTxCount)]
    /\ UNCHANGED <<channel, senderOpen, told, now, pc, panelVars, txSinceRefresh, refreshVars>>

Tick ==
    /\ now < MaxTime
    /\ now' = now + 1
    /\ UNCHANGED <<channel, senderOpen, told, signals, pc, panelVars,
                   txSinceRefresh, refreshVars>>

-----------------------------------------------------------------------------
(* The coroutine in select!. *)

Receive(type) ==
    /\ pc = "select"
    /\ channel # <<>>
    /\ Head(channel).type = type
    /\ channel' = Tail(channel)

IsAlert(tx) == tx.score >= AlertMin

\* Variant: the refresh waits for one transaction more.
RefreshDueLate(count) == count > RefreshTx

RefreshDue(count) == count >= RefreshTx

ReceiveTx ==
    /\ Receive("NewTx")
    /\ LET tx == Head(channel)
           count == txSinceRefresh + 1
       IN  /\ localTxCount' = localTxCount + 1
           /\ newAlerts' = IF IsAlert(tx) THEN Append(newAlerts, tx) ELSE newAlerts
           /\ txSinceRefresh' = IF RefreshDue(count) THEN 0 ELSE count
           /\ pc' = IF RefreshDue(count) THEN "recent" ELSE pc
    /\ UNCHANGED <<outsideVars, alertTxs, txCount, refreshVars>>

\* A block refreshes the history too, and the count goes on.  Its height is 0
\* and not shown.
ReceiveBlock ==
    /\ Receive("BlockConnected")
    /\ pc' = "recent"
    /\ UNCHANGED <<outsideVars, panelVars, txSinceRefresh, refreshVars>>

\* Copied to the panel.
ReceiveStats ==
    /\ Receive("MempoolStats")
    /\ UNCHANGED <<outsideVars, pc, panelVars, txSinceRefresh, refreshVars>>

\* Variant: never drained.
AllAlerts(alerts) == alerts

\* Variant: drained from the other end.
FirstAlerts(alerts) ==
    IF Len(alerts) > MaxPanel THEN SubSeq(alerts, 1, MaxPanel) ELSE alerts

\* writer.drain(0..len - 200)
LastAlerts(alerts) ==
    IF Len(alerts) > MaxPanel THEN SubSeq(alerts, Len(alerts) - MaxPanel + 1, Len(alerts))
                              ELSE alerts

\* Variant: set with the alerts only.
TitleWithAlerts == IF newAlerts # <<>> THEN localTxCount ELSE txCount

TitleCount == localTxCount

FlushUi ==
    /\ pc = "select"
    /\ alertTxs' = IF newAlerts # <<>> THEN LastAlerts(alertTxs \o newAlerts) ELSE alertTxs
    /\ newAlerts' = <<>>
    /\ txCount' = TitleCount
    /\ UNCHANGED <<channel, outsideVars, pc, localTxCount, txSinceRefresh, refreshVars>>

\* recv yields None: the loop ends, and the buffer with it.
RecvClosed ==
    /\ pc = "select" /\ channel = <<>> /\ ~senderOpen
    /\ pc' = "stopped"
    /\ newAlerts' = <<>>
    /\ UNCHANGED <<channel, outsideVars, localTxCount, alertTxs, txCount, txSinceRefresh,
                   refreshVars>>

-----------------------------------------------------------------------------
(* refresh_history: four queries, in this order. *)

\* Variant: the longer window is counted first.
NextQueryDayFirst ==
    [recent |-> "count", count |-> "day", day |-> "hour", hour |-> "select"]

NextQuery ==
    [recent |-> "count", count |-> "hour", hour |-> "day", day |-> "select"]

RowScore(r) == signals[r].score

\* get_signals_above_score: rows with the highest scores; among equal ones the
\* database chooses.
Recent ==
    LET rows == {r \in DOMAIN signals : RowScore(r) >= HistoryMin}
    IN  {top \in SUBSET rows :
            /\ Cardinality(top) = IF Cardinality(rows) < MaxHistory THEN Cardinality(rows)
                                                                    ELSE MaxHistory
            /\ \A r \in top, s \in rows \ top : RowScore(r) >= RowScore(s)}

\* get_signals_by_timerange, from a span before to until to.
InRange(span, to) ==
    Cardinality({r \in DOMAIN signals : signals[r].at + span >= to /\ signals[r].at <= to})

Fails ==
    /\ failures < MaxFailures
    /\ failures' = failures + 1
    /\ failed' = TRUE

\* The query's answer, or 0 where it fails.
Result(answer, result) ==
    \/ result = answer /\ UNCHANGED <<failed, failures>>
    \/ result = 0 /\ Fails

\* The list is set at once; a failure leaves it as it was.
QueryRecent ==
    /\ pc = "recent"
    /\ pc' = NextQuery["recent"]
    /\ \/ history' \in Recent /\ failed' = FALSE /\ UNCHANGED failures
       \/ UNCHANGED history /\ Fails
    /\ UNCHANGED <<channel, outsideVars, panelVars, txSinceRefresh, found, signalStats>>

\* The windows end at the time after the first two queries.
QueryCount ==
    /\ pc = "count"
    /\ pc' = NextQuery["count"]
    /\ \E n \in {0, Len(signals)} :
          /\ Result(Len(signals), n)
          /\ found' = [found EXCEPT !.total = n, !.to = now]
    /\ UNCHANGED <<channel, outsideVars, panelVars, txSinceRefresh, history, signalStats>>

\* The last of the queries sets the summary (its average score is left out).
QueryRange(window, span) ==
    /\ pc = window
    /\ pc' = NextQuery[window]
    /\ \E n \in {0, InRange(span, found.to)} :
          LET counts == [found EXCEPT ![window] = n]
          IN  /\ Result(InRange(span, found.to), n)
              /\ IF NextQuery[window] = "select"
                 THEN /\ signalStats' = [k \in DOMAIN NoCounts |-> counts[k]]
                      /\ found' = NothingFound
                 ELSE found' = counts /\ UNCHANGED signalStats
    /\ UNCHANGED <<channel, outsideVars, panelVars, txSinceRefresh, history>>

Refresh == QueryRecent \/ QueryCount \/ QueryRange("hour", Hour) \/ QueryRange("day", Day)

Next ==
    \/ \E score \in Score : TellTx(score)
    \/ TellOther(Block) \/ TellOther(MempoolStats)
    \/ PipelineReturns
    \/ \E batch \in Batches : StoreBatch(batch)
    \/ Tick
    \/ ReceiveTx \/ ReceiveBlock \/ ReceiveStats \/ FlushUi \/ RecvClosed
    \/ Refresh

Spec == Init /\ [][Next]_vars

(* The interval always elapses and the coroutine is polled.  When both     *)
(* branches of select! are ready tokio picks one at random: a branch that  *)
(* is ready again and again is taken at last, although a refresh makes it  *)
(* wait in between.  That is assumed, not shown.  The queries of a refresh *)
(* follow each other.                                                      *)
Fairness ==
    /\ SF_vars(ReceiveTx \/ ReceiveBlock \/ ReceiveStats)
    /\ SF_vars(FlushUi)
    /\ WF_vars(Refresh)

FairSpec == Spec /\ Fairness

-----------------------------------------------------------------------------
(* Properties. *)

Transaction == [type : {"NewTx"}, id : Nat, score : Nat]

Output == Transaction \cup {Block, MempoolStats}

(* Every variable keeps its type, the panel and the history their bounds,  *)
(* and what is shown is never ahead of what was received.                  *)
TypeOK ==
    /\ channel \in Seq(Output) /\ told \in Seq(Nat)
    /\ signals \in Seq([score : Nat, at : 0..now, seen : 0..localTxCount])
    /\ pc \in {"select", "stopped"} \cup DOMAIN NextQuery
    /\ newAlerts \in Seq(Transaction) /\ alertTxs \in Seq(Transaction)
    /\ Len(alertTxs) <= MaxPanel
    /\ txSinceRefresh < RefreshTx
    /\ txCount <= localTxCount
    /\ localTxCount \in Nat
    /\ history \subseteq DOMAIN signals /\ Cardinality(history) <= MaxHistory

AlertTx == [type : {"NewTx"}, id : Nat, score : {n \in Nat : n >= AlertMin}]

\* The transactions told, as they were sent.
Announced == [i \in DOMAIN told |-> [type |-> "NewTx", id |-> i, score |-> told[i]]]

Alerts == Selected(Announced, AlertTx)

\* Told and not yet on the panel.
Waiting == newAlerts \o Selected(channel, AlertTx)

(* No alert is lost, repeated or reordered on its way through channel,     *)
(* buffer and panel: together they hold the newest of them in order, and   *)
(* what is missing was pushed off a full panel.                            *)
NewestKept ==
    pc # "stopped" =>
        LET kept == alertTxs \o Waiting
            gone == Len(Alerts) - Len(kept)
        IN  /\ gone >= 0
            /\ kept = SubSeq(Alerts, gone + 1, Len(Alerts))
            /\ gone > 0 => Len(alertTxs) = MaxPanel

(* What the history panel says agrees with itself although the flusher     *)
(* writes between its queries, unless one of them failed: the last hour is *)
(* not more than the last day, and the rows listed not more than the total *)
(* (which may be less than the last day).                                  *)
SummaryAgrees ==
    pc = "select" /\ ~failed =>
        /\ signalStats.hour <= signalStats.day
        /\ Cardinality(history) <= signalStats.total

(* The history is no more than RefreshTx transactions old, unless the last *)
(* refresh failed: a row stored before so many were received is listed, or *)
(* outranked.                                                              *)
HistoryCurrent ==
    pc = "select" /\ ~failed =>
        \A r \in DOMAIN signals :
            RowScore(r) >= HistoryMin /\ signals[r].seen + RefreshTx <= localTxCount =>
                \/ r \in history
                \/ /\ Cardinality(history) = MaxHistory
                   /\ \A h \in history : RowScore(h) >= RowScore(r)

Shown(n) ==
    /\ txCount >= n
    /\ told[n] >= AlertMin => alertTxs # <<>> /\ alertTxs[Len(alertTxs)].id >= n

(* Whatever else is told, without end, and however often the history is    *)
(* refreshed: a transaction told is counted in the title at last, and an   *)
(* alert put on the panel with those before it, unless run_pipeline        *)
(* returned and the coroutine ended with it.                               *)
EventuallyShown ==
    \A n \in 1..MaxTxs : Len(told) >= n ~> pc = "stopped" \/ Shown(n)
=============================================================================
