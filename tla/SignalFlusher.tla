---------------------------- MODULE SignalFlusher ----------------------------
(***************************************************************************)
(* How a signal gets from the pipeline into the database: the unbounded    *)
(* channel and the background task of spawn_signal_flusher                 *)
(* (core/pipeline.rs), the batch insert of db/mod.rs, and the end of the   *)
(* runtime and of the process (main.rs).                                   *)
(*                                                                         *)
(* The task awaits only in select!, so everything between two awaits is    *)
(* one step; the batch is one SQL transaction, so a process that dies in   *)
(* it dies before or after it.  Signals are numbered in the order in which *)
(* the pipeline sends them, over all runs of the process.                  *)
(***************************************************************************)
EXTENDS Naturals, Sequences

CONSTANTS
    MaxSignals,     \* bound on the signals sent
    MaxFailures,    \* bound on failing database writes
    MaxExits        \* bound on the exits of the process

ASSUME FlusherBounds ==
    MaxSignals \in Nat /\ MaxFailures \in Nat /\ MaxExits \in Nat

VARIABLES
    sent,         \* signals the pipeline has sent
    queue,        \* the channel: sent and not yet received by the task
    buffer,       \* the task's buffer
    flusher,      \* where the task is: select, finished, cancelled
    pipeline,     \* run_pipeline: running, returned
    process,      \* up, down
    signals,      \* the table, in insertion order
    failures,     \* history: failed writes
    exits,        \* history: exits of the process
    cancelled     \* history: the task was dropped by the runtime

taskVars == <<queue, buffer, flusher>>
historyVars == <<failures, exits, cancelled>>
vars == <<sent, taskVars, pipeline, process, signals, historyVars>>

Start ==
    /\ queue = <<>> /\ buffer = <<>>
    /\ flusher = "select" /\ pipeline = "running" /\ process = "up"

Init ==
    /\ Start
    /\ sent = 0 /\ signals = <<>>
    /\ failures = 0 /\ exits = 0 /\ cancelled = FALSE

-----------------------------------------------------------------------------
(* The pipeline. *)

\* signal_tx.send; its error is ignored, so a task that is gone goes unnoticed.
Send ==
    /\ process = "up" /\ pipeline = "running"
    /\ sent < MaxSignals
    /\ sent' = sent + 1
    /\ queue' = Append(queue, sent')
    /\ UNCHANGED <<buffer, flusher, pipeline, process, signals, historyVars>>

\* run_pipeline returns and drops the sender.
PipelineReturns ==
    /\ process = "up" /\ pipeline = "running"
    /\ pipeline' = "returned"
    /\ UNCHANGED <<sent, taskVars, process, signals, historyVars>>

-----------------------------------------------------------------------------
(* The task. *)

\* Variant: the batch is not a transaction, its first row survives a failure.
RollbackKeepsFirst(batch) ==
    /\ failures < MaxFailures
    /\ failures' = failures + 1
    /\ signals' = Append(signals, batch[1])

\* store_signals_batch fails: nothing of the batch is in the table.
Rollback(batch) ==
    /\ failures < MaxFailures
    /\ failures' = failures + 1
    /\ UNCHANGED signals

\* store_signals_batch commits.
Commit(batch) ==
    /\ signals' = signals \o batch
    /\ UNCHANGED failures

Insert(batch) == Commit(batch) \/ Rollback(batch)

InSelect == process = "up" /\ flusher = "select"

\* buffer.push
Buffered(s) == Append(buffer, s)

ReceiveSignal ==
    /\ InSelect
    /\ queue # <<>>
    /\ buffer' = Buffered(Head(queue))
    /\ queue' = Tail(queue)
    /\ UNCHANGED <<sent, flusher, pipeline, process, signals, historyVars>>

\* Variant: the buffer is copied, not drained.
BufferKept == buffer

\* buffer.drain(..)
BufferDrained == <<>>

\* interval.tick: the batch leaves the buffer whether or not it is stored.  A
\* tick on an empty buffer changes nothing.
FlushTick ==
    /\ InSelect
    /\ buffer # <<>>
    /\ Insert(buffer)
    /\ buffer' = BufferDrained
    /\ UNCHANGED <<sent, queue, flusher, pipeline, process, exits, cancelled>>

\* Variant: the task ends without a look at its buffer.
LastBatch(committed) == UNCHANGED <<signals, failures>>

\* What is left is stored before the task ends.
FinalBatch(rest) == IF rest # <<>> THEN Insert(rest) ELSE UNCHANGED <<signals, failures>>

\* Variant: the end of the pipeline is enough, the channel is not emptied first.
FinalFlushEarly ==
    /\ InSelect
    /\ pipeline = "returned"
    /\ FinalBatch(buffer)
    /\ buffer' = <<>>
    /\ flusher' = "finished"
    /\ UNCHANGED <<sent, queue, pipeline, process, exits, cancelled>>

\* recv yields None: the sender is gone and the queue is empty.
FinalFlush ==
    /\ InSelect
    /\ pipeline = "returned" /\ queue = <<>>
    /\ FinalBatch(buffer)
    /\ buffer' = <<>>
    /\ flusher' = "finished"
    /\ UNCHANGED <<sent, queue, pipeline, process, exits, cancelled>>

-----------------------------------------------------------------------------
(* Endings. *)

\* main.rs: block_on has returned and the runtime is dropped, and with it the
\* task, wherever it waits.
DropRuntime ==
    /\ process = "up" /\ pipeline = "returned" /\ flusher = "select"
    /\ flusher' = "cancelled"
    /\ cancelled' = TRUE
    /\ queue' = <<>> /\ buffer' = <<>>
    /\ UNCHANGED <<sent, pipeline, process, signals, failures, exits>>

\* The window is closed and main returns, or the process is killed: threads
\* end where they are, only the database remains.
ExitProcess ==
    /\ process = "up" /\ exits < MaxExits
    /\ process' = "down"
    /\ exits' = exits + 1
    /\ queue' = <<>> /\ buffer' = <<>>
    /\ UNCHANGED <<sent, flusher, pipeline, signals, failures, cancelled>>

\* The program is started again on the same database.
Restart ==
    /\ process = "down"
    /\ process' = "up" /\ pipeline' = "running" /\ flusher' = "select"
    /\ UNCHANGED <<sent, queue, buffer, signals, historyVars>>

Next ==
    \/ Send \/ PipelineReturns
    \/ ReceiveSignal \/ FlushTick \/ FinalFlush
    \/ DropRuntime \/ ExitProcess \/ Restart

(* The runtime polls the task: a waiting signal is received, the interval  *)
(* ticks, a closed channel is noticed.  select! picks at random among what *)
(* is ready, so neither branch starves.                                    *)
TaskFairness ==
    /\ SF_vars(ReceiveSignal)
    /\ SF_vars(FlushTick)
    /\ WF_vars(FinalFlush)

Spec == Init /\ [][Next]_vars

FairSpec == Spec /\ TaskFairness

-----------------------------------------------------------------------------
(* Properties. *)

(* Every variable keeps its type; the task ends only after the pipeline,   *)
(* and nothing waits in a task that is gone with its channel.              *)
TypeOK ==
    /\ sent \in Nat /\ failures \in Nat /\ exits \in Nat
    /\ queue \in Seq(1..sent) /\ buffer \in Seq(1..sent) /\ signals \in Seq(1..sent)
    /\ flusher \in {"select", "finished", "cancelled"}
    /\ pipeline \in {"running", "returned"}
    /\ process \in {"up", "down"}
    /\ flusher # "select" => pipeline = "returned" /\ queue = <<>> /\ buffer = <<>>

(* A signal is lost only by a failed write, by the runtime dropping the    *)
(* task, or by the end of the process: otherwise the table, the buffer and *)
(* the channel hold, in this order, every signal ever sent, exactly once.  *)
NoSilentLoss ==
    failures = 0 /\ exits = 0 /\ ~cancelled =>
        signals \o buffer \o queue = [i \in 1..sent |-> i]

(* Through failures, cancellation and restarts, the table holds no signal  *)
(* twice and holds them in the order they were sent.                       *)
StoredInOrder ==
    \A i, j \in DOMAIN signals : i < j => signals[i] < signals[j]

(* The flusher implements SignalLog: what waits is the buffer followed by  *)
(* the channel, and it leaves from the front.                              *)
Log == INSTANCE SignalLog WITH emitted <- sent, line <- buffer \o queue, stored <- signals

LogSpec == Log!Spec

(* While the process lives and the runtime with it, every signal sent is   *)
(* eventually stored, unless a write failed.                               *)
EventuallyStored ==
    \A s \in 1..MaxSignals :
        sent >= s ~> (\/ \E i \in DOMAIN signals : signals[i] = s
                      \/ failures > 0 \/ exits > 0 \/ cancelled)
=============================================================================
