# TxRadar10: verification

TLA+ models of TxRadar10, a desktop program that watches the mempool of a Bitcoin node: it reads
the node's ZMQ publications, resolves and scores every transaction, keeps a picture of the mempool,
and shows and stores what looks interesting.  The models are checked with TLC on small instances;
the theorems are proved with TLAPS for all values of the constants.  Paths are relative to the
root of the repository (`src/core/...` is the crate's own `src` directory).

## 1. The system

Three threads and the file they leave behind:

```
 bitcoind ==ZMQ rawtx, hashblock, sequence==> subscriber thread        rpc/zmq_sub.rs
                                                   | channel of MempoolEvent (unbounded)
 bitcoind <==JSON-RPC getrawtransaction==>  pipeline task              core/pipeline.rs
                                                   |     \ channel of signals (unbounded)
                                                   |      flusher task -> SQLite  db/mod.rs
                                                   | channel of PipelineOutput (unbounded)
                                              UI coroutine             ui/mod.rs
```

| Component | State | Operations | What makes it correct |
|---|---|---|---|
| Mempool tracker `core/mempool.rs` | `entries`, `replacement_chain`, `removal_stats` | `add_tx`, `remove_tx`, `prune_old`; dormant: `record_replacement`, `confirm_txids`; statistics | lifecycle of a transaction; counters, links and statistics agree with the entries; pruning drops nothing pending |
| Subscriber `rpc/zmq_sub.rs` | `last_seq`, sockets | poll, read one message per ready topic, dispatch, gap warning | every publication read becomes its event once; gaps noticed; malformed messages skipped; ends when nobody listens |
| Event loop `core/pipeline.rs` | tracker, counters, timers, `last_sent` of the notifier | one handler per event, an await in the first | the tracker mirrors the events; signals complete; timers kept; ends when the UI is gone |
| Signal flusher `core/pipeline.rs`, `db/mod.rs` | buffer, channel, table `signals` | receive, flush on a tick, final flush | no signal lost silently, none twice, order kept |
| Prevouts and cache `core/pipeline.rs`, `db/mod.rs` | table `utxo_cache`, sums of the loop | look up, ask, cache, add up | cache tells the truth; complete sums are exact |
| Address tags `tags/mod.rs`, `db/mod.rs` | in-memory map, table `address_tags` | CSV load, load into memory, input matches, cluster expansion | a derived tag is earned; tags only improve; table follows memory |
| Notifier `notifications.rs` | `last_sent` | threshold, cooldown | quota |
| RPC client `rpc/mod.rs`, `config.rs` | where port and credentials come from | `Config::load`, `from_config_with_defaults`, `call` | the credentials that the user has are found; no timeout |
| Signal engine, rules, CoinJoin `signals/*` | weights, thresholds | `detect_coinjoin`, `evaluate` of eight rules, `score`, `compute_composite` | one verdict, whatever order the HashMap has; the score degrades with what is unknown and never overshoots; levels mean what the docs say |
| UI `ui/*` | alert buffer, panel, history and its summary | receive, flush, `refresh_history` | no alert lost or reordered, the history current and consistent |
| Schema, transaction parsing | none | SQL text, calls into the `bitcoin` crate | not modelled |

What is hard here: two sockets without a common order that feed one map; an await inside a handler
while everything else goes on; three tasks that learn of each other's end only by a failing send;
loss at the edges (ZMQ, RPC, database, runtime shutdown, process exit); state that several methods
write (replacement links, memory and table of tags); timers that run only when a transaction
comes.  `PROJECT.json` lists these hazards at their lines with the properties that cover them.

## 2. The modules

| Module | Models | State and actions |
|---|---|---|
| `MempoolOps` | the data and the methods of the tracker, as operators | none; used by the next two users |
| `MempoolState` | `MempoolState` as a state machine | one action per method that writes, and the clock |
| `TxLifecycle` | abstract: what the tracker promises about a transaction | `Enter`, `Depart`, `Forget` |
| `MempoolEvents` | the four events | none |
| `ZmqSubscriber` | the subscriber thread, the node and the network around it | `Poll`, `RecvRawtx`, `RecvHashblock`, `RecvSequence`; external: `Accept`, `Evict`, `Mine`, `Connect`, `Unmine`, `Disconnect`, `Malformed`, `Lose` |
| `Pipeline` | `run_pipeline` with the notifier | one action per handler, two for `TxAdded` (before and after the await), and the surroundings |
| `TxRadar` | the composition of the two over their channel | extends `Pipeline`, with the steps of an instance of `ZmqSubscriber` in the place of its `SubscriberNext` |
| `SignalFlusher` | the flusher task, the batch insert, runtime and process | `ReceiveSignal`, `FlushTick`, `FinalFlush`, `DropRuntime`, `ExitProcess`, `Restart` |
| `SignalLog` | abstract: what signal persistence promises | `Emit`, `Store`, `GiveUp` |
| `Prevouts` | `resolve_prevout`, `resolve_all_prevouts`, `utxo_cache` | `Ask`, `Answer`, `NoAnswer`, `CacheHit`, `SkipCoinbase` |
| `TagLookup` | `TagLookup`, `address_tags`, the CSV load | `StartProcess`, `ExitProcess`, `ExpandFromTx` |
| `Enrichment` | the composition of the two inside the handler of `TxAdded` | `BeginTx`, `ResolveStep`, `Enrich`, `StartUp`, `ShutDown`, `MineBlock` |
| `CoinJoin` | `detect_coinjoin` | operators; `DetectCoinjoin` is the set of verdicts the code can come to |
| `Scoring` | what the handler of `TxAdded` adds up, the rules, the composite score, the level | a transaction that grows: `AddInputs`, `AddOutput`, `Resolve` |
| `UiFeed` | the UI coroutine, with the flusher's table as something that grows beside it | `ReceiveTx`, `ReceiveBlock`, `ReceiveStats`, `FlushUi`, `RecvClosed`, one action per query of `refresh_history` |
| `Selection` | the part of a sequence that is in a set, in order | operators, used by the properties |
| `RpcClient` | `Config::load`, the choice in `main`, `from_config_with_defaults` | `LoadConfig`, `UseConfig`, `UseCookie`, `OpenConf`, `ReadLine`, `ReadPort`, `EndOfConf` |
| `MempoolStateProofs`, `SignalFlusherProofs`, `EnrichmentProofs`, `ScoringProofs`, `RpcProofs`, `UiFeedProofs`, `PipelineProofs` | | theorems |
| `SelectionProofs` | | the lemmas about sequences that the others share |
| `MC*` | instances for TLC | |

How the code is cut into steps.  A tokio task gives way only at an await, so everything between
two awaits is one action: `TxAddedStarts` runs to the await in `resolve_all_prevouts`,
`TxAddedFinishes` from there to the end of the handler, tracker, score, notification, signal, UI
message, statistics and pruning included.  The subscriber thread shares nothing but the channel,
so reading and sending one message is one step; which topics one poll finds is chosen once and
they are read in the order of the code.  The UI coroutine gives way only in `select!`, but each
query of `refresh_history` takes the lock of the database for itself, so each is an action and batches come between them.  A batch of signals is one SQL transaction, so a process
that dies in it dies before or after it.

How the data is abstracted.
- A transaction's score, fee rate and CoinJoin verdict are chosen freely in `Pipeline` and
  `Enrichment`; `Scoring` computes them.  Fees and virtual sizes are sums over the pending set and stay with `PendingCount`.
- Hashes in `Pipeline` and `TxRadar` are short byte sequences, because the handler of `TxRemoved`
  reverses them: with two hashes that are each other's reversal, a mixed-up byte order turns one
  transaction into the other.
- `Utc::now` and `Instant::now` are one variable `now`; a wall clock that jumps is not modelled.
- Time and height of a block are its number in `Prevouts`, without coin days destroyed.  `Scoring` has
  the age in whole days (0 for an output in no block) and the coin days.
- `Scoring` computes in whole numbers, rounded down, where the code has f64: a rule's value in steps of
  1/`Unit`.  Rounding down is monotonic, as the properties need.  The vsize is one more than inputs and
  outputs together.  The order of inputs and of outputs does not matter to the code and is left out.
  The thresholds of the levels are the defaults; the weights may be overridden.
- In `UiFeed` the interval between two flushes is left out (a flush may come at any time), and so are what the
  statistics say, the height of a block (always 0) and the average score.  A row of the table is a score, a time and how much had been
  received when it was stored.  Rows come independently of what the UI is told: the pipeline queues a signal for the
  flusher before it tells the UI (`core/pipeline.rs:366`, `:388`), and earlier runs may have left rows.
- In `RpcClient` a value is named by the place it comes from: the configuration, the cookie, a line of `bitcoin.conf`, or a default.
- A confidence is a whole number of 1/`Unit`, the factor 0.7 a rounded-down product.

Assumptions about the node, which is not in the repository.  The models take the code's view of
it: a sequence message is a 32-byte hash in internal byte order and a one-byte label, as
`parse_sequence_body` reads it (`rpc/zmq_sub.rs:25`).  A mined transaction leaves the mempool
without an 'R'.  The rawtx topic carries a transaction when it enters the mempool, and again with every block that
holds it, when the block is connected and when it is disconnected; coinbases come in no other way, which is why
`core/pipeline.rs:114` skips their inputs.  A block is therefore a `Mine` for each of its transactions, whether it was in the
mempool or not, and then one `Connect`; a reorganisation is an `Unmine` for each and a `Disconnect`.  A funding transaction that was mined stays mined.  Publications of one topic
keep their order; any of them may be lost.

"Variant" definitions are plausible mistakes in the definition after them.  No specification uses
them: substituting one must make TLC find the property violated that `PROJECT.json` names
(`mutants`).

## 3. The runs

Passing runs.

| Run | Question | Instance and bounds |
|---|---|---|
| `mempool` | Do statistics, links and pruning agree with the entries under any calls? Does the tracker implement `TxLifecycle`? | 2 txids, rates at both ends (0, 100), clock to 2, 2 counted and 1 uncounted removals, age 0 |
| `zmq` | What reaches the channel, and what is warned of, for any interleaving, loss and malformed message? | 1 transaction, 1 block, 4 node events (a mined transaction is one, its block another), 1 lost, 1 malformed, counter modulo 3; with and without the sequence socket |
| `pipeline` | Does the loop keep the tracker, the signals and its timers right? | 2 mirrored hashes, 1 block, 4 events, clock to 4, scores on both sides of the thresholds |
| `radar` | Does the program show what the node told of its mempool, handle everything, and end? | 1 hash, 1 block, 3 node events, 1 lost |
| `flusher` | Is a signal ever lost, repeated or reordered silently? Is it stored in the end? | 4 signals, 2 failures, 2 exits |
| `enrichment` | Is the cache true, the sum exact, a derived tag earned? | 2 funding transactions with 2 outputs each, 3 addresses (a tag can travel through two transactions), 2 transactions, 2 blocks, 2 database failures, 1 failing call, 1 restart, 2 editions of the CSV file |
| `ui` | Does every alert get on the panel, is the history current and consistent while rows are stored between its queries, is each transaction counted and shown in the end while other messages never stop? | 2 transactions, blocks and statistics without end, 2 messages in the channel, 1 row of an earlier run and 1 new one, clock to 1, 1 failing query; panel and history of length 1, refreshed every 2 transactions |
| `scoring` | Can a verdict or a score depend on something it should not: the order of a HashMap, a participant more, an input that could not be resolved? | 3 kinds of inputs (dust, old large coins, an exchange's), 2 output values, up to 5 inputs and 10 outputs, or 40 inputs and 2 outputs; default weights, all zero, some overridden |

Why the bounds are enough.  Two txids show every interplay of entries (one replaces the other, one
is pruned beside the other).  Four node events are accept, remove and accept again, or accept, mine, connect and unmine, in any
order; the counter modulo 3 wraps within them, while fewer messages can be missing (2) than the
counter has values, which `GapWarningsExact` needs.  Four pipeline events are two announcements with
their removals, or one that is repeated; the clock to 4 passes each interval (2) twice.  Two
transactions resolve each other's cache rows and derive a tag from a derived one; two failures are
an insert that fails and a later look-up that fails.  One restart with another edition of the CSV
file is enough to put old derived tags beside new file tags.  The thresholds of `detect_coinjoin` are at 3
and 5 participants, 10 equal outputs and shares of outputs, all of which 5 inputs and 10 outputs pass; 40 inputs, resolved at once,
are large and old enough that a deposit is Critical.  Of two alerts one is pushed off a panel of length 1, the
history is refreshed by the count of transactions and by blocks, any number of times; the new row outranks the old one in a history of
one, and can be stored before, between and after all queries.  Blocks and statistics are not counted, only the channel is
bounded, so behaviours in which they never stop are among those checked.

What the properties say in one line each; the modules state them in full.

- `ReplacementLinks`, `PruneTakesOldWithLinks`: the two places that know a replacement agree, and go together.
- `NonPendingCounted`, `RemovalsAddUp`: the removal counters fall behind neither the departed entries nor exceed the removals.
- `LifecycleSpec`: refinement of `TxLifecycle`.
- `GapWarningsExact`: one warning per skipped run of messages, and one false one per wrap of the u32 counter.
- `NothingTwice`, `CompleteWhenDrained`: no event more than the node published, none less if nothing was lost.  A transaction is announced
  anew by each block connected or disconnected with it.  Of a connected block there are two events with the sequence topic, one without.  The pipeline counts both: `block_count` is up to twice the blocks.
- `PendingMirrorsEvents`: pending is exactly what was announced after it was last removed.
- `SignalsComplete`, `NotifierQuota`: nothing above the threshold is missed; a notification is shown exactly when it is due and the cooldown has passed.
- `PrunedInTime`, `StatsFreshAfterTx`: both timers, at each handled transaction.
- `MirrorsNode`: a transaction is shown as pending exactly if the last the node published of it was an announcement; so what the user sees
  differs from the node's mempool only by lost or reordered messages and by blocks, whose transactions are announced anew.
- `EventuallyHandled`: a transaction is scored as often as it was announced, in the end, and a removal handled; for a boundedly busy node and
  an RPC server that answers.  `WindsDown`: the shutdown.
- `NoSilentLoss`, `StoredInOrder`, `EventuallyStored`, `LogSpec`: the way of a signal.
- `CacheTruthful`, `ResolvedIsExact`: the cache and the sums.
- `ClusterTagsEarned`, `TagsOnlyImprove`, `TableFollowsMemory`: the tags.
- `NewestKept`: panel, buffer and channel together hold the newest alerts, in order and once; what is missing was pushed off a full panel.
- `SummaryAgrees`, `HistoryCurrent`: the summary's counts fit each other, and the list is at most `RefreshTx` transactions old.
- `EventuallyShown`: each transaction told is counted under the title in the end, and each alert put on the panel, whatever else is told without end.
- `VerdictIsUnique`: of two most common values neither is more than half of the outputs, so a tie changes nothing.
- `JoiningKeepsVerdict`: no step between the thresholds loses a CoinJoin that another participant joins.
- `KnowingMoreRaises`: one more resolved input never lowers the score, exchanges' inputs aside.
- `CriticalIsDeposit`: with the default weights only a payment to a known exchange that is no CoinJoin is Critical.

Runs that find a disagreement between the code and what the repository says of it.

| Run | Property | What it shows |
|---|---|---|
| `radar_reorder` | `PendingIsPool` | `docs/ARCHITECTURE.md:15` speaks of ordered mempool events; a removal read before its announcement leaves the transaction pending for good |
| `radar_mined` | `MinedConfirmed` | `ARCHITECTURE.md:82` has a mined transaction Confirmed; nothing ever sends that reason; it stays Pending (and is never pruned), or becomes pending anew by the rawtx of its block |
| `credentials` | `CredentialsDetected` | `ARCHITECTURE.md:75` and `config.toml:7` have the credentials read from `bitcoin.conf`; a line `rpcport=` before them ends the reading (`rpc/mod.rs:56`) |
| `enrichment_cached` | `FromExchangeSeen` | `docs/EXCHANGE_TAGGING.md:26` checks the inputs of every transaction; a cached input has no address |

Seen while modelling, without a run: the transactions of a block are handled like announcements (`rpc/zmq_sub.rs:139`), coinbases
included, so each is put into the tracker, scored, stored and shown once more, and counted as pending from then on;
`docs/SIGNALS.md:11` calls the value of a transaction the sum of its outputs, the rule takes that of its inputs;
the answer of Bitcoin Core's `getrawtransaction` has neither field of the height that `core/pipeline.rs:69` reads, so with it a height
is always 0 (times are right, and the rules use the times); `record_replacement` is called by a test
only and `confirm_txids` by nothing, so replacement links do not arise in the program; `docs/ARCHITECTURE.md:17` promises a resync after a gap, the
code logs a line; `ARCHITECTURE.md:100` has statistics every 5 seconds, they are sent only when a
transaction or a block arrives; every block event has height 0, so `block_height_seen` is always 0;
`remove_tx` rewrites an entry that has already departed; when the tags cannot be read at the start
the memory is empty for the whole run, without a message; `oldest_height` accepts a height of 0
after the first input (`core/pipeline.rs:143`), which the node's answers do not bring about; the score is out
of the sum of the absolute weights, in which a rule that cannot reach its weight (RBF gives at most half) and
the CoinJoin penalty count too, so a score of 100 cannot be reached with the default weights.

Also: an RPC server that does not answer stops the event loop for good, since the handler awaits it without a
timeout (`rpc/mod.rs:84`), while `docs/ARCHITECTURE.md:6` has enrichment asynchronous; the runtime is dropped as
soon as the pipeline returns, before the flusher has flushed "what remains" (`core/pipeline.rs:210`, `main.rs:96`),
which happens only when the subscriber thread fails; the environment variables of `ARCHITECTURE.md:73` are read
nowhere, and a port in `bitcoin.conf` counts only if there is no cookie; the cookie is read once, so after a restart
of the node every call fails until the program is restarted; `stats_update_interval_txs = 0` makes a modulus panic at
the first transaction; the UI buffers every score from 40 on, whatever the thresholds are, although its comment says
High and Critical (`ui/mod.rs:70`), so that Medium ones, which the panel does not show, push alerts out of the 200
kept; alerts still in the buffer when the channel closes are dropped; a batch stored between two queries can make the
last day larger than the total.

## 4. Fairness

- `SignalFlusher`: strong fairness of `ReceiveSignal` and of `FlushTick`, because `select!` picks at
  random among the ready branches, so one that is ready again and again is taken; weak fairness of
  `FinalFlush`, which stays ready.  None for failures, exits or the dropped runtime.
- `TxRadar`: weak fairness of the thread while it has topics to read and of the task, which the
  operating system and the runtime schedule; strong fairness, per topic, of a poll that finds it
  readable, since a published message arrives in the end; weak fairness of the RPC answers.  The
  last is an assumption about the server; the code sets no timeout, and without it the loop may stand still.
- `UiFeed`: strong fairness of receiving and of `FlushUi`, because tokio's `select!` begins with a
  branch picked at random: when a message and the deadline are both ready, each is taken with a fixed chance, so that neither waits for
  ever.  Strong, because a refresh disables both in between.  That neither branch starves is thus assumed, not shown; what
  `EventuallyShown` adds is that refreshes, a closing channel and endless other messages do not lose a transaction or keep it from the title
  and the panel.  Weak fairness of the queries, which follow each other.  None for the pipeline, the flusher or the clock.
- The node, the loss of messages, the user and the clock have none.

`CHECK_DEADLOCK FALSE` is given where the program really stops (thread and task have returned, the
process has exited) or the bounds are used up; `Mempool.cfg` needs none.

## 5. The proofs

`MempoolStateProofs`, from the assumptions on the constants in `MempoolOps` and `MempoolState`:

- `TypeCorrect`: `TypeOK` is inductive by itself.
- `RemovalsCounted`: `NonPendingCounted` is inductive together with `TypeOK`.  The argument is one of
  cardinality: each method's effect on the set of departed entries is a lemma
  (`DepartedAfterRemoval` and its neighbours), a removal adds at most one element and counts it exactly when it does.
- `LinksAgree`: `ReplacementLinks` with `TypeOK`.  `remove_tx` keeps `replaced_by` but leaves Pending
  for good; `add_tx` clears it; `prune_old` takes entry and link together.
- `PruningIsSafe`: only `PruneOld` takes an entry out (`OnlyPruneDrops`), and it takes the expired.
- `HistogramCorrect`: no rate falls between two buckets or into two (`OneBucket`), so the buckets partition the pending
  transactions, and six parts add up (`SixParts`).
- `ImplementsLifecycle`: every step maps to `Enter`, `Depart`, `Forget` or a stutter of `TxLifecycle`.

`SignalFlusherProofs`, from the bounds being natural numbers (none is used otherwise):

- `TypeCorrect` and `NoLoss`: while nothing has failed, table, buffer and channel concatenate to 1, 2, ..., `sent`.
- `TableInOrder`: `StoredInOrder` is not inductive; the invariant is `LineInOrder`, that table, buffer and
  channel in this order are increasing, and that nothing in them is above `sent`.
- `ImplementsLog`: refinement of `SignalLog`; a flush is `Store` or `GiveUp` of a run from the front of the line, the loss
  of the task or of the process gives up all of it.

`EnrichmentProofs`, first from the assumptions in `TagLookup`, about `TagSpec`: the tags as a component that is
given any inputs, CSV files, failures and restarts.

- `TagTypeCorrect`: `TagTypeOK` is inductive.  The one hard step is that `max_by` yields an input that has a tag
  (`BestIsKnown`): among finitely many inputs one has the highest confidence, and of those one comes last.
- `TagsCorrect`: `TagsOnlyImprove`.  Memory and table decide separately what is weaker, and an insert whose look-up
  failed overwrites blindly.  The invariant is `TableNotAhead`: while the memory holds any tag, the table holds
  no tag that the memory lacks or has with a lower confidence.  So whatever the memory accepts improves the table as well.
- `TableFollows`: `TableFollowsMemory` is inductive: without failures both see the same tags, hence decide alike.
- `ClusterEarned`: `ClusterTagsEarned` needs two more facts: tags with source csv were told for their address
  (`CsvTold`), and the groups partition the addresses (`GroupsPartition`).  A tag derived from a derived one goes back
  to the root of the latter, because a derived confidence is never above the one it comes from (`DerivedTwice`).

Then, from these and the assumptions in `Prevouts` and `Enrichment`:

- `ImplementsTags`: every step is one of `TagSpec` or leaves the tags alone.  It needs `PrevoutInv`, which says where the
  loop over the inputs is and that what it collects are addresses.
- `TagsImprove`, `TableCorrect`, `TagsEarned`: the three theorems above, carried over.
- `TypeCorrect`, and `CacheCorrect`: `CacheTruthful` is inductive together with `PrevoutInv`.  An answer is stored in the
  step in which it is received, under its own output; a later block changes only what was in no block.
- `ResolvedCorrect`: `SumInv` says that as long as no input was skipped (`sum.resolved = pos - 1`), the sum is that of the inputs
  before `pos`, and the oldest block one of theirs.  `ResolvedIsExact` speaks of the end only.  What `Worth` is, a
  recursive function, follows by taking the least length for which it is not defined (`WorthIs`).  Inputs are distinct, which
  the node guarantees; a coinbase input resolves nothing.

`ScoringProofs`, from the assumptions in `CoinJoin` and `Scoring`, so for any amounts, any number of inputs and outputs,
and any weights:

- `TypeCorrect`: the sums keep their types, and every score is one of 0 to 100 (`ScoreType`), also when all weights are 0 or the sum is negative.
- `VerdictCorrect`: two different values share the outputs (`TwoValues`), so two most common ones are each at most half of them (`OneVerdict`).
- `CriticalCorrect`: with the default weights a score of 80 is out of 48 weighted units; without the exchange rule's 10 they cannot add up to it,
  nor with the penalty of a CoinJoin, whose confidence is at least one half (`VerdictType`).

- `KnowingCorrect`: an action property, by cases of the step.  Only `Resolve` leaves inputs and outputs as they are; it raises the
  amounts that four rules look at, the fee included, and a sigmoid rounded down, a weight that is not negative, the division
  by the sum of weights and the clamping each keep the order (`SigmoidRises`, `WeightedRises`, `DivRises`, `ResolveRaises`).
- `JoiningCorrect`: a verdict of a CoinJoin is the same as a common value that meets one of the two tests (`Common`, by `CommonNeeded` and
  `CommonEnough`).  Inserting an output where it belongs in the order counts one value once more (`WithOutputCounts`); each
  threshold then still holds, and the value is the only most common one, since it has more than half (`OutputJoins`).

`SelectionProofs` has what the proofs of `Scoring` above and the next three need of `Selection`.  Several properties compare two sequences after picking some
elements out of each.  The library's `SelectSeq` is recursive, and induction over a sequence is out of the prover's
reach; so `Selected` names the k-th element picked as the one of rank k, by counting.  That there is exactly one of each rank
comes from taking a least counterexample (`LeastNatural`, `RankReached`, `RankOnce`); from it what `Selected` and
`Images` do to an append, to a tail and to a sequence of two, and what `Selected` ends with.  `MCZmqSubscriber` assumes, so TLC evaluates, that
`Selected` agrees with `SelectSeq` on all sequences up to length 5 over 3 elements.

`RpcProofs`, from `ZmqAssumption`, so for any transactions, blocks, topics subscribed to, losses and malformed messages:

- `ZmqTypeCorrect`: `TypeOK` has that the thread has returned only when its receiver is gone.  `TypeInv` adds to `TypeOK` what may be on the wire and in the channel, and that a topic without a
  subscription stays empty.
- `GapsCorrect`: the warnings are counted right if `MaxLost + MaxMalformed < CounterMod`, and the hypothesis is needed: a whole round of
  the counter missing goes unnoticed.  `SpacingInv` has the positions of the sequence messages: neighbours on the wire are no
  further apart than what was lost, the last one read and the next no further than what was lost or could not be read.
- `NothingTwiceCorrect`: `BudgetInv` counts events sent and messages on the wire together and bounds the two by what the node did, the
  announcements with blocks included.
- `CompleteCorrect`: `StoryInv` says that while nothing is lost, the events sent followed by the messages on the wire are the
  node's deeds, of each kind in order.  `CompleteWhenDrained` is the case of an empty wire.
- `CredentialsCorrect`, from no assumption: `CredentialsDetected`, which the run refutes, holds of every file in which the port comes after the
  credentials, as in `docs/SETUP.md:21`.  The invariant is `CredentialsInv`: `user` and `pass` are lines of their kind, and unset only
  if no line read so far was one.

`UiFeedProofs`, from `UiAssumption`, so for any sizes of panel and history, any interval, any number of rows and any table at the start:

- `TypeCorrect`: `TypeOK` is inductive with the types of the remaining variables; `LastAlerts` bounds the panel, `Recent` the history.
- `SummaryCorrect`: what one query found must bound what a later one will, though rows come between (`SummaryInv`).  Rows are only
  added, so a window holds no fewer later (`WindowGrows`), and the day, the longer window, is counted last (`LongerWindow`).
- `HistoryCorrect`: `HistoryInv` speaks of the rows stored before the `txSinceRefresh` last transactions instead of the `RefreshTx` last.
  Rows of earlier runs count from the start.  The first query establishes it (`ListMade`), a new row is too young for it, and a transaction shifts both sides alike.
- `PanelCorrect`: `PanelInv` gives the number of alerts gone as a witness instead of a difference of lengths.  Telling the UI
  of an alert, receiving it and flushing the buffer leave panel, buffer and channel together as they are, or add one at the
  end, or drop some at the front when the panel is full (`RestAppend`, `RestDrop`).

`PipelineProofs`, from `PipelineAssumption` and the assumptions in `MempoolOps`, so for any hashes, scores, fee rates and
intervals.  The intervals are taken as positive and hashes as sequences of bytes.  `StepKinds` sorts the steps into
those that finish a transaction, finish a removal, finish an event about no transaction, and finish nothing; each invariant
below has one case for each kind.

- `TypeCorrect`: `TypeOK` is inductive with the types of the queue, the history and the UI's view (`TypeInv`).
- `MirrorCorrect`: `PendingMirrorsEvents` is inductive.  What the last event about a hash is changes only with an event about
  it (`LastAfter`), and different hashes have different txids because bytes are reversed (`ReversalIsOneToOne`), so
  an event about one never moves the entry of another; pruning takes only what is not pending.
- `RemovalsCorrect`: by cardinality, as `RemovalsCounted` above, with the removal events of the history as the upper bound.
- `QuotaCorrect`: `last_sent` is the time of the latest notification shown, or none was (`QuotaInv`); with a clock that does not
  go back, being a cooldown past that one is being a cooldown past all.
- `SignalsCorrect`: `SignalInv` relates the two sequences element by element; only the end of the handler of `TxAdded` appends to
  either, and to both or to none (`SelectedAppend`).
- `PruningCorrect`: what had departed for longer than `MaxAge` at the last prune is gone (`PruneInv`), and the last
  prune is less than an interval ago whenever a transaction has been handled.
- `StatsCorrect`: the statistics shown are at least as new as `last_stats_time`, and as the count at which the remainder was last 0
  (`StatsInv`); the remainder grows by one with each transaction until then (`NextMod`).  A block's statistics do not reset the timer.

The same module goes on to `TxRadar`, which extends `Pipeline`, so that its invariants carry over as they are; `RadarAssumption`
is `ZmqAssumption` of the instance.

- `RadarCorrect`: `MirrorsNode`.  `WireInv` says that what is on the wire of a topic is a message of that topic, so that whatever
  the thread puts in the channel is an event of the task (`ThreadTells`).  `PassInv` says that what was sent is what was
  handled, what is in work and what waits in the channel, one after the other.  A step of the node or the thread leaves the tracker
  alone and one of the task is one of `Pipeline`, so `PendingMirrorsEvents` stays inductive (`RadarMirror`).  When nothing waits, the
  last event handled of a transaction is the last of its story in the channel (`StoryEnds`).

Only model-checked: the liveness properties `EventuallyHandled`, `WindsDown`, `EventuallyStored` and `EventuallyShown` (liveness
under fairness is out of the prover's reach), and the runs that expect a violation.  Every safety invariant and
action property of a passing run is a theorem.

## 6. Not modelled, and the plan

Not modelled: rendering (which alerts and rows are drawn, and how), the values of the configuration (constants of the
models), SQL text and the migration of the schema, transaction parsing (three calls into the `bitcoin` crate: a raw
transaction parses or does not), the wording of notifications and logs.  `store_signal` and `get_recent_signals` are
called by tests only.

Order of work.

1. Done: tracker, subscriber, pipeline, their composition, flusher, prevouts, tags, scoring, the UI coroutine and the
   choice of RPC credentials; proofs about each of them.
2. Done: every invariant and action property of a passing run as a theorem, and the two refinements.
3. Open: one composition of `Pipeline`, `SignalFlusher` and `UiFeed`, in which the rows of the history are the signals
   that were sent.
