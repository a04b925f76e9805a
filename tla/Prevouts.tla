------------------------------ MODULE Prevouts ------------------------------
(***************************************************************************)
(* Prevout resolution (core/pipeline.rs): for each input of a transaction  *)
(* the utxo_cache table first, then an RPC call to the node, whose answer  *)
(* is put in the table.  The await on the RPC call is the only place where *)
(* the task gives way: the node goes on meanwhile.                         *)
(*                                                                         *)
(* The node is outside the repository.  It answers with the output's value *)
(* and address, and with the time of its block, 0 while it is in none; or  *)
(* it answers with an error.  A funding transaction that was mined stays   *)
(* mined.  Only the block is kept here: it stands for its time, and for    *)
(* the height that the code reads beside it, which rises with the time but *)
(* is 0 with a node whose answer has no field of one of the names read.    *)
(***************************************************************************)
EXTENDS Naturals, FiniteSets, Sequences, Functions

CONSTANTS
    Funding,         \* the transactions whose outputs are spent
    Outpoint,        \* their outputs, as <<transaction, vout>>
    NullOutpoint,    \* what the input of a coinbase spends
    Value,           \* their values
    AddressOf,       \* their addresses
    NoAddress,       \* the output's script has no address
    NoRow,           \* the table has no row under an outpoint
    Spends,          \* the input lists of the transactions that occur
    MaxTxs,          \* bound on the transactions resolved
    MaxBlocks,       \* bound on the blocks mined
    MaxMishaps       \* bound on failing RPC calls and cache accesses

ASSUME PrevoutsAssumption ==
    /\ NullOutpoint \notin Outpoint
    /\ Value \in [Outpoint -> Nat]
    /\ DOMAIN AddressOf = Outpoint
    /\ Outpoint \subseteq Funding \X Nat
    /\ \A s \in Spends : /\ s \in Seq(Outpoint) \/ s = <<NullOutpoint>>
                         /\ IsInjective(s)
    /\ MaxTxs \in Nat /\ MaxBlocks \in Nat /\ MaxMishaps \in Nat

VARIABLES
    minedIn,      \* the node: funding transaction -> its block, 0 for none
    blocks,       \* the node: blocks mined
    cache,        \* the utxo_cache table
    phase,        \* where the task is: idle, loop, asking
    inputs,       \* the outpoints the transaction spends
    pos,          \* the input the loop is at
    sum,          \* total_input_value, resolved_count, oldest_time, input_addresses
    txs,          \* history: transactions begun
    mishaps       \* history: calls that failed

prevoutVars == <<minedIn, blocks, cache, phase, inputs, pos, sum, txs, mishaps>>

Row == [value : Nat, block : Nat]

NothingYet == [value |-> 0, resolved |-> 0, oldest |-> 0, addresses |-> <<>>]

PrevoutInit ==
    /\ minedIn = [f \in Funding |-> 0] /\ blocks = 0
    /\ cache = [o \in Outpoint |-> NoRow]
    /\ phase = "idle" /\ inputs = <<>> /\ pos = 1 /\ sum = NothingYet
    /\ txs = 0 /\ mishaps = 0

-----------------------------------------------------------------------------
(* The node (external). *)

Mine(fs) ==
    /\ blocks < MaxBlocks
    /\ fs \subseteq {f \in Funding : minedIn[f] = 0}
    /\ blocks' = blocks + 1
    /\ minedIn' = [f \in Funding |-> IF f \in fs THEN blocks' ELSE minedIn[f]]
    /\ UNCHANGED <<cache, phase, inputs, pos, sum, txs, mishaps>>

-----------------------------------------------------------------------------
(* The task. *)

Begin(ins) ==
    /\ phase = "idle"
    /\ txs < MaxTxs
    /\ txs' = txs + 1
    /\ phase' = "loop"
    /\ inputs' = ins /\ pos' = 1 /\ sum' = NothingYet
    /\ UNCHANGED <<minedIn, blocks, cache, mishaps>>

AtInput == phase = "loop" /\ pos <= Len(inputs)

Missed == mishaps < MaxMishaps /\ mishaps' = mishaps + 1

\* Variant: the first block time found is kept.
FirstOf(oldest, block) == IF oldest = 0 THEN block ELSE oldest

\* block_time 0 means there is none.
OldestOf(oldest, block) ==
    IF block > 0 /\ (oldest = 0 \/ block < oldest) THEN block ELSE oldest

\* An input is resolved.
Accumulated(row, addresses) ==
    [ value     |-> sum.value + row.value,
      resolved  |-> sum.resolved + 1,
      oldest    |-> OldestOf(sum.oldest, row.block),
      addresses |-> sum.addresses \o addresses ]

SkipCoinbase ==
    /\ AtInput /\ inputs[pos] = NullOutpoint
    /\ pos' = pos + 1
    /\ UNCHANGED <<minedIn, blocks, cache, phase, inputs, sum, txs, mishaps>>

\* The table has a row: it keeps no address.
CacheHit ==
    /\ AtInput /\ inputs[pos] # NullOutpoint
    /\ cache[inputs[pos]] # NoRow
    /\ sum' = Accumulated(cache[inputs[pos]], <<>>)
    /\ pos' = pos + 1
    /\ UNCHANGED <<minedIn, blocks, cache, phase, inputs, txs, mishaps>>

\* There is no row, or the lookup fails: getrawtransaction.
Ask ==
    /\ AtInput /\ inputs[pos] # NullOutpoint
    /\ IF cache[inputs[pos]] = NoRow THEN UNCHANGED mishaps ELSE Missed
    /\ phase' = "asking"
    /\ UNCHANGED <<minedIn, blocks, cache, inputs, pos, sum, txs>>

\* What the node tells of an output.
Told(o) == [value |-> Value[o], block |-> minedIn[o[1]]]

AddressesOf(o) == IF AddressOf[o] = NoAddress THEN <<>> ELSE <<AddressOf[o]>>

\* Variant: the key leaves out the vout.
KeyedByTxid(o, row) ==
    [p \in Outpoint |-> IF p[1] = o[1] THEN row ELSE cache[p]]

\* cache_utxo: INSERT OR REPLACE under the txid and the vout.
Cached(o, row) == [cache EXCEPT ![o] = row]

Answer ==
    /\ phase = "asking"
    /\ LET o == inputs[pos]
       IN  /\ sum' = Accumulated(Told(o), AddressesOf(o))
           /\ \/ cache' = Cached(o, Told(o)) /\ UNCHANGED mishaps
              \/ Missed /\ UNCHANGED cache
    /\ phase' = "loop" /\ pos' = pos + 1
    /\ UNCHANGED <<minedIn, blocks, inputs, txs>>

\* Variant: the next input is asked for at once.
NoAnswerAsksOn ==
    /\ phase = "asking"
    /\ Missed
    /\ pos' = pos + 1
    /\ UNCHANGED <<minedIn, blocks, cache, phase, inputs, sum, txs>>

\* An error, or a result without the output: the input stays unresolved.
NoAnswer ==
    /\ phase = "asking"
    /\ Missed
    /\ phase' = "loop" /\ pos' = pos + 1
    /\ UNCHANGED <<minedIn, blocks, cache, inputs, sum, txs>>

\* All inputs have been tried; run_pipeline goes on with `sum`.
Resolved == phase = "loop" /\ pos > Len(inputs)

\* The transaction is done with, or the process ends: the table stays.
Leave ==
    /\ phase' = "idle"
    /\ inputs' = <<>> /\ pos' = 1 /\ sum' = NothingYet
    /\ UNCHANGED <<minedIn, blocks, cache, txs, mishaps>>

PrevoutStep == SkipCoinbase \/ CacheHit \/ Ask \/ Answer \/ NoAnswer

-----------------------------------------------------------------------------
(* Properties. *)

(* The types of the node, the table and the loop, which is inside the      *)
(* transaction.                                                            *)
PrevoutTypeOK ==
    /\ minedIn \in [Funding -> 0..blocks]
    /\ cache \in [Outpoint -> Row \cup {NoRow}]
    /\ phase \in {"idle", "loop", "asking"}
    /\ pos \in 1..(Len(inputs) + 1)
    /\ phase = "asking" => pos <= Len(inputs)
    /\ sum.resolved < pos

(* A row of the cache is the truth about its output, or was before the     *)
(* output's transaction was mined: never of another output, never of       *)
(* another block.                                                          *)
CacheTruthful ==
    \A o \in Outpoint : cache[o] # NoRow =>
        /\ cache[o].value = Value[o]
        /\ cache[o].block \in {0, minedIn[o[1]]}

\* What the first inputs of a list are worth together.
Worth(s) ==
    LET upTo[n \in 0..Len(s)] == IF n = 0 THEN 0 ELSE upTo[n - 1] + Value[s[n]]
    IN  upTo

(* When prevouts_resolved is set (as many inputs resolved as there are),   *)
(* the input value is that of all inputs, whatever came from the cache and *)
(* whatever was mined meanwhile; and the oldest block is one of theirs, no *)
(* younger than any block among the rows that the cache then holds.        *)
ResolvedIsExact ==
    Resolved /\ sum.resolved = Len(inputs) =>
        LET spent == Range(inputs)
            cached == {o \in spent : cache[o] # NoRow}
            dated == {o \in cached : cache[o].block > 0}
        IN  /\ sum.value = Worth(inputs)[Len(inputs)]
            /\ \A o \in dated : 0 < sum.oldest /\ sum.oldest <= cache[o].block
            /\ sum.oldest > 0 => \E o \in spent : minedIn[o[1]] = sum.oldest
=============================================================================
