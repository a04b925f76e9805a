----------------------------- MODULE Enrichment -----------------------------
(***************************************************************************)
(* What the handler of TxAdded finds out about a transaction before it is  *)
(* scored: the prevouts, the input addresses among the known ones, and new *)
(* tags by clustering the inputs.  Prevouts and TagLookup share the        *)
(* database file, and the process that may end at any await.               *)
(***************************************************************************)
EXTENDS Prevouts, TagLookup

ASSUME EnrichmentAssumption == Range(AddressOf) \subseteq Address \cup {NoAddress}

VARIABLE verdict     \* history: from_exchange of the last transaction, and its outputs spent

vars == <<prevoutVars, tagVars, verdict>>

NoVerdict == [spent |-> {}, whole |-> FALSE, fromExchange |-> FALSE]

Init == PrevoutInit /\ TagInit /\ verdict = NoVerdict

\* From the last prevout to the score there is no await: input matches are
\* looked up before the cluster is expanded.
Enrich(isCoinjoin, failing, blind) ==
    /\ Resolved
    /\ verdict' = [ spent        |-> Range(inputs),
                    whole        |-> sum.resolved = Len(inputs),
                    fromExchange |-> FromKnown(sum.addresses) ]
    /\ ExpandFromTx(sum.addresses, isCoinjoin, failing, blind)
    /\ Leave

StartUp ==
    /\ \E csv \in CsvFiles : \E lines \in SUBSET Tagged(csv), readable \in BOOLEAN :
           StartProcess(csv, lines, readable)
    /\ UNCHANGED <<prevoutVars, verdict>>

ShutDown == ExitProcess /\ Leave /\ verdict' = NoVerdict

BeginTx ==
    /\ process = "up"
    /\ \E ins \in Spends : Begin(ins)
    /\ UNCHANGED <<tagVars, verdict>>

ResolveStep == process = "up" /\ PrevoutStep /\ UNCHANGED <<tagVars, verdict>>

MineBlock ==
    /\ \E fs \in SUBSET Funding : Mine(fs)
    /\ UNCHANGED <<tagVars, verdict>>

Next ==
    \/ StartUp \/ ShutDown
    \/ BeginTx \/ ResolveStep
    \/ \E isCoinjoin \in BOOLEAN, failing, blind \in SUBSET Range(sum.addresses) :
           Enrich(isCoinjoin, failing, blind)
    \/ MineBlock

Spec == Init /\ [][Next]_vars

-----------------------------------------------------------------------------
(* Properties. *)

SumType == [value : Nat, resolved : Nat, oldest : Nat, addresses : Seq(Address)]

(* Every variable but the histories keeps its type, and the loop over the  *)
(* inputs, its answer and its sums belong together.                        *)
TypeOK ==
    /\ PrevoutTypeOK
    /\ TagTypeOK
    /\ inputs \in Seq(Outpoint \cup {NullOutpoint}) /\ sum \in SumType
    /\ phase # "idle" => process = "up"

(* docs/EXCHANGE_TAGGING.md:26: for every new transaction the inputs are   *)
(* checked: one that comes from a known address makes it From-Exchange.    *)
(* A transaction all of whose inputs were resolved is From-Exchange when   *)
(* one of them spends from a tagged address.  An input found in the cache  *)
(* brings no address with it, so the second transaction that spends an     *)
(* output (a replacement, a rebroadcast) is not recognised.                *)
FromExchangeSeen ==
    \A o \in verdict.spent \cap Outpoint :
        verdict.whole /\ AddressOf[o] \in {root[1] : root \in told} => verdict.fromExchange
=============================================================================
