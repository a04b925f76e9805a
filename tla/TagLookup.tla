------------------------------ MODULE TagLookup ------------------------------
(***************************************************************************)
(* Address tags: the in-memory TagLookup of tags/mod.rs, the address_tags  *)
(* table of db/mod.rs behind it, and what fills both: the CSV file that    *)
(* main.rs loads at every start, and the cluster heuristic that gives the  *)
(* inputs of one transaction the tag of the best known among them.         *)
(*                                                                         *)
(* A confidence is a number of 1/Unit.  Every insert is a statement of its *)
(* own: any of them may fail, and the code carries on.                     *)
(***************************************************************************)
EXTENDS Integers, FiniteSets, Sequences, Functions

CONSTANTS
    Address,
    Entity,
    Unit,            \* confidence 1.0
    NoTag,           \* no tag under an address
    CsvFiles,        \* contents the CSV file can have, as maps
    MaxFailures,     \* bound on database calls that fail
    MaxExits         \* bound on the exits of the process

Confidence == 0..Unit

Tag == [entity : Entity, confidence : Confidence, source : {"csv", "cluster"}]

TagMap == [Address -> Tag \cup {NoTag}]

ASSUME TagAssumption ==
    /\ Unit \in Nat
    /\ NoTag \notin Tag
    /\ CsvFiles \subseteq [Address -> [entity : Entity, confidence : Confidence,
                                       source : {"csv"}] \cup {NoTag}]
    /\ MaxFailures \in Nat /\ MaxExits \in Nat

VARIABLES
    process,      \* down, up
    map,          \* TagLookup.map
    dbTags,       \* the address_tags table
    failures,     \* history: database calls that failed
    exits,        \* history: exits
    told,         \* history: the tags the CSV file ever gave, with their address
    group         \* history: address -> the addresses it was clustered with

tagVars == <<process, map, dbTags, failures, exits, told, group>>

NoTags == [a \in Address |-> NoTag]

TagInit ==
    /\ process = "down"
    /\ map = NoTags /\ dbTags = NoTags
    /\ failures = 0 /\ exits = 0
    /\ told = {}
    /\ group = [a \in Address |-> {a}]

Tagged(m) == {a \in Address : m[a] # NoTag}

-----------------------------------------------------------------------------
(* Start and end of the process. *)

\* insert_tag for the given lines of the file: INSERT OR REPLACE.
WithLines(csv, lines) == [a \in Address |-> IF a \in lines THEN csv[a] ELSE dbTags[a]]

\* main.rs: load the CSV (an insert that fails ends the loading), then load all
\* tags into memory (no tag at all when that fails).
StartProcess(csv, lines, readable) ==
    /\ process = "down"
    /\ lines \subseteq Tagged(csv)
    /\ process' = "up"
    /\ dbTags' = WithLines(csv, lines)
    /\ map' = IF readable THEN dbTags' ELSE NoTags
    /\ failures' = failures + (IF lines # Tagged(csv) THEN 1 ELSE 0)
                            + (IF readable THEN 0 ELSE 1)
    /\ failures' <= MaxFailures
    /\ told' = told \cup {<<a, csv[a]>> : a \in lines}
    /\ UNCHANGED <<exits, group>>

ExitProcess ==
    /\ process = "up"
    /\ exits < MaxExits
    /\ process' = "down"
    /\ exits' = exits + 1
    /\ map' = NoTags
    /\ UNCHANGED <<dbTags, failures, told, group>>

-----------------------------------------------------------------------------
(* expand_from_tx *)

\* CLUSTER_CONFIDENCE_FACTOR is 0.7.
Derived(c) == (c * 7) \div 10

\* Variant: the coinjoin guard is missing.
UnguardedEvidence(inputs, isCoinjoin) == Len(inputs) >= 2

\* A coinjoin proves nothing, nor does a single input.
IsEvidence(inputs, isCoinjoin) == ~isCoinjoin /\ Len(inputs) >= 2

Known(inputs) == {i \in DOMAIN inputs : map[inputs[i]] # NoTag}

\* max_by: the last of the inputs with the highest confidence.
BestTag(inputs) ==
    LET conf(i) == map[inputs[i]].confidence
        best == CHOOSE i \in Known(inputs) :
                    \A j \in Known(inputs) :
                        conf(j) < conf(i) \/ (conf(j) = conf(i) /\ j <= i)
    IN  map[inputs[best]]

ClusterTag(best) ==
    [entity |-> best.entity, confidence |-> Derived(best.confidence), source |-> "cluster"]

\* Variant: an address that has a tag gets the new one too.
WeakerAny(m, a, tag) == m[a] = NoTag \/ m[a].confidence # tag.confidence

\* There is no tag, or one of lower confidence.
Weaker(m, a, tag) == m[a] = NoTag \/ m[a].confidence < tag.confidence

\* Variant: a tag that is there is left alone.
StoredIfAbsent(addresses, blind, tag) ==
    [a \in Address |-> IF a \in blind \/ (a \in addresses /\ dbTags[a] = NoTag)
                       THEN tag ELSE dbTags[a]]

\* insert_tag_if_higher: a look-up of the table that fails (`blind`) is taken
\* for the absence of a tag.
Stored(addresses, blind, tag) ==
    [a \in Address |-> IF a \in blind \/ (a \in addresses /\ Weaker(dbTags, a, tag))
                       THEN tag ELSE dbTags[a]]

Merged(inputs) ==
    LET all == UNION {group[a] : a \in Range(inputs)}
    IN  [a \in Address |-> IF a \in all THEN all ELSE group[a]]

\* `failing`: the inserts that fail, which are warned of and forgotten.
ExpandFromTx(inputs, isCoinjoin, failing, blind) ==
    IF IsEvidence(inputs, isCoinjoin) /\ Known(inputs) # {}
    THEN LET tag == ClusterTag(BestTag(inputs))
             new == {a \in Range(inputs) : Weaker(map, a, tag)}
         IN  /\ failing \cup blind \subseteq new /\ failing \cap blind = {}
             /\ map' = [a \in Address |-> IF a \in new THEN tag ELSE map[a]]
             /\ dbTags' = Stored(new \ failing, blind, tag)
             /\ failures' = failures + Cardinality(failing \cup blind)
             /\ failures' <= MaxFailures
             /\ group' = IF isCoinjoin THEN group ELSE Merged(inputs)
             /\ UNCHANGED <<process, exits, told>>
    ELSE failing \cup blind = {} /\ UNCHANGED tagVars

\* check_input_addresses finds something.
FromKnown(inputs) == Known(inputs) # {}

-----------------------------------------------------------------------------
(* The component by itself: transactions with any inputs. *)

TagNext ==
    \/ \E csv \in CsvFiles : \E lines \in SUBSET Tagged(csv), readable \in BOOLEAN :
           StartProcess(csv, lines, readable)
    \/ ExitProcess
    \/ \E inputs \in Seq(Address), isCoinjoin \in BOOLEAN, failing, blind \in SUBSET Address :
           ExpandFromTx(inputs, isCoinjoin, failing, blind)

TagSpec == TagInit /\ [][TagNext]_tagVars

-----------------------------------------------------------------------------
(* Properties. *)

(* Every variable keeps its type, and there is no memory without a process. *)
TagTypeOK ==
    /\ process \in {"down", "up"}
    /\ map \in TagMap /\ dbTags \in TagMap
    /\ failures \in Nat /\ exits \in Nat
    /\ told \subseteq Address \X Tag
    /\ group \in [Address -> SUBSET Address]
    /\ process = "down" => map = NoTags

(* A tag derived by the heuristic, in memory or in the table, goes back to *)
(* a tag of the CSV file: one of the same entity, at least a factor 0.7    *)
(* more confident, for an address linked to this one by transactions that  *)
(* are not coinjoins.  It holds through chains of derivations, tags that   *)
(* replace each other, restarts and edits of the file.                     *)
ClusterTagsEarned ==
    \A m \in {map, dbTags} : \A a \in Tagged(m) :
        m[a].source = "cluster" =>
            \E root \in told :
                /\ root[1] \in group[a]
                /\ root[2].entity = m[a].entity
                /\ m[a].confidence <= Derived(root[2].confidence)

(* While the process is up, memory and table hold the same tags, unless a  *)
(* database call has failed: what clustering puts in the one it puts in    *)
(* the other, although each decides for itself what is weaker.             *)
TableFollowsMemory == process = "up" /\ failures = 0 => dbTags = map

(* While the process is up, an address keeps its tag or gets a more        *)
(* confident one, in memory and in the table, whatever inputs are          *)
(* clustered and whichever inserts fail.  The table is never ahead of the  *)
(* memory, so that even an insert whose look-up failed overwrites nothing  *)
(* better than what it writes.                                             *)
TagsOnlyImprove ==
    [][process = "up" /\ process' = "up" =>
        /\ \A a \in Tagged(map) :
               map'[a] = map[a] \/ map'[a].confidence > map[a].confidence
        /\ \A a \in Tagged(dbTags) :
               dbTags'[a] = dbTags[a] \/ dbTags'[a].confidence > dbTags[a].confidence]_tagVars
=============================================================================
