--------------------------- MODULE EnrichmentProofs ---------------------------
(***************************************************************************)
(* Theorems about Enrichment, for every set of addresses and entities,     *)
(* every contents of the CSV file and every list of inputs, every order of *)
(* answers and failures of the node, and any number of transactions and    *)
(* restarts.  First the address tags as a component by itself (TagSpec),   *)
(* given any inputs; then Enrichment, which implements it, so that what    *)
(* was shown of the tags holds of it, its cache is truthful and its sums   *)
(* are exact.                                                              *)
(***************************************************************************)
EXTENDS Enrichment, SelectionProofs

-----------------------------------------------------------------------------
(* The best tag among the inputs. *)

\* The expression with which max_by is modelled has a value: an input with a tag.
LEMMA BestIsKnown ==
    ASSUME map \in TagMap, NEW found \in Seq(Address), Known(found) # {}
    PROVE  \E i \in Known(found) : BestTag(found) = map[found[i]]
<1> DEFINE conf(i) == map[found[i]].confidence
           Best(i) == \A j \in Known(found) :
                          conf(j) < conf(i) \/ (conf(j) = conf(i) /\ j <= i)
<1>1. /\ Known(found) \subseteq 1..Len(found)
      /\ Len(found) \in Nat
      /\ \A i \in Known(found) : conf(i) \in 0..Unit
  BY DEF Known, TagMap, Tag, Confidence
<1>2. \E top \in Known(found) : \A j \in Known(found) : conf(j) <= conf(top)
  <2> DEFINE S == {Unit - conf(i) : i \in Known(found)}
  <2>1. S \in SUBSET Nat /\ S # {}
    BY <1>1, TagAssumption
  <2>2. PICK n \in S : \A m \in S : n <= m
    BY <2>1, LeastNatural
  <2>3. PICK top \in Known(found) : n = Unit - conf(top)
    BY <2>2
  <2>4. ASSUME NEW j \in Known(found) PROVE conf(j) <= conf(top)
    <3>1. Unit - conf(top) <= Unit - conf(j)
      BY <2>2, <2>3
    <3> HIDE DEF conf
    <3> QED
      BY <3>1, <1>1, TagAssumption
  <2> QED
    BY <2>3, <2>4
<1>3. PICK top \in Known(found) : \A j \in Known(found) : conf(j) <= conf(top)
  BY <1>2
<1>4. \E i \in Known(found) : Best(i)
  <2> DEFINE S == {Len(found) - i : i \in {k \in Known(found) : conf(k) = conf(top)}}
  <2>1. S \in SUBSET Nat /\ S # {}
    BY <1>1, <1>3
  <2>2. PICK n \in S : \A m \in S : n <= m
    BY <2>1, LeastNatural
  <2>3. PICK i \in Known(found) : n = Len(found) - i /\ conf(i) = conf(top)
    BY <2>2
  <2>4. ASSUME NEW j \in Known(found)
        PROVE  conf(j) < conf(i) \/ (conf(j) = conf(i) /\ j <= i)
    <3>1. CASE conf(j) = conf(top)
      <4>1. Len(found) - i <= Len(found) - j
        BY <2>2, <2>3, <3>1
      <4> HIDE DEF conf
      <4> QED
        BY <4>1, <2>3, <3>1, <1>1
    <3>2. CASE conf(j) # conf(top)
      <4> HIDE DEF conf
      <4> QED
        BY <3>2, <1>1, <1>3, <2>3, TagAssumption
    <3> QED
      BY <3>1, <3>2
  <2> QED
    BY <2>3, <2>4
<1> DEFINE best == CHOOSE i \in Known(found) : Best(i)
<1>5. best \in Known(found)
  BY <1>4
<1>6. BestTag(found) = map[found[best]]
  BY DEF BestTag
<1> QED
  BY <1>5, <1>6

\* The confidence that is handed on is a confidence, no higher than it was.
LEMMA DerivedBounds ==
    ASSUME NEW c \in Confidence
    PROVE  Derived(c) \in Confidence /\ Derived(c) <= c
BY TagAssumption DEF Derived, Confidence

\* What is earned with a derived confidence is derived from at least as much.
LEMMA DerivedTwice ==
    ASSUME NEW c \in Confidence, NEW d \in Confidence, d <= Derived(c)
    PROVE  Derived(d) <= Derived(c)
BY TagAssumption DEF Derived, Confidence

\* A sequence has finitely many elements.
LEMMA FiniteRange ==
    ASSUME NEW S, NEW s \in Seq(S)
    PROVE  IsFiniteSet(Range(s)) /\ Range(s) \subseteq S
<1>1. s \in Surjection(1..Len(s), Range(s)) /\ Range(s) \subseteq S
  BY DEF Surjection, Range
<1>2. IsFiniteSet(1..Len(s))
  BY FS_Interval
<1> QED
  BY <1>1, <1>2, FS_Surjection

-----------------------------------------------------------------------------
(* What one expansion does. *)

\* The addresses that get the tag, and how.
Spreads(tag, new, failing, blind) ==
    /\ failing \cup blind \subseteq new /\ failing \cap blind = {}
    /\ map' = [a \in Address |-> IF a \in new THEN tag ELSE map[a]]
    /\ dbTags' = Stored(new \ failing, blind, tag)
    /\ failures' = failures + Cardinality(failing \cup blind)
    /\ IsFiniteSet(new)

\* Either nothing happens, or an input that has a tag hands it on to the others
\* that have none or a weaker one.
LEMMA Expansion ==
    ASSUME TagTypeOK, NEW found \in Seq(Address), NEW isCoinjoin, NEW failing, NEW blind,
           ExpandFromTx(found, isCoinjoin, failing, blind)
    PROVE  \/ UNCHANGED tagVars
           \/ \E i \in DOMAIN found :
                 LET tag == ClusterTag(map[found[i]])
                     new == {a \in Range(found) : Weaker(map, a, tag)}
                 IN  /\ map[found[i]] \in Tag
                     /\ Spreads(tag, new, failing, blind)
                     /\ ~isCoinjoin
                     /\ group' = Merged(found)
                     /\ UNCHANGED <<process, exits, told>>
<1>1. CASE ~(IsEvidence(found, isCoinjoin) /\ Known(found) # {})
  BY <1>1 DEF ExpandFromTx
<1>2. CASE IsEvidence(found, isCoinjoin) /\ Known(found) # {}
  <2>1. PICK i \in Known(found) : BestTag(found) = map[found[i]]
    BY <1>2, BestIsKnown DEF TagTypeOK
  <2>2. i \in DOMAIN found /\ map[found[i]] \in Tag
    BY <2>1 DEF Known, TagTypeOK, TagMap
  <2> DEFINE tag == ClusterTag(map[found[i]])
             new == {a \in Range(found) : Weaker(map, a, tag)}
  <2>3. IsFiniteSet(new)
    <3>1. IsFiniteSet(Range(found)) /\ new \in SUBSET Range(found)
      BY FiniteRange
    <3> QED
      BY <3>1, FS_Subset
  <2>4. ~isCoinjoin
    BY <1>2 DEF IsEvidence
  <2>5. /\ failing \cup blind \subseteq new /\ failing \cap blind = {}
        /\ map' = [a \in Address |-> IF a \in new THEN tag ELSE map[a]]
        /\ dbTags' = Stored(new \ failing, blind, tag)
        /\ failures' = failures + Cardinality(failing \cup blind)
        /\ group' = Merged(found)
        /\ UNCHANGED <<process, exits, told>>
    BY <1>2, <2>1, <2>4 DEF ExpandFromTx
  <2> QED
    BY <2>2, <2>3, <2>4, <2>5 DEF Spreads
<1> QED
  BY <1>1, <1>2

\* The tag that is handed on: a cluster tag of the same entity.
LEMMA ClusterTagType ==
    ASSUME NEW best \in Tag
    PROVE  /\ ClusterTag(best) \in Tag
           /\ ClusterTag(best).source = "cluster"
           /\ ClusterTag(best).entity = best.entity
           /\ ClusterTag(best).confidence = Derived(best.confidence)
BY DerivedBounds DEF ClusterTag, Tag

\* In the table as in memory, a tag either stays or is the new one.
LEMMA SpreadsType ==
    ASSUME TagTypeOK, NEW tag \in Tag, NEW new \in SUBSET Address, NEW failing, NEW blind,
           Spreads(tag, new, failing, blind)
    PROVE  /\ map' \in TagMap /\ dbTags' \in TagMap /\ failures' \in Nat
           /\ \A a \in Address :
                 /\ map'[a] = IF a \in new THEN tag ELSE map[a]
                 /\ dbTags'[a] = dbTags[a] \/ (dbTags'[a] = tag /\ a \in new)
<1>1. map' \in TagMap /\ dbTags' \in TagMap
  BY DEF Spreads, Stored, TagTypeOK, TagMap
<1>2. failures' \in Nat
  <2>1. IsFiniteSet(failing \cup blind)
    BY FS_Subset DEF Spreads
  <2> QED
    BY <2>1, FS_CardinalityType DEF Spreads, TagTypeOK
<1>3. ASSUME NEW a \in Address
      PROVE  /\ map'[a] = IF a \in new THEN tag ELSE map[a]
             /\ dbTags'[a] = dbTags[a] \/ (dbTags'[a] = tag /\ a \in new)
  BY DEF Spreads, Stored
<1> QED
  BY <1>1, <1>2, <1>3

\* The groups of the inputs become one.
Joined(found) == UNION {group[b] : b \in Range(found)}

\* Merged replaces the groups of the found by their union.
LEMMA MergedType ==
    ASSUME group \in [Address -> SUBSET Address], NEW found \in Seq(Address)
    PROVE  /\ Joined(found) \in SUBSET Address
           /\ Merged(found) \in [Address -> SUBSET Address]
           /\ \A a \in Address :
                 Merged(found)[a] = IF a \in Joined(found) THEN Joined(found) ELSE group[a]
<1>1. Joined(found) \in SUBSET Address
  BY FiniteRange DEF Joined
<1>2. Merged(found) =
          [a \in Address |-> IF a \in Joined(found) THEN Joined(found) ELSE group[a]]
  BY DEF Merged, Joined
<1> QED
  BY <1>1, <1>2

-----------------------------------------------------------------------------
(* Types. *)

\* What the start of the process leaves in the table and in memory.
LEMMA StartType ==
    ASSUME TagTypeOK, NEW csv \in CsvFiles, NEW lines \in SUBSET Tagged(csv),
           NEW readable \in BOOLEAN, StartProcess(csv, lines, readable)
    PROVE  /\ TagTypeOK'
           /\ map' = dbTags' \/ map' = NoTags
           /\ \A a \in Address : \/ dbTags'[a] = dbTags[a]
                                 \/ a \in lines /\ dbTags'[a] = csv[a]
           /\ \A a \in lines : csv[a] \in Tag /\ csv[a].source = "csv"
<1>1. \A a \in lines : a \in Address /\ csv[a] \in Tag /\ csv[a].source = "csv"
  BY TagAssumption DEF Tagged, Tag
<1>2. dbTags' = [a \in Address |-> IF a \in lines THEN csv[a] ELSE dbTags[a]]
  BY DEF StartProcess, WithLines
<1>3. dbTags' \in TagMap
  BY <1>1, <1>2 DEF TagTypeOK, TagMap
<1>4. NoTags \in TagMap
  BY DEF NoTags, TagMap
<1>5. map' = dbTags' \/ map' = NoTags
  BY DEF StartProcess
<1>6. told' \in SUBSET (Address \X Tag)
  BY <1>1 DEF StartProcess, TagTypeOK
<1>7. failures' \in Nat
  BY DEF StartProcess, TagTypeOK
<1>8. TagTypeOK'
  BY <1>3, <1>4, <1>5, <1>6, <1>7 DEF StartProcess, TagTypeOK
<1>9. \A a \in Address : dbTags'[a] = dbTags[a] \/ (a \in lines /\ dbTags'[a] = csv[a])
  BY <1>2
<1> QED
  BY <1>1, <1>5, <1>8, <1>9

\* The end of the process forgets the memory.
LEMMA ExitType ==
    ASSUME TagTypeOK, ExitProcess
    PROVE  TagTypeOK'
<1>1. NoTags \in TagMap
  BY DEF NoTags, TagMap
<1> QED
  BY <1>1 DEF ExitProcess, TagTypeOK

\* An expansion keeps the types; it needs a tag, hence a process that is up.
LEMMA ExpandType ==
    ASSUME TagTypeOK, NEW found \in Seq(Address), NEW isCoinjoin, NEW failing, NEW blind,
           ExpandFromTx(found, isCoinjoin, failing, blind)
    PROVE  TagTypeOK'
<1>1. CASE UNCHANGED tagVars
  BY <1>1 DEF tagVars, TagTypeOK
<1>2. ASSUME NEW i \in DOMAIN found,
             NEW tag, tag = ClusterTag(map[found[i]]),
             NEW new, new = {a \in Range(found) : Weaker(map, a, tag)},
             map[found[i]] \in Tag,
             Spreads(tag, new, failing, blind),
             group' = Merged(found),
             UNCHANGED <<process, exits, told>>
      PROVE  TagTypeOK'
  <2>1. tag \in Tag /\ new \in SUBSET Address
    BY <1>2, ClusterTagType, FiniteRange
  <2>2. map' \in TagMap /\ dbTags' \in TagMap /\ failures' \in Nat
    BY <1>2, <2>1, SpreadsType
  <2>3. group' \in [Address -> SUBSET Address]
    BY <1>2, MergedType DEF TagTypeOK
  <2>4. process' # "down"
    <3>1. map # NoTags
      <4>1. found[i] \in Address
        OBVIOUS
      <4> QED
        BY <4>1, <1>2, TagAssumption DEF NoTags
    <3> QED
      BY <3>1, <1>2 DEF TagTypeOK
  <2> QED
    BY <1>2, <2>2, <2>3, <2>4 DEF TagTypeOK
<1> QED
  BY <1>1, <1>2, Expansion

\* TagTypeOK is inductive: it holds at the start,
LEMMA TagInitType == TagInit => TagTypeOK
<1>1. NoTags \in TagMap
  BY DEF NoTags, TagMap
<1>2. [a \in Address |-> {a}] \in [Address -> SUBSET Address]
  OBVIOUS
<1> QED
  BY <1>1, <1>2 DEF TagInit, TagTypeOK

\* and every step keeps it.
LEMMA TagNextType == TagTypeOK /\ [TagNext]_tagVars => TagTypeOK'
<1>1. CASE UNCHANGED tagVars
  BY <1>1 DEF tagVars, TagTypeOK
<1> QED
  BY <1>1, StartType, ExitType, ExpandType DEF TagNext

\* In every reachable state the tags, the history and the groups have their types,
\* and there are no tags in memory without a process.
THEOREM TagTypeCorrect == TagSpec => []TagTypeOK
BY TagInitType, TagNextType, PTL DEF TagSpec

-----------------------------------------------------------------------------
(* Memory and table. *)

\* Either the memory is empty or the table holds nothing that the memory does
\* not, nor anything better: why a blind insert does no harm.
TableNotAhead ==
    \/ map = NoTags
    \/ \A a \in Address : dbTags[a] # NoTag =>
           map[a] # NoTag /\ dbTags[a].confidence <= map[a].confidence

\* An address gets the tag handed on when what it has is weaker.
LEMMA NewIsWeaker ==
    ASSUME TagTypeOK, TableNotAhead, map # NoTags, NEW tag \in Tag, NEW a \in Address,
           Weaker(map, a, tag)
    PROVE  /\ map[a] = NoTag \/ (map[a] \in Tag /\ map[a].confidence < tag.confidence)
           /\ dbTags[a] = NoTag \/ (dbTags[a] \in Tag /\ dbTags[a].confidence < tag.confidence)
<1>1. map[a] \in Tag \cup {NoTag} /\ dbTags[a] \in Tag \cup {NoTag}
  BY DEF TagTypeOK, TagMap
<1>2. \A t \in Tag : t.confidence \in Int
  BY TagAssumption DEF Tag, Confidence
<1>3. dbTags[a] # NoTag => map[a] # NoTag /\ dbTags[a].confidence <= map[a].confidence
  BY DEF TableNotAhead
<1>4. map[a] = NoTag \/ map[a].confidence < tag.confidence
  BY DEF Weaker
<1> QED
  BY <1>1, <1>2, <1>3, <1>4

\* TableNotAhead is inductive: an expansion puts into the table what it puts
\* into the memory, a start fills the memory from the table.
LEMMA NextNotAhead ==
    TagTypeOK /\ TableNotAhead /\ [TagNext]_tagVars => TableNotAhead'
<1> SUFFICES ASSUME TagTypeOK, TableNotAhead, [TagNext]_tagVars
             PROVE  TableNotAhead'
  OBVIOUS
<1>1. ASSUME NEW csv \in CsvFiles, NEW lines \in SUBSET Tagged(csv), NEW readable \in BOOLEAN,
             StartProcess(csv, lines, readable)
      PROVE  TableNotAhead'
  <2>1. TagTypeOK' /\ (map' = dbTags' \/ map' = NoTags)
    BY <1>1, StartType
  <2>2. \A a \in Address : dbTags'[a] # NoTag => dbTags'[a].confidence \in Int
    BY <2>1, TagAssumption DEF TagTypeOK, TagMap, Tag, Confidence
  <2> QED
    BY <2>1, <2>2 DEF TableNotAhead, NoTags
<1>2. CASE ExitProcess
  BY <1>2 DEF ExitProcess, TableNotAhead, NoTags
<1>3. ASSUME NEW found \in Seq(Address), NEW isCoinjoin, NEW failing, NEW blind,
             ExpandFromTx(found, isCoinjoin, failing, blind)
      PROVE  TableNotAhead'
  <2>1. CASE UNCHANGED tagVars
    BY <2>1 DEF tagVars, TableNotAhead, NoTags
  <2>2. ASSUME NEW i \in DOMAIN found,
               NEW tag, tag = ClusterTag(map[found[i]]),
               NEW new, new = {a \in Range(found) : Weaker(map, a, tag)},
               map[found[i]] \in Tag,
               Spreads(tag, new, failing, blind)
        PROVE  TableNotAhead'
    <3>1. tag \in Tag /\ new \in SUBSET Address /\ map # NoTags
      BY <2>2, ClusterTagType, FiniteRange, TagAssumption DEF NoTags
    <3>2. ASSUME NEW a \in Address, dbTags'[a] # NoTag
          PROVE  map'[a] # NoTag /\ dbTags'[a].confidence <= map'[a].confidence
      <4>1. /\ map'[a] = IF a \in new THEN tag ELSE map[a]
            /\ dbTags'[a] = dbTags[a] \/ (dbTags'[a] = tag /\ a \in new)
        BY <2>2, <3>1, SpreadsType
      <4>2. tag # NoTag /\ \A t \in Tag : t.confidence \in Int
        BY <3>1, TagAssumption DEF Tag, Confidence
      <4>3. CASE a \in new
        <5>1. dbTags[a] = NoTag \/ (dbTags[a] \in Tag /\ dbTags[a].confidence < tag.confidence)
          BY <4>3, <2>2, <3>1, NewIsWeaker
        <5> QED
          BY <3>1, <3>2, <4>1, <4>2, <4>3, <5>1
      <4>4. CASE a \notin new
        BY <3>1, <3>2, <4>1, <4>4 DEF TableNotAhead
      <4> QED
        BY <4>3, <4>4
    <3> QED
      BY <3>2 DEF TableNotAhead
  <2> QED
    BY <1>3, <2>1, <2>2, Expansion
<1>4. CASE UNCHANGED tagVars
  BY <1>4 DEF tagVars, TableNotAhead, NoTags
<1> QED
  BY <1>1, <1>2, <1>3, <1>4 DEF TagNext

\* A tag that is there stays, or gives way to a more confident one.
Improves(m, n) == \A a \in Tagged(m) : n[a] = m[a] \/ n[a].confidence > m[a].confidence

\* No step while the process is up makes a tag worse.
LEMMA NextImproves ==
    TagTypeOK /\ TableNotAhead /\ [TagNext]_tagVars =>
        (process = "up" /\ process' = "up" => Improves(map, map') /\ Improves(dbTags, dbTags'))
<1> SUFFICES ASSUME TagTypeOK, TableNotAhead, [TagNext]_tagVars,
                    process = "up", process' = "up"
             PROVE  Improves(map, map') /\ Improves(dbTags, dbTags')
  OBVIOUS
<1>1. CASE UNCHANGED tagVars
  BY <1>1 DEF tagVars, Improves
<1>2. ASSUME NEW found \in Seq(Address), NEW isCoinjoin, NEW failing, NEW blind,
             ExpandFromTx(found, isCoinjoin, failing, blind)
      PROVE  Improves(map, map') /\ Improves(dbTags, dbTags')
  <2>1. ASSUME NEW i \in DOMAIN found,
               NEW tag, tag = ClusterTag(map[found[i]]),
               NEW new, new = {a \in Range(found) : Weaker(map, a, tag)},
               map[found[i]] \in Tag,
               Spreads(tag, new, failing, blind)
        PROVE  Improves(map, map') /\ Improves(dbTags, dbTags')
    <3>1. tag \in Tag /\ new \in SUBSET Address /\ map # NoTags
      BY <2>1, ClusterTagType, FiniteRange, TagAssumption DEF NoTags
    <3>2. \A t \in Tag : t.confidence \in Int
      BY TagAssumption DEF Tag, Confidence
    <3>3. ASSUME NEW a \in Address
          PROVE  /\ map[a] # NoTag =>
                        map'[a] = map[a] \/ map'[a].confidence > map[a].confidence
                 /\ dbTags[a] # NoTag =>
                        dbTags'[a] = dbTags[a] \/ dbTags'[a].confidence > dbTags[a].confidence
      <4>1. /\ map'[a] = IF a \in new THEN tag ELSE map[a]
            /\ dbTags'[a] = dbTags[a] \/ (dbTags'[a] = tag /\ a \in new)
        BY <2>1, <3>1, SpreadsType
      <4>2. CASE a \in new
        <5>1. /\ map[a] = NoTag \/ (map[a] \in Tag /\ map[a].confidence < tag.confidence)
              /\ dbTags[a] = NoTag \/ (dbTags[a] \in Tag /\ dbTags[a].confidence < tag.confidence)
          BY <4>2, <2>1, <3>1, NewIsWeaker
        <5> QED
          BY <3>1, <3>2, <4>1, <4>2, <5>1
      <4> QED
        BY <4>1, <4>2
    <3> QED
      BY <3>3 DEF Improves, Tagged
  <2> QED
    BY <1>1, <1>2, <2>1, Expansion
<1>3. ~ExitProcess /\ \A csv, lines, readable : ~StartProcess(csv, lines, readable)
  BY DEF ExitProcess, StartProcess
<1> QED
  BY <1>1, <1>2, <1>3 DEF TagNext

\* While the process is up no tag is lost or becomes less certain, in memory or in
\* the table, whatever is clustered and whichever inserts and look-ups fail.
THEOREM TagsCorrect == TagSpec => TagsOnlyImprove
<1>1. TagInit => TableNotAhead
  BY DEF TagInit, TableNotAhead, NoTags
<1>2. TagTypeOK /\ TableNotAhead /\ [TagNext]_tagVars =>
          [process = "up" /\ process' = "up" =>
              /\ \A a \in Tagged(map) :
                     map'[a] = map[a] \/ map'[a].confidence > map[a].confidence
              /\ \A a \in Tagged(dbTags) :
                     dbTags'[a] = dbTags[a]
                     \/ dbTags'[a].confidence > dbTags[a].confidence]_tagVars
  BY NextImproves DEF Improves
<1> QED
  BY <1>1, <1>2, NextNotAhead, TagTypeCorrect, PTL DEF TagSpec, TagsOnlyImprove

\* Without a failure the table holds what the memory holds.
LEMMA NextFollows ==
    TagTypeOK /\ TableFollowsMemory /\ [TagNext]_tagVars => TableFollowsMemory'
<1> SUFFICES ASSUME TagTypeOK, TableFollowsMemory, [TagNext]_tagVars,
                    process' = "up", failures' = 0
             PROVE  dbTags' = map'
  BY DEF TableFollowsMemory
<1>1. CASE UNCHANGED tagVars
  BY <1>1 DEF tagVars, TableFollowsMemory
<1>2. ASSUME NEW csv \in CsvFiles, NEW lines \in SUBSET Tagged(csv), NEW readable \in BOOLEAN,
             StartProcess(csv, lines, readable)
      PROVE  dbTags' = map'
  <2>1. readable
    BY <1>2 DEF StartProcess, TagTypeOK
  <2> QED
    BY <1>2, <2>1 DEF StartProcess
<1>3. CASE ExitProcess
  BY <1>3 DEF ExitProcess
<1>4. ASSUME NEW found \in Seq(Address), NEW isCoinjoin, NEW failing, NEW blind,
             ExpandFromTx(found, isCoinjoin, failing, blind)
      PROVE  dbTags' = map'
  <2>1. ASSUME NEW i \in DOMAIN found,
               NEW tag, tag = ClusterTag(map[found[i]]),
               NEW new, new = {a \in Range(found) : Weaker(map, a, tag)},
               map[found[i]] \in Tag,
               Spreads(tag, new, failing, blind),
               UNCHANGED <<process, exits, told>>
        PROVE  dbTags' = map'
    <3> DEFINE missed == failing \cup blind
    <3>1. IsFiniteSet(missed)
      BY <2>1, FS_Subset DEF Spreads
    <3>2. Cardinality(missed) \in Nat /\ failures \in Nat
          /\ failures + Cardinality(missed) = 0
      BY <2>1, <3>1, FS_CardinalityType DEF Spreads, TagTypeOK
    <3>3. Cardinality(missed) = 0 /\ failures = 0
      <4> HIDE DEF missed
      <4> QED
        BY <3>2
    <3>4. failing = {} /\ blind = {}
      BY <3>1, <3>3, FS_EmptySet
    <3>5. dbTags = map
      BY <2>1, <3>3 DEF TableFollowsMemory
    <3>6. \A a \in new : a \in Address /\ Weaker(dbTags, a, tag)
      BY <2>1, <3>5, FiniteRange
    <3> QED
      BY <2>1, <3>4, <3>5, <3>6 DEF Spreads, Stored
  <2> QED
    BY <1>1, <1>4, <2>1, Expansion
<1> QED
  BY <1>1, <1>2, <1>3, <1>4 DEF TagNext

\* While the process is up and no database call has failed, memory and table agree.
THEOREM TableFollows == TagSpec => []TableFollowsMemory
<1>1. TagInit => TableFollowsMemory
  BY DEF TagInit, TableFollowsMemory
<1> QED
  BY <1>1, NextFollows, TagTypeCorrect, PTL DEF TagSpec

-----------------------------------------------------------------------------
(* Where cluster tags come from. *)

\* A tag with source csv was told for its address.
CsvTold ==
    \A a \in Address :
        /\ map[a] # NoTag /\ map[a].source = "csv" => <<a, map[a]>> \in told
        /\ dbTags[a] # NoTag /\ dbTags[a].source = "csv" => <<a, dbTags[a]>> \in told

\* The groups partition the addresses.
GroupsPartition ==
    \A a \in Address :
        /\ a \in group[a]
        /\ \A b \in group[a] : group[b] = group[a]

\* A tag of the file with which another one, of address a, is earned.
Earned(a, tag, tags, groups) ==
    \E root \in tags :
        /\ root[1] \in groups[a]
        /\ root[2].entity = tag.entity
        /\ tag.confidence <= Derived(root[2].confidence)

\* The cluster tags of a map are earned.
AllEarned(m, tags, groups) ==
    \A a \in Address :
        m[a] # NoTag /\ m[a].source = "cluster" => Earned(a, m[a], tags, groups)

\* ClusterTagsEarned is about the memory and about the table.
LEMMA EarnedTwice ==
    ClusterTagsEarned <=> AllEarned(map, told, group) /\ AllEarned(dbTags, told, group)
BY DEF ClusterTagsEarned, AllEarned, Earned, Tagged

\* What is told later, and groups that grow, take nothing back.
LEMMA EarnedStays ==
    ASSUME NEW tags, NEW more, tags \subseteq more, NEW groups, NEW wider, NEW tag,
           NEW a \in Address, groups[a] \subseteq wider[a], Earned(a, tag, tags, groups)
    PROVE  Earned(a, tag, more, wider)
BY DEF Earned

\* Merging the groups of the found keeps a partition, in which every group has grown.
LEMMA MergePartition ==
    ASSUME TagTypeOK, GroupsPartition, NEW found \in Seq(Address), group' = Merged(found)
    PROVE  /\ GroupsPartition'
           /\ \A a \in Address : group[a] \subseteq group'[a]
           /\ \A a, b \in Range(found) : group[b] \subseteq group'[a]
<1> DEFINE J == Joined(found)
<1>1. /\ J \in SUBSET Address
      /\ \A a \in Address : group'[a] = IF a \in J THEN J ELSE group[a]
  BY MergedType DEF TagTypeOK
<1>2. Range(found) \subseteq Address
  BY FiniteRange
<1>3. \A a \in Address : a \in J <=> \E b \in Range(found) : a \in group[b]
  BY DEF Joined
<1>4. \A b \in Range(found) : group[b] \subseteq J
  BY DEF Joined
<1>5. \A a \in Address : group[a] \in SUBSET Address
  BY DEF TagTypeOK
<1> HIDE DEF J
<1>6. \A a \in J : group[a] \subseteq J
  BY <1>1, <1>2, <1>3, <1>4 DEF GroupsPartition
<1>7. \A a \in Address : a \notin J => \A b \in group[a] : b \notin J
  BY <1>1, <1>5, <1>6 DEF GroupsPartition
<1>8. \A a \in Range(found) : a \in J
  BY <1>2, <1>4 DEF GroupsPartition
<1>9. GroupsPartition'
  BY <1>1, <1>5, <1>7 DEF GroupsPartition
<1> QED
  BY <1>1, <1>2, <1>4, <1>6, <1>8, <1>9

\* The three together are inductive.
LEMMA NextEarned ==
    /\ TagTypeOK /\ ClusterTagsEarned /\ CsvTold /\ GroupsPartition
    /\ [TagNext]_tagVars
    => ClusterTagsEarned' /\ CsvTold' /\ GroupsPartition'
<1> SUFFICES ASSUME TagTypeOK, ClusterTagsEarned, CsvTold, GroupsPartition, [TagNext]_tagVars
             PROVE  ClusterTagsEarned' /\ CsvTold' /\ GroupsPartition'
  OBVIOUS
<1>e. AllEarned(map, told, group) /\ AllEarned(dbTags, told, group)
  BY EarnedTwice
<1>q. AllEarned(map', told', group') /\ AllEarned(dbTags', told', group') => ClusterTagsEarned'
  BY DEF ClusterTagsEarned, AllEarned, Earned, Tagged
<1>n. AllEarned(NoTags, told', group')
  BY DEF AllEarned, NoTags
<1>1. ASSUME NEW csv \in CsvFiles, NEW lines \in SUBSET Tagged(csv), NEW readable \in BOOLEAN,
             StartProcess(csv, lines, readable)
      PROVE  ClusterTagsEarned' /\ CsvTold' /\ GroupsPartition'
  <2>1. /\ map' = dbTags' \/ map' = NoTags
        /\ \A a \in Address : dbTags'[a] = dbTags[a] \/ (a \in lines /\ dbTags'[a] = csv[a])
        /\ \A a \in lines : csv[a] \in Tag /\ csv[a].source = "csv"
    BY <1>1, StartType
  <2>2. group' = group /\ told' = told \cup {<<a, csv[a]>> : a \in lines}
    BY <1>1 DEF StartProcess
  <2>3. AllEarned(dbTags', told', group')
    BY <1>e, <2>1, <2>2 DEF AllEarned, Earned
  <2>4. CsvTold'
    BY <2>1, <2>2 DEF CsvTold, NoTags
  <2> QED
    BY <1>q, <1>n, <2>1, <2>2, <2>3, <2>4 DEF GroupsPartition
<1>2. CASE ExitProcess
  <2>1. map' = NoTags /\ dbTags' = dbTags /\ told' = told /\ group' = group
    BY <1>2 DEF ExitProcess
  <2>2. CsvTold'
    BY <2>1 DEF CsvTold, NoTags
  <2> QED
    BY <1>e, <1>q, <1>n, <2>1, <2>2 DEF GroupsPartition
<1>3. CASE UNCHANGED tagVars
  BY <1>3, <1>e, <1>q DEF tagVars, CsvTold, GroupsPartition
<1>4. ASSUME NEW found \in Seq(Address), NEW isCoinjoin, NEW failing, NEW blind,
             ExpandFromTx(found, isCoinjoin, failing, blind)
      PROVE  ClusterTagsEarned' /\ CsvTold' /\ GroupsPartition'
  <2>1. ASSUME NEW i \in DOMAIN found,
               NEW tag, tag = ClusterTag(map[found[i]]),
               NEW new, new = {a \in Range(found) : Weaker(map, a, tag)},
               map[found[i]] \in Tag,
               Spreads(tag, new, failing, blind),
               group' = Merged(found),
               UNCHANGED <<process, exits, told>>
        PROVE  ClusterTagsEarned' /\ CsvTold' /\ GroupsPartition'
    <3> DEFINE b == found[i]
               best == map[b]
    <3>1. /\ b \in Address /\ b \in Range(found)
          /\ best \in Tag /\ best # NoTag
          /\ tag \in Tag /\ tag.source = "cluster" /\ tag.entity = best.entity
          /\ tag.confidence = Derived(best.confidence)
          /\ new \in SUBSET Address /\ new \subseteq Range(found)
      BY <2>1, ClusterTagType, FiniteRange, TagAssumption DEF Range
    <3>2. \A a \in Address : /\ map'[a] = IF a \in new THEN tag ELSE map[a]
                             /\ dbTags'[a] = dbTags[a] \/ (dbTags'[a] = tag /\ a \in new)
      <4>1. Spreads(tag, new, failing, blind) /\ tag \in Tag /\ new \in SUBSET Address
        BY <2>1, <3>1
      <4> QED
        BY <4>1, SpreadsType
    <3>3. /\ GroupsPartition'
          /\ \A a \in Address : group[a] \subseteq group'[a]
          /\ \A a \in Range(found) : group[b] \subseteq group'[a]
      BY <2>1, <3>1, MergePartition
    <3>4. told' = told
      BY <2>1
    <3>5. PICK root \in told : /\ root[1] \in group[b]
                               /\ root[2].entity = tag.entity
                               /\ tag.confidence <= Derived(root[2].confidence)
      <4>1. CASE best.source = "csv"
        <5>1. <<b, best>> \in told
          BY <3>1, <4>1 DEF CsvTold
        <5>2. b \in group[b]
          BY <3>1 DEF GroupsPartition
        <5>3. Derived(best.confidence) <= Derived(best.confidence)
          BY <3>1, DerivedBounds, TagAssumption DEF Tag, Confidence
        <5> QED
          BY <3>1, <5>1, <5>2, <5>3
      <4>2. CASE best.source = "cluster"
        <5>1. PICK root \in told : /\ root[1] \in group[b]
                                   /\ root[2].entity = best.entity
                                   /\ best.confidence <= Derived(root[2].confidence)
          BY <1>e, <3>1, <4>2 DEF AllEarned, Earned
        <5>2. root[2].confidence \in Confidence /\ best.confidence \in Confidence
          BY <3>1 DEF TagTypeOK, Tag
        <5>3. Derived(best.confidence) <= Derived(root[2].confidence)
          BY <5>1, <5>2, DerivedTwice
        <5>4. tag.confidence <= Derived(root[2].confidence)
          BY <3>1, <5>3
        <5> HIDE DEF best, b
        <5> QED
          BY <3>1, <5>1, <5>4
      <4> QED
        BY <3>1, <4>1, <4>2 DEF Tag
    <3>6. \A a \in new : Earned(a, tag, told', group')
      BY <3>1, <3>3, <3>4, <3>5 DEF Earned
    <3>7. AllEarned(map', told', group') /\ AllEarned(dbTags', told', group')
      BY <1>e, <3>2, <3>3, <3>4, <3>6, EarnedStays DEF AllEarned
    <3>8. CsvTold'
      BY <3>1, <3>2, <3>4 DEF CsvTold
    <3> QED
      BY <1>q, <3>3, <3>7, <3>8
  <2> QED
    BY <1>3, <1>4, <2>1, Expansion
<1> QED
  BY <1>1, <1>2, <1>3, <1>4 DEF TagNext

\* Every cluster tag goes back to a tag of the CSV file of the same entity, at least
\* a factor more confident, on an address that transactions link to this one.
THEOREM ClusterEarned == TagSpec => []ClusterTagsEarned
<1>1. TagInit => ClusterTagsEarned /\ CsvTold /\ GroupsPartition
  BY DEF TagInit, ClusterTagsEarned, CsvTold, GroupsPartition, Tagged, NoTags
<1> QED
  BY <1>1, NextEarned, TagTypeCorrect, PTL DEF TagSpec

-----------------------------------------------------------------------------
(* The loop over the found. *)

\* PrevoutTypeOK with what its preservation needs: where the loop is, what it reads
\* there and what it adds up.
PrevoutInv ==
    /\ PrevoutTypeOK
    /\ blocks \in Nat
    /\ inputs \in Seq(Outpoint \cup {NullOutpoint})
    /\ sum \in SumType
    /\ phase = "asking" => inputs[pos] \in Outpoint
    /\ phase # "idle" => process = "up"

\* What the node tells of an output has the type of a row.
LEMMA ToldIsRow ==
    ASSUME PrevoutInv, NEW o \in Outpoint
    PROVE  /\ Told(o) \in Row
           /\ AddressesOf(o) \in Seq(Address)
<1>1. o[1] \in Funding /\ Value[o] \in Nat
  BY PrevoutsAssumption
<1>2. minedIn[o[1]] \in Nat
  BY <1>1 DEF PrevoutInv, PrevoutTypeOK
<1>3. AddressOf[o] \in Address \cup {NoAddress}
  BY PrevoutsAssumption, EnrichmentAssumption DEF Range
<1> QED
  BY <1>1, <1>2, <1>3 DEF Told, Row, AddressesOf

\* A resolved input adds a row and addresses to the sums.
LEMMA AccumulatedType ==
    ASSUME sum \in SumType, NEW row \in Row, NEW addresses \in Seq(Address)
    PROVE  /\ Accumulated(row, addresses) \in SumType
           /\ Accumulated(row, addresses).resolved = sum.resolved + 1
<1>1. OldestOf(sum.oldest, row.block) \in Nat
  BY DEF OldestOf, SumType, Row
<1>2. sum.addresses \o addresses \in Seq(Address)
  BY DEF SumType
<1>3. sum.value + row.value \in Nat /\ sum.resolved + 1 \in Nat
  BY DEF SumType, Row
<1> QED
  BY <1>1, <1>2, <1>3 DEF Accumulated, SumType

\* Nothing is added up at the start of a transaction.
LEMMA NothingYetType == NothingYet \in SumType /\ NothingYet.resolved = 0
BY DEF NothingYet, SumType

\* The initial state is one of an idle task.
LEMMA InitPrevoutInv == Init => PrevoutInv
<1> SUFFICES ASSUME Init PROVE PrevoutInv
  OBVIOUS
<1>1. /\ minedIn \in [Funding -> 0..blocks] /\ blocks \in Nat
      /\ cache \in [Outpoint -> Row \cup {NoRow}]
  BY DEF Init, PrevoutInit
<1>2. phase = "idle" /\ inputs = <<>> /\ pos = 1 /\ sum = NothingYet
  BY DEF Init, PrevoutInit
<1>3. PrevoutTypeOK
  BY <1>1, <1>2, NothingYetType DEF PrevoutTypeOK
<1> QED
  BY <1>1, <1>2, <1>3, NothingYetType DEF PrevoutInv

\* The loop goes to the next input with sums that have grown by at most one input.
LEMMA LoopOn ==
    ASSUME PrevoutInv, phase \in {"loop", "asking"}, pos <= Len(inputs),
           sum' \in SumType, sum'.resolved <= sum.resolved + 1,
           cache' \in [Outpoint -> Row \cup {NoRow}],
           phase' = "loop", pos' = pos + 1,
           UNCHANGED <<minedIn, blocks, inputs, process>>
    PROVE  PrevoutInv'
<1>1. sum.resolved \in Nat /\ sum'.resolved \in Nat /\ pos \in 1..Len(inputs)
      /\ sum.resolved < pos /\ Len(inputs) \in Nat
  BY DEF PrevoutInv, PrevoutTypeOK, SumType
<1>2. pos' \in 1..(Len(inputs) + 1) /\ sum'.resolved < pos'
  BY <1>1
<1>3. PrevoutTypeOK'
  BY <1>2 DEF PrevoutInv, PrevoutTypeOK
<1> QED
  BY <1>3 DEF PrevoutInv

\* Every step of the loop keeps PrevoutInv.
LEMMA ResolvePrevoutInv ==
    ASSUME PrevoutInv, ResolveStep
    PROVE  PrevoutInv'
<1>1. process' = process /\ inputs' = inputs /\ minedIn' = minedIn /\ blocks' = blocks
  BY DEF ResolveStep, PrevoutStep, SkipCoinbase, CacheHit, Ask, Answer, NoAnswer, tagVars
<1>2. /\ sum \in SumType /\ sum.resolved \in Nat
      /\ cache \in [Outpoint -> Row \cup {NoRow}]
      /\ phase = "asking" => pos <= Len(inputs) /\ inputs[pos] \in Outpoint
      /\ pos \in 1..(Len(inputs) + 1) /\ Len(inputs) \in Nat
      /\ inputs \in Seq(Outpoint \cup {NullOutpoint})
  BY DEF PrevoutInv, PrevoutTypeOK, SumType
<1>3. AtInput /\ inputs[pos] # NullOutpoint => inputs[pos] \in Outpoint
  BY <1>2 DEF AtInput
<1>4. CASE SkipCoinbase \/ NoAnswer
  <2>1. /\ phase \in {"loop", "asking"} /\ pos <= Len(inputs)
        /\ phase' = "loop" /\ pos' = pos + 1 /\ sum' = sum /\ cache' = cache
    BY <1>2, <1>4 DEF SkipCoinbase, NoAnswer, AtInput
  <2> QED
    BY <1>1, <1>2, <2>1, LoopOn
<1>5. CASE CacheHit
  <2>1. cache[inputs[pos]] \in Row
    BY <1>2, <1>3, <1>5 DEF CacheHit
  <2>2. /\ phase = "loop" /\ pos <= Len(inputs)
        /\ phase' = "loop" /\ pos' = pos + 1 /\ cache' = cache
        /\ sum' = Accumulated(cache[inputs[pos]], <<>>)
    BY <1>5 DEF CacheHit, AtInput
  <2>3. sum' \in SumType /\ sum'.resolved = sum.resolved + 1
    <3>1. <<>> \in Seq(Address)
      OBVIOUS
    <3>2. sum \in SumType
      BY <1>2
    <3> QED
      BY <2>1, <2>2, <3>1, <3>2, AccumulatedType
  <2> QED
    BY <1>1, <1>2, <2>2, <2>3, LoopOn
<1>6. CASE Answer
  <2>1. phase = "asking" /\ pos <= Len(inputs) /\ inputs[pos] \in Outpoint
    BY <1>2, <1>6 DEF Answer
  <2>2. /\ phase' = "loop" /\ pos' = pos + 1
        /\ sum' = Accumulated(Told(inputs[pos]), AddressesOf(inputs[pos]))
        /\ cache' = cache \/ cache' = Cached(inputs[pos], Told(inputs[pos]))
    BY <1>6 DEF Answer
  <2>3. sum' \in SumType /\ sum'.resolved = sum.resolved + 1
    <3>1. Told(inputs[pos]) \in Row /\ AddressesOf(inputs[pos]) \in Seq(Address)
      BY <2>1, ToldIsRow
    <3> QED
      BY <1>2, <2>2, <3>1, AccumulatedType
  <2>4. cache' \in [Outpoint -> Row \cup {NoRow}]
    BY <1>2, <2>1, <2>2, ToldIsRow DEF Cached
  <2> QED
    BY <1>1, <1>2, <2>1, <2>2, <2>3, <2>4, LoopOn
<1>7. CASE Ask
  <2>1. /\ phase' = "asking" /\ pos' = pos /\ sum' = sum /\ cache' = cache
        /\ pos <= Len(inputs) /\ inputs[pos] \in Outpoint /\ process = "up"
    BY <1>3, <1>7 DEF Ask, AtInput, ResolveStep
  <2> QED
    BY <1>1, <2>1 DEF PrevoutInv, PrevoutTypeOK
<1> QED
  BY <1>4, <1>5, <1>6, <1>7 DEF ResolveStep, PrevoutStep

\* PrevoutInv is inductive.
LEMMA NextPrevoutInv == PrevoutInv /\ [Next]_vars => PrevoutInv'
<1> SUFFICES ASSUME PrevoutInv, [Next]_vars PROVE PrevoutInv'
  OBVIOUS
<1>1. CASE StartUp
  <2>1. process' = "up" /\ UNCHANGED prevoutVars
    BY <1>1 DEF StartUp, StartProcess
  <2> QED
    BY <2>1 DEF prevoutVars, PrevoutInv, PrevoutTypeOK
<1>2. ASSUME Leave PROVE PrevoutInv'
  <2>1. /\ phase' = "idle" /\ inputs' = <<>> /\ pos' = 1 /\ sum' = NothingYet
        /\ UNCHANGED <<minedIn, blocks, cache>>
    BY <1>2 DEF Leave
  <2>2. PrevoutTypeOK'
    BY <2>1, NothingYetType DEF PrevoutInv, PrevoutTypeOK
  <2> QED
    BY <2>1, <2>2, NothingYetType DEF PrevoutInv
<1>3. CASE BeginTx
  <2>1. PICK ins \in Spends : Begin(ins)
    BY <1>3 DEF BeginTx
  <2>2. ins \in Seq(Outpoint) \/ ins = <<NullOutpoint>>
    BY PrevoutsAssumption
  <2>3. ins \in Seq(Outpoint \cup {NullOutpoint}) /\ Len(ins) \in Nat
    <3>1. CASE ins \in Seq(Outpoint)
      BY <3>1
    <3>2. CASE ins = <<NullOutpoint>>
      BY <3>2
    <3> QED
      BY <2>2, <3>1, <3>2
  <2>4. /\ phase' = "loop" /\ inputs' = ins /\ pos' = 1 /\ sum' = NothingYet
        /\ UNCHANGED <<minedIn, blocks, cache>>
        /\ process' = "up"
    BY <1>3, <2>1 DEF BeginTx, Begin, tagVars
  <2>5. PrevoutTypeOK'
    BY <2>3, <2>4, NothingYetType DEF PrevoutInv, PrevoutTypeOK
  <2> QED
    BY <2>3, <2>4, <2>5, NothingYetType DEF PrevoutInv
<1>4. CASE ResolveStep
  BY <1>4, ResolvePrevoutInv
<1>5. CASE MineBlock
  <2>1. PICK fs \in SUBSET Funding : Mine(fs)
    BY <1>5 DEF MineBlock
  <2>2. /\ blocks' = blocks + 1
        /\ minedIn' = [f \in Funding |-> IF f \in fs THEN blocks' ELSE minedIn[f]]
        /\ UNCHANGED <<cache, phase, inputs, pos, sum, process>>
    BY <1>5, <2>1 DEF MineBlock, Mine, tagVars
  <2>3. minedIn' \in [Funding -> 0..blocks'] /\ blocks' \in Nat
    BY <2>2 DEF PrevoutInv, PrevoutTypeOK
  <2> QED
    BY <2>2, <2>3 DEF PrevoutInv, PrevoutTypeOK
<1>6. CASE UNCHANGED vars
  BY <1>6 DEF vars, prevoutVars, tagVars, PrevoutInv, PrevoutTypeOK
<1> QED
  BY <1>1, <1>2, <1>3, <1>4, <1>5, <1>6 DEF Next, ShutDown, Enrich

-----------------------------------------------------------------------------
(* The address tags by themselves. *)

\* Every step is a step of the address tags, or leaves them alone: the inputs of an
\* expansion are addresses.
LEMMA NextIsTagNext == PrevoutInv /\ [Next]_vars => [TagNext]_tagVars
<1> SUFFICES ASSUME PrevoutInv, [Next]_vars PROVE [TagNext]_tagVars
  OBVIOUS
<1>1. CASE StartUp
  BY <1>1 DEF StartUp, TagNext
<1>2. CASE ShutDown
  BY <1>2 DEF ShutDown, TagNext
<1>3. ASSUME NEW isCoinjoin \in BOOLEAN,
             NEW failing \in SUBSET Range(sum.addresses),
             NEW blind \in SUBSET Range(sum.addresses),
             Enrich(isCoinjoin, failing, blind)
      PROVE  TagNext
  <2>1. sum.addresses \in Seq(Address)
    BY DEF PrevoutInv, SumType
  <2>2. failing \in SUBSET Address /\ blind \in SUBSET Address
    BY <2>1, FiniteRange
  <2>3. ExpandFromTx(sum.addresses, isCoinjoin, failing, blind)
    BY <1>3 DEF Enrich
  <2> QED
    BY <2>1, <2>2, <2>3 DEF TagNext
<1>4. CASE BeginTx \/ ResolveStep \/ MineBlock \/ UNCHANGED vars
  BY <1>4 DEF BeginTx, ResolveStep, MineBlock, vars
<1> QED
  BY <1>1, <1>2, <1>3, <1>4 DEF Next

\* Enrichment implements the address tags as a component that is given any inputs.
THEOREM ImplementsTags == Spec => TagSpec
<1>1. Init => TagInit
  BY DEF Init
<1> QED
  BY <1>1, InitPrevoutInv, NextPrevoutInv, NextIsTagNext, PTL DEF Spec, TagSpec

\* In every reachable state the variables have their types and the loop over the
\* inputs is inside the transaction, in a process that is up.
THEOREM TypeCorrect == Spec => []TypeOK
<1>1. PrevoutInv /\ TagTypeOK => TypeOK
  BY DEF PrevoutInv, TypeOK
<1> QED
  BY <1>1, InitPrevoutInv, NextPrevoutInv, ImplementsTags, TagTypeCorrect, PTL DEF Spec

\* While the process is up no tag is lost or becomes less certain, in memory or in
\* the table, whichever transactions are enriched and whatever fails.
THEOREM TagsImprove == Spec => TagsOnlyImprove
BY ImplementsTags, TagsCorrect, PTL

\* Memory and table agree while the process is up and no database call has failed.
THEOREM TableCorrect == Spec => []TableFollowsMemory
BY ImplementsTags, TableFollows, PTL

\* Every cluster tag is earned from a tag of the CSV file.
THEOREM TagsEarned == Spec => []ClusterTagsEarned
BY ImplementsTags, ClusterEarned, PTL

-----------------------------------------------------------------------------
(* The cache. *)

\* CacheTruthful is preserved: an answer is stored under its own output, and only
\* what was in no block is mined.
LEMMA NextTruthful == PrevoutInv /\ CacheTruthful /\ [Next]_vars => CacheTruthful'
<1> SUFFICES ASSUME PrevoutInv, CacheTruthful, [Next]_vars PROVE CacheTruthful'
  OBVIOUS
<1>1. CASE UNCHANGED <<minedIn, cache>>
  BY <1>1 DEF CacheTruthful
<1>2. CASE ResolveStep
  <2>1. CASE Answer
    <3>1. /\ minedIn' = minedIn
          /\ cache' = cache \/ cache' = Cached(inputs[pos], Told(inputs[pos]))
      BY <2>1 DEF Answer
    <3>2. inputs[pos] \in Outpoint /\ cache \in [Outpoint -> Row \cup {NoRow}]
      BY <2>1 DEF Answer, PrevoutInv, PrevoutTypeOK
    <3> QED
      BY <3>1, <3>2 DEF Cached, Told, CacheTruthful
  <2>2. CASE ~Answer
    BY <1>1, <1>2, <2>2 DEF ResolveStep, PrevoutStep, SkipCoinbase, CacheHit, Ask, NoAnswer
  <2> QED
    BY <2>1, <2>2
<1>3. CASE MineBlock
  <2>1. PICK fs \in SUBSET Funding : Mine(fs)
    BY <1>3 DEF MineBlock
  <2>2. /\ \A f \in fs : minedIn[f] = 0
        /\ \A f \in Funding : minedIn'[f] = IF f \in fs THEN blocks' ELSE minedIn[f]
        /\ cache' = cache
    BY <2>1 DEF Mine
  <2>3. \A o \in Outpoint : o[1] \in Funding
    BY PrevoutsAssumption
  <2> QED
    BY <2>2, <2>3 DEF CacheTruthful
<1>4. CASE StartUp \/ BeginTx \/ ShutDown
           \/ \E isCoinjoin \in BOOLEAN, failing, blind \in SUBSET Range(sum.addresses) :
                  Enrich(isCoinjoin, failing, blind)
  BY <1>1, <1>4 DEF StartUp, BeginTx, Begin, ShutDown, Enrich, Leave, prevoutVars
<1> QED
  BY <1>1, <1>2, <1>3, <1>4 DEF Next, vars, prevoutVars

\* A row of the cache is the truth about its output, or was before it was mined,
\* however answers, failures, blocks and restarts interleave.
THEOREM CacheCorrect == Spec => []CacheTruthful
<1>1. Init => CacheTruthful
  BY DEF Init, PrevoutInit, CacheTruthful
<1> QED
  BY <1>1, InitPrevoutInv, NextPrevoutInv, NextTruthful, PTL DEF Spec

-----------------------------------------------------------------------------
(* The sums over the inputs. *)

\* A recursive definition of partial sums has a solution.
LEMMA WorthIs ==
    ASSUME NEW s \in Seq(Outpoint)
    PROVE  /\ Worth(s)[0] = 0
           /\ \A n \in 1..Len(s) : Worth(s)[n] = Worth(s)[n - 1] + Value[s[n]]
           /\ \A n \in 0..Len(s) : Worth(s)[n] \in Nat
<1> DEFINE Solves(v, m) ==
               /\ v \in [0..m -> Nat] /\ v[0] = 0
               /\ \A n \in 1..m : v[n] = v[n - 1] + Value[s[n]]
           Unsolved == {m \in 0..Len(s) : ~\E v : Solves(v, m)}
<1>1. Len(s) \in Nat /\ \A n \in 1..Len(s) : Value[s[n]] \in Nat
  <2>1. \A n \in 1..Len(s) : s[n] \in Outpoint
    OBVIOUS
  <2> QED
    BY <2>1, PrevoutsAssumption
<1>2. Unsolved = {}
  <2>1. SUFFICES ASSUME Unsolved # {} PROVE FALSE
    OBVIOUS
  <2>2. PICK m \in Unsolved : \A k \in Unsolved : m <= k
    <3>1. Unsolved \in SUBSET Nat
      BY <1>1
    <3> HIDE DEF Unsolved
    <3> QED
      BY <2>1, <3>1, LeastNatural
  <2>3. m # 0
    <3>1. Solves([n \in 0..0 |-> 0], 0)
      OBVIOUS
    <3> HIDE DEF Solves
    <3> QED
      BY <2>2, <3>1
  <2>4. m \in 1..Len(s) /\ m - 1 \in 0..Len(s) /\ m - 1 \notin Unsolved
    <3>1. m \in 0..Len(s)
      BY <2>2
    <3>2. m \in 1..Len(s) /\ m - 1 \in 0..Len(s) /\ ~(m <= m - 1)
      BY <1>1, <2>3, <3>1
    <3> HIDE DEF Unsolved
    <3> QED
      BY <2>2, <3>2
  <2>5. PICK v : Solves(v, m - 1)
    BY <2>4
  <2>6. m \in Nat /\ Value[s[m]] \in Nat /\ m >= 1
    BY <1>1, <2>4
  <2> DEFINE w == [n \in 0..m |-> IF n = m THEN v[m - 1] + Value[s[m]] ELSE v[n]]
  <2>7. Solves(w, m)
    <3>1. \A n \in 0..m : n = m \/ n \in 0..(m - 1)
      BY <2>6
    <3>2. \A n \in 0..(m - 1) : v[n] \in Nat /\ n # m
      BY <2>5, <2>6
    <3>3. w \in [0..m -> Nat]
      BY <2>6, <3>1, <3>2
    <3>4. w[0] = 0
      BY <2>5, <2>6
    <3>5. ASSUME NEW n \in 1..m PROVE w[n] = w[n - 1] + Value[s[n]]
      <4>1. n - 1 \in 0..(m - 1) /\ n \in 0..m /\ n - 1 \in 0..m /\ n - 1 # m
        BY <2>6
      <4>2. w[n - 1] = v[n - 1]
        BY <4>1
      <4>3. CASE n = m
        BY <4>1, <4>2, <4>3
      <4>4. CASE n # m
        <5>1. n \in 1..(m - 1) /\ w[n] = v[n]
          BY <2>6, <4>1, <4>4
        <5> QED
          BY <2>5, <4>2, <5>1
      <4> QED
        BY <4>3, <4>4
    <3> QED
      BY <3>3, <3>4, <3>5
  <2>8. m \notin Unsolved
    <3> HIDE DEF Solves, w
    <3> QED
      BY <2>7
  <2> QED
    BY <2>2, <2>8
<1>3. PICK v : Solves(v, Len(s))
  <2>1. Len(s) \in 0..Len(s)
    BY <1>1
  <2> HIDE DEF Solves
  <2> QED
    BY <1>2, <2>1
<1>4. v = [n \in 0..Len(s) |-> IF n = 0 THEN 0 ELSE v[n - 1] + Value[s[n]]]
  <2>1. \A n \in 0..Len(s) : n = 0 \/ n \in 1..Len(s)
    BY <1>1
  <2>2. \A n \in 0..Len(s) : v[n] = IF n = 0 THEN 0 ELSE v[n - 1] + Value[s[n]]
    BY <1>3, <2>1
  <2> QED
    BY <1>3, <2>2
<1> DEFINE u == Worth(s)
<1>5. u = [n \in 0..Len(s) |-> IF n = 0 THEN 0 ELSE u[n - 1] + Value[s[n]]]
  BY <1>4, Zenon DEF Worth
<1> HIDE DEF u
<1>6. 0 \in 0..Len(s) /\ \A n \in 1..Len(s) : n \in 0..Len(s) /\ n # 0
  BY <1>1
<1>7. u[0] = 0 /\ \A n \in 1..Len(s) : u[n] = u[n - 1] + Value[s[n]]
  BY <1>5, <1>6
<1>8. \A n \in 0..Len(s) : u[n] \in Nat
  <2> DEFINE Odd == {n \in 0..Len(s) : u[n] \notin Nat}
  <2>1. SUFFICES ASSUME Odd # {} PROVE FALSE
    OBVIOUS
  <2>2. PICK m \in Odd : \A k \in Odd : m <= k
    <3>1. Odd \in SUBSET Nat
      BY <1>1
    <3> HIDE DEF Odd
    <3> QED
      BY <2>1, <3>1, LeastNatural
  <2>3. m # 0 /\ m \in 0..Len(s) /\ u[m] \notin Nat
    BY <1>7, <2>2
  <2>4. m \in 1..Len(s) /\ m - 1 \in 0..Len(s) /\ ~(m <= m - 1)
    BY <1>1, <2>3
  <2>5. u[m - 1] \in Nat
    <3>1. m - 1 \notin Odd
      <4> HIDE DEF Odd
      <4> QED
        BY <2>2, <2>4
    <3> QED
      BY <2>4, <3>1
  <2> QED
    BY <1>1, <1>7, <2>3, <2>4, <2>5
<1> QED
  BY <1>7, <1>8 DEF u

(* What the loop has summed up before the input it is at, while every input was  *)
(* resolved: the sums are those of the inputs behind it, whatever the cache holds *)
(* of them by now.                                                               *)
SumInv ==
    /\ IsInjective(inputs)
    /\ inputs \in Seq(Outpoint) \/ (inputs = <<NullOutpoint>> /\ sum.resolved = 0)
    /\ inputs \in Seq(Outpoint) /\ sum.resolved = pos - 1 =>
          /\ sum.value = Worth(inputs)[pos - 1]
          /\ \A i \in 1..(pos - 1) :
                cache[inputs[i]] # NoRow /\ cache[inputs[i]].block > 0 =>
                    0 < sum.oldest /\ sum.oldest <= cache[inputs[i]].block
          /\ sum.oldest > 0 => \E i \in 1..(pos - 1) : minedIn[inputs[i][1]] = sum.oldest

\* The numbers of a state.
LEMMA SumTypes ==
    ASSUME PrevoutInv
    PROVE  /\ pos \in Nat \ {0} /\ Len(inputs) \in Nat /\ pos <= Len(inputs) + 1
           /\ sum.value \in Nat /\ sum.resolved \in Nat /\ sum.oldest \in Nat
           /\ sum.resolved < pos /\ DOMAIN inputs = 1..Len(inputs)
           /\ \A o \in Outpoint : o[1] \in Funding /\ minedIn[o[1]] \in Nat /\ Value[o] \in Nat
           /\ \A o \in Outpoint : cache[o] # NoRow => cache[o] \in Row /\ cache[o].block \in Nat
<1>1. /\ pos \in 1..(Len(inputs) + 1) /\ Len(inputs) \in Nat /\ DOMAIN inputs = 1..Len(inputs)
      /\ sum.resolved < pos
  BY DEF PrevoutInv, PrevoutTypeOK
<1>2. sum.value \in Nat /\ sum.resolved \in Nat /\ sum.oldest \in Nat
  BY DEF PrevoutInv, SumType
<1>3. \A o \in Outpoint : o[1] \in Funding /\ Value[o] \in Nat
  BY PrevoutsAssumption
<1>4. \A f \in Funding : minedIn[f] \in Nat
  BY DEF PrevoutInv, PrevoutTypeOK
<1>5. \A o \in Outpoint : cache[o] # NoRow => cache[o] \in Row /\ cache[o].block \in Nat
  BY DEF PrevoutInv, PrevoutTypeOK, Row
<1> QED
  BY <1>1, <1>2, <1>3, <1>4, <1>5

\* One more input is resolved by a row that agrees with what the cache then holds of
\* it, and the rows of the inputs behind stay.
LEMMA SumOn ==
    ASSUME PrevoutInv, SumInv, NEW row \in Row, NEW addresses,
           phase \in {"loop", "asking"}, pos <= Len(inputs), inputs[pos] \in Outpoint,
           row.value = Value[inputs[pos]],
           row.block \in {0, minedIn[inputs[pos][1]]},
           cache'[inputs[pos]] # NoRow => cache'[inputs[pos]].block \in {0, row.block},
           \A o \in Outpoint \ {inputs[pos]} : cache'[o] = cache[o],
           sum' = Accumulated(row, addresses), pos' = pos + 1,
           UNCHANGED <<minedIn, inputs>>
    PROVE  SumInv'
<1> DEFINE o == inputs[pos]
<1>1. /\ pos \in Nat \ {0} /\ pos \in 1..Len(inputs) /\ pos' - 1 = pos
      /\ sum.resolved \in Nat /\ sum.value \in Nat /\ sum.oldest \in Nat
      /\ row.block \in Nat /\ row.value \in Nat
  BY SumTypes DEF Row
<1>2. /\ sum'.value = sum.value + row.value /\ sum'.resolved = sum.resolved + 1
      /\ sum'.oldest = OldestOf(sum.oldest, row.block)
  BY DEF Accumulated
<1>3. inputs \in Seq(Outpoint)
  <2>1. inputs # <<NullOutpoint>>
    BY PrevoutsAssumption, <1>1
  <2> QED
    BY <2>1 DEF SumInv
<1>4. SUFFICES ASSUME sum'.resolved = pos' - 1
               PROVE  /\ sum'.value = Worth(inputs)[pos]
                      /\ \A i \in 1..pos :
                            cache'[inputs[i]] # NoRow /\ cache'[inputs[i]].block > 0 =>
                                0 < sum'.oldest /\ sum'.oldest <= cache'[inputs[i]].block
                      /\ sum'.oldest > 0 => \E i \in 1..pos : minedIn[inputs[i][1]] = sum'.oldest
  BY <1>1, <1>3 DEF SumInv
<1>5. sum.resolved = pos - 1
  BY <1>1, <1>2, <1>4
<1>6. /\ sum.value = Worth(inputs)[pos - 1]
      /\ \A i \in 1..(pos - 1) :
            cache[inputs[i]] # NoRow /\ cache[inputs[i]].block > 0 =>
                0 < sum.oldest /\ sum.oldest <= cache[inputs[i]].block
      /\ sum.oldest > 0 => \E i \in 1..(pos - 1) : minedIn[inputs[i][1]] = sum.oldest
  BY <1>3, <1>5 DEF SumInv
<1>7. sum'.value = Worth(inputs)[pos]
  <2>1. Worth(inputs)[pos] = Worth(inputs)[pos - 1] + Value[o]
    BY <1>1, <1>3, WorthIs
  <2> QED
    BY <1>2, <1>6, <2>1
<1>8. /\ sum'.oldest \in {sum.oldest, row.block}
      /\ sum.oldest > 0 => 0 < sum'.oldest /\ sum'.oldest <= sum.oldest
      /\ row.block > 0 => 0 < sum'.oldest /\ sum'.oldest <= row.block
  BY <1>1, <1>2 DEF OldestOf
<1>9. \A i \in 1..pos : i = pos \/ i \in 1..(pos - 1)
  BY <1>1
<1>10. ASSUME NEW i \in 1..pos, cache'[inputs[i]] # NoRow, cache'[inputs[i]].block > 0
       PROVE  0 < sum'.oldest /\ sum'.oldest <= cache'[inputs[i]].block
  <2>1. CASE i = pos
    <3>1. cache'[inputs[i]].block = row.block
      BY <1>10, <2>1
    <3> QED
      BY <1>8, <1>10, <3>1
  <2>2. CASE i \in 1..(pos - 1)
    <3>1. /\ i \in DOMAIN inputs /\ pos \in DOMAIN inputs /\ i # pos
          /\ inputs[i] \in Outpoint
      BY <1>1, <1>3, <2>2
    <3>2. inputs[i] # o
      BY <3>1 DEF SumInv, IsInjective
    <3>3. cache'[inputs[i]] = cache[inputs[i]]
      BY <3>1, <3>2
    <3>4. 0 < sum.oldest /\ sum.oldest <= cache[inputs[i]].block /\ cache[inputs[i]].block \in Nat
      BY <1>6, <1>10, <2>2, <3>1, <3>3, SumTypes
    <3>5. 0 < sum'.oldest /\ sum'.oldest <= sum.oldest /\ sum'.oldest \in Nat
      BY <1>1, <1>8, <3>4
    <3> QED
      BY <1>1, <3>3, <3>4, <3>5
  <2> QED
    BY <1>9, <2>1, <2>2
<1>11. ASSUME sum'.oldest > 0
       PROVE  \E i \in 1..pos : minedIn[inputs[i][1]] = sum'.oldest
  <2>1. CASE sum'.oldest = sum.oldest
    <3>1. PICK i \in 1..(pos - 1) : minedIn[inputs[i][1]] = sum.oldest
      BY <1>6, <1>11, <2>1
    <3>2. i \in 1..pos
      BY <1>1
    <3> QED
      BY <2>1, <3>1, <3>2
  <2>2. CASE sum'.oldest = row.block
    <3>1. minedIn[inputs[pos][1]] = sum'.oldest
      BY <1>1, <1>11, <2>2
    <3>2. pos \in 1..pos
      BY <1>1
    <3> QED
      BY <3>1, <3>2
  <2> QED
    BY <1>8, <2>1, <2>2
<1> QED
  BY <1>7, <1>10, <1>11

\* SumInv is preserved by the loop.
LEMMA ResolveSumInv ==
    ASSUME PrevoutInv, CacheTruthful, SumInv, ResolveStep
    PROVE  SumInv'
<1>1. inputs' = inputs /\ minedIn' = minedIn
  BY DEF ResolveStep, PrevoutStep, SkipCoinbase, CacheHit, Ask, Answer, NoAnswer
<1>2. /\ cache \in [Outpoint -> Row \cup {NoRow}]
      /\ phase = "asking" => pos <= Len(inputs) /\ inputs[pos] \in Outpoint
      /\ pos \in 1..(Len(inputs) + 1) /\ Len(inputs) \in Nat
      /\ inputs \in Seq(Outpoint \cup {NullOutpoint})
  BY DEF PrevoutInv, PrevoutTypeOK
<1>3. AtInput /\ inputs[pos] # NullOutpoint => inputs[pos] \in Outpoint
  BY <1>2 DEF AtInput
<1>4. CASE SkipCoinbase \/ NoAnswer
  <2>1. pos' = pos + 1 /\ sum' = sum /\ cache' = cache
    BY <1>4 DEF SkipCoinbase, NoAnswer
  <2>2. sum.resolved # pos' - 1
    BY <2>1, SumTypes
  <2> QED
    BY <1>1, <2>1, <2>2 DEF SumInv
<1>5. CASE CacheHit
  <2>1. /\ phase = "loop" /\ pos <= Len(inputs) /\ inputs[pos] \in Outpoint
        /\ cache[inputs[pos]] # NoRow /\ pos' = pos + 1 /\ cache' = cache
        /\ sum' = Accumulated(cache[inputs[pos]], <<>>)
    BY <1>3, <1>5 DEF CacheHit, AtInput
  <2>2. /\ cache[inputs[pos]] \in Row /\ cache[inputs[pos]].value = Value[inputs[pos]]
        /\ cache[inputs[pos]].block \in {0, minedIn[inputs[pos][1]]}
    BY <1>2, <2>1 DEF CacheTruthful
  <2> QED
    BY <1>1, <2>1, <2>2, SumOn
<1>6. CASE Answer
  <2> DEFINE o == inputs[pos]
             row == Told(o)
  <2>1. /\ phase = "asking" /\ pos <= Len(inputs) /\ o \in Outpoint /\ pos' = pos + 1
        /\ sum' = Accumulated(row, AddressesOf(o))
        /\ cache' = cache \/ cache' = Cached(o, row)
    BY <1>2, <1>6 DEF Answer
  <2>2. row \in Row /\ row.value = Value[o] /\ row.block = minedIn[o[1]]
    BY <2>1, ToldIsRow DEF Told
  <2> HIDE DEF row
  <2>3. \A p \in Outpoint \ {o} : cache'[p] = cache[p]
    BY <1>2, <2>1 DEF Cached
  <2>4. cache'[o] # NoRow => cache'[o].block \in {0, row.block}
    <3>1. CASE cache' = cache
      BY <2>1, <2>2, <3>1 DEF CacheTruthful
    <3>2. CASE cache' = Cached(o, row)
      <4>1. cache'[o] = row
        BY <1>2, <2>1, <3>2 DEF Cached
      <4> QED
        BY <4>1
    <3> QED
      BY <2>1, <3>1, <3>2
  <2> QED
    BY <1>1, <2>1, <2>2, <2>3, <2>4, SumOn
<1>7. CASE Ask
  BY <1>1, <1>7 DEF Ask, SumInv
<1> QED
  BY <1>4, <1>5, <1>6, <1>7 DEF ResolveStep, PrevoutStep

\* SumInv is preserved: what is mined meanwhile was in no block before.
LEMMA NextSumInv == PrevoutInv /\ CacheTruthful /\ SumInv /\ [Next]_vars => SumInv'
<1> SUFFICES ASSUME PrevoutInv, CacheTruthful, SumInv, [Next]_vars PROVE SumInv'
  OBVIOUS
<1>1. CASE UNCHANGED prevoutVars
  BY <1>1 DEF prevoutVars, SumInv
<1>2. ASSUME Leave PROVE SumInv'
  <2>1. inputs' = <<>> /\ pos' = 1 /\ sum' = NothingYet
    BY <1>2 DEF Leave
  <2>2. inputs' \in Seq(Outpoint) /\ IsInjective(inputs') /\ 1..(pos' - 1) = {}
        /\ Worth(inputs')[0] = 0 /\ pos' - 1 = 0
    <3>1. <<>> \in Seq(Outpoint) /\ IsInjective(<<>>)
      BY DEF IsInjective
    <3>2. Worth(<<>>)[0] = 0
      BY <3>1, WorthIs
    <3> QED
      BY <2>1, <3>1, <3>2
  <2>3. sum'.value = 0 /\ sum'.oldest = 0
    BY <2>1 DEF NothingYet
  <2> QED
    BY <2>2, <2>3 DEF SumInv
<1>3. CASE BeginTx
  <2>1. PICK ins \in Spends : Begin(ins)
    BY <1>3 DEF BeginTx
  <2>2. (ins \in Seq(Outpoint) \/ ins = <<NullOutpoint>>) /\ IsInjective(ins)
    BY PrevoutsAssumption
  <2>3. inputs' = ins /\ pos' = 1 /\ sum' = NothingYet
    BY <2>1 DEF Begin
  <2>4. sum'.value = 0 /\ sum'.oldest = 0 /\ sum'.resolved = 0 /\ pos' - 1 = 0 /\ 1..(pos' - 1) = {}
    BY <2>3 DEF NothingYet
  <2>5. ins \in Seq(Outpoint) => Worth(ins)[0] = 0
    BY WorthIs
  <2> QED
    BY <2>2, <2>3, <2>4, <2>5 DEF SumInv
<1>4. CASE ResolveStep
  BY <1>4, ResolveSumInv
<1>5. CASE MineBlock
  <2>1. PICK fs \in SUBSET Funding : Mine(fs)
    BY <1>5 DEF MineBlock
  <2>2. /\ \A f \in fs : minedIn[f] = 0
        /\ minedIn' = [f \in Funding |-> IF f \in fs THEN blocks' ELSE minedIn[f]]
        /\ UNCHANGED <<cache, inputs, pos, sum>>
    BY <2>1 DEF Mine
  <2>3. \A f \in Funding : minedIn[f] # 0 => minedIn'[f] = minedIn[f]
    BY <2>2
  <2>4. ASSUME inputs \in Seq(Outpoint), sum.oldest > 0, NEW i \in 1..(pos - 1),
               minedIn[inputs[i][1]] = sum.oldest
        PROVE  minedIn'[inputs[i][1]] = sum.oldest
    <3>1. i \in 1..Len(inputs)
      BY SumTypes
    <3>2. inputs[i] \in Outpoint
      BY <2>4, <3>1
    <3>3. inputs[i][1] \in Funding /\ sum.oldest # 0
      BY <2>4, <3>2, SumTypes
    <3> QED
      BY <2>3, <2>4, <3>3
  <2> QED
    BY <2>2, <2>4 DEF SumInv
<1> QED
  BY <1>1, <1>2, <1>3, <1>4, <1>5 DEF Next, StartUp, ShutDown, Enrich, vars

\* When as many inputs were resolved as there are, the input value and the oldest
\* block are those of the inputs, for every list of inputs, whatever came from the
\* cache, failed or was mined meanwhile.
THEOREM ResolvedCorrect == Spec => []ResolvedIsExact
<1>1. Init => CacheTruthful
  BY DEF Init, PrevoutInit, CacheTruthful
<1>2. Init => SumInv
  <2>1. SUFFICES ASSUME Init PROVE SumInv
    OBVIOUS
  <2>2. inputs = <<>> /\ pos = 1 /\ sum = NothingYet
    BY <2>1 DEF Init, PrevoutInit
  <2>3. <<>> \in Seq(Outpoint) /\ IsInjective(<<>>)
    BY DEF IsInjective
  <2>4. Worth(<<>>)[0] = 0 /\ pos - 1 = 0 /\ 1..(pos - 1) = {}
    <3>1. Worth(<<>>)[0] = 0
      BY <2>3, WorthIs
    <3> QED
      BY <2>2, <3>1
  <2>5. sum.value = 0 /\ sum.oldest = 0
    BY <2>2 DEF NothingYet
  <2> QED
    BY <2>2, <2>3, <2>4, <2>5 DEF SumInv
<1>3. PrevoutInv /\ SumInv => ResolvedIsExact
  <2>1. SUFFICES ASSUME PrevoutInv, SumInv, Resolved, sum.resolved = Len(inputs)
                 PROVE  LET spent == Range(inputs)
                            cached == {o \in spent : cache[o] # NoRow}
                            dated == {o \in cached : cache[o].block > 0}
                        IN  /\ sum.value = Worth(inputs)[Len(inputs)]
                            /\ \A o \in dated : 0 < sum.oldest /\ sum.oldest <= cache[o].block
                            /\ sum.oldest > 0 => \E o \in spent : minedIn[o[1]] = sum.oldest
    BY DEF ResolvedIsExact
  <2>2. pos - 1 = Len(inputs) /\ DOMAIN inputs = 1..Len(inputs)
    BY <2>1, SumTypes DEF Resolved
  <2>3. inputs \in Seq(Outpoint)
    <3>1. CASE inputs = <<NullOutpoint>> /\ sum.resolved = 0
      <4>1. Len(inputs) = 1
        BY <3>1
      <4> QED
        BY <2>1, <3>1, <4>1
    <3> QED
      BY <2>1, <3>1 DEF SumInv
  <2>4. /\ sum.value = Worth(inputs)[Len(inputs)]
        /\ \A i \in 1..Len(inputs) :
              cache[inputs[i]] # NoRow /\ cache[inputs[i]].block > 0 =>
                  0 < sum.oldest /\ sum.oldest <= cache[inputs[i]].block
        /\ sum.oldest > 0 => \E i \in 1..Len(inputs) : minedIn[inputs[i][1]] = sum.oldest
    BY <2>1, <2>2, <2>3 DEF SumInv
  <2>5. Range(inputs) = {inputs[i] : i \in 1..Len(inputs)}
    BY <2>2 DEF Range
  <2> QED
    BY <2>4, <2>5
<1> QED
  BY <1>1, <1>2, <1>3, InitPrevoutInv, NextPrevoutInv, NextTruthful, NextSumInv, PTL DEF Spec
=============================================================================
