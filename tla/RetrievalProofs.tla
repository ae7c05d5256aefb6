----------------------------- MODULE RetrievalProofs -----------------------------
(***************************************************************************)
(* What the lookups and the router of Retrieval return, for any sound      *)
(* corpus and any question: rows of that corpus, of the source that was    *)
(* asked for, with the words and the persons they are said to have.        *)
(***************************************************************************)
EXTENDS Retrieval, SequenceFacts

\* row is base, or the part of it that a lookup shows instead (_heading_projection)
StandsFor(row, base) ==
    /\ WellFormed(row)
    /\ row.id = base.id /\ row.unit = base.unit /\ row.role = base.role
    /\ row.exact = base.exact /\ row.drawn = base.drawn
    /\ ToSet(row.boxes) \subseteq ToSet(base.boxes)
    /\ IsMetadata(row) <=> IsMetadata(base)
    /\ IsMetadata(row) => row = base
OfStore(st, row) == \E base \in SourceRows(st) : StandsFor(row, base)
RowsOfStore(st, rows) == IsSeq(rows) /\ \A row \in ToSet(rows) : OfStore(st, row)

\* the question names a metadata field, a person or an office
AsksMetadata(q) == ~(q.field = None /\ q.office = None /\ q.names = {})

SignedBy(st, name, id) ==
    \E fact \in ToSet(st.facts) : \E signatory \in ToSet(fact.signatories) :
        signatory.name = name /\ signatory.grounding = id

IsCandidate(c) ==
    c = [row |-> c.row, via |-> c.via, type |-> c.type, whole |-> c.whole,
         shared |-> c.shared, forced |-> c.forced, entity |-> c.entity]
Truthful(st, q, c) ==
    /\ IsCandidate(c) /\ OfStore(st, c.row)
    /\ c.via = "bm25" =>
          c.row \in ToSet(st.evidence) /\ (c.whole => q.words \subseteq RowWords(st, c.row))
    /\ Found(c.entity) => AsksMetadata(q) /\ SignedBy(st, c.entity, c.row.id)
AllTruthful(st, q, cs) == IsSeq(cs) /\ \A c \in ToSet(cs) : Truthful(st, q, c)

-----------------------------------------------------------------------------
(* The first of a list, and the rows of a store *)

LEMMA FirstFacts ==
    ASSUME NEW s, IsSeq(s)
    PROVE  /\ First(s) = None \/ (s # <<>> /\ First(s) \in ToSet(s))
           /\ s = <<>> => First(s) = None
           /\ Found(First(s)) <=> First(s) # None
BY ListFacts DEF First, Found

\* The first entry of s that is in T.
LEMMA FirstKept ==
    ASSUME NEW s, IsSeq(s), NEW T
    PROVE  /\ First(Kept(s, T)) = None \/ First(Kept(s, T)) \in ToSet(s) \cap T
           /\ None \notin ToSet(s) /\ ToSet(s) \cap T # {} => First(Kept(s, T)) # None
<1> DEFINE t == Kept(s, T)
<1>1. IsSeq(t) /\ ToSet(t) = ToSet(s) \cap T BY KeptFacts
<1> HIDE DEF t
<1>2. t = <<>> <=> ToSet(t) = {} BY <1>1, ListFacts
<1>3. t # <<>> => t[1] \in ToSet(t) BY <1>1, ListFacts
<1>4. First(t) = IF t = <<>> THEN None ELSE t[1] BY DEF First
<1> QED BY <1>1, <1>2, <1>3, <1>4 DEF t

LEMMA StoreRows ==
    ASSUME NEW st, Sound(st)
    PROVE  /\ IsSeq(st.evidence) /\ IsSeq(st.units) /\ IsSeq(st.facts) /\ IsSeq(st.props)
           /\ IsSeq(st.edges)
           /\ None \notin ToSet(st.evidence) /\ None \notin ToSet(st.units)
           /\ \A row \in ToSet(st.evidence) : row \in SourceRows(st)
           /\ \A row \in ToSet(Groundings(st)) : row \in SourceRows(st)
           /\ \A row \in SourceRows(st) : WellFormed(row) /\ OfStore(st, row)
<1>1. /\ IsSeq(st.evidence) /\ IsSeq(st.units) /\ IsSeq(st.facts) /\ IsSeq(st.props)
      /\ IsSeq(st.edges) /\ None \notin SourceRows(st) /\ None \notin ToSet(st.units)
      /\ \A row \in SourceRows(st) : WellFormed(row)
      BY DEF Sound, UnitsAreSound, RowsAreSound, PropsAreSound, EdgesAreSound
<1>2. \A row \in ToSet(st.evidence) \cup ToSet(Groundings(st)) : row \in SourceRows(st)
      BY DEF SourceRows
<1>3. ASSUME NEW row \in SourceRows(st) PROVE OfStore(st, row)
  <2>1. StandsFor(row, row) BY <1>1 DEF StandsFor
  <2> QED BY <2>1 DEF OfStore
<1> QED BY <1>1, <1>2, <1>3

\* A choice among rows of the store is one.
LEMMA KeptRows ==
    ASSUME NEW st, NEW rows, RowsOfStore(st, rows), NEW T
    PROVE  RowsOfStore(st, Kept(rows, T))
BY KeptFacts DEF RowsOfStore

LEMMA EvidenceRows ==
    ASSUME NEW st, Sound(st)
    PROVE  /\ RowsOfStore(st, st.evidence) /\ RowsOfStore(st, <<>>)
           /\ \A row \in ToSet(st.evidence) : RowsOfStore(st, <<row>>)
           /\ \A rows : IsSeq(rows) /\ ToSet(rows) \subseteq ToSet(st.evidence) => RowsOfStore(st, rows)
BY StoreRows, ShortLists DEF RowsOfStore

\* _lookup rows become candidates of one route.
LEMMA AsCandidates ==
    ASSUME NEW st, NEW q, NEW rows, RowsOfStore(st, rows), NEW via, via # "bm25", NEW type
    PROVE  AllTruthful(st, q, As(rows, via, type))
<1> DEFINE cs == As(rows, via, type)
<1>1. cs = [i \in DOMAIN rows |-> Candidate(rows[i], via, type)] BY DEF As
<1>2. cs = [i \in DOMAIN rows |-> cs[i]] BY <1>1
<1>3. \A i \in DOMAIN rows : cs[i] = Candidate(rows[i], via, type) BY <1>1
<1> HIDE DEF cs
<1>4. IsSeq(rows) /\ \A row \in ToSet(rows) : OfStore(st, row) BY DEF RowsOfStore
<1>5. IsSeq(cs) /\ ToSet(cs) = {cs[i] : i \in DOMAIN rows} BY <1>2, <1>4, Mapped
<1>6. ASSUME NEW c \in ToSet(cs) PROVE Truthful(st, q, c)
  <2>1. PICK i \in DOMAIN rows : c = Candidate(rows[i], via, type) BY <1>3, <1>5
  <2>2. rows[i] \in ToSet(rows) BY DEF ToSet
  <2>3. /\ IsCandidate(c) /\ c.row = rows[i] /\ c.via = via /\ c.entity = None
        BY <2>1 DEF Candidate, IsCandidate
  <2> QED BY <1>4, <2>2, <2>3 DEF Truthful, Found
<1> QED BY <1>5, <1>6 DEF AllTruthful, cs

-----------------------------------------------------------------------------
(* Units *)

LEMMA UnitFacts ==
    ASSUME NEW st, Sound(st), NEW id
    PROVE  Unit(st, id) = None \/ Unit(st, id) \in ToSet(st.units)
BY StoreRows, FirstKept DEF Unit, Select

LEMMA UpFacts ==
    ASSUME NEW st, Sound(st), NEW unit
    PROVE  Up(st, unit) = None \/ Up(st, unit) \in ToSet(st.units)
BY UnitFacts DEF Up

LEMMA ChildrenFacts ==
    ASSUME NEW st, Sound(st), NEW id
    PROVE  IsSeq(Children(st, id)) /\ ToSet(Children(st, id)) \subseteq ToSet(st.units)
BY StoreRows, KeptFacts DEF Children, Select

LEMMA DescendantsFacts ==
    ASSUME NEW st, Sound(st), NEW id
    PROVE  IsSeq(Descendants(st, id)) /\ ToSet(Descendants(st, id)) \subseteq ToSet(st.units)
<1> DEFINE kids == Children(st, id)
           lists == [i \in DOMAIN kids |-> <<kids[i]>> \o Children(st, kids[i].id)]
<1>1. IsSeq(kids) /\ ToSet(kids) \subseteq ToSet(st.units) BY ChildrenFacts
<1>2. Descendants(st, id) = FlattenSeq(lists) BY DEF Descendants
<1> HIDE DEF kids
<1>3. lists = [i \in DOMAIN kids |-> lists[i]] OBVIOUS
<1>4. ASSUME NEW i \in DOMAIN kids
      PROVE  IsSeq(lists[i]) /\ ToSet(lists[i]) \subseteq ToSet(st.units)
  <2>1. kids[i] \in ToSet(kids) BY DEF ToSet
  <2>2. IsSeq(<<kids[i]>>) /\ ToSet(<<kids[i]>>) = {kids[i]} BY ShortLists
  <2>3. /\ IsSeq(Children(st, kids[i].id))
        /\ ToSet(Children(st, kids[i].id)) \subseteq ToSet(st.units)
        BY ChildrenFacts
  <2>4. lists[i] = <<kids[i]>> \o Children(st, kids[i].id) OBVIOUS
  <2>5. /\ IsSeq(<<kids[i]>> \o Children(st, kids[i].id))
        /\ ToSet(<<kids[i]>> \o Children(st, kids[i].id))
              = ToSet(<<kids[i]>>) \cup ToSet(Children(st, kids[i].id))
        BY <2>2, <2>3, Joined
  <2> QED BY <1>1, <2>1, <2>2, <2>3, <2>4, <2>5
<1> HIDE DEF lists
<1>5. IsSeq(lists) /\ DOMAIN lists = DOMAIN kids BY <1>1, <1>3, Mapped
<1>6. /\ IsSeq(FlattenSeq(lists))
      /\ ToSet(FlattenSeq(lists)) = UNION {ToSet(lists[i]) : i \in DOMAIN lists}
      BY <1>4, <1>5, Flattened DEF AreLists
<1> QED BY <1>2, <1>4, <1>5, <1>6

LEMMA AskedUnitFacts ==
    ASSUME NEW st, Sound(st), NEW q, NEW kind
    PROVE  AskedUnit(st, q, kind) = None \/ AskedUnit(st, q, kind) \in ToSet(st.units)
<1> DEFINE label == IF kind = "pasal" THEN Pasal(q) ELSE q.bab
           matches == Select(st.units, LAMBDA u : u.label = label /\ u.kind = kind)
           scoped == Select(matches, LAMBDA u : u.role = Scope(q).role)
<1>1. IsSeq(matches) /\ ToSet(matches) \subseteq ToSet(st.units)
      BY StoreRows, KeptFacts DEF Select
<1> HIDE DEF matches
<1>2. IsSeq(scoped) /\ ToSet(scoped) \subseteq ToSet(matches)
      BY <1>1, KeptFacts DEF Select
<1> HIDE DEF scoped
<1>3. First(matches) = None \/ First(matches) \in ToSet(matches) BY <1>1, FirstFacts
<1>4. First(scoped) = None \/ First(scoped) \in ToSet(scoped) BY <1>2, FirstFacts
<1>5. AskedUnit(st, q, kind) \in {None, First(matches), First(scoped)}
      BY DEF AskedUnit, matches, scoped
<1> QED BY <1>1, <1>2, <1>3, <1>4, <1>5

-----------------------------------------------------------------------------
(* The relation and metadata lookups *)

LEMMA GroundingsFacts ==
    ASSUME NEW st, Sound(st)
    PROVE  /\ IsSeq(Groundings(st))
           /\ \A fact \in ToSet(st.facts) : ToSet(fact.groundings) \subseteq ToSet(Groundings(st))
<1> DEFINE lists == [i \in DOMAIN st.facts |-> st.facts[i].groundings]
<1>1. Groundings(st) = FlattenSeq(lists) BY DEF Groundings
<1>2. lists = [i \in DOMAIN st.facts |-> lists[i]] OBVIOUS
<1>3. IsSeq(st.facts) BY StoreRows
<1>4. \A fact \in ToSet(st.facts) : IsSeq(fact.groundings) BY DEF Sound, RowsAreSound
<1>5. \A i \in DOMAIN st.facts : lists[i] = st.facts[i].groundings OBVIOUS
<1> HIDE DEF lists
<1>6. IsSeq(lists) /\ DOMAIN lists = DOMAIN st.facts BY <1>2, <1>3, Mapped
<1>7. \A i \in DOMAIN lists : IsSeq(lists[i]) BY <1>4, <1>5, <1>6 DEF ToSet
<1>8. /\ IsSeq(FlattenSeq(lists))
      /\ ToSet(FlattenSeq(lists)) = UNION {ToSet(lists[i]) : i \in DOMAIN lists}
      BY <1>6, <1>7, Flattened DEF AreLists
<1>9. ASSUME NEW fact \in ToSet(st.facts)
      PROVE  ToSet(fact.groundings) \subseteq ToSet(FlattenSeq(lists))
  <2>1. PICK i \in DOMAIN st.facts : fact = st.facts[i] BY DEF ToSet
  <2>2. fact.groundings = lists[i] BY <1>5, <2>1
  <2> QED BY <1>6, <1>8, <2>2
<1> QED BY <1>1, <1>8, <1>9

LEMMA OwnEvidenceFacts ==
    ASSUME NEW st, Sound(st), NEW unit
    PROVE  OwnEvidence(st, unit) = None \/ OwnEvidence(st, unit) \in ToSet(st.evidence)
BY StoreRows, FirstKept DEF OwnEvidence, Select

LEMMA EvidenceForUnitFacts ==
    ASSUME NEW st, Sound(st), NEW unit
    PROVE  EvidenceForUnit(st, unit) = None \/ EvidenceForUnit(st, unit) \in ToSet(st.evidence)
<1> DEFINE family == <<unit>> \o Descendants(st, unit.id)
           owners == Select(family, LAMBDA u : Found(OwnEvidence(st, u)))
<1>1. EvidenceForUnit(st, unit) = IF owners = <<>> THEN None ELSE OwnEvidence(st, owners[1])
      BY DEF EvidenceForUnit
<1> HIDE DEF owners
<1> QED BY <1>1, OwnEvidenceFacts

\* The entries of a list of found rows.
LEMMA FoundRows ==
    ASSUME NEW st, Sound(st), NEW rows, IsSeq(rows),
           \A row \in ToSet(rows) : row = None \/ row \in ToSet(st.evidence)
    PROVE  /\ IsSeq(Select(rows, Found)) /\ ToSet(Select(rows, Found)) \subseteq ToSet(st.evidence)
           /\ RowsOfStore(st, Select(rows, Found))
<1>1. /\ IsSeq(Select(rows, Found))
      /\ ToSet(Select(rows, Found)) = ToSet(rows) \cap {x \in ToSet(rows) : Found(x)}
      BY KeptFacts DEF Select
<1>2. ToSet(Select(rows, Found)) \subseteq ToSet(st.evidence) BY <1>1 DEF Found
<1> QED BY <1>1, <1>2, EvidenceRows

\* relation_lookup returns evidence rows.
LEMMA RelationLookupFacts ==
    ASSUME NEW st, Sound(st), NEW q
    PROVE  AllTruthful(st, q, RelationLookup(st, q))
<1> DEFINE route == RelationRoute(q)
           source == AskedUnit(st, q, IF route = "bab_children" THEN "bab" ELSE "pasal")
           kind == IF route = "bab_children" THEN "pasal" ELSE "ayat"
           parent == Up(st, source)
           kids == Select(Children(st, source.id), LAMBDA u : u.kind = kind)
           units == IF route \in {None, "unsupported"} \/ ~Found(source) THEN <<>>
                    ELSE IF route # "parent" THEN kids
                    ELSE IF Found(parent) /\ parent.kind = "bab" /\ parent.role = source.role
                    THEN <<source>> ELSE <<>>
           rows == [i \in DOMAIN units |-> EvidenceForUnit(st, units[i])]
<1>1. RelationLookup(st, q) = As(Select(rows, Found), "relation", "relation")
      BY DEF RelationLookup
<1>2. IsSeq(kids) BY ChildrenFacts, KeptFacts DEF Select
<1>3. IsSeq(units)
  <2> HIDE DEF kids, source, parent
  <2> QED BY <1>2, ShortLists
<1> HIDE DEF units
<1>4. rows = [i \in DOMAIN units |-> rows[i]] OBVIOUS
<1>5. \A i \in DOMAIN units : rows[i] = None \/ rows[i] \in ToSet(st.evidence)
      BY EvidenceForUnitFacts
<1> HIDE DEF rows
<1>6. IsSeq(rows) /\ ToSet(rows) = {rows[i] : i \in DOMAIN units} BY <1>3, <1>4, Mapped
<1>7. RowsOfStore(st, Select(rows, Found)) BY <1>5, <1>6, FoundRows
<1> QED BY <1>1, <1>7, AsCandidates

\* The grounding rows of one document, with the persons they are about.
LEMMA FactRowsFacts ==
    ASSUME NEW st, Sound(st), NEW q, AsksMetadata(q), NEW fact \in ToSet(st.facts)
    PROVE  AllTruthful(st, q, FactRows(q, fact))
<1> DEFINE signers == Select(fact.signatories, LAMBDA s : Signs(q, s))
           grounded == Select(fact.groundings, LAMBDA row :
                           IF signers # <<>>
                           THEN \E s \in ToSet(signers) : row.id = s.grounding
                           ELSE row.field = q.field)
           named(row) == First(Select(signers, LAMBDA s : s.grounding = row.id))
           rows == IF signers = <<>> THEN Upto(1, grounded) ELSE grounded
           entity(row) == IF Found(named(row)) THEN named(row).name ELSE None
           cs == [i \in DOMAIN rows |->
                    [Candidate(rows[i], "metadata", "metadata") EXCEPT !.entity = entity(rows[i])]]
<1>1. FactRows(q, fact) = cs BY DEF FactRows
<1>2. IsSeq(fact.groundings) /\ IsSeq(fact.signatories) BY DEF Sound, RowsAreSound
<1>3. IsSeq(signers) /\ ToSet(signers) \subseteq ToSet(fact.signatories)
      BY <1>2, KeptFacts DEF Select
<1> HIDE DEF signers
<1>4. IsSeq(grounded) /\ ToSet(grounded) \subseteq ToSet(fact.groundings)
      BY <1>2, KeptFacts DEF Select
<1> HIDE DEF grounded
<1>5. IsSeq(rows) /\ ToSet(rows) \subseteq ToSet(fact.groundings) BY <1>4, UptoFacts
<1> HIDE DEF rows
<1>6. ToSet(fact.groundings) \subseteq ToSet(Groundings(st)) BY GroundingsFacts
<1>7. ASSUME NEW row, Found(entity(row))
      PROVE  SignedBy(st, entity(row), row.id)
  <2>1. Found(named(row)) /\ entity(row) = named(row).name BY <1>7 DEF Found
  <2>2. named(row) \in ToSet(signers) \cap {s \in ToSet(signers) : s.grounding = row.id}
        BY <1>3, <2>1, FirstKept DEF Select, Found
  <2> HIDE DEF named
  <2>3. named(row) \in ToSet(fact.signatories) /\ named(row).grounding = row.id BY <1>3, <2>2
  <2> QED BY <2>1, <2>3 DEF SignedBy
<1> HIDE DEF entity
<1>8. cs = [i \in DOMAIN rows |-> cs[i]] OBVIOUS
<1>9. ASSUME NEW i \in DOMAIN rows PROVE Truthful(st, q, cs[i])
  <2> DEFINE row == rows[i]
  <2>1. cs[i] = [row |-> row, via |-> "metadata", type |-> "metadata", whole |-> TRUE,
                 shared |-> {}, forced |-> FALSE, entity |-> entity(row)]
        BY DEF Candidate
  <2>2. row \in ToSet(rows) BY DEF ToSet
  <2>3. OfStore(st, row) BY <1>5, <1>6, <2>2, StoreRows
  <2> HIDE DEF cs, row
  <2>4. /\ IsCandidate(cs[i]) /\ cs[i].row = row /\ cs[i].via = "metadata"
        /\ cs[i].entity = entity(row)
        BY <2>1 DEF IsCandidate
  <2> QED BY <1>7, <2>3, <2>4 DEF Truthful
<1> HIDE DEF cs
<1>10. IsSeq(cs) /\ ToSet(cs) = {cs[i] : i \in DOMAIN rows} BY <1>5, <1>8, Mapped
<1> QED BY <1>1, <1>9, <1>10 DEF AllTruthful

\* metadata_lookup returns groundings, and nothing to a question that asks none.
LEMMA MetadataLookupFacts ==
    ASSUME NEW st, Sound(st), NEW q
    PROVE  /\ AllTruthful(st, q, MetadataLookup(st, q))
           /\ MetadataLookup(st, q) # <<>> => AsksMetadata(q)
<1> DEFINE facts == Select(st.facts, LAMBDA fact :
               /\ Explicit(q) => fact.role = Scope(q).role
               /\ Asks(q, "enactment") => fact.enacted
               /\ Found(q.office) => \E s \in ToSet(fact.signatories) : Signs(q, s))
           lists == [i \in DOMAIN facts |-> FactRows(q, facts[i])]
<1>1. MetadataLookup(st, q) = IF HasLegalReference(q) \/ ~AsksMetadata(q) THEN <<>>
                              ELSE FlattenSeq(lists)
      BY DEF MetadataLookup, AsksMetadata
<1>2. IsSeq(facts) /\ ToSet(facts) \subseteq ToSet(st.facts) BY StoreRows, KeptFacts DEF Select
<1> HIDE DEF facts
<1>3. CASE AsksMetadata(q)
  <2>1. lists = [i \in DOMAIN facts |-> lists[i]] OBVIOUS
  <2>2. ASSUME NEW i \in DOMAIN facts PROVE AllTruthful(st, q, lists[i])
    <3>1. facts[i] \in ToSet(facts) BY DEF ToSet
    <3>2. AllTruthful(st, q, FactRows(q, facts[i])) BY <1>2, <1>3, <3>1, FactRowsFacts
    <3> QED BY <3>2
  <2> HIDE DEF lists
  <2>3. IsSeq(lists) /\ DOMAIN lists = DOMAIN facts BY <1>2, <2>1, Mapped
  <2>4. \A i \in DOMAIN lists : IsSeq(lists[i]) BY <2>2, <2>3 DEF AllTruthful
  <2>5. /\ IsSeq(FlattenSeq(lists))
        /\ ToSet(FlattenSeq(lists)) = UNION {ToSet(lists[i]) : i \in DOMAIN lists}
        BY <2>3, <2>4, Flattened DEF AreLists
  <2>6. AllTruthful(st, q, FlattenSeq(lists)) BY <2>2, <2>3, <2>5 DEF AllTruthful
  <2>7. AllTruthful(st, q, <<>>) BY ShortLists DEF AllTruthful
  <2> QED BY <1>1, <1>3, <2>6, <2>7
<1>4. CASE ~AsksMetadata(q)
  <2>1. AllTruthful(st, q, <<>>) BY ShortLists DEF AllTruthful
  <2> QED BY <1>1, <1>4, <2>1
<1> QED BY <1>3, <1>4

-----------------------------------------------------------------------------
(* structured_lookup *)

\* The rows of one unit, and those of them that are drawn.
LEMMA UnitRowsFacts ==
    ASSUME NEW st, Sound(st), NEW id
    PROVE  /\ IsSeq(UnitRows(st, id)) /\ ToSet(UnitRows(st, id)) \subseteq ToSet(st.evidence)
           /\ IsSeq(DrawnRows(st, UnitRows(st, id)))
           /\ ToSet(DrawnRows(st, UnitRows(st, id))) \subseteq ToSet(st.evidence)
<1>1. /\ IsSeq(UnitRows(st, id)) /\ ToSet(UnitRows(st, id)) \subseteq ToSet(st.evidence)
      BY StoreRows, KeptFacts DEF UnitRows, Select
<1>2. /\ IsSeq(DrawnRows(st, UnitRows(st, id)))
      /\ ToSet(DrawnRows(st, UnitRows(st, id))) \subseteq ToSet(UnitRows(st, id))
      BY <1>1, KeptFacts DEF DrawnRows, Select
<1> QED BY <1>1, <1>2

LEMMA ListRowsFacts ==
    ASSUME NEW st, Sound(st), NEW q, NEW role
    PROVE  RowsOfStore(st, ListRows(st, q, role))
<1> DEFINE babs == Select(st.units, LAMBDA u :
                       u.kind = "bab" /\ u.role = Preferred /\ role \in {None, u.role})
           own(i) == UnitRows(st, babs[i].id)
           rows == [i \in DOMAIN babs |-> IF own(i) = <<>> THEN None ELSE Last(own(i))]
<1>1. ListRows(st, q, role) = Select(rows, Found) \/ ListRows(st, q, role) = <<>> BY DEF ListRows
<1>2. IsSeq(babs) BY StoreRows, KeptFacts DEF Select
<1> HIDE DEF babs
<1>3. rows = [i \in DOMAIN babs |-> rows[i]] OBVIOUS
<1>4. ASSUME NEW i \in DOMAIN babs PROVE rows[i] = None \/ rows[i] \in ToSet(st.evidence)
  <2>1. IsSeq(own(i)) /\ ToSet(own(i)) \subseteq ToSet(st.evidence) BY UnitRowsFacts
  <2>2. rows[i] = IF own(i) = <<>> THEN None ELSE Last(own(i)) OBVIOUS
  <2> HIDE DEF own, rows
  <2>3. own(i) # <<>> => own(i)[Len(own(i))] \in ToSet(own(i)) BY <2>1, ListFacts
  <2> QED BY <2>1, <2>2, <2>3 DEF Last
<1> HIDE DEF rows
<1>5. IsSeq(rows) /\ ToSet(rows) = {rows[i] : i \in DOMAIN babs} BY <1>2, <1>3, Mapped
<1>6. RowsOfStore(st, Select(rows, Found)) BY <1>4, <1>5, FoundRows
<1> QED BY <1>1, <1>6, EvidenceRows

LEMMA PartRowFacts ==
    ASSUME NEW st, Sound(st), NEW q
    PROVE  /\ PartRow(st, q) = None \/ PartRow(st, q) \in ToSet(st.evidence)
           /\ RowsOfStore(st, Select(<<PartRow(st, q)>>, Found))
<1>1. PartRow(st, q) = None \/ PartRow(st, q) \in ToSet(st.evidence)
      BY StoreRows, FirstKept DEF PartRow, Select
<1> QED BY <1>1, ShortLists, FoundRows

LEMMA InstrumentRowsFacts ==
    ASSUME NEW st, Sound(st), NEW q
    PROVE  RowsOfStore(st, InstrumentRows(st, q))
<1>1. RowsOfStore(st, DeletionRows(st, q))
      BY EvidenceRows, KeptRows DEF DeletionRows, Select
<1> QED BY <1>1, PartRowFacts, EvidenceRows DEF InstrumentRows

LEMMA NavigationRowsFacts ==
    ASSUME NEW st, Sound(st), NEW q
    PROVE  RowsOfStore(st, NavigationRows(st, q))
<1>1. ASSUME NEW id PROVE RowsOfStore(st, DrawnRows(st, UnitRows(st, id)))
      BY UnitRowsFacts, EvidenceRows
<1> QED BY <1>1, EvidenceRows DEF NavigationRows

LEMMA TargetRowsFacts ==
    ASSUME NEW st, Sound(st), NEW q, NEW role
    PROVE  RowsOfStore(st, TargetRows(st, q, role))
<1>1. RowsOfStore(st, DrawnRows(st, st.evidence))
      BY EvidenceRows, KeptRows DEF DrawnRows, Select
<1> QED BY <1>1, KeptRows DEF TargetRows, Select

\* A row with other lines, quote and boxes stands for that row while its boxes are
\* among those of the row.
LEMMA Projected ==
    ASSUME NEW st, Sound(st), NEW row \in ToSet(st.evidence), NEW lines, NEW quote, NEW boxes,
           IsSeq(lines), IsSeq(quote), IsSeq(boxes), ToSet(boxes) \subseteq ToSet(row.boxes),
           NEW part, part = [row EXCEPT !.lines = lines, !.quote = quote, !.boxes = boxes]
    PROVE  OfStore(st, part) /\ OfStore(st, QuoteProjection(part))
<1>1. row \in SourceRows(st) /\ WellFormed(row) BY StoreRows
<1>2. ~IsMetadata(row) BY DEF Sound, RowsAreSound
<1>3. RowFields \subseteq DOMAIN row /\ row.role \in Roles BY <1>1 DEF WellFormed
<1>4. /\ DOMAIN part = DOMAIN row
      /\ part.lines = lines /\ part.quote = quote /\ part.boxes = boxes
      /\ \A field \in RowFields \ {"lines", "quote", "boxes"} : part[field] = row[field]
      BY <1>3 DEF RowFields
<1>5. WellFormed(part) BY <1>3, <1>4 DEF WellFormed, RowFields
<1>6. /\ part.id = row.id /\ part.unit = row.unit /\ part.role = row.role
      /\ part.exact = row.exact /\ part.drawn = row.drawn /\ part.kind = row.kind
      BY <1>4 DEF RowFields
<1>7. StandsFor(part, row) BY <1>2, <1>4, <1>5, <1>6 DEF StandsFor, IsMetadata
<1> DEFINE law == QuoteProjection(part)
<1>8. /\ DOMAIN law = DOMAIN part /\ law.kind = "normative"
      /\ \A field \in RowFields \ {"kind", "final", "citable", "eligible"} : law[field] = part[field]
      BY <1>3, <1>4 DEF RowFields, QuoteProjection
<1> HIDE DEF law
<1>9. /\ law.id = part.id /\ law.unit = part.unit /\ law.role = part.role
      /\ law.exact = part.exact /\ law.drawn = part.drawn
      /\ law.lines = part.lines /\ law.quote = part.quote /\ law.boxes = part.boxes
      BY <1>8 DEF RowFields
<1>10. WellFormed(law) BY <1>5, <1>8, <1>9 DEF WellFormed
<1>11. ~IsMetadata(law) BY <1>8 DEF IsMetadata
<1>12. StandsFor(law, row) BY <1>2, <1>7, <1>9, <1>10, <1>11 DEF StandsFor
<1>13. OfStore(st, part) /\ OfStore(st, law) BY <1>1, <1>7, <1>12 DEF OfStore
<1> QED BY <1>13 DEF law

\* _heading_projection, and the heading shown as law.
LEMMA HeadingFacts ==
    ASSUME NEW st, Sound(st), NEW unit \in ToSet(st.units), Found(Heading(st, unit))
    PROVE  OfStore(st, Heading(st, unit)) /\ OfStore(st, QuoteProjection(Heading(st, unit)))
<1> DEFINE row == First(DrawnRows(st, UnitRows(st, unit.id)))
           below == UNION {ToSet(child.lines) : child \in ToSet(Children(st, unit.id))}
           lines == Select(unit.lines, LAMBDA line : line \notin below)
           quote == Select(lines, LAMBDA line : line \in DOMAIN st.says)
           boxes == SubSeq(row.boxes, 1, Len(lines))
<1>1. /\ Found(row) /\ ~(Len(row.boxes) < Len(lines))
      /\ Heading(st, unit) = [row EXCEPT !.lines = lines, !.quote = quote, !.boxes = boxes]
      BY DEF Heading, Found
<1>2. row \in ToSet(st.evidence) BY <1>1, UnitRowsFacts, FirstFacts DEF Found
<1>3. IsSeq(unit.lines) BY DEF Sound, UnitsAreSound
<1>4. IsSeq(row.boxes) BY <1>2, StoreRows DEF WellFormed
<1> HIDE DEF row
<1>5. IsSeq(lines) BY <1>3, KeptFacts DEF Select
<1> HIDE DEF lines
<1>6. IsSeq(quote) BY <1>5, KeptFacts DEF Select
<1> HIDE DEF quote
<1>7. Len(lines) \in 0 .. Len(row.boxes)
  <2>1. Len(lines) \in Nat /\ Len(row.boxes) \in Nat BY <1>4, <1>5, ListFacts
  <2> QED BY <1>1, <2>1
<1>8. IsSeq(boxes) /\ ToSet(boxes) \subseteq ToSet(row.boxes) BY <1>4, <1>7, Prefix
<1> HIDE DEF boxes
<1> QED BY <1>1, <1>2, <1>5, <1>6, <1>8, Projected

LEMMA NormativeRowsFacts ==
    ASSUME NEW st, Sound(st), NEW units, IsSeq(units), NEW role
    PROVE  RowsOfStore(st, NormativeRows(st, units, role))
<1> DEFINE lists == [i \in DOMAIN units |-> Select(DrawnRows(st, UnitRows(st, units[i].id)),
                        LAMBDA row : row.role = role /\ row.kind = "normative" /\ row.eligible)]
<1>1. NormativeRows(st, units, role) = FlattenSeq(lists) BY DEF NormativeRows
<1>2. lists = [i \in DOMAIN units |-> lists[i]] OBVIOUS
<1>3. \A i \in DOMAIN units : IsSeq(lists[i]) /\ ToSet(lists[i]) \subseteq ToSet(st.evidence)
      BY UnitRowsFacts, KeptFacts DEF Select
<1> HIDE DEF lists
<1>4. IsSeq(lists) /\ DOMAIN lists = DOMAIN units BY <1>2, Mapped
<1>5. /\ IsSeq(FlattenSeq(lists))
      /\ ToSet(FlattenSeq(lists)) = UNION {ToSet(lists[i]) : i \in DOMAIN lists}
      BY <1>3, <1>4, Flattened DEF AreLists
<1>6. ToSet(FlattenSeq(lists)) \subseteq ToSet(st.evidence) BY <1>3, <1>4, <1>5
<1> QED BY <1>1, <1>5, <1>6, EvidenceRows

LEMMA RequestedUnitsFacts ==
    ASSUME NEW st, Sound(st), NEW q, NEW heading
    PROVE  IsSeq(RequestedUnits(st, q, heading))
<1> DEFINE below == Descendants(st, heading.id)
           pasals == Select(below, LAMBDA u : u.label = Pasal(q))
           direct == Children(st, heading.id)
<1>1. IsSeq(below) /\ IsSeq(direct) BY DescendantsFacts, ChildrenFacts
<1>2. \A T : IsSeq(Kept(below, T)) /\ IsSeq(Kept(direct, T)) BY <1>1, KeptFacts
<1>3. IsSeq(pasals) BY <1>2 DEF Select
<1>4. \A T : IsSeq(Kept(pasals, T)) BY <1>3, KeptFacts
<1> QED BY <1>1, <1>2, <1>4 DEF RequestedUnits, Select

LEMMA BabRowsFacts ==
    ASSUME NEW st, Sound(st), NEW q, NEW role
    PROVE  AllTruthful(st, q, BabRows(st, q, role))
<1> DEFINE heading == First(Select(st.units, LAMBDA u :
                          u.kind = "bab" /\ u.label = q.bab /\ role \in {None, u.role}))
           row == IF Found(heading) THEN Heading(st, heading) ELSE None
           legal == NormativeRows(st, RequestedUnits(st, q, heading), heading.role)
           law == As(<<QuoteProjection(row)>>, "structured", "heading")
           set == As(<<row>> \o legal, "structured", "complete set")
<1>1. \/ BabRows(st, q, role) = <<>>
      \/ Found(row) /\ BabRows(st, q, role) \in {law, set}
      BY DEF BabRows
<1>2. AllTruthful(st, q, <<>>) BY ShortLists DEF AllTruthful
<1>3. heading = None \/ heading \in ToSet(st.units) BY StoreRows, FirstKept DEF Select
<1> HIDE DEF heading
<1>4. RowsOfStore(st, legal) BY RequestedUnitsFacts, NormativeRowsFacts
<1> HIDE DEF legal
<1>5. ASSUME Found(row) PROVE AllTruthful(st, q, law) /\ AllTruthful(st, q, set)
  <2>1. Found(heading) /\ row = Heading(st, heading) BY <1>5 DEF Found
  <2>2. OfStore(st, row) /\ OfStore(st, QuoteProjection(row))
        BY <1>3, <1>5, <2>1, HeadingFacts DEF Found
  <2> HIDE DEF row
  <2>3. RowsOfStore(st, <<row>>) /\ RowsOfStore(st, <<QuoteProjection(row)>>)
        BY <2>2, ShortLists DEF RowsOfStore
  <2>4. RowsOfStore(st, <<row>> \o legal) BY <1>4, <2>3, Joined DEF RowsOfStore
  <2> QED BY <2>3, <2>4, AsCandidates
<1> QED BY <1>1, <1>2, <1>5

\* structured_lookup returns rows of the store, or the heading of a BAB.
LEMMA StructuredLookupFacts ==
    ASSUME NEW st, Sound(st), NEW q, NEW filter
    PROVE  AllTruthful(st, q, StructuredLookup(st, q, filter))
<1>1. AllTruthful(st, q, <<>>) BY ShortLists DEF AllTruthful
<1>2. \A type : /\ AllTruthful(st, q, As(ListRows(st, q, filter), "structured", type))
                /\ AllTruthful(st, q, As(InstrumentRows(st, q), "structured", type))
                /\ AllTruthful(st, q, As(NavigationRows(st, q), "structured", type))
      BY ListRowsFacts, InstrumentRowsFacts, NavigationRowsFacts, AsCandidates
<1>3. \A role : /\ AllTruthful(st, q, BabRows(st, q, role))
                /\ AllTruthful(st, q, As(TargetRows(st, q, role), "structured", "unit"))
      BY BabRowsFacts, TargetRowsFacts, AsCandidates
<1> QED BY <1>1, <1>2, <1>3 DEF StructuredLookup

-----------------------------------------------------------------------------
(* lexical_search *)

\* lexical_search returns evidence rows, whole only when they have every word asked.
LEMMA LexicalSearchFacts ==
    ASSUME NEW st, Sound(st), NEW q, IsFiniteSet(q.words)
    PROVE  /\ AllTruthful(st, q, LexicalSearch(st, q))
           /\ \A c \in ToSet(LexicalSearch(st, q)) : c.via = "bm25"
<1> DEFINE shared(row) == q.words \cap RowWords(st, row)
           rows == Select(st.evidence, LAMBDA row : shared(row) # {})
           place == [i \in DOMAIN rows |->
                         Len(rows[i].quote) - 100 * Cardinality(shared(rows[i]))]
           sorted == Sorted(rows, place)
           cs == [i \in DOMAIN sorted |->
                    [Candidate(sorted[i], "bm25", "lexical")
                       EXCEPT !.shared = shared(sorted[i]), !.whole = q.words \subseteq shared(sorted[i])]]
<1>1. LexicalSearch(st, q) = cs BY DEF LexicalSearch
<1>2. \A row : IsFiniteSet(shared(row)) BY FS_Intersection
<1>3. \A row : Cardinality(shared(row)) \in Nat BY <1>2, FS_CardinalityType
<1>4. \A row : shared(row) \subseteq RowWords(st, row) OBVIOUS
<1> HIDE DEF shared
<1>5. IsSeq(rows) /\ ToSet(rows) \subseteq ToSet(st.evidence) BY StoreRows, KeptFacts DEF Select
<1>6. ASSUME NEW i \in DOMAIN rows PROVE Len(rows[i].quote) \in Nat
  <2>1. rows[i] \in ToSet(st.evidence) BY <1>5 DEF ToSet
  <2>2. IsSeq(rows[i].quote) BY <2>1, StoreRows DEF WellFormed
  <2> QED BY <2>2, ListFacts
<1> HIDE DEF rows
<1>7. place \in [DOMAIN rows -> Int] BY <1>3, <1>6
<1> HIDE DEF place
<1>8. IsSeq(sorted) /\ ToSet(sorted) \subseteq ToSet(rows) BY <1>5, <1>7, SortedFacts
<1> HIDE DEF sorted
<1>9. cs = [i \in DOMAIN sorted |-> cs[i]] OBVIOUS
<1>10. ASSUME NEW i \in DOMAIN sorted PROVE Truthful(st, q, cs[i]) /\ cs[i].via = "bm25"
  <2> DEFINE row == sorted[i]
  <2>1. cs[i] = [row |-> row, via |-> "bm25", type |-> "lexical",
                 whole |-> q.words \subseteq shared(row), shared |-> shared(row),
                 forced |-> FALSE, entity |-> None]
        BY DEF Candidate
  <2>2. row \in ToSet(st.evidence) BY <1>5, <1>8 DEF ToSet
  <2>3. OfStore(st, row) BY <2>2, StoreRows
  <2> HIDE DEF cs, row
  <2>4. /\ IsCandidate(cs[i]) /\ cs[i].row = row /\ cs[i].via = "bm25" /\ cs[i].entity = None
        /\ cs[i].whole = (q.words \subseteq shared(row))
        BY <2>1 DEF IsCandidate
  <2>5. q.words \subseteq shared(row) => q.words \subseteq RowWords(st, row) BY <1>4
  <2> QED BY <2>2, <2>3, <2>4, <2>5 DEF Truthful, Found
<1> HIDE DEF cs
<1>11. IsSeq(cs) /\ ToSet(cs) = {cs[i] : i \in DOMAIN sorted} BY <1>8, <1>9, Mapped
<1> QED BY <1>1, <1>10, <1>11 DEF AllTruthful

-----------------------------------------------------------------------------
(* route_retrieval *)

\* the rows a route may answer with when role is the source asked for
OfRole(st, q, role, cs) ==
    AllTruthful(st, q, cs) /\ (Found(role) => \A c \in ToSet(cs) : c.row.role = role)

Lexical(cs) == \A c \in ToSet(cs) : c.via = "bm25"

\* what any route but that of the documents' relations returns
RoutedFields == {"status", "route", "rows", "edges", "target", "roles"}
RoutedStatuses == {"found", "no_results", "invalid_filter"}
RoutedRows(st, q, role, x) ==
    /\ DOMAIN x = RoutedFields /\ x.edges = <<>> /\ x.status \in RoutedStatuses
    /\ OfRole(st, q, role, x.rows)
    /\ IsFiniteSet(x.roles)
    /\ x.route \notin {"instrument", "document_relation"}
    /\ x.route = "bm25" => Lexical(x.rows)
    /\ x.route = "metadata" => AsksMetadata(q)
    /\ x.route = "metadata_scope_unresolved" => Unresolved(q)

\* The role filter, the ranking and the limit only take rows away.
LEMMA FilterFacts ==
    ASSUME NEW st, NEW q, NEW role, NEW cs, AllTruthful(st, q, cs)
    PROVE  /\ OfRole(st, q, role, FilterEvidence(cs, role))
           /\ ToSet(FilterEvidence(cs, role)) \subseteq ToSet(cs)
<1> DEFINE kept == FilterEvidence(cs, role)
<1>1. /\ IsSeq(kept)
      /\ ToSet(kept) = ToSet(cs) \cap {c \in ToSet(cs) : role \in {None, c.row.role}}
      BY KeptFacts DEF AllTruthful, FilterEvidence, Select
<1> HIDE DEF kept
<1>2. Found(role) => \A c \in ToSet(kept) : c.row.role = role BY <1>1 DEF Found
<1> QED BY <1>1, <1>2 DEF OfRole, AllTruthful, kept

LEMMA RankedFacts ==
    ASSUME NEW cs, IsSeq(cs)
    PROVE  IsSeq(Ranked(cs)) /\ ToSet(Ranked(cs)) \subseteq ToSet(cs)
<1> DEFINE place == [i \in DOMAIN cs |-> (IF cs[i].whole THEN 10 + i ELSE 600)
                                          - (IF cs[i].row.role = Preferred THEN 5 ELSE 0)]
<1>1. \A i \in DOMAIN cs : i \in Nat BY ListFacts
<1>2. place \in [DOMAIN cs -> Int] BY <1>1
<1>3. Ranked(cs) = Sorted(cs, place) BY DEF Ranked
<1> HIDE DEF place
<1> QED BY <1>2, <1>3, SortedFacts

LEMMA LimitedFacts ==
    ASSUME NEW st, NEW q, NEW role, NEW cs, OfRole(st, q, role, cs), NEW limit \in Nat
    PROVE  /\ OfRole(st, q, role, Upto(limit, Ranked(cs))) /\ OfRole(st, q, role, Ranked(cs))
           /\ ToSet(Upto(limit, Ranked(cs))) \subseteq ToSet(cs)
<1>1. IsSeq(cs) BY DEF OfRole, AllTruthful
<1>2. IsSeq(Ranked(cs)) /\ ToSet(Ranked(cs)) \subseteq ToSet(cs) BY <1>1, RankedFacts
<1>3. /\ IsSeq(Upto(limit, Ranked(cs)))
      /\ ToSet(Upto(limit, Ranked(cs))) \subseteq ToSet(Ranked(cs))
      BY <1>2, UptoFacts
<1> QED BY <1>2, <1>3 DEF OfRole, AllTruthful

\* A reply of a route that needs nothing but rows of the right source, and an empty one.
LEMMA PlainRoute ==
    ASSUME NEW st, NEW q, NEW role, NEW cs, OfRole(st, q, role, cs),
           NEW status \in RoutedStatuses, NEW route,
           route \notin {"instrument", "document_relation", "metadata", "metadata_scope_unresolved"},
           route = "bm25" => Lexical(cs)
    PROVE  RoutedRows(st, q, role, Routed(status, route, cs))
<1> DEFINE x == Routed(status, route, cs)
<1>1. /\ DOMAIN x = RoutedFields /\ x.route = route /\ x.rows = cs /\ x.edges = <<>>
      /\ x.roles = {} /\ x.status = status
      BY DEF Routed, RoutedFields
<1> HIDE DEF x
<1> QED BY <1>1, FS_EmptySet DEF RoutedRows, x

LEMMA EmptyRoute ==
    ASSUME NEW st, NEW q, NEW role
    PROVE  /\ RoutedRows(st, q, role, NoResults)
           /\ \A route : route \notin {"instrument", "document_relation", "metadata",
                                       "metadata_scope_unresolved"}
                 => RoutedRows(st, q, role, NotFound(route))
<1>1. OfRole(st, q, role, <<>>) /\ Lexical(<<>>) BY ShortLists DEF OfRole, AllTruthful, Lexical
<1> QED BY <1>1, PlainRoute DEF NoResults, NotFound, RoutedStatuses

LEMMA RouteLexicalFacts ==
    ASSUME NEW st, NEW q, NEW role, NEW limit \in Nat, NEW all,
           AllTruthful(st, q, all), Lexical(all)
    PROVE  RoutedRows(st, q, role, RouteLexical(q, role, limit, all))
<1> DEFINE kept == FilterEvidence(all, role)
           preferred == IF role = None THEN FilterEvidence(kept, Scope(q).role) ELSE <<>>
           taken == IF preferred # <<>> THEN preferred ELSE kept
<1>1. OfRole(st, q, role, kept) /\ Lexical(kept) BY FilterFacts DEF Lexical
<1>2. RouteLexical(q, role, limit, all)
          = IF kept = <<>> THEN NoResults ELSE Routed("found", "bm25", Upto(limit, Ranked(taken)))
      BY DEF RouteLexical
<1> HIDE DEF kept
<1>3. OfRole(st, q, role, taken) /\ Lexical(taken)
  <2>1. CASE role = None
    <3>1. AllTruthful(st, q, FilterEvidence(kept, Scope(q).role))
          /\ ToSet(FilterEvidence(kept, Scope(q).role)) \subseteq ToSet(kept)
          BY <1>1, FilterFacts DEF OfRole
    <3> QED BY <1>1, <2>1, <3>1 DEF OfRole, Lexical, Found
  <2>2. CASE role # None BY <1>1, <2>2
  <2> QED BY <2>1, <2>2
<1> HIDE DEF taken
<1>4. OfRole(st, q, role, Upto(limit, Ranked(taken))) /\ Lexical(Upto(limit, Ranked(taken)))
      BY <1>3, LimitedFacts DEF Lexical
<1> QED BY <1>2, <1>4, PlainRoute, EmptyRoute DEF RoutedStatuses

LEMMA RouteStructuredFacts ==
    ASSUME NEW st, Sound(st), NEW q, IsFiniteSet(q.words), NEW role, NEW limit \in Nat, NEW all,
           AllTruthful(st, q, all)
    PROVE  RoutedRows(st, q, role, RouteStructured(st, q, role, limit, all))
<1> DEFINE kept == FilterEvidence(all, role)
           Good(x) == RoutedRows(st, q, role, x)
<1>1. OfRole(st, q, role, kept) BY FilterFacts
<1>2. OfRole(st, q, role, Upto(limit, Ranked(kept))) /\ OfRole(st, q, role, Ranked(kept))
      BY <1>1, LimitedFacts
<1>3. /\ Good(Routed("found", "structured", kept))
      /\ Good(Routed("found", "structure_list", Ranked(kept)))
      /\ \A route \in {"exact", "structured"} :
            Good(Routed("found", route, Upto(limit, Ranked(kept))))
      BY <1>1, <1>2, PlainRoute DEF RoutedStatuses
<1>4. Good(NoResults) /\ Good(NotFound("structured_not_found")) BY EmptyRoute
<1>5. Good(RouteLexical(q, role, limit, LexicalSearch(st, q)))
      BY LexicalSearchFacts, RouteLexicalFacts DEF Lexical
<1>6. RouteStructured(st, q, role, limit, all) \in
          {Routed("found", "structured", kept), Routed("found", "structure_list", Ranked(kept)),
           Routed("found", "exact", Upto(limit, Ranked(kept))),
           Routed("found", "structured", Upto(limit, Ranked(kept))),
           NoResults, NotFound("structured_not_found"),
           RouteLexical(q, role, limit, LexicalSearch(st, q))}
      BY DEF RouteStructured
<1> HIDE DEF Good, kept
<1>7. Good(RouteStructured(st, q, role, limit, all)) BY <1>3, <1>4, <1>5, <1>6
<1> QED BY <1>7 DEF Good

LEMMA RouteMetadataFacts ==
    ASSUME NEW st, Sound(st), NEW q, IsFiniteSet(q.words), NEW role, NEW limit \in Nat,
           NEW all, AllTruthful(st, q, all), all # <<>> => AsksMetadata(q),
           NEW structured, AllTruthful(st, q, structured)
    PROVE  RoutedRows(st, q, role, RouteMetadata(st, q, role, limit, all, structured))
<1> DEFINE kept == FilterEvidence(all, role)
           rows == IF \A c \in ToSet(kept) : c.row.field = "signatories"
                   THEN kept ELSE Upto(limit, Ranked(kept))
           found == [Routed("found", "metadata", rows) EXCEPT !.roles = RolesOf(kept)]
           Good(x) == RoutedRows(st, q, role, x)
<1>1. OfRole(st, q, role, kept) /\ ToSet(kept) \subseteq ToSet(all) BY FilterFacts
<1>2. RouteMetadata(st, q, role, limit, all, structured)
          = IF kept # <<>> THEN found
            ELSE IF all # <<>> THEN NoResults
            ELSE IF MetadataTarget(q) THEN NotFound("metadata_not_found")
            ELSE RouteStructured(st, q, role, limit, structured)
      BY DEF RouteMetadata
<1> HIDE DEF kept
<1>3. OfRole(st, q, role, rows) BY <1>1, LimitedFacts
<1> HIDE DEF rows
<1>4. ASSUME kept # <<>> PROVE Good(found)
  <2>2. /\ DOMAIN found = RoutedFields /\ found.route = "metadata" /\ found.rows = rows
        /\ found.edges = <<>> /\ found.roles = RolesOf(kept) /\ found.status = "found"
        BY DEF Routed, RoutedFields
  <2> HIDE DEF found
  <2>3. IsSeq(kept) /\ IsSeq(all) BY <1>1 DEF OfRole, AllTruthful
  <2>4. all # <<>> BY <1>1, <1>4, <2>3, ListFacts
  <2>5. IsFiniteSet(RolesOf(kept))
    <3> DEFINE roles == [i \in DOMAIN kept |-> kept[i].row.role]
    <3>1. roles = [i \in DOMAIN kept |-> roles[i]] OBVIOUS
    <3>2. {roles[i] : i \in DOMAIN kept} = RolesOf(kept) BY DEF RolesOf, ToSet
    <3> HIDE DEF roles
    <3>3. IsSeq(roles) /\ ToSet(roles) = {roles[i] : i \in DOMAIN kept} BY <2>3, <3>1, Mapped
    <3> QED BY <3>2, <3>3, FiniteList
  <2> QED BY <1>3, <2>2, <2>4, <2>5 DEF RoutedRows, RoutedStatuses
<1> HIDE DEF found
<1>5. Good(NoResults) /\ Good(NotFound("metadata_not_found")) BY EmptyRoute
<1>6. Good(RouteStructured(st, q, role, limit, structured)) BY RouteStructuredFacts
<1> QED BY <1>2, <1>4, <1>5, <1>6

LEMMA RouteRelationFacts ==
    ASSUME NEW st, Sound(st), NEW q, IsFiniteSet(q.words), NEW role, NEW limit \in Nat
    PROVE  RoutedRows(st, q, role, RouteRelation(st, q, role, limit, RelationLookup(st, q)))
<1> DEFINE all == RelationLookup(st, q)
           structured == StructuredLookup(st, q, role)
           Few(cs) == Upto(limit, Ranked(FilterEvidence(cs, role)))
           Good(x) == RoutedRows(st, q, role, x)
<1>1. ASSUME NEW cs, AllTruthful(st, q, cs) PROVE OfRole(st, q, role, Few(cs))
      BY <1>1, FilterFacts, LimitedFacts
<1>2. AllTruthful(st, q, all) /\ AllTruthful(st, q, structured)
      BY RelationLookupFacts, StructuredLookupFacts
<1>3. Good(NoResults) /\ Good(NotFound("relation_not_found")) BY EmptyRoute
<1>4. Good(RouteMetadata(st, q, role, limit, MetadataLookup(st, q), structured))
      BY <1>2, MetadataLookupFacts, RouteMetadataFacts
<1>5. Good(RouteNavigation(st, q, role, limit, structured))
  <2>1. Good(Routed("found", "structural_navigation", Few(structured)))
        BY <1>1, <1>2, PlainRoute DEF RoutedStatuses
  <2> QED BY <1>3, <1>4, <2>1 DEF RouteNavigation
<1>6. Good(Routed("found", "relation", Few(all))) BY <1>1, <1>2, PlainRoute DEF RoutedStatuses
<1> QED BY <1>3, <1>5, <1>6 DEF RouteRelation

\* The edges of a target are edges of the store, those of articles of the types asked.
LEMMA AmendmentEdgesFacts ==
    ASSUME NEW st, Sound(st), NEW target
    PROVE  /\ IsSeq(AmendmentEdges(st, target))
           /\ ToSet(AmendmentEdges(st, target)) \subseteq ToSet(st.edges)
           /\ target.mode = "article" =>
                 \A edge \in ToSet(AmendmentEdges(st, target)) : edge.type \in target.types
<1>1. \A T : IsSeq(Kept(st.edges, T)) /\ ToSet(Kept(st.edges, T)) = ToSet(st.edges) \cap T
      BY StoreRows, KeptFacts
<1>2. CASE target.mode = "document" BY <1>1, <1>2 DEF AmendmentEdges, Select
<1>3. CASE target.mode = "article" BY <1>1, <1>3 DEF AmendmentEdges, Select
<1>4. CASE target.mode \notin {"document", "article"}
      BY <1>4, ShortLists DEF AmendmentEdges
<1> QED BY <1>2, <1>3, <1>4

\* The relation that is asked for between articles is the chosen or the read one, or an
\* addition.
LEMMA AmendmentTargetFacts ==
    ASSUME NEW q, NEW family
    PROVE  AmendmentTarget(q, family).mode \in {"article"} \ {None} =>
              AmendmentTarget(q, family).types \in
                 {{"ADDS", "SUPPLEMENTS"}, TypesOf(IF Found(family) THEN family ELSE Family(q))}
<1> DEFINE read == IF Found(family) THEN family ELSE Family(q)
           citation == IF ~HasPasal(q) THEN None
                       ELSE IF read = "RENAME_PROVISION" THEN Last(q.refs) ELSE q.refs[1]
           Article(types) == RelationTarget("article", AmendmentRole(q), types, citation)
<1>1. \/ AmendmentTarget(q, family) \in {Article({"ADDS", "SUPPLEMENTS"}), Article(TypesOf(read))}
      \/ AmendmentTarget(q, family).mode \notin {"article"} \ {None}
  <2>1. /\ NoRelationTarget.mode = None
        /\ \A role, types : RelationTarget("document", role, types, None).mode = "document"
        /\ \A role, types : RelationTarget("unsupported", role, types, None).mode = "unsupported"
        BY DEF RelationTarget, NoRelationTarget
  <2>2. AmendmentTarget(q, family) \in
            {NoRelationTarget, Article({"ADDS", "SUPPLEMENTS"}), Article(TypesOf(read)),
             RelationTarget("document", AmendmentRole(q), {}, None),
             RelationTarget("document", Original, {}, None),
             RelationTarget("unsupported", None, {}, None)}
        BY DEF AmendmentTarget
  <2> QED BY <2>1, <2>2
<1>2. \A types : Article(types).types = types BY DEF RelationTarget
<1> QED BY <1>1, <1>2

\* what the route of the documents' relations returns
RoutedEdges(st, q, family, x) ==
    /\ DOMAIN x = RoutedFields
    /\ x.status = "found" /\ x.route = "document_relation" /\ x.rows = <<>> /\ x.roles = {}
    /\ x.target = AmendmentTarget(q, family) /\ x.edges = AmendmentEdges(st, x.target)
    /\ Found(AmendmentTarget(q, family).mode)

\* Whatever route owns a question, its rows are rows of the store, of the source that
\* was asked for, with the words and persons they are said to have.
LEMMA RouteFacts ==
    ASSUME NEW st, Sound(st), NEW q, IsFiniteSet(q.words), NEW filter, NEW family,
           NEW limit \in Nat
    PROVE  \/ RoutedRows(st, q, RouteRole(q, filter), Route(st, q, filter, family, limit))
           \/ RoutedEdges(st, q, family, Route(st, q, filter, family, limit))
<1> DEFINE role == RouteRole(q, filter)
           target == AmendmentTarget(q, family)
           roles == {fact.role : fact \in ToSet(st.facts)}
           invalid == Routed("invalid_filter", "no_results", <<>>)
           scope == [NotFound("metadata_scope_unresolved") EXCEPT !.roles = roles]
           edges == [Routed("found", "document_relation", <<>>)
                       EXCEPT !.edges = AmendmentEdges(st, target), !.target = target]
           plain == RouteRelation(st, q, role, limit, RelationLookup(st, q))
           x == Route(st, q, filter, family, limit)
           Good(y) == RoutedRows(st, q, role, y)
<1>1. \/ x \in {invalid, NotFound("scope_unresolved"), plain}
      \/ x = scope /\ Unresolved(q)
      \/ x = edges /\ Found(target.mode)
      BY DEF Route
<1>2. OfRole(st, q, role, <<>>) BY ShortLists DEF OfRole, AllTruthful
<1>3. Good(invalid) BY <1>2, PlainRoute DEF RoutedStatuses
<1>4. Good(NotFound("scope_unresolved")) BY EmptyRoute
<1>5. Good(plain) BY RouteRelationFacts
<1>6. ASSUME Unresolved(q) PROVE Good(scope)
  <2>1. IsFiniteSet(roles)
    <3> DEFINE list == [i \in DOMAIN st.facts |-> st.facts[i].role]
    <3>1. list = [i \in DOMAIN st.facts |-> list[i]] OBVIOUS
    <3>2. {list[i] : i \in DOMAIN st.facts} = roles BY DEF ToSet
    <3> HIDE DEF list
    <3>3. IsSeq(list) /\ ToSet(list) = {list[i] : i \in DOMAIN st.facts}
          BY <3>1, StoreRows, Mapped
    <3> QED BY <3>2, <3>3, FiniteList
  <2> HIDE DEF roles
  <2>3. /\ DOMAIN scope = RoutedFields /\ scope.route = "metadata_scope_unresolved"
        /\ scope.rows = <<>> /\ scope.edges = <<>> /\ scope.roles = roles
        /\ scope.status = "no_results"
        BY DEF NotFound, Routed, RoutedFields
  <2> HIDE DEF scope
  <2> QED BY <1>2, <1>6, <2>1, <2>3 DEF RoutedRows, RoutedStatuses
<1>7. /\ DOMAIN edges = RoutedFields
      /\ edges.status = "found" /\ edges.route = "document_relation" /\ edges.rows = <<>>
      /\ edges.roles = {} /\ edges.target = target /\ edges.edges = AmendmentEdges(st, target)
  <2> DEFINE base == Routed("found", "document_relation", <<>>)
  <2>1. /\ DOMAIN base = RoutedFields
        /\ base.status = "found" /\ base.route = "document_relation" /\ base.rows = <<>>
        /\ base.roles = {}
        BY DEF Routed, RoutedFields
  <2> HIDE DEF target
  <2> QED BY <2>1 DEF RoutedFields
<1> HIDE DEF Good, x, edges, scope, plain, invalid
<1>8. CASE x = edges /\ Found(target.mode) BY <1>7, <1>8 DEF RoutedEdges, x
<1>9. CASE x # edges \/ ~Found(target.mode)
  <2>1. Good(x) BY <1>1, <1>3, <1>4, <1>5, <1>6, <1>9
  <2> QED BY <2>1 DEF Good, x
<1> QED BY <1>8, <1>9
=============================================================================
