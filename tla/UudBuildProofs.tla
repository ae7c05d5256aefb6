---------------------------- MODULE UudBuildProofs ----------------------------
(***************************************************************************)
(* What a build of the corpus leaves, whatever the documents say and       *)
(* however their pages are drawn: a graph that is closed, and a support    *)
(* for every line of the law whose answers can be found and shown.  First  *)
(* the facts about what each builder makes of the rows it is given, then   *)
(* the invariant that hands them on from builder to builder, and last what *)
(* its gate can tell of a row that is left wrong, and so what is served.   *)
(***************************************************************************)
EXTENDS UudGate, SequenceFacts

------------------------------------------------------------------------------
(* Units *)

UnitFields == {"id", "role", "type", "label", "text", "parents", "loadable", "historical", "anomaly"}

\* A row the parser has made for a document.
IsUnit(d, u) == DOMAIN u = UnitFields /\ u.role = d.role

ProvisionTypes == {"pembukaan", "bab", "aturan", "pasal", "ayat"}
\* what the units of a document from which no part was cut are
IsProvision(u) == u.type \in ProvisionTypes /\ u.loadable = TRUE /\ u.anomaly = FALSE

\* What a line becomes.
Parsed(d, i) == Trimmed(d, Adopt(d, SourceUnit(d, i)))

\* A line that is parsed is a provision of its document, named by its place.
LEMMA ParsedFacts ==
    ASSUME NEW d, NEW i
    PROVE  /\ IsUnit(d, Parsed(d, i)) /\ Parsed(d, i).id = <<d.role, i>>
           /\ IsProvision(Parsed(d, i))
<1> DEFINE u == SourceUnit(d, i)
           v == Adopt(d, u)
<1>1. IsUnit(d, u) /\ u.id = <<d.role, i>> /\ IsProvision(u)
      BY DEF SourceUnit, IsUnit, UnitFields, IsProvision, ProvisionTypes, TypeOf
<1> HIDE DEF u
<1>2. IsUnit(d, v) /\ v.id = <<d.role, i>> /\ IsProvision(v)
      BY <1>1 DEF Adopt, IsUnit, UnitFields, IsProvision
<1> HIDE DEF v
<1>3. IsUnit(d, Trimmed(d, v)) /\ Trimmed(d, v).id = <<d.role, i>> /\ IsProvision(Trimmed(d, v))
      BY <1>2 DEF Trimmed, IsUnit, UnitFields, IsProvision
<1> QED BY <1>3 DEF Parsed, v, u

\* A unit that is inserted for a reference is a provision with a name no line has.
LEMMA InsertedFacts ==
    ASSUME NEW d, NEW u \in InsertedUnits(d)
    PROVE  /\ IsUnit(d, u) /\ IsProvision(u)
           /\ \E i \in Tokens(d) : u.id = <<d.role, 100 + i>>
<1>1. PICK i \in Tokens(d) :
         u = [SourceUnit(d, i) EXCEPT !.id = <<d.role, 100 + i>>,
               !.text = SubSeq(Page(d), i, Min({j \in Tokens(d) : j > i} \cup {Len(d.lines) + 1}) - 1)]
      BY DEF InsertedUnits
<1> DEFINE v == SourceUnit(d, i)
<1>2. IsUnit(d, v) /\ IsProvision(v)
      BY DEF SourceUnit, IsUnit, UnitFields, IsProvision, ProvisionTypes, TypeOf
<1> HIDE DEF v
<1>3. IsUnit(d, u) /\ IsProvision(u) /\ u.id = <<d.role, 100 + i>>
      BY <1>1, <1>2 DEF IsUnit, UnitFields, IsProvision, v
<1> QED BY <1>3

\* Names of a document; that no two units share; of a place in it.
Numbered(d, U) == \A u \in U : \E k \in 1 .. 299 : u.id = <<d.role, k>>
OneEach(U) == \A u, v \in U : u.id = v.id => u = v
Reserved(d) == {<<d.role, k>> : k \in 1 .. 599}
Bounded(d, U) == \A u \in U : u.id \in Reserved(d)
Named(r, U) == \A u \in U : \E n \in Nat : u.id = <<r, n>>

\* The deletion of an article makes units of the same document and no two of one name.
LEMMA SplitFacts ==
    ASSUME NEW d, NEW U, \A u \in U : IsUnit(d, u)
    PROVE  /\ \A u \in SplitDeleted(U) : IsUnit(d, u)
           /\ (\A u \in U : IsProvision(u)) => \A u \in SplitDeleted(U) : IsProvision(u)
           /\ Named(d.role, U) => Named(d.role, SplitDeleted(U))
           /\ Numbered(d, U) /\ OneEach(U) => OneEach(SplitDeleted(U)) /\ Bounded(d, SplitDeleted(U))
<1> DEFINE split == {u \in U : u.type = "bab" /\ \E k \in DOMAIN u.text : SaysDeleted(u.text[k])}
           Kind3(u) == [u EXCEPT !.text = Select(u.text, LAMBDA l : ~SaysDeleted(l))]
<1>1. SplitDeleted(U) = (U \ split) \cup {Kind3(u) : u \in split} \cup {DeletedUnit(u) : u \in split}
      BY DEF SplitDeleted
<1>2. ASSUME NEW u \in U PROVE IsUnit(d, Kind3(u)) /\ Kind3(u).id = u.id
                               /\ (IsProvision(u) => IsProvision(Kind3(u)))
      BY DEF IsUnit, UnitFields, IsProvision
<1>3. ASSUME NEW u \in U PROVE IsUnit(d, DeletedUnit(u)) /\ DeletedUnit(u).id = <<d.role, 300 + u.id[2]>>
                               /\ (IsProvision(u) => IsProvision(DeletedUnit(u)))
      BY DEF IsUnit, UnitFields, IsProvision, DeletedUnit, ProvisionTypes
<1> HIDE DEF split, Kind3
<1>4. \A u \in SplitDeleted(U) : IsUnit(d, u)
      BY <1>1, <1>2, <1>3 DEF split
<1>5. (\A u \in U : IsProvision(u)) => \A u \in SplitDeleted(U) : IsProvision(u)
      BY <1>1, <1>2, <1>3 DEF split
<1>6. ASSUME Numbered(d, U), OneEach(U) PROVE OneEach(SplitDeleted(U))
  <2> SUFFICES ASSUME NEW x \in SplitDeleted(U), NEW y \in SplitDeleted(U), x.id = y.id
               PROVE  x = y
      BY DEF OneEach
  <2>0. split \subseteq U BY DEF split
  <2>1. \A u \in U : u.id \in {<<d.role, k>> : k \in 1 .. 299} BY <1>6 DEF Numbered
  <2>2. \A u \in split : DeletedUnit(u).id \in {<<d.role, k>> : k \in 301 .. 599}
    <3> TAKE u \in split
    <3>1. PICK k \in 1 .. 299 : u.id = <<d.role, k>> BY <2>0, <2>1
    <3>2. DeletedUnit(u).id = <<d.role, 300 + k>> BY <1>3, <2>0, <3>1
    <3> QED BY <3>2
  <2>3. ASSUME NEW u, NEW v, u.id \in {<<d.role, k>> : k \in 1 .. 299},
               v.id \in {<<d.role, k>> : k \in 301 .. 599}
        PROVE  u.id # v.id
    <3>1. PICK k \in 1 .. 299 : u.id = <<d.role, k>> BY <2>3
    <3>2. PICK l \in 301 .. 599 : v.id = <<d.role, l>> BY <2>3
    <3>3. k < l /\ k \in Int /\ l \in Int BY <3>1, <3>2
    <3>4. k # l BY <3>3
    <3> QED BY <3>1, <3>2, <3>4
  <2>4. \A u, v \in split : DeletedUnit(u).id = DeletedUnit(v).id => u = v
    <3> SUFFICES ASSUME NEW u \in split, NEW v \in split, DeletedUnit(u).id = DeletedUnit(v).id PROVE u = v
        OBVIOUS
    <3>1. PICK k \in 1 .. 299 : u.id = <<d.role, k>> BY <2>0, <2>1
    <3>2. PICK l \in 1 .. 299 : v.id = <<d.role, l>> BY <2>0, <2>1
    <3>3. <<d.role, 300 + k>> = <<d.role, 300 + l>> BY <1>3, <2>0, <3>1, <3>2
    <3>4. k = l BY <3>3
    <3> QED BY <2>0, <3>1, <3>2, <3>4, <1>6 DEF OneEach
  <2>5. \A u \in split : Kind3(u).id = u.id BY <1>2, <2>0
  <2>6. \A u, v \in U : u.id = v.id => u = v BY <1>6 DEF OneEach
  <2>a. \A u \in U, v \in split : u.id # DeletedUnit(v).id
    <3> TAKE u \in U, v \in split
    <3>1. u.id \in {<<d.role, k>> : k \in 1 .. 299} BY <2>1
    <3>2. DeletedUnit(v).id \in {<<d.role, k>> : k \in 301 .. 599} BY <2>2
    <3> QED BY <2>3, <3>1, <3>2
  <2>b. \A u, v \in split : Kind3(u).id # DeletedUnit(v).id BY <2>0, <2>5, <2>a
  <2>7. CASE x \in U \ split
    <3>1. CASE y \in U \ split BY <2>6, <2>7, <3>1
    <3>2. CASE \E v \in split : y = Kind3(v) BY <2>0, <2>5, <2>6, <2>7, <3>2
    <3>3. CASE \E v \in split : y = DeletedUnit(v) BY <2>7, <2>a, <3>3
    <3> QED BY <1>1, <3>1, <3>2, <3>3
  <2>8. CASE \E u \in split : x = Kind3(u)
    <3>1. CASE y \in U \ split BY <2>0, <2>5, <2>6, <2>8, <3>1
    <3>2. CASE \E v \in split : y = Kind3(v) BY <2>0, <2>5, <2>6, <2>8, <3>2
    <3>3. CASE \E v \in split : y = DeletedUnit(v) BY <2>8, <2>b, <3>3
    <3> QED BY <1>1, <3>1, <3>2, <3>3
  <2>9. CASE \E u \in split : x = DeletedUnit(u)
    <3>1. CASE y \in U \ split BY <2>9, <2>a, <3>1
    <3>2. CASE \E v \in split : y = Kind3(v) BY <2>9, <2>b, <3>2
    <3>3. CASE \E v \in split : y = DeletedUnit(v) BY <2>4, <2>9, <3>3
    <3> QED BY <1>1, <3>1, <3>2, <3>3
  <2> QED BY <1>1, <2>7, <2>8, <2>9
<1>b. ASSUME Numbered(d, U) PROVE Bounded(d, SplitDeleted(U))
  <2>1. \A u \in split : u \in U BY DEF split
  <2>2. \A u \in U : u.id \in Reserved(d)
    <3> TAKE u \in U
    <3>1. PICK k \in 1 .. 299 : u.id = <<d.role, k>> BY <1>b DEF Numbered
    <3>2. k \in 1 .. 599 OBVIOUS
    <3> QED BY <3>1, <3>2 DEF Reserved
  <2>3. \A u \in split : DeletedUnit(u).id \in Reserved(d)
    <3> TAKE u \in split
    <3>1. PICK k \in 1 .. 299 : u.id = <<d.role, k>> BY <1>b, <2>1 DEF Numbered
    <3>2. DeletedUnit(u).id = <<d.role, 300 + k>> BY <1>3, <2>1, <3>1
    <3>3. 300 + k \in 1 .. 599 OBVIOUS
    <3> QED BY <3>2, <3>3 DEF Reserved
  <2>4. \A u \in split : Kind3(u).id = u.id BY <1>2, <2>1
  <2> QED BY <1>1, <2>1, <2>2, <2>3, <2>4 DEF Bounded
<1>7. ASSUME Named(d.role, U) PROVE Named(d.role, SplitDeleted(U))
  <2>1. \A u \in split : u \in U BY DEF split
  <2>2. \A u \in split : \E n \in Nat : Kind3(u).id = <<d.role, n>> BY <1>2, <1>7, <2>1 DEF Named
  <2>3. ASSUME NEW u \in split PROVE \E n \in Nat : DeletedUnit(u).id = <<d.role, n>>
    <3>1. PICK n \in Nat : u.id = <<d.role, n>> BY <1>7, <2>1 DEF Named
    <3>2. DeletedUnit(u).id = <<d.role, 300 + n>> BY <1>3, <2>1, <3>1
    <3>3. 300 + n \in Nat OBVIOUS
    <3> QED BY <3>2, <3>3 DEF Reserved
  <2> QED BY <1>1, <1>7, <2>2, <2>3 DEF Named
<1> QED BY <1>4, <1>5, <1>6, <1>7, <1>b

\* The units of a document: provisions where no part is cut from it, each with a name of its own.
LEMMA UnitFacts ==
    ASSUME NEW d
    PROVE  /\ \A u \in LegalUnits(d) : u.role = d.role /\ DOMAIN u = UnitFields \cup {"parent"}
           /\ d.curated = {} => \A u \in LegalUnits(d) : IsProvision(u)
           /\ (d.lines \in Seq(Seq(Words)) /\ \A p \in d.curated : p.from \in DOMAIN d.lines)
              => Named(d.role, LegalUnits(d))
           /\ (/\ d.lines \in Seq(Seq(Words)) /\ Len(d.lines) < 100
               /\ \A p \in d.curated : p.from \in DOMAIN d.lines /\ \A q \in d.curated : p.from = q.from => p = q)
              => OneEach(LegalUnits(d)) /\ Bounded(d, LegalUnits(d))
<1> DEFINE P == {j \in Tokens(d) : Kind(d, j) # "Stop" /\ ~Inserted(d, j)}
           parsed == {Parsed(d, i) : i \in P}
           U == parsed \cup InsertedUnits(d) \cup InstrumentUnits(d)
           all == SplitDeleted(U)
           Row(u) == With([parent |-> CanonicalParent(u, all)], u)
<1>1. LegalUnits(d) = {Row(u) : u \in all} BY DEF LegalUnits, Parsed
<1>2. \A u \in parsed : IsUnit(d, u) /\ IsProvision(u) BY ParsedFacts
<1>3. \A u \in InstrumentUnits(d) : IsUnit(d, u) BY DEF InstrumentUnits, IsUnit, UnitFields
<1>4. \A u \in U : IsUnit(d, u) BY <1>2, <1>3, InsertedFacts
<1>5. d.curated = {} => InstrumentUnits(d) = {} BY DEF InstrumentUnits
<1>6. d.curated = {} => \A u \in U : IsProvision(u) BY <1>2, <1>5, InsertedFacts
<1>7. ASSUME d.lines \in Seq(Seq(Words)), Len(d.lines) < 100,
             \A p \in d.curated : p.from \in DOMAIN d.lines /\ \A q \in d.curated : p.from = q.from => p = q
      PROVE  Numbered(d, U) /\ OneEach(U)
  <2>0. DOMAIN d.lines \subseteq 1 .. 99
    <3>1. DOMAIN d.lines = 1 .. Len(d.lines) /\ Len(d.lines) \in Nat BY <1>7, LenProperties
    <3>2. \A n \in Nat : n < 100 => 1 .. n \subseteq 1 .. 99 OBVIOUS
    <3> QED BY <1>7, <3>1, <3>2
  <2>1. Tokens(d) \subseteq 1 .. 99 BY <2>0 DEF Tokens
  <2>2. \A u \in parsed : \E i \in 1 .. 99 : u = Parsed(d, i) /\ u.id = <<d.role, i>>
        BY <2>1, ParsedFacts
  <2> DEFINE Put(i) == [SourceUnit(d, i) EXCEPT !.id = <<d.role, 100 + i>>,
               !.text = SubSeq(Page(d), i, Min({j \in Tokens(d) : j > i} \cup {Len(d.lines) + 1}) - 1)]
             Cut(p) == [id |-> <<d.role, 200 + p.from>>, role |-> d.role, type |-> p.type, label |-> p.label,
                        text |-> SubSeq(Page(d), p.from, p.to), parents |-> <<>>,
                        loadable |-> p.loadable, historical |-> p.historical, anomaly |-> p.anomaly]
  <2>3. \A u \in InsertedUnits(d) : \E i \in 1 .. 99 : u = Put(i) /\ u.id = <<d.role, 100 + i>>
    <3> TAKE u \in InsertedUnits(d)
    <3>1. PICK i \in Tokens(d) : u = Put(i) BY DEF InsertedUnits
    <3>2. "id" \in DOMAIN SourceUnit(d, i) BY DEF SourceUnit
    <3>3. u.id = <<d.role, 100 + i>> BY <3>1, <3>2
    <3> QED BY <2>1, <3>1, <3>3
  <2>4. \A u \in InstrumentUnits(d) : \E p \in d.curated : u = Cut(p) /\ u.id = <<d.role, 200 + p.from>>
        BY DEF InstrumentUnits
  <2>5. \A p \in d.curated : p.from \in 1 .. 99 BY <1>7, <2>0
  <2> HIDE DEF Put, Cut, parsed
  <2>6. Numbered(d, U)
    <3> SUFFICES ASSUME NEW u \in U PROVE \E k \in 1 .. 299 : u.id = <<d.role, k>> BY DEF Numbered
    <3>1. CASE u \in parsed
      <4>1. PICK i \in 1 .. 99 : u.id = <<d.role, i>> BY <2>2, <3>1
      <4>2. i \in 1 .. 299 OBVIOUS
      <4> QED BY <4>1, <4>2
    <3>2. CASE u \in InsertedUnits(d)
      <4>1. PICK i \in 1 .. 99 : u.id = <<d.role, 100 + i>> BY <2>3, <3>2
      <4>2. 100 + i \in 1 .. 299 OBVIOUS
      <4> QED BY <4>1, <4>2
    <3>3. CASE u \in InstrumentUnits(d)
      <4>1. PICK p \in d.curated : u.id = <<d.role, 200 + p.from>> BY <2>4, <3>3
      <4>2. 200 + p.from \in 1 .. 299 BY <2>5
      <4> QED BY <4>1, <4>2
    <3> QED BY <3>1, <3>2, <3>3
  <2>7. ASSUME NEW u \in parsed, NEW v \in InsertedUnits(d) PROVE u.id # v.id
    <3>1. PICK i \in 1 .. 99 : u.id = <<d.role, i>> BY <2>2, <2>7
    <3>2. PICK j \in 1 .. 99 : v.id = <<d.role, 100 + j>> BY <2>3, <2>7
    <3>3. i # 100 + j OBVIOUS
    <3> QED BY <3>1, <3>2, <3>3
  <2>8. ASSUME NEW u \in parsed, NEW v \in InstrumentUnits(d) PROVE u.id # v.id
    <3>1. PICK i \in 1 .. 99 : u.id = <<d.role, i>> BY <2>2, <2>8
    <3>2. PICK p \in d.curated : v.id = <<d.role, 200 + p.from>> BY <2>4, <2>8
    <3>3. i # 200 + p.from BY <2>5
    <3> QED BY <3>1, <3>2, <3>3
  <2>9. ASSUME NEW u \in InsertedUnits(d), NEW v \in InstrumentUnits(d) PROVE u.id # v.id
    <3>1. PICK i \in 1 .. 99 : u.id = <<d.role, 100 + i>> BY <2>3, <2>9
    <3>2. PICK p \in d.curated : v.id = <<d.role, 200 + p.from>> BY <2>4, <2>9
    <3>3. 100 + i # 200 + p.from BY <2>5
    <3> QED BY <3>1, <3>2, <3>3
  <2>10. OneEach(U)
    <3> SUFFICES ASSUME NEW u \in U, NEW v \in U, u.id = v.id PROVE u = v BY DEF OneEach
    <3>1. CASE u \in parsed /\ v \in parsed
      <4>1. PICK i \in 1 .. 99 : u = Parsed(d, i) /\ u.id = <<d.role, i>> BY <2>2, <3>1
      <4>2. PICK j \in 1 .. 99 : v = Parsed(d, j) /\ v.id = <<d.role, j>> BY <2>2, <3>1
      <4>3. i = j BY <4>1, <4>2
      <4> QED BY <4>1, <4>2, <4>3
    <3>2. CASE u \in InsertedUnits(d) /\ v \in InsertedUnits(d)
      <4>1. PICK i \in 1 .. 99 : u = Put(i) /\ u.id = <<d.role, 100 + i>> BY <2>3, <3>2
      <4>2. PICK j \in 1 .. 99 : v = Put(j) /\ v.id = <<d.role, 100 + j>> BY <2>3, <3>2
      <4>3. <<d.role, 100 + i>> = <<d.role, 100 + j>> BY <4>1, <4>2
      <4>4. i = j BY <4>3
      <4> QED BY <4>1, <4>2, <4>4
    <3>3. CASE u \in InstrumentUnits(d) /\ v \in InstrumentUnits(d)
      <4>1. PICK p \in d.curated : u = Cut(p) /\ u.id = <<d.role, 200 + p.from>> BY <2>4, <3>3
      <4>2. PICK q \in d.curated : v = Cut(q) /\ v.id = <<d.role, 200 + q.from>> BY <2>4, <3>3
      <4>3. <<d.role, 200 + p.from>> = <<d.role, 200 + q.from>> BY <4>1, <4>2
      <4>4. p.from \in 1 .. 99 /\ q.from \in 1 .. 99 BY <2>5
      <4>5. 200 + p.from = 200 + q.from BY <4>3
      <4>6. p.from = q.from BY <4>4, <4>5
      <4>7. p = q BY <1>7, <4>6
      <4> QED BY <4>1, <4>2, <4>7
    <3> QED BY <2>7, <2>8, <2>9, <3>1, <3>2, <3>3
  <2> QED BY <2>6, <2>10
<1>a. ASSUME d.lines \in Seq(Seq(Words)), \A p \in d.curated : p.from \in DOMAIN d.lines
      PROVE  Named(d.role, U)
  <2>1. DOMAIN d.lines \subseteq Nat BY <1>a, LenProperties
  <2>2. Tokens(d) \subseteq Nat BY <2>1 DEF Tokens
  <2>3. \A u \in parsed : \E n \in Nat : u.id = <<d.role, n>> BY <2>2, ParsedFacts
  <2>4. ASSUME NEW u \in InsertedUnits(d) PROVE \E n \in Nat : u.id = <<d.role, n>>
    <3>1. PICK i \in Tokens(d) : u.id = <<d.role, 100 + i>> BY InsertedFacts
    <3>2. 100 + i \in Nat BY <2>2
    <3> QED BY <3>1, <3>2
  <2>5. ASSUME NEW u \in InstrumentUnits(d) PROVE \E n \in Nat : u.id = <<d.role, n>>
    <3>1. PICK p \in d.curated : u.id = <<d.role, 200 + p.from>> BY DEF InstrumentUnits
    <3>2. 200 + p.from \in Nat BY <1>a, <2>1
    <3> QED BY <3>1, <3>2
  <2> HIDE DEF parsed
  <2> QED BY <2>3, <2>4, <2>5 DEF Named
<1> HIDE DEF U
<1>8. /\ \A u \in all : IsUnit(d, u)
      /\ (\A u \in U : IsProvision(u)) => \A u \in all : IsProvision(u)
      /\ Named(d.role, U) => Named(d.role, all)
      /\ Numbered(d, U) /\ OneEach(U) => OneEach(all) /\ Bounded(d, all)
      BY <1>4, SplitFacts
<1> HIDE DEF all
<1>9. ASSUME NEW u \in all
      PROVE  /\ DOMAIN Row(u) = UnitFields \cup {"parent"} /\ Row(u).role = d.role /\ Row(u).id = u.id
             /\ IsProvision(u) => IsProvision(Row(u))
  <2> DEFINE parent == CanonicalParent(u, all)
  <2> HIDE DEF parent
  <2>1. Row(u) = With([parent |-> parent], u) BY DEF parent
  <2> QED BY <1>8, <2>1 DEF IsUnit, UnitFields, IsProvision, With
<1> HIDE DEF Row
<1>10. OneEach(all) => OneEach(LegalUnits(d)) BY <1>1, <1>9 DEF OneEach
<1>b. Bounded(d, all) => Bounded(d, LegalUnits(d)) BY <1>1, <1>9 DEF Bounded
<1>11. \A u \in LegalUnits(d) : u.role = d.role /\ DOMAIN u = UnitFields \cup {"parent"} BY <1>1, <1>9
<1>12. d.curated = {} => \A u \in LegalUnits(d) : IsProvision(u) BY <1>1, <1>6, <1>8, <1>9
<1>13. ASSUME Named(d.role, all) PROVE Named(d.role, LegalUnits(d)) BY <1>1, <1>9, <1>13 DEF Named
<1> QED BY <1>7, <1>8, <1>10, <1>11, <1>12, <1>13, <1>a, <1>b

\* So there are no more of them than there are names.
LEMMA FiniteTable ==
    ASSUME NEW d, NEW U, Bounded(d, U), OneEach(U)
    PROVE  IsFiniteSet(U)
<1> DEFINE number == [u \in U |-> u.id[2]]
<1>1. \A u \in U : u.id[2] \in 1 .. 599 /\ u.id = <<d.role, u.id[2]>>
  <2> TAKE u \in U
  <2>1. PICK k \in 1 .. 599 : u.id = <<d.role, k>> BY DEF Bounded, Reserved
  <2> QED BY <2>1
<1>2. number \in [U -> 1 .. 599] BY <1>1
<1>3. \A u, v \in U : number[u] = number[v] => u = v BY <1>1 DEF OneEach
<1>4. number \in Injection(U, 1 .. 599)
  <2> HIDE DEF number
  <2> QED BY <1>2, <1>3 DEF Injection, IsInjective
<1>5. IsFiniteSet(1 .. 599)
  <2>1. PICK n \in Int : n = 599 OBVIOUS
  <2>2. IsFiniteSet(1 .. n) BY FS_Interval
  <2> QED BY <2>1, <2>2
<1> QED BY <1>4, <1>5, FS_Injection

\* The page is a list of lines, and the text of every unit a part of it.
Written(u) == "text" \in DOMAIN u /\ AreLists(u.text)

\* What a line says without its markers.
LEMMA SemanticFacts ==
    ASSUME NEW text, IsSeq(text)
    PROVE  IsSeq(Semantic(text))
<1>1. {k \in DOMAIN text : KindOf[text[k]] # "marker"} \subseteq DOMAIN text OBVIOUS
<1> QED BY <1>1, AtPlacesFacts DEF Semantic

LEMMA PageWritten ==
    ASSUME NEW d, d.lines \in Seq(Seq(Words))
    PROVE  AreLists(Page(d)) /\ Len(Page(d)) = Len(d.lines) /\ Len(d.lines) \in Nat /\ DOMAIN d.lines = 1 .. Len(d.lines)
<1>1. IsSeq(d.lines) BY InSeq
<1>2. Len(d.lines) \in Nat /\ DOMAIN d.lines = 1 .. Len(d.lines) BY <1>1, ListFacts
<1>3. /\ Page(d) = [i \in DOMAIN d.lines |-> Page(d)[i]]
      /\ \A i \in DOMAIN d.lines : Page(d)[i] = Semantic(d.lines[i])
      BY DEF Page
<1>4. IsSeq(Page(d)) /\ Len(Page(d)) = Len(d.lines) /\ DOMAIN Page(d) = DOMAIN d.lines BY <1>1, <1>3, Mapped
<1>5. ASSUME NEW i \in DOMAIN d.lines PROVE IsSeq(Page(d)[i])
  <2>1. d.lines[i] \in Seq(Words) BY <1>2, ElementOfSeq
  <2>2. IsSeq(d.lines[i]) BY <2>1, InSeq
  <2>3. IsSeq(Semantic(d.lines[i])) BY <2>2, SemanticFacts
  <2> QED BY <1>3, <2>3
<1> QED BY <1>2, <1>4, <1>5 DEF AreLists

LEMMA LeastOf ==
    ASSUME NEW S, S \subseteq Nat, S # {}
    PROVE  Min(S) \in S
<1>1. PICK x \in S : \A y \in S : x <= y BY LeastNumber
<1> QED BY <1>1 DEF Min

\* A unit says something; a unit that was parsed or cut opens with a line that does, and a
\* BAB with one that does not say that it was deleted.
Spoken(u) == Written(u) /\ \E k \in DOMAIN u.text : u.text[k] # <<>>
Opens(u) ==
    /\ Written(u) /\ 1 \in DOMAIN u.text /\ u.text[1] # <<>>
    /\ u.type = "bab" => ~SaysDeleted(u.text[1])

\* What stands in the curated parts of a document.
Cuttable(d, p) ==
    /\ {p.from, p.to} \subseteq DOMAIN d.lines /\ p.from <= p.to
    /\ Page(d)[p.from] # <<>> /\ p.type # "bab"

LEMMA UnitsWritten ==
    ASSUME NEW d, d.lines \in Seq(Seq(Words)), \A p \in d.curated : Cuttable(d, p)
    PROVE  \A u \in LegalUnits(d) : Spoken(u)
<1> DEFINE L == Len(d.lines)
           parsed == {Parsed(d, i) : i \in {j \in Tokens(d) : Kind(d, j) # "Stop" /\ ~Inserted(d, j)}}
           U == parsed \cup InsertedUnits(d) \cup InstrumentUnits(d)
           all == SplitDeleted(U)
           split == {u \in U : u.type = "bab" /\ \E k \in DOMAIN u.text : SaysDeleted(u.text[k])}
           Kept3(u) == [u EXCEPT !.text = Select(u.text, LAMBDA l : ~SaysDeleted(l))]
<1>1. AreLists(Page(d)) /\ Len(Page(d)) = L /\ L \in Nat /\ DOMAIN d.lines = 1 .. L BY PageWritten
<1> HIDE DEF L
<1>2. Tokens(d) \subseteq 1 .. L BY <1>1 DEF Tokens
<1>0. ASSUME NEW i \in Tokens(d)
      PROVE  Page(d)[i] # <<>> /\ (TypeOf(Kind(d, i)) = "bab" => ~SaysDeleted(Page(d)[i]))
  <2>1. Kind(d, i) # "body" BY DEF Tokens, Announced, Heads
  <2>2. Page(d)[i] # <<>> /\ Kind(d, i) = KindOf[Page(d)[i][1]] BY <2>1 DEF Kind
  <2>3. TypeOf(Kind(d, i)) = "bab" => Kind(d, i) = "BAB" BY DEF TypeOf
  <2> QED BY <2>2, <2>3 DEF SaysDeleted
<1>3. ASSUME NEW i \in Tokens(d)
      PROVE  /\ Opens(SourceUnit(d, i)) /\ SourceUnit(d, i).id = <<d.role, i>>
             /\ {"text", "type", "parents", "id"} \subseteq DOMAIN SourceUnit(d, i)
             /\ SourceUnit(d, i).type = TypeOf(Kind(d, i))
  <2> DEFINE stops == {j \in Tokens(d) : j > i /\ Kind(d, j) \in StoppedBy(TypeOf(Kind(d, i)))}
             w == SourceUnit(d, i)
  <2>1. UnitEnd(d, i) = IF stops = {} THEN L ELSE Min(stops) - 1 BY DEF UnitEnd, L
  <2>2. stops \subseteq i + 1 .. L /\ i \in 1 .. L BY <1>1, <1>2
  <2>3. stops # {} => Min(stops) \in i + 1 .. L
    <3>1. stops \subseteq Nat BY <1>1, <2>2
    <3> HIDE DEF stops
    <3> QED BY <2>2, <3>1, LeastOf
  <2>4. UnitEnd(d, i) \in Int /\ UnitEnd(d, i) <= L /\ i <= UnitEnd(d, i)
    <3> HIDE DEF stops
    <3> QED BY <1>1, <2>1, <2>2, <2>3
  <2>5. i \in Int /\ i >= 1 BY <2>2
  <2>6. /\ AreLists(SubSeq(Page(d), i, UnitEnd(d, i)))
        /\ 1 \in DOMAIN SubSeq(Page(d), i, UnitEnd(d, i)) /\ SubSeq(Page(d), i, UnitEnd(d, i))[1] = Page(d)[i]
        BY <1>1, <2>4, <2>5, Sliced, SliceBegins
  <2>7. /\ {"text", "type", "parents", "id"} \subseteq DOMAIN w /\ w.id = <<d.role, i>>
        /\ w.type = TypeOf(Kind(d, i)) /\ w.text = SubSeq(Page(d), i, UnitEnd(d, i))
        BY DEF SourceUnit
  <2> HIDE DEF w
  <2>8. Opens(w) BY <1>0, <2>6, <2>7 DEF Opens, Written
  <2> QED BY <2>7, <2>8 DEF w
<1>4. ASSUME NEW u \in parsed PROVE Opens(u)
  <2>1. PICK i \in Tokens(d) : u = Trimmed(d, Adopt(d, SourceUnit(d, i))) BY DEF Parsed
  <2> DEFINE v == Adopt(d, SourceUnit(d, i))
             w == SourceUnit(d, i)
             cuts == {c.from : c \in d.curated} \cap (i + 1 .. i + Len(v.text) - 1)
  <2>2. Opens(w) /\ w.id = <<d.role, i>> /\ {"text", "type", "parents", "id"} \subseteq DOMAIN w BY <1>3
  <2>3. Opens(v) /\ v.id = <<d.role, i>> /\ {"text", "type"} \subseteq DOMAIN v
    <3>1. v.text = w.text /\ v.type = w.type /\ v.id = w.id /\ DOMAIN v = DOMAIN w
      <4> HIDE DEF w
      <4> QED BY <2>2 DEF Adopt, w
    <3> HIDE DEF v, w
    <3> QED BY <2>2, <3>1 DEF Opens, Written
  <2>4. u = IF cuts = {} THEN v ELSE [v EXCEPT !.text = SubSeq(v.text, 1, Min(cuts) - i)]
    <3>1. u = Trimmed(d, v) BY <2>1
    <3>2. v.id[2] = i BY <2>3
    <3> HIDE DEF v
    <3> QED BY <3>1, <3>2 DEF Trimmed
  <2> HIDE DEF v
  <2>5. CASE cuts = {} BY <2>3, <2>4, <2>5
  <2>6. CASE cuts # {}
    <3>1. i \in Nat /\ Len(v.text) \in Nat BY <1>2, <2>3, ListFacts DEF Opens, Written, AreLists
    <3>2. cuts \subseteq i + 1 .. i + Len(v.text) - 1 /\ cuts \subseteq Nat BY <3>1
    <3>3. Min(cuts) \in cuts
      <4> HIDE DEF cuts
      <4> QED BY <2>6, <3>2, LeastOf
    <3>4. Min(cuts) - i \in Int /\ Min(cuts) - i <= Len(v.text) /\ 1 <= Min(cuts) - i
      <4> DEFINE n == Len(v.text)
                 m == Min(cuts)
      <4> HIDE DEF cuts
      <4>1. n \in Nat /\ m \in i + 1 .. i + n - 1 BY <3>1, <3>2, <3>3
      <4> HIDE DEF n, m
      <4>2. m - i \in Int /\ m - i <= n /\ 1 <= m - i BY <3>1, <4>1
      <4> QED BY <4>2 DEF n, m
    <3> HIDE DEF cuts
    <3> DEFINE x == SubSeq(v.text, 1, Min(cuts) - i)
    <3>5. AreLists(x) /\ 1 \in DOMAIN x /\ x[1] = v.text[1]
          BY <2>3, <3>4, Sliced, SliceBegins DEF Opens, Written
    <3>6. u = [v EXCEPT !.text = x] BY <2>4, <2>6
    <3> HIDE DEF x
    <3>7. u.text = x /\ u.type = v.type /\ "text" \in DOMAIN u BY <2>3, <3>6
    <3> QED BY <2>3, <3>5, <3>7 DEF Opens, Written
  <2> QED BY <2>5, <2>6
<1>5. ASSUME NEW u \in InsertedUnits(d) PROVE Opens(u)
  <2>1. PICK i \in Tokens(d) :
            u = [SourceUnit(d, i) EXCEPT !.id = <<d.role, 100 + i>>,
                   !.text = SubSeq(Page(d), i, Min({j \in Tokens(d) : j > i} \cup {L + 1}) - 1)]
        BY DEF InsertedUnits, L
  <2> DEFINE next == {j \in Tokens(d) : j > i} \cup {L + 1}
             x == SubSeq(Page(d), i, Min(next) - 1)
  <2>0. i \in 1 .. L BY <1>2
  <2>2. next \subseteq i + 1 .. L + 1 /\ next # {} BY <1>1, <1>2, <2>0
  <2>3. u = [SourceUnit(d, i) EXCEPT !.id = <<d.role, 100 + i>>, !.text = x] BY <2>1
  <2> HIDE DEF next
  <2>a. next \subseteq Nat BY <1>1, <2>0, <2>2
  <2>b. Min(next) \in next BY <2>2, <2>a, LeastOf
  <2>c. Min(next) \in i + 1 .. L + 1 BY <2>2, <2>b
  <2>4. Min(next) - 1 \in Int /\ Min(next) - 1 <= L /\ i \in Int /\ i >= 1 /\ i <= Min(next) - 1 BY <1>1, <2>0, <2>c
  <2>5. AreLists(x) /\ 1 \in DOMAIN x /\ x[1] = Page(d)[i] BY <1>1, <2>4, Sliced, SliceBegins
  <2>6. {"text", "type"} \subseteq DOMAIN SourceUnit(d, i) /\ SourceUnit(d, i).type = TypeOf(Kind(d, i)) BY <1>3
  <2> HIDE DEF x
  <2>7. u.text = x /\ u.type = TypeOf(Kind(d, i)) /\ "text" \in DOMAIN u BY <2>3, <2>6
  <2> QED BY <1>0, <2>5, <2>7 DEF Opens, Written
<1>6. ASSUME NEW u \in InstrumentUnits(d) PROVE Opens(u)
  <2>1. PICK c \in d.curated : "text" \in DOMAIN u /\ u.text = SubSeq(Page(d), c.from, c.to) /\ u.type = c.type
        BY DEF InstrumentUnits
  <2>2. c.from \in 1 .. L /\ c.to \in 1 .. L /\ c.from <= c.to /\ Page(d)[c.from] # <<>> /\ c.type # "bab"
        BY <1>1 DEF Cuttable
  <2>3. c.from \in Int /\ c.from >= 1 /\ c.to \in Int /\ c.to <= L BY <1>1, <2>2
  <2> QED BY <1>1, <2>1, <2>2, <2>3, Sliced, SliceBegins DEF Opens, Written
<1> HIDE DEF parsed
<1>7. \A u \in U : Opens(u) /\ Spoken(u) BY <1>4, <1>5, <1>6 DEF Opens, Spoken
<1> HIDE DEF U
<1>8. ASSUME NEW u \in split PROVE Spoken(Kept3(u))
  <2> DEFINE rest == Select(u.text, LAMBDA l : ~SaysDeleted(l))
  <2>0. u \in U /\ u.type = "bab" OBVIOUS
  <2>1. IsSeq(u.text) /\ \A x \in ToSet(u.text) : IsSeq(x) BY <1>7, <2>0 DEF Opens, Written, AreLists, ToSet
  <2> DEFINE keep == {x \in ToSet(u.text) : ~SaysDeleted(x)}
  <2>k. rest = Kept(u.text, keep) BY DEF Select
  <2> HIDE DEF rest
  <2>i. ToSet(u.text) \cap keep = keep OBVIOUS
  <2>2. IsSeq(rest) /\ ToSet(rest) = keep
    <3> HIDE DEF keep
    <3> QED BY <2>1, <2>k, <2>i, KeptFacts
  <2>3. AreLists(rest) BY <2>1, <2>2 DEF AreLists, ToSet
  <2>4. u.text[1] \in ToSet(u.text) /\ u.text[1] # <<>> /\ ~SaysDeleted(u.text[1]) /\ "text" \in DOMAIN u
        BY <1>7, <2>0 DEF Opens, Written, ToSet
  <2>5. \E k \in DOMAIN rest : rest[k] # <<>> BY <2>2, <2>4 DEF ToSet
  <2>6. Kept3(u).text = rest /\ "text" \in DOMAIN Kept3(u) BY <2>4 DEF rest
  <2> HIDE DEF Kept3
  <2> QED BY <2>3, <2>5, <2>6 DEF Spoken, Written
<1>9. ASSUME NEW u \in split PROVE Spoken(DeletedUnit(u))
  <2> DEFINE said == Select(u.text, SaysDeleted)
  <2>1. u \in U /\ \E k \in DOMAIN u.text : SaysDeleted(u.text[k]) OBVIOUS
  <2>2. IsSeq(u.text) /\ \A x \in ToSet(u.text) : IsSeq(x) BY <1>7, <2>1 DEF Opens, Written, AreLists, ToSet
  <2>3. IsSeq(said) /\ ToSet(said) = {x \in ToSet(u.text) : SaysDeleted(x)} BY <2>2, KeptFacts DEF Select
  <2>4. ToSet(said) # {} BY <2>1, <2>3 DEF ToSet
  <2> HIDE DEF said
  <2>5. said[1] \in ToSet(said) BY <2>3, <2>4, ListFacts
  <2>6. IsSeq(said[1]) /\ said[1] # <<>> BY <2>2, <2>3, <2>5 DEF SaysDeleted
  <2>7. AreLists(<<said[1]>>) BY <2>6, FlatOfOne
  <2>8. "text" \in DOMAIN DeletedUnit(u) /\ DeletedUnit(u).text = <<said[1]>>
        BY <1>7, <2>1 DEF DeletedUnit, Opens, Written, said
  <2>9. 1 \in DOMAIN <<said[1]>> /\ <<said[1]>>[1] = said[1] OBVIOUS
  <2> QED BY <2>6, <2>7, <2>8, <2>9 DEF Spoken, Written
<1>10. all = (U \ split) \cup {Kept3(u) : u \in split} \cup {DeletedUnit(u) : u \in split} BY DEF SplitDeleted
<1> HIDE DEF Kept3, split
<1>12. \A u \in all : Spoken(u) BY <1>7, <1>8, <1>9, <1>10
<1>13. LegalUnits(d) = {With([parent |-> CanonicalParent(u, all)], u) : u \in all} BY DEF LegalUnits, Parsed, U, parsed
<1> HIDE DEF all
<1>14. ASSUME NEW u, Spoken(u), NEW parent PROVE Spoken(With([parent |-> parent], u))
  <2>1. With([parent |-> parent], u).text = u.text /\ "text" \in DOMAIN With([parent |-> parent], u)
        BY <1>14 DEF With, Spoken, Written
  <2> QED BY <1>14, <2>1 DEF Spoken, Written
<1> QED BY <1>12, <1>13, <1>14

------------------------------------------------------------------------------
(* Evidence *)

EvidenceColumns == {"unit", "role", "boxes", "quote", "exact", "shown"}

\* A row of evidence belongs to a unit of its document, and has boxes if it is exact.
IsEvidence(r, units, e) ==
    /\ EvidenceColumns \subseteq DOMAIN e /\ e.role = r
    /\ \E u \in units : u.id = e.unit
    /\ e.exact => e.boxes # <<>>

EvidenceOfAll(r, units, es) == \A e \in es : IsEvidence(r, units, e)
OneForEach(es) == \A e, f \in es : e.unit = f.unit => e = f

\* Evidence is built of the units, at most one for each of them.
LEMMA EvidenceFacts ==
    ASSUME NEW d, NEW units, NEW chunks, \A u \in units : u.role = d.role
    PROVE  /\ EvidenceOfAll(d.role, units, BuildEvidence(d, units, chunks).evidence)
           /\ OneEach(units) => OneForEach(BuildEvidence(d, units, chunks).evidence)
           /\ DOMAIN BuildEvidence(d, units, chunks).chunks = DOMAIN chunks
<1> DEFINE Boxes(u) == IF Descendants(u, units) # {} THEN AggregateBoxes(d, u, units) ELSE UnitBoxes(d, u)
           U == {u \in units : Admitted(u, chunks[u.id], units)}
           boxes == [u \in U |-> Boxes(u)]
<1>1. BuildEvidence(d, units, chunks) = EvidenceOn(d, boxes, units, chunks) BY DEF BuildEvidence
<1>2. DOMAIN boxes \subseteq units OBVIOUS
<1> HIDE DEF boxes
<1> DEFINE es == EvidenceOn(d, boxes, units, chunks).evidence
<1>3. \A e \in es : \E u \in units : e = EvidenceOf(d, u, boxes[u]) BY <1>2 DEF EvidenceOn
<1>4. DOMAIN EvidenceOn(d, boxes, units, chunks).chunks = DOMAIN chunks BY DEF EvidenceOn
<1> HIDE DEF es
<1>5. ASSUME NEW u, NEW b
      PROVE  /\ EvidenceColumns \subseteq DOMAIN EvidenceOf(d, u, b)
             /\ EvidenceOf(d, u, b).role = u.role /\ EvidenceOf(d, u, b).unit = u.id
             /\ EvidenceOf(d, u, b).boxes = b
             /\ EvidenceOf(d, u, b).exact => b # <<>>
      BY DEF EvidenceOf, EvidenceColumns, AllExact
<1>6. EvidenceOfAll(d.role, units, es) BY <1>3, <1>5 DEF EvidenceOfAll, IsEvidence
<1>7. ASSUME OneEach(units) PROVE OneForEach(es)
  <2> SUFFICES ASSUME NEW e \in es, NEW f \in es, e.unit = f.unit PROVE e = f
      BY DEF OneForEach
  <2>1. PICK u \in units : e = EvidenceOf(d, u, boxes[u]) BY <1>3
  <2>2. PICK v \in units : f = EvidenceOf(d, v, boxes[v]) BY <1>3
  <2>3. u.id = v.id BY <1>5, <2>1, <2>2
  <2>4. u = v BY <1>7, <2>3 DEF OneEach
  <2> QED BY <2>1, <2>2, <2>4
<1> QED BY <1>1, <1>4, <1>6, <1>7 DEF es

------------------------------------------------------------------------------
(* The page *)

\* Ascending lists a finite set of integers, each member once.
LEMMA AscendingFacts ==
    ASSUME NEW S, S \subseteq Int, IsFiniteSet(S)
    PROVE  /\ DOMAIN Ascending(S) = 1 .. Cardinality(S) /\ Cardinality(S) \in Nat
           /\ \A k \in 1 .. Cardinality(S) : Ascending(S)[k] \in S
           /\ \A k, l \in 1 .. Cardinality(S) : Ascending(S)[k] = Ascending(S)[l] => k = l
<1> DEFINE n == Cardinality(S)
           Below(x) == {y \in S : y < x}
           at(k) == CHOOSE x \in S : Cardinality(Below(x)) = k - 1
           key == [x \in S |-> x]
<1>1. \A x \in S : {y \in S : key[y] < key[x]} = Below(x) OBVIOUS
<1>2. key \in [S -> Int] /\ \A x, y \in S : key[x] = key[y] => x = y OBVIOUS
<1> HIDE DEF key
<1>3. n \in Nat /\ \A k \in 1 .. n : \E x \in S : Cardinality({y \in S : key[y] < key[x]}) = k - 1
      BY <1>2, RankedPlaces
<1> HIDE DEF n, Below
<1>4. ASSUME NEW k \in 1 .. n PROVE at(k) \in S /\ Cardinality(Below(at(k))) = k - 1
  <2>1. \E x \in S : Cardinality(Below(x)) = k - 1 BY <1>1, <1>3
  <2> QED BY <2>1
<1>5. Ascending(S) = [k \in 1 .. n |-> at(k)] BY DEF Ascending, Ordered, n, Below
<1>6. \A k \in 1 .. n : Ascending(S)[k] = at(k) BY <1>5
<1> HIDE DEF at, Below
<1>7. ASSUME NEW k \in 1 .. n, NEW l \in 1 .. n, Ascending(S)[k] = Ascending(S)[l] PROVE k = l
  <2>1. at(k) = at(l) BY <1>6, <1>7
  <2>2. k - 1 = l - 1 BY <1>4, <2>1
  <2> QED BY <1>3, <2>2
<1>8. DOMAIN Ascending(S) = 1 .. n BY <1>5
<1>9. \A k \in 1 .. n : Ascending(S)[k] \in S BY <1>4, <1>6
<1> QED BY <1>3, <1>7, <1>8, <1>9 DEF n

SpanColumns == {"id", "role", "text", "object", "start", "end"}

\* Every row of the page is a line that is drawn, each line at most one row.
LEMMA PageFacts ==
    ASSUME NEW d, d.drawn \in Seq(Seq(Words))
    PROVE  /\ IsSeq(PageTextSpans(d))
           /\ \A s \in ToSet(PageTextSpans(d)) :
                  DOMAIN s = SpanColumns /\ s.id[2] \in Nat /\ s.text = Text(d, s.id[2]) /\ IsSeq(s.text)
           /\ \A k, l \in DOMAIN PageTextSpans(d) :
                  PageTextSpans(d)[k].id[2] = PageTextSpans(d)[l].id[2] => k = l
<1> DEFINE S == Drawn(d)
           n == Cardinality(S)
           f == PageTextSpans(d)
<1>1. DOMAIN d.drawn = 1 .. Len(d.drawn) /\ Len(d.drawn) \in Nat BY LenProperties
<1>2. S \in SUBSET (1 .. Len(d.drawn)) BY <1>1 DEF Drawn
<1>4. S \subseteq Nat BY <1>2
<1>b. ASSUME NEW i \in S PROVE IsSeq(Text(d, i))
  <2>1. i \in DOMAIN d.drawn BY <1>1, <1>2
  <2>2. d.drawn[i] \in Seq(Words) BY <2>1, ElementOfSeq, <1>1
  <2>3. IsSeq(d.drawn[i]) BY <2>2, InSeq
  <2> QED BY <2>3, SemanticFacts DEF Text
<1> HIDE DEF S
<1>3. IsFiniteSet(S)
  <2>1. IsFiniteSet(1 .. Len(d.drawn)) BY <1>1, FS_Interval
  <2> QED BY <1>2, <2>1, FS_Subset
<1>a. S \subseteq Int BY <1>4
<1>5. /\ n \in Nat
      /\ \A k \in 1 .. n : Ascending(S)[k] \in S
      /\ \A k, l \in 1 .. n : Ascending(S)[k] = Ascending(S)[l] => k = l
      BY <1>3, <1>a, AscendingFacts
<1>6. f = [k \in 1 .. n |-> Span(d, Ascending(S)[k])] BY DEF PageTextSpans, S
<1> HIDE DEF n
<1>7. \A i : DOMAIN Span(d, i) = SpanColumns /\ Span(d, i).id[2] = i /\ Span(d, i).text = Text(d, i)
      BY DEF Span, SpanColumns
<1> HIDE DEF f
<1>8. DOMAIN f = 1 .. n /\ \A k \in 1 .. n : f[k] = Span(d, Ascending(S)[k]) BY <1>6
<1>9. f \in [1 .. n -> ToSet(f)] BY <1>6, <1>8 DEF ToSet
<1>10. f \in Seq(ToSet(f)) BY <1>5, <1>9, SeqDef
<1>11. \A s \in ToSet(f) :
           DOMAIN s = SpanColumns /\ s.id[2] \in Nat /\ s.text = Text(d, s.id[2]) /\ IsSeq(s.text)
  <2> TAKE s \in ToSet(f)
  <2>1. PICK k \in 1 .. n : s = Span(d, Ascending(S)[k]) BY <1>8 DEF ToSet
  <2>2. Ascending(S)[k] \in Nat /\ IsSeq(Text(d, Ascending(S)[k])) BY <1>4, <1>5, <1>b
  <2> QED BY <1>7, <2>1, <2>2
<1>12. \A k, l \in DOMAIN f : f[k].id[2] = f[l].id[2] => k = l BY <1>5, <1>7, <1>8
<1> QED BY <1>10, <1>11, <1>12 DEF f, IsSeq

\* What rows say, one line each.
TextsOf(rows) == [k \in DOMAIN rows |-> rows[k].text]

\* A text is found among the rows it is looked for in, and a run of them says all of it.
LEMMA MatchingFacts ==
    ASSUME NEW rows, IsSeq(rows), NEW lines
    PROVE  /\ IsSeq(Matching(rows, lines)) /\ ToSet(Matching(rows, lines)) \subseteq ToSet(rows)
           /\ Matching(rows, lines) # <<>> => Flat(TextsOf(Matching(rows, lines))) = Flat(lines)
<1> DEFINE n == Len(rows)
           Says(r) == Flat([k \in 1 .. r[2] - r[1] + 1 |-> rows[r[1] + k - 1].text]) = Flat(lines)
           found == {r \in (1 .. n) \X (1 .. n) : r[1] <= r[2] /\ Says(r)}
           first == CHOOSE r \in found : \A s \in found : r[1] <= s[1]
<1>1. n \in Nat /\ \A i \in 1 .. n : rows[i] \in ToSet(rows) BY ListFacts
<1>2. Matching(rows, lines) = IF Flat(lines) = <<>> \/ found = {} THEN <<>> ELSE SubSeq(rows, first[1], first[2])
      BY DEF Matching
<1> HIDE DEF Says
<1>3. CASE Flat(lines) = <<>> \/ found = {} BY <1>2, <1>3, ShortLists
<1>4. CASE ~(Flat(lines) = <<>> \/ found = {})
  <2> DEFINE starts == {r[1] : r \in found}
  <2>1. starts \subseteq Nat /\ starts # {} BY <1>1, <1>4
  <2>2. \E r \in found : \A s \in found : r[1] <= s[1]
    <3> HIDE DEF found
    <3>1. PICK x \in starts : \A y \in starts : x <= y
      <4> HIDE DEF starts
      <4> QED BY <2>1, LeastNumber
    <3> QED BY <3>1
  <2>3. first \in found BY <2>2
  <2> HIDE DEF first
  <2> DEFINE a == first[1]
             b == first[2]
  <2>4. a \in 1 .. n /\ b \in 1 .. n /\ a <= b BY <2>3
  <2>5. Matching(rows, lines) = SubSeq(rows, a, b) BY <1>2, <1>4
  <2>a. Flat([k \in 1 .. b - a + 1 |-> rows[a + k - 1].text]) = Flat(lines) BY <2>3 DEF Says
  <2> HIDE DEF a, b
  <2>6. \A i \in a .. b : rows[i] \in ToSet(rows) BY <1>1, <2>4
  <2>7. a \in Int /\ b \in Int BY <2>4
  <2>8. /\ SubSeq(rows, a, b) \in Seq(ToSet(rows)) /\ Len(SubSeq(rows, a, b)) = b - a + 1
        /\ \A i \in 1 .. b - a + 1 : SubSeq(rows, a, b)[i] = rows[a + i - 1]
    <3>1. Len(SubSeq(rows, a, b)) = IF a <= b THEN b - a + 1 ELSE 0 BY <2>6, <2>7, SubSeqProperties
    <3>2. SubSeq(rows, a, b) \in Seq(ToSet(rows)) BY <2>6, <2>7, SubSeqProperties
    <3>3. \A i \in 1 .. b - a + 1 : SubSeq(rows, a, b)[i] = rows[a + i - 1] BY <2>6, <2>7, SubSeqProperties
    <3> QED BY <2>4, <3>1, <3>2, <3>3
  <2>9. DOMAIN SubSeq(rows, a, b) = 1 .. b - a + 1 BY <2>8, LenProperties
  <2>10. TextsOf(SubSeq(rows, a, b)) = [k \in 1 .. b - a + 1 |-> rows[a + k - 1].text] BY <2>8, <2>9 DEF TextsOf
  <2>11. Flat(TextsOf(SubSeq(rows, a, b))) = Flat(lines) BY <2>a, <2>10
  <2> QED BY <2>5, <2>8, <2>11, InSeq
<1> QED BY <1>3, <1>4

\* What is found in order are rows of the page, and they say the lines that have a text one
\* by one.
LEMMA InOrderFacts ==
    ASSUME NEW rows, IsSeq(rows), NEW lines
    PROVE  /\ IsSeq(InOrder(rows, lines, Same))
           /\ ToSet(InOrder(rows, lines, Same)) \subseteq ToSet(rows)
           /\ AreLists(lines) /\ InOrder(rows, lines, Same) # <<>>
              => TextsOf(InOrder(rows, lines, Same)) = Select(lines, LAMBDA t : t # <<>>)
<1> DEFINE N == Len(rows)
           V == Seq(ToSet(rows))
           wanted == Select(lines, LAMBDA t : t # <<>>)
           Fitting(found, row) == Len(found) < Len(wanted) /\ Same(wanted[Len(found) + 1], row.text)
           Walk(n, p) == IF Fitting(p, rows[n]) THEN Append(p, rows[n]) ELSE p
           walk == [n \in 1 .. N |-> [p \in V |-> Walk(n, p)]]
           Body(f) == [n \in 0 .. N |-> IF n = 0 THEN <<>>
                        ELSE IF Fitting(f[n - 1], rows[n]) THEN Append(f[n - 1], rows[n]) ELSE f[n - 1]]
<1> HIDE DEF wanted
<1>1. N \in Nat /\ \A i \in 1 .. N : rows[i] \in ToSet(rows) BY ListFacts
<1>2. <<>> \in V BY EmptySeq
<1>3. \A n \in 1 .. N, p \in V : Walk(n, p) \in V BY <1>1, AppendProperties
<1> HIDE DEF Fitting
<1>4. walk \in [1 .. N -> [V -> V]] BY <1>3
<1>5. \A n \in 1 .. N, p \in V : walk[n][p] = Walk(n, p) OBVIOUS
<1>a. PICK g : IsRecursion(g, N, V, <<>>, walk)
  <2>1. N \in Nat /\ <<>> \in V /\ walk \in [1 .. N -> [V -> V]] BY <1>1, <1>2, <1>4
  <2> HIDE DEF walk, V, N
  <2> QED BY <2>1, RecursionExists
<1>6. g \in [0 .. N -> V] /\ g[0] = <<>> /\ \A n \in 1 .. N : g[n] = walk[n][g[n - 1]]
      BY <1>a DEF IsRecursion
<1>7. g = Body(g)
  <2>1. ASSUME NEW n \in 1 .. N PROVE g[n] = Walk(n, g[n - 1])
    <3>1. n - 1 \in 0 .. N BY <1>1
    <3>2. g[n - 1] \in V BY <1>6, <3>1
    <3> QED BY <1>5, <1>6, <3>2
  <2>2. 0 \in 0 .. N /\ \A n \in 0 .. N : n # 0 => n \in 1 .. N BY <1>1
  <2>3. ASSUME NEW n \in 0 .. N PROVE g[n] = Body(g)[n]
        BY <1>6, <2>1, <2>2
  <2>4. DOMAIN g = 0 .. N /\ g = [n \in 0 .. N |-> g[n]] BY <1>6
  <2> QED BY <2>3, <2>4
<1> DEFINE f == CHOOSE h : h = Body(h)
<1>8. f = Body(f) BY <1>7
<1>9. InOrder(rows, lines, Same) = IF Len(f[N]) = Len(wanted) THEN f[N] ELSE <<>>
      BY DEF InOrder, Fitting, wanted
<1> HIDE DEF f
<1> DEFINE Says(p) == Len(p) <= Len(wanted) /\ \A k \in 1 .. Len(p) : p[k].text = wanted[k]
           P == {n \in 0 .. N : f[n] \in V /\ (Len(wanted) \in Nat => Says(f[n]))}
<1>10. 0 \in P
  <2>1. f[0] = <<>> /\ 0 \in 0 .. N BY <1>1, <1>8
  <2>2. Len(wanted) \in Nat => Says(<<>>) BY ShortLists
  <2> HIDE DEF Says
  <2> QED BY <1>2, <2>1, <2>2
<1>a1. ASSUME NEW n \in 1 .. N, NEW p \in V, Len(wanted) \in Nat, Says(p) PROVE Says(Walk(n, p))
  <2>1. CASE Fitting(p, rows[n])
    <3>1. Len(p) < Len(wanted) /\ rows[n].text = wanted[Len(p) + 1] BY <2>1 DEF Fitting, Same
    <3>2. IsSeq(p) /\ Len(p) \in Nat
      <4>1. IsSeq(p)
        <5> HIDE DEF V
        <5> QED BY InSeq DEF V
      <4> QED BY <4>1, ListFacts
    <3>3. /\ Len(Append(p, rows[n])) = Len(p) + 1 /\ Append(p, rows[n])[Len(p) + 1] = rows[n]
          /\ \A k \in 1 .. Len(p) : Append(p, rows[n])[k] = p[k]
          BY <3>2, Appended
    <3> DEFINE t == Append(p, rows[n])
    <3>4. Len(t) = Len(p) + 1 /\ t[Len(p) + 1] = rows[n] /\ \A k \in 1 .. Len(p) : t[k] = p[k] BY <3>3
    <3> HIDE DEF t
    <3>5. Len(t) <= Len(wanted) BY <1>a1, <3>1, <3>2, <3>4
    <3>6. ASSUME NEW k \in 1 .. Len(t) PROVE t[k].text = wanted[k]
      <4>1. CASE k = Len(p) + 1 BY <3>1, <3>4, <4>1
      <4>2. CASE k # Len(p) + 1
        <5>1. k \in 1 .. Len(p) BY <3>2, <3>4, <4>2
        <5> QED BY <1>a1, <3>4, <5>1
      <4> QED BY <4>1, <4>2
    <3>7. Walk(n, p) = t BY <2>1 DEF t
    <3> QED BY <3>5, <3>6, <3>7
  <2>2. CASE ~Fitting(p, rows[n]) BY <1>a1, <2>2
  <2> QED BY <2>1, <2>2
<1>11. ASSUME NEW n \in 1 .. N, n - 1 \in P PROVE n \in P
  <2> HIDE DEF Says
  <2>1. f[n - 1] \in V /\ (Len(wanted) \in Nat => Says(f[n - 1])) BY <1>11
  <2>2. n \in 0 .. N /\ n # 0 BY <1>1
  <2>3. f[n] = Body(f)[n] BY <1>8
  <2>4. f[n] = Walk(n, f[n - 1]) BY <2>2, <2>3
  <2> HIDE DEF Walk
  <2>5. f[n] \in V BY <1>3, <2>1, <2>4
  <2>6. Len(wanted) \in Nat => Says(f[n]) BY <1>a1, <2>1, <2>4
  <2> QED BY <2>2, <2>5, <2>6
<1>12. f[N] \in V /\ (Len(wanted) \in Nat => Says(f[N]))
  <2>1. 0 .. N \subseteq P
    <3> HIDE DEF P, N
    <3> QED BY <1>1, <1>10, <1>11, ClimbTo
  <2>2. N \in 0 .. N BY <1>1
  <2> HIDE DEF Says
  <2> QED BY <2>1, <2>2
<1>13. InOrder(rows, lines, Same) \in V BY <1>2, <1>9, <1>12
<1>14. ASSUME AreLists(lines), InOrder(rows, lines, Same) # <<>> PROVE TextsOf(InOrder(rows, lines, Same)) = wanted
  <2> DEFINE m == f[N]
  <2>1. InOrder(rows, lines, Same) = m /\ Len(m) = Len(wanted) BY <1>9, <1>14
  <2>2. IsSeq(wanted) BY <1>14, KeptFacts DEF AreLists, wanted, Select
  <2>3. Len(wanted) \in Nat /\ DOMAIN wanted = 1 .. Len(wanted) /\ wanted = [i \in DOMAIN wanted |-> wanted[i]]
        BY <2>2, ListFacts
  <2>4. \A k \in 1 .. Len(m) : m[k].text = wanted[k] BY <1>12, <2>3
  <2>5. DOMAIN m = 1 .. Len(m)
    <3>1. m \in Seq(ToSet(rows)) BY <1>12
    <3> QED BY <3>1, LenProperties
  <2> HIDE DEF m
  <2>6. TextsOf(m) = [k \in DOMAIN m |-> m[k].text] BY DEF TextsOf
  <2> QED BY <2>1, <2>3, <2>4, <2>5, <2>6
<1> QED BY <1>13, <1>14, InSeq DEF wanted

\* However it is found, what is found says the text.
LEMMA FoundSays ==
    ASSUME NEW rows, IsSeq(rows), NEW lines, AreLists(lines)
    PROVE  LET found == FirstOf(Matching(rows, lines), InOrder(rows, lines, Same))
           IN  /\ IsSeq(found) /\ ToSet(found) \subseteq ToSet(rows)
               /\ found # <<>> => Flat(TextsOf(found)) = Flat(lines)
<1> DEFINE matching == Matching(rows, lines)
           inOrder == InOrder(rows, lines, Same)
<1>1. /\ IsSeq(matching) /\ ToSet(matching) \subseteq ToSet(rows)
      /\ matching # <<>> => Flat(TextsOf(matching)) = Flat(lines)
      BY MatchingFacts
<1>2. /\ IsSeq(inOrder) /\ ToSet(inOrder) \subseteq ToSet(rows)
      /\ inOrder # <<>> => TextsOf(inOrder) = Select(lines, LAMBDA t : t # <<>>)
      BY InOrderFacts
<1>3. inOrder # <<>> => Flat(TextsOf(inOrder)) = Flat(lines) BY <1>2, FlatSkips DEF Flat
<1> HIDE DEF matching, inOrder
<1> QED BY <1>1, <1>2, <1>3 DEF FirstOf, matching, inOrder

\* What evidence stands on is a finite number of lines.
LEMMA MatchIsFinite ==
    ASSUME NEW d, d.drawn \in Seq(Seq(Words)), NEW quote
    PROVE  IsSeq(SpanMatch(d, quote, FALSE)) /\ IsFiniteSet(ToSet(SpanMatch(d, quote, FALSE)))
<1> DEFINE rows == PageTextSpans(d)
           matching == Matching(rows, quote)
           inOrder == InOrder(rows, quote, Same)
           match == FirstOf(matching, inOrder)
<1>1. IsSeq(rows) BY PageFacts
<1>2. SpanMatch(d, quote, FALSE) = Lines(match) BY DEF SpanMatch, FirstOf
<1> HIDE DEF rows
<1>3. IsSeq(matching) /\ IsSeq(inOrder) BY <1>1, MatchingFacts, InOrderFacts
<1> HIDE DEF matching, inOrder
<1>4. IsSeq(match) BY <1>3 DEF FirstOf
<1> HIDE DEF match
<1>5. IsSeq(Lines(match)) BY <1>4, Mapped DEF Lines
<1> QED BY <1>2, <1>5, FiniteList

------------------------------------------------------------------------------
(* Boxes *)

\* The lines a text is found on say it.
LEMMA FoundLines ==
    ASSUME NEW d, d.drawn \in Seq(Seq(Words)), NEW lines, AreLists(lines)
    PROVE  LET match == Found(d, lines)
           IN  /\ IsSeq(match) /\ \A k \in DOMAIN match : IsSeq(Text(d, match[k]))
               /\ match # <<>> => Flat([k \in DOMAIN match |-> Text(d, match[k])]) = Flat(lines)
<1> DEFINE rows == PageTextSpans(d)
           found == FirstOf(Matching(rows, lines), InOrder(rows, lines, Same))
           match == Lines(found)
<1>1. IsSeq(rows) /\ \A s \in ToSet(rows) : s.text = Text(d, s.id[2]) /\ IsSeq(s.text) BY PageFacts
<1>2. Found(d, lines) = match BY DEF Found
<1> HIDE DEF rows
<1>3. /\ IsSeq(found) /\ ToSet(found) \subseteq ToSet(rows)
      /\ found # <<>> => Flat(TextsOf(found)) = Flat(lines)
      BY <1>1, FoundSays
<1> HIDE DEF found
<1>4. IsSeq(match) /\ DOMAIN match = DOMAIN found /\ Len(match) = Len(found) BY <1>3, Mapped DEF Lines
<1>5. match # <<>> => found # <<>> BY <1>3, <1>4, ListFacts
<1>6. \A k \in DOMAIN found : /\ match[k] = found[k].id[2] /\ found[k].text = Text(d, found[k].id[2])
                             /\ IsSeq(found[k].text)
  <2>1. \A k \in DOMAIN found : found[k] \in ToSet(rows) BY <1>3 DEF ToSet
  <2> QED BY <1>1, <2>1 DEF Lines
<1> HIDE DEF match
<1>7. [k \in DOMAIN match |-> Text(d, match[k])] = TextsOf(found) BY <1>4, <1>6 DEF TextsOf
<1> QED BY <1>2, <1>3, <1>4, <1>5, <1>6, <1>7

\* Boxes of a document say lists of words.
BoxesOf(d, boxes) ==
    boxes # <<>> /\ AreLists(TextsOf(boxes)) /\ \A b \in ToSet(boxes) : b.role = d.role

\* The boxes of lines, and the box of a page, say the text they were drawn for.
LEMMA LinesDrawn ==
    ASSUME NEW d, d.drawn \in Seq(Seq(Words)), NEW lines, AreLists(lines)
    PROVE  BoxesOf(d, TextBoxes(d, lines)) /\ Flat(TextsOf(TextBoxes(d, lines))) = Flat(lines)
<1> DEFINE match == Found(d, lines)
           boxes == TextBoxes(d, lines)
           page == PageBox(d, lines)
<1>1. boxes = IF match # <<>> THEN [k \in DOMAIN match |-> LineBox(d, match[k])] ELSE <<page>> BY DEF TextBoxes
<1>2. /\ IsSeq(match) /\ \A k \in DOMAIN match : IsSeq(Text(d, match[k]))
      /\ match # <<>> => Flat([k \in DOMAIN match |-> Text(d, match[k])]) = Flat(lines)
      BY FoundLines
<1>3. \A i : LineBox(d, i).text = Text(d, i) /\ LineBox(d, i).role = d.role BY DEF LineBox
<1>4. page.text = Flat(lines) /\ page.role = d.role BY DEF PageBox
<1>5. IsSeq(Flat(lines)) BY Flattened DEF Flat
<1> HIDE DEF match, boxes, page
<1>6. CASE match # <<>>
  <2>1. boxes = [k \in DOMAIN match |-> LineBox(d, match[k])] BY <1>1, <1>6
  <2>2. TextsOf(boxes) = [k \in DOMAIN match |-> Text(d, match[k])] BY <1>3, <2>1 DEF TextsOf
  <2> DEFINE texts == TextsOf(boxes)
  <2>3. texts = [k \in DOMAIN match |-> texts[k]] /\ \A k \in DOMAIN match : texts[k] = Text(d, match[k]) BY <2>2
  <2> HIDE DEF texts
  <2>4. IsSeq(texts) /\ DOMAIN texts = DOMAIN match BY <1>2, <2>3, Mapped
  <2>5. AreLists(texts) BY <1>2, <2>3, <2>4 DEF AreLists
  <2>6. \A b \in ToSet(boxes) : b.role = d.role BY <1>3, <2>1 DEF ToSet
  <2>7. boxes # <<>>
    <3>1. DOMAIN match # {} BY <1>2, <1>6, ListFacts
    <3>2. DOMAIN boxes = DOMAIN match BY <2>1
    <3> QED BY <3>1, <3>2
  <2> QED BY <1>2, <1>6, <2>2, <2>5, <2>6, <2>7 DEF BoxesOf, boxes, texts
<1>7. CASE match = <<>>
  <2>1. boxes = <<page>> BY <1>1, <1>7
  <2>2. TextsOf(boxes) = <<Flat(lines)>> BY <1>4, <2>1 DEF TextsOf
  <2>3. \A b \in ToSet(boxes) : b.role = d.role BY <1>4, <2>1 DEF ToSet
  <2>4. boxes # <<>> BY <2>1
  <2> DEFINE x == Flat(lines)
  <2> HIDE DEF x
  <2>5. IsSeq(x) BY <1>5 DEF x
  <2>6. AreLists(<<x>>) /\ Flat(<<x>>) = x BY <2>5, FlatOfOne DEF Flat
  <2> QED BY <2>2, <2>3, <2>4, <2>6 DEF BoxesOf, boxes, x
<1> QED BY <1>6, <1>7

\* A run of words says the text it was found for.
LEMMA WordsAligned ==
    ASSUME NEW d, d.drawn \in Seq(Seq(Words)), NEW text, IsSeq(text), AlignWords(d, text, 0) # <<>>
    PROVE  LET words == AlignWords(d, text, 0)
           IN  IsSeq(words) /\ [k \in DOMAIN words |-> words[k].word] = text
<1> DEFINE On(i) == IF i \in d.wordless THEN <<>>
                    ELSE [k \in DOMAIN d.drawn[i] |-> [word |-> d.drawn[i][k], line |-> i, at |-> <<i, k>>]]
           lists == [i \in DOMAIN d.drawn |-> On(i)]
           all == WordBoxes(d)
           boxes == SelectSeq(all, LAMBDA b : KindOf[b.word] # "marker")
           n == Len(text)
           Says(s) == \A k \in 1 .. n : boxes[s + k - 1].word = text[k]
           found == {s \in 1 .. Len(all) : s + n - 1 <= Len(boxes) /\ Says(s)}
           Gap(s) == LET gap == boxes[s].line - 0 IN IF gap < 0 THEN -gap ELSE gap
           Best(s) == \A t \in found : \/ 0 # 0 /\ Gap(s) < Gap(t)
                                       \/ (0 = 0 \/ Gap(s) = Gap(t)) /\ s <= t
           first == CHOOSE s \in found : Best(s)
           words == AlignWords(d, text, 0)
<1>1. AreLists(lists)
  <2>1. IsSeq(d.drawn) /\ DOMAIN d.drawn = 1 .. Len(d.drawn) BY InSeq, LenProperties
  <2>2. lists = [i \in DOMAIN d.drawn |-> lists[i]] OBVIOUS
  <2>3. ASSUME NEW i \in DOMAIN d.drawn PROVE IsSeq(On(i))
    <3>1. IsSeq(d.drawn[i]) BY <2>1, ElementOfSeq, InSeq
    <3> DEFINE line == [k \in DOMAIN d.drawn[i] |-> [word |-> d.drawn[i][k], line |-> i, at |-> <<i, k>>]]
    <3>2. line = [k \in DOMAIN d.drawn[i] |-> line[k]] OBVIOUS
    <3>3. On(i) = IF i \in d.wordless THEN <<>> ELSE line OBVIOUS
    <3> HIDE DEF line
    <3>4. IsSeq(line) BY <3>1, <3>2, Mapped
    <3> QED BY <3>3, <3>4, ShortLists
  <2>4. \A i \in DOMAIN d.drawn : lists[i] = On(i) OBVIOUS
  <2> HIDE DEF lists, On
  <2>5. IsSeq(lists) /\ DOMAIN lists = DOMAIN d.drawn BY <2>1, <2>2, Mapped
  <2> QED BY <2>3, <2>4, <2>5 DEF AreLists
<1>2. all = FlattenSeq(lists) BY DEF WordBoxes, Flat
<1> HIDE DEF lists
<1>3. Len(all) \in Nat
  <2>1. IsSeq(all) BY <1>1, <1>2, Flattened
  <2> HIDE DEF all
  <2> QED BY <2>1, ListFacts
<1>4. words = IF n = 0 \/ found = {} THEN <<>> ELSE [k \in 1 .. n |-> boxes[first + k - 1]] BY DEF AlignWords
<1>5. n \in Nat /\ DOMAIN text = 1 .. n /\ text = [k \in 1 .. n |-> text[k]] BY ListFacts
<1> HIDE DEF Says, all, boxes
<1>6. n # 0 /\ found # {} /\ words = [k \in 1 .. n |-> boxes[first + k - 1]] BY <1>4
<1>7. first \in found
  <2>1. found \subseteq Nat BY <1>3
  <2> HIDE DEF found
  <2>2. PICK s \in found : \A t \in found : s <= t BY <1>6, <2>1, LeastNumber
  <2>3. Best(s) BY <2>2
  <2> HIDE DEF Best
  <2> QED BY <2>3
<1>8. Says(first) BY <1>7
<1> HIDE DEF first, n, words
<1>9. IsSeq(words) /\ DOMAIN words = 1 .. n
  <2>1. words = [k \in 1 .. n |-> words[k]] BY <1>6
  <2> QED BY <1>5, <2>1, ListOfPlaces
<1>10. \A k \in 1 .. n : words[k].word = text[k] BY <1>6, <1>8 DEF Says
<1>11. [k \in DOMAIN words |-> words[k].word] = text BY <1>5, <1>9, <1>10
<1> QED BY <1>9, <1>11 DEF words

\* The box of words says these words.
LEMMA WordsDrawn ==
    ASSUME NEW d, NEW words, IsSeq(words)
    PROVE  /\ BoxesOf(d, <<WordsBox(d, words)>>)
           /\ Flat(TextsOf(<<WordsBox(d, words)>>)) = [k \in DOMAIN words |-> words[k].word]
<1> DEFINE box == WordsBox(d, words)
           text == [k \in DOMAIN words |-> words[k].word]
<1>1. box.text = text /\ box.role = d.role BY DEF WordsBox
<1>2. text = [k \in DOMAIN words |-> text[k]] OBVIOUS
<1> HIDE DEF text, box
<1>3. IsSeq(text) BY <1>2, Mapped
<1>4. TextsOf(<<box>>) = <<text>> BY <1>1 DEF TextsOf
<1>5. AreLists(<<text>>) /\ FlattenSeq(<<text>>) = text BY <1>3, FlatOfOne
<1>6. \A b \in ToSet(<<box>>) : b.role = d.role BY <1>1 DEF ToSet
<1> QED BY <1>4, <1>5, <1>6 DEF BoxesOf, Flat, box, text

\* What a text begins with is in it.
LEMMA WithinFront ==
    ASSUME NEW x, NEW y, IsSeq(x), IsSeq(y)
    PROVE  Within(x, x \o y)
<1> DEFINE S == ToSet(x) \cup ToSet(y)
           big == x \o y
           n == Len(x)
<1>1. x \in Seq(S) /\ y \in Seq(S) BY SeqMonotonic DEF IsSeq
<1>2. n \in Nat /\ Len(y) \in Nat /\ Len(big) = n + Len(y) BY Joined, ListFacts
<1>3. SubSeq(big, 1, 1 + n - 1) = x
  <2> HIDE DEF S
  <2>1. CASE x = <<>>
    <3>1. n = 0 BY <2>1, ShortLists
    <3>2. SubSeq(big, 1, 0) = <<>> BY SubSeqEmpty
    <3> HIDE DEF big, n
    <3>3. 1 + n - 1 = 0 BY <3>1
    <3> QED BY <2>1, <3>2, <3>3
  <2>2. CASE x # <<>>
    <3>1. n >= 1 /\ 1 \in 1 .. n /\ n \in 1 .. n BY <1>2, <2>2, ListFacts
    <3>2. SubSeq(big, 1, n) = SubSeq(x, 1, n) BY <1>1, <3>1, SubSeqOfConcat1
    <3>3. SubSeq(x, 1, n) = x BY <1>1, SubSeqFull
    <3> HIDE DEF big, n
    <3>4. 1 + n - 1 = n BY <1>2
    <3> QED BY <3>2, <3>3, <3>4
  <2> QED BY <2>1, <2>2
<1>4. 1 \in 1 .. Len(big) - n + 1
  <2> HIDE DEF big, n
  <2> QED BY <1>2
<1> QED BY <1>3, <1>4 DEF Within

\* ByNumber lists a finite set of units that differ in their numbers.
DifferInNumber(S) == \A u, v \in S : u.id[2] \in Int /\ (u.id[2] = v.id[2] => u = v)

LEMMA ByNumberFacts ==
    ASSUME NEW S, IsFiniteSet(S), DifferInNumber(S)
    PROVE  IsSeq(ByNumber(S)) /\ ToSet(ByNumber(S)) \subseteq S
<1> DEFINE n == Cardinality(S)
           key == [x \in S |-> x.id[2]]
           Below(x) == {y \in S : y.id[2] < x.id[2]}
           at(k) == CHOOSE x \in S : Cardinality(Below(x)) = k - 1
           f == ByNumber(S)
<1>1. \A x \in S : {y \in S : key[y] < key[x]} = Below(x) OBVIOUS
<1>2. key \in [S -> Int] /\ \A x, y \in S : key[x] = key[y] => x = y BY DEF DifferInNumber
<1> HIDE DEF key
<1>3. n \in Nat /\ \A k \in 1 .. n : \E x \in S : Cardinality({y \in S : key[y] < key[x]}) = k - 1
      BY <1>2, RankedPlaces
<1>4. f = [k \in 1 .. n |-> at(k)] BY DEF ByNumber, Ordered
<1> HIDE DEF n, Below, f
<1>5. \A k \in 1 .. n : at(k) \in S BY <1>1, <1>3
<1> HIDE DEF at
<1>6. f \in [1 .. n -> S] BY <1>4, <1>5
<1>7. f \in Seq(S) BY <1>3, <1>6, SeqDef
<1> QED BY <1>7, InSeq DEF f

\* The text of an aggregate begins with the text of its own unit, and goes on with lists of
\* words, whatever its parts hold.
LEMMA AggregateHolds ==
    ASSUME NEW u, Written(u), NEW units, IsFiniteSet(units), DifferInNumber(units), \A v \in units : Written(v)
    PROVE  Within(Flat(u.text), Flat(AggregateText(u, units))) /\ AreLists(AggregateText(u, units))
<1> DEFINE below == ByNumber(Children(u, units))
           N == Len(below)
           L == ToSet(u.text) \cup UNION {ToSet(below[n].text) : n \in 1 .. N}
           V == Seq(L)
           Contained(text, v) == Flat(v.text) = <<>> \/ Within(Flat(v.text), Flat(text))
           Add(n, p) == IF Contained(p, below[n]) THEN p ELSE p \o below[n].text
           add == [n \in 1 .. N |-> [p \in V |-> Add(n, p)]]
           Body(f) == [n \in 0 .. N |-> IF n = 0 THEN u.text
                        ELSE IF Contained(f[n - 1], below[n]) THEN f[n - 1] ELSE f[n - 1] \o below[n].text]
<1>0. IsSeq(below) /\ ToSet(below) \subseteq units
  <2> DEFINE S == Children(u, units)
  <2>1. S \in SUBSET units BY DEF Children
  <2> HIDE DEF S
  <2>2. IsFiniteSet(S) BY <2>1, FS_Subset
  <2>3. DifferInNumber(S) BY <2>1 DEF DifferInNumber
  <2> QED BY <2>1, <2>2, <2>3, ByNumberFacts DEF S
<1>a. AggregateText(u, units) = (CHOOSE f : f = Body(f))[N] BY DEF AggregateText
<1> HIDE DEF below
<1>1. N \in Nat /\ \A n \in 1 .. N : below[n] \in units BY <1>0, ListFacts
<1>2. AreLists(u.text) /\ \A n \in 1 .. N : AreLists(below[n].text) BY <1>1 DEF Written
<1>3. u.text \in V /\ \A n \in 1 .. N : below[n].text \in V
  <2>1. u.text \in V
    <3>1. u.text \in Seq(ToSet(u.text)) /\ ToSet(u.text) \subseteq L BY <1>2 DEF AreLists, IsSeq
    <3> HIDE DEF L
    <3> QED BY <3>1, SeqMonotonic
  <2>2. ASSUME NEW n \in 1 .. N PROVE below[n].text \in V
    <3>1. below[n].text \in Seq(ToSet(below[n].text)) /\ ToSet(below[n].text) \subseteq L BY <1>2 DEF AreLists, IsSeq
    <3> HIDE DEF L
    <3> QED BY <3>1, SeqMonotonic
  <2> QED BY <2>1, <2>2
<1>4. \A x \in L : IsSeq(x)
  <2>1. \A t : AreLists(t) => \A x \in ToSet(t) : IsSeq(x) BY DEF AreLists, ToSet
  <2> QED BY <1>2, <2>1
<1> HIDE DEF L, N
<1>5. ASSUME NEW n \in 1 .. N, NEW p \in V PROVE Add(n, p) \in V BY <1>3, ConcatProperties
<1> HIDE DEF Contained
<1>6. add \in [1 .. N -> [V -> V]] BY <1>5
<1>7. \A n \in 1 .. N, p \in V : add[n][p] = Add(n, p) OBVIOUS
<1>b. PICK g : IsRecursion(g, N, V, u.text, add)
  <2> HIDE DEF add, V
  <2> QED BY <1>1, <1>3, <1>6, RecursionExists
<1>8. g \in [0 .. N -> V] /\ g[0] = u.text /\ \A n \in 1 .. N : g[n] = add[n][g[n - 1]]
      BY <1>b DEF IsRecursion
<1>9. g = Body(g)
  <2>1. ASSUME NEW n \in 1 .. N PROVE g[n] = Add(n, g[n - 1])
    <3>1. n - 1 \in 0 .. N BY <1>1
    <3>2. g[n - 1] \in V BY <1>8, <3>1
    <3> QED BY <1>7, <1>8, <3>2
  <2>2. 0 \in 0 .. N /\ \A n \in 0 .. N : n # 0 => n \in 1 .. N BY <1>1
  <2>3. ASSUME NEW n \in 0 .. N PROVE g[n] = Body(g)[n]
        BY <1>8, <2>1, <2>2
  <2>4. DOMAIN g = 0 .. N /\ g = [n \in 0 .. N |-> g[n]] BY <1>8
  <2> QED BY <2>3, <2>4
<1> DEFINE f == CHOOSE h : h = Body(h)
<1>10. f = Body(f) BY <1>9
<1>11. AggregateText(u, units) = f[N] BY <1>a DEF Contained
<1> HIDE DEF f
<1> DEFINE first == Flat(u.text)
           Begins(p) == \E y : IsSeq(y) /\ Flat(p) = first \o y
           P == {n \in 0 .. N : f[n] \in V /\ Begins(f[n])}
<1>12. IsSeq(first) BY <1>2, Flattened DEF Flat
<1>13. 0 \in P
  <2>1. f[0] = u.text /\ 0 \in 0 .. N BY <1>1, <1>10
  <2>2. Begins(u.text) BY <1>12, EndToEnd, ShortLists
  <2> HIDE DEF Begins
  <2> QED BY <1>3, <2>1, <2>2
<1>14. ASSUME NEW n \in 1 .. N, NEW p \in V, Begins(p) PROVE Begins(Add(n, p))
  <2>1. CASE Contained(p, below[n]) BY <1>14, <2>1
  <2>2. CASE ~Contained(p, below[n])
    <3> DEFINE t == below[n].text
    <3>1. AreLists(t) /\ AreLists(p) BY <1>2, <1>4, ListsOf
    <3>2. PICK y : IsSeq(y) /\ Flat(p) = first \o y BY <1>14
    <3> HIDE DEF t, first
    <3>3. Flat(p \o t) = Flat(p) \o Flat(t) /\ IsSeq(Flat(t)) BY <3>1, FlatJoined, Flattened DEF Flat
    <3>4. (first \o y) \o Flat(t) = first \o (y \o Flat(t)) BY <1>12, <3>2, <3>3, EndToEnd
    <3>5. IsSeq(y \o Flat(t)) BY <3>2, <3>3, Joined
    <3>6. Flat(p \o t) = first \o (y \o Flat(t)) BY <3>2, <3>3, <3>4
    <3>7. Begins(p \o t) BY <3>5, <3>6
    <3> HIDE DEF Begins
    <3> QED BY <2>2, <3>7 DEF t
  <2> QED BY <2>1, <2>2
<1>15. ASSUME NEW n \in 1 .. N, n - 1 \in P PROVE n \in P
  <2> HIDE DEF Begins
  <2>1. f[n - 1] \in V /\ Begins(f[n - 1]) BY <1>15
  <2>2. n \in 0 .. N /\ n # 0 BY <1>1
  <2>3. f[n] = Body(f)[n] BY <1>10
  <2>4. f[n] = Add(n, f[n - 1]) BY <2>2, <2>3
  <2> HIDE DEF Add
  <2>5. f[n] \in V /\ Begins(f[n]) BY <1>5, <1>14, <2>1, <2>4
  <2> QED BY <2>2, <2>5
<1>16. f[N] \in V /\ Begins(f[N])
  <2>1. 0 .. N \subseteq P
    <3> HIDE DEF P
    <3> QED BY <1>1, <1>13, <1>15, ClimbTo
  <2>2. N \in 0 .. N BY <1>1
  <2> HIDE DEF Begins
  <2> QED BY <2>1, <2>2
<1>17. PICK y : IsSeq(y) /\ Flat(f[N]) = first \o y BY <1>16
<1> HIDE DEF first
<1>18. Within(first, first \o y) BY <1>12, <1>17, WithinFront
<1>19. AreLists(f[N]) BY <1>4, <1>16, ListsOf
<1> QED BY <1>11, <1>17, <1>18, <1>19 DEF first

\* What is under a unit are units.
LEMMA DescendantsFacts ==
    ASSUME NEW u, NEW units
    PROVE  Descendants(u, units) \subseteq units
<1> DEFINE V == SUBSET units
           first == Children(u, units)
           Deeper(B) == B \cup UNION {Children(v, units) : v \in B}
           deeper == [n \in 1 .. 3 |-> [B \in V |-> Deeper(B)]]
           Body(f) == [n \in 0 .. 3 |-> IF n = 0 THEN Children(u, units)
                        ELSE f[n - 1] \cup UNION {Children(v, units) : v \in f[n - 1]}]
<1>1. Descendants(u, units) = (CHOOSE f : f = Body(f))[3] BY DEF Descendants
<1>2. first \in V /\ \A B \in V : Deeper(B) \in V BY DEF Children
<1>3. deeper \in [1 .. 3 -> [V -> V]] BY <1>2
<1>4. \A n \in 1 .. 3, B \in V : deeper[n][B] = Deeper(B) OBVIOUS
<1>5. PICK g : IsRecursion(g, 3, V, first, deeper)
  <2> HIDE DEF deeper, V, first
  <2> QED BY <1>2, <1>3, RecursionExists
<1>6. g \in [0 .. 3 -> V] /\ g[0] = first /\ \A n \in 1 .. 3 : g[n] = deeper[n][g[n - 1]] BY <1>5 DEF IsRecursion
<1> HIDE DEF deeper
<1>7. ASSUME NEW n \in 1 .. 3 PROVE g[n] = Deeper(g[n - 1])
  <2>1. n - 1 \in 0 .. 3 OBVIOUS
  <2>2. g[n - 1] \in V BY <1>6, <2>1
  <2> QED BY <1>4, <1>6, <2>2
<1>8. g = Body(g)
  <2>1. \A n \in 0 .. 3 : n # 0 => n \in 1 .. 3 OBVIOUS
  <2>2. ASSUME NEW n \in 0 .. 3 PROVE g[n] = Body(g)[n] BY <1>6, <1>7, <2>1
  <2>3. g = [n \in 0 .. 3 |-> g[n]] BY <1>6
  <2> QED BY <2>2, <2>3
<1> DEFINE f == CHOOSE h : h = Body(h)
<1>9. f = Body(f) BY <1>8
<1> HIDE DEF f, V
<1>10. f[0] \in V BY <1>2, <1>9
<1>11. ASSUME NEW n \in 1 .. 3, f[n - 1] \in V PROVE f[n] \in V
  <2>1. n \in 0 .. 3 /\ n # 0 OBVIOUS
  <2>2. f[n] = Body(f)[n] BY <1>9
  <2>3. f[n] = Deeper(f[n - 1]) BY <2>1, <2>2
  <2> QED BY <1>2, <1>11, <2>3
<1>12. f[1] \in V BY <1>10, <1>11
<1>13. f[2] \in V BY <1>12, <1>11
<1>14. f[3] \in V BY <1>13, <1>11
<1> QED BY <1>1, <1>14 DEF f, V

\* What is recovered part by part is a list of words.
LEMMA RecoveredFacts ==
    ASSUME NEW d, d.drawn \in Seq(Seq(Words)), NEW parts, IsSeq(parts), \A k \in DOMAIN parts : AreLists(parts[k])
    PROVE  IsSeq(RecoveredWords(d, parts))
<1> DEFINE FirstLine(p) == Select(p, LAMBDA l : l # <<>>)
           ByFirstLine(p) == IF FirstLine(p) = <<>> THEN <<>> ELSE AlignWords(d, FirstLine(p)[1], 0)
           Match(p) == FirstOf(AlignWords(d, Flat(p), 0), ByFirstLine(p))
           S == UNION {ToSet(Match(parts[k])) : k \in DOMAIN parts}
           Earlier(b, c) == IF b.at[1] = c.at[1] THEN b.at[2] < c.at[2] ELSE b.at[1] < c.at[1]
           n == Cardinality(S)
           at(k) == CHOOSE x \in S : Cardinality({y \in S : Earlier(y, x)}) = k - 1
           f == [k \in 1 .. n |-> at(k)]
<1>1. RecoveredWords(d, parts) = f BY DEF RecoveredWords, Ordered
<1>2. ASSUME NEW p, AreLists(p) PROVE IsSeq(Match(p))
  <2>1. IsSeq(Flat(p)) BY <1>2, Flattened DEF Flat
  <2>2. IsSeq(AlignWords(d, Flat(p), 0))
    <3> DEFINE x == Flat(p)
    <3> HIDE DEF x
    <3>1. IsSeq(x) BY <2>1 DEF x
    <3>2. AlignWords(d, x, 0) # <<>> => IsSeq(AlignWords(d, x, 0)) BY <3>1, WordsAligned
    <3> QED BY <3>2, ShortLists DEF x
  <2>3. IsSeq(ByFirstLine(p))
    <3> DEFINE rest == FirstLine(p)
    <3>1. AreLists(rest) BY <1>2, FlatSkips
    <3>2. ByFirstLine(p) = IF rest = <<>> THEN <<>> ELSE AlignWords(d, rest[1], 0) OBVIOUS
    <3> HIDE DEF rest, FirstLine
    <3>3. rest # <<>> => IsSeq(rest[1]) BY <3>1, ListFacts DEF AreLists
    <3>4. (rest # <<>> /\ AlignWords(d, rest[1], 0) # <<>>) => IsSeq(AlignWords(d, rest[1], 0))
          BY <3>3, WordsAligned
    <3> QED BY <3>2, <3>4, ShortLists
  <2> HIDE DEF ByFirstLine
  <2> QED BY <2>2, <2>3 DEF FirstOf
<1> HIDE DEF Match
<1>3. IsFiniteSet(S)
  <2>1. \A k \in DOMAIN parts : IsFiniteSet(ToSet(Match(parts[k]))) BY <1>2, FiniteList
  <2>2. DOMAIN parts = 1 .. Len(parts) /\ Len(parts) \in Nat BY ListFacts
  <2>3. IsFiniteSet(DOMAIN parts) BY <2>2, FS_Interval
  <2> DEFINE sets == {ToSet(Match(parts[k])) : k \in DOMAIN parts}
  <2>4. IsFiniteSet(sets)
    <3> DEFINE h == [k \in DOMAIN parts |-> ToSet(Match(parts[k]))]
    <3>1. h \in Surjection(DOMAIN parts, sets) BY DEF Surjection
    <3> HIDE DEF h, sets
    <3> QED BY <2>3, <3>1, FS_Surjection
  <2>5. \A X \in sets : IsFiniteSet(X) BY <2>1
  <2> HIDE DEF sets
  <2>6. IsFiniteSet(UNION sets) BY <2>4, <2>5, FS_UNION
  <2> QED BY <2>6 DEF sets
<1> HIDE DEF S
<1>4. n \in Nat BY <1>3, FS_CardinalityType
<1> HIDE DEF n, at
<1>5. DOMAIN f = 1 .. n /\ f \in [1 .. n -> {f[k] : k \in 1 .. n}] OBVIOUS
<1> HIDE DEF f
<1>6. f \in [1 .. n -> ToSet(f)] BY <1>5 DEF ToSet
<1>7. f \in Seq(ToSet(f)) BY <1>4, <1>6, SeqDef
<1> QED BY <1>1, <1>7 DEF IsSeq

\* What something that is said is in is not empty.
LEMMA WithinSomething ==
    ASSUME NEW x, NEW big, IsSeq(x), IsSeq(big), x # <<>>, Within(x, big)
    PROVE  big # <<>>
<1>1. SUFFICES ASSUME big = <<>> PROVE FALSE OBVIOUS
<1>2. Len(x) \in Nat /\ Len(x) # 0 BY ListFacts
<1>3. Len(big) = 0 BY <1>1, ShortLists
<1>4. PICK k \in 1 .. Len(big) - Len(x) + 1 : TRUE BY DEF Within
<1> DEFINE n == Len(x)
<1> HIDE DEF n
<1>5. n \in Nat /\ n # 0 BY <1>2 DEF n
<1>6. 1 .. 0 - n + 1 = {} BY <1>5
<1> QED BY <1>3, <1>4, <1>6 DEF n

\* A text that has a line with words in it says something.
LEMMA SpokenSays ==
    ASSUME NEW u, Spoken(u)
    PROVE  IsSeq(Flat(u.text)) /\ Flat(u.text) # <<>>
<1> DEFINE t == u.text
           f == FlattenSeq(t)
<1>1. AreLists(t) BY DEF Spoken, Written
<1>2. PICK k \in DOMAIN t : t[k] # <<>> BY DEF Spoken
<1>3. IsSeq(t[k]) BY <1>1 DEF AreLists
<1>4. ToSet(t[k]) # {} BY <1>2, <1>3, ListFacts
<1>5. IsSeq(f) /\ ToSet(f) = UNION {ToSet(t[i]) : i \in DOMAIN t} BY <1>1, Flattened
<1> HIDE DEF f
<1>6. ToSet(f) # {} BY <1>4, <1>5
<1>7. f # <<>> BY <1>6, ShortLists
<1> QED BY <1>5, <1>7 DEF f, Flat

\* Evidence quotes what its boxes say, and that is something; its boxes are in its document.
SaysItsBoxes(r, e) ==
    /\ AreLists(e.quote) /\ Flat(e.quote) # <<>>
    /\ e.quote = TextsOf(e.boxes) /\ e.boxes # <<>>
    /\ \A b \in ToSet(e.boxes) : b.role = r

\* Evidence quotes all that its unit says.
QuotesSay(units, es) == \A e \in es, u \in units : u.id = e.unit => Within(Flat(u.text), Flat(e.quote))

\* The boxes of a leaf, in lines or in words, say its text.
LEMMA LeafDrawn ==
    ASSUME NEW d, d.drawn \in Seq(Seq(Words)), NEW u, Written(u)
    PROVE  BoxesOf(d, UnitBoxes(d, u)) /\ Flat(TextsOf(UnitBoxes(d, u))) = Flat(u.text)
<1> DEFINE drawn == TextBoxes(d, u.text)
           text == Flat(u.text)
           words == AlignWords(d, text, 0)
<1>1. AreLists(u.text) BY DEF Written
<1>2. IsSeq(text) BY <1>1, Flattened DEF Flat
<1>3. UnitBoxes(d, u) = IF u.type \in Recoverable /\ ~AllExact(drawn) /\ words # <<>>
                        THEN <<WordsBox(d, words)>> ELSE drawn
      BY DEF UnitBoxes
<1>4. BoxesOf(d, drawn) /\ Flat(TextsOf(drawn)) = text BY <1>1, LinesDrawn
<1>5. words # <<>> => BoxesOf(d, <<WordsBox(d, words)>>) /\ Flat(TextsOf(<<WordsBox(d, words)>>)) = text
  <2> SUFFICES ASSUME words # <<>> PROVE BoxesOf(d, <<WordsBox(d, words)>>) /\ Flat(TextsOf(<<WordsBox(d, words)>>)) = text
      OBVIOUS
  <2> HIDE DEF text
  <2>1. IsSeq(words) /\ [k \in DOMAIN words |-> words[k].word] = text BY <1>2, WordsAligned
  <2> HIDE DEF words
  <2>2. /\ BoxesOf(d, <<WordsBox(d, words)>>)
        /\ Flat(TextsOf(<<WordsBox(d, words)>>)) = [k \in DOMAIN words |-> words[k].word]
        BY <2>1, WordsDrawn
  <2> QED BY <2>1, <2>2
<1> HIDE DEF drawn, words, text
<1> QED BY <1>3, <1>4, <1>5 DEF text

\* The boxes of an aggregate that is evidence say its whole text.
LEMMA AggregateDrawn ==
    ASSUME NEW d, d.drawn \in Seq(Seq(Words)), NEW units, IsFiniteSet(units), DifferInNumber(units),
           \A v \in units : Written(v), NEW u \in units, AggregateBoxes(d, u, units) # <<>>
    PROVE  /\ BoxesOf(d, AggregateBoxes(d, u, units))
           /\ Flat(TextsOf(AggregateBoxes(d, u, units))) = Flat(AggregateText(u, units))
<1> DEFINE text == AggregateText(u, units)
           under == Descendants(u, units)
           us == ByNumber(under)
           texts == [k \in DOMAIN us |-> us[k].text]
           parts == <<u.text>> \o texts
           words == RecoveredWords(d, parts)
           recovered == IF words = <<>> THEN <<>> ELSE <<WordsBox(d, words)>>
           drawn == TextBoxes(d, text)
           b == AggregateBoxes(d, u, units)
<1>1. b = FirstComplete(drawn, recovered, text) BY DEF AggregateBoxes
<1>2. AreLists(text) BY AggregateHolds
<1> HIDE DEF text
<1>3. BoxesOf(d, drawn) BY <1>2, LinesDrawn
<1>4. IsSeq(parts) /\ \A k \in DOMAIN parts : AreLists(parts[k])
  <2>1. under \subseteq units BY DescendantsFacts
  <2> HIDE DEF under
  <2>2. IsFiniteSet(under) /\ DifferInNumber(under) BY <2>1, FS_Subset DEF DifferInNumber
  <2>3. IsSeq(us) /\ ToSet(us) \subseteq under BY <2>2, ByNumberFacts
  <2> HIDE DEF us
  <2>4. texts = [k \in DOMAIN us |-> texts[k]] OBVIOUS
  <2>5. \A k \in DOMAIN us : texts[k] = us[k].text /\ us[k] \in units BY <2>1, <2>3 DEF ToSet
  <2> HIDE DEF texts
  <2>6. IsSeq(texts) /\ DOMAIN texts = DOMAIN us BY <2>3, <2>4, Mapped
  <2>7. \A x \in ToSet(texts) : AreLists(x) BY <2>5, <2>6 DEF ToSet, Written
  <2>8. IsSeq(parts) /\ ToSet(parts) = {u.text} \cup ToSet(texts) BY <2>6, ShortLists, Joined
  <2> HIDE DEF parts
  <2>9. \A k \in DOMAIN parts : parts[k] \in ToSet(parts) BY DEF ToSet
  <2> QED BY <2>7, <2>8, <2>9 DEF Written
<1> HIDE DEF parts
<1>5. IsSeq(words) BY <1>4, RecoveredFacts
<1> HIDE DEF words
<1>6. recovered # <<>> => BoxesOf(d, recovered) BY <1>5, WordsDrawn
<1> HIDE DEF recovered, drawn, b
<1>7. (b = drawn \/ b = recovered) /\ Complete(b, text) BY <1>1 DEF FirstComplete, b
<1>8. Flat(TextsOf(b)) = Flat(text) BY <1>7 DEF Complete, TextsOf
<1>9. BoxesOf(d, b) BY <1>3, <1>6, <1>7 DEF b
<1> QED BY <1>8, <1>9 DEF b, text

\* A leaf is drawn in lines or in words, and its boxes say it; an aggregate is evidence only
\* when its boxes say all its text, which begins with that of its own unit.
LEMMA EvidenceSays ==
    ASSUME NEW d, d.drawn \in Seq(Seq(Words)), NEW units, NEW chunks,
           IsFiniteSet(units), DifferInNumber(units), OneEach(units), \A u \in units : Spoken(u)
    PROVE  /\ QuotesSay(units, BuildEvidence(d, units, chunks).evidence)
           /\ \A e \in BuildEvidence(d, units, chunks).evidence : SaysItsBoxes(d.role, e)
<1> DEFINE Boxes(u) == IF Descendants(u, units) # {} THEN AggregateBoxes(d, u, units) ELSE UnitBoxes(d, u)
           U == {u \in units : Admitted(u, chunks[u.id], units)}
           boxes == [u \in U |-> Boxes(u)]
           failed == {u \in {u \in U : Descendants(u, units) # {}} : boxes[u] = <<>>}
           Says(u, b) == BoxesOf(d, b) /\ Within(Flat(u.text), Flat(TextsOf(b)))
<1>0. \A u \in units : Written(u) BY DEF Spoken
<1>1. ASSUME NEW u \in units PROVE Says(u, UnitBoxes(d, u))
  <2> DEFINE text == Flat(u.text)
  <2>1. BoxesOf(d, UnitBoxes(d, u)) /\ Flat(TextsOf(UnitBoxes(d, u))) = text BY <1>0, LeafDrawn
  <2>2. IsSeq(text) BY <1>0, SpokenSays
  <2>3. Within(text, text)
    <3> HIDE DEF text
    <3>1. text \o <<>> = text /\ IsSeq(<<>>) BY <2>2, EndToEnd, ShortLists
    <3> QED BY <2>2, <3>1, WithinFront
  <2> QED BY <2>1, <2>3
<1>2. ASSUME NEW u \in units, AggregateBoxes(d, u, units) # <<>> PROVE Says(u, AggregateBoxes(d, u, units))
  <2>1. Within(Flat(u.text), Flat(AggregateText(u, units))) BY <1>0, AggregateHolds
  <2>2. /\ BoxesOf(d, AggregateBoxes(d, u, units))
        /\ Flat(TextsOf(AggregateBoxes(d, u, units))) = Flat(AggregateText(u, units))
        BY <1>0, <1>2, AggregateDrawn
  <2> QED BY <2>1, <2>2
<1> HIDE DEF Says
<1>3. ASSUME NEW u \in U \ failed PROVE Says(u, boxes[u])
  <2>1. boxes[u] = Boxes(u) /\ u \in units /\ u \in U OBVIOUS
  <2>2. Descendants(u, units) # {} => boxes[u] # <<>> OBVIOUS
  <2> HIDE DEF boxes, U, failed
  <2>3. CASE Descendants(u, units) # {}
    <3>1. boxes[u] = AggregateBoxes(d, u, units) BY <2>1, <2>3
    <3> QED BY <1>2, <2>1, <2>2, <2>3, <3>1
  <2>4. CASE Descendants(u, units) = {}
    <3>1. boxes[u] = UnitBoxes(d, u) BY <2>1, <2>4
    <3> QED BY <1>1, <2>1, <3>1
  <2> QED BY <2>3, <2>4
<1>4. BuildEvidence(d, units, chunks) = EvidenceOn(d, boxes, units, chunks) BY DEF BuildEvidence
<1>5. DOMAIN boxes = U /\ U \subseteq units OBVIOUS
<1>6. failed = {u \in {u \in DOMAIN boxes : Descendants(u, units) # {}} : boxes[u] = <<>>} OBVIOUS
<1> HIDE DEF boxes, U, failed
<1>7. \A e \in EvidenceOn(d, boxes, units, chunks).evidence : \E u \in U \ failed : e = EvidenceOf(d, u, boxes[u])
      BY <1>5, <1>6 DEF EvidenceOn
<1>8. ASSUME NEW u, NEW b
      PROVE  /\ EvidenceOf(d, u, b).unit = u.id /\ EvidenceOf(d, u, b).quote = TextsOf(b)
             /\ EvidenceOf(d, u, b).boxes = b
      BY DEF EvidenceOf, TextsOf
<1>9. ASSUME NEW e \in EvidenceOn(d, boxes, units, chunks).evidence
      PROVE  SaysItsBoxes(d.role, e) /\ \A u \in units : u.id = e.unit => Within(Flat(u.text), Flat(e.quote))
  <2>1. PICK v \in U \ failed : e = EvidenceOf(d, v, boxes[v]) BY <1>7
  <2> DEFINE b == boxes[v]
             text == Flat(v.text)
  <2>2. Says(v, b) /\ v \in units BY <1>3, <1>5, <2>1
  <2>3. e.unit = v.id /\ e.quote = TextsOf(b) /\ e.boxes = b BY <1>8, <2>1
  <2> HIDE DEF b
  <2>4. BoxesOf(d, b) /\ Within(text, Flat(e.quote)) BY <2>2, <2>3 DEF Says
  <2>5. AreLists(e.quote) BY <2>3, <2>4 DEF BoxesOf
  <2>6. IsSeq(Flat(e.quote)) BY <2>5, Flattened DEF Flat
  <2>7. IsSeq(text) /\ text # <<>> BY <2>2, SpokenSays
  <2> HIDE DEF text
  <2>8. Flat(e.quote) # <<>> BY <2>4, <2>6, <2>7, WithinSomething
  <2>9. SaysItsBoxes(d.role, e) BY <2>3, <2>4, <2>5, <2>8 DEF SaysItsBoxes, BoxesOf
  <2>10. \A u \in units : u.id = e.unit => u = v BY <2>2, <2>3 DEF OneEach
  <2> QED BY <2>4, <2>9, <2>10 DEF text
<1> QED BY <1>4, <1>9 DEF QuotesSay

------------------------------------------------------------------------------
(* Dispositions *)

UnitsOf(r, units) ==
    \A u \in units : {"id", "role"} \subseteq DOMAIN u /\ u.role = r /\ \E n \in Nat : u.id = <<r, n>>

DispositionColumns == {"role", "force", "status", "target", "excluded"}

\* Only a unit of the current law gives the force of the law, and it promotes what it has.
IsDisposition(r, x) ==
    /\ DOMAIN x = DispositionColumns
    /\ x.force = "canonical_normative" => x.status = "promoted_legal_unit" /\ r = "current"

\* Where units stand on a line, one of them has it.
LEMMA OwnerTaken ==
    ASSUME NEW r, NEW units, UnitsOf(r, units), NEW i, NEW chunks, OwnersOf(i, units, chunks) # {}
    PROVE  OwnerOf(i, units, chunks) \in units
<1> DEFINE own == OwnersOf(i, units, chunks)
           ranks == {80 - Specificity(u) : u \in own}
           Best(u) == \A v \in own : \/ Specificity(v) < Specificity(u)
                                     \/ Specificity(v) = Specificity(u) /\ u.id[2] <= v.id[2]
<1>1. \A u : Specificity(u) \in 0 .. 80 BY DEF Specificity
<1>2. own \subseteq units BY DEF OwnersOf
<1>3. \A u \in own : u.id[2] \in Nat BY <1>2 DEF UnitsOf
<1>4. OwnerOf(i, units, chunks) = CHOOSE u \in own : Best(u) BY DEF OwnerOf
<1> HIDE DEF own
<1>5. ranks \subseteq Nat /\ ranks # {} BY <1>1 DEF own
<1>6. PICK x \in ranks : \A y \in ranks : x <= y
  <2> HIDE DEF ranks
  <2> QED BY <1>5, LeastNumber
<1> DEFINE top == {u \in own : 80 - Specificity(u) = x}
           numbers == {u.id[2] : u \in top}
<1>7. numbers \subseteq Nat /\ numbers # {} BY <1>3, <1>6
<1>8. PICK m \in numbers : \A y \in numbers : m <= y
  <2> HIDE DEF numbers
  <2> QED BY <1>7, LeastNumber
<1>9. PICK u \in top : u.id[2] = m BY <1>8
<1>10. ASSUME NEW v \in own
       PROVE  \/ Specificity(v) < Specificity(u)
              \/ Specificity(v) = Specificity(u) /\ u.id[2] <= v.id[2]
  <2>1. Specificity(u) \in 0 .. 80 /\ Specificity(v) \in 0 .. 80 BY <1>1
  <2>2. x <= 80 - Specificity(v) /\ x = 80 - Specificity(u) BY <1>6, <1>9
  <2>3. CASE Specificity(v) = Specificity(u)
    <3>1. v \in top BY <2>2, <2>3
    <3>2. u.id[2] <= v.id[2] BY <1>8, <1>9, <3>1
    <3> QED BY <2>3, <3>2
  <2>4. CASE Specificity(v) # Specificity(u)
    <3> DEFINE a == Specificity(u)
               b == Specificity(v)
    <3> HIDE DEF a, b
    <3>1. a \in 0 .. 80 /\ b \in 0 .. 80 /\ a # b /\ 80 - a <= 80 - b BY <2>1, <2>2, <2>4 DEF a, b
    <3>2. b < a BY <3>1
    <3> QED BY <3>2 DEF a, b
  <2> QED BY <2>3, <2>4
<1>11. \E w \in own : Best(w) BY <1>9, <1>10
<1>12. OwnerOf(i, units, chunks) \in own
  <2> HIDE DEF Best
  <2> QED BY <1>4, <1>11
<1> QED BY <1>2, <1>12

\* Every span has a disposition, and only text of the current law has the force of the law.
LEMMA DispositionFacts ==
    ASSUME NEW r, NEW units, UnitsOf(r, units), NEW s, NEW chunks, NEW metadata, NEW conflicts
    PROVE  IsDisposition(r, SpanDisposition(s, units, chunks, metadata, conflicts))
<1> DEFINE own == OwnersOf(s.id[2], units, chunks)
           u == OwnerOf(s.id[2], units, chunks)
<1>1. \A v : IsDisposition(r, InstrumentDisposition(v))
      BY DEF InstrumentDisposition, Disposition, IsDisposition, DispositionColumns
<1>2. \A text : IsDisposition(r, LookOf(text))
      BY DEF LookOf, Disposition, IsDisposition, DispositionColumns
<1>3. ASSUME own # {} PROVE IsDisposition(r, LegalDisposition(u))
  <2>1. u \in units BY <1>3, OwnerTaken
  <2>2. u.role = r BY <2>1 DEF UnitsOf
  <2> HIDE DEF u
  <2> QED BY <1>1, <2>2 DEF LegalDisposition, Disposition, IsDisposition, DispositionColumns
<1>4. \A t : /\ IsDisposition(r, Disposition("metadata_text", "metadata_only", "promoted_metadata", t, FALSE))
             /\ IsDisposition(r, Disposition("source_conflict_trace", "trace_only", "promoted_source_conflict", t, FALSE))
      BY DEF Disposition, IsDisposition, DispositionColumns
<1> HIDE DEF own, u
<1> QED BY <1>1, <1>2, <1>3, <1>4 DEF SpanDisposition, own, u

\* A row of the disposed page.
IsSpan(r, s) ==
    /\ SpanColumns \cup DispositionColumns \cup {"source", "words"} \subseteq DOMAIN s
    /\ s.source = r /\ s.id[2] \in Nat
    /\ s.force = "canonical_normative" => s.status = "promoted_legal_unit" /\ r = "current"

\* The rows of a page, one for each line.
IsPage(r, spans) ==
    /\ \A k \in DOMAIN spans : IsSpan(r, spans[k])
    /\ \A k, l \in DOMAIN spans : spans[k].id[2] = spans[l].id[2] => k = l

\* The rows are those of the page, or also say what the page says.
Names(d, spans) ==
    /\ DOMAIN spans = DOMAIN PageTextSpans(d)
    /\ \A k \in DOMAIN spans : spans[k].id = PageTextSpans(d)[k].id
Shows(d, spans) == Names(d, spans) /\ \A k \in DOMAIN spans : spans[k].text = PageTextSpans(d)[k].text

\* The disposed spans are the page, each line once.
LEMMA DisposedFacts ==
    ASSUME NEW d, d.drawn \in Seq(Seq(Words)), NEW units, UnitsOf(d.role, units),
           NEW chunks, NEW metadata, NEW conflicts, NEW evidence
    PROVE  /\ IsPage(d.role, DisposedSpans(d, units, chunks, metadata, conflicts, evidence))
           /\ Shows(d, DisposedSpans(d, units, chunks, metadata, conflicts, evidence))
<1> DEFINE rows == PageTextSpans(d)
           At(s) == SpanDisposition(s, units, chunks, metadata, conflicts)
           Row(s) == [id |-> s.id, text |-> s.text, object |-> s.object, start |-> s.start, end |-> s.end,
                      source |-> d.role, words |-> SpanWords(d, s, At(s), evidence)]
           spans == DisposedSpans(d, units, chunks, metadata, conflicts, evidence)
<1>1. spans = [k \in DOMAIN rows |-> With(At(rows[k]), Row(rows[k]))] BY DEF DisposedSpans
<1>2. /\ \A k \in DOMAIN rows : rows[k].id[2] \in Nat
      /\ \A k, l \in DOMAIN rows : rows[k].id[2] = rows[l].id[2] => k = l
      BY PageFacts DEF ToSet
<1>3. \A s : IsDisposition(d.role, At(s)) BY DispositionFacts
<1> HIDE DEF rows, At
<1>4. ASSUME NEW s, s.id[2] \in Nat
      PROVE  /\ IsSpan(d.role, With(At(s), Row(s)))
             /\ With(At(s), Row(s)).id = s.id /\ With(At(s), Row(s)).text = s.text
  <2> DEFINE a == At(s)
             b == Row(s)
  <2>1. /\ DOMAIN b = {"id", "text", "object", "start", "end", "source", "words"}
        /\ b.id = s.id /\ b.text = s.text /\ b.source = d.role
        OBVIOUS
  <2>2. IsDisposition(d.role, a) BY <1>3
  <2> HIDE DEF a, b
  <2>3. DOMAIN With(a, b) = DOMAIN a \cup DOMAIN b BY DEF With
  <2>4. /\ With(a, b).id = s.id /\ With(a, b).text = s.text /\ With(a, b).source = d.role
        /\ With(a, b).force = a.force /\ With(a, b).status = a.status /\ With(a, b).role = a.role
        BY <2>1, <2>2 DEF With, IsDisposition, DispositionColumns
  <2>5. SpanColumns \cup DispositionColumns \cup {"source", "words"} \subseteq DOMAIN With(a, b)
        BY <2>1, <2>2, <2>3 DEF IsDisposition, SpanColumns, DispositionColumns
  <2>6. IsSpan(d.role, With(a, b)) BY <1>4, <2>2, <2>4, <2>5 DEF IsSpan, IsDisposition
  <2> QED BY <2>4, <2>6 DEF a, b
<1> HIDE DEF Row
<1>5. IsPage(d.role, spans) BY <1>1, <1>2, <1>4 DEF IsPage
<1>6. Shows(d, spans) BY <1>1, <1>2, <1>4 DEF Shows, Names, rows
<1> QED BY <1>5, <1>6

------------------------------------------------------------------------------
(* Grounding *)

\* What grounded evidence stands on can be counted.
Stands(e) == "spans" \in DOMAIN e /\ IsSeq(e.spans) /\ IsFiniteSet(ToSet(e.spans))

\* What evidence may publish, and what is published.
Fit(e) == e.exact /\ e.shown /\ e.spans # <<>>
PublishedAll(es, retrieval) ==
    \A e \in es : Fit(e) => \E w \in retrieval : w.evidence = e.unit /\ w.spans = e.spans

\* Two tables name the same rows.
SameNames(V, W) == {v.id : v \in V} = {w.id : w \in W}

\* Grounding changes what the units stand on and neither their names nor their number.
LEMMA GroundedUnits ==
    ASSUME NEW d, NEW units, UnitsOf(d.role, units), NEW chunks, NEW evidence
    PROVE  /\ UnitsOf(d.role, ApplyChunkGrounding(d, units, chunks, evidence).units)
           /\ SameNames(ApplyChunkGrounding(d, units, chunks, evidence).units, units)
           /\ OneEach(units) => OneEach(ApplyChunkGrounding(d, units, chunks, evidence).units)
           /\ DOMAIN ApplyChunkGrounding(d, units, chunks, evidence).chunks = DOMAIN chunks
<1> DEFINE grounded == {GroundedEvidence(d, e) : e \in evidence}
           ready == [id \in DOMAIN chunks |->
                        GroundedChunk(d, chunks[id], CHOOSE u \in units : u.id = id, grounded)]
           Unit(u) == GroundedUnit(d, u, units, ready[u.id], grounded)
<1>1. ApplyChunkGrounding(d, units, chunks, evidence).units = {Unit(u) : u \in units}
      BY DEF ApplyChunkGrounding
<1>0. DOMAIN ApplyChunkGrounding(d, units, chunks, evidence).chunks = DOMAIN chunks BY DEF ApplyChunkGrounding
<1> HIDE DEF grounded, ready
<1>2. ASSUME NEW row, {"id", "role"} \subseteq DOMAIN row, NEW u
      PROVE  /\ {"id", "role"} \subseteq DOMAIN ApplyReview(row, u)
             /\ ApplyReview(row, u).id = row.id /\ ApplyReview(row, u).role = row.role
      BY <1>2 DEF ApplyReview
<1>3. ASSUME NEW u \in units
      PROVE  {"id", "role"} \subseteq DOMAIN Unit(u) /\ Unit(u).id = u.id /\ Unit(u).role = u.role
  <2> DEFINE own == EvidenceFor(grounded, u.id)
             loose == own = {} /\ ReviewCategory(u) = "segmentation"
             matched == SpanMatch(d, u.text, loose)
             aggregate == IF HasParts(u, units) THEN SpansOf(own) ELSE <<>>
             historical == IF u.historical THEN SpansOf(own) ELSE <<>>
             spans == FirstOf(aggregate, FirstOf(matched, historical))
             columns == [spans |-> spans, status |-> IF u.historical THEN "active_historical" ELSE "source",
                         failure |-> IF spans = <<>> THEN "unmatched" ELSE "", allowed |-> TRUE,
                         loadable |-> u.loadable /\ spans # <<>> /\ (own # {} \/ ready[u.id].loadable)]
             row == With(columns, u)
  <2>1. Unit(u) = IF aggregate = <<>> THEN ApplyReview(row, u)
                  ELSE [ApplyReview(row, u) EXCEPT !.spans = aggregate, !.failure = ""]
        BY DEF GroundedUnit
  <2>2. DOMAIN columns = {"spans", "status", "failure", "allowed", "loadable"} OBVIOUS
  <2>3. {"id", "role"} \subseteq DOMAIN u BY DEF UnitsOf
  <2> HIDE DEF columns, aggregate
  <2>4. {"id", "role"} \subseteq DOMAIN row /\ row.id = u.id /\ row.role = u.role
        BY <2>2, <2>3 DEF With
  <2> HIDE DEF row
  <2> DEFINE reviewed == ApplyReview(row, u)
  <2>5. {"id", "role"} \subseteq DOMAIN reviewed /\ reviewed.id = u.id /\ reviewed.role = u.role
        BY <1>2, <2>4
  <2>6. Unit(u) = IF aggregate = <<>> THEN reviewed ELSE [reviewed EXCEPT !.spans = aggregate, !.failure = ""]
        BY <2>1
  <2> HIDE DEF reviewed, Unit
  <2>7. CASE aggregate = <<>> BY <2>5, <2>6, <2>7
  <2>8. CASE aggregate # <<>> BY <2>5, <2>6, <2>8
  <2> QED BY <2>7, <2>8
<1> HIDE DEF Unit
<1>4. SameNames({Unit(u) : u \in units}, units) BY <1>3 DEF SameNames
<1>5. UnitsOf(d.role, {Unit(u) : u \in units}) BY <1>3 DEF UnitsOf
<1>6. OneEach(units) => OneEach({Unit(u) : u \in units}) BY <1>3 DEF OneEach
<1> QED BY <1>0, <1>1, <1>4, <1>5, <1>6

\* Grounded evidence stands on rows of the page and belongs to the units as before.
LEMMA GroundedEvidenceFacts ==
    ASSUME NEW d, d.drawn \in Seq(Seq(Words)), NEW units, NEW chunks, NEW evidence,
           EvidenceOfAll(d.role, units, evidence)
    PROVE  /\ EvidenceOfAll(d.role, units, ApplyChunkGrounding(d, units, chunks, evidence).evidence)
           /\ \A e \in ApplyChunkGrounding(d, units, chunks, evidence).evidence : Stands(e)
           /\ OneForEach(evidence) => OneForEach(ApplyChunkGrounding(d, units, chunks, evidence).evidence)
<1> DEFINE G(e) == GroundedEvidence(d, e)
<1>1. ApplyChunkGrounding(d, units, chunks, evidence).evidence = {G(e) : e \in evidence}
      BY DEF ApplyChunkGrounding
<1>2. ASSUME NEW e \in evidence
      PROVE  IsEvidence(d.role, units, G(e)) /\ Stands(G(e)) /\ G(e).unit = e.unit
  <2>1. IsEvidence(d.role, units, e) BY DEF EvidenceOfAll
  <2> DEFINE spans == SpanMatch(d, e.quote, FALSE)
  <2>2. IsSeq(spans) /\ IsFiniteSet(ToSet(spans)) BY MatchIsFinite
  <2>3. G(e) = With([spans |-> spans], e) BY DEF GroundedEvidence
  <2> HIDE DEF spans, G
  <2>4. /\ DOMAIN G(e) = {"spans"} \cup DOMAIN e /\ G(e).spans = spans
        /\ \A c \in EvidenceColumns : G(e)[c] = e[c]
        BY <2>1, <2>3 DEF With, IsEvidence, EvidenceColumns
  <2>5. /\ G(e).unit = e.unit /\ G(e).role = e.role /\ G(e).exact = e.exact /\ G(e).boxes = e.boxes
        BY <2>4 DEF EvidenceColumns
  <2>6. IsEvidence(d.role, units, G(e)) BY <2>1, <2>4, <2>5 DEF IsEvidence
  <2>7. Stands(G(e)) BY <2>2, <2>4 DEF Stands
  <2> QED BY <2>5, <2>6, <2>7
<1> HIDE DEF G
<1> QED BY <1>1, <1>2 DEF EvidenceOfAll, OneForEach

\* Of a document that is one of provisions only, nothing that is fit to be cited stays
\* unpublished: its chunk may be loaded, since the evidence it stands on is its own.
LEMMA RetrievalPublished ==
    ASSUME NEW d, d.drawn \in Seq(Seq(Words)), NEW units, NEW chunks, NEW evidence,
           EvidenceOfAll(d.role, units, evidence), OneForEach(evidence),
           \A u \in units : IsProvision(u), DOMAIN chunks = {u.id : u \in units}
    PROVE  LET g == ApplyChunkGrounding(d, units, chunks, evidence)
           IN  PublishedAll(g.evidence, RetrievalUnits(g.evidence, g.chunks))
<1> DEFINE g == ApplyChunkGrounding(d, units, chunks, evidence)
           es == g.evidence
           Of(id) == CHOOSE u \in units : u.id = id
<1>1. EvidenceOfAll(d.role, units, es) /\ OneForEach(es) BY GroundedEvidenceFacts
<1>2. g.chunks = [id \in DOMAIN chunks |-> GroundedChunk(d, chunks[id], Of(id), es)]
      BY DEF ApplyChunkGrounding
<1> HIDE DEF es, g
<1>3. ASSUME NEW e \in es, Fit(e) PROVE g.chunks[e.unit].loadable
  <2> DEFINE u == Of(e.unit)
             own == EvidenceFor(es, e.unit)
  <2>1. \E v \in units : v.id = e.unit BY <1>1 DEF EvidenceOfAll, IsEvidence
  <2>2. u \in units /\ u.id = e.unit BY <2>1
  <2> HIDE DEF Of
  <2>3. g.chunks[e.unit] = GroundedChunk(d, chunks[e.unit], u, es) BY <1>2, <2>1
  <2> HIDE DEF u
  <2>4. own = {e} BY <1>1 DEF EvidenceFor, OneForEach
  <2>5. SpansOf(own) = e.spans BY <2>4 DEF SpansOf
  <2>6. IsProvision(u) /\ ReviewCategory(u) = ""
        BY <2>2 DEF IsProvision, ProvisionTypes, ReviewCategory, Segmentation
  <2> DEFINE chunk == chunks[e.unit]
             spans == FirstOf(SpanMatch(d, chunk.text, FALSE), SpansOf(own))
             loadable == u.loadable /\ own # {} /\ spans # <<>>
             provision == /\ loadable /\ u.type = "bab" /\ u.role # "current"
                          /\ \E k \in DOMAIN u.text : SaysDeleted(u.text[k])
             columns == [spans |-> spans, loadable |-> loadable,
                         failure |-> IF spans = <<>> THEN "unmatched" ELSE chunk.failure,
                         allowed |-> chunk.allowed \/ provision,
                         status |-> IF provision THEN "active" ELSE chunk.status]
  <2>7. GroundedChunk(d, chunk, u, es) = With(columns, chunk)
        BY <2>2, <2>6, <2>4 DEF GroundedChunk, ApplyReview
  <2>8. columns.loadable = loadable /\ "loadable" \in DOMAIN columns OBVIOUS
  <2>9. spans # <<>> BY <1>3, <2>5 DEF FirstOf, Fit
  <2>10. loadable = TRUE
    <3>1. u.loadable = TRUE BY <2>6 DEF IsProvision
    <3>2. own # {} BY <2>4
    <3> HIDE DEF own, spans
    <3> QED BY <2>9, <3>1, <3>2
  <2> HIDE DEF columns, chunk, loadable
  <2>11. With(columns, chunk).loadable = columns.loadable BY <2>8 DEF With
  <2> QED BY <2>3, <2>7, <2>8, <2>10, <2>11 DEF chunk
<1>4. ASSUME NEW e \in es, Fit(e)
      PROVE  \E w \in RetrievalUnits(es, g.chunks) : w.evidence = e.unit /\ w.spans = e.spans
  <2> DEFINE w == [evidence |-> e.unit, spans |-> e.spans, text |-> e.quote]
  <2>1. e.boxes # <<>> BY <1>1, <1>4 DEF EvidenceOfAll, IsEvidence, Fit
  <2>2. w \in RetrievalUnits(es, g.chunks) BY <1>3, <1>4, <2>1 DEF RetrievalUnits, Fit
  <2>3. w.evidence = e.unit /\ w.spans = e.spans OBVIOUS
  <2> HIDE DEF w
  <2> QED BY <2>2, <2>3
<1>5. PublishedAll(es, RetrievalUnits(es, g.chunks)) BY <1>4 DEF PublishedAll
<1> QED BY <1>5 DEF es, g

\* The lines evidence stands on say its quote.
SpansSay(d, e) == e.spans # <<>> => Flat([k \in DOMAIN e.spans |-> Text(d, e.spans[k])]) = Flat(e.quote)

\* Grounding rewrites neither what a unit says nor what its evidence quotes, and finds the
\* lines that say the quote.
LEMMA GroundedSays ==
    ASSUME NEW d, d.drawn \in Seq(Seq(Words)), NEW units, NEW chunks, NEW evidence,
           \A u \in units : Written(u) /\ "id" \in DOMAIN u,
           EvidenceOfAll(d.role, units, evidence), QuotesSay(units, evidence),
           \A e \in evidence : SaysItsBoxes(d.role, e)
    PROVE  /\ QuotesSay(ApplyChunkGrounding(d, units, chunks, evidence).units,
                        ApplyChunkGrounding(d, units, chunks, evidence).evidence)
           /\ \A e \in ApplyChunkGrounding(d, units, chunks, evidence).evidence :
                  SaysItsBoxes(d.role, e) /\ SpansSay(d, e)
<1> DEFINE grounded == {GroundedEvidence(d, e) : e \in evidence}
           ready == [id \in DOMAIN chunks |->
                        GroundedChunk(d, chunks[id], CHOOSE u \in units : u.id = id, grounded)]
           Unit(u) == GroundedUnit(d, u, units, ready[u.id], grounded)
           G(e) == GroundedEvidence(d, e)
<1>1. /\ ApplyChunkGrounding(d, units, chunks, evidence).units = {Unit(u) : u \in units}
      /\ ApplyChunkGrounding(d, units, chunks, evidence).evidence = {G(e) : e \in evidence}
      BY DEF ApplyChunkGrounding
<1> HIDE DEF grounded, ready
<1>2. ASSUME NEW row, {"id", "text"} \subseteq DOMAIN row, NEW u
      PROVE  {"id", "text"} \subseteq DOMAIN ApplyReview(row, u)
             /\ ApplyReview(row, u).id = row.id /\ ApplyReview(row, u).text = row.text
      BY <1>2 DEF ApplyReview
<1>3. ASSUME NEW u \in units PROVE Unit(u).id = u.id /\ Unit(u).text = u.text
  <2> DEFINE own == EvidenceFor(grounded, u.id)
             loose == own = {} /\ ReviewCategory(u) = "segmentation"
             matched == SpanMatch(d, u.text, loose)
             aggregate == IF HasParts(u, units) THEN SpansOf(own) ELSE <<>>
             historical == IF u.historical THEN SpansOf(own) ELSE <<>>
             spans == FirstOf(aggregate, FirstOf(matched, historical))
             columns == [spans |-> spans, status |-> IF u.historical THEN "active_historical" ELSE "source",
                         failure |-> IF spans = <<>> THEN "unmatched" ELSE "", allowed |-> TRUE,
                         loadable |-> u.loadable /\ spans # <<>> /\ (own # {} \/ ready[u.id].loadable)]
             row == With(columns, u)
  <2>1. Unit(u) = IF aggregate = <<>> THEN ApplyReview(row, u)
                  ELSE [ApplyReview(row, u) EXCEPT !.spans = aggregate, !.failure = ""]
        BY DEF GroundedUnit
  <2>2. DOMAIN columns = {"spans", "status", "failure", "allowed", "loadable"} OBVIOUS
  <2>3. {"id", "text"} \subseteq DOMAIN u BY DEF Written
  <2> HIDE DEF columns, aggregate
  <2>4. {"id", "text"} \subseteq DOMAIN row /\ row.id = u.id /\ row.text = u.text
        BY <2>2, <2>3 DEF With
  <2> HIDE DEF row
  <2> DEFINE reviewed == ApplyReview(row, u)
  <2>5. {"id", "text"} \subseteq DOMAIN reviewed /\ reviewed.id = u.id /\ reviewed.text = u.text BY <1>2, <2>4
  <2>6. Unit(u) = IF aggregate = <<>> THEN reviewed ELSE [reviewed EXCEPT !.spans = aggregate, !.failure = ""]
        BY <2>1
  <2> HIDE DEF reviewed, Unit
  <2>7. CASE aggregate = <<>> BY <2>5, <2>6, <2>7
  <2>8. CASE aggregate # <<>> BY <2>5, <2>6, <2>8
  <2> QED BY <2>7, <2>8
<1>4. ASSUME NEW e \in evidence
      PROVE  /\ G(e).unit = e.unit /\ G(e).quote = e.quote /\ G(e).boxes = e.boxes
             /\ G(e).spans = Found(d, e.quote)
  <2> DEFINE columns == [spans |-> SpanMatch(d, e.quote, FALSE)]
  <2>1. {"unit", "boxes", "quote"} \subseteq DOMAIN e BY DEF EvidenceOfAll, IsEvidence, EvidenceColumns
  <2>2. SpanMatch(d, e.quote, FALSE) = Found(d, e.quote) BY DEF SpanMatch, Found, FirstOf
  <2>3. G(e) = With(columns, e) /\ DOMAIN columns = {"spans"} /\ columns.spans = Found(d, e.quote)
        BY <2>2 DEF GroundedEvidence
  <2> HIDE DEF columns, G
  <2> QED BY <2>1, <2>3 DEF With
<1> HIDE DEF Unit, G
<1>5. QuotesSay({Unit(u) : u \in units}, {G(e) : e \in evidence}) BY <1>3, <1>4 DEF QuotesSay
<1>6. ASSUME NEW e \in evidence PROVE SaysItsBoxes(d.role, G(e)) /\ SpansSay(d, G(e))
  <2> DEFINE match == Found(d, e.quote)
  <2>1. SaysItsBoxes(d.role, G(e)) BY <1>4 DEF SaysItsBoxes
  <2>2. AreLists(e.quote) BY DEF SaysItsBoxes
  <2>3. match # <<>> => Flat([k \in DOMAIN match |-> Text(d, match[k])]) = Flat(e.quote) BY <2>2, FoundLines
  <2> HIDE DEF match
  <2>4. G(e).spans = match /\ G(e).quote = e.quote BY <1>4 DEF match
  <2>5. SpansSay(d, G(e)) BY <2>3, <2>4 DEF SpansSay
  <2> QED BY <2>1, <2>5
<1> QED BY <1>1, <1>5, <1>6

------------------------------------------------------------------------------
(* Authority *)

\* The contract lets nothing but a line that was promoted speak for the law, and nothing
\* speaks for it that may not be cited.
IsAuthorized(s) == "authority" \in DOMAIN s /\ (s.status = "promoted_legal_unit" => s.authority = "normative_legal_text")
SpeaksCitably(e) ==
    /\ {"authority", "citable"} \subseteq DOMAIN e
    /\ e.authority = "normative_legal_text" => e.citable = TRUE /\ e.exact /\ e.shown

\* The authority contract leaves the page as it is and calls the text of the law by its name.
LEMMA AuthorizedPage ==
    ASSUME NEW r, NEW spans, IsPage(r, spans), NEW evidence
    PROVE  /\ IsPage(r, AuthoritySpans(spans, evidence))
           /\ \A s \in ToSet(AuthoritySpans(spans, evidence)) : IsAuthorized(s)
           /\ \A d : Shows(d, spans) => Shows(d, AuthoritySpans(spans, evidence))
<1> DEFINE own(k) == Standing(spans[k].id[2], spans[k].source, evidence)
           columns(k) == [authority |-> SpanAuthority(spans[k]), evidence |-> {e.unit : e \in own(k)},
                          highlightable |-> /\ spans[k].status = "promoted_legal_unit"
                                            /\ own(k) # {} /\ spans[k].words # <<>>]
           t == AuthoritySpans(spans, evidence)
<1>1. t = [k \in DOMAIN spans |-> With(columns(k), spans[k])] BY DEF AuthoritySpans
<1>2. \A k : DOMAIN columns(k) = {"authority", "evidence", "highlightable"}
             /\ columns(k).authority = SpanAuthority(spans[k])
      OBVIOUS
<1> HIDE DEF t, columns
<1>3. ASSUME NEW k \in DOMAIN spans
      PROVE  IsSpan(r, t[k]) /\ IsAuthorized(t[k]) /\ t[k].id = spans[k].id /\ t[k].text = spans[k].text
  <2> DEFINE s == spans[k]
             c == columns(k)
  <2>1. t[k] = With(c, s) BY <1>1
  <2>2. IsSpan(r, s) BY DEF IsPage
  <2>3. DOMAIN c = {"authority", "evidence", "highlightable"} /\ c.authority = SpanAuthority(s) BY <1>2
  <2> HIDE DEF s, c
  <2>4. DOMAIN With(c, s) = DOMAIN c \cup DOMAIN s BY DEF With
  <2>5. /\ With(c, s).id = s.id /\ With(c, s).text = s.text
        /\ With(c, s).source = s.source /\ With(c, s).force = s.force
        /\ With(c, s).status = s.status /\ With(c, s).authority = SpanAuthority(s)
        BY <2>2, <2>3 DEF With, IsSpan, SpanColumns, DispositionColumns
  <2>6. IsSpan(r, With(c, s)) BY <2>2, <2>4, <2>5 DEF IsSpan
  <2>7. s.status = "promoted_legal_unit" => SpanAuthority(s) = "normative_legal_text" BY DEF SpanAuthority
  <2>8. IsAuthorized(With(c, s)) BY <2>3, <2>4, <2>5, <2>7 DEF IsAuthorized
  <2> QED BY <2>1, <2>5, <2>6, <2>8 DEF s
<1>4. DOMAIN t = DOMAIN spans BY <1>1
<1>5. IsPage(r, t) BY <1>3, <1>4 DEF IsPage
<1>6. \A s \in ToSet(t) : IsAuthorized(s) BY <1>3, <1>4 DEF ToSet
<1>7. \A d : Shows(d, spans) => Shows(d, t) BY <1>3, <1>4 DEF Shows, Names
<1> QED BY <1>5, <1>6, <1>7 DEF t

\* The authority contract gives authority to citable evidence only, and leaves its lines alone.
LEMMA AuthorizedEvidence ==
    ASSUME NEW r, NEW units, NEW evidence, EvidenceOfAll(r, units, evidence),
           \A e \in evidence : Stands(e)
    PROVE  /\ EvidenceOfAll(r, units, AuthorityEvidence(evidence, units))
           /\ \A e \in AuthorityEvidence(evidence, units) : Stands(e) /\ SpeaksCitably(e)
           /\ \A retrieval : PublishedAll(evidence, retrieval)
                             => PublishedAll(AuthorityEvidence(evidence, units), retrieval)
           /\ OneForEach(evidence) => OneForEach(AuthorityEvidence(evidence, units))
<1> DEFINE Unit(e) == CHOOSE u \in units : u.id = e.unit
           Citable1(e) == /\ e.exact /\ e.shown /\ ~Unit(e).anomaly
                          /\ RoleOf(Unit(e)) # "structural_heading" /\ Unit(e).type \notin InstrumentTypes
           Columns(e) == [authority |-> EvidenceAuthority(e, Unit(e)), citable |-> Citable1(e),
                          quotable |-> Citable1(e) /\ EvidenceAuthority(e, Unit(e)) = "normative_legal_text"]
           A(e) == With(Columns(e), e)
<1>1. AuthorityEvidence(evidence, units) = {A(e) : e \in evidence} BY DEF AuthorityEvidence
<1>2. \A e : /\ DOMAIN Columns(e) = {"authority", "citable", "quotable"}
             /\ Columns(e).authority = EvidenceAuthority(e, Unit(e)) /\ Columns(e).citable = Citable1(e)
      OBVIOUS
<1>3. \A e, u : EvidenceAuthority(e, u) = "normative_legal_text" =>
          e.exact /\ e.shown /\ ~u.anomaly /\ RoleOf(u) # "structural_heading" /\ u.type \notin InstrumentTypes
      BY DEF EvidenceAuthority, RoleOf
<1> HIDE DEF Columns, Unit
<1>4. ASSUME NEW e \in evidence
      PROVE  /\ IsEvidence(r, units, A(e)) /\ Stands(A(e)) /\ SpeaksCitably(A(e))
             /\ A(e).unit = e.unit /\ A(e).spans = e.spans /\ (Fit(A(e)) <=> Fit(e))
  <2>1. IsEvidence(r, units, e) /\ Stands(e) BY DEF EvidenceOfAll
  <2> DEFINE c == Columns(e)
  <2>2. DOMAIN c = {"authority", "citable", "quotable"} BY <1>2
  <2>3. c.authority = EvidenceAuthority(e, Unit(e)) /\ c.citable = Citable1(e) BY <1>2
  <2>4. c.authority = "normative_legal_text" => c.citable = TRUE /\ e.exact /\ e.shown BY <1>3, <2>3
  <2> HIDE DEF c
  <2>5. DOMAIN With(c, e) = DOMAIN c \cup DOMAIN e BY DEF With
  <2>6. /\ \A x \in EvidenceColumns \cup {"spans"} : With(c, e)[x] = e[x]
        /\ With(c, e).authority = c.authority /\ With(c, e).citable = c.citable
        BY <2>1, <2>2 DEF With, IsEvidence, EvidenceColumns, Stands
  <2>7. /\ With(c, e).unit = e.unit /\ With(c, e).role = e.role /\ With(c, e).exact = e.exact
        /\ With(c, e).boxes = e.boxes /\ With(c, e).shown = e.shown /\ With(c, e).spans = e.spans
        BY <2>6 DEF EvidenceColumns
  <2>8. IsEvidence(r, units, With(c, e)) /\ Stands(With(c, e)) BY <2>1, <2>5, <2>7 DEF IsEvidence, Stands
  <2>9. SpeaksCitably(With(c, e)) BY <2>2, <2>4, <2>5, <2>6, <2>7 DEF SpeaksCitably
  <2>10. Fit(With(c, e)) <=> Fit(e) BY <2>7 DEF Fit
  <2> QED BY <2>7, <2>8, <2>9, <2>10 DEF c
<1> HIDE DEF A
<1>5. OneForEach(evidence) => OneForEach({A(e) : e \in evidence}) BY <1>4 DEF OneForEach
<1> QED BY <1>1, <1>4, <1>5 DEF EvidenceOfAll, PublishedAll

\* The authority contract changes no quote, no boxes and no lines.
LEMMA AuthorizedSays ==
    ASSUME NEW d, NEW units, NEW evidence, EvidenceOfAll(d.role, units, evidence), QuotesSay(units, evidence),
           \A e \in evidence : Stands(e) /\ SaysItsBoxes(d.role, e) /\ SpansSay(d, e)
    PROVE  /\ QuotesSay(units, AuthorityEvidence(evidence, units))
           /\ \A e \in AuthorityEvidence(evidence, units) : SaysItsBoxes(d.role, e) /\ SpansSay(d, e)
<1> DEFINE Unit(e) == CHOOSE u \in units : u.id = e.unit
           Citable1(e) == /\ e.exact /\ e.shown /\ ~Unit(e).anomaly
                          /\ RoleOf(Unit(e)) # "structural_heading" /\ Unit(e).type \notin InstrumentTypes
           Columns(e) == [authority |-> EvidenceAuthority(e, Unit(e)), citable |-> Citable1(e),
                          quotable |-> Citable1(e) /\ EvidenceAuthority(e, Unit(e)) = "normative_legal_text"]
           A(e) == With(Columns(e), e)
<1>1. AuthorityEvidence(evidence, units) = {A(e) : e \in evidence} BY DEF AuthorityEvidence
<1>2. \A e : DOMAIN Columns(e) = {"authority", "citable", "quotable"} OBVIOUS
<1> HIDE DEF Columns
<1>3. ASSUME NEW e \in evidence
      PROVE  A(e).unit = e.unit /\ A(e).boxes = e.boxes /\ A(e).quote = e.quote /\ A(e).spans = e.spans
  <2>1. {"unit", "boxes", "quote", "spans"} \subseteq DOMAIN e
        BY DEF EvidenceOfAll, IsEvidence, EvidenceColumns, Stands
  <2> DEFINE c == Columns(e)
  <2>2. DOMAIN c = {"authority", "citable", "quotable"} BY <1>2
  <2> HIDE DEF c
  <2>3. /\ With(c, e).unit = e.unit /\ With(c, e).boxes = e.boxes /\ With(c, e).quote = e.quote
        /\ With(c, e).spans = e.spans
        BY <2>1, <2>2 DEF With
  <2> QED BY <2>3 DEF c
<1> HIDE DEF A
<1>4. QuotesSay(units, {A(e) : e \in evidence}) BY <1>3 DEF QuotesSay
<1>5. \A e \in evidence : SaysItsBoxes(d.role, A(e)) /\ SpansSay(d, A(e)) BY <1>3 DEF SaysItsBoxes, SpansSay
<1> QED BY <1>1, <1>4, <1>5

------------------------------------------------------------------------------
(* Support *)

EvidenceOwner(e) ==
    Owner("evidence", [id |-> e.unit, role |-> e.role], ToSet(e.spans), e.authority, e.citable, e.shown)

\* A line of the law is owned by evidence: of the candidates there is one that has the
\* fewest lines and, of those, the smallest name.
LEMMA OwnerIsEvidence ==
    ASSUME NEW evidence, NEW metadata, NEW conflicts,
           \A e \in evidence : Stands(e) /\ \E n \in Nat : e.unit = <<e.role, n>>,
           NEW s, s.force = "canonical_normative",
           SelectOwner(s, CanonicalOwners(evidence, metadata, conflicts)) # {}
    PROVE  \E e \in evidence : /\ SelectOwner(s, CanonicalOwners(evidence, metadata, conflicts)) = {EvidenceOwner(e)}
                               /\ Compatible(s, EvidenceOwner(e))
<1> DEFINE owners == CanonicalOwners(evidence, metadata, conflicts)
           candidates == {o \in owners : Compatible(s, o)}
           Size(o) == Cardinality(o.spans)
           Before(o, p) == IF Size(o) # Size(p) THEN Size(o) < Size(p)
                           ELSE IF Rank(o) # Rank(p) THEN Rank(o) < Rank(p)
                           ELSE o.kind = "evidence" => o.id[2] <= p.id[2]
           chosen == CHOOSE o \in candidates : \A p \in candidates \ {o} : Before(o, p)
<1>1. SelectOwner(s, owners) = IF candidates = {} THEN {} ELSE {chosen} BY DEF SelectOwner
<1>2. candidates # {} BY <1>1
<1>3. ASSUME NEW o \in candidates PROVE \E e \in evidence : o = EvidenceOwner(e)
  <2>1. Compatible(s, o) /\ o \in owners OBVIOUS
  <2>2. "canonical_normative" \in CompatibleForces(o.authority) BY <2>1 DEF Compatible
  <2>3. o.authority # "metadata" /\ o.authority # "source_anomaly_provenance" BY <2>2 DEF CompatibleForces
  <2>4. \A m : Owner("metadata", m, ToSet(m.spans), "metadata", FALSE, m.exact).authority = "metadata"
        BY DEF Owner
  <2>5. \A c : Owner("conflict", c, ToSet(c.spans), "source_anomaly_provenance", FALSE, TRUE).authority
                   = "source_anomaly_provenance"
        BY DEF Owner
  <2> QED BY <2>1, <2>3, <2>4, <2>5 DEF CanonicalOwners, EvidenceOwner
<1>4. ASSUME NEW o \in candidates
      PROVE  o.kind = "evidence" /\ Rank(o) = 2 /\ Size(o) \in Nat /\ o.id[2] \in Nat
  <2>1. PICK e \in evidence : o = EvidenceOwner(e) BY <1>3
  <2>2. o.kind = "evidence" /\ o.spans = ToSet(e.spans) /\ o.id = e.unit BY <2>1 DEF EvidenceOwner, Owner
  <2>3. Size(o) \in Nat BY <2>2, FS_CardinalityType DEF Stands
  <2>4. o.id[2] \in Nat BY <2>2
  <2>5. Rank(o) = 2 BY <2>2 DEF Rank
  <2> QED BY <2>2, <2>3, <2>4, <2>5
<1> HIDE DEF candidates, Size
<1> DEFINE sizes == {Size(o) : o \in candidates}
<1>5. PICK x \in sizes : \A y \in sizes : x <= y
  <2>1. sizes \subseteq Nat /\ sizes # {} BY <1>2, <1>4
  <2> HIDE DEF sizes
  <2> QED BY <2>1, LeastNumber
<1> DEFINE smallest == {o \in candidates : Size(o) = x}
           numbers == {o.id[2] : o \in smallest}
<1>6. PICK m \in numbers : \A y \in numbers : m <= y
  <2>1. numbers \subseteq Nat /\ numbers # {} BY <1>4, <1>5
  <2> HIDE DEF numbers
  <2> QED BY <2>1, LeastNumber
<1>7. PICK o \in smallest : o.id[2] = m BY <1>6
<1>8. ASSUME NEW p \in candidates PROVE Before(o, p)
  <2>1. x <= Size(p) /\ Size(o) = x /\ Size(p) \in Nat /\ x \in Nat BY <1>4, <1>5, <1>7
  <2>2. Rank(o) = Rank(p) BY <1>4, <1>7
  <2>3. CASE Size(p) = x
    <3>1. p \in smallest BY <2>3
    <3>2. o.id[2] <= p.id[2] BY <1>6, <1>7, <3>1
    <3> QED BY <2>1, <2>2, <2>3, <3>2
  <2>4. CASE Size(p) # x
    <3>1. Size(o) # Size(p) BY <2>1, <2>4
    <3>2. x < Size(p) BY <2>1, <2>4
    <3> QED BY <2>1, <3>1, <3>2
  <2> QED BY <2>3, <2>4
<1>9. \E q \in candidates : \A p \in candidates \ {q} : Before(q, p) BY <1>7, <1>8
<1>10. chosen \in candidates
  <2> HIDE DEF Before
  <2> QED BY <1>9
<1> HIDE DEF chosen
<1>11. PICK e \in evidence : chosen = EvidenceOwner(e) BY <1>3, <1>10
<1>12. Compatible(s, chosen) BY <1>10 DEF candidates
<1> QED BY <1>1, <1>2, <1>11, <1>12

\* What the build of the support starts from.
ReadyToSupport(r, spans, evidence, reviews, owners) ==
    /\ IsPage(r, spans) /\ \A s \in ToSet(spans) : IsAuthorized(s)
    /\ \A e \in evidence : Stands(e) /\ SpeaksCitably(e) /\ \E n \in Nat : e.unit = <<e.role, n>>
    /\ \A v \in reviews : v.authority = "normative_legal_text" => v.excluded
    /\ \A s \in Meaningful(ToSet(spans), reviews) : OwnersOfSpan(s, reviews, owners) # {}

\* What evidence of the current law may publish is published.
Retrievable(r, evidence, retrieval) ==
    r = "current" => \A e \in evidence : e.role = r /\ Fit(e) =>
                         \E w \in retrieval : w.evidence = e.unit /\ w.spans = e.spans

\* What the rows of the meaningful support of a page have to be: AnswerIsCitable and NoLawLost.
Supported(rows, spans, reviews, retrieval) ==
    /\ \A row \in rows : row.answer =>
           row.citation /\ \E w \in retrieval : w.evidence = row.id /\ row.lines \subseteq ToSet(w.spans)
    /\ \A s \in ToSet(spans) : s.force = "canonical_normative" /\ ReviewOf(s, reviews) = {} =>
           \E row \in rows : s.id[2] \in row.lines /\ row.answer

\* The run of a lawful line belongs to one evidence, so that all of it is published; the
\* line itself is in a run that may be an answer.
LEMMA SupportFacts ==
    ASSUME NEW d, NEW r, NEW spans, NEW evidence, NEW metadata, NEW conflicts, NEW reviews, NEW raw, NEW retrieval,
           ReadyToSupport(r, spans, evidence, reviews, CanonicalOwners(evidence, metadata, conflicts)),
           Retrievable(r, evidence, retrieval)
    PROVE  Supported(MeaningfulSupport(d, spans, raw, reviews, CanonicalOwners(evidence, metadata, conflicts)),
                     spans, reviews, retrieval)
<1> DEFINE owners == CanonicalOwners(evidence, metadata, conflicts)
           meant == Meaningful(ToSet(spans), reviews)
           OwnerIs(s) == CHOOSE o \in OwnersOfSpan(s, reviews, owners) : TRUE
           Alike(s, t) == OwnerIs(s) = OwnerIs(t) /\ s.role = t.role /\ s.force = t.force
           Between(q, s, t) == \/ s.id[2] <= q.id[2] /\ q.id[2] <= t.id[2]
                               \/ t.id[2] <= q.id[2] /\ q.id[2] <= s.id[2]
           Run(s, t) == \A q \in ToSet(spans) : Between(q, s, t) => q \in meant /\ Alike(q, s)
           Excluded1(s) == \E v \in ReviewOf(s, reviews) : v.excluded
           First(segment) == CHOOSE s \in segment : TRUE
           Boxes(segment) == IF Excluded1(First(segment)) THEN {} ELSE SegmentBoxes(d, segment, raw)
           Row(segment) ==
               [owner |-> OwnerIs(First(segment)).kind, id |-> OwnerIs(First(segment)).id, role |-> d.role,
                lines |-> {t.id[2] : t \in segment},
                boxes |-> Boxes(segment), highlight |-> Boxes(segment) # {} /\ OwnerIs(First(segment)).shown,
                answer |-> /\ ~Excluded1(First(segment)) /\ OwnerIs(First(segment)).authority = "normative_legal_text"
                           /\ First(segment).force = "canonical_normative",
                citation |-> ~Excluded1(First(segment)) /\ OwnerIs(First(segment)).kind = "evidence"
                             /\ OwnerIs(First(segment)).citable]
           rows == MeaningfulSupport(d, spans, raw, reviews, owners)
           Lawful(s) == s \in meant /\ s.force = "canonical_normative" /\ ReviewOf(s, reviews) = {}
           Segment(s) == {t \in meant : Run(s, t)}
<1>1. rows = {Row(segment) : segment \in {Segment(s) : s \in meant}} BY DEF MeaningfulSupport
<1>2. /\ \A s \in ToSet(spans) : IsSpan(r, s) /\ IsAuthorized(s)
      /\ \A s, t \in ToSet(spans) : s.id[2] = t.id[2] => s = t
      BY DEF ReadyToSupport, IsPage, ToSet
<1>3. meant \subseteq ToSet(spans) BY DEF Meaningful
<1>4. \A s \in meant : OwnersOfSpan(s, reviews, owners) # {} BY DEF ReadyToSupport
<1>5. \A s \in meant : OwnerIs(s) \in OwnersOfSpan(s, reviews, owners) BY <1>4
<1> HIDE DEF OwnerIs, rows, meant
<1>6. ASSUME NEW s \in meant, ReviewOf(s, reviews) # {}
      PROVE  /\ OwnerIs(s).kind = "review"
             /\ OwnerIs(s).authority = "normative_legal_text" => Excluded1(s)
  <2>1. PICK v \in ReviewOf(s, reviews) :
            OwnerIs(s) = Owner("review", [id |-> <<v.role, v.line>>, role |-> v.role], {v.line}, v.authority, FALSE, TRUE)
        BY <1>5, <1>6 DEF OwnersOfSpan
  <2>2. OwnerIs(s).kind = "review" /\ OwnerIs(s).authority = v.authority BY <2>1 DEF Owner
  <2>3. v \in reviews BY DEF ReviewOf
  <2>4. v.authority = "normative_legal_text" => v.excluded BY <2>3 DEF ReadyToSupport
  <2> QED BY <2>2, <2>4
<1>7. ASSUME NEW s \in meant, Lawful(s)
      PROVE  \E e \in evidence : OwnerIs(s) = EvidenceOwner(e) /\ e.role = r /\ Fit(e) /\ e.citable = TRUE
                                 /\ e.authority = "normative_legal_text" /\ s.id[2] \in ToSet(e.spans) /\ r = "current"
  <2>1. SelectOwner(s, owners) # {} /\ OwnerIs(s) \in SelectOwner(s, owners)
        BY <1>4, <1>5, <1>7 DEF OwnersOfSpan
  <2>2. \A e \in evidence : Stands(e) /\ SpeaksCitably(e) /\ \E n \in Nat : e.unit = <<e.role, n>>
        BY DEF ReadyToSupport
  <2>3. PICK e \in evidence : SelectOwner(s, owners) = {EvidenceOwner(e)} /\ Compatible(s, EvidenceOwner(e))
        BY <1>7, <2>1, <2>2, OwnerIsEvidence
  <2>4. OwnerIs(s) = EvidenceOwner(e) BY <2>1, <2>3
  <2> DEFINE o == EvidenceOwner(e)
  <2>5. o.kind = "evidence" /\ o.role = e.role /\ o.spans = ToSet(e.spans) /\ o.authority = e.authority
        BY DEF EvidenceOwner, Owner
  <2>6. Compatible(s, o) BY <2>3
  <2> HIDE DEF o
  <2>7. e.role = s.source /\ s.id[2] \in ToSet(e.spans) /\ e.authority = s.authority
        BY <2>5, <2>6 DEF Compatible
  <2>8. IsSpan(r, s) /\ IsAuthorized(s) BY <1>2, <1>3
  <2>9. s.source = r /\ r = "current" /\ s.authority = "normative_legal_text"
        BY <1>7, <2>8 DEF IsSpan, IsAuthorized
  <2>10. e.citable = TRUE /\ e.exact /\ e.shown BY <2>2, <2>7, <2>9 DEF SpeaksCitably
  <2>11. e.spans # <<>> BY <2>7, ShortLists
  <2> QED BY <2>4, <2>7, <2>9, <2>10, <2>11 DEF Fit
<1> HIDE DEF Excluded1
<1>8. \A s \in meant : s.id[2] \in Nat BY <1>2, <1>3 DEF IsSpan
<1>9. ASSUME NEW s \in meant PROVE s \in Segment(s)
  <2> SUFFICES ASSUME NEW q \in ToSet(spans), Between(q, s, s) PROVE q \in meant /\ Alike(q, s) OBVIOUS
  <2>1. q.id[2] \in Nat /\ s.id[2] \in Nat BY <1>2, <1>8 DEF IsSpan
  <2>2. q.id[2] = s.id[2] BY <2>1
  <2>3. q = s BY <1>2, <1>3, <2>2
  <2> QED BY <2>3
<1>10. ASSUME NEW s \in meant, NEW t \in Segment(s) PROVE t \in meant /\ Alike(t, s)
  <2>1. t \in meant /\ t \in ToSet(spans) BY <1>3
  <2>2. Between(t, s, t) BY <1>8, <2>1
  <2> QED BY <2>1, <2>2
<1> HIDE DEF Run, Segment
<1>11. \A s \in meant : First(Segment(s)) \in Segment(s) BY <1>9
<1> HIDE DEF First
<1>12. ASSUME NEW s \in meant
       PROVE  LET row == Row(Segment(s))
              IN  /\ row.lines = {t.id[2] : t \in Segment(s)} /\ row.id = OwnerIs(First(Segment(s))).id
                  /\ row.answer <=> /\ ~Excluded1(First(Segment(s)))
                                    /\ OwnerIs(First(Segment(s))).authority = "normative_legal_text"
                                    /\ First(Segment(s)).force = "canonical_normative"
                  /\ row.citation <=> /\ ~Excluded1(First(Segment(s)))
                                      /\ OwnerIs(First(Segment(s))).kind = "evidence"
                                      /\ OwnerIs(First(Segment(s))).citable
       OBVIOUS
<1> HIDE DEF Row
<1>13. ASSUME NEW row \in rows, row.answer
       PROVE  row.citation /\ \E w \in retrieval : w.evidence = row.id /\ row.lines \subseteq ToSet(w.spans)
  <2>1. PICK s \in meant : row = Row(Segment(s)) BY <1>1
  <2> DEFINE f == First(Segment(s))
  <2>2. f \in Segment(s) /\ f \in meant /\ Alike(f, s) BY <1>10, <1>11
  <2>3. /\ ~Excluded1(f) /\ OwnerIs(f).authority = "normative_legal_text" /\ f.force = "canonical_normative"
        /\ row.lines = {t.id[2] : t \in Segment(s)} /\ row.id = OwnerIs(f).id
        /\ row.citation <=> ~Excluded1(f) /\ OwnerIs(f).kind = "evidence" /\ OwnerIs(f).citable
        BY <1>12, <1>13, <2>1
  <2> HIDE DEF f
  <2>4. Lawful(f) BY <1>6, <2>2, <2>3
  <2>5. PICK e \in evidence : OwnerIs(f) = EvidenceOwner(e) /\ e.role = r /\ Fit(e) /\ e.citable = TRUE /\ r = "current"
        BY <1>7, <2>2, <2>4
  <2>6. OwnerIs(f).kind = "evidence" /\ OwnerIs(f).citable = TRUE /\ OwnerIs(f).id = e.unit
        /\ OwnerIs(f).spans = ToSet(e.spans)
        BY <2>5 DEF EvidenceOwner, Owner
  <2>7. PICK w \in retrieval : w.evidence = e.unit /\ w.spans = e.spans BY <2>5 DEF Retrievable
  <2>8. ASSUME NEW t \in Segment(s) PROVE t.id[2] \in ToSet(w.spans)
    <3>1. t \in meant /\ OwnerIs(t) = OwnerIs(f) /\ t.force = f.force BY <1>10, <2>2
    <3>2. ReviewOf(t, reviews) = {} BY <1>6, <2>6, <3>1
    <3>3. Lawful(t) BY <2>3, <3>1, <3>2
    <3>4. PICK x \in evidence : OwnerIs(t) = EvidenceOwner(x) /\ t.id[2] \in ToSet(x.spans) BY <1>7, <3>1, <3>3
    <3>5. OwnerIs(t).spans = ToSet(x.spans) BY <3>4 DEF EvidenceOwner, Owner
    <3> QED BY <2>6, <2>7, <3>1, <3>4, <3>5
  <2> QED BY <2>3, <2>6, <2>7, <2>8
<1>14. ASSUME NEW s \in ToSet(spans), s.force = "canonical_normative", ReviewOf(s, reviews) = {}
       PROVE  \E row \in rows : s.id[2] \in row.lines /\ row.answer
  <2>1. s \in meant /\ Lawful(s) BY <1>14 DEF Meaningful, meant
  <2> DEFINE f == First(Segment(s))
             row == Row(Segment(s))
  <2>2. f \in Segment(s) /\ f \in meant /\ Alike(f, s) BY <1>10, <1>11, <2>1
  <2>3. /\ row.answer <=> /\ ~Excluded1(f) /\ OwnerIs(f).authority = "normative_legal_text"
                          /\ f.force = "canonical_normative"
        /\ row.lines = {t.id[2] : t \in Segment(s)}
        BY <1>12, <2>1
  <2>4. row \in rows BY <1>1, <2>1
  <2> HIDE DEF f, row
  <2>5. PICK e \in evidence : OwnerIs(s) = EvidenceOwner(e) /\ e.authority = "normative_legal_text"
        BY <1>7, <2>1
  <2>6. OwnerIs(f).kind = "evidence" /\ OwnerIs(f).authority = "normative_legal_text"
        BY <2>2, <2>5 DEF EvidenceOwner, Owner
  <2>7. ReviewOf(f, reviews) = {} BY <1>6, <2>2, <2>6
  <2>8. ~Excluded1(f) BY <2>7 DEF Excluded1
  <2>9. row.answer BY <2>2, <2>3, <2>6, <2>8, <1>14
  <2>10. s.id[2] \in row.lines BY <1>9, <2>1, <2>3
  <2> QED BY <2>4, <2>9, <2>10
<1> QED BY <1>13, <1>14 DEF rows, Supported

------------------------------------------------------------------------------
(* The graph *)

\* The rows a graph is built from belong to the documents.
Belong(D, units, evidence, conflicts) ==
    /\ "original" \in {d.role : d \in D}
    /\ \A u \in units : u.role \in {d.role : d \in D}
    /\ \A e \in evidence : e.role \in {d.role : d \in D} /\ \E u \in units : u.id = e.unit
    /\ \A c \in conflicts : c.role \in {d.role : d \in D}

\* An edge between nodes that is not the inverse of another.
EdgeColumns == {"type", "from", "to", "relation", "derived"}
IsEdgeOf(nodes, e) ==
    /\ DOMAIN e = EdgeColumns
    /\ e.from \in nodes /\ e.to \in nodes /\ e.derived = FALSE

\* An edge made of nodes leads from node to node.
LEMMA EdgeFacts ==
    ASSUME NEW nodes, NEW type, NEW a \in nodes, NEW b \in nodes, NEW relation
    PROVE  IsEdgeOf(nodes, Edge(type, a, b, relation))
BY DEF Edge, IsEdgeOf, EdgeColumns

\* A declared amendment leads from a unit to a unit, by whatever words it is declared.
LEMMA AmendmentFacts ==
    ASSUME NEW units, NEW evidence, \A e \in evidence : \E u \in units : u.id = e.unit,
           NEW a \in DeclaredAmendments(units, evidence)
    PROVE  /\ a.target \in units /\ \E u \in units : u.id = a.source
           /\ a.evidence \in evidence /\ a = Amends(a.type, a.evidence, a.source, a.target, a.mapping)
<1>1. \A label, role : Resolve(units, label, role) \subseteq units BY DEF Resolve
<1>2. PICK e \in evidence : a \in ModifiedBy(units, e) \/ a \in DeletedBy(units, e) \/ a \in RenamedBy(units, e)
      BY DEF DeclaredAmendments
<1>3. \A type, x, source, target, mapping :
          LET made == Amends(type, x, source, target, mapping)
          IN  /\ made.source = source /\ made.target = target /\ made.evidence = x
              /\ made = Amends(made.type, x, source, target, made.mapping)
      BY DEF Amends
<1>4. \A x, role : Aimed(units, x, role) \subseteq units BY <1>1 DEF Aimed
<1>5. CASE a \in ModifiedBy(units, e) BY <1>3, <1>4, <1>5 DEF ModifiedBy
<1>6. CASE a \in DeletedBy(units, e) BY <1>3, <1>4, <1>6 DEF DeletedBy
<1>7. CASE a \in RenamedBy(units, e)
  <2>1. PICK p : a \in TurnedInto(units, e, p) BY <1>7 DEF RenamedBy
  <2>2. PICK o \in Resolve(units, p.old, e.role), n \in Resolve(units, p.new, "current") :
            a = Amends("RENAMES", e, o.id, n, <<p.old, p.new>>)
        BY <2>1 DEF TurnedInto
  <2>3. o \in units /\ n \in units BY <1>1, <2>2
  <2> QED BY <1>3, <2>2, <2>3
<1> QED BY <1>2, <1>5, <1>6, <1>7

\* Every edge the builders make, of whatever kind, leads from node to node of the same rows.
LEMMA GraphFacts ==
    ASSUME NEW D, NEW units, NEW evidence, NEW metadata, NEW conflicts, Belong(D, units, evidence, conflicts)
    PROVE  \A e \in GraphEdges(D, units, evidence, metadata, conflicts) \cup DocumentRelations(D) :
               IsEdgeOf(GraphNodes(D, units, evidence, conflicts), e)
<1> DEFINE nodes == GraphNodes(D, units, evidence, conflicts)
           roles == {d.role : d \in D}
<1>1. \A r \in roles : RoleNode(r) \in nodes /\ Node("page", <<r>>) \in nodes BY DEF GraphNodes
<1>2. \A u \in units : UnitNode(u.id) \in nodes BY DEF GraphNodes
<1>3. \A e \in evidence :
          /\ Node("final_evidence", e.unit) \in nodes
          /\ \A b \in ToSet(e.boxes) : Node("bbox", <<b.role, b.place, b.at>>) \in nodes
      BY DEF GraphNodes
<1>4. \A c \in conflicts : Node("source_conflict", c.id) \in nodes BY DEF GraphNodes
<1>5. /\ "original" \in roles /\ \A u \in units : u.role \in roles
      /\ \A e \in evidence : e.role \in roles /\ \E u \in units : u.id = e.unit
      /\ \A c \in conflicts : c.role \in roles
      BY DEF Belong
<1> HIDE DEF nodes, roles
<1>6. \A e \in evidence : UnitNode(e.unit) \in nodes BY <1>2, <1>5
<1>7. ASSUME NEW e \in ParentEdges(units) PROVE IsEdgeOf(nodes, e)
  <2>1. \E p \in units \X units : \/ e = Edge("CONTAINS", UnitNode(p[1].id), UnitNode(p[2].id), None)
                                  \/ e = Edge("PART_OF", UnitNode(p[2].id), UnitNode(p[1].id), None)
        BY DEF ParentEdges
  <2> QED BY <1>2, <2>1, EdgeFacts
<1>8. ASSUME NEW e \in SequenceEdges(D, units) PROVE IsEdgeOf(nodes, e)
  <2>1. \E p \in units \X units : \/ e = Edge("PRECEDES", UnitNode(p[1].id), UnitNode(p[2].id), None)
                                  \/ e = Edge("FOLLOWS", UnitNode(p[2].id), UnitNode(p[1].id), None)
                                  \/ e = Edge("INSERTED_AFTER", UnitNode(p[2].id), UnitNode(p[1].id), None)
        BY DEF SequenceEdges
  <2> QED BY <1>2, <2>1, EdgeFacts
<1>9. ASSUME NEW e \in EvidenceEdges(evidence) PROVE IsEdgeOf(nodes, e)
  <2>1. \E x \in evidence :
            \/ e = Edge("HAS_FINAL_EVIDENCE", UnitNode(x.unit), Node("final_evidence", x.unit), None)
            \/ e = Edge("BELONGS_TO_SOURCE_ROLE", Node("final_evidence", x.unit), RoleNode(x.role), None)
            \/ e = Edge("PAGE_GROUNDED_AT", Node("final_evidence", x.unit), Node("page", <<x.role>>), None)
            \/ \E b \in ToSet(x.boxes) :
                   e = Edge("HAS_BBOX", Node("final_evidence", x.unit), Node("bbox", <<b.role, b.place, b.at>>), None)
        BY DEF EvidenceEdges
  <2> QED BY <1>1, <1>3, <1>5, <1>6, <2>1, EdgeFacts
<1>10. ASSUME NEW e \in InstrumentEdges(units, evidence, metadata, conflicts) PROVE IsEdgeOf(nodes, e)
  <2>1. \/ \E u \in units : \/ e = Edge("HAS_SIGNATORY", RoleNode(u.role), UnitNode(u.id), None)
                            \/ e = Edge("HAS_DECISION_SESSION", RoleNode(u.role), UnitNode(u.id), None)
                            \/ e = Edge("HAS_EFFECTIVE_RULE", RoleNode(u.role), UnitNode(u.id), None)
        \/ \E c \in conflicts : e = Edge("HAS_SOURCE_ANOMALY", RoleNode(c.role), Node("source_conflict", c.id), None)
        BY DEF InstrumentEdges
  <2> QED BY <1>1, <1>2, <1>4, <1>5, <2>1, EdgeFacts
<1>11. ASSUME NEW e \in AmendmentEdges(units, evidence) PROVE IsEdgeOf(nodes, e)
  <2>1. PICK a \in DeclaredAmendments(units, evidence) :
            e = Edge(a.type, UnitNode(a.source), UnitNode(a.target.id), AmendmentId(a))
        BY DEF AmendmentEdges
  <2>2. a.target \in units /\ \E u \in units : u.id = a.source BY <1>5, AmendmentFacts
  <2> QED BY <1>2, <2>1, <2>2, EdgeFacts
<1>12. ASSUME NEW e \in DocumentRelations(D) PROVE IsEdgeOf(nodes, e)
  <2> DEFINE amending == roles \ {"current", "original"}
             Link(type, a, b) == Edge(type, RoleNode(a), RoleNode(b), <<type, a, b>>)
  <2>0. e \in {Link("AMENDS", a, "original") : a \in amending}
              \cup {Link("AMENDED_BY", "original", a) : a \in amending}
              \cup {Link("DERIVED_FROM", "current", "original") : a \in roles \cap {"current"}}
              \cup {Link("CONSOLIDATES", "current", a) : a \in {x \in amending : "current" \in roles}}
        BY DEF DocumentRelations, roles
  <2>1. \E a, b \in roles : \E type : e = Link(type, a, b)
    <3> HIDE DEF Link
    <3> QED BY <1>5, <2>0
  <2> QED BY <1>1, <2>1, EdgeFacts
<1> QED BY <1>7, <1>8, <1>9, <1>10, <1>11, <1>12 DEF GraphEdges, nodes

\* Inverses come in pairs.
LEMMA InverseInverse ==
    \A t \in DOMAIN InverseType : InverseType[t] \in DOMAIN InverseType /\ InverseType[InverseType[t]] = t
BY DEF InverseType

\* A set of edges that can be walked in both directions.
Closed(nodes, edges) ==
    \A e \in edges :
        /\ e.from \in nodes /\ e.to \in nodes
        /\ e.type \in DOMAIN InverseType =>
               \E f \in edges : f.type = InverseType[e.type] /\ f.from = e.to /\ f.to = e.from

\* The edges with the inverses that were not there are closed: of two edges with the same
\* ends and type one inverse is made, and it serves both.
LEMMA InversesMade ==
    ASSUME NEW nodes, NEW edges, \A e \in edges : IsEdgeOf(nodes, e)
    PROVE  Closed(nodes, MaterializeInverseEdges(edges))
<1> DEFINE Answered(e) == \E f \in edges : f.type = InverseType[e.type] /\ f.from = e.to /\ f.to = e.from
           open == {e \in edges : e.type \in DOMAIN InverseType /\ ~e.derived /\ ~Answered(e)}
           Key(e) == <<e.type, e.from, e.to>>
           Chosen(e) == CHOOSE f \in open : Key(f) = Key(e)
           first == {e \in open : e = Chosen(e)}
           all == MaterializeInverseEdges(edges)
<1>1. all = edges \cup {Turned(e) : e \in first} BY DEF MaterializeInverseEdges
<1> HIDE DEF all
<1>2. first \subseteq edges /\ \A e \in first : e.type \in DOMAIN InverseType OBVIOUS
<1>3. ASSUME NEW e \in edges
      PROVE  /\ Turned(e).type = InverseType[e.type] /\ Turned(e).from = e.to /\ Turned(e).to = e.from
             /\ e.from \in nodes /\ e.to \in nodes /\ e.derived = FALSE
  <2>1. IsEdgeOf(nodes, e) OBVIOUS
  <2> QED BY <2>1 DEF IsEdgeOf, Turned, EdgeColumns
<1>4. ASSUME NEW e \in edges, e.type \in DOMAIN InverseType
      PROVE  \E f \in all : f.type = InverseType[e.type] /\ f.from = e.to /\ f.to = e.from
  <2>1. CASE Answered(e) BY <1>1, <2>1
  <2>2. CASE ~Answered(e)
    <3>1. e \in open BY <1>3, <1>4, <2>2
    <3> HIDE DEF open
    <3> DEFINE g == Chosen(e)
    <3>2. g \in open /\ Key(g) = Key(e) BY <3>1
    <3>3. Chosen(g) = Chosen(e) BY <3>2
    <3> HIDE DEF Chosen
    <3>4. g \in first BY <3>2, <3>3
    <3>5. g.type = e.type /\ g.from = e.from /\ g.to = e.to BY <3>2
    <3>6. g \in edges BY <3>2 DEF open
    <3>7. Turned(g) \in all BY <1>1, <3>4
    <3> HIDE DEF g
    <3> QED BY <1>3, <3>5, <3>6, <3>7
  <2> QED BY <2>1, <2>2
<1> HIDE DEF first
<1>5. ASSUME NEW e \in first
      PROVE  /\ Turned(e).from \in nodes /\ Turned(e).to \in nodes
             /\ \E f \in all : f.type = InverseType[Turned(e).type] /\ f.from = Turned(e).to /\ f.to = Turned(e).from
  <2>1. e \in edges /\ e.type \in DOMAIN InverseType BY <1>2
  <2>2. InverseType[Turned(e).type] = e.type BY <1>3, <2>1, InverseInverse
  <2>3. e \in all BY <1>1, <2>1
  <2> QED BY <1>3, <2>1, <2>2, <2>3
<1>6. \A e \in edges : e.from \in nodes /\ e.to \in nodes BY <1>3
<1> QED BY <1>1, <1>4, <1>5, <1>6 DEF Closed, all

\* The name of a relation between articles; edges that lead where their relations do.
RelationName(id) == \E a, b, c, d, e : id = <<a, b, c, d, e>>
RelationsNamed(relations) == \A a \in relations : RelationName(a.id)
Leading(edges, relations) == \A e \in edges, a \in relations : e.relation = a.id => Leads(e, a)

\* The name of an amendment tells what it amends.
LEMMA AmendmentNames ==
    ASSUME NEW a, NEW b, AmendmentId(a) = AmendmentId(b)
    PROVE  /\ a.type = b.type /\ a.source = b.source /\ a.target.id = b.target.id
           /\ a.evidence.unit = b.evidence.unit /\ a.mapping = b.mapping
BY DEF AmendmentId

\* No two relations have one name, where no two rows they are made from do.
LEMMA RelationFacts ==
    ASSUME NEW D, NEW units, NEW evidence, \A e \in evidence : \E u \in units : u.id = e.unit,
           OneEach(units), OneForEach(evidence)
    PROVE  OneEach(ArticleRelations(D, units, evidence)) /\ RelationsNamed(ArticleRelations(D, units, evidence))
<1> DEFINE Made(a) == ArticleRelation(CHOOSE d \in D : d.role = a.evidence.role, a)
<1>1. \A x \in ArticleRelations(D, units, evidence) : \E a \in DeclaredAmendments(units, evidence) : x = Made(a)
      BY DEF ArticleRelations
<1>2. \A a : Made(a).id = AmendmentId(a) BY DEF ArticleRelation
<1> HIDE DEF Made
<1>3. ASSUME NEW a \in DeclaredAmendments(units, evidence), NEW b \in DeclaredAmendments(units, evidence),
             AmendmentId(a) = AmendmentId(b)
      PROVE  a = b
  <2>1. /\ a.type = b.type /\ a.source = b.source /\ a.target.id = b.target.id
        /\ a.evidence.unit = b.evidence.unit /\ a.mapping = b.mapping
        BY <1>3, AmendmentNames
  <2>2. /\ a.target \in units /\ a.evidence \in evidence
        /\ a = Amends(a.type, a.evidence, a.source, a.target, a.mapping)
        BY AmendmentFacts
  <2>3. /\ b.target \in units /\ b.evidence \in evidence
        /\ b = Amends(b.type, b.evidence, b.source, b.target, b.mapping)
        BY AmendmentFacts
  <2>4. a.target = b.target /\ a.evidence = b.evidence BY <2>1, <2>2, <2>3 DEF OneEach, OneForEach
  <2> QED BY <2>1, <2>2, <2>3, <2>4
<1>4. OneEach(ArticleRelations(D, units, evidence)) BY <1>1, <1>2, <1>3 DEF OneEach
<1>5. \A a : RelationName(AmendmentId(a)) BY DEF AmendmentId, RelationName
<1> QED BY <1>1, <1>2, <1>4, <1>5 DEF RelationsNamed

\* The edges of the structure and those between documents have no relation between articles.
LEMMA PlainEdges ==
    ASSUME NEW D, NEW units, NEW evidence, NEW metadata, NEW conflicts
    PROVE  \A e \in GraphEdges(D, units, evidence, metadata, conflicts) \cup DocumentRelations(D) :
               e \in AmendmentEdges(units, evidence) \/ ~RelationName(e.relation)
<1>1. \A type, x, y, relation : Edge(type, x, y, relation).relation = relation BY DEF Edge
<1>2. ~RelationName(None) BY DEF RelationName, None
<1>3. ASSUME NEW a, NEW b, NEW c PROVE ~RelationName(<<a, b, c>>)
  <2> SUFFICES ASSUME NEW v, NEW w, NEW x, NEW y, NEW z, <<a, b, c>> = <<v, w, x, y, z>> PROVE FALSE
      BY DEF RelationName
  <2>1. DOMAIN <<a, b, c>> = 1 .. 3 /\ DOMAIN <<v, w, x, y, z>> = 1 .. 5 OBVIOUS
  <2>2. 5 \in 1 .. 5 /\ 5 \notin 1 .. 3 OBVIOUS
  <2> QED BY <2>1, <2>2
<1>4. \A e \in ParentEdges(units) : e.relation = None BY <1>1 DEF ParentEdges
<1>5. \A e \in SequenceEdges(D, units) : e.relation = None BY <1>1 DEF SequenceEdges
<1>6. ASSUME NEW e \in EvidenceEdges(evidence) PROVE e.relation = None
  <2>1. \E type, x, y : e = Edge(type, x, y, None) BY DEF EvidenceEdges
  <2> QED BY <1>1, <2>1
<1>7. \A e \in InstrumentEdges(units, evidence, metadata, conflicts) : e.relation = None
      BY <1>1 DEF InstrumentEdges
<1>8. ASSUME NEW e \in DocumentRelations(D) PROVE ~RelationName(e.relation)
  <2> DEFINE Link(type, a, b) == Edge(type, RoleNode(a), RoleNode(b), <<type, a, b>>)
  <2>1. ASSUME NEW type, NEW a, NEW b PROVE ~RelationName(Link(type, a, b).relation)
    <3>1. Link(type, a, b).relation = <<type, a, b>> BY <1>1
    <3>2. ~RelationName(<<type, a, b>>) BY <1>3
    <3> QED BY <3>1, <3>2
  <2>2. \E type, a, b : e = Link(type, a, b)
    <3> DEFINE roles == {d.role : d \in D}
               amending == roles \ {"current", "original"}
    <3>1. e \in {Link("AMENDS", a, "original") : a \in amending}
                \cup {Link("AMENDED_BY", "original", a) : a \in amending}
                \cup {Link("DERIVED_FROM", "current", "original") : a \in roles \cap {"current"}}
                \cup {Link("CONSOLIDATES", "current", a) : a \in {x \in amending : "current" \in roles}}
          BY DEF DocumentRelations
    <3> HIDE DEF Link, roles, amending
    <3> QED BY <3>1
  <2> QED BY <2>1, <2>2
<1>9. ASSUME NEW e \in GraphEdges(D, units, evidence, metadata, conflicts)
      PROVE  e \in AmendmentEdges(units, evidence) \/ e.relation = None
      BY <1>4, <1>5, <1>6, <1>7 DEF GraphEdges
<1> QED BY <1>2, <1>8, <1>9

\* An edge that has the name of a relation leads where the relation does.
LEMMA EdgesLead ==
    ASSUME NEW D, NEW units, NEW evidence, NEW metadata, NEW conflicts
    PROVE  Leading(GraphEdges(D, units, evidence, metadata, conflicts) \cup DocumentRelations(D),
                   ArticleRelations(D, units, evidence))
<1> SUFFICES ASSUME NEW e \in GraphEdges(D, units, evidence, metadata, conflicts) \cup DocumentRelations(D),
                    NEW x \in ArticleRelations(D, units, evidence), e.relation = x.id
             PROVE  Leads(e, x)
    BY DEF Leading
<1>1. PICK b : x.id = AmendmentId(b) /\ x.source = b.source /\ x.target = b.target.id
  <2>1. PICK b : x = ArticleRelation(CHOOSE d \in D : d.role = b.evidence.role, b) BY DEF ArticleRelations
  <2>2. \A d : /\ ArticleRelation(d, b).id = AmendmentId(b) /\ ArticleRelation(d, b).source = b.source
               /\ ArticleRelation(d, b).target = b.target.id
        BY DEF ArticleRelation
  <2> QED BY <2>1, <2>2
<1>2. RelationName(e.relation) BY <1>1 DEF AmendmentId, RelationName
<1>3. e \in AmendmentEdges(units, evidence) BY <1>2, PlainEdges
<1>4. PICK a : e = Edge(a.type, UnitNode(a.source), UnitNode(a.target.id), AmendmentId(a))
      BY <1>3 DEF AmendmentEdges
<1>5. /\ e.from = UnitNode(a.source) /\ e.to = UnitNode(a.target.id) /\ e.relation = AmendmentId(a)
      /\ e.derived = FALSE
      BY <1>4 DEF Edge
<1>6. a.source = b.source /\ a.target.id = b.target.id BY <1>1, <1>5, AmendmentNames
<1> QED BY <1>1, <1>5, <1>6 DEF Leads

\* The inverse of an edge that leads where its relation does leads back.
LEMMA InversesLead ==
    ASSUME NEW nodes, NEW edges, \A e \in edges : IsEdgeOf(nodes, e), NEW relations, Leading(edges, relations)
    PROVE  /\ Leading(MaterializeInverseEdges(edges), relations)
           /\ \A e \in MaterializeInverseEdges(edges) : EdgeColumns \subseteq DOMAIN e
<1>1. \A e \in MaterializeInverseEdges(edges) : e \in edges \/ \E f \in edges : e = Turned(f)
      BY DEF MaterializeInverseEdges
<1>2. ASSUME NEW f \in edges
      PROVE  /\ Turned(f).from = f.to /\ Turned(f).to = f.from /\ Turned(f).relation = f.relation
             /\ Turned(f).derived = TRUE /\ f.derived = FALSE /\ EdgeColumns \subseteq DOMAIN Turned(f) /\ EdgeColumns \subseteq DOMAIN f
  <2>1. IsEdgeOf(nodes, f) OBVIOUS
  <2> QED BY <2>1 DEF IsEdgeOf, Turned, EdgeColumns
<1>3. ASSUME NEW f \in edges, NEW a \in relations, f.relation = a.id PROVE Leads(Turned(f), a)
  <2>1. Leads(f, a) BY <1>3 DEF Leading
  <2> QED BY <1>2, <2>1 DEF Leads
<1>4. ASSUME NEW e \in MaterializeInverseEdges(edges), NEW a \in relations, e.relation = a.id PROVE Leads(e, a)
  <2>1. CASE e \in edges BY <1>4, <2>1 DEF Leading
  <2>2. CASE \E f \in edges : e = Turned(f) BY <1>2, <1>3, <1>4, <2>2
  <2> QED BY <1>1, <2>1, <2>2
<1>5. Leading(MaterializeInverseEdges(edges), relations) BY <1>4 DEF Leading
<1> QED BY <1>1, <1>2, <1>5

------------------------------------------------------------------------------
(* The decisions *)

\* Every row that needs a decision.
Needing(role, evidence, metadata, relations) ==
    {e.unit : e \in {e \in evidence : NeedsDecision(e)}}
    \cup {m.id : m \in {m \in metadata : ~m.exact}}
    \cup {<<b.role, b.place, b.at>> : b \in {b \in UNION {ToSet(e.boxes) : e \in evidence} : ~b.exact}}
    \cup {a.id : a \in {a \in relations : a.role = role}}

\* Every row of metadata is named by its document, its field and its place among several.
MetadataName(id) == \E a, b, c : id = <<a, b, c>>
MetadataNamed(metadata) == \A m \in metadata : MetadataName(m.id)

\* What needs a decision has one, and no two decisions are about one name.
LEMMA DecisionFacts ==
    ASSUME NEW d, NEW evidence, NEW metadata, NEW relations,
           \A e \in evidence : \E n \in Nat : e.unit = <<d.role, n>>,
           OneForEach(evidence), MetadataNamed(metadata), OneEach(relations), RelationsNamed(relations)
    PROVE  /\ OneEach(PromotionDecisions(d, evidence, metadata, relations))
           /\ {x.id : x \in PromotionDecisions(d, evidence, metadata, relations)}
                  = Needing(d.role, evidence, metadata, relations)
<1> DEFINE Decided(id, decision, proven) == [id |-> id, decision |-> decision, proven |-> proven]
           Decide(id, proven, candidate) ==
               Decided(id, IF ~proven THEN "keep_non_exact" ELSE IF candidate THEN "recovered_exact" ELSE "already_exact", proven)
           OfEvidence(e) == Decide(e.unit, e.exact /\ e.shown /\ CanBeExact(d, e.quote, e.spans, e.boxes), e.candidate)
           Withheld(id) == Decided(id, "keep_non_exact", FALSE)
           OfRelation(a) == Decided(a.id, IF a.exact THEN "promote_exact" ELSE "keep_non_exact", a.spans # <<>> /\ a.words # {})
           E == {e \in evidence : NeedsDecision(e)}
           M == {m \in metadata : ~m.exact}
           B == {b \in UNION {ToSet(e.boxes) : e \in evidence} : ~b.exact}
           A == {a \in relations : a.role = d.role}
           Box(b) == <<b.role, b.place, b.at>>
           all == PromotionDecisions(d, evidence, metadata, relations)
<1>1. \A m \in M : Decide(m.id, m.exact /\ CanBeExact(d, m.quote, m.spans, m.boxes), FALSE) = Withheld(m.id) OBVIOUS
<1>2. all = {OfEvidence(e) : e \in E} \cup {Withheld(m.id) : m \in M} \cup {Withheld(Box(b)) : b \in B}
            \cup {OfRelation(a) : a \in A}
      BY <1>1 DEF PromotionDecisions
<1>3. /\ \A e : OfEvidence(e).id = e.unit
      /\ \A id : Withheld(id).id = id
      /\ \A a : OfRelation(a).id = a.id
      OBVIOUS
<1>4. /\ \A e \in E : \E n \in Nat : e.unit = <<d.role, n>>
      /\ \A e, f \in E : e.unit = f.unit => e = f
      /\ \A m \in M : MetadataName(m.id)
      /\ \A b : MetadataName(Box(b))
      /\ \A a \in A : RelationName(a.id)
      /\ \A a, b \in A : a.id = b.id => a = b
      BY DEF OneForEach, OneEach, MetadataNamed, RelationsNamed, MetadataName
<1>5. {x.id : x \in all} = Needing(d.role, evidence, metadata, relations)
  <2> HIDE DEF OfEvidence, Withheld, OfRelation, all
  <2> DEFINE ids == {e.unit : e \in E} \cup {m.id : m \in M} \cup {Box(b) : b \in B} \cup {a.id : a \in A}
  <2>1. ids = Needing(d.role, evidence, metadata, relations) BY DEF Needing
  <2> HIDE DEF E, M, B, A, Box
  <2>2. ASSUME NEW x \in all PROVE x.id \in ids
    <3>1. CASE \E e \in E : x = OfEvidence(e) BY <1>3, <3>1
    <3>2. CASE \E m \in M : x = Withheld(m.id) BY <1>3, <3>2
    <3>3. CASE \E b \in B : x = Withheld(Box(b)) BY <1>3, <3>3
    <3>4. CASE \E a \in A : x = OfRelation(a) BY <1>3, <3>4
    <3> QED BY <1>2, <3>1, <3>2, <3>3, <3>4
  <2>3. ASSUME NEW i \in ids PROVE \E x \in all : x.id = i
    <3>1. CASE i \in {e.unit : e \in E} BY <1>2, <1>3, <3>1
    <3>2. CASE i \in {m.id : m \in M} BY <1>2, <1>3, <3>2
    <3>3. CASE i \in {Box(b) : b \in B} BY <1>2, <1>3, <3>3
    <3>4. CASE i \in {a.id : a \in A} BY <1>2, <1>3, <3>4
    <3> QED BY <3>1, <3>2, <3>3, <3>4
  <2> HIDE DEF ids
  <2>4. {x.id : x \in all} = ids BY <2>2, <2>3
  <2> QED BY <2>1, <2>4
<1> HIDE DEF E, M, B, A, OfEvidence, Withheld, OfRelation, Box, all
<1>6. ASSUME NEW n, NEW id
      PROVE  /\ id = <<d.role, n>> => ~MetadataName(id) /\ ~RelationName(id)
             /\ MetadataName(id) => ~RelationName(id)
  <2>1. ASSUME NEW a, NEW b, NEW c, NEW v, NEW w, NEW x, NEW y, NEW z
        PROVE  /\ <<d.role, n>> # <<a, b, c>> /\ <<d.role, n>> # <<v, w, x, y, z>>
               /\ <<a, b, c>> # <<v, w, x, y, z>>
    <3>1. /\ DOMAIN <<d.role, n>> = 1 .. 2 /\ DOMAIN <<a, b, c>> = 1 .. 3
          /\ DOMAIN <<v, w, x, y, z>> = 1 .. 5
          OBVIOUS
    <3>2. 3 \in 1 .. 3 /\ 3 \notin 1 .. 2 /\ 3 \in 1 .. 5 /\ 5 \in 1 .. 5 /\ 5 \notin 1 .. 3 OBVIOUS
    <3> QED BY <3>1, <3>2
  <2> QED BY <2>1 DEF MetadataName, RelationName
<1>7. OneEach(all)
  <2> SUFFICES ASSUME NEW x \in all, NEW y \in all, x.id = y.id PROVE x = y BY DEF OneEach
  <2>1. \A z \in all : \/ \E e \in E : z = OfEvidence(e)
                       \/ MetadataName(z.id) /\ z = Withheld(z.id)
                       \/ \E a \in A : z = OfRelation(a)
        BY <1>2, <1>3, <1>4
  <2>2. \A z : /\ (\E e \in E : z = OfEvidence(e)) => \E n \in Nat : z.id = <<d.role, n>>
               /\ (\E a \in A : z = OfRelation(a)) => RelationName(z.id)
        BY <1>3, <1>4
  <2>3. CASE \E e \in E : x = OfEvidence(e)
    <3>1. \E f \in E : y = OfEvidence(f) BY <1>6, <2>1, <2>2, <2>3
    <3> QED BY <1>3, <1>4, <2>3, <3>1
  <2>4. CASE MetadataName(x.id) /\ x = Withheld(x.id)
    <3>1. MetadataName(y.id) /\ y = Withheld(y.id) BY <1>6, <2>1, <2>2, <2>4
    <3> QED BY <2>4, <3>1
  <2>5. CASE \E a \in A : x = OfRelation(a)
    <3>1. \E b \in A : y = OfRelation(b) BY <1>6, <2>1, <2>2, <2>5
    <3> QED BY <1>3, <1>4, <2>5, <3>1
  <2> QED BY <2>1, <2>3, <2>4, <2>5
<1> QED BY <1>5, <1>7 DEF all

\* The metadata is named by document, field and item.
LEMMA MetadataNames ==
    ASSUME NEW d, NEW units, NEW rows, NEW evidence
    PROVE  MetadataNamed(RebuildMetadata(d, units, rows, evidence))
<1>1. ASSUME NEW f PROVE MetadataName(GroundMetadata(d, f, evidence).id)
  <2>1. GroundMetadata(d, f, evidence).id = <<d.role, f.field, f.item>> BY DEF GroundMetadata
  <2> QED BY <2>1 DEF MetadataName
<1> QED BY <1>1 DEF RebuildMetadata, MetadataNamed

------------------------------------------------------------------------------
(* The inductive invariant: what the rows of every builder are when the    *)
(* next builder reads them, from the one that writes them to the last.     *)
FromSupport == {"support", "built"}
FromDecisions == {"decisions"} \cup FromSupport
FromAuthority == {"authority"} \cup FromDecisions
FromGraph == {"graph"} \cup FromAuthority
FromPropositions == {"propositions"} \cup FromGraph
FromDispositions == {"dispositions"} \cup FromPropositions
FromGrounding == {"grounding"} \cup FromDispositions
FromMetadata == {"metadata"} \cup FromGrounding
FromEvidence == {"evidence"} \cup FromMetadata
Building == {"extract", "units"} \cup FromEvidence

\* Each unit has a name of its own and a chunk.
UnitsMade ==
    /\ DOMAIN table.units = Roles
    /\ \A r \in Roles : /\ UnitsOf(r, table.units[r]) /\ OneEach(table.units[r])
                        /\ DOMAIN table.chunks[r] = {u.id : u \in table.units[r]}

\* Until they are grounded, the units of the current law are provisions.
UnitsFresh == \A r \in Roles : r = "current" => \A u \in table.units[r] : IsProvision(u)

EvidenceMade ==
    \A r \in Roles : EvidenceOfAll(r, table.units[r], table.evidence[r]) /\ OneForEach(table.evidence[r])

\* Grounded evidence stands on lines, and what may be published of the current law is.
EvidenceGrounded ==
    \A r \in Roles :
        /\ \A e \in table.evidence[r] : Stands(e)
        /\ r = "current" => PublishedAll(table.evidence[r], table.retrieval[r])
ConflictsGrounded == \A r \in Roles : \A c \in table.conflicts[r] : c.role = r

MetadataMade == \A r \in Roles : MetadataNamed(table.metadata[r])

PagesDisposed ==
    /\ DOMAIN table.spans = Roles
    /\ \A r \in Roles : IsPage(r, table.spans[r]) /\ Shows(Document(r), table.spans[r])
AuthorityGiven ==
    \A r \in Roles : /\ \A s \in ToSet(table.spans[r]) : IsAuthorized(s)
                     /\ \A e \in table.evidence[r] : SpeaksCitably(e)

\* An amendment leads where its relation does, and its name tells which that is.
AmendmentsLead ==
    /\ Leading(table.edges, table.relations) /\ \A e \in table.edges : EdgeColumns \subseteq DOMAIN e
    /\ OneEach(table.relations) /\ RelationsNamed(table.relations)

\* What needs a decision has one.
DecisionsMade ==
    /\ DOMAIN table.decisions = Roles
    /\ \A r \in Roles : OneEach(table.decisions[r]) /\ {x.id : x \in table.decisions[r]} = NeededDecisions(r)

BuildInv ==
    /\ docs \in Corpora
    /\ step \in Building => DOMAIN table = Artifacts
    /\ step \in FromEvidence => UnitsMade
    /\ step \in {"evidence", "metadata", "grounding"} => UnitsFresh
    /\ step \in FromMetadata => EvidenceMade
    /\ step \in FromGrounding => MetadataMade
    /\ step \in FromDispositions => EvidenceGrounded /\ ConflictsGrounded
    /\ step \in FromPropositions => PagesDisposed
    /\ step \in FromAuthority => Closed(table.nodes, table.edges) /\ AmendmentsLead
    /\ step \in FromDecisions => AuthorityGiven
    /\ step \in FromSupport => DecisionsMade
    /\ AnswerIsCitable /\ NoLawLost

\* What is known of the document of a role.
IsSource(r, d) ==
    /\ d \in docs /\ d.role = r
    /\ d.lines \in Seq(Seq(Words)) /\ d.drawn \in Seq(Seq(Words)) /\ Len(d.lines) < 100
    /\ r = "current" => d.curated = {}
    /\ \A p \in d.curated : /\ p.from \in DOMAIN d.lines /\ Cuttable(d, p)
                            /\ \A q \in d.curated : p.from = q.from => p = q

\* What the assumption on the corpora says of the document of each role.
LEMMA SourceFacts ==
    ASSUME docs \in Corpora
    PROVE  /\ "original" \in Roles
           /\ \A r \in Roles : IsSource(r, Document(r))
           /\ \A v \in Reviews : v.authority = "normative_legal_text" => v.excluded
<1>1. \A r \in Roles : Document(r) \in docs /\ Document(r).role = r BY DEF Roles, Document
<1>2. \A d \in docs : /\ d.lines \in Seq(Seq(Words)) /\ d.drawn \in Seq(Seq(Words)) /\ Len(d.lines) < 100
                      /\ d.role = "current" => d.curated = {}
                      /\ \A p \in d.curated : /\ p.from \in DOMAIN d.lines /\ Cuttable(d, p)
                                              /\ \A q \in d.curated : p.from = q.from => p = q
                      /\ \A v \in d.reviews : v.authority = "normative_legal_text" => v.excluded
      BY CorporaAssumption DEF CorporaAssumption, Cuttable
<1>3. "original" \in Roles BY CorporaAssumption DEF CorporaAssumption, Roles
<1> QED BY <1>1, <1>2, <1>3 DEF IsSource, Reviews

\* From here one lemma for each builder: it finds the rows as the invariant says and
\* leaves them so.
LEMMA UnitsKept ==
    ASSUME BuildInv, BuildUnits
    PROVE  BuildInv'
<1>1. step = "units" /\ step' = "evidence" /\ docs' = docs BY DEF BuildUnits, Go
<1>2. docs \in Corpora /\ DOMAIN table = Artifacts BY <1>1 DEF BuildInv, Building
<1>3. PICK units \in {[r \in Roles |-> LegalUnits(Document(r))]} :
          table' = [table EXCEPT !.units = units,
                        !.chunks = [r \in Roles |-> [id \in {u.id : u \in units[r]} |->
                                       Chunk(CHOOSE u \in units[r] : u.id = id)]]]
      BY DEF BuildUnits
<1> DEFINE chunks == [r \in Roles |-> [id \in {u.id : u \in units[r]} |-> Chunk(CHOOSE u \in units[r] : u.id = id)]]
<1>4. table' = [table EXCEPT !.units = units, !.chunks = chunks] BY <1>3
<1> HIDE DEF chunks
<1>5. DOMAIN table' = Artifacts /\ table'.units = units /\ table'.chunks = chunks BY <1>2, <1>4 DEF Artifacts
<1>6. Roles' = Roles BY <1>1 DEF Roles
<1>7. \A r \in Roles : DOMAIN chunks[r] = {u.id : u \in units[r]} BY DEF chunks
<1>8. ASSUME NEW r \in Roles
      PROVE  /\ UnitsOf(r, units[r]) /\ OneEach(units[r])
             /\ r = "current" => \A u \in units[r] : IsProvision(u)
  <2>1. IsSource(r, Document(r)) BY <1>2, SourceFacts
  <2>2. units[r] = LegalUnits(Document(r)) BY <1>3
  <2>7. \A u \in LegalUnits(Document(r)) : u.role = Document(r).role /\ DOMAIN u = UnitFields \cup {"parent"}
        BY UnitFacts
  <2>3. \A u \in units[r] : u.role = r /\ DOMAIN u = UnitFields \cup {"parent"}
        BY <2>1, <2>2, <2>7 DEF IsSource
  <2>4. Named(r, units[r]) BY <2>1, <2>2, UnitFacts DEF IsSource
  <2>5. r = "current" => \A u \in units[r] : IsProvision(u) BY <2>1, <2>2, UnitFacts DEF IsSource
  <2>6. OneEach(units[r]) BY <2>1, <2>2, UnitFacts DEF IsSource
  <2> QED BY <2>3, <2>4, <2>5, <2>6 DEF UnitsOf, Named, UnitFields
<1>9. UnitsMade' /\ UnitsFresh' BY <1>5, <1>6, <1>7, <1>8 DEF UnitsMade, UnitsFresh
<1> QED
  BY <1>1, <1>2, <1>5, <1>9
  DEF BuildInv, Building, FromSupport, FromDecisions, FromAuthority, FromGraph, FromPropositions, FromDispositions,
      FromGrounding, FromMetadata, FromEvidence, AnswerIsCitable, NoLawLost, Built

\* Evidence of the units.
LEMMA EvidenceKept ==
    ASSUME BuildInv, BuildEvidenceAndBoxes
    PROVE  BuildInv'
<1>1. step = "evidence" /\ step' = "metadata" /\ docs' = docs BY DEF BuildEvidenceAndBoxes, Go
<1>2. docs \in Corpora /\ DOMAIN table = Artifacts /\ UnitsMade /\ UnitsFresh
      BY <1>1 DEF BuildInv, Building, FromEvidence
<1>3. PICK built \in {[r \in Roles |-> BuildEvidence(Document(r), table.units[r], table.chunks[r])]} :
          table' = [table EXCEPT !.evidence = [r \in Roles |-> built[r].evidence],
                                 !.chunks = [r \in Roles |-> built[r].chunks]]
      BY DEF BuildEvidenceAndBoxes
<1>4. DOMAIN table' = Artifacts /\ table'.units = table.units /\ table'.evidence = [r \in Roles |-> built[r].evidence]
      /\ table'.chunks = [r \in Roles |-> built[r].chunks]
      BY <1>2, <1>3 DEF Artifacts
<1>5. Roles' = Roles BY <1>1 DEF Roles
<1>6. ASSUME NEW r \in Roles
      PROVE  /\ EvidenceOfAll(r, table.units[r], built[r].evidence)
             /\ OneForEach(built[r].evidence)
             /\ DOMAIN built[r].chunks = DOMAIN table.chunks[r]
  <2>1. Document(r).role = r BY <1>2, SourceFacts DEF IsSource
  <2>2. built[r] = BuildEvidence(Document(r), table.units[r], table.chunks[r]) BY <1>3
  <2>3. \A u \in table.units[r] : u.role = Document(r).role BY <1>2, <2>1 DEF UnitsMade, UnitsOf
  <2>4. OneEach(table.units[r]) BY <1>2 DEF UnitsMade
  <2> QED BY <2>1, <2>2, <2>3, <2>4, EvidenceFacts
<1>7. UnitsMade' BY <1>2, <1>4, <1>5, <1>6 DEF UnitsMade
<1>8. UnitsFresh' BY <1>2, <1>4, <1>5 DEF UnitsFresh
<1>9. EvidenceMade' BY <1>4, <1>5, <1>6 DEF EvidenceMade
<1> QED
  BY <1>1, <1>2, <1>4, <1>7, <1>8, <1>9
  DEF BuildInv, Building, FromSupport, FromDecisions, FromAuthority, FromGraph, FromPropositions, FromDispositions,
      FromGrounding, FromMetadata, FromEvidence, AnswerIsCitable, NoLawLost, Built

\* The metadata is written and nothing else.
LEMMA MetadataKept ==
    ASSUME BuildInv, BuildMetadata
    PROVE  BuildInv'
<1>1. step = "metadata" /\ step' = "grounding" /\ docs' = docs BY DEF BuildMetadata, Go
<1>2. docs \in Corpora /\ DOMAIN table = Artifacts /\ UnitsMade /\ UnitsFresh /\ EvidenceMade
      BY <1>1 DEF BuildInv, Building, FromEvidence, FromMetadata
<1> DEFINE metadata == [r \in Roles |-> Metadata(r, Ensured(r, Metadata(r, {})))]
<1>3. table' = [table EXCEPT !["metadata"] = metadata] BY DEF BuildMetadata, Write
<1>a. \A r \in Roles : MetadataNamed(metadata[r]) BY MetadataNames DEF Metadata
<1> HIDE DEF metadata
<1>4. /\ DOMAIN table' = Artifacts /\ table'.units = table.units
      /\ table'.chunks = table.chunks /\ table'.evidence = table.evidence
      /\ table'.metadata = metadata
      BY <1>2, <1>3 DEF Artifacts
<1>5. Roles' = Roles BY <1>1 DEF Roles
<1>6. UnitsMade' /\ UnitsFresh' BY <1>2, <1>4, <1>5 DEF UnitsMade, UnitsFresh
<1>7. EvidenceMade' BY <1>2, <1>4, <1>5 DEF EvidenceMade
<1>8. MetadataMade' BY <1>4, <1>5, <1>a DEF MetadataMade
<1> QED
  BY <1>1, <1>2, <1>4, <1>6, <1>7, <1>8
  DEF BuildInv, Building, FromSupport, FromDecisions, FromAuthority, FromGraph, FromPropositions, FromDispositions,
      FromGrounding, FromMetadata, FromEvidence, AnswerIsCitable, NoLawLost, Built

\* A source conflict belongs to its document.
LEMMA ConflictRole ==
    ASSUME NEW d, NEW c, NEW evidence
    PROVE  GroundConflict(d, c, evidence).role = d.role
BY DEF GroundConflict

\* Grounding rewrites units, chunks and evidence and publishes what may be cited.
LEMMA GroundingKept ==
    ASSUME BuildInv, ApplyGrounding
    PROVE  BuildInv'
<1>1. step = "grounding" /\ step' = "dispositions" /\ docs' = docs BY DEF ApplyGrounding, Go
<1>2. docs \in Corpora /\ DOMAIN table = Artifacts /\ UnitsMade /\ UnitsFresh /\ EvidenceMade /\ MetadataMade
      BY <1>1 DEF BuildInv, Building, FromEvidence, FromMetadata, FromGrounding
<1>3. PICK grounded \in {[r \in Roles |-> ApplyChunkGrounding(Document(r), table.units[r], table.chunks[r],
                                                              table.evidence[r])]} :
           table' = [table EXCEPT
               !.conflicts = [r \in Roles |-> {GroundConflict(Document(r), c, table.evidence[r]) :
                                                  c \in Document(r).conflicts}],
               !.units = [r \in Roles |-> grounded[r].units],
               !.chunks = [r \in Roles |-> grounded[r].chunks],
               !.evidence = [r \in Roles |-> grounded[r].evidence],
               !.retrieval = [r \in Roles |-> RetrievalUnits(grounded[r].evidence, grounded[r].chunks)]]
      BY DEF ApplyGrounding
<1> DEFINE conflicts == [r \in Roles |-> {GroundConflict(Document(r), c, table.evidence[r]) :
                                             c \in Document(r).conflicts}]
           retrieval == [r \in Roles |-> RetrievalUnits(grounded[r].evidence, grounded[r].chunks)]
<1>4. table' = [table EXCEPT !.conflicts = conflicts,
               !.units = [r \in Roles |-> grounded[r].units],
               !.chunks = [r \in Roles |-> grounded[r].chunks],
               !.evidence = [r \in Roles |-> grounded[r].evidence],
               !.retrieval = retrieval]
      BY <1>3
<1>5. ASSUME NEW r \in Roles, NEW c \in conflicts[r] PROVE c.role = r
  <2>1. Document(r).role = r BY <1>2, SourceFacts DEF IsSource
  <2> QED BY <2>1, ConflictRole
<1>6. \A r \in Roles : retrieval[r] = RetrievalUnits(grounded[r].evidence, grounded[r].chunks) OBVIOUS
<1> HIDE DEF conflicts, retrieval
<1>7. /\ DOMAIN table' = Artifacts /\ table'.metadata = table.metadata
      /\ table'.conflicts = conflicts /\ table'.retrieval = retrieval
      /\ table'.units = [r \in Roles |-> grounded[r].units]
      /\ table'.chunks = [r \in Roles |-> grounded[r].chunks]
      /\ table'.evidence = [r \in Roles |-> grounded[r].evidence]
      BY <1>2, <1>4 DEF Artifacts
<1>8. Roles' = Roles BY <1>1 DEF Roles
<1>9. ASSUME NEW r \in Roles
      PROVE  /\ UnitsOf(r, grounded[r].units) /\ OneEach(grounded[r].units)
             /\ DOMAIN grounded[r].chunks = {u.id : u \in grounded[r].units}
             /\ EvidenceOfAll(r, grounded[r].units, grounded[r].evidence) /\ OneForEach(grounded[r].evidence)
             /\ \A e \in grounded[r].evidence : Stands(e)
             /\ r = "current" => PublishedAll(grounded[r].evidence, retrieval[r])
  <2>1. Document(r).role = r /\ Document(r).drawn \in Seq(Seq(Words)) BY <1>2, SourceFacts DEF IsSource
  <2>2. grounded[r] = ApplyChunkGrounding(Document(r), table.units[r], table.chunks[r], table.evidence[r]) BY <1>3
  <2>3. /\ UnitsOf(r, table.units[r]) /\ OneEach(table.units[r])
        /\ DOMAIN table.chunks[r] = {u.id : u \in table.units[r]}
        /\ EvidenceOfAll(r, table.units[r], table.evidence[r]) /\ OneForEach(table.evidence[r])
        BY <1>2 DEF UnitsMade, EvidenceMade
  <2>4. /\ UnitsOf(r, grounded[r].units) /\ OneEach(grounded[r].units)
        /\ {u.id : u \in grounded[r].units} = {u.id : u \in table.units[r]}
        /\ DOMAIN grounded[r].chunks = DOMAIN table.chunks[r]
    <3> DEFINE d == Document(r)
               units == table.units[r]
               chunks == table.chunks[r]
               evidence == table.evidence[r]
    <3>1. UnitsOf(d.role, units) /\ OneEach(units) BY <2>1, <2>3
    <3> HIDE DEF d, units, chunks, evidence
    <3>2. /\ UnitsOf(d.role, ApplyChunkGrounding(d, units, chunks, evidence).units)
          /\ SameNames(ApplyChunkGrounding(d, units, chunks, evidence).units, units)
          /\ OneEach(ApplyChunkGrounding(d, units, chunks, evidence).units)
          /\ DOMAIN ApplyChunkGrounding(d, units, chunks, evidence).chunks = DOMAIN chunks
          BY <3>1, GroundedUnits
    <3> QED BY <2>1, <2>2, <3>2 DEF d, units, chunks, evidence, SameNames
  <2>5. /\ EvidenceOfAll(r, table.units[r], grounded[r].evidence) /\ OneForEach(grounded[r].evidence)
        /\ \A e \in grounded[r].evidence : Stands(e)
        BY <2>1, <2>2, <2>3, GroundedEvidenceFacts
  <2>6. EvidenceOfAll(r, grounded[r].units, grounded[r].evidence)
    <3>1. \A id : (\E u \in table.units[r] : u.id = id) => \E u \in grounded[r].units : u.id = id
      <4>1. \A id : (\E u \in table.units[r] : u.id = id) => id \in {u.id : u \in grounded[r].units} BY <2>4
      <4> QED BY <4>1
    <3> QED BY <2>5, <3>1 DEF EvidenceOfAll, IsEvidence
  <2>7. ASSUME r = "current" PROVE PublishedAll(grounded[r].evidence, retrieval[r])
    <3>1. \A u \in table.units[r] : IsProvision(u) BY <1>2, <2>7 DEF UnitsFresh
    <3> QED BY <1>6, <2>1, <2>2, <2>3, <3>1, RetrievalPublished
  <2> QED BY <2>3, <2>4, <2>5, <2>6, <2>7
<1>10. UnitsMade' /\ EvidenceMade' BY <1>7, <1>8, <1>9 DEF UnitsMade, EvidenceMade
<1>11. EvidenceGrounded' BY <1>7, <1>8, <1>9 DEF EvidenceGrounded
<1>12. ConflictsGrounded' BY <1>5, <1>7, <1>8 DEF ConflictsGrounded
<1>13. MetadataMade' BY <1>2, <1>7, <1>8 DEF MetadataMade
<1> QED
  BY <1>1, <1>2, <1>7, <1>10, <1>11, <1>12, <1>13
  DEF BuildInv, Building, FromSupport, FromDecisions, FromAuthority, FromGraph, FromPropositions, FromDispositions,
      FromGrounding, FromMetadata, FromEvidence, AnswerIsCitable, NoLawLost, Built

\* Dispositions are made of grounded units.
LEMMA DispositionsKept ==
    ASSUME BuildInv, ApplyDispositions
    PROVE  BuildInv'
<1> DEFINE spans == [r \in Roles |-> DisposedSpans(Document(r), table.units[r], table.chunks[r],
                                        table.metadata[r], table.conflicts[r], table.evidence[r])]
<1>1. step = "dispositions" /\ step' = "propositions" /\ docs' = docs BY DEF ApplyDispositions, Go
<1>2. /\ docs \in Corpora /\ DOMAIN table = Artifacts /\ UnitsMade /\ EvidenceMade /\ MetadataMade
      /\ EvidenceGrounded /\ ConflictsGrounded
      BY <1>1 DEF BuildInv, Building, FromEvidence, FromMetadata, FromGrounding, FromDispositions
<1>3. \E objects : table' = [table EXCEPT !["spans"] = spans, !["objects"] = objects] BY DEF ApplyDispositions
<1>4. ASSUME NEW r \in Roles PROVE IsPage(r, spans[r]) /\ Shows(Document(r), spans[r])
  <2>1. Document(r).role = r /\ Document(r).drawn \in Seq(Seq(Words)) BY <1>2, SourceFacts DEF IsSource
  <2>2. UnitsOf(r, table.units[r]) BY <1>2 DEF UnitsMade
  <2>3. spans[r] = DisposedSpans(Document(r), table.units[r], table.chunks[r],
                                 table.metadata[r], table.conflicts[r], table.evidence[r])
        OBVIOUS
  <2> HIDE DEF spans
  <2> QED BY <2>1, <2>2, <2>3, DisposedFacts
<1>b. DOMAIN spans = Roles OBVIOUS
<1> HIDE DEF spans
<1>5. /\ DOMAIN table' = Artifacts /\ table'.spans = spans /\ table'.metadata = table.metadata
      /\ table'.units = table.units /\ table'.chunks = table.chunks
      /\ table'.evidence = table.evidence /\ table'.conflicts = table.conflicts /\ table'.retrieval = table.retrieval
      BY <1>2, <1>3 DEF Artifacts
<1>6. Roles' = Roles BY <1>1 DEF Roles
<1>7. UnitsMade' /\ EvidenceMade' /\ MetadataMade' BY <1>2, <1>5, <1>6 DEF UnitsMade, EvidenceMade, MetadataMade
<1>8. EvidenceGrounded' /\ ConflictsGrounded' BY <1>2, <1>5, <1>6 DEF EvidenceGrounded, ConflictsGrounded
<1>9. PagesDisposed' BY <1>1, <1>4, <1>5, <1>6, <1>b DEF PagesDisposed, Document
<1> QED
  BY <1>1, <1>2, <1>5, <1>7, <1>8, <1>9
  DEF BuildInv, Building, FromSupport, FromDecisions, FromAuthority, FromGraph, FromPropositions, FromDispositions,
      FromGrounding, FromMetadata, FromEvidence, AnswerIsCitable, NoLawLost, Built

\* Propositions and the health of the pages are written and nothing else.
LEMMA PropositionsKept ==
    ASSUME BuildInv, BuildPropositions
    PROVE  BuildInv'
<1>1. step = "propositions" /\ step' = "graph" /\ docs' = docs BY DEF BuildPropositions, Go
<1>2. /\ docs \in Corpora /\ DOMAIN table = Artifacts /\ UnitsMade /\ EvidenceMade /\ MetadataMade
      /\ EvidenceGrounded /\ ConflictsGrounded /\ PagesDisposed
      BY <1>1 DEF BuildInv, Building, FromEvidence, FromMetadata, FromGrounding, FromDispositions, FromPropositions
<1>3. \E propositions, health : table' = [table EXCEPT !["propositions"] = propositions, !["health"] = health]
      BY DEF BuildPropositions
<1>4. /\ DOMAIN table' = Artifacts /\ table'.spans = table.spans /\ table'.metadata = table.metadata
      /\ table'.units = table.units /\ table'.chunks = table.chunks
      /\ table'.evidence = table.evidence /\ table'.conflicts = table.conflicts /\ table'.retrieval = table.retrieval
      BY <1>2, <1>3 DEF Artifacts
<1>5. Roles' = Roles BY <1>1 DEF Roles
<1>6. UnitsMade' /\ EvidenceMade' /\ MetadataMade' BY <1>2, <1>4, <1>5 DEF UnitsMade, EvidenceMade, MetadataMade
<1>7. EvidenceGrounded' /\ ConflictsGrounded' /\ PagesDisposed'
      BY <1>1, <1>2, <1>4, <1>5 DEF EvidenceGrounded, ConflictsGrounded, PagesDisposed, Document
<1> QED
  BY <1>1, <1>2, <1>4, <1>6, <1>7
  DEF BuildInv, Building, FromSupport, FromDecisions, FromAuthority, FromGraph, FromPropositions, FromDispositions,
      FromGrounding, FromMetadata, FromEvidence, AnswerIsCitable, NoLawLost, Built

\* The edges of the corpus lead between its nodes.
LEMMA BuiltEdgesLead ==
    ASSUME docs \in Corpora, UnitsMade, EvidenceMade, ConflictsGrounded
    PROVE  \A e \in BuiltEdges : IsEdgeOf(BuiltNodes, e)
<1>1. {d.role : d \in docs} = Roles /\ "original" \in Roles BY SourceFacts DEF Roles
<1>2. ASSUME NEW u \in All("units") PROVE u.role \in Roles
  <2>1. PICK r \in Roles : u \in table.units[r] BY DEF All
  <2> QED BY <2>1 DEF UnitsMade, UnitsOf
<1>3. ASSUME NEW e \in All("evidence") PROVE e.role \in Roles /\ \E u \in All("units") : u.id = e.unit
  <2>1. PICK r \in Roles : e \in table.evidence[r] BY DEF All
  <2>2. IsEvidence(r, table.units[r], e) BY <2>1 DEF EvidenceMade, EvidenceOfAll
  <2>3. table.units[r] \subseteq All("units") BY DEF All
  <2> QED BY <2>2, <2>3 DEF IsEvidence
<1>4. ASSUME NEW c \in All("conflicts") PROVE c.role \in Roles
  <2>1. PICK r \in Roles : c \in table.conflicts[r] BY DEF All
  <2> QED BY <2>1 DEF ConflictsGrounded
<1>5. Belong(docs, All("units"), All("evidence"), All("conflicts")) BY <1>1, <1>2, <1>3, <1>4 DEF Belong
<1> QED BY <1>5, GraphFacts DEF BuiltEdges, BuiltNodes

\* Of one name there is one unit in the whole corpus, and one evidence.
LEMMA NamesOfAll ==
    ASSUME UnitsMade, EvidenceMade
    PROVE  OneEach(All("units")) /\ OneForEach(All("evidence"))
<1>1. \A r \in Roles : /\ \A u \in table.units[r] : \E n \in Nat : u.id = <<r, n>>
                       /\ \A e \in table.evidence[r] : \E n \in Nat : e.unit = <<r, n>>
                       /\ OneEach(table.units[r]) /\ OneForEach(table.evidence[r])
      BY DEF UnitsMade, UnitsOf, EvidenceMade, EvidenceOfAll, IsEvidence
<1>2. ASSUME NEW u \in All("units"), NEW v \in All("units"), u.id = v.id PROVE u = v
  <2>1. PICK r \in Roles : u \in table.units[r] BY DEF All
  <2>2. PICK q \in Roles : v \in table.units[q] BY DEF All
  <2>3. r = q BY <1>1, <1>2, <2>1, <2>2
  <2> QED BY <1>1, <1>2, <2>1, <2>2, <2>3 DEF OneEach
<1>3. ASSUME NEW e \in All("evidence"), NEW f \in All("evidence"), e.unit = f.unit PROVE e = f
  <2>1. PICK r \in Roles : e \in table.evidence[r] BY DEF All
  <2>2. PICK q \in Roles : f \in table.evidence[q] BY DEF All
  <2>3. r = q BY <1>1, <1>3, <2>1, <2>2
  <2> QED BY <1>1, <1>3, <2>1, <2>2, <2>3 DEF OneForEach
<1> QED BY <1>2, <1>3 DEF OneEach, OneForEach

\* The amendments of the graph lead where they should when it is written.
LEMMA BuiltAmendments ==
    ASSUME docs \in Corpora, UnitsMade, EvidenceMade, ConflictsGrounded
    PROVE  /\ Leading(MaterializeInverseEdges(BuiltEdges), BuiltRelations)
           /\ \A e \in MaterializeInverseEdges(BuiltEdges) : EdgeColumns \subseteq DOMAIN e
           /\ OneEach(BuiltRelations) /\ RelationsNamed(BuiltRelations)
<1>1. Leading(BuiltEdges, BuiltRelations) BY EdgesLead DEF BuiltEdges, BuiltRelations
<1>2. \A e \in All("evidence") : \E u \in All("units") : u.id = e.unit
      BY DEF All, EvidenceMade, EvidenceOfAll, IsEvidence
<1>3. OneEach(BuiltRelations) /\ RelationsNamed(BuiltRelations)
      BY <1>2, NamesOfAll, RelationFacts DEF BuiltRelations
<1> QED BY <1>1, <1>3, BuiltEdgesLead, InversesLead

\* The graph is closed when it is written, and its amendments lead to their articles.
LEMMA GraphKept ==
    ASSUME BuildInv, BuildGraph
    PROVE  BuildInv'
<1>1. step = "graph" /\ docs' = docs BY DEF BuildGraph, Fail, Go
<1>2. /\ docs \in Corpora /\ DOMAIN table = Artifacts /\ UnitsMade /\ EvidenceMade /\ MetadataMade
      /\ EvidenceGrounded /\ ConflictsGrounded /\ PagesDisposed
      BY <1>1 DEF BuildInv, Building, FromEvidence, FromMetadata, FromGrounding, FromDispositions, FromPropositions,
                  FromGraph
<1>3. CASE step' = "failed"
  BY <1>1, <1>2, <1>3
  DEF BuildInv, Building, FromSupport, FromDecisions, FromAuthority, FromGraph, FromPropositions, FromDispositions,
      FromGrounding, FromMetadata, FromEvidence, AnswerIsCitable, NoLawLost, Built
<1>4. CASE ~MissingRelation(BuiltEdges, BuiltRelations)
  <2>1. /\ step' = "authority"
        /\ table' = [table EXCEPT !.nodes = BuiltNodes, !.relations = BuiltRelations,
                                  !.edges = MaterializeInverseEdges(BuiltEdges)]
        BY <1>4 DEF BuildGraph, Go
  <2>2. /\ DOMAIN table' = Artifacts /\ table'.spans = table.spans /\ table'.metadata = table.metadata
        /\ table'.units = table.units /\ table'.chunks = table.chunks
        /\ table'.evidence = table.evidence /\ table'.conflicts = table.conflicts /\ table'.retrieval = table.retrieval
        /\ table'.nodes = BuiltNodes /\ table'.edges = MaterializeInverseEdges(BuiltEdges)
        /\ table'.relations = BuiltRelations
        BY <1>2, <2>1 DEF Artifacts
  <2>3. Roles' = Roles BY <1>1 DEF Roles
  <2>4. UnitsMade' /\ EvidenceMade' /\ MetadataMade' BY <1>2, <2>2, <2>3 DEF UnitsMade, EvidenceMade, MetadataMade
  <2>5. EvidenceGrounded' /\ ConflictsGrounded' /\ PagesDisposed'
        BY <1>1, <1>2, <2>2, <2>3 DEF EvidenceGrounded, ConflictsGrounded, PagesDisposed, Document
  <2>6. Closed(BuiltNodes, MaterializeInverseEdges(BuiltEdges)) BY <1>2, BuiltEdgesLead, InversesMade
  <2>7. AmendmentsLead' BY <1>2, <2>2, BuiltAmendments DEF AmendmentsLead
  <2> QED
    BY <1>1, <1>2, <2>1, <2>2, <2>4, <2>5, <2>6, <2>7
    DEF BuildInv, Building, FromSupport, FromDecisions, FromAuthority, FromGraph, FromPropositions, FromDispositions,
        FromGrounding, FromMetadata, FromEvidence, AnswerIsCitable, NoLawLost, Built
<1> QED BY <1>3, <1>4 DEF BuildGraph, Fail

\* The authority contract comes after the graph and before the support.
LEMMA AuthorityKept ==
    ASSUME BuildInv, ApplyAuthority
    PROVE  BuildInv'
<1> DEFINE spans == [r \in Roles |-> AuthoritySpans(table.spans[r], table.evidence[r])]
           evidence == [r \in Roles |-> AuthorityEvidence(table.evidence[r], table.units[r])]
<1>1. step = "authority" /\ step' = "decisions" /\ docs' = docs BY DEF ApplyAuthority, Go
<1>2. /\ docs \in Corpora /\ DOMAIN table = Artifacts /\ UnitsMade /\ EvidenceMade /\ MetadataMade
      /\ EvidenceGrounded /\ ConflictsGrounded /\ PagesDisposed /\ Closed(table.nodes, table.edges) /\ AmendmentsLead
      BY <1>1 DEF BuildInv, Building, FromEvidence, FromMetadata, FromGrounding, FromDispositions, FromPropositions,
                  FromGraph, FromAuthority
<1>3. table' = [table EXCEPT !.spans = spans, !.evidence = evidence] BY DEF ApplyAuthority
<1>4. ASSUME NEW r \in Roles
      PROVE  /\ IsPage(r, spans[r]) /\ \A s \in ToSet(spans[r]) : IsAuthorized(s)
             /\ Shows(Document(r), spans[r])
             /\ EvidenceOfAll(r, table.units[r], evidence[r]) /\ OneForEach(evidence[r])
             /\ \A e \in evidence[r] : Stands(e) /\ SpeaksCitably(e)
             /\ r = "current" => PublishedAll(evidence[r], table.retrieval[r])
  <2>1. IsPage(r, table.spans[r]) /\ Shows(Document(r), table.spans[r]) BY <1>2 DEF PagesDisposed
  <2>2. /\ EvidenceOfAll(r, table.units[r], table.evidence[r]) /\ \A e \in table.evidence[r] : Stands(e)
        /\ OneForEach(table.evidence[r])
        /\ r = "current" => PublishedAll(table.evidence[r], table.retrieval[r])
        BY <1>2 DEF EvidenceMade, EvidenceGrounded
  <2>3. /\ spans[r] = AuthoritySpans(table.spans[r], table.evidence[r])
        /\ evidence[r] = AuthorityEvidence(table.evidence[r], table.units[r])
        OBVIOUS
  <2> HIDE DEF spans, evidence
  <2>4. IsPage(r, spans[r]) /\ Shows(Document(r), spans[r]) /\ \A s \in ToSet(spans[r]) : IsAuthorized(s)
        BY <2>1, <2>3, AuthorizedPage
  <2>5. /\ EvidenceOfAll(r, table.units[r], evidence[r]) /\ OneForEach(evidence[r])
        /\ \A e \in evidence[r] : Stands(e) /\ SpeaksCitably(e)
        /\ r = "current" => PublishedAll(evidence[r], table.retrieval[r])
        BY <2>2, <2>3, AuthorizedEvidence
  <2> QED BY <2>4, <2>5
<1>b. DOMAIN spans = Roles OBVIOUS
<1> HIDE DEF spans, evidence
<1>5. /\ DOMAIN table' = Artifacts /\ table'.spans = spans /\ table'.evidence = evidence
      /\ table'.units = table.units /\ table'.chunks = table.chunks
      /\ table'.conflicts = table.conflicts /\ table'.retrieval = table.retrieval
      /\ table'.nodes = table.nodes /\ table'.edges = table.edges
      /\ table'.metadata = table.metadata /\ table'.relations = table.relations
      BY <1>2, <1>3 DEF Artifacts
<1>6. Roles' = Roles BY <1>1 DEF Roles
<1>7. UnitsMade' /\ ConflictsGrounded' /\ MetadataMade' /\ AmendmentsLead'
      BY <1>2, <1>5, <1>6 DEF UnitsMade, ConflictsGrounded, MetadataMade, AmendmentsLead
<1>8. EvidenceMade' /\ EvidenceGrounded' BY <1>4, <1>5, <1>6 DEF EvidenceMade, EvidenceGrounded
<1>9. PagesDisposed' /\ AuthorityGiven' BY <1>1, <1>4, <1>5, <1>6, <1>b DEF PagesDisposed, AuthorityGiven, Document
<1> QED
  BY <1>1, <1>2, <1>5, <1>7, <1>8, <1>9
  DEF BuildInv, Building, FromSupport, FromDecisions, FromAuthority, FromGraph, FromPropositions, FromDispositions,
      FromGrounding, FromMetadata, FromEvidence, AnswerIsCitable, NoLawLost, Built

\* The decisions are written and nothing else.
LEMMA DecisionsKept ==
    ASSUME BuildInv, BuildDecisions
    PROVE  BuildInv'
<1>1. step = "decisions" /\ step' = "support" /\ docs' = docs BY DEF BuildDecisions, Go
<1>2. /\ docs \in Corpora /\ DOMAIN table = Artifacts /\ UnitsMade /\ EvidenceMade /\ MetadataMade
      /\ EvidenceGrounded /\ ConflictsGrounded /\ PagesDisposed /\ Closed(table.nodes, table.edges) /\ AmendmentsLead /\ AuthorityGiven
      BY <1>1 DEF BuildInv, Building, FromEvidence, FromMetadata, FromGrounding, FromDispositions, FromPropositions,
                  FromGraph, FromAuthority, FromDecisions
<1> DEFINE decisions == [r \in Roles |-> PromotionDecisions(Document(r), table.evidence[r], table.metadata[r],
                                                           table.relations)]
<1>3. table' = [table EXCEPT !["decisions"] = decisions] BY DEF BuildDecisions, Write
<1>a. ASSUME NEW r \in Roles
      PROVE  OneEach(decisions[r]) /\ {x.id : x \in decisions[r]} = NeededDecisions(r)
  <2>1. Document(r).role = r BY <1>2, SourceFacts DEF IsSource
  <2>2. \A e \in table.evidence[r] : \E n \in Nat : e.unit = <<r, n>>
        BY <1>2 DEF EvidenceMade, EvidenceOfAll, IsEvidence, UnitsMade, UnitsOf
  <2>3. OneForEach(table.evidence[r]) /\ MetadataNamed(table.metadata[r])
        BY <1>2 DEF EvidenceMade, MetadataMade
  <2>4. OneEach(table.relations) /\ RelationsNamed(table.relations) BY <1>2 DEF AmendmentsLead
  <2>5. decisions[r] = PromotionDecisions(Document(r), table.evidence[r], table.metadata[r], table.relations) OBVIOUS
  <2> HIDE DEF decisions
  <2>6. NeededDecisions(r) = Needing(r, table.evidence[r], table.metadata[r], table.relations)
        BY DEF NeededDecisions, Needing, EvidenceRows
  <2> QED BY <2>1, <2>2, <2>3, <2>4, <2>5, <2>6, DecisionFacts
<1>b. DOMAIN decisions = Roles OBVIOUS
<1> HIDE DEF decisions
<1>4. /\ DOMAIN table' = Artifacts /\ table'.spans = table.spans /\ table'.evidence = table.evidence
      /\ table'.units = table.units /\ table'.chunks = table.chunks
      /\ table'.conflicts = table.conflicts /\ table'.retrieval = table.retrieval
      /\ table'.nodes = table.nodes /\ table'.edges = table.edges
      /\ table'.metadata = table.metadata /\ table'.relations = table.relations
      /\ table'.decisions = decisions
      BY <1>2, <1>3 DEF Artifacts
<1>5. Roles' = Roles BY <1>1 DEF Roles
<1>6. UnitsMade' /\ EvidenceMade' /\ MetadataMade' /\ AmendmentsLead'
      BY <1>2, <1>4, <1>5 DEF UnitsMade, EvidenceMade, MetadataMade, AmendmentsLead
<1>7. EvidenceGrounded' /\ ConflictsGrounded' BY <1>2, <1>4, <1>5 DEF EvidenceGrounded, ConflictsGrounded
<1>8. PagesDisposed' /\ AuthorityGiven' BY <1>1, <1>2, <1>4, <1>5 DEF PagesDisposed, AuthorityGiven, Document
<1>9. DecisionsMade' BY <1>4, <1>5, <1>a, <1>b DEF DecisionsMade, NeededDecisions, EvidenceRows
<1> QED
  BY <1>1, <1>2, <1>4, <1>6, <1>7, <1>8, <1>9
  DEF BuildInv, Building, FromSupport, FromDecisions, FromAuthority, FromGraph, FromPropositions, FromDispositions,
      FromGrounding, FromMetadata, FromEvidence, AnswerIsCitable, NoLawLost, Built

\* When the support does not stop, every line has an owner and the rows are as it needs them.
LEMMA SupportReady ==
    ASSUME docs \in Corpora, UnitsMade, EvidenceMade, EvidenceGrounded, PagesDisposed, AuthorityGiven, ~SupportStops,
           NEW r \in Roles
    PROVE  /\ ReadyToSupport(r, table.spans[r], All("evidence"), Reviews, Owners)
           /\ Retrievable(r, All("evidence"), table.retrieval[r])
<1>1. ASSUME NEW e \in All("evidence")
      PROVE  /\ Stands(e) /\ SpeaksCitably(e) /\ \E n \in Nat : e.unit = <<e.role, n>>
             /\ e.role = "current" /\ Fit(e) =>
                    \E w \in table.retrieval["current"] : w.evidence = e.unit /\ w.spans = e.spans
  <2>1. PICK q \in Roles : e \in table.evidence[q] BY DEF All
  <2>2. Stands(e) /\ SpeaksCitably(e) BY <2>1 DEF EvidenceGrounded, AuthorityGiven
  <2>3. IsEvidence(q, table.units[q], e) BY <2>1 DEF EvidenceMade, EvidenceOfAll
  <2>4. e.role = q /\ \E n \in Nat : e.unit = <<q, n>> BY <2>3 DEF IsEvidence, UnitsMade, UnitsOf
  <2>5. q = "current" => PublishedAll(table.evidence[q], table.retrieval[q]) BY DEF EvidenceGrounded
  <2> QED BY <2>1, <2>2, <2>4, <2>5 DEF PublishedAll
<1>2. IsPage(r, table.spans[r]) /\ \A s \in ToSet(table.spans[r]) : IsAuthorized(s) BY DEF PagesDisposed, AuthorityGiven
<1>3. ASSUME NEW s \in Meaningful(ToSet(table.spans[r]), Reviews) PROVE OwnersOfSpan(s, Reviews, Owners) # {}
  <2>1. s \in Meaningful(AllSpans, Reviews) BY DEF Meaningful, AllSpans
  <2> QED BY <2>1 DEF SupportStops, SupportFails
<1> QED BY <1>1, <1>2, <1>3, SourceFacts DEF ReadyToSupport, Retrievable

\* The support is made of lines with owners.
LEMMA SupportKept ==
    ASSUME BuildInv, BuildSupport
    PROVE  BuildInv'
<1> DEFINE support == [r \in Roles |-> MeaningfulSupport(Document(r), table.spans[r], All("raw"), Reviews, Owners)]
<1>1. step = "support" /\ step' = "built" /\ docs' = docs BY DEF BuildSupport, Go
<1>2. /\ docs \in Corpora /\ DOMAIN table = Artifacts /\ UnitsMade /\ EvidenceMade /\ MetadataMade
      /\ EvidenceGrounded /\ ConflictsGrounded /\ PagesDisposed /\ Closed(table.nodes, table.edges) /\ AmendmentsLead /\ AuthorityGiven
      /\ DecisionsMade
      BY <1>1 DEF BuildInv, Building, FromEvidence, FromMetadata, FromGrounding, FromDispositions, FromPropositions,
                  FromGraph, FromAuthority, FromDecisions, FromSupport
<1>3. ~SupportStops /\ table' = [table EXCEPT !["support"] = support] BY DEF BuildSupport, Write
<1>4. ASSUME NEW r \in Roles PROVE Supported(support[r], table.spans[r], Reviews, table.retrieval[r])
  <2>1. /\ ReadyToSupport(r, table.spans[r], All("evidence"), Reviews,
                          CanonicalOwners(All("evidence"), All("metadata"), All("conflicts")))
        /\ Retrievable(r, All("evidence"), table.retrieval[r])
        BY <1>2, <1>3, SupportReady DEF Owners
  <2>2. support[r] = MeaningfulSupport(Document(r), table.spans[r], All("raw"), Reviews,
                                       CanonicalOwners(All("evidence"), All("metadata"), All("conflicts")))
        BY DEF Owners
  <2> HIDE DEF support
  <2> QED BY <2>1, <2>2, SupportFacts
<1> HIDE DEF support
<1>5. /\ DOMAIN table' = Artifacts /\ table'.spans = table.spans /\ table'.evidence = table.evidence
      /\ table'.units = table.units /\ table'.chunks = table.chunks
      /\ table'.conflicts = table.conflicts /\ table'.retrieval = table.retrieval
      /\ table'.nodes = table.nodes /\ table'.edges = table.edges
      /\ table'.metadata = table.metadata /\ table'.relations = table.relations
      /\ table'.decisions = table.decisions /\ table'.support = support
      BY <1>2, <1>3 DEF Artifacts
<1>6. Roles' = Roles /\ Reviews' = Reviews BY <1>1 DEF Roles, Reviews
<1>7. UnitsMade' /\ EvidenceMade' /\ MetadataMade' /\ AmendmentsLead' /\ DecisionsMade'
  <2>1. UnitsMade' /\ EvidenceMade' BY <1>2, <1>5, <1>6 DEF UnitsMade, EvidenceMade
  <2>2. MetadataMade' /\ AmendmentsLead' BY <1>2, <1>5, <1>6 DEF MetadataMade, AmendmentsLead
  <2>3. DecisionsMade' BY <1>2, <1>5, <1>6 DEF DecisionsMade, NeededDecisions, EvidenceRows
  <2> QED BY <2>1, <2>2, <2>3
<1>8. EvidenceGrounded' /\ ConflictsGrounded' BY <1>2, <1>5, <1>6 DEF EvidenceGrounded, ConflictsGrounded
<1>9. PagesDisposed' /\ AuthorityGiven' BY <1>1, <1>2, <1>5, <1>6 DEF PagesDisposed, AuthorityGiven, Document
<1>10. AnswerIsCitable' BY <1>4, <1>5, <1>6 DEF AnswerIsCitable, Supported
<1>11. NoLawLost' BY <1>4, <1>5, <1>6 DEF NoLawLost, Supported
<1> QED
  BY <1>1, <1>2, <1>5, <1>7, <1>8, <1>9, <1>10, <1>11
  DEF BuildInv, Building, FromSupport, FromDecisions, FromAuthority, FromGraph, FromPropositions, FromDispositions,
      FromGrounding, FromMetadata, FromEvidence

\* The first step reads the pages.
LEMMA ExtractKept ==
    ASSUME BuildInv, Extract
    PROVE  BuildInv'
<1>1. step = "extract" /\ step' = "units" /\ docs' = docs /\ \E rows : table' = [table EXCEPT !["raw"] = rows]
      BY DEF Extract, Go, Write
<1>2. docs \in Corpora /\ DOMAIN table = Artifacts BY <1>1 DEF BuildInv, Building
<1>3. DOMAIN table' = Artifacts BY <1>1, <1>2
<1> QED
  BY <1>1, <1>2, <1>3
  DEF BuildInv, Building, FromSupport, FromDecisions, FromAuthority, FromGraph, FromPropositions, FromDispositions,
      FromGrounding, FromMetadata, FromEvidence, AnswerIsCitable, NoLawLost, Built

\* A build that has failed or is left to the gate promises nothing here.
LEMMA EndKept ==
    ASSUME BuildInv, docs' = docs, step' \in {"failed", "left wrong", "accepted", "rejected"}
    PROVE  BuildInv'
BY DEF BuildInv, Building, FromSupport, FromDecisions, FromAuthority, FromGraph, FromPropositions, FromDispositions,
       FromGrounding, FromMetadata, FromEvidence, AnswerIsCitable, NoLawLost, Built

\* The invariant of the build, for every set of documents and also where a builder leaves a
\* row wrong after the end.
LEMMA BuildInvariant == GateSpec => []BuildInv
<1>1. GateInit => BuildInv
  BY DEF GateInit, Init, BuildInv, Building, FromSupport, FromDecisions, FromAuthority, FromGraph, FromPropositions,
         FromDispositions, FromGrounding, FromMetadata, FromEvidence, AnswerIsCitable, NoLawLost, Built
<1>2. ASSUME BuildInv, [GateNext]_gateVars PROVE BuildInv'
  <2>1. CASE UNCHANGED <<docs, step, table>>
    <3>1. docs' = docs /\ step' = step /\ table' = table /\ Roles' = Roles BY <2>1 DEF Roles
    <3>2. /\ UnitsMade' = UnitsMade /\ UnitsFresh' = UnitsFresh /\ EvidenceMade' = EvidenceMade
          /\ MetadataMade' = MetadataMade /\ EvidenceGrounded' = EvidenceGrounded
          /\ ConflictsGrounded' = ConflictsGrounded
          BY <3>1 DEF UnitsMade, UnitsFresh, EvidenceMade, MetadataMade, EvidenceGrounded, ConflictsGrounded
    <3>3. /\ PagesDisposed' = PagesDisposed /\ AmendmentsLead' = AmendmentsLead
          /\ AuthorityGiven' = AuthorityGiven /\ DecisionsMade' = DecisionsMade
          BY <3>1
          DEF PagesDisposed, Document, AmendmentsLead, AuthorityGiven, DecisionsMade, NeededDecisions, EvidenceRows
    <3>4. AnswerIsCitable' = AnswerIsCitable /\ NoLawLost' = NoLawLost
          BY <3>1 DEF AnswerIsCitable, NoLawLost, Built, Reviews
    <3> QED BY <1>2, <3>1, <3>2, <3>3, <3>4 DEF BuildInv
  <2>2. CASE Extract BY <1>2, <2>2, ExtractKept
  <2>3. CASE ExtractFails \/ EvidenceFails \/ MetadataFails \/ SupportBuildFails
    BY <1>2, <2>3, EndKept DEF ExtractFails, EvidenceFails, MetadataFails, SupportBuildFails, Fail
  <2>4. CASE BuildUnits BY <1>2, <2>4, UnitsKept
  <2>5. CASE BuildEvidenceAndBoxes BY <1>2, <2>5, EvidenceKept
  <2>6. CASE BuildMetadata BY <1>2, <2>6, MetadataKept
  <2>7. CASE ApplyGrounding BY <1>2, <2>7, GroundingKept
  <2>8. CASE ApplyDispositions BY <1>2, <2>8, DispositionsKept
  <2>9. CASE BuildPropositions BY <1>2, <2>9, PropositionsKept
  <2>10. CASE BuildGraph BY <1>2, <2>10, GraphKept
  <2>11. CASE ApplyAuthority BY <1>2, <2>11, AuthorityKept
  <2>12. CASE BuildDecisions BY <1>2, <2>12, DecisionsKept
  <2>13. CASE BuildSupport BY <1>2, <2>13, SupportKept
  <2>14. CASE LeaveWrong BY <1>2, <2>14, EndKept DEF LeaveWrong
  <2>15. CASE Validate BY <1>2, <2>15, EndKept DEF Validate
  <2> QED
    BY <1>2, <2>1, <2>2, <2>3, <2>4, <2>5, <2>6, <2>7, <2>8, <2>9, <2>10, <2>11, <2>12, <2>13, <2>14, <2>15
    DEF GateNext, Next, Ended, Judged, gateVars, vars
<1> QED BY <1>1, <1>2, PTL DEF GateSpec

------------------------------------------------------------------------------
(* What a citation says.  The quote of a row of evidence is looked at      *)
(* when it is drawn and when its lines are found; from there on the unit   *)
(* keeps its text, the evidence its quote, its boxes and its lines.        *)

\* Until they are grounded, the units are finitely many and each says something.
UnitsSpoken == \A r \in Roles : IsFiniteSet(table.units[r]) /\ \A u \in table.units[r] : Spoken(u)

\* Evidence quotes what its unit says, its boxes draw, and then its lines say.
QuotesMade ==
    /\ DOMAIN table.evidence = Roles /\ DOMAIN table.chunks = Roles
    /\ \A r \in Roles : /\ QuotesSay(table.units[r], table.evidence[r])
                        /\ \A e \in table.evidence[r] : SaysItsBoxes(r, e)
SpansFound == \A r \in Roles : \A e \in table.evidence[r] : SpansSay(Document(r), e)

BeforeGrounding == {"evidence", "metadata", "grounding"}

QuoteInv ==
    /\ step \in BeforeGrounding => UnitsSpoken
    /\ step \in FromMetadata => QuotesMade
    /\ step \in FromDispositions => SpansFound

\* The steps in their order, to tell what a step still promises.
LEMMA StepsInOrder ==
    /\ FromDispositions = {"dispositions", "propositions", "graph", "authority", "decisions", "support", "built"}
    /\ FromMetadata = {"metadata", "grounding", "dispositions", "propositions", "graph", "authority",
                       "decisions", "support", "built"}
BY DEF FromSupport, FromDecisions, FromAuthority, FromGraph, FromPropositions, FromDispositions, FromGrounding,
       FromMetadata

\* Most builders touch neither units nor evidence.
LEMMA QuotesUntouched ==
    ASSUME QuoteInv, docs' = docs, table'.units = table.units, table'.evidence = table.evidence,
           table'.chunks = table.chunks,
           step' \in BeforeGrounding => step \in BeforeGrounding,
           step' \in FromMetadata => step \in FromMetadata,
           step' \in FromDispositions => step \in FromDispositions
    PROVE  QuoteInv'
<1>1. Roles' = Roles BY DEF Roles
<1>2. UnitsSpoken' = UnitsSpoken /\ QuotesMade' = QuotesMade /\ SpansFound' = SpansFound
      BY <1>1 DEF UnitsSpoken, QuotesMade, SpansFound, Document
<1> QED BY <1>2 DEF QuoteInv

\* The units are those of the document.
LEMMA SpokenMade ==
    ASSUME BuildInv, BuildUnits
    PROVE  QuoteInv'
<1>1. step = "units" /\ step' = "evidence" /\ docs' = docs BY DEF BuildUnits, Go
<1>2. docs \in Corpora /\ DOMAIN table = Artifacts BY <1>1 DEF BuildInv, Building
<1>3. PICK units \in {[r \in Roles |-> LegalUnits(Document(r))]} :
          table' = [table EXCEPT !.units = units,
                        !.chunks = [r \in Roles |-> [id \in {u.id : u \in units[r]} |->
                                       Chunk(CHOOSE u \in units[r] : u.id = id)]]]
      BY DEF BuildUnits
<1>4. table'.units = units BY <1>2, <1>3 DEF Artifacts
<1>5. ASSUME NEW r \in Roles PROVE IsFiniteSet(units[r]) /\ \A u \in units[r] : Spoken(u)
  <2>1. IsSource(r, Document(r)) /\ units[r] = LegalUnits(Document(r)) BY <1>2, <1>3, SourceFacts
  <2>2. OneEach(units[r]) /\ Bounded(Document(r), units[r]) BY <2>1, UnitFacts DEF IsSource
  <2>3. IsFiniteSet(units[r]) BY <2>2, FiniteTable
  <2>4. \A u \in units[r] : Spoken(u) BY <2>1, UnitsWritten DEF IsSource
  <2> QED BY <2>3, <2>4
<1>6. Roles' = Roles BY <1>1 DEF Roles
<1>7. UnitsSpoken' BY <1>4, <1>5, <1>6 DEF UnitsSpoken
<1> QED BY <1>1, <1>7, StepsInOrder DEF QuoteInv

\* Evidence quotes what it is drawn for.
LEMMA QuotesDrawn ==
    ASSUME BuildInv, QuoteInv, BuildEvidenceAndBoxes
    PROVE  QuoteInv'
<1>1. step = "evidence" /\ step' = "metadata" /\ docs' = docs BY DEF BuildEvidenceAndBoxes, Go
<1>2. docs \in Corpora /\ DOMAIN table = Artifacts /\ UnitsMade
      BY <1>1 DEF BuildInv, Building, FromEvidence
<1>3. UnitsSpoken BY <1>1 DEF QuoteInv, BeforeGrounding
<1>4. PICK built \in {[r \in Roles |-> BuildEvidence(Document(r), table.units[r], table.chunks[r])]} :
          table' = [table EXCEPT !.evidence = [r \in Roles |-> built[r].evidence],
                                 !.chunks = [r \in Roles |-> built[r].chunks]]
      BY DEF BuildEvidenceAndBoxes
<1>5. /\ table'.units = table.units /\ table'.evidence = [r \in Roles |-> built[r].evidence]
      /\ table'.chunks = [r \in Roles |-> built[r].chunks]
      BY <1>2, <1>4 DEF Artifacts
<1>6. Roles' = Roles BY <1>1 DEF Roles
<1>7. ASSUME NEW r \in Roles
      PROVE  QuotesSay(table.units[r], built[r].evidence) /\ \A e \in built[r].evidence : SaysItsBoxes(r, e)
  <2>1. Document(r).drawn \in Seq(Seq(Words)) /\ Document(r).role = r BY <1>2, SourceFacts DEF IsSource
  <2>2. built[r] = BuildEvidence(Document(r), table.units[r], table.chunks[r]) BY <1>4
  <2>3. UnitsOf(r, table.units[r]) /\ OneEach(table.units[r]) BY <1>2 DEF UnitsMade
  <2>4. DifferInNumber(table.units[r])
    <3> SUFFICES ASSUME NEW u \in table.units[r], NEW v \in table.units[r]
                 PROVE  u.id[2] \in Int /\ (u.id[2] = v.id[2] => u = v)
        BY DEF DifferInNumber
    <3>1. PICK m \in Nat : u.id = <<r, m>> BY <2>3 DEF UnitsOf
    <3>2. PICK n \in Nat : v.id = <<r, n>> BY <2>3 DEF UnitsOf
    <3> QED BY <2>3, <3>1, <3>2 DEF OneEach
  <2>5. IsFiniteSet(table.units[r]) /\ \A u \in table.units[r] : Spoken(u) BY <1>3 DEF UnitsSpoken
  <2> QED BY <2>1, <2>2, <2>3, <2>4, <2>5, EvidenceSays
<1>8. QuotesMade' BY <1>5, <1>6, <1>7 DEF QuotesMade
<1>9. UnitsSpoken' BY <1>3, <1>5, <1>6 DEF UnitsSpoken
<1> QED BY <1>1, <1>8, <1>9, StepsInOrder DEF QuoteInv

\* Grounding keeps texts and quotes, and finds the lines.
LEMMA QuotesGrounded ==
    ASSUME BuildInv, QuoteInv, ApplyGrounding
    PROVE  QuoteInv'
<1>1. step = "grounding" /\ step' = "dispositions" /\ docs' = docs BY DEF ApplyGrounding, Go
<1>2. docs \in Corpora /\ DOMAIN table = Artifacts /\ UnitsMade /\ EvidenceMade
      BY <1>1 DEF BuildInv, Building, FromEvidence, FromMetadata, FromGrounding
<1>3. UnitsSpoken /\ QuotesMade BY <1>1, StepsInOrder DEF QuoteInv, BeforeGrounding
<1>4. PICK grounded \in {[r \in Roles |-> ApplyChunkGrounding(Document(r), table.units[r], table.chunks[r],
                                                              table.evidence[r])]} :
           table' = [table EXCEPT
               !.conflicts = [r \in Roles |-> {GroundConflict(Document(r), c, table.evidence[r]) :
                                                  c \in Document(r).conflicts}],
               !.units = [r \in Roles |-> grounded[r].units],
               !.chunks = [r \in Roles |-> grounded[r].chunks],
               !.evidence = [r \in Roles |-> grounded[r].evidence],
               !.retrieval = [r \in Roles |-> RetrievalUnits(grounded[r].evidence, grounded[r].chunks)]]
      BY DEF ApplyGrounding
<1>5. /\ table'.units = [r \in Roles |-> grounded[r].units]
      /\ table'.evidence = [r \in Roles |-> grounded[r].evidence]
      /\ table'.chunks = [r \in Roles |-> grounded[r].chunks]
      BY <1>2, <1>4 DEF Artifacts
<1>6. Roles' = Roles BY <1>1 DEF Roles
<1>7. ASSUME NEW r \in Roles
      PROVE  /\ QuotesSay(grounded[r].units, grounded[r].evidence)
             /\ \A e \in grounded[r].evidence : SaysItsBoxes(r, e) /\ SpansSay(Document(r), e)
  <2>1. Document(r).role = r /\ Document(r).drawn \in Seq(Seq(Words)) BY <1>2, SourceFacts DEF IsSource
  <2>2. grounded[r] = ApplyChunkGrounding(Document(r), table.units[r], table.chunks[r], table.evidence[r]) BY <1>4
  <2>3. \A u \in table.units[r] : Written(u) /\ "id" \in DOMAIN u
        BY <1>2, <1>3 DEF UnitsSpoken, Spoken, UnitsMade, UnitsOf
  <2>4. /\ EvidenceOfAll(r, table.units[r], table.evidence[r]) /\ QuotesSay(table.units[r], table.evidence[r])
        /\ \A e \in table.evidence[r] : SaysItsBoxes(r, e)
        BY <1>2, <1>3 DEF EvidenceMade, QuotesMade
  <2> QED BY <2>1, <2>2, <2>3, <2>4, GroundedSays
<1>8. QuotesMade' /\ SpansFound' BY <1>1, <1>5, <1>6, <1>7 DEF QuotesMade, SpansFound, Document
<1> QED BY <1>1, <1>8, StepsInOrder DEF QuoteInv, BeforeGrounding

\* The authority contract keeps the quotes, the boxes and the lines.
LEMMA QuotesAuthorized ==
    ASSUME BuildInv, QuoteInv, ApplyAuthority
    PROVE  QuoteInv'
<1> DEFINE evidence == [r \in Roles |-> AuthorityEvidence(table.evidence[r], table.units[r])]
<1>1. step = "authority" /\ step' = "decisions" /\ docs' = docs BY DEF ApplyAuthority, Go
<1>2. docs \in Corpora /\ DOMAIN table = Artifacts /\ EvidenceMade /\ EvidenceGrounded
      BY <1>1 DEF BuildInv, Building, FromEvidence, FromMetadata, FromGrounding, FromDispositions, FromPropositions,
                  FromGraph, FromAuthority
<1>3. QuotesMade /\ SpansFound BY <1>1, StepsInOrder DEF QuoteInv
<1>4. table'.units = table.units /\ table'.evidence = evidence /\ table'.chunks = table.chunks
      BY <1>2 DEF ApplyAuthority, Artifacts
<1>8. DOMAIN evidence = Roles OBVIOUS
<1>5. Roles' = Roles BY <1>1 DEF Roles
<1>6. ASSUME NEW r \in Roles
      PROVE  /\ QuotesSay(table.units[r], evidence[r])
             /\ \A e \in evidence[r] : SaysItsBoxes(r, e) /\ SpansSay(Document(r), e)
  <2>1. Document(r).role = r BY <1>2, SourceFacts DEF IsSource
  <2>2. EvidenceOfAll(r, table.units[r], table.evidence[r]) /\ QuotesSay(table.units[r], table.evidence[r])
        BY <1>2, <1>3 DEF EvidenceMade, QuotesMade
  <2>3. \A e \in table.evidence[r] : Stands(e) /\ SaysItsBoxes(r, e) /\ SpansSay(Document(r), e)
        BY <1>2, <1>3 DEF EvidenceGrounded, QuotesMade, SpansFound
  <2>4. evidence[r] = AuthorityEvidence(table.evidence[r], table.units[r]) OBVIOUS
  <2> HIDE DEF evidence
  <2> QED BY <2>1, <2>2, <2>3, <2>4, AuthorizedSays
<1> HIDE DEF evidence
<1>7. QuotesMade' /\ SpansFound' BY <1>1, <1>3, <1>4, <1>5, <1>6, <1>8 DEF QuotesMade, SpansFound, Document
<1> QED BY <1>1, <1>7, StepsInOrder DEF QuoteInv, BeforeGrounding

\* A build that has failed or is left to the gate promises nothing of its quotes.
LEMMA QuotesLeft ==
    ASSUME step' \in {"units", "failed", "left wrong", "accepted", "rejected"}
    PROVE  QuoteInv'
BY StepsInOrder DEF QuoteInv, BeforeGrounding

\* The invariant of the quotes, from that of the build.
LEMMA QuoteInvariant == GateSpec => []QuoteInv
<1>1. GateInit => QuoteInv BY StepsInOrder DEF GateInit, Init, QuoteInv, BeforeGrounding
<1>2. ASSUME BuildInv, QuoteInv, [GateNext]_gateVars PROVE QuoteInv'
  <2>1. CASE UNCHANGED <<docs, step, table>> BY <1>2, <2>1, QuotesUntouched
  <2>2. CASE Extract BY <2>2, QuotesLeft DEF Extract, Go
  <2>3. CASE ExtractFails \/ EvidenceFails \/ MetadataFails \/ SupportBuildFails
    BY <2>3, QuotesLeft DEF ExtractFails, EvidenceFails, MetadataFails, SupportBuildFails, Fail
  <2>4. CASE BuildUnits BY <1>2, <2>4, SpokenMade
  <2>5. CASE BuildEvidenceAndBoxes BY <1>2, <2>5, QuotesDrawn
  <2>6. CASE BuildMetadata
    <3>1. step = "metadata" /\ step' = "grounding" /\ docs' = docs BY <2>6 DEF BuildMetadata, Go
    <3>2. DOMAIN table = Artifacts /\ \E rows : table' = [table EXCEPT !["metadata"] = rows]
          BY <1>2, <2>6, <3>1 DEF BuildMetadata, Write, BuildInv, Building, FromEvidence, FromMetadata
    <3>3. table'.units = table.units /\ table'.evidence = table.evidence /\ table'.chunks = table.chunks
          BY <3>2 DEF Artifacts
    <3> QED BY <1>2, <3>1, <3>3, QuotesUntouched, StepsInOrder DEF BeforeGrounding
  <2>7. CASE ApplyGrounding BY <1>2, <2>7, QuotesGrounded
  <2>8. CASE ApplyDispositions
    <3>1. step = "dispositions" /\ step' = "propositions" /\ docs' = docs BY <2>8 DEF ApplyDispositions, Go
    <3>2. /\ DOMAIN table = Artifacts
          /\ \E spans, objects : table' = [table EXCEPT !.spans = spans, !.objects = objects]
          BY <1>2, <2>8, <3>1, StepsInOrder DEF ApplyDispositions, BuildInv, Building, FromEvidence
    <3>3. table'.units = table.units /\ table'.evidence = table.evidence /\ table'.chunks = table.chunks
          BY <3>2 DEF Artifacts
    <3> QED BY <1>2, <3>1, <3>3, QuotesUntouched, StepsInOrder DEF BeforeGrounding
  <2>9. CASE BuildPropositions
    <3>1. step = "propositions" /\ step' = "graph" /\ docs' = docs BY <2>9 DEF BuildPropositions, Go
    <3>2. /\ DOMAIN table = Artifacts
          /\ \E rows, health : table' = [table EXCEPT !.propositions = rows, !.health = health]
          BY <1>2, <2>9, <3>1, StepsInOrder DEF BuildPropositions, BuildInv, Building, FromEvidence
    <3>3. table'.units = table.units /\ table'.evidence = table.evidence /\ table'.chunks = table.chunks
          BY <3>2 DEF Artifacts
    <3> QED BY <1>2, <3>1, <3>3, QuotesUntouched, StepsInOrder DEF BeforeGrounding
  <2>10. CASE BuildGraph
    <3>1. CASE step' = "failed" BY <3>1, QuotesLeft
    <3>2. CASE step' # "failed"
      <4>1. step = "graph" /\ step' = "authority" /\ docs' = docs BY <2>10, <3>2 DEF BuildGraph, Go, Fail
      <4>2. /\ DOMAIN table = Artifacts
            /\ \E nodes, relations, edges :
                   table' = [table EXCEPT !.nodes = nodes, !.relations = relations, !.edges = edges]
            BY <1>2, <2>10, <3>2, <4>1, StepsInOrder DEF BuildGraph, Fail, BuildInv, Building, FromEvidence
      <4>3. table'.units = table.units /\ table'.evidence = table.evidence /\ table'.chunks = table.chunks
            BY <4>2 DEF Artifacts
      <4> QED BY <1>2, <4>1, <4>3, QuotesUntouched, StepsInOrder DEF BeforeGrounding
    <3> QED BY <3>1, <3>2
  <2>11. CASE ApplyAuthority BY <1>2, <2>11, QuotesAuthorized
  <2>12. CASE BuildDecisions \/ BuildSupport
    <3>1. /\ \/ step = "decisions" /\ step' = "support"
             \/ step = "support" /\ step' = "built"
          /\ docs' = docs
          BY <2>12 DEF BuildDecisions, BuildSupport, Go
    <3>2. /\ DOMAIN table = Artifacts
          /\ \E artifact \in {"decisions", "support"} : \E rows : table' = [table EXCEPT ![artifact] = rows]
          BY <1>2, <2>12, <3>1, StepsInOrder
          DEF BuildDecisions, BuildSupport, Write, BuildInv, Building, FromEvidence
    <3>3. table'.units = table.units /\ table'.evidence = table.evidence /\ table'.chunks = table.chunks
          BY <3>2 DEF Artifacts
    <3> QED BY <1>2, <3>1, <3>3, QuotesUntouched, StepsInOrder DEF BeforeGrounding
  <2>13. CASE LeaveWrong BY <2>13, QuotesLeft DEF LeaveWrong
  <2>14. CASE Validate BY <2>14, QuotesLeft DEF Validate
  <2> QED
    BY <1>2, <2>1, <2>2, <2>3, <2>4, <2>5, <2>6, <2>7, <2>8, <2>9, <2>10, <2>11, <2>12, <2>13, <2>14
    DEF GateNext, Next, Ended, Judged, gateVars, vars
<1> QED BY <1>1, <1>2, BuildInvariant, PTL DEF GateSpec

------------------------------------------------------------------------------
(* The gate.  What a builder has left wrong is told by a row that another  *)
(* builder has made of the one that is wrong.                              *)

\* A unit that is lost has left its chunk, a decision the row that needs it, an edge the
\* relation it is of, and the page has a hash of what it said.
Told ==
    /\ wrong = "unit is lost" => \E r \in Roles : DOMAIN table.chunks[r] # {u.id : u \in table.units[r]}
    /\ wrong = "decision is lost" => \E r \in Roles : {x.id : x \in table.decisions[r]} # NeededDecisions(r)
    /\ wrong = "amendment leads elsewhere" =>
           \E e \in table.edges, a \in table.relations : e.relation = a.id /\ ~Leads(e, a)
    /\ wrong = "span says what another does" =>
           \E r \in Roles : /\ DOMAIN table.spans[r] # {}
                            /\ [k \in DOMAIN table.spans[r] |-> table.spans[r][k].text] # PageHash(r)

\* The lines keep their names, whatever is left wrong; what is accepted tells nothing.
GateInv ==
    /\ step \notin {"left wrong", "accepted", "rejected"} => wrong = "nothing"
    /\ step = "left wrong" => Told
    /\ step \in {"left wrong", "accepted"} => \A r \in Roles : Names(Document(r), table.spans[r])
    /\ step = "accepted" => wrong \notin NoticedKinds /\ \A r \in Roles : SpansFit(r)

\* Evidence of a built corpus: its boxes say what it quotes, and so do its lines.
Whole(r, d, names, e) ==
    /\ EvidenceColumns \cup {"spans"} \subseteq DOMAIN e
    /\ SaysItsBoxes(r, e) /\ SpansSay(d, e)
    /\ e.role = r /\ e.unit \in names

\* Evidence as it may be left to the gate: it quotes something, in boxes of its document;
\* unless its quote or its boxes were left wrong, its boxes say the quote, and if the quote
\* was, its lines and its boxes still say the same.
Servable(kind, r, d, names, e) ==
    /\ AreLists(e.quote) /\ Flat(e.quote) # <<>>
    /\ e.role = r /\ \A b \in ToSet(e.boxes) : b.role = r
    /\ e.unit \in names
    /\ kind \notin {"evidence is drawn as another", "evidence quotes another"} => e.quote = TextsOf(e.boxes)
    /\ (kind = "evidence quotes another" /\ e.spans # <<>>)
       => Flat([k \in DOMAIN e.spans |-> Text(d, e.spans[k])]) = DrawnBy(e.boxes)

\* What the rules say that look at evidence.
EvidenceHealthy(r) ==
    /\ EvidenceFits(r) /\ RuntimeSafe(r) /\ PromotionHealthy(r)
    /\ DOMAIN table.chunks[r] = {u.id : u \in Units(r)}

AllServable ==
    \A r \in Roles : \A e \in EvidenceRows(r) : Servable(wrong, r, Document(r), DOMAIN table.chunks[r], e)

ServeInv ==
    /\ step \in {"left wrong", "accepted"} => AllServable
    /\ step = "accepted" => \A r \in Roles : EvidenceHealthy(r)

\* What a report without an error says.
LEMMA NoErrors ==
    ASSUME Errors = {}
    PROVE  GraphHealthy /\ \A r \in Roles : /\ SpansFit(r) /\ ClosureHealthy(r) /\ DecisionsHealthy(r)
                                            /\ EvidenceHealthy(r)
<1>1. ContractErrors = {} /\ HealthErrors = {} BY DEF Errors
<1>2. ASSUME NEW r \in Roles PROVE SpansFit(r) /\ EvidenceFits(r)
  <2> DEFINE Broken(rule) ==
                CASE rule = "raw" -> ~RawSpansFit(r)
                  [] rule = "spans" -> ~SpansFit(r)
                  [] rule = "evidence" -> ~EvidenceFits(r)
                  [] rule = "selectors" -> ~SelectorsFit(r)
                  [] OTHER -> ~SignatoriesFit(r)
  <2>1. {rule \in {"raw", "spans", "evidence", "selectors", "signatories"} : Broken(rule)} = {}
        BY <1>1 DEF ContractErrors
  <2>2. ~Broken("spans") /\ ~Broken("evidence")
    <3> HIDE DEF Broken
    <3> QED BY <2>1
  <2> QED BY <2>2
<1>3. ASSUME NEW r \in Roles
      PROVE  ClosureHealthy(r) /\ DecisionsHealthy(r) /\ RuntimeSafe(r) /\ PromotionHealthy(r)
  <2> DEFINE Broken(rule) ==
               CASE rule = "geometry" -> ~RawGeometryHealthy(r)
                 [] rule = "closure" -> ~ClosureHealthy(r)
                 [] rule = "structure" -> ~StructureHealthy(r)
                 [] rule = "precedence" -> ~PrecedenceHealthy(r)
                 [] rule = "runtime" -> ~RuntimeSafe(r)
                 [] rule = "exact" -> ~SafeExactPublished(r)
                 [] rule = "precision" -> ~PrecisionHealthy(r)
                 [] rule = "promotion" -> ~PromotionHealthy(r)
                 [] rule = "decisions" -> ~DecisionsHealthy(r)
                 [] OTHER -> ~SelectorsHealthy(r)
  <2>1. {rule \in {"geometry", "closure", "structure", "precedence", "runtime", "exact", "precision", "promotion",
                   "decisions", "places"} : Broken(rule)} = {}
        BY <1>1 DEF HealthErrors
  <2>2. ~Broken("closure") /\ ~Broken("decisions") /\ ~Broken("runtime") /\ ~Broken("promotion")
    <3> HIDE DEF Broken
    <3> QED BY <2>1
  <2> QED BY <2>2
<1>4. GraphHealthy
  <2>1. "graph" \notin {rule \in {"objects", "no spans", "graph", "policy"} :
               CASE rule = "objects" -> ~ObjectsHealthy
                 [] rule = "no spans" -> ~SomeSpans
                 [] rule = "graph" -> ~GraphHealthy
                 [] OTHER -> ~RelationPolicyHealthy}
        BY <1>1 DEF HealthErrors
  <2> QED BY <2>1
<1>5. \A r \in Roles : EvidenceHealthy(r) BY <1>2, <1>3 DEF EvidenceHealthy, ClosureHealthy
<1> QED BY <1>2, <1>3, <1>4, <1>5

\* A report without an error finds nothing told.
LEMMA ToldIsAnError ==
    ASSUME Told, Errors = {}
    PROVE  wrong \notin NoticedKinds
<1>1. \A r \in Roles : DOMAIN table.chunks[r] = {u.id : u \in table.units[r]}
      BY NoErrors DEF ClosureHealthy, Units
<1>2. \A r \in Roles : {x.id : x \in table.decisions[r]} = NeededDecisions(r) BY NoErrors DEF DecisionsHealthy
<1>3. \A e \in table.edges, a \in table.relations : e.relation = a.id => Leads(e, a) BY NoErrors DEF GraphHealthy
<1>4. ASSUME NEW r \in Roles, DOMAIN table.spans[r] # {}
      PROVE  [k \in DOMAIN table.spans[r] |-> table.spans[r][k].text] = PageHash(r)
  <2>1. SpanRows(r) # {} => [k \in DOMAIN table.spans[r] |-> table.spans[r][k].text] = PageHash(r)
        BY NoErrors DEF SpansFit
  <2> QED BY <1>4, <2>1 DEF SpanRows, ToSet
<1> QED BY <1>1, <1>2, <1>3, <1>4 DEF Told, NoticedKinds

IsReplacement(kind, s, t, w) == w.id = s.id /\ (kind = "span says what another does" => w.text = t.text)

\* A line that is left wrong keeps its name.
LEMMA WrongSpanFacts ==
    ASSUME NEW kind \in SpanKinds, NEW s, NEW t, SpanColumns \subseteq DOMAIN s
    PROVE  IsReplacement(kind, s, t, WrongSpan(kind, s, t))
<1>1. {"id", "text"} \subseteq DOMAIN s BY DEF SpanColumns
<1> DEFINE aside == [status |-> "needs_review"]
           heading == [status |-> "excluded_structural", role |-> "structural_heading"]
           shifted == [start |-> s.start + 1]
           said == [text |-> t.text]
<1>2. With(aside, s).id = s.id
  <2>1. DOMAIN aside = {"status"} OBVIOUS
  <2> HIDE DEF aside
  <2> QED BY <1>1, <2>1 DEF With
<1>3. With(heading, s).id = s.id
  <2>1. DOMAIN heading = {"status", "role"} OBVIOUS
  <2> HIDE DEF heading
  <2> QED BY <1>1, <2>1 DEF With
<1>4. With(shifted, s).id = s.id
  <2>1. DOMAIN shifted = {"start"} OBVIOUS
  <2> HIDE DEF shifted
  <2> QED BY <1>1, <2>1 DEF With
<1>5. With(said, s).id = s.id /\ With(said, s).text = t.text
  <2>1. DOMAIN said = {"text"} /\ said.text = t.text OBVIOUS
  <2> HIDE DEF said
  <2> QED BY <1>1, <2>1 DEF With
<1>6. /\ kind = "span is set aside" => WrongSpan(kind, s, t) = With(aside, s)
      /\ kind = "span is a heading" => WrongSpan(kind, s, t) = With(heading, s)
      /\ kind = "span is shifted" => WrongSpan(kind, s, t) = With(shifted, s)
      /\ kind = "span says what another does" => WrongSpan(kind, s, t) = With(said, s)
      BY DEF WrongSpan
<1> HIDE DEF aside, heading, shifted, said
<1> QED BY <1>2, <1>3, <1>4, <1>5, <1>6 DEF SpanKinds, IsReplacement

\* Whatever row is left wrong, the lines keep their names and what tells is there.
LEMMA WrongIsTold ==
    ASSUME BuildInv, LeaveWrong
    PROVE  Told' /\ \A r \in Roles' : Names(Document(r), table.spans[r])'
<1>1. docs' = docs /\ step = "built" BY DEF LeaveWrong
<1>2. DOMAIN table = Artifacts /\ UnitsMade /\ PagesDisposed /\ AmendmentsLead /\ DecisionsMade
      BY <1>1 DEF BuildInv, Building, FromSupport, FromDecisions, FromAuthority, FromGraph, FromPropositions,
                  FromDispositions, FromGrounding, FromMetadata, FromEvidence
<1>3. Roles' = Roles /\ \A r : Document(r)' = Document(r) BY <1>1 DEF Roles, Document
<1>4. ASSUME table'.spans = table.spans PROVE \A r \in Roles' : Names(Document(r), table.spans[r])'
      BY <1>2, <1>3, <1>4 DEF PagesDisposed, Shows, Names
<1>5. ASSUME wrong' \notin NoticedKinds PROVE Told' BY <1>5 DEF Told, NoticedKinds
<1>6. ASSUME NEW r \in Roles, LeaveEvidence(r) PROVE Told' /\ table'.spans = table.spans
  <2>1. wrong' \in EvidenceKinds BY <1>6 DEF LeaveEvidence
  <2>2. table'.spans = table.spans BY <1>2, <1>6 DEF LeaveEvidence, Replaced, Artifacts
  <2> QED BY <1>5, <2>1, <2>2 DEF EvidenceKinds, NoticedKinds
<1>7. ASSUME NEW r \in Roles, LeaveUnit(r) PROVE Told' /\ table'.spans = table.spans
  <2>1. PICK kind \in UnitKinds, u \in Units(r), v \in Units(r) :
            Replaced("units", r, u, WrongUnit(kind, u, v)) /\ wrong' = kind
        BY <1>7 DEF LeaveUnit
  <2>2. /\ table'.spans = table.spans /\ table'.chunks = table.chunks
        /\ table'.units[r] = (table.units[r] \ {u}) \cup WrongUnit(kind, u, v)
        BY <1>2, <2>1 DEF Replaced, Artifacts, UnitsMade
  <2>3. CASE kind = "unit is lost"
    <3>1. table'.units[r] = table.units[r] \ {u} BY <2>2, <2>3 DEF WrongUnit
    <3>2. u.id \in DOMAIN table'.chunks[r] BY <1>2, <2>2 DEF UnitsMade, Units
    <3>3. u.id \notin {x.id : x \in table'.units[r]} BY <1>2, <3>1 DEF UnitsMade, OneEach, Units
    <3>4. DOMAIN table'.chunks[r] # {x.id : x \in table'.units[r]} BY <3>2, <3>3
    <3> QED BY <1>3, <2>1, <2>2, <2>3, <3>4 DEF Told
  <2>4. CASE kind # "unit is lost" BY <1>5, <2>1, <2>2, <2>4 DEF UnitKinds, NoticedKinds
  <2> QED BY <2>3, <2>4
<1>8. ASSUME NEW r \in Roles, LeaveChunk(r) PROVE Told' /\ table'.spans = table.spans
  <2>1. wrong' = "chunk may not be loaded" /\ table'.spans = table.spans
        BY <1>2, <1>8 DEF LeaveChunk, Artifacts
  <2> QED BY <1>5, <2>1 DEF NoticedKinds
<1>9. ASSUME NEW r \in Roles, LeaveSpan(r)
      PROVE  Told' /\ \A q \in Roles' : Names(Document(q), table.spans[q])'
  <2>1. PICK kind \in SpanKinds, k \in DOMAIN table.spans[r], t \in SpanRows(r) :
            /\ kind = "span says what another does" => t.text # table.spans[r][k].text
            /\ table' = [table EXCEPT !.spans[r][k] = WrongSpan(kind, @, t)]
            /\ wrong' = kind
        BY <1>9 DEF LeaveSpan
  <2> DEFINE w == WrongSpan(kind, table.spans[r][k], t)
             page == [table.spans[r] EXCEPT ![k] = w]
  <2>2. table'.spans = [table.spans EXCEPT ![r] = page] BY <1>2, <2>1 DEF Artifacts
  <2>3. SpanColumns \subseteq DOMAIN table.spans[r][k] BY <1>2, <2>1 DEF PagesDisposed, IsPage, IsSpan
  <2>4. w.id = table.spans[r][k].id /\ (kind = "span says what another does" => w.text = t.text)
    <3>1. kind \in SpanKinds BY <2>1
    <3>2. IsReplacement(kind, table.spans[r][k], t, w) BY <2>3, <3>1, WrongSpanFacts
    <3> QED BY <3>2 DEF IsReplacement
  <2>c. kind \in SpanKinds /\ wrong' = kind BY <2>1
  <2> HIDE DEF w
  <2>a. /\ DOMAIN page = DOMAIN table.spans[r] /\ page[k] = w
        /\ \A j \in DOMAIN table.spans[r] : j # k => page[j] = table.spans[r][j]
        BY <2>1
  <2> HIDE DEF page
  <2>b. table'.spans[r] = page /\ \A q \in Roles : q # r => table'.spans[q] = table.spans[q]
        BY <1>2, <2>2 DEF PagesDisposed
  <2>5. /\ DOMAIN table'.spans[r] = DOMAIN table.spans[r] /\ table'.spans[r][k] = w
        /\ \A j \in DOMAIN table.spans[r] : j # k => table'.spans[r][j] = table.spans[r][j]
        /\ \A q \in Roles : q # r => table'.spans[q] = table.spans[q]
        BY <2>a, <2>b
  <2>6. \A q \in Roles' : Names(Document(q), table.spans[q])'
    <3>1. \A q \in Roles : Names(Document(q), table.spans[q]) BY <1>2 DEF PagesDisposed, Shows
    <3>2. ASSUME NEW q \in Roles PROVE Names(Document(q), table'.spans[q])
      <4>1. CASE q = r
        <5>1. /\ DOMAIN table.spans[r] = DOMAIN PageTextSpans(Document(r))
              /\ \A j \in DOMAIN table.spans[r] : table.spans[r][j].id = PageTextSpans(Document(r))[j].id
              BY <3>1 DEF Names
        <5>2. \A j \in DOMAIN table'.spans[r] : table'.spans[r][j].id = PageTextSpans(Document(r))[j].id
          <6> TAKE j \in DOMAIN table'.spans[r]
          <6>1. CASE j = k BY <2>4, <2>5, <5>1, <6>1
          <6>2. CASE j # k BY <2>5, <5>1, <6>2
          <6> QED BY <6>1, <6>2
        <5> QED BY <2>5, <4>1, <5>1, <5>2 DEF Names
      <4>2. CASE q # r BY <2>5, <3>1, <4>2 DEF Names
      <4> QED BY <4>1, <4>2
    <3> QED BY <1>3, <3>2 DEF Names
  <2>7. CASE kind = "span says what another does"
    <3>1. DOMAIN table.spans[r] = DOMAIN PageTextSpans(Document(r))
          /\ table.spans[r][k].text = PageTextSpans(Document(r))[k].text
          BY <1>2, <2>1 DEF PagesDisposed, Shows, Names
    <3>2. PageHash(r)[k] = table.spans[r][k].text BY <2>1, <3>1 DEF PageHash
    <3>3. [j \in DOMAIN table'.spans[r] |-> table'.spans[r][j].text][k] = t.text BY <2>1, <2>4, <2>5, <2>7
    <3>4. [j \in DOMAIN table'.spans[r] |-> table'.spans[r][j].text] # PageHash(r) BY <2>1, <2>7, <3>2, <3>3
    <3>5. PageHash(r)' = PageHash(r) BY <1>1 DEF PageHash, Document
    <3> QED BY <1>3, <2>1, <2>5, <2>6, <2>7, <2>c, <3>4, <3>5 DEF Told
  <2>8. CASE kind # "span says what another does" BY <1>5, <2>6, <2>8, <2>c DEF SpanKinds, NoticedKinds
  <2> QED BY <2>6, <2>7, <2>8
<1>10. ASSUME NEW r \in Roles, LeaveProposition(r) PROVE Told' /\ table'.spans = table.spans
  <2>1. wrong' = "clause is drawn as another" /\ table'.spans = table.spans
        BY <1>2, <1>10 DEF LeaveProposition, Replaced, Artifacts
  <2> QED BY <1>5, <2>1 DEF NoticedKinds
<1>11. ASSUME NEW r \in Roles, LoseDecision(r) PROVE Told' /\ table'.spans = table.spans
  <2>1. PICK x \in table.decisions[r] : Replaced("decisions", r, x, {}) /\ wrong' = "decision is lost"
        BY <1>11 DEF LoseDecision
  <2>2. /\ table'.spans = table.spans /\ table'.evidence = table.evidence
        /\ table'.metadata = table.metadata /\ table'.relations = table.relations
        /\ table'.decisions[r] = table.decisions[r] \ {x}
        BY <1>2, <2>1 DEF Replaced, Artifacts, DecisionsMade
  <2>3. NeededDecisions(r)' = NeededDecisions(r) BY <2>2 DEF NeededDecisions, EvidenceRows
  <2>4. x.id \in NeededDecisions(r) /\ x.id \notin {y.id : y \in table'.decisions[r]}
    <3>1. x.id \in {y.id : y \in table.decisions[r]} BY <2>1
    <3>2. {y.id : y \in table.decisions[r]} = NeededDecisions(r) /\ OneEach(table.decisions[r])
          BY <1>2 DEF DecisionsMade
    <3>3. \A y \in table'.decisions[r] : y.id # x.id BY <2>1, <2>2, <3>2 DEF OneEach
    <3> QED BY <3>1, <3>2, <3>3
  <2>5. {y.id : y \in table'.decisions[r]} # NeededDecisions(r)' BY <2>3, <2>4
  <2> QED BY <1>3, <2>1, <2>2, <2>5 DEF Told
<1>12. ASSUME LeaveRelation PROVE Told' /\ table'.spans = table.spans
  <2>1. wrong' = "relation is exact" /\ table'.spans = table.spans
        BY <1>2, <1>12 DEF LeaveRelation, Artifacts
  <2> QED BY <1>5, <2>1 DEF NoticedKinds
<1>13. ASSUME LeadElsewhere PROVE Told' /\ table'.spans = table.spans
  <2>1. PICK e \in table.edges, n \in table.nodes :
            /\ n # e.to /\ \E a \in table.relations : a.id = e.relation
            /\ table' = [table EXCEPT !.edges = (@ \ {e}) \cup {[e EXCEPT !.to = n]}]
            /\ wrong' = "amendment leads elsewhere"
        BY <1>13 DEF LeadElsewhere
  <2>2. PICK a \in table.relations : a.id = e.relation BY <2>1
  <2> DEFINE f == [e EXCEPT !.to = n]
  <2>3. f \in table'.edges /\ table'.relations = table.relations /\ table'.spans = table.spans
        BY <1>2, <2>1 DEF Artifacts
  <2>4. /\ f.to = n /\ f.from = e.from /\ f.relation = e.relation /\ f.derived = e.derived
        BY <1>2 DEF AmendmentsLead, EdgeColumns
  <2> HIDE DEF f
  <2>5. Leads(e, a) BY <1>2, <2>2 DEF AmendmentsLead, Leading
  <2>6. ~Leads(f, a) BY <2>1, <2>4, <2>5 DEF Leads
  <2> QED BY <2>1, <2>2, <2>3, <2>4, <2>6 DEF Told
<1> QED BY <1>4, <1>6, <1>7, <1>8, <1>9, <1>10, <1>11, <1>12, <1>13 DEF LeaveWrong

\* The invariant of the gate.
LEMMA GateInvariant == GateSpec => []GateInv
<1>1. GateInit => GateInv BY DEF GateInit, Init, GateInv
<1>2. ASSUME BuildInv, GateInv, [GateNext]_gateVars PROVE GateInv'
  <2>1. CASE UNCHANGED gateVars
    <3>1. docs' = docs /\ step' = step /\ table' = table /\ wrong' = wrong /\ Roles' = Roles
          BY <2>1 DEF gateVars, Roles
    <3>2. Told' = Told BY <3>1 DEF Told, NeededDecisions, EvidenceRows, PageHash, Document
    <3>3. \A r : /\ SpansFit(r)' = SpansFit(r)
                 /\ Names(Document(r), table.spans[r])' = Names(Document(r), table.spans[r])
          BY <3>1 DEF SpansFit, SpanRows, EvidenceRows, PageHash, Document, Names
    <3> QED BY <1>2, <3>1, <3>2, <3>3 DEF GateInv
  <2>2. CASE Next /\ UNCHANGED wrong
    <3>1. CASE Ended BY <2>1, <2>2, <3>1 DEF Ended, vars, gateVars
    <3>2. CASE ~Ended
      <4>1. step \notin {"left wrong", "accepted", "rejected"} /\ step' \notin {"left wrong", "accepted", "rejected"}
        BY <2>2, <3>2
        DEF Next, Extract, ExtractFails, BuildUnits, BuildEvidenceAndBoxes, EvidenceFails, BuildMetadata, MetadataFails,
            ApplyGrounding, ApplyDispositions, BuildPropositions, BuildGraph, ApplyAuthority, BuildDecisions,
            BuildSupport, SupportBuildFails, Go, Fail
      <4> QED BY <1>2, <2>2, <4>1 DEF GateInv
    <3> QED BY <3>1, <3>2
  <2>3. CASE LeaveWrong
    <3>1. step' = "left wrong" BY <2>3 DEF LeaveWrong
    <3> QED BY <1>2, <2>3, <3>1, WrongIsTold DEF GateInv
  <2>4. CASE Validate
    <3>1. /\ step \in {"built", "left wrong"} /\ step' = IF Errors = {} THEN "accepted" ELSE "rejected"
          /\ docs' = docs /\ table' = table /\ wrong' = wrong /\ Roles' = Roles
          BY <2>4 DEF Validate, Roles
    <3>2. CASE Errors # {} BY <3>1, <3>2 DEF GateInv
    <3>3. CASE Errors = {}
      <4>1. wrong \notin NoticedKinds
        <5>1. CASE step = "built" BY <1>2, <5>1 DEF GateInv, NoticedKinds
        <5>2. CASE step = "left wrong" BY <1>2, <3>3, <5>2, ToldIsAnError DEF GateInv
        <5> QED BY <3>1, <5>1, <5>2
      <4>2. \A r \in Roles : SpansFit(r) BY <3>3, NoErrors
      <4>3. ASSUME NEW r \in Roles PROVE Names(Document(r), table.spans[r])
        <5>1. CASE step = "built"
          <6>1. PagesDisposed
            BY <1>2, <5>1 DEF BuildInv, FromSupport, FromDecisions, FromAuthority, FromGraph, FromPropositions
          <6> QED BY <6>1 DEF PagesDisposed, Shows
        <5>2. CASE step = "left wrong" BY <1>2, <5>2 DEF GateInv
        <5> QED BY <3>1, <5>1, <5>2
      <4>4. \A r \in Roles : SpansFit(r)' /\ Names(Document(r), table.spans[r])'
        <5>0. docs' = docs /\ table' = table BY <3>1
        <5>1. \A r : /\ SpansFit(r)' = SpansFit(r)
                     /\ Names(Document(r), table.spans[r])' = Names(Document(r), table.spans[r])
              BY <5>0 DEF SpansFit, SpanRows, EvidenceRows, PageHash, Document, Names
        <5> QED BY <4>2, <4>3, <5>1
      <4> QED BY <3>1, <3>3, <4>1, <4>4 DEF GateInv, NoticedKinds
    <3> QED BY <3>2, <3>3
  <2>5. CASE Judged BY <2>1, <2>5 DEF Judged
  <2> QED BY <1>2, <2>1, <2>2, <2>3, <2>4, <2>5 DEF GateNext
<1> QED BY <1>1, <1>2, BuildInvariant, PTL DEF GateSpec

\* On a page with the names and the texts of its document, lines say what they say there.
LEMMA LinesSay ==
    ASSUME NEW r, Names(Document(r), table.spans[r]), SpansFit(r), NEW lines, ToSet(lines) \subseteq PageLines(r)
    PROVE  SaidBy(r, lines) = Flat([k \in DOMAIN lines |-> Text(Document(r), lines[k])])
<1> DEFINE d == Document(r)
           rows == table.spans[r]
<1>1. ASSUME NEW k \in DOMAIN rows PROVE rows[k].text = Text(d, rows[k].id[2])
  <2>1. SpanRows(r) # {} BY DEF SpanRows, ToSet
  <2>2. [j \in DOMAIN rows |-> rows[j].text] = [j \in DOMAIN PageTextSpans(d) |-> PageTextSpans(d)[j].text]
        BY <2>1 DEF SpansFit, PageHash
  <2>3. [j \in DOMAIN rows |-> rows[j].text][k] = rows[k].text OBVIOUS
  <2>4. k \in DOMAIN PageTextSpans(d) /\ rows[k].id = PageTextSpans(d)[k].id BY DEF Names
  <2>5. [j \in DOMAIN PageTextSpans(d) |-> PageTextSpans(d)[j].text][k] = PageTextSpans(d)[k].text BY <2>4
  <2>6. PageTextSpans(d)[k].text = Text(d, PageTextSpans(d)[k].id[2])
    <3>1. PICK i : PageTextSpans(d)[k] = Span(d, i) BY <2>4 DEF PageTextSpans
    <3>2. Span(d, i).text = Text(d, i) /\ Span(d, i).id = <<d.role, i>> BY DEF Span
    <3> QED BY <3>1, <3>2
  <2> HIDE DEF d, rows
  <2> QED BY <2>2, <2>3, <2>4, <2>5, <2>6
<1>2. ASSUME NEW i \in PageLines(r) PROVE SpanAt(r, i).text = Text(d, i)
  <2>1. SpanAt(r, i) \in SpanRows(r) /\ SpanAt(r, i).id[2] = i BY DEF SpanAt, PageLines
  <2>2. PICK k \in DOMAIN rows : SpanAt(r, i) = rows[k] BY <2>1 DEF SpanRows, ToSet
  <2> QED BY <1>1, <2>1, <2>2
<1> HIDE DEF d
<1>3. \A k \in DOMAIN lines : lines[k] \in PageLines(r) BY DEF ToSet
<1>4. [k \in DOMAIN lines |-> IF lines[k] \in PageLines(r) THEN SpanAt(r, lines[k]).text ELSE <<>>]
          = [k \in DOMAIN lines |-> Text(d, lines[k])]
      BY <1>2, <1>3
<1> QED BY <1>4 DEF SaidBy, d

\* The evidence of a built corpus is whole.
LEMMA BuiltWhole ==
    ASSUME BuildInv, QuoteInv, step = "built"
    PROVE  \A r \in Roles : \A e \in table.evidence[r] : Whole(r, Document(r), DOMAIN table.chunks[r], e)
<1>1. UnitsMade /\ EvidenceMade /\ EvidenceGrounded
      BY DEF BuildInv, FromSupport, FromDecisions, FromAuthority, FromGraph, FromPropositions,
             FromDispositions, FromGrounding, FromMetadata, FromEvidence
<1>2. QuotesMade /\ SpansFound BY StepsInOrder DEF QuoteInv
<1> SUFFICES ASSUME NEW r \in Roles, NEW e \in table.evidence[r]
             PROVE  Whole(r, Document(r), DOMAIN table.chunks[r], e)
    OBVIOUS
<1>3. IsEvidence(r, table.units[r], e) /\ Stands(e) BY <1>1 DEF EvidenceMade, EvidenceOfAll, EvidenceGrounded
<1>4. EvidenceColumns \cup {"spans"} \subseteq DOMAIN e /\ e.role = r BY <1>3 DEF IsEvidence, Stands
<1>5. e.unit \in DOMAIN table.chunks[r] BY <1>1, <1>3 DEF UnitsMade, IsEvidence
<1>6. SaysItsBoxes(r, e) /\ SpansSay(Document(r), e) BY <1>2 DEF QuotesMade, SpansFound
<1> QED BY <1>4, <1>5, <1>6 DEF Whole

\* Whole evidence can be served whatever other row is left wrong.
LEMMA WholeServable ==
    ASSUME NEW r, NEW d, NEW names, NEW e, Whole(r, d, names, e), NEW kind
    PROVE  Servable(kind, r, d, names, e)
<1>1. DrawnBy(e.boxes) = Flat(TextsOf(e.boxes)) BY DEF DrawnBy, TextsOf
<1> QED BY <1>1 DEF Whole, Servable, SaysItsBoxes, SpansSay

\* What stands in the place of whole evidence is servable for what it is.
LEMMA WrongServable ==
    ASSUME NEW r, NEW d, NEW names, NEW e, NEW f, Whole(r, d, names, e), Whole(r, d, names, f),
           NEW kind \in EvidenceKinds, NEW w \in WrongEvidence(kind, e, f)
    PROVE  Servable(kind, r, d, names, w)
<1>1. EvidenceColumns \cup {"spans"} \subseteq DOMAIN e /\ EvidenceColumns \cup {"spans"} \subseteq DOMAIN f BY DEF Whole
<1>2. CASE kind = "evidence stands on lines of another"
  <2>1. w = [e EXCEPT !.spans = f.spans] BY <1>2 DEF WrongEvidence
  <2>2. w.quote = e.quote /\ w.role = e.role /\ w.boxes = e.boxes /\ w.unit = e.unit
        BY <1>1, <2>1 DEF EvidenceColumns
  <2> QED BY <1>2, <2>2 DEF Whole, Servable, SaysItsBoxes
<1>3. CASE kind = "evidence is drawn as another"
  <2>1. w = [e EXCEPT !.boxes = f.boxes] BY <1>3 DEF WrongEvidence
  <2>2. w.quote = e.quote /\ w.role = e.role /\ w.boxes = f.boxes /\ w.unit = e.unit
        BY <1>1, <2>1 DEF EvidenceColumns
  <2> QED BY <1>3, <2>2 DEF Whole, Servable, SaysItsBoxes
<1>4. CASE kind = "evidence quotes another"
  <2>1. w = [e EXCEPT !.quote = f.quote] BY <1>4 DEF WrongEvidence
  <2>2. w.quote = f.quote /\ w.role = e.role /\ w.boxes = e.boxes /\ w.unit = e.unit /\ w.spans = e.spans
        BY <1>1, <2>1 DEF EvidenceColumns
  <2>3. DrawnBy(e.boxes) = Flat(TextsOf(e.boxes)) BY DEF DrawnBy, TextsOf
  <2> QED BY <1>4, <2>2, <2>3 DEF Whole, Servable, SaysItsBoxes, SpansSay
<1>5. CASE kind = "evidence is another's"
  <2>1. w = [f EXCEPT !.unit = e.unit] BY <1>5 DEF WrongEvidence
  <2>2. w.quote = f.quote /\ w.role = f.role /\ w.boxes = f.boxes /\ w.unit = e.unit
        BY <1>1, <2>1 DEF EvidenceColumns
  <2> QED BY <1>5, <2>2 DEF Whole, Servable, SaysItsBoxes
<1>6. CASE kind = "evidence is citable"
  <2>1. w = [e EXCEPT !.citable = TRUE, !.quotable = TRUE] BY <1>6 DEF WrongEvidence
  <2>2. w.quote = e.quote /\ w.role = e.role /\ w.boxes = e.boxes /\ w.unit = e.unit
        BY <1>1, <2>1 DEF EvidenceColumns
  <2> QED BY <1>6, <2>2 DEF Whole, Servable, SaysItsBoxes
<1>7. CASE kind = "evidence is lost" BY <1>7 DEF WrongEvidence
<1> QED BY <1>2, <1>3, <1>4, <1>5, <1>6, <1>7 DEF EvidenceKinds

\* What is left wrong is one row: all other evidence is as it was built, and the chunks keep
\* their names.
LEMMA OneRowIsWrong ==
    ASSUME DOMAIN table = Artifacts, DOMAIN table.evidence = Roles, DOMAIN table.chunks = Roles, LeaveWrong
    PROVE  \A r \in Roles :
               /\ DOMAIN table'.chunks[r] = DOMAIN table.chunks[r]
               /\ \A w \in table'.evidence[r] :
                      \/ w \in table.evidence[r]
                      \/ \E e, f \in table.evidence[r] :
                             wrong' \in EvidenceKinds /\ w \in WrongEvidence(wrong', e, f)
<1> DEFINE AsBuilt(q) == /\ DOMAIN table'.chunks[q] = DOMAIN table.chunks[q]
                      /\ \A w \in table'.evidence[q] :
                             \/ w \in table.evidence[q]
                             \/ \E e, f \in table.evidence[q] :
                                    wrong' \in EvidenceKinds /\ w \in WrongEvidence(wrong', e, f)
<1>1. ASSUME table'.evidence = table.evidence, table'.chunks = table.chunks PROVE \A q \in Roles : AsBuilt(q) BY <1>1
<1>2. ASSUME NEW r \in Roles, LeaveEvidence(r) PROVE \A q \in Roles : AsBuilt(q)
  <2>1. PICK kind \in EvidenceKinds, e \in EvidenceRows(r), f \in EvidenceRows(r) :
            Replaced("evidence", r, e, WrongEvidence(kind, e, f)) /\ wrong' = kind
        BY <1>2 DEF LeaveEvidence
  <2> DEFINE by == WrongEvidence(kind, e, f)
  <2>2. table' = [table EXCEPT !["evidence"][r] = (@ \ {e}) \cup by] BY <2>1 DEF Replaced
  <2> HIDE DEF by
  <2>3. /\ table'.evidence = [table.evidence EXCEPT ![r] = (@ \ {e}) \cup by]
        /\ table'.chunks = table.chunks
        BY <2>2 DEF Artifacts
  <2>4. /\ table'.evidence[r] = (table.evidence[r] \ {e}) \cup by
        /\ \A q \in Roles : q # r => table'.evidence[q] = table.evidence[q]
        BY <2>3
  <2>5. e \in table.evidence[r] /\ f \in table.evidence[r] BY <2>1 DEF EvidenceRows
  <2>6. \A w \in by : wrong' \in EvidenceKinds /\ w \in WrongEvidence(wrong', e, f) BY <2>1 DEF by
  <2>7. ASSUME NEW q \in Roles PROVE AsBuilt(q)
    <3>1. CASE q = r BY <2>3, <2>4, <2>5, <2>6, <3>1
    <3>2. CASE q # r BY <2>3, <2>4, <3>2
    <3> QED BY <3>1, <3>2
  <2> QED BY <2>7
<1>3. ASSUME NEW r \in Roles, LeaveUnit(r) PROVE \A q \in Roles : AsBuilt(q)
  <2>1. table'.evidence = table.evidence /\ table'.chunks = table.chunks
        BY <1>3 DEF LeaveUnit, Replaced, Artifacts
  <2> QED BY <1>1, <2>1
<1>4. ASSUME NEW r \in Roles, LeaveChunk(r) PROVE \A q \in Roles : AsBuilt(q)
  <2>1. PICK id \in DOMAIN table.chunks[r] : table' = [table EXCEPT !.chunks[r][id].loadable = FALSE]
        BY <1>4 DEF LeaveChunk
  <2> DEFINE chunks == [table.chunks[r] EXCEPT ![id].loadable = FALSE]
  <2>2. DOMAIN chunks = DOMAIN table.chunks[r] OBVIOUS
  <2>3. table'.evidence = table.evidence /\ table'.chunks = [table.chunks EXCEPT ![r] = chunks]
        BY <2>1 DEF Artifacts
  <2> HIDE DEF chunks
  <2>4. \A q \in Roles : DOMAIN table'.chunks[q] = DOMAIN table.chunks[q] BY <2>2, <2>3
  <2> QED BY <2>3, <2>4
<1>5. ASSUME NEW r \in Roles, LeaveSpan(r) PROVE \A q \in Roles : AsBuilt(q)
  <2>1. table'.evidence = table.evidence /\ table'.chunks = table.chunks BY <1>5 DEF LeaveSpan, Artifacts
  <2> QED BY <1>1, <2>1
<1>6. ASSUME NEW r \in Roles, LeaveProposition(r) \/ LoseDecision(r) PROVE \A q \in Roles : AsBuilt(q)
  <2>1. table'.evidence = table.evidence /\ table'.chunks = table.chunks
        BY <1>6 DEF LeaveProposition, LoseDecision, Replaced, Artifacts
  <2> QED BY <1>1, <2>1
<1>7. ASSUME LeaveRelation \/ LeadElsewhere PROVE \A q \in Roles : AsBuilt(q)
  <2>1. table'.evidence = table.evidence /\ table'.chunks = table.chunks
        BY <1>7 DEF LeaveRelation, LeadElsewhere, Artifacts
  <2> QED BY <1>1, <2>1
<1>8. \A q \in Roles : AsBuilt(q)
  <2> HIDE DEF AsBuilt
  <2> QED BY <1>2, <1>3, <1>4, <1>5, <1>6, <1>7 DEF LeaveWrong
<1> QED BY <1>8

\* So all evidence is servable for what was left wrong.
LEMMA WrongIsServable ==
    ASSUME BuildInv, QuoteInv, LeaveWrong
    PROVE  AllServable'
<1>1. docs' = docs /\ step = "built" BY DEF LeaveWrong
<1>2. DOMAIN table = Artifacts
      BY <1>1 DEF BuildInv, Building, FromSupport, FromDecisions, FromAuthority, FromGraph, FromPropositions,
                  FromDispositions, FromGrounding, FromMetadata, FromEvidence
<1>3. DOMAIN table.evidence = Roles /\ DOMAIN table.chunks = Roles BY <1>1, StepsInOrder DEF QuoteInv, QuotesMade
<1>4. \A r \in Roles : \A e \in table.evidence[r] : Whole(r, Document(r), DOMAIN table.chunks[r], e)
      BY <1>1, BuiltWhole
<1>5. ASSUME NEW r \in Roles, NEW w \in table'.evidence[r]
      PROVE  Servable(wrong', r, Document(r), DOMAIN table'.chunks[r], w)
  <2>1. /\ DOMAIN table'.chunks[r] = DOMAIN table.chunks[r]
        /\ \/ w \in table.evidence[r]
           \/ \E e, f \in table.evidence[r] : wrong' \in EvidenceKinds /\ w \in WrongEvidence(wrong', e, f)
        BY <1>2, <1>3, OneRowIsWrong
  <2>2. CASE w \in table.evidence[r] BY <1>4, <2>1, <2>2, WholeServable
  <2>3. CASE \E e, f \in table.evidence[r] : wrong' \in EvidenceKinds /\ w \in WrongEvidence(wrong', e, f)
    <3>1. PICK e, f \in table.evidence[r] : wrong' \in EvidenceKinds /\ w \in WrongEvidence(wrong', e, f) BY <2>3
    <3>2. Whole(r, Document(r), DOMAIN table.chunks[r], e) /\ Whole(r, Document(r), DOMAIN table.chunks[r], f) BY <1>4
    <3> QED BY <2>1, <3>1, <3>2, WrongServable
  <2> QED BY <2>1, <2>2, <2>3
<1>6. Roles' = Roles /\ \A r : Document(r)' = Document(r) BY <1>1 DEF Roles, Document
<1> QED BY <1>5, <1>6 DEF AllServable, EvidenceRows

\* The invariant of the evidence that is served.
LEMMA ServeInvariant == GateSpec => []ServeInv
<1>1. GateInit => ServeInv BY DEF GateInit, Init, ServeInv
<1>2. ASSUME BuildInv, QuoteInv, ServeInv, [GateNext]_gateVars PROVE ServeInv'
  <2>0. ASSUME docs' = docs, table' = table, wrong' = wrong
        PROVE  /\ Roles' = Roles /\ AllServable' = AllServable
               /\ \A r : EvidenceHealthy(r)' = EvidenceHealthy(r)
    <3>1. Roles' = Roles /\ \A r : /\ Document(r)' = Document(r) /\ EvidenceRows(r)' = EvidenceRows(r)
                                   /\ Units(r)' = Units(r) /\ PageLines(r)' = PageLines(r)
                                   /\ SpanRows(r)' = SpanRows(r)
          BY <2>0 DEF Roles, Document, EvidenceRows, Units, PageLines, SpanRows
    <3>2. AllServable' = AllServable BY <2>0, <3>1 DEF AllServable
    <3>3. \A r : EvidenceFits(r)' = EvidenceFits(r)
          BY <2>0 DEF EvidenceFits, EvidenceRows, Units, PageLines, SpanRows, SaidBy, SpanAt
    <3>4. \A r : RuntimeSafe(r)' = RuntimeSafe(r) BY <2>0, <3>1 DEF RuntimeSafe, Published
    <3>5. \A r : PromotionHealthy(r)' = PromotionHealthy(r) BY <2>0, <3>1 DEF PromotionHealthy, HasExactBoxes, MatchesSpans
    <3> QED BY <2>0, <3>1, <3>2, <3>3, <3>4, <3>5 DEF EvidenceHealthy
  <2>1. CASE UNCHANGED gateVars
    <3>1. docs' = docs /\ step' = step /\ table' = table /\ wrong' = wrong BY <2>1 DEF gateVars
    <3> QED BY <1>2, <2>0, <3>1 DEF ServeInv
  <2>2. CASE Next /\ UNCHANGED wrong
    <3>1. CASE Ended BY <2>1, <2>2, <3>1 DEF Ended, vars, gateVars
    <3>2. CASE ~Ended
      <4>1. step' \notin {"left wrong", "accepted", "rejected"}
        BY <2>2, <3>2
        DEF Next, Extract, ExtractFails, BuildUnits, BuildEvidenceAndBoxes, EvidenceFails, BuildMetadata, MetadataFails,
            ApplyGrounding, ApplyDispositions, BuildPropositions, BuildGraph, ApplyAuthority, BuildDecisions,
            BuildSupport, SupportBuildFails, Go, Fail
      <4> QED BY <4>1 DEF ServeInv
    <3> QED BY <3>1, <3>2
  <2>3. CASE LeaveWrong
    <3>1. step' = "left wrong" BY <2>3 DEF LeaveWrong
    <3> QED BY <1>2, <2>3, <3>1, WrongIsServable DEF ServeInv
  <2>4. CASE Validate
    <3>1. /\ step \in {"built", "left wrong"} /\ step' = IF Errors = {} THEN "accepted" ELSE "rejected"
          /\ docs' = docs /\ table' = table /\ wrong' = wrong
          BY <2>4 DEF Validate
    <3>2. CASE Errors # {} BY <3>1, <3>2 DEF ServeInv
    <3>3. CASE Errors = {}
      <4>1. \A r \in Roles : EvidenceHealthy(r) BY <3>3, NoErrors
      <4>2. AllServable
        <5>1. CASE step = "built" BY <1>2, <5>1, BuiltWhole, WholeServable DEF AllServable, EvidenceRows
        <5>2. CASE step = "left wrong" BY <1>2, <5>2 DEF ServeInv
        <5> QED BY <3>1, <5>1, <5>2
      <4> QED BY <2>0, <3>1, <4>1, <4>2 DEF ServeInv
    <3> QED BY <3>2, <3>3
  <2>5. CASE Judged BY <2>1, <2>5 DEF Judged
  <2> QED BY <1>2, <2>1, <2>2, <2>3, <2>4, <2>5 DEF GateNext
<1> QED BY <1>1, <1>2, BuildInvariant, QuoteInvariant, PTL DEF GateSpec

(* Every support row that may be an answer is a citation too, and the      *)
(* retrieval of its document has all its lines (meaningful_support.py with *)
(* the authority contract, grounding and retrieval builders before it).    *)
THEOREM AnswersAreCitable == GateSpec => []AnswerIsCitable
<1>1. BuildInv => AnswerIsCitable BY DEF BuildInv
<1> QED BY <1>1, BuildInvariant, PTL

(* No line of the law in force that no reviewer has decided on is lost     *)
(* between its disposition and the support rows a reader is answered with. *)
THEOREM LawIsKept == GateSpec => []NoLawLost
<1>1. BuildInv => NoLawLost BY DEF BuildInv
<1> QED BY <1>1, BuildInvariant, PTL

(* The edges of a built graph have their ends among its nodes and their    *)
(* inverses among its edges (graph_builder.py, policy/relations.py).       *)
THEOREM GraphIsClosed == GateSpec => []GraphCloses
<1>1. BuildInv => GraphCloses
  BY DEF BuildInv, GraphCloses, Built, Closed, FromAuthority, FromDecisions, FromSupport
<1> QED BY <1>1, BuildInvariant, PTL

(* A citation of a built corpus quotes all the words of the provision it   *)
(* is of, in one piece: the evidence builder calls evidence exact only     *)
(* when what it has drawn says the text, and no later builder changes the  *)
(* text, the quote or what may be cited (_build_evidence, grounding and    *)
(* the authority contract).                                                *)
THEOREM CitationsSayTheirText == GateSpec => []CitationSaysItsText
<1>1. ASSUME BuildInv, QuoteInv PROVE CitationSaysItsText
  <2> SUFFICES ASSUME step = "built", NEW r \in Roles, NEW e \in table.evidence[r], e.citable
               PROVE  Within(Flat(UnitOf(r, e).text), Flat(e.quote))
      BY DEF CitationSaysItsText, Built, Citable
  <2>1. EvidenceMade
        BY <1>1 DEF BuildInv, FromSupport, FromDecisions, FromAuthority, FromGraph, FromPropositions,
                    FromDispositions, FromGrounding, FromMetadata
  <2>2. QuotesMade BY <1>1, StepsInOrder DEF QuoteInv
  <2>3. PICK u \in table.units[r] : u.id = e.unit BY <2>1 DEF EvidenceMade, EvidenceOfAll, IsEvidence
  <2>4. UnitOf(r, e) \in table.units[r] /\ UnitOf(r, e).id = e.unit BY <2>3 DEF UnitOf
  <2> QED BY <2>2, <2>4 DEF QuotesMade, QuotesSay
<1> QED BY <1>1, BuildInvariant, QuoteInvariant, PTL

(* Whatever row a builder has left wrong, of an accepted corpus the store  *)
(* serves every evidence that is published, unless its boxes were left     *)
(* wrong, and what it serves quotes what the document says on the lines it *)
(* names (_validate_schema7_contract and the healths of the runtime and of *)
(* the promotion before the lineage checks of the evidence store).         *)
THEOREM PublishedAreServed == GateSpec => []PublishedIsServed
<1>1. ASSUME GateInv, ServeInv PROVE PublishedIsServed
  <2> SUFFICES ASSUME step = "accepted", NEW r \in Roles, NEW e \in EvidenceRows(r)
               PROVE  /\ Published(r, e) /\ wrong # "evidence is drawn as another" => e \in Served(r)
                      /\ e \in Served(r) => QuoteIsSaid(r, e)
      BY DEF PublishedIsServed, Accepted
  <2> DEFINE d == Document(r)
             says == Flat([k \in DOMAIN e.spans |-> Text(d, e.spans[k])])
             quote == Flat(e.quote)
  <2>1. Names(d, table.spans[r]) /\ SpansFit(r) BY <1>1 DEF GateInv
  <2>2. ToSet(e.spans) \subseteq PageLines(r) => SaidBy(r, e.spans) = says BY <2>1, LinesSay
  <2>3. e \in Served(r) => QuoteIsSaid(r, e) BY <2>2 DEF Served, LineageHolds, QuoteIsSaid
  <2>4. ASSUME Published(r, e), wrong # "evidence is drawn as another" PROVE e \in Served(r)
    <3>1. Servable(wrong, r, d, DOMAIN table.chunks[r], e) /\ EvidenceHealthy(r)
          BY <1>1 DEF ServeInv, AllServable
    <3> HIDE DEF d, says
    <3>2. PICK u \in Units(r) : u.id = e.unit BY <3>1 DEF Servable, EvidenceHealthy
    <3>3. e.exact /\ e.shown BY <2>4, <3>1, <3>2 DEF EvidenceHealthy, RuntimeSafe
    <3>4. e.spans # <<>> /\ e.boxes # <<>> BY <3>1, <3>3 DEF EvidenceHealthy, PromotionHealthy, HasExactBoxes, AllExact
    <3>5. ToSet(e.spans) \subseteq PageLines(r) /\ Within(quote, SaidBy(r, e.spans))
          BY <3>1 DEF EvidenceHealthy, EvidenceFits
    <3>6. quote # <<>> /\ \A b \in ToSet(e.boxes) : b.role = e.role BY <3>1 DEF Servable
    <3>7. Within(quote, DrawnBy(e.boxes))
      <4>1. CASE wrong = "evidence quotes another"
        <5>1. says = DrawnBy(e.boxes) BY <3>1, <3>4, <4>1 DEF Servable, says
        <5> QED BY <2>2, <3>5, <5>1
      <4>2. CASE wrong # "evidence quotes another"
        <5>1. e.quote = TextsOf(e.boxes) /\ AreLists(e.quote) BY <2>4, <3>1, <4>2 DEF Servable
        <5>2. DrawnBy(e.boxes) = quote BY <5>1 DEF DrawnBy, TextsOf
        <5>3. IsSeq(quote) BY <5>1, Flattened DEF Flat
        <5> HIDE DEF quote
        <5>4. quote \o <<>> = quote /\ IsSeq(<<>>) BY <5>3, EndToEnd, ShortLists
        <5>5. Within(quote, quote) BY <5>3, <5>4, WithinFront
        <5> QED BY <5>2, <5>5
      <4> QED BY <4>1, <4>2
    <3> QED BY <2>4, <3>3, <3>4, <3>5, <3>6, <3>7 DEF Served, LineageHolds
  <2> QED BY <2>3, <2>4
<1> QED BY <1>1, GateInvariant, ServeInvariant, PTL

(* No accepted corpus has lost a unit or a decision, leads an amendment to *)
(* another article or says on one line what another does: each of these is *)
(* told by a row the gate compares it with (_closure_health,               *)
(* _promotion_decision_health, _graph_health and the hash of the page).    *)
THEOREM LossesAreNoticed == GateSpec => []LossIsNoticed
<1>1. GateInv => LossIsNoticed BY DEF GateInv, LossIsNoticed, Accepted
<1> QED BY <1>1, GateInvariant, PTL
=============================================================================
