--------------------------- MODULE AnswerSessionProofs ---------------------------
(***************************************************************************)
(* What a session shows, for any sound corpora and any questions: every    *)
(* support is drawn, opens and is of the source, choice and claim it was   *)
(* shown for.  A reply is a function of the question, the filter and the   *)
(* choice, so the facts about one reply come first, and the invariant says *)
(* which reply the session holds.                                          *)
(***************************************************************************)
EXTENDS AnswerSession, RetrievalProofs

-----------------------------------------------------------------------------
(* One support *)

\* the conditions of SupportOpens, for a support of a store
Owned(st, s) ==
    /\ LET relation == RelationForEvidence(st, s.id)
       IN  Found(relation) => ToSet(s.boxes) \subseteq ToSet(relation.boxes)
    /\ \A p \in ToSet(st.props) :
          p.id = s.proposition => p.unit = Get(st, s.id).unit /\ p.overlay # <<>>
Opens(st, s) ==
    /\ Viewer(st, s).status = "highlighted"
    /\ s.boxes # <<>> /\ s.proposition = None => Viewer(st, s).boxes = s.boxes
Quoted(st, s) ==
    /\ s.quote # <<>> /\ ToSet(s.quote) \subseteq ToSet(s.boxes)
    /\ \A box \in ToSet(s.boxes) : box \in st.drawn /\ box[1] = s.role
Proper(st, s) ==
    /\ s.linkable \in BOOLEAN /\ s.role \in Roles
    /\ s.group # "metadata_support" /\ s.linkable => Quoted(st, s)
    /\ s.linkable /\ Owned(st, s) => Opens(st, s)

\* An evidence row is the one with its identifier, and a grounding is none.
LEMMA GetFacts ==
    ASSUME NEW st, Sound(st)
    PROVE  /\ \A row \in ToSet(st.evidence) : Get(st, row.id) = row
           /\ \A row \in ToSet(Groundings(st)) :
                 Get(st, row.id) = None /\ GroundingEvidence(st, row.id) = row
           /\ \A id : Get(st, id) = None \/ (Get(st, id) \in ToSet(st.evidence) /\ Get(st, id).id = id)
<1>1. /\ None \notin SourceRows(st)
      /\ \A row \in ToSet(st.evidence) : ~IsMetadata(row)
      /\ \A row \in ToSet(Groundings(st)) : IsMetadata(row)
      /\ \A row, other \in SourceRows(st) : row.id = other.id => row = other
      BY DEF Sound, RowsAreSound
<1>2. /\ ToSet(st.evidence) \subseteq SourceRows(st)
      /\ ToSet(Groundings(st)) \subseteq SourceRows(st)
      BY DEF SourceRows
<1>3. ASSUME NEW id
      PROVE  /\ Get(st, id) = None \/ (Get(st, id) \in ToSet(st.evidence) /\ Get(st, id).id = id)
             /\ (\E row \in ToSet(st.evidence) : row.id = id) => Get(st, id) # None
  <2> DEFINE T == {row \in ToSet(st.evidence) : row.id = id}
  <2>1. Get(st, id) = First(Kept(st.evidence, T)) BY DEF Get, Select
  <2>2. /\ First(Kept(st.evidence, T)) = None \/ First(Kept(st.evidence, T)) \in ToSet(st.evidence) \cap T
        /\ ToSet(st.evidence) \cap T # {} => First(Kept(st.evidence, T)) # None
        BY <1>1, <1>2, StoreRows, FirstKept
  <2> QED BY <2>1, <2>2
<1>4. ASSUME NEW id
      PROVE  /\ \/ GroundingEvidence(st, id) = None
                \/ GroundingEvidence(st, id) \in ToSet(Groundings(st)) /\ GroundingEvidence(st, id).id = id
             /\ (\E row \in ToSet(Groundings(st)) : row.id = id) => GroundingEvidence(st, id) # None
  <2> DEFINE T == {row \in ToSet(Groundings(st)) : row.id = id}
  <2>1. GroundingEvidence(st, id) = First(Kept(Groundings(st), T)) BY DEF GroundingEvidence, Select
  <2>2. /\ \/ First(Kept(Groundings(st), T)) = None
           \/ First(Kept(Groundings(st), T)) \in ToSet(Groundings(st)) \cap T
        /\ ToSet(Groundings(st)) \cap T # {} => First(Kept(Groundings(st), T)) # None
        BY <1>1, <1>2, GroundingsFacts, FirstKept
  <2> QED BY <2>1, <2>2
<1>5. ASSUME NEW row \in ToSet(st.evidence) PROVE Get(st, row.id) = row
  <2>1. Get(st, row.id) \in ToSet(st.evidence) /\ Get(st, row.id).id = row.id BY <1>3
  <2> QED BY <1>1, <1>2, <2>1
<1>6. ASSUME NEW row \in ToSet(Groundings(st))
      PROVE  Get(st, row.id) = None /\ GroundingEvidence(st, row.id) = row
  <2>1. GroundingEvidence(st, row.id) \in ToSet(Groundings(st)) /\ GroundingEvidence(st, row.id).id = row.id
        BY <1>4
  <2>2. GroundingEvidence(st, row.id) = row BY <1>1, <1>2, <2>1
  <2>3. ASSUME Get(st, row.id) # None PROVE FALSE
    <3>1. Get(st, row.id) \in ToSet(st.evidence) /\ Get(st, row.id).id = row.id BY <1>3, <2>3
    <3>2. Get(st, row.id) = row BY <1>1, <1>2, <3>1
    <3> QED BY <1>1, <3>1, <3>2
  <2> QED BY <2>2, <2>3
<1> QED BY <1>3, <1>5, <1>6

\* Boxes that are all drawn are those the box registry finds.
LEMMA DrawnBoxes ==
    ASSUME NEW st, NEW boxes, IsSeq(boxes)
    PROVE  (BoxesOfRefs(st, boxes) = boxes) <=> (ToSet(boxes) \subseteq st.drawn)
<1> DEFINE T == {box \in ToSet(boxes) : box \in st.drawn}
<1>1. BoxesOfRefs(st, boxes) = Kept(boxes, T) BY DEF BoxesOfRefs, Select
<1>2. /\ ToSet(Kept(boxes, T)) = ToSet(boxes) \cap T
      /\ ToSet(boxes) \subseteq T => Kept(boxes, T) = boxes
      BY KeptFacts
<1> QED BY <1>1, <1>2

\* The edge a target of evidence carries, if any, is one of that evidence.
LEMMA RelationFacts ==
    ASSUME NEW st, Sound(st), NEW id
    PROVE  LET relation == RelationForEvidence(st, id) IN
           /\ Found(relation) => relation \in ToSet(st.edges) /\ relation.evidence = id
           /\ \A edge \in ToSet(st.edges) :
                 edge.target # None /\ edge.evidence = id => Found(relation)
<1> DEFINE T == {edge \in ToSet(st.edges) : edge.target # None /\ edge.evidence = id}
<1>1. RelationForEvidence(st, id) = First(Kept(st.edges, T)) BY DEF RelationForEvidence, Select
<1>2. None \notin ToSet(st.edges) /\ IsSeq(st.edges) BY DEF Sound, EdgesAreSound
<1>3. /\ First(Kept(st.edges, T)) = None \/ First(Kept(st.edges, T)) \in ToSet(st.edges) \cap T
      /\ ToSet(st.edges) \cap T # {} => First(Kept(st.edges, T)) # None
      BY <1>2, FirstKept
<1> QED BY <1>1, <1>3 DEF Found

\* What passes the evidence gate: a grounding with boxes, or a row whose lines and
\* boxes are drawn in its own document.
LEMMA AcceptedFacts ==
    ASSUME NEW st, NEW c, WellFormed(c.row), Accepted(st, c)
    PROVE  /\ IsMetadata(c.row) => c.row.boxes # <<>>
           /\ ~IsMetadata(c.row) =>
                 /\ c.row.exact /\ c.row.drawn /\ c.row.boxes # <<>> /\ c.row.quote # <<>>
                 /\ ToSet(c.row.quote) \subseteq ToSet(c.row.boxes)
                 /\ \A box \in ToSet(c.row.boxes) : box \in st.drawn /\ box[1] = c.row.role
<1>1. IsMetadata(c.row) => c.row.boxes # <<>> BY DEF Accepted
<1>2. ASSUME ~IsMetadata(c.row)
      PROVE  /\ ~LineageError(st, c.row) /\ c.row.exact /\ c.row.drawn
      BY <1>2 DEF Accepted, GroundedText
<1>3. IsSeq(c.row.quote) /\ IsSeq(c.row.boxes) BY DEF WellFormed
<1>4. ASSUME ~LineageError(st, c.row)
      PROVE  /\ ToSet(c.row.quote) # {} /\ ToSet(c.row.boxes) # {}
             /\ ToSet(c.row.quote) \subseteq ToSet(c.row.boxes)
             /\ \A box \in ToSet(c.row.boxes) : box \in st.drawn /\ box[1] = c.row.role
      BY <1>4 DEF LineageError
<1> QED BY <1>1, <1>2, <1>3, <1>4, ListFacts

\* Evidence with boxes among its own, or among those of the relation its target
\* carries, is highlighted.
LEMMA PayloadFacts ==
    ASSUME NEW st, NEW evidence, evidence.exact, evidence.drawn, NEW refs, NEW boxes,
           boxes # <<>>, ToSet(boxes) \subseteq ToSet(refs)
    PROVE  ViewerPayload(st, evidence, refs, boxes, evidence.role) = Opened("highlighted", boxes)
BY DEF ViewerPayload

\* A row that passed the gate is shown with its lines and opens with its boxes.
LEMMA RowSupport ==
    ASSUME NEW st, Sound(st), NEW c, OfStore(st, c.row), Accepted(st, c), NEW item,
           item.row = c.row, item.group = SupportGroup(c.row), NEW s, s = SupportOf(st, item)
    PROVE  /\ Proper(st, s)
           /\ s.id = c.row.id /\ s.unit = c.row.unit /\ s.role = c.row.role
           /\ s.proposition = None /\ s.group = SupportGroup(c.row)
<1> DEFINE row == c.row
<1>1. PICK base \in SourceRows(st) : StandsFor(row, base) BY DEF OfStore
<1>2. /\ WellFormed(row) /\ row.id = base.id /\ row.role = base.role
      /\ row.exact = base.exact /\ row.drawn = base.drawn
      /\ ToSet(row.boxes) \subseteq ToSet(base.boxes)
      /\ IsMetadata(row) <=> IsMetadata(base)
      /\ IsMetadata(row) => row = base
      BY <1>1 DEF StandsFor
<1>0. item.row = row /\ Accepted(st, c) /\ c.row = row OBVIOUS
<1>3. /\ s.id = row.id /\ s.unit = row.unit /\ s.role = row.role /\ s.proposition = None
      /\ s.group = SupportGroup(row) /\ s.quote = row.quote
      /\ s.linkable = (row.drawn /\ CanResolve(st, row))
      /\ s.boxes = (IF IsMetadata(row) THEN <<>> ELSE row.boxes)
      BY DEF SupportOf, Support
<1>4. IsSeq(row.boxes) /\ row.role \in Roles BY <1>2 DEF WellFormed
<1>5. s.linkable \in BOOLEAN BY <1>3
<1>6. /\ base \in ToSet(st.evidence) \cup ToSet(Groundings(st))
      /\ \A r \in ToSet(st.evidence) : ~IsMetadata(r)
      /\ \A r \in ToSet(Groundings(st)) : IsMetadata(r)
      BY <1>1 DEF SourceRows, Sound, RowsAreSound
<1> HIDE DEF row
<1>7. ASSUME ~IsMetadata(row) PROVE Proper(st, s)
  <2>1. /\ row.exact /\ row.drawn /\ row.boxes # <<>> /\ row.quote # <<>>
        /\ ToSet(row.quote) \subseteq ToSet(row.boxes)
        /\ \A box \in ToSet(row.boxes) : box \in st.drawn /\ box[1] = row.role
        BY <1>0, <1>2, <1>7, AcceptedFacts
  <2>2. s.boxes = row.boxes BY <1>3, <1>7
  <2>3. Quoted(st, s) BY <1>3, <2>1, <2>2 DEF Quoted
  <2>4. Get(st, s.id) = base /\ Found(base)
    <3>1. base \in ToSet(st.evidence) BY <1>2, <1>6, <1>7
    <3>2. base # None BY <3>1, StoreRows
    <3> QED BY <1>2, <1>3, <3>1, <3>2, GetFacts DEF Found
  <2>5. ASSUME Owned(st, s) PROVE Opens(st, s)
    <3> DEFINE relation == RelationForEvidence(st, s.id)
               refs == IF Found(relation) THEN relation.boxes ELSE base.boxes
    <3>1. ToSet(s.boxes) \subseteq ToSet(refs) BY <1>2, <2>2, <2>5 DEF Owned
    <3>2. BoxesOfRefs(st, s.boxes) = s.boxes BY <1>4, <2>1, <2>2, DrawnBoxes
    <3> HIDE DEF relation
    <3>3. Viewer(st, s) = ViewerPayload(st, base, refs, s.boxes, s.role)
          BY <1>3, <2>1, <2>2, <2>4, <3>2 DEF Viewer, Found, relation
    <3> HIDE DEF refs
    <3>4. s.role = base.role /\ s.boxes # <<>> /\ base.exact /\ base.drawn
          BY <1>2, <1>3, <2>1, <2>2
    <3>5. ViewerPayload(st, base, refs, s.boxes, base.role) = Opened("highlighted", s.boxes)
          BY <3>1, <3>4, PayloadFacts
    <3> QED BY <3>3, <3>4, <3>5 DEF Opens, Opened
  <2> QED BY <1>3, <1>4, <1>5, <2>3, <2>5 DEF Proper
<1>8. ASSUME IsMetadata(row) PROVE Proper(st, s)
  <2>1. s.group = "metadata_support" /\ s.boxes = <<>> BY <1>3, <1>8 DEF SupportGroup
  <2>2. ASSUME s.linkable, Owned(st, s) PROVE Opens(st, s)
    <3>1. /\ row = base /\ base.exact /\ base.drawn /\ base.boxes # <<>>
          /\ ToSet(base.boxes) \subseteq st.drawn
          BY <1>2, <1>3, <1>8, <2>2 DEF CanResolve
    <3>2. base \in ToSet(Groundings(st)) BY <1>2, <1>6, <1>8
    <3>3. Get(st, s.id) = None /\ GroundingEvidence(st, s.id) = base /\ base # None
          BY <1>2, <1>3, <3>2, GetFacts, StoreRows DEF Sound, RowsAreSound
    <3>4. ~Found(RelationForEvidence(st, s.id))
      <4>1. \A edge \in ToSet(st.edges) : base.id # edge.evidence
            BY <3>2 DEF Sound, EdgesAreSound
      <4> QED BY <1>2, <1>3, <4>1, RelationFacts
    <3>5. BoxesOfRefs(st, base.boxes) = base.boxes BY <1>4, <3>1, DrawnBoxes
    <3>6. Viewer(st, s) = ViewerPayload(st, base, base.boxes, base.boxes, s.role)
          BY <1>2, <1>3, <1>8, <2>1, <3>3, <3>4, <3>5 DEF Viewer, Found
    <3>7. s.role = base.role BY <1>2, <1>3
    <3>8. ViewerPayload(st, base, base.boxes, base.boxes, base.role) = Opened("highlighted", base.boxes)
          BY <3>1, PayloadFacts
    <3> QED BY <2>1, <3>6, <3>7, <3>8 DEF Opens, Opened
  <2> QED BY <1>3, <1>4, <1>5, <2>1, <2>2 DEF Proper
<1> QED BY <1>3, <1>7, <1>8 DEF row

\* A citation narrowed to a proposition is shown with the lines of that proposition and
\* opens with its boxes.
LEMMA ClaimSupportFacts ==
    ASSUME NEW st, Sound(st), NEW c, OfStore(st, c.row), Accepted(st, c), NEW item,
           item.row = c.row, item.group = SupportGroup(c.row), NEW props, IsSeq(props),
           ToSet(props) \subseteq ToSet(st.props),
           \A p \in ToSet(props) : p.boxes # <<>> /\ p.lines # <<>>,
           NEW plain, plain = SupportOf(st, item), NEW s, s = ClaimCitation(plain, props)
    PROVE  /\ Proper(st, s)
           /\ s.id = c.row.id /\ s.unit = c.row.unit /\ s.role = c.row.role
           /\ Found(s.proposition) => \E p \in ToSet(props) : p.id = s.proposition
<1> DEFINE T == {p \in ToSet(props) :
                   p.role = plain.role /\ (p.evidence = plain.id \/ p.unit = plain.unit)}
           segment == First(Kept(props, T))
           row == c.row
<1>1. /\ Proper(st, plain) /\ plain.id = row.id /\ plain.unit = row.unit
      /\ plain.role = row.role /\ plain.proposition = None
      /\ plain.group = SupportGroup(row)
      BY RowSupport
<1>2. {"boxes", "quote", "proposition", "linkable", "id", "unit", "role", "group"}
          \subseteq DOMAIN plain
      BY DEF SupportOf, Support
<1>3. s = IF plain.group # "final_citations" \/ ~Found(segment) THEN plain
          ELSE [plain EXCEPT !.boxes = segment.boxes, !.quote = segment.lines,
                             !.proposition = segment.id]
      BY DEF ClaimCitation, Select
<1>4. segment = None \/ segment \in ToSet(props) \cap T BY FirstKept
<1> HIDE DEF segment
<1>5. CASE plain.group # "final_citations" \/ ~Found(segment) BY <1>1, <1>3, <1>5 DEF Found
<1>6. CASE plain.group = "final_citations" /\ Found(segment)
  <2>1. segment \in ToSet(props) /\ segment.role = plain.role BY <1>4, <1>6 DEF Found
  <2>2. /\ s.boxes = segment.boxes /\ s.quote = segment.lines /\ s.proposition = segment.id
        /\ s.id = plain.id /\ s.unit = plain.unit /\ s.role = plain.role
        /\ s.group = plain.group /\ s.linkable = plain.linkable
        BY <1>2, <1>3, <1>6
  <2> HIDE DEF T
  <2>3. /\ segment.boxes # <<>> /\ segment.lines # <<>> /\ segment \in ToSet(st.props)
        BY <2>1
  <2>4. /\ \A p \in ToSet(st.props) :
              /\ p.id # None /\ IsSeq(p.boxes) /\ IsSeq(p.overlay)
              /\ ToSet(p.lines) \subseteq ToSet(p.boxes)
              /\ ToSet(p.overlay) \subseteq ToSet(p.boxes)
              /\ \A box \in ToSet(p.boxes) : box \in st.drawn /\ box[1] = p.role
        /\ None \notin ToSet(st.props) /\ IsSeq(st.props)
        BY DEF Sound, PropsAreSound
  <2>5. Quoted(st, s) BY <2>1, <2>2, <2>3, <2>4 DEF Quoted
  <2>6. ~IsMetadata(row) BY <1>1, <1>6 DEF SupportGroup
  <2>7. PICK base \in SourceRows(st) : StandsFor(row, base) BY DEF OfStore
  <2>8. /\ WellFormed(row) /\ row.id = base.id /\ row.unit = base.unit /\ row.role = base.role
        /\ row.exact = base.exact /\ row.drawn = base.drawn /\ ~IsMetadata(base)
        BY <2>6, <2>7 DEF StandsFor
  <2>9. base.exact /\ base.drawn BY <2>6, <2>8, AcceptedFacts
  <2>10. Get(st, s.id) = base /\ Found(base)
    <3>1. base \in ToSet(st.evidence) BY <2>8, <2>7 DEF SourceRows, Sound, RowsAreSound
    <3>2. base # None BY <3>1, StoreRows
    <3> QED BY <1>1, <2>2, <2>8, <3>1, <3>2, GetFacts DEF Found
  <2>11. ASSUME Owned(st, s) PROVE Opens(st, s)
    <3> DEFINE relation == RelationForEvidence(st, s.id)
               refs == IF Found(relation) THEN relation.boxes ELSE s.boxes
               U == {p \in ToSet(st.props) : /\ p.id = s.proposition
                                             /\ p.unit = base.unit
                                             /\ p.role = base.role
                                             /\ p.boxes = s.boxes}
               found == First(Kept(st.props, U))
    <3>1. ToSet(s.boxes) \subseteq ToSet(refs) BY <2>11 DEF Owned
    <3>2. segment \in U BY <1>1, <2>1, <2>2, <2>3, <2>8, <2>10, <2>11 DEF Owned
    <3>3. found \in ToSet(st.props) \cap U /\ found # None BY <2>4, <3>2, FirstKept
    <3>4. OpenProposition(st, base, s)
             = IF ~Found(found) \/ found.overlay = <<>> THEN Opened("not_found", <<>>)
               ELSE ViewerPayload(st, base,
                        IF Found(RelationForEvidence(st, base.id))
                        THEN RelationForEvidence(st, base.id).boxes ELSE s.boxes,
                        found.overlay, s.role)
          BY DEF OpenProposition, Select
    <3> HIDE DEF found
    <3>5. found.id = s.proposition /\ found.boxes = s.boxes BY <3>3
    <3>6. found.overlay # <<>> /\ ToSet(found.overlay) \subseteq ToSet(refs)
          BY <2>4, <2>11, <3>1, <3>3, <3>5 DEF Owned
    <3>7. base.id = s.id /\ base.role = s.role BY <1>1, <2>2, <2>8
    <3>8. OpenProposition(st, base, s) = ViewerPayload(st, base, refs, found.overlay, base.role)
          BY <3>3, <3>4, <3>6, <3>7 DEF Found
    <3> HIDE DEF refs
    <3>9. OpenProposition(st, base, s) = Opened("highlighted", found.overlay)
          BY <2>9, <3>6, <3>8, PayloadFacts
    <3>10. s.proposition # None BY <2>2, <2>3, <2>4
    <3>11. Viewer(st, s) = OpenProposition(st, base, s)
           BY <2>10, <3>10 DEF Viewer, Found
    <3> QED BY <3>9, <3>10, <3>11 DEF Opens, Opened
  <2>12. Proper(st, s) BY <1>1, <2>2, <2>5, <2>11 DEF Proper
  <2> QED BY <1>1, <2>1, <2>2, <2>12
<1> QED BY <1>5, <1>6

\* The proof of a relation is the evidence of that relation, with its lines and boxes;
\* what only traces one never opens.
LEMMA RelationSupportFacts ==
    ASSUME NEW st, Sound(st), NEW edge \in ToSet(st.edges)
    PROVE  /\ edge.type \notin OfDocuments /\ Found(RelationProof(st, edge)) =>
                 Proper(st, RelationProof(st, edge)) /\ RelationProof(st, edge).id = edge.evidence
           /\ Proper(st, RelationTrace(edge)) /\ RelationTrace(edge).id = edge.evidence
<1>1. /\ edge.role \in Roles /\ IsSeq(edge.boxes) /\ IsSeq(edge.lines)
      /\ edge.type \notin OfDocuments =>
            /\ edge.target # None
            /\ edge.lines # <<>> /\ ToSet(edge.lines) \subseteq ToSet(edge.boxes)
            /\ \A row \in ToSet(st.evidence) : row.id = edge.evidence =>
                  \A box \in ToSet(edge.boxes) : box[1] = row.role
      BY DEF Sound, EdgesAreSound
<1>2. Proper(st, RelationTrace(edge)) /\ RelationTrace(edge).id = edge.evidence
      BY <1>1 DEF RelationTrace, Proper
<1>3. ASSUME edge.type \notin OfDocuments, NEW s, s = RelationProof(st, edge), Found(s)
      PROVE  Proper(st, s) /\ s.id = edge.evidence
  <2> DEFINE row == Get(st, edge.evidence)
  <2>1. /\ Found(row) /\ row.exact /\ row.drawn
        /\ edge.boxes # <<>> /\ BoxesOfRefs(st, edge.boxes) = edge.boxes
        /\ s = Support(row, "relation_support", TRUE, edge.boxes, edge.lines, None)
        BY <1>3 DEF RelationProof, Found
  <2>2. row \in ToSet(st.evidence) /\ row.id = edge.evidence /\ Get(st, row.id) = row
        BY <2>1, GetFacts DEF Found
  <2>3. row.role \in Roles BY <2>2, StoreRows DEF WellFormed
  <2>4. /\ s.id = row.id /\ s.role = row.role /\ s.linkable = TRUE /\ s.boxes = edge.boxes
        /\ s.quote = edge.lines /\ s.proposition = None /\ s.group = "relation_support"
        BY <2>1 DEF Support
  <2> HIDE DEF row
  <2>5. ToSet(edge.boxes) \subseteq st.drawn BY <1>1, <2>1, DrawnBoxes
  <2>6. Quoted(st, s) BY <1>1, <1>3, <2>2, <2>4, <2>5 DEF Quoted
  <2>7. ASSUME Owned(st, s) PROVE Opens(st, s)
    <3> DEFINE relation == RelationForEvidence(st, s.id)
    <3>1. Found(relation) BY <1>1, <1>3, <2>2, <2>4, RelationFacts
    <3>2. ToSet(s.boxes) \subseteq ToSet(relation.boxes) BY <2>7, <3>1 DEF Owned
    <3> HIDE DEF relation
    <3>3. Viewer(st, s) = ViewerPayload(st, row, relation.boxes, s.boxes, row.role)
          BY <2>1, <2>2, <2>4, <3>1 DEF Viewer, Found, relation
    <3>4. s.boxes # <<>> BY <2>1, <2>4
    <3>5. ViewerPayload(st, row, relation.boxes, s.boxes, row.role) = Opened("highlighted", s.boxes)
          BY <2>1, <3>2, <3>4, PayloadFacts
    <3> QED BY <3>3, <3>5 DEF Opens, Opened
  <2> QED BY <2>2, <2>3, <2>4, <2>6, <2>7 DEF Proper
<1> QED BY <1>2, <1>3

-----------------------------------------------------------------------------
(* The supports of a pack *)

SupportGroups == {"final_citations", "historical_citations", "metadata_support",
                  "structural_support", "trace_support"}

LEMMA GroupFacts ==
    ASSUME NEW st, NEW pack, IsSeq(pack), NEW group
    PROVE  /\ IsSeq(GroupSupports(st, pack, group))
           /\ Len(GroupSupports(st, pack, group)) = Len(InGroup(pack, group))
           /\ \A s \in ToSet(GroupSupports(st, pack, group)) :
                 \E item \in ToSet(pack) : s = SupportOf(st, item)
           /\ \A item \in ToSet(pack) :
                 item.group = group => SupportOf(st, item) \in ToSet(GroupSupports(st, pack, group))
<1> DEFINE items == InGroup(pack, group)
           shown == [i \in DOMAIN items |-> SupportOf(st, items[i])]
<1>1. GroupSupports(st, pack, group) = shown BY DEF GroupSupports
<1>2. /\ IsSeq(items)
      /\ ToSet(items) = ToSet(pack) \cap {item \in ToSet(pack) : item.group = group}
      BY KeptFacts DEF InGroup, Select
<1> HIDE DEF items
<1>3. shown = [i \in DOMAIN items |-> shown[i]] OBVIOUS
<1>4. \A i \in DOMAIN items : shown[i] = SupportOf(st, items[i]) OBVIOUS
<1> HIDE DEF shown
<1>5. IsSeq(shown) /\ Len(shown) = Len(items) /\ ToSet(shown) = {shown[i] : i \in DOMAIN items}
      BY <1>2, <1>3, Mapped
<1>6. ASSUME NEW s \in ToSet(shown) PROVE \E item \in ToSet(pack) : s = SupportOf(st, item)
  <2>1. PICK i \in DOMAIN items : s = SupportOf(st, items[i]) BY <1>4, <1>5
  <2>2. items[i] \in ToSet(items) BY DEF ToSet
  <2> QED BY <1>2, <2>1, <2>2
<1>7. ASSUME NEW item \in ToSet(pack), item.group = group
      PROVE  SupportOf(st, item) \in ToSet(shown)
  <2>1. item \in ToSet(items) BY <1>2, <1>7
  <2>2. PICK i \in DOMAIN items : item = items[i] BY <2>1 DEF ToSet
  <2> QED BY <1>4, <1>5, <2>2
<1> QED BY <1>1, <1>5, <1>6, <1>7 DEF items

\* An answer shows every row of the pack, once when it has one.
LEMMA SupportsFacts ==
    ASSUME NEW st, NEW pack, IsSeq(pack), \A item \in ToSet(pack) : item.group \in SupportGroups
    PROVE  /\ IsSeq(SupportsOf(st, pack))
           /\ \A s \in ToSet(SupportsOf(st, pack)) : \E item \in ToSet(pack) : s = SupportOf(st, item)
           /\ \A item \in ToSet(pack) : SupportOf(st, item) \in ToSet(SupportsOf(st, pack))
           /\ Len(pack) = 1 => Len(SupportsOf(st, pack)) = 1
<1> DEFINE G(group) == GroupSupports(st, pack, group)
           a == G("final_citations")
           b == G("historical_citations")
           c == G("metadata_support")
           d == G("structural_support")
           e == G("trace_support")
<1>1. SupportsOf(st, pack) = a \o b \o c \o d \o e BY DEF SupportsOf
<1>2. \A group : IsSeq(G(group)) BY GroupFacts
<1>3. /\ IsSeq(a \o b) /\ ToSet(a \o b) = ToSet(a) \cup ToSet(b) /\ Len(a \o b) = Len(a) + Len(b)
      BY <1>2, Joined
<1>4. /\ IsSeq(a \o b \o c) /\ ToSet(a \o b \o c) = ToSet(a \o b) \cup ToSet(c)
      /\ Len(a \o b \o c) = Len(a \o b) + Len(c)
      BY <1>2, <1>3, Joined
<1>5. /\ IsSeq(a \o b \o c \o d) /\ ToSet(a \o b \o c \o d) = ToSet(a \o b \o c) \cup ToSet(d)
      /\ Len(a \o b \o c \o d) = Len(a \o b \o c) + Len(d)
      BY <1>2, <1>4, Joined
<1>6. /\ IsSeq(a \o b \o c \o d \o e)
      /\ ToSet(a \o b \o c \o d \o e) = ToSet(a \o b \o c \o d) \cup ToSet(e)
      /\ Len(a \o b \o c \o d \o e) = Len(a \o b \o c \o d) + Len(e)
      BY <1>2, <1>5, Joined
<1>7. /\ ToSet(SupportsOf(st, pack)) = ToSet(a) \cup ToSet(b) \cup ToSet(c) \cup ToSet(d) \cup ToSet(e)
      /\ Len(SupportsOf(st, pack)) = Len(a) + Len(b) + Len(c) + Len(d) + Len(e)
      BY <1>1, <1>3, <1>4, <1>5, <1>6
<1>8. \A group : /\ \A s \in ToSet(G(group)) : \E item \in ToSet(pack) : s = SupportOf(st, item)
                 /\ \A item \in ToSet(pack) :
                       item.group = group => SupportOf(st, item) \in ToSet(G(group))
      BY GroupFacts
<1>9. ASSUME NEW s \in ToSet(SupportsOf(st, pack))
      PROVE  \E item \in ToSet(pack) : s = SupportOf(st, item)
  <2>1. \E group : s \in ToSet(G(group)) BY <1>7
  <2> HIDE DEF G
  <2> QED BY <1>8, <2>1
<1>10. ASSUME NEW item \in ToSet(pack) PROVE SupportOf(st, item) \in ToSet(SupportsOf(st, pack))
  <2>1. SupportOf(st, item) \in ToSet(G(item.group)) BY <1>8
  <2>2. item.group \in SupportGroups OBVIOUS
  <2> HIDE DEF G
  <2> QED BY <1>7, <2>1, <2>2 DEF SupportGroups, a, b, c, d, e
<1>11. ASSUME Len(pack) = 1 PROVE Len(SupportsOf(st, pack)) = 1
  <2> DEFINE item == pack[1]
  <2>1. ToSet(pack) = {item} /\ item \in ToSet(pack) BY <1>11, ListFacts DEF ToSet
  <2>2. item.group \in SupportGroups BY <2>1
  <2>3. ASSUME NEW group PROVE Len(G(group)) = IF item.group = group THEN 1 ELSE 0
    <3> DEFINE T == {x \in ToSet(pack) : x.group = group}
    <3>1. Len(G(group)) = Len(Kept(pack, T)) BY GroupFacts DEF InGroup, Select
    <3>2. /\ IsSeq(Kept(pack, T)) /\ ToSet(Kept(pack, T)) = ToSet(pack) \cap T
          /\ ToSet(pack) \subseteq T => Kept(pack, T) = pack
          BY KeptFacts
    <3>3. CASE item.group = group BY <1>11, <2>1, <3>1, <3>2, <3>3
    <3>4. CASE item.group # group
      <4>1. ToSet(Kept(pack, T)) = {} BY <2>1, <3>2, <3>4
      <4>2. Len(Kept(pack, T)) = 0 BY <3>2, <4>1, ListFacts
      <4> QED BY <3>1, <3>4, <4>2
    <3> QED BY <3>3, <3>4
  <2>4. /\ Len(a) = (IF item.group = "final_citations" THEN 1 ELSE 0)
        /\ Len(b) = (IF item.group = "historical_citations" THEN 1 ELSE 0)
        /\ Len(c) = (IF item.group = "metadata_support" THEN 1 ELSE 0)
        /\ Len(d) = (IF item.group = "structural_support" THEN 1 ELSE 0)
        /\ Len(e) = (IF item.group = "trace_support" THEN 1 ELSE 0)
        BY <2>3
  <2> HIDE DEF item, a, b, c, d, e
  <2> QED BY <1>7, <2>2, <2>4 DEF SupportGroups
<1> QED BY <1>1, <1>6, <1>9, <1>10, <1>11

\* The pack has the rows that pass the gate, each with the group of its kind.
LEMMA PackFacts ==
    ASSUME NEW st, NEW cs, IsSeq(cs)
    PROVE  LET pack == ContextPack(st, cs) IN
           /\ IsSeq(pack)
           /\ \A item \in ToSet(pack) : \E c \in ToSet(cs) :
                 /\ Accepted(st, c) /\ item.row = c.row /\ item.group = SupportGroup(c.row)
                 /\ item.group \in SupportGroups
           /\ \A c \in ToSet(cs) : Accepted(st, c) =>
                 \E item \in ToSet(pack) : item.row = c.row
           /\ Len(cs) = 1 /\ pack # <<>> => Len(pack) = 1
<1> DEFINE T == {c \in ToSet(cs) : Accepted(st, c)}
           accepted == Kept(cs, T)
           pack == [i \in DOMAIN accepted |->
                       [row |-> accepted[i].row, group |-> SupportGroup(accepted[i].row)]]
<1>1. ContextPack(st, cs) = pack BY DEF ContextPack, Select
<1>2. /\ IsSeq(accepted) /\ ToSet(accepted) = ToSet(cs) \cap T
      /\ ToSet(cs) \subseteq T => accepted = cs
      BY KeptFacts
<1> HIDE DEF accepted
<1>3. pack = [i \in DOMAIN accepted |-> pack[i]] OBVIOUS
<1>4. \A i \in DOMAIN accepted :
         pack[i].row = accepted[i].row /\ pack[i].group = SupportGroup(accepted[i].row)
      OBVIOUS
<1> HIDE DEF pack
<1>5. IsSeq(pack) /\ Len(pack) = Len(accepted) /\ ToSet(pack) = {pack[i] : i \in DOMAIN accepted}
      BY <1>2, <1>3, Mapped
<1>6. ASSUME NEW item \in ToSet(pack)
      PROVE  \E c \in ToSet(cs) :
                /\ Accepted(st, c) /\ item.row = c.row /\ item.group = SupportGroup(c.row)
                /\ item.group \in SupportGroups
  <2>1. PICK i \in DOMAIN accepted : item = pack[i] BY <1>5
  <2>2. accepted[i] \in ToSet(accepted) BY DEF ToSet
  <2>3. SupportGroup(accepted[i].row) \in SupportGroups BY DEF SupportGroup, SupportGroups
  <2> QED BY <1>2, <1>4, <2>1, <2>2, <2>3
<1>7. ASSUME NEW c \in ToSet(cs), Accepted(st, c) PROVE \E item \in ToSet(pack) : item.row = c.row
  <2>1. c \in ToSet(accepted) BY <1>2, <1>7
  <2>2. PICK i \in DOMAIN accepted : c = accepted[i] BY <2>1 DEF ToSet
  <2> QED BY <1>4, <1>5, <2>2
<1>8. ASSUME Len(cs) = 1, pack # <<>> PROVE Len(pack) = 1
  <2>1. ToSet(cs) = {cs[1]} BY <1>8, ListFacts DEF ToSet
  <2>2. ToSet(accepted) # {} BY <1>2, <1>5, <1>8, ListFacts
  <2>3. ToSet(cs) \subseteq T BY <1>2, <2>1, <2>2
  <2> QED BY <1>2, <1>5, <1>8, <2>3
<1> QED BY <1>1, <1>5, <1>6, <1>7, <1>8

-----------------------------------------------------------------------------
(* Replies *)

Fulfilled(r) == r.kind = "answer" /\ r.status \in Answers

\* what any reply is
WellReplied(st, r) ==
    /\ r.kind \in {"answer", "clarification", "document"}
    /\ IsSeq(r.supports) /\ \A s \in ToSet(r.supports) : Proper(st, s)
    /\ r.supports # <<>> => Fulfilled(r)
    /\ IsSeq(r.options)
    /\ IF r.kind = "clarification" THEN Len(r.options) > 1 ELSE r.options = <<>>

\* a support of one of the rows that pass the gate
RestsOn(st, cs, s) ==
    \E c \in ToSet(cs) : /\ Accepted(st, c)
                         /\ s.id = c.row.id /\ s.unit = c.row.unit /\ s.role = c.row.role

\* An answer is well formed if its supports are, and a refusal shows nothing.
LEMMA AnswerFacts ==
    ASSUME NEW st, NEW route
    PROVE  /\ \A status, supports :
                 /\ status \in Answers /\ IsSeq(supports) /\ (\A s \in ToSet(supports) : Proper(st, s))
                 => /\ WellReplied(st, Answer(status, route, supports))
                    /\ Fulfilled(Answer(status, route, supports))
           /\ \A status : status \notin Answers =>
                 WellReplied(st, Refusal(status, route)) /\ ~Fulfilled(Refusal(status, route))
           /\ WellReplied(st, Insufficient(route)) /\ ~Fulfilled(Insufficient(route))
BY ShortLists DEF Answer, Refusal, Insufficient, Reply, WellReplied, Fulfilled, Answers

LEMMA PackShown ==
    ASSUME NEW st, Sound(st), NEW q, NEW cs, AllTruthful(st, q, cs), NEW props, IsSeq(props),
           ToSet(props) \subseteq ToSet(st.props),
           \A p \in ToSet(props) : p.boxes # <<>> /\ p.lines # <<>>,
           NEW pack, pack = ContextPack(st, cs),
           NEW plain, plain = SupportsOf(st, pack),
           NEW shown, shown = [i \in DOMAIN plain |-> ClaimCitation(plain[i], props)]
    PROVE  /\ IsSeq(plain) /\ IsSeq(shown) /\ Len(shown) = Len(plain)
           /\ pack # <<>> => plain # <<>> /\ shown # <<>>
           /\ \A s \in ToSet(plain) : Proper(st, s) /\ RestsOn(st, cs, s)
           /\ \A s \in ToSet(shown) :
                 /\ Proper(st, s) /\ RestsOn(st, cs, s)
                 /\ Found(s.proposition) => \E p \in ToSet(props) : p.id = s.proposition
           /\ \A item \in ToSet(pack) : \E s \in ToSet(shown) : s.unit = item.row.unit
<1>1. /\ IsSeq(pack)
      /\ \A item \in ToSet(pack) : \E c \in ToSet(cs) :
            /\ Accepted(st, c) /\ item.row = c.row /\ item.group = SupportGroup(c.row)
            /\ item.group \in SupportGroups
      BY PackFacts DEF AllTruthful
<1>2. /\ IsSeq(plain)
      /\ \A s \in ToSet(plain) : \E item \in ToSet(pack) : s = SupportOf(st, item)
      /\ \A item \in ToSet(pack) : SupportOf(st, item) \in ToSet(plain)
      BY <1>1, SupportsFacts
<1>3. shown = [i \in DOMAIN plain |-> shown[i]] OBVIOUS
<1>4. IsSeq(shown) /\ Len(shown) = Len(plain) /\ ToSet(shown) = {shown[i] : i \in DOMAIN plain}
      BY <1>2, <1>3, Mapped
<1>5. ASSUME NEW s \in ToSet(plain), NEW t, t = ClaimCitation(s, props)
      PROVE  /\ Proper(st, s) /\ RestsOn(st, cs, s)
             /\ Proper(st, t) /\ RestsOn(st, cs, t) /\ t.unit = s.unit
             /\ Found(t.proposition) => \E p \in ToSet(props) : p.id = t.proposition
  <2>1. PICK item \in ToSet(pack) : s = SupportOf(st, item) BY <1>2
  <2>2. PICK c \in ToSet(cs) : /\ Accepted(st, c) /\ item.row = c.row
                               /\ item.group = SupportGroup(c.row)
        BY <1>1
  <2>3. OfStore(st, c.row) BY DEF AllTruthful, Truthful
  <2>4. /\ Proper(st, s) /\ s.id = c.row.id /\ s.unit = c.row.unit /\ s.role = c.row.role
        BY <2>1, <2>2, <2>3, RowSupport
  <2>5. /\ Proper(st, t) /\ t.id = c.row.id /\ t.unit = c.row.unit /\ t.role = c.row.role
        /\ Found(t.proposition) => \E p \in ToSet(props) : p.id = t.proposition
        BY <1>5, <2>1, <2>2, <2>3, ClaimSupportFacts
  <2> QED BY <2>2, <2>4, <2>5 DEF RestsOn
<1>6. ASSUME NEW t \in ToSet(shown)
      PROVE  /\ Proper(st, t) /\ RestsOn(st, cs, t)
             /\ Found(t.proposition) => \E p \in ToSet(props) : p.id = t.proposition
  <2>1. PICK i \in DOMAIN plain : t = ClaimCitation(plain[i], props) BY <1>4
  <2>2. plain[i] \in ToSet(plain) BY DEF ToSet
  <2> QED BY <1>5, <2>1, <2>2
<1>7. ASSUME NEW item \in ToSet(pack) PROVE \E t \in ToSet(shown) : t.unit = item.row.unit
  <2> DEFINE s == SupportOf(st, item)
  <2>1. s \in ToSet(plain) /\ s.unit = item.row.unit BY <1>2 DEF SupportOf, Support
  <2> HIDE DEF s
  <2>2. PICK i \in DOMAIN plain : s = plain[i] BY <2>1 DEF ToSet
  <2>3. shown[i] \in ToSet(shown) /\ shown[i] = ClaimCitation(s, props) BY <1>4, <2>2
  <2>4. shown[i].unit = s.unit BY <1>5, <2>1, <2>3
  <2> QED BY <2>1, <2>3, <2>4
<1>8. pack # <<>> => plain # <<>> /\ shown # <<>>
  <2>1. pack # <<>> => ToSet(pack) # {} BY <1>1, ListFacts
  <2>2. ToSet(pack) # {} => ToSet(plain) # {} /\ ToSet(shown) # {} BY <1>2, <1>7
  <2>3. (ToSet(plain) # {} => plain # <<>>) /\ (ToSet(shown) # {} => shown # <<>>)
        BY <1>2, <1>4, ListFacts
  <2> QED BY <2>1, <2>2, <2>3
<1> QED BY <1>2, <1>4, <1>5, <1>6, <1>7, <1>8

\* _instrument_intent_context
LEMMA InstrumentReplyFacts ==
    ASSUME NEW st, Sound(st), NEW q
    PROVE  /\ WellReplied(st, InstrumentReply(st, q)) /\ InstrumentReply(st, q).route = "instrument"
           /\ InstrumentReply(st, q).kind = "answer"
           /\ Fulfilled(InstrumentReply(st, q)) => InstrumentReply(st, q).supports # <<>>
<1> DEFINE row == IF InstrumentDecision(q) = "instrument_resolved" THEN PartRow(st, q) ELSE None
           cs == As(Select(<<row>>, Found), "structured", "instrument")
           pack == ContextPack(st, cs)
           shown == SupportsOf(st, pack)
           status == IF InGroup(pack, "final_citations") # <<>> THEN "answer_ready"
                     ELSE "limited_answer"
           r == InstrumentReply(st, q)
<1>1. r = IF pack = <<>> THEN Insufficient("instrument") ELSE Answer(status, "instrument", shown)
      BY DEF InstrumentReply
<1>2. row = None \/ row \in ToSet(st.evidence) BY PartRowFacts
<1> HIDE DEF row
<1>3. RowsOfStore(st, Select(<<row>>, Found)) BY <1>2, ShortLists, FoundRows
<1>4. AllTruthful(st, q, cs) BY <1>3, AsCandidates
<1> HIDE DEF cs
<1>5. /\ IsSeq(shown) /\ (pack # <<>> => shown # <<>>)
      /\ \A s \in ToSet(shown) : Proper(st, s)
  <2> DEFINE none == <<>>
             narrowed == [i \in DOMAIN shown |-> ClaimCitation(shown[i], none)]
  <2>1. IsSeq(none) /\ ToSet(none) = {} BY ShortLists
  <2> HIDE DEF none
  <2>2. narrowed = [i \in DOMAIN shown |-> ClaimCitation(shown[i], none)] OBVIOUS
  <2> HIDE DEF narrowed
  <2> QED BY <1>4, <2>1, <2>2, PackShown
<1>6. status \in Answers BY DEF Answers
<1> HIDE DEF shown, status, pack, r
<1>7. WellReplied(st, r) BY <1>1, <1>5, <1>6, AnswerFacts
<1>8. r.route = "instrument" /\ r.kind = "answer" BY <1>1 DEF Answer, Insufficient, Refusal, Reply
<1>9. Fulfilled(r) => r.supports # <<>>
  <2>1. CASE pack = <<>> BY <1>1, <2>1, AnswerFacts
  <2>2. CASE pack # <<>> BY <1>1, <1>5, <2>2 DEF Answer, Reply
  <2> QED BY <2>1, <2>2
<1> QED BY <1>7, <1>8, <1>9 DEF r

\* _article_relation_response: what is shown proves or traces an edge that was found.
LEMMA ArticleReplyFacts ==
    ASSUME NEW st, Sound(st), NEW edges, IsSeq(edges), ToSet(edges) \subseteq ToSet(st.edges),
           \A edge \in ToSet(edges) : edge.type \notin OfDocuments,
           NEW r, r = ArticleRelationReply(st, edges)
    PROVE  /\ WellReplied(st, r) /\ r.kind = "answer" /\ r.route = "document_relation"
           /\ Fulfilled(r) => r.supports # <<>> /\ edges # <<>>
           /\ \A s \in ToSet(r.supports) : \E edge \in ToSet(edges) : edge.evidence = s.id
<1> DEFINE exact == Select(edges, LAMBDA edge : edge.exact)
           targets == {edge.target : edge \in ToSet(exact)}
           trace == Select(edges, LAMBDA edge : ~edge.exact /\ edge.target \notin targets)
           all == [i \in DOMAIN exact |-> RelationProof(st, exact[i])]
           proofs == Select(all, Found)
           traces == [i \in DOMAIN trace |-> RelationTrace(trace[i])]
           shown == proofs \o traces
           status == IF traces = <<>> THEN "answer_ready" ELSE "limited_answer"
           Of(s) == \E edge \in ToSet(edges) : edge.evidence = s.id
<1>1. r = IF proofs = <<>> /\ traces = <<>> THEN Insufficient("document_relation")
          ELSE Answer(status, "document_relation", shown)
      BY DEF ArticleRelationReply
<1>2. IsSeq(exact) /\ ToSet(exact) \subseteq ToSet(edges) BY KeptFacts DEF Select
<1> HIDE DEF exact
<1>3. IsSeq(trace) /\ ToSet(trace) \subseteq ToSet(edges) BY KeptFacts DEF Select
<1> HIDE DEF trace
<1>4. all = [i \in DOMAIN exact |-> all[i]] OBVIOUS
<1>5. \A i \in DOMAIN exact : all[i] = RelationProof(st, exact[i]) OBVIOUS
<1> HIDE DEF all
<1>6. IsSeq(all) /\ ToSet(all) = {all[i] : i \in DOMAIN exact} BY <1>2, <1>4, Mapped
<1>7. /\ IsSeq(proofs)
      /\ ToSet(proofs) = ToSet(all) \cap {x \in ToSet(all) : Found(x)}
      BY <1>6, KeptFacts DEF Select
<1> HIDE DEF proofs
<1>8. ASSUME NEW s \in ToSet(proofs) PROVE Proper(st, s) /\ Of(s)
  <2>1. PICK i \in DOMAIN exact : s = RelationProof(st, exact[i]) /\ Found(s)
        BY <1>5, <1>6, <1>7
  <2>2. exact[i] \in ToSet(exact) BY DEF ToSet
  <2> QED BY <1>2, <2>1, <2>2, RelationSupportFacts
<1>9. traces = [i \in DOMAIN trace |-> traces[i]] OBVIOUS
<1>10. \A i \in DOMAIN trace : traces[i] = RelationTrace(trace[i]) OBVIOUS
<1> HIDE DEF traces
<1>11. IsSeq(traces) /\ ToSet(traces) = {traces[i] : i \in DOMAIN trace} BY <1>3, <1>9, Mapped
<1>12. ASSUME NEW s \in ToSet(traces) PROVE Proper(st, s) /\ Of(s)
  <2>1. PICK i \in DOMAIN trace : s = RelationTrace(trace[i]) BY <1>10, <1>11
  <2>2. trace[i] \in ToSet(trace) BY DEF ToSet
  <2> QED BY <1>3, <2>1, <2>2, RelationSupportFacts
<1>13. IsSeq(shown) /\ ToSet(shown) = ToSet(proofs) \cup ToSet(traces) BY <1>7, <1>11, Joined
<1>14. ~(proofs = <<>> /\ traces = <<>>) => shown # <<>> BY <1>7, <1>11, <1>13, ListFacts
<1>15. \A s \in ToSet(shown) : Proper(st, s) /\ Of(s) BY <1>8, <1>12, <1>13
<1>16. status \in Answers BY DEF Answers
<1>17. shown # <<>> => edges # <<>>
  <2>1. shown # <<>> => ToSet(shown) # {} BY <1>13, ListFacts
  <2>2. ToSet(shown) # {} => ToSet(edges) # {} BY <1>15
  <2> QED BY <2>1, <2>2, ListFacts
<1> HIDE DEF shown, status
<1>18. CASE proofs = <<>> /\ traces = <<>>
  <2>1. r = Insufficient("document_relation") BY <1>1, <1>18
  <2>2. r.kind = "answer" /\ r.route = "document_relation" /\ r.supports = <<>>
        BY <2>1 DEF Insufficient, Refusal, Reply
  <2> QED BY <2>1, <2>2, AnswerFacts, ShortLists
<1>19. CASE ~(proofs = <<>> /\ traces = <<>>)
  <2>1. r = Answer(status, "document_relation", shown) BY <1>1, <1>19
  <2>2. r.kind = "answer" /\ r.route = "document_relation" /\ r.supports = shown
        BY <2>1 DEF Answer, Reply
  <2> QED BY <1>13, <1>14, <1>15, <1>16, <1>17, <1>19, <2>1, <2>2, AnswerFacts
<1> QED BY <1>18, <1>19

\* _relation_response
LEMMA RelationReplyFacts ==
    ASSUME NEW st, Sound(st), NEW x, IsSeq(x.edges), ToSet(x.edges) \subseteq ToSet(st.edges),
           x.target.mode = "article" => \A edge \in ToSet(x.edges) : edge.type \notin OfDocuments,
           NEW r, r = RelationReply(st, x)
    PROVE  /\ WellReplied(st, r) /\ r.kind = "answer" /\ r.route = "document_relation"
           /\ Fulfilled(r) => x.edges # <<>>
           /\ Fulfilled(r) /\ r.supports = <<>> =>
                 r.status = "answer_ready" /\ x.target.mode = "document"
           /\ r.supports # <<>> => x.target.mode = "article"
           /\ \A s \in ToSet(r.supports) : \E edge \in ToSet(x.edges) : edge.evidence = s.id
<1>1. CASE x.target.mode = "article"
  <2>1. r = ArticleRelationReply(st, x.edges) BY <1>1 DEF RelationReply
  <2> QED BY <1>1, <2>1, ArticleReplyFacts
<1>2. CASE x.target.mode = "document" /\ x.edges # <<>>
  <2>1. r = Answer("answer_ready", "document_relation", <<>>) BY <1>2 DEF RelationReply
  <2>2. /\ r.kind = "answer" /\ r.route = "document_relation" /\ r.supports = <<>>
        /\ r.status = "answer_ready"
        BY <2>1 DEF Answer, Reply
  <2>3. WellReplied(st, r)
    <3> DEFINE none == <<>>
    <3>1. IsSeq(none) /\ ToSet(none) = {} /\ "answer_ready" \in Answers BY ShortLists DEF Answers
    <3>2. r = Answer("answer_ready", "document_relation", none) BY <2>1
    <3> HIDE DEF none
    <3> QED BY <3>1, <3>2, AnswerFacts
  <2> QED BY <1>2, <2>2, <2>3, ShortLists
<1>3. CASE x.target.mode # "article" /\ ~(x.target.mode = "document" /\ x.edges # <<>>)
  <2>1. r = Insufficient("document_relation") BY <1>3 DEF RelationReply
  <2>2. r.kind = "answer" /\ r.route = "document_relation" /\ r.supports = <<>>
        BY <2>1 DEF Insufficient, Refusal, Reply
  <2> QED BY <2>1, <2>2, AnswerFacts, ShortLists
<1> QED BY <1>1, <1>2, <1>3

\* the rows of x are what the choice stands for
RowsHold(st, ch, x) ==
    \A c \in ToSet(x.rows) :
        /\ ch.kind = "legal_target" => ch.value \in Hierarchy(st, c.row.unit)
        /\ ch.kind = "concept_facet" => c.row.id \in ch.value
        /\ ch.kind = "entity" => c.entity = ch.value
\* a ch of rows leaves no relation of documents
EdgesHold(ch, x) ==
    ch.kind \in {"legal_target", "concept_facet", "entity"} => x.edges = <<>>

\* y is what the ch leaves of x
Narrowed(st, ch, x, y) ==
    /\ IsSeq(y.rows) /\ ToSet(y.rows) \subseteq ToSet(x.rows)
    /\ y.edges = x.edges \/ y.edges = <<>>
    /\ y.status \in {x.status, "no_results"}
    /\ y.route = x.route /\ y.target = x.target /\ y.roles = x.roles
    /\ RowsHold(st, ch, y) /\ EdgesHold(ch, y)

\* _apply_clarification_constraint takes away the rows and edges that are not what was
\* chosen, and adds none.
LEMMA ConstrainedFacts ==
    ASSUME NEW st, NEW x, DOMAIN x = RoutedFields, IsSeq(x.rows), NEW ch
    PROVE  Narrowed(st, ch, x, Constrained(st, x, ch))
<1> DEFINE Fits(c) ==
               CASE ch.kind = "legal_target" -> ch.value \in Hierarchy(st, c.row.unit)
                 [] ch.kind = "concept_facet" -> c.row.id \in ch.value
                 [] ch.kind = "entity" -> c.entity = ch.value
                 [] OTHER -> TRUE
           rows == Select(x.rows, Fits)
           edges == IF ch.kind \in {None, "source_role", "relation_family"} THEN x.edges ELSE <<>>
           status == IF ch # NoChoice /\ rows = <<>> /\ edges = <<>>
                     THEN "no_results" ELSE x.status
           y == Constrained(st, x, ch)
<1>1. y = [x EXCEPT !.rows = rows, !.edges = edges, !.status = status] BY DEF Constrained
<1>2. IsSeq(rows) /\ ToSet(rows) = ToSet(x.rows) \cap {c \in ToSet(x.rows) : Fits(c)}
      BY KeptFacts DEF Select
<1>3. \A c \in ToSet(rows) :
        /\ ch.kind = "legal_target" => ch.value \in Hierarchy(st, c.row.unit)
        /\ ch.kind = "concept_facet" => c.row.id \in ch.value
        /\ ch.kind = "entity" => c.entity = ch.value
  <2>1. ASSUME NEW c \in ToSet(rows), ch.kind = "legal_target"
        PROVE  ch.value \in Hierarchy(st, c.row.unit)
        BY <1>2, <2>1
  <2>2. ASSUME NEW c \in ToSet(rows), ch.kind = "concept_facet"
        PROVE  c.row.id \in ch.value
        BY <1>2, <2>2
  <2>3. ASSUME NEW c \in ToSet(rows), ch.kind = "entity" PROVE c.entity = ch.value
        BY <1>2, <2>3
  <2> QED BY <2>1, <2>2, <2>3
<1>4. /\ edges = x.edges \/ edges = <<>>
      /\ status \in {x.status, "no_results"}
      /\ ch.kind \in {"legal_target", "concept_facet", "entity"} => edges = <<>>
      BY NoneAssumption DEF ChoiceKinds, NoChoice, Choice
<1> HIDE DEF rows, edges, status, y
<1>5. /\ y.rows = rows /\ y.edges = edges /\ y.status = status
      /\ y.route = x.route /\ y.target = x.target /\ y.roles = x.roles
      BY <1>1 DEF RoutedFields
<1> QED BY <1>2, <1>3, <1>4, <1>5 DEF RowsHold, EdgesHold, Narrowed, y

\* the claim of the question is proved by a proposition of what is shown
ClaimProved(st, q, r) ==
    /\ \E p \in ToSet(st.props) : Proves(p, q.claim) /\ \E s \in ToSet(r.supports) :
           p.unit = s.unit \/ \E u \in ToSet(st.units) : u.id = p.unit /\ u.parent = s.unit
    /\ \A s \in ToSet(r.supports) : Found(s.proposition) =>
           \E p \in ToSet(st.props) : p.id = s.proposition /\ Proves(p, q.claim)
\* the one row of a lexical answer has every word of the question
WholeAnswer(st, q, r) ==
    /\ r.status = "limited_answer" /\ Len(r.supports) = 1
    /\ \A s \in ToSet(r.supports) : q.words \subseteq RowWords(st, Get(st, s.id))

\* verify_claims: the propositions are of the store, say the claim and stand in units of
\* the rows or in Ayat of them.
LEMMA ClaimFacts ==
    ASSUME NEW st, Sound(st), NEW q, NEW rows
    PROVE  /\ IsSeq(ClaimSupport(st, q, rows))
           /\ \A p \in ToSet(ClaimSupport(st, q, rows)) :
                 /\ p \in ToSet(st.props) /\ p.boxes # <<>> /\ p.lines # <<>>
                 /\ Proves(p, q.claim)
                 /\ \E row \in rows :
                       \/ p.unit = row.unit
                       \/ \E u \in ToSet(st.units) : u.id = p.unit /\ u.parent = row.unit
<1> DEFINE units == {row.unit : row \in rows}
           ayat == {u.id : u \in {u \in ToSet(st.units) : u.parent \in units /\ u.kind = "ayat"}}
           grounded == GroundedPropositions(st, rows)
           T == {p \in ToSet(st.props) :
                   p.unit \in (IF ayat # {} THEN ayat ELSE units) /\ p.boxes # <<>> /\ p.lines # <<>>}
<1>1. grounded = Kept(st.props, T) BY DEF GroundedPropositions, Select
<1>2. IsSeq(grounded) /\ ToSet(grounded) = ToSet(st.props) \cap T
  <2> HIDE DEF T, grounded
  <2> QED BY <1>1, StoreRows, KeptFacts
<1>3. ASSUME NEW p \in ToSet(grounded)
      PROVE  \E row \in rows :
                \/ p.unit = row.unit
                \/ \E u \in ToSet(st.units) : u.id = p.unit /\ u.parent = row.unit
  <2>1. p.unit \in ayat \/ p.unit \in units BY <1>2
  <2>2. CASE p.unit \in units BY <2>2
  <2>3. CASE p.unit \in ayat
    <3>1. PICK u \in ToSet(st.units) : u.parent \in units /\ u.id = p.unit BY <2>3
    <3> QED BY <3>1
  <2> QED BY <2>1, <2>2, <2>3
<1> HIDE DEF grounded
<1> DEFINE U == {p \in ToSet(grounded) :
                   /\ p.predicate = q.claim.predicate /\ p.polarity = q.claim.polarity
                   /\ SemanticRole(q) \in {None, p.role}
                   /\ q.claim.words # {} /\ q.claim.words \subseteq p.says}
<1>4. ClaimSupport(st, q, rows) = Kept(grounded, U) BY DEF ClaimSupport, Select, grounded
<1>5. IsSeq(Kept(grounded, U)) /\ ToSet(Kept(grounded, U)) = ToSet(grounded) \cap U
      BY <1>2, KeptFacts
<1>6. \A p \in U : Proves(p, q.claim) BY DEF Proves
<1> QED BY <1>2, <1>3, <1>4, <1>5, <1>6

\* What an answer rests on: rows of x that passed the gate; for a claim, propositions
\* that prove it; for a lexical answer, one row with every word.
LEMMA AnswerFromFacts ==
    ASSUME NEW st, Sound(st), NEW q, NEW role, NEW x, OfRole(st, q, role, x.rows),
           x.route = "bm25" => Lexical(x.rows),
           NEW r, r = AnswerFrom(st, q, x, ContextPack(st, AnswerRows(st, x)))
    PROVE  /\ WellReplied(st, r) /\ r.kind = "answer" /\ r.route = x.route
           /\ Fulfilled(r) => r.supports # <<>>
           /\ \A s \in ToSet(r.supports) : RestsOn(st, x.rows, s)
           /\ Fulfilled(r) /\ x.route = "bm25" => WholeAnswer(st, q, r)
           /\ Fulfilled(r) /\ VerifiesClaim(q) => ClaimProved(st, q, r)
<1> DEFINE valid == Select(x.rows, LAMBDA c : Accepted(st, c))
           cs == AnswerRows(st, x)
           pack == ContextPack(st, cs)
           plain == SupportsOf(st, pack)
           rows == {item.row : item \in ToSet(pack)}
           props == IF VerifiesClaim(q) THEN ClaimSupport(st, q, rows) ELSE <<>>
           shown == [i \in DOMAIN plain |-> ClaimCitation(plain[i], props)]
           traced == InGroup(pack, "trace_support") # <<>> /\ InGroup(pack, "final_citations") = <<>>
           status == IF x.route = "bm25" \/ traced THEN "limited_answer" ELSE "answer_ready"
           refused == pack = <<>> \/ (VerifiesClaim(q) /\ props = <<>>)
<1>1. r = IF refused THEN Insufficient(x.route) ELSE Answer(status, x.route, shown)
      BY DEF AnswerFrom
<1>2. AllTruthful(st, q, x.rows) /\ IsSeq(x.rows) BY DEF OfRole, AllTruthful
<1>3. /\ AllTruthful(st, q, cs) /\ ToSet(cs) \subseteq ToSet(x.rows)
      /\ x.route = "bm25" => Len(cs) = 1 \/ \A c \in ToSet(cs) : ~Accepted(st, c)
  <2>1. cs = IF x.route = "bm25" /\ valid # <<>> THEN <<valid[1]>> ELSE x.rows BY DEF AnswerRows
  <2>2. /\ IsSeq(valid)
        /\ ToSet(valid) = ToSet(x.rows) \cap {c \in ToSet(x.rows) : Accepted(st, c)}
        BY <1>2, KeptFacts DEF Select
  <2> HIDE DEF valid, cs
  <2>3. CASE x.route = "bm25" /\ valid # <<>>
    <3>1. valid[1] \in ToSet(x.rows) BY <2>2, <2>3, ListFacts
    <3>2. IsSeq(cs) /\ ToSet(cs) = {valid[1]} /\ Len(cs) = 1 BY <2>1, <2>3, ShortLists
    <3> QED BY <1>2, <3>1, <3>2 DEF AllTruthful
  <2>4. CASE ~(x.route = "bm25" /\ valid # <<>>)
    <3>1. cs = x.rows BY <2>1, <2>4
    <3>2. valid = <<>> => ToSet(valid) = {} BY <2>2, ListFacts
    <3> QED BY <1>2, <2>2, <2>4, <3>1, <3>2
  <2> QED BY <2>3, <2>4
<1> HIDE DEF cs, valid
<1>4. /\ IsSeq(pack)
      /\ \A item \in ToSet(pack) : \E c \in ToSet(cs) : Accepted(st, c) /\ item.row = c.row
      /\ Len(cs) = 1 /\ pack # <<>> => Len(pack) = 1
      BY <1>3, PackFacts DEF AllTruthful
<1>5. \A p \in ToSet(props) :
         /\ p \in ToSet(st.props) /\ p.boxes # <<>> /\ p.lines # <<>>
         /\ VerifiesClaim(q) =>
               /\ Proves(p, q.claim)
               /\ \E row \in rows :
                     \/ p.unit = row.unit
                     \/ \E u \in ToSet(st.units) : u.id = p.unit /\ u.parent = row.unit
  <2> HIDE DEF rows
  <2>1. CASE VerifiesClaim(q) BY <2>1, ClaimFacts
  <2>2. CASE ~VerifiesClaim(q) BY <2>2, ShortLists
  <2> QED BY <2>1, <2>2
<1>6. IsSeq(props)
  <2> HIDE DEF rows
  <2> QED BY ClaimFacts, ShortLists
<1>7. pack = ContextPack(st, cs) /\ plain = SupportsOf(st, pack) OBVIOUS
<1>8. shown = [i \in DOMAIN plain |-> ClaimCitation(plain[i], props)] OBVIOUS
<1> HIDE DEF pack, plain, props, shown, traced
<1>9. /\ IsSeq(shown) /\ Len(shown) = Len(plain) /\ (pack # <<>> => shown # <<>>)
      /\ \A s \in ToSet(shown) :
            /\ Proper(st, s) /\ RestsOn(st, cs, s)
            /\ Found(s.proposition) => \E p \in ToSet(props) : p.id = s.proposition
      /\ \A item \in ToSet(pack) : \E s \in ToSet(shown) : s.unit = item.row.unit
      BY <1>3, <1>5, <1>6, <1>7, <1>8, PackShown
<1>10. CASE refused
  <2>1. r = Insufficient(x.route) BY <1>1, <1>10
  <2>2. r.kind = "answer" /\ r.route = x.route /\ r.supports = <<>>
        BY <2>1 DEF Insufficient, Refusal, Reply
  <2> QED BY <2>1, <2>2, AnswerFacts, ShortLists
<1>11. CASE ~refused
  <2>1. r = Answer(status, x.route, shown) /\ status \in Answers BY <1>1, <1>11 DEF Answers
  <2>2. r.kind = "answer" /\ r.route = x.route /\ r.supports = shown /\ r.status = status
        BY <2>1 DEF Answer, Reply
  <2>3. WellReplied(st, r) /\ Fulfilled(r) BY <1>9, <2>1, AnswerFacts
  <2>4. shown # <<>> BY <1>9, <1>11
  <2>5. \A s \in ToSet(shown) : RestsOn(st, x.rows, s) BY <1>3, <1>9 DEF RestsOn
  <2>6. ASSUME x.route = "bm25" PROVE WholeAnswer(st, q, r)
    <3>1. PICK item \in ToSet(pack) : TRUE BY <1>4, <1>11, ListFacts
    <3>2. Len(cs) = 1 BY <1>3, <1>4, <2>6, <3>1
    <3>3. Len(pack) = 1 BY <1>4, <1>11, <3>2
    <3>4. Len(plain) = 1
      <4>1. \A i \in ToSet(pack) : i.group \in SupportGroups
            BY <1>3, <1>7, PackFacts DEF AllTruthful
      <4> QED BY <1>4, <1>7, <3>3, <4>1, SupportsFacts
    <3>5. ASSUME NEW s \in ToSet(shown) PROVE q.words \subseteq RowWords(st, Get(st, s.id))
      <4>1. PICK c \in ToSet(x.rows) : Accepted(st, c) /\ s.id = c.row.id BY <2>5 DEF RestsOn
      <4>2. c.via = "bm25" BY <2>6, <4>1 DEF Lexical
      <4>3. c.whole BY <4>1, <4>2 DEF Accepted
      <4>4. c.row \in ToSet(st.evidence) /\ q.words \subseteq RowWords(st, c.row)
            BY <1>2, <4>2, <4>3 DEF AllTruthful, Truthful
      <4>5. Get(st, s.id) = c.row BY <4>1, <4>4, GetFacts
      <4> QED BY <4>4, <4>5
    <3>6. status = "limited_answer" BY <2>6
    <3> QED BY <1>9, <2>2, <3>4, <3>5, <3>6 DEF WholeAnswer
  <2>7. ASSUME VerifiesClaim(q) PROVE ClaimProved(st, q, r)
    <3>1. props # <<>> BY <1>11, <2>7
    <3>2. PICK p \in ToSet(props) : TRUE BY <1>6, <3>1, ListFacts
    <3>3. PICK row \in rows :
             \/ p.unit = row.unit
             \/ \E u \in ToSet(st.units) : u.id = p.unit /\ u.parent = row.unit
          BY <1>5, <2>7
    <3>4. PICK item \in ToSet(pack) : row = item.row OBVIOUS
    <3>5. PICK s \in ToSet(shown) : s.unit = row.unit BY <1>9, <3>4
    <3>6. p \in ToSet(st.props) /\ Proves(p, q.claim) BY <1>5, <2>7
    <3>7. \A t \in ToSet(shown) : Found(t.proposition) =>
             \E other \in ToSet(st.props) : other.id = t.proposition /\ Proves(other, q.claim)
          BY <1>5, <1>9, <2>7
    <3> QED BY <2>2, <3>3, <3>5, <3>6, <3>7 DEF ClaimProved
  <2> QED BY <2>2, <2>3, <2>4, <2>5, <2>6, <2>7
<1> QED BY <1>10, <1>11

-----------------------------------------------------------------------------
(* Clarifications *)

\* what an option stands for: a person or an operation is one
Offerable(option) ==
    /\ option.kind \in ChoiceKinds
    /\ option.kind = "entity" => Found(option.value)
    /\ option.kind = "relation_family" => option.value \in Families
WellOffered(options) ==
    /\ IsSeq(options) /\ (options # <<>> => Len(options) > 1)
    /\ \A option \in ToSet(options) : Offerable(option)

LEMMA OptionsFacts ==
    ASSUME NEW kind \in ChoiceKinds, NEW values, IsSeq(values),
           kind = "entity" => \A v \in ToSet(values) : Found(v),
           kind = "relation_family" => ToSet(values) \subseteq Families
    PROVE  /\ IsSeq(Options(kind, values)) /\ Len(Options(kind, values)) = Len(values)
           /\ \A option \in ToSet(Options(kind, values)) : Offerable(option)
<1> DEFINE options == Options(kind, values)
<1>1. options = [i \in DOMAIN values |-> Choice(kind, values[i])] BY DEF Options
<1>2. options = [i \in DOMAIN values |-> options[i]] BY <1>1
<1>3. \A i \in DOMAIN values : options[i] = Choice(kind, values[i]) BY <1>1
<1> HIDE DEF options
<1>4. /\ IsSeq(options) /\ Len(options) = Len(values)
      /\ ToSet(options) = {options[i] : i \in DOMAIN values}
      BY <1>2, Mapped
<1>5. ASSUME NEW option \in ToSet(options) PROVE Offerable(option)
  <2>1. PICK i \in DOMAIN values : option = Choice(kind, values[i]) BY <1>3, <1>4
  <2>2. values[i] \in ToSet(values) BY DEF ToSet
  <2>3. option.kind = kind /\ option.value = values[i] BY <2>1 DEF Choice
  <2> QED BY <2>2, <2>3 DEF Offerable
<1> QED BY <1>4, <1>5 DEF options

\* What the entries of a list have in one field, or are under any other reading, is finite.
LEMMA FiniteReading ==
    ASSUME NEW s, IsSeq(s), NEW f, f = [i \in DOMAIN s |-> f[i]],
           NEW S, \A x \in S : \E i \in DOMAIN s : x = f[i]
    PROVE  IsFiniteSet(S)
<1>1. IsSeq(f) /\ ToSet(f) = {f[i] : i \in DOMAIN s} BY Mapped
<1>2. IsFiniteSet(ToSet(f)) BY <1>1, FiniteList
<1>3. S \subseteq ToSet(f) BY <1>1
<1> QED BY <1>2, <1>3, FS_Subset

LEMMA ReferenceOptionsFacts ==
    ASSUME NEW st, NEW q, IsSeq(q.refs), NEW x
    PROVE  WellOffered(ReferenceOptions(st, q, x))
<1> DEFINE refs == Select(q.refs, LAMBDA ref : ~Found(ref.ayat) /\ HasFinalTarget(st, ref.pasal))
           labels == [i \in DOMAIN refs |-> refs[i].pasal]
<1>1. \/ ReferenceOptions(st, q, x) = <<>>
      \/ ReferenceOptions(st, q, x) = Options("legal_target", labels) /\ Len(refs) > 1
      BY DEF ReferenceOptions
<1>2. IsSeq(refs) BY KeptFacts DEF Select
<1> HIDE DEF refs
<1>3. labels = [i \in DOMAIN refs |-> labels[i]] OBVIOUS
<1> HIDE DEF labels
<1>4. IsSeq(labels) /\ Len(labels) = Len(refs) BY <1>2, <1>3, Mapped
<1>5. WellOffered(<<>>) BY ShortLists DEF WellOffered
<1>6. /\ IsSeq(Options("legal_target", labels)) /\ Len(Options("legal_target", labels)) = Len(labels)
      /\ \A option \in ToSet(Options("legal_target", labels)) : Offerable(option)
      BY <1>4, OptionsFacts DEF ChoiceKinds
<1> QED BY <1>1, <1>4, <1>5, <1>6 DEF WellOffered

LEMMA EntityOptionsFacts ==
    ASSUME NEW x, IsSeq(x.rows)
    PROVE  /\ WellOffered(EntityOptions(x))
           /\ Entities(x) = {} => EntityOptions(x) = <<>>
<1> DEFINE f == [i \in DOMAIN x.rows |-> x.rows[i].entity]
           S == Entities(x)
<1>1. f = [i \in DOMAIN x.rows |-> f[i]] OBVIOUS
<1>2. \A v \in S : \E i \in DOMAIN x.rows : v = f[i] BY DEF Entities, ToSet
<1>3. None \notin S BY DEF Entities
<1>4. \/ EntityOptions(x) = <<>>
      \/ EntityOptions(x) = Options("entity", SetToSeq(S)) /\ Cardinality(S) > 1
      BY DEF EntityOptions
<1> HIDE DEF f, S
<1>5. IsFiniteSet(S) BY <1>1, <1>2, FiniteReading
<1>6. /\ IsSeq(SetToSeq(S)) /\ ToSet(SetToSeq(S)) \subseteq S
      /\ Len(SetToSeq(S)) = Cardinality(S)
      BY <1>5, SetListed
<1>7. /\ IsSeq(Options("entity", SetToSeq(S))) /\ Len(Options("entity", SetToSeq(S))) = Cardinality(S)
      /\ \A option \in ToSet(Options("entity", SetToSeq(S))) : Offerable(option)
      BY <1>3, <1>6, OptionsFacts DEF ChoiceKinds, Found
<1>8. WellOffered(<<>>) BY ShortLists DEF WellOffered
<1>9. S = {} => ~(Cardinality(S) > 1) BY FS_EmptySet
<1> QED BY <1>4, <1>7, <1>8, <1>9 DEF WellOffered, S

LEMMA MetadataOptionsFacts ==
    ASSUME NEW x, IsFiniteSet(x.roles), NEW role
    PROVE  WellOffered(MetadataOptions(x, role))
<1> DEFINE S == x.roles
<1>1. \/ MetadataOptions(x, role) = <<>>
      \/ MetadataOptions(x, role) = Options("source_role", SetToSeq(S)) /\ Cardinality(S) > 1
      BY DEF MetadataOptions
<1>2. /\ IsSeq(SetToSeq(S)) /\ Len(SetToSeq(S)) = Cardinality(S) BY SetListed
<1>3. /\ IsSeq(Options("source_role", SetToSeq(S)))
      /\ Len(Options("source_role", SetToSeq(S))) = Cardinality(S)
      /\ \A option \in ToSet(Options("source_role", SetToSeq(S))) : Offerable(option)
      BY <1>2, OptionsFacts DEF ChoiceKinds
<1>4. WellOffered(<<>>) BY ShortLists DEF WellOffered
<1> QED BY <1>1, <1>3, <1>4 DEF WellOffered

LEMMA OperationOptionsFacts ==
    ASSUME NEW st, NEW q, NEW x
    PROVE  WellOffered(OperationOptions(st, q, x))
<1> DEFINE Cited(edge) == \E ref \in ToSet(q.refs) : ref.pasal = edge.label /\ ref.ayat = edge.ayat
           S == {family \in Families :
                   \E edge \in ToSet(st.edges) : edge.type \in TypesOf(family) /\ Cited(edge)}
<1>1. \/ OperationOptions(st, q, x) = <<>>
      \/ OperationOptions(st, q, x) = Options("relation_family", SetToSeq(S)) /\ Cardinality(S) > 1
      BY DEF OperationOptions
<1>2. S \subseteq Families OBVIOUS
<1> HIDE DEF S
<1>3. IsFiniteSet(Families)
  <2>1. IsFiniteSet({}) BY FS_EmptySet
  <2>2. IsFiniteSet({} \cup {"RENAME_PROVISION"}) BY <2>1, FS_AddElement
  <2>3. IsFiniteSet({} \cup {"RENAME_PROVISION"} \cup {"DELETE_OR_REMOVE_PROVISION"})
        BY <2>2, FS_AddElement
  <2>4. IsFiniteSet({} \cup {"RENAME_PROVISION"} \cup {"DELETE_OR_REMOVE_PROVISION"}
                    \cup {"MODIFY_PROVISION"})
        BY <2>3, FS_AddElement
  <2>5. Families = {} \cup {"RENAME_PROVISION"} \cup {"DELETE_OR_REMOVE_PROVISION"}
                    \cup {"MODIFY_PROVISION"}
        BY DEF Families
  <2> QED BY <2>4, <2>5
<1>4. IsFiniteSet(S) BY <1>2, <1>3, FS_Subset
<1>5. /\ IsSeq(SetToSeq(S)) /\ ToSet(SetToSeq(S)) \subseteq S /\ Len(SetToSeq(S)) = Cardinality(S)
      BY <1>4, SetListed
<1>6. /\ IsSeq(Options("relation_family", SetToSeq(S)))
      /\ Len(Options("relation_family", SetToSeq(S))) = Cardinality(S)
      /\ \A option \in ToSet(Options("relation_family", SetToSeq(S))) : Offerable(option)
      BY <1>2, <1>5, OptionsFacts DEF ChoiceKinds
<1>7. WellOffered(<<>>) BY ShortLists DEF WellOffered
<1> QED BY <1>1, <1>6, <1>7 DEF WellOffered

LEMMA LexicalOptionsFacts ==
    ASSUME NEW st, NEW q, IsSeq(q.clauses), NEW x, IsSeq(x.rows)
    PROVE  /\ WellOffered(LexicalOptions(st, q, x))
           /\ q.clauses = <<>> /\ (\A c \in ToSet(x.rows) : ~c.whole) =>
                 LexicalOptions(st, q, x) = <<>>
<1> DEFINE facets == [i \in DOMAIN q.clauses |-> ClauseRows(x, q.clauses[i])]
           whole == {c \in ToSet(x.rows) : c.whole /\ Found(TargetLabel(st, c.row))}
           labels == {label \in {TargetLabel(st, c.row) : c \in whole} : HasFinalTarget(st, label)}
           shown == Upto(3, SetToSeq(labels))
           options == IF Len(q.clauses) > 1
                      THEN IF {} \in ToSet(facets) THEN <<>> ELSE Options("concept_facet", facets)
                      ELSE IF Asks(q, "normalised") \/ TopQuoteHasAll(st, q, x.rows) THEN <<>>
                      ELSE Options("legal_target", shown)
<1>1. \/ LexicalOptions(st, q, x) = <<>>
      \/ LexicalOptions(st, q, x) = options /\ Len(options) > 1
      BY DEF LexicalOptions
<1>2. IsSeq(facets)
  <2>1. facets = [i \in DOMAIN q.clauses |-> facets[i]] OBVIOUS
  <2> HIDE DEF facets
  <2> QED BY <2>1, Mapped
<1> HIDE DEF facets
<1>3. IsFiniteSet(labels)
  <2> DEFINE f == [i \in DOMAIN x.rows |-> TargetLabel(st, x.rows[i].row)]
  <2>1. f = [i \in DOMAIN x.rows |-> f[i]] OBVIOUS
  <2>2. \A label \in labels : \E i \in DOMAIN x.rows : label = f[i] BY DEF ToSet
  <2> HIDE DEF f, labels
  <2> QED BY <2>1, <2>2, FiniteReading
<1>4. (\A c \in ToSet(x.rows) : ~c.whole) => labels = {} OBVIOUS
<1> HIDE DEF labels
<1>5. /\ IsSeq(SetToSeq(labels)) /\ ToSet(SetToSeq(labels)) \subseteq labels BY <1>3, SetListed
<1>6. IsSeq(shown) /\ ToSet(shown) \subseteq labels BY <1>5, UptoFacts
<1> HIDE DEF shown
<1>7. /\ IsSeq(Options("concept_facet", facets)) /\ IsSeq(Options("legal_target", shown))
      /\ Len(Options("legal_target", shown)) = Len(shown)
      /\ \A option \in ToSet(Options("concept_facet", facets)) : Offerable(option)
      /\ \A option \in ToSet(Options("legal_target", shown)) : Offerable(option)
      BY <1>2, <1>6, OptionsFacts DEF ChoiceKinds
<1>8. IsSeq(options) /\ \A option \in ToSet(options) : Offerable(option) BY <1>7, ShortLists
<1>9. ASSUME q.clauses = <<>>, \A c \in ToSet(x.rows) : ~c.whole PROVE ~(Len(options) > 1)
  <2>1. ToSet(shown) = {} BY <1>4, <1>6, <1>9
  <2>2. Len(shown) = 0 BY <1>6, <2>1, ListFacts
  <2>3. Len(q.clauses) = 0 BY <1>9, ShortLists
  <2>4. options \in {<<>>, Options("legal_target", shown)} BY <2>3
  <2> QED BY <1>7, <2>2, <2>4, ShortLists
<1> HIDE DEF options
<1>10. WellOffered(<<>>) BY ShortLists DEF WellOffered
<1> QED BY <1>1, <1>8, <1>9, <1>10 DEF WellOffered

\* clarification_decision: the options of the first ambiguity, at least two.
LEMMA ClarificationFacts ==
    ASSUME NEW st, NEW q, IsSeq(q.refs), IsSeq(q.clauses), NEW x, IsSeq(x.rows),
           IsFiniteSet(x.roles), NEW role, NEW options,
           options = Clarification(st, q, x, role), Found(options)
    PROVE  /\ WellOffered(options) /\ options # <<>>
           /\ options \in {ReferenceOptions(st, q, x), EntityOptions(x), MetadataOptions(x, role),
                           OperationOptions(st, q, x), LexicalOptions(st, q, x)}
<1> DEFINE a == ReferenceOptions(st, q, x)
           b == EntityOptions(x)
           c == MetadataOptions(x, role)
           d == OperationOptions(st, q, x)
           e == LexicalOptions(st, q, x)
           all == <<a, b, c, d, e>>
           T == {s \in ToSet(all) : s # <<>>}
<1>1. options = First(Kept(all, T)) BY DEF Clarification, FirstNonEmpty, Select
<1>2. /\ WellOffered(a) /\ WellOffered(b) /\ WellOffered(c) /\ WellOffered(d) /\ WellOffered(e)
      BY ReferenceOptionsFacts, EntityOptionsFacts, MetadataOptionsFacts, OperationOptionsFacts,
         LexicalOptionsFacts
<1> HIDE DEF a, b, c, d, e
<1>3. IsSeq(all) /\ ToSet(all) = {a, b, c, d, e}
  <2>1. Len(all) = 5 /\ DOMAIN all = 1 .. 5 OBVIOUS
  <2>2. ToSet(all) = {all[i] : i \in 1 .. 5} BY <2>1 DEF ToSet
  <2>3. ToSet(all) = {a, b, c, d, e}
    <3>1. 1 .. 5 = {1, 2, 3, 4, 5} OBVIOUS
    <3>2. all[1] = a /\ all[2] = b /\ all[3] = c /\ all[4] = d /\ all[5] = e OBVIOUS
    <3> QED BY <2>2, <3>1, <3>2
  <2>4. all \in Seq({a, b, c, d, e}) OBVIOUS
  <2> QED BY <2>3, <2>4 DEF IsSeq
<1> HIDE DEF all
<1>4. options \in ToSet(all) \cap T BY <1>1, <1>3, FirstKept DEF Found
<1> QED BY <1>2, <1>3, <1>4 DEF a, b, c, d, e

-----------------------------------------------------------------------------
(* The reply to a question *)

\* a choice of rows: a provision, the rows of a clause, a person
RowKinds == {"legal_target", "concept_facet", "entity"}
\* the support is what was chosen
RowChosen(st, ch, s) ==
    /\ ch.kind = "legal_target" => ch.value \in Hierarchy(st, s.unit)
    /\ ch.kind = "concept_facet" => s.id \in ch.value
    /\ ch.kind = "entity" /\ Found(ch.value) => SignedBy(st, ch.value, s.id)

\* an answer of rows: of the source asked for, what was chosen, and enough for what is asked
RowsAnswer(st, q, flt, ch, r) ==
    /\ \A s \in ToSet(r.supports) :
          /\ Found(RouteRole(q, AskRole(q, flt, ch))) => s.role = RouteRole(q, AskRole(q, flt, ch))
          /\ RowChosen(st, ch, s)
    /\ VerifiesClaim(q) => ClaimProved(st, q, r)
    /\ r.route = "bm25" => WholeAnswer(st, q, r)
\* an answer of relations: a choice of rows shows none, a choice of an operation its own
EdgesAnswer(st, ch, r) ==
    r.supports # <<>> =>
        /\ ch.kind \notin RowKinds
        /\ ch.kind = "relation_family" /\ ch.value \in Families =>
              \A s \in ToSet(r.supports) : \E edge \in ToSet(st.edges) :
                  edge.evidence = s.id /\ edge.type \in TypesOf(ch.value)
Stated(q, ch, r) ==
    /\ r.route = "document_relation" /\ r.status = "answer_ready"
    /\ AmendmentTarget(q, Chosen(ch, "relation_family")).mode = "document"

ReplyHolds(st, q, flt, ch, r) ==
    /\ WellReplied(st, r)
    /\ Fulfilled(r) /\ r.supports = <<>> => Stated(q, ch, r)
    /\ r.route = "document_relation" => EdgesAnswer(st, ch, r)
    /\ Fulfilled(r) /\ r.route \notin {"instrument", "document_relation"} =>
          RowsAnswer(st, q, flt, ch, r)
    /\ r.route = "instrument" => OwnedByInstrument(st, q, Chosen(ch, "relation_family"))
    /\ r.options # <<>> =>
          /\ ch = NoChoice /\ \A option \in ToSet(r.options) : Offerable(option)
          /\ ~OwnedByInstrument(st, q, None)

\* A clarification is well formed.
LEMMA ClarifiedFacts ==
    ASSUME NEW st, NEW route, NEW options, WellOffered(options), options # <<>>,
           NEW r, r = Reply("clarification", "clarification_required", route, <<>>, options)
    PROVE  /\ WellReplied(st, r) /\ ~Fulfilled(r)
           /\ r.route = route /\ r.supports = <<>> /\ r.options = options
<1> DEFINE none == <<>>
<1>1. IsSeq(none) /\ ToSet(none) = {} BY ShortLists
<1>2. /\ r.kind = "clarification" /\ r.status = "clarification_required" /\ r.route = route
      /\ r.supports = none /\ r.options = options
      BY DEF Reply
<1> HIDE DEF none
<1>3. ~Fulfilled(r) BY <1>2 DEF Fulfilled
<1>4. IsSeq(options) /\ Len(options) > 1 BY DEF WellOffered
<1>5. WellReplied(st, r)
  <2>1. \A s \in ToSet(r.supports) : Proper(st, s) BY <1>1, <1>2
  <2>2. ~(r.supports # <<>>) BY <1>2 DEF none
  <2> QED BY <1>1, <1>2, <1>4, <2>1, <2>2 DEF WellReplied
<1> QED BY <1>2, <1>3, <1>5 DEF none

\* TypesOf names no relation of whole documents.
LEMMA OperationTypes ==
    \A family : TypesOf(family) \cap OfDocuments = {} /\ {"ADDS", "SUPPLEMENTS"} \cap OfDocuments = {}
BY DEF TypesOf, OfDocuments

\* An answer of relations.
LEMMA EdgesReplyFacts ==
    ASSUME NEW st, Sound(st), NEW q, NEW ch, NEW x,
           RoutedEdges(st, q, Chosen(ch, "relation_family"), x),
           NEW y, y = Constrained(st, x, ch), NEW r, r = RelationReply(st, y)
    PROVE  /\ WellReplied(st, r) /\ r.kind = "answer" /\ r.route = "document_relation"
           /\ Fulfilled(r) /\ r.supports = <<>> => Stated(q, ch, r)
           /\ EdgesAnswer(st, ch, r)
<1> DEFINE family == Chosen(ch, "relation_family")
<1>1. /\ DOMAIN x = RoutedFields /\ x.rows = <<>> /\ x.target = AmendmentTarget(q, family)
      /\ x.edges = AmendmentEdges(st, x.target) /\ Found(x.target.mode)
      BY DEF RoutedEdges
<1>2. /\ IsSeq(x.edges) /\ ToSet(x.edges) \subseteq ToSet(st.edges)
      /\ x.target.mode = "article" => \A edge \in ToSet(x.edges) : edge.type \in x.target.types
      BY <1>1, AmendmentEdgesFacts
<1>3. x.target.mode = "article" =>
         x.target.types \in {{"ADDS", "SUPPLEMENTS"}, TypesOf(IF Found(family) THEN family ELSE Family(q))}
      BY <1>1, AmendmentTargetFacts DEF Found
<1> HIDE DEF family
<1>4. IsSeq(x.rows) BY <1>1, ShortLists
<1>5. /\ y.edges = x.edges \/ y.edges = <<>>
      /\ y.target = x.target /\ EdgesHold(ch, y)
  <2>1. DOMAIN x = RoutedFields BY <1>1
  <2>2. Narrowed(st, ch, x, y) BY <1>4, <2>1, ConstrainedFacts
  <2> QED BY <2>2 DEF Narrowed
<1>6. IsSeq(y.edges) /\ ToSet(y.edges) \subseteq ToSet(x.edges) BY <1>2, <1>5, ShortLists
<1>7. y.target.mode = "article" => \A edge \in ToSet(y.edges) : edge.type \notin OfDocuments
      BY <1>2, <1>3, <1>5, <1>6, OperationTypes
<1>8. /\ WellReplied(st, r) /\ r.kind = "answer" /\ r.route = "document_relation"
      /\ Fulfilled(r) => y.edges # <<>>
      /\ Fulfilled(r) /\ r.supports = <<>> =>
            r.status = "answer_ready" /\ y.target.mode = "document"
      /\ r.supports # <<>> => y.target.mode = "article"
      /\ \A s \in ToSet(r.supports) : \E edge \in ToSet(y.edges) : edge.evidence = s.id
      BY <1>2, <1>6, <1>7, RelationReplyFacts
<1>9. Fulfilled(r) /\ r.supports = <<>> => Stated(q, ch, r) BY <1>1, <1>5, <1>8 DEF Stated, family
<1>10. ASSUME r.supports # <<>> PROVE ch.kind \notin RowKinds
  <2>1. Fulfilled(r) BY <1>8, <1>10 DEF WellReplied
  <2> QED BY <1>5, <1>8, <2>1 DEF EdgesHold, RowKinds
<1>11. ASSUME r.supports # <<>>, ch.kind = "relation_family", ch.value \in Families,
              NEW s \in ToSet(r.supports)
       PROVE  \E edge \in ToSet(st.edges) : edge.evidence = s.id /\ edge.type \in TypesOf(ch.value)
  <2>1. PICK edge \in ToSet(y.edges) : edge.evidence = s.id BY <1>8
  <2>2. family = ch.value /\ Found(family)
        BY <1>11, NoneAssumption DEF family, Chosen, Found
  <2>3. edge \in ToSet(st.edges) /\ edge \in ToSet(x.edges) BY <1>2, <1>6, <2>1
  <2>4. edge.type \in x.target.types BY <1>2, <1>5, <1>8, <1>11, <2>3
  <2>5. edge.type \notin {"ADDS", "SUPPLEMENTS"} BY <2>3 DEF Sound, EdgesAreSound
  <2>6. x.target.types = TypesOf(ch.value) BY <1>3, <1>5, <1>8, <1>11, <2>2, <2>4, <2>5
  <2> QED BY <2>1, <2>3, <2>4, <2>6
<1> QED BY <1>8, <1>9, <1>10, <1>11 DEF EdgesAnswer

\* An answer of rows.
LEMMA RowsReplyFacts ==
    ASSUME NEW st, Sound(st), NEW q, NEW flt, NEW ch, NEW role,
           role = RouteRole(q, AskRole(q, flt, ch)), NEW x, RoutedRows(st, q, role, x),
           NEW y, Narrowed(st, ch, x, y), NEW r, r = Respond(st, q, y, None)
    PROVE  /\ WellReplied(st, r) /\ r.kind = "answer"
           /\ r.route \notin {"instrument", "document_relation"}
           /\ Fulfilled(r) => r.supports # <<>> /\ RowsAnswer(st, q, flt, ch, r)
<1>1. /\ OfRole(st, q, role, x.rows) /\ (x.route = "bm25" => Lexical(x.rows))
      /\ x.status \in RoutedStatuses /\ x.route \notin {"instrument", "document_relation"}
      BY DEF RoutedRows
<1>2. /\ IsSeq(y.rows) /\ ToSet(y.rows) \subseteq ToSet(x.rows) /\ RowsHold(st, ch, y)
      /\ y.status \in {x.status, "no_results"} /\ y.route = x.route
      BY DEF Narrowed
<1>3. OfRole(st, q, role, y.rows) /\ (y.route = "bm25" => Lexical(y.rows))
      BY <1>1, <1>2 DEF OfRole, AllTruthful, Lexical
<1> DEFINE refused == IF y.route \in InsufficientRoutes THEN "insufficient_evidence" ELSE y.status
<1>4. r = IF y.status # "found" THEN Refusal(refused, y.route)
          ELSE AnswerFrom(st, q, y, ContextPack(st, AnswerRows(st, y)))
      BY <1>1, <1>2 DEF Respond, Found
<1>5. CASE y.status # "found"
  <2>1. refused \notin Answers BY <1>1, <1>2, <1>5 DEF RoutedStatuses, Answers
  <2>2. r = Refusal(refused, y.route) BY <1>4, <1>5
  <2> HIDE DEF refused
  <2>3. r.kind = "answer" /\ r.route = y.route BY <2>2 DEF Refusal, Reply
  <2> QED BY <1>1, <1>2, <2>1, <2>2, <2>3, AnswerFacts
<1>6. CASE y.status = "found"
  <2>1. r = AnswerFrom(st, q, y, ContextPack(st, AnswerRows(st, y))) BY <1>4, <1>6
  <2>2. /\ WellReplied(st, r) /\ r.kind = "answer" /\ r.route = y.route
        /\ Fulfilled(r) => r.supports # <<>>
        /\ \A s \in ToSet(r.supports) : RestsOn(st, y.rows, s)
        /\ Fulfilled(r) /\ y.route = "bm25" => WholeAnswer(st, q, r)
        /\ Fulfilled(r) /\ VerifiesClaim(q) => ClaimProved(st, q, r)
        BY <1>3, <2>1, AnswerFromFacts
  <2>3. ASSUME NEW s \in ToSet(r.supports)
        PROVE  (Found(role) => s.role = role) /\ RowChosen(st, ch, s)
    <3>1. PICK c \in ToSet(y.rows) :
             Accepted(st, c) /\ s.id = c.row.id /\ s.unit = c.row.unit /\ s.role = c.row.role
          BY <2>2 DEF RestsOn
    <3>2. Truthful(st, q, c) /\ (Found(role) => c.row.role = role)
          BY <1>3 DEF OfRole, AllTruthful
    <3>3. Found(c.entity) => SignedBy(st, c.entity, c.row.id) BY <3>2 DEF Truthful
    <3>4. RowChosen(st, ch, s) BY <1>2, <3>1, <3>3 DEF RowsHold, RowChosen
    <3> QED BY <3>1, <3>2, <3>4
  <2>4. Fulfilled(r) => RowsAnswer(st, q, flt, ch, r) BY <2>2, <2>3 DEF RowsAnswer
  <2> QED BY <1>1, <1>2, <2>2, <2>4
<1> QED BY <1>5, <1>6

\* A clarification or an answer, whichever route was taken.
LEMMA RespondFacts ==
    ASSUME NEW st, Sound(st), NEW q, WellRead(q), NEW flt, NEW ch, NEW role,
           role = RouteRole(q, AskRole(q, flt, ch)), NEW x,
           \/ RoutedRows(st, q, role, x)
           \/ RoutedEdges(st, q, Chosen(ch, "relation_family"), x),
           ch = NoChoice => ~OwnedByInstrument(st, q, None),
           NEW r, r = Clarified(st, q, ch, role, Constrained(st, x, ch))
    PROVE  ReplyHolds(st, q, flt, ch, r)
<1> DEFINE y == Constrained(st, x, ch)
           options == IF ch # NoChoice THEN None ELSE Clarification(st, q, y, role)
<1>1. r = Respond(st, q, y, options) BY DEF Clarified
<1>2. /\ DOMAIN x = RoutedFields /\ IsSeq(x.rows) /\ IsFiniteSet(x.roles)
      /\ x.route # "instrument"
  <2>1. CASE RoutedRows(st, q, role, x)
    <3>1. DOMAIN x = RoutedFields BY <2>1 DEF RoutedRows
    <3>2. IsSeq(x.rows) BY <2>1 DEF RoutedRows, OfRole, AllTruthful
    <3>3. IsFiniteSet(x.roles) /\ x.route # "instrument" BY <2>1 DEF RoutedRows
    <3> QED BY <3>1, <3>2, <3>3
  <2>2. CASE RoutedEdges(st, q, Chosen(ch, "relation_family"), x)
    <3>1. DOMAIN x = RoutedFields /\ x.route # "instrument" BY <2>2 DEF RoutedEdges
    <3>2. x.rows = <<>> /\ x.roles = {} BY <2>2 DEF RoutedEdges
    <3> QED BY <3>1, <3>2, ShortLists, FS_EmptySet
  <2> QED BY <2>1, <2>2
<1>3. Narrowed(st, ch, x, y) BY <1>2, ConstrainedFacts
<1>4. IsSeq(y.rows) /\ IsFiniteSet(y.roles) /\ y.route = x.route BY <1>2, <1>3 DEF Narrowed
<1> HIDE DEF y
<1>5. CASE Found(options)
  <2>1. ch = NoChoice /\ options = Clarification(st, q, y, role) BY <1>5 DEF Found
  <2>2. WellOffered(options) /\ options # <<>>
        BY <1>4, <1>5, <2>1, ClarificationFacts DEF WellRead
  <2> HIDE DEF options
  <2>3. r = Reply("clarification", "clarification_required", y.route, <<>>, options)
        BY <1>1, <1>5 DEF Respond
  <2>4. /\ WellReplied(st, r) /\ ~Fulfilled(r)
        /\ r.route = y.route /\ r.supports = <<>> /\ r.options = options
        BY <2>2, <2>3, ClarifiedFacts
  <2>5. EdgesAnswer(st, ch, r) BY <2>4 DEF EdgesAnswer
  <2>6. \A option \in ToSet(options) : Offerable(option) BY <2>2 DEF WellOffered
  <2> QED BY <1>2, <1>4, <2>1, <2>4, <2>5, <2>6 DEF ReplyHolds
<1>6. CASE ~Found(options)
  <2>1. r = Respond(st, q, y, None) BY <1>1, <1>6 DEF Found
  <2>2. CASE RoutedRows(st, q, role, x)
    <3>1. /\ WellReplied(st, r) /\ r.kind = "answer"
          /\ r.route \notin {"instrument", "document_relation"}
          /\ Fulfilled(r) => r.supports # <<>> /\ RowsAnswer(st, q, flt, ch, r)
          BY <1>3, <2>1, <2>2, RowsReplyFacts
    <3>2. r.options = <<>> BY <3>1 DEF WellReplied
    <3> QED BY <3>1, <3>2 DEF ReplyHolds
  <2>3. CASE RoutedEdges(st, q, Chosen(ch, "relation_family"), x)
    <3>1. y.route = "document_relation" BY <1>4, <2>3 DEF RoutedEdges
    <3>2. r = RelationReply(st, y) BY <2>1, <3>1 DEF Respond, Found
    <3>3. y = Constrained(st, x, ch) BY DEF y
    <3>4. /\ WellReplied(st, r) /\ r.kind = "answer" /\ r.route = "document_relation"
          /\ Fulfilled(r) /\ r.supports = <<>> => Stated(q, ch, r)
          /\ EdgesAnswer(st, ch, r)
          BY <2>3, <3>2, <3>3, EdgesReplyFacts
    <3>5. r.options = <<>> BY <3>4 DEF WellReplied
    <3> QED BY <3>4, <3>5 DEF ReplyHolds
  <2> QED BY <2>2, <2>3
<1> QED BY <1>5, <1>6

\* ask, for a question that is no summary.
LEMMA AskQueryFacts ==
    ASSUME NEW st, Sound(st), NEW q, WellRead(q), NEW flt, NEW ch
    PROVE  ReplyHolds(st, q, flt, ch, AskQuery(st, q, flt, ch))
<1> DEFINE family == Chosen(ch, "relation_family")
           document == Reply("document", "answer_ready", "source_document", <<>>, <<>>)
           role == RouteRole(q, AskRole(q, flt, ch))
           x == Route(st, q, AskRole(q, flt, ch), family, CandidateLimit(st, q))
           r == AskQuery(st, q, flt, ch)
<1>1. r = IF OpensDocument(st, q) THEN document
          ELSE IF OwnedByInstrument(st, q, family) THEN InstrumentReply(st, q)
          ELSE IF OutOfScope(q) THEN Insufficient("scope_guard")
          ELSE Clarified(st, q, ch, role, Constrained(st, x, ch))
      BY DEF AskQuery, Retrieved
<1>2. ReplyHolds(st, q, flt, ch, document)
  <2> DEFINE none == <<>>
  <2>1. IsSeq(none) /\ ToSet(none) = {} BY ShortLists
  <2>2. /\ document.kind = "document" /\ document.status = "answer_ready"
        /\ document.route = "source_document" /\ document.supports = none /\ document.options = none
        BY DEF Reply
  <2>3. ~(document.supports # <<>>) /\ document.options = <<>> BY <2>2
  <2> HIDE DEF none, document
  <2>4. WellReplied(st, document) /\ ~Fulfilled(document)
        BY <2>1, <2>2, <2>3 DEF WellReplied, Fulfilled
  <2> QED BY <2>2, <2>3, <2>4 DEF ReplyHolds
<1>3. ASSUME OwnedByInstrument(st, q, family)
      PROVE  ReplyHolds(st, q, flt, ch, InstrumentReply(st, q))
  <2> DEFINE s == InstrumentReply(st, q)
  <2>1. /\ WellReplied(st, s) /\ s.route = "instrument" /\ s.kind = "answer"
        /\ Fulfilled(s) => s.supports # <<>>
        BY InstrumentReplyFacts
  <2> HIDE DEF s
  <2>2. s.options = <<>> BY <2>1 DEF WellReplied
  <2>3. ReplyHolds(st, q, flt, ch, s) BY <1>3, <2>1, <2>2 DEF ReplyHolds
  <2> QED BY <2>3 DEF s
<1>4. ReplyHolds(st, q, flt, ch, Insufficient("scope_guard"))
  <2> DEFINE s == Insufficient("scope_guard")
  <2>1. WellReplied(st, s) /\ ~Fulfilled(s) BY AnswerFacts
  <2>2. s.route = "scope_guard" /\ s.kind = "answer" BY DEF Insufficient, Refusal, Reply
  <2> HIDE DEF s
  <2>3. s.options = <<>> BY <2>1, <2>2 DEF WellReplied
  <2>4. ReplyHolds(st, q, flt, ch, s) BY <2>1, <2>2, <2>3 DEF ReplyHolds
  <2> QED BY <2>4 DEF s
<1>5. ASSUME ~OwnedByInstrument(st, q, family)
      PROVE  ReplyHolds(st, q, flt, ch, Clarified(st, q, ch, role, Constrained(st, x, ch)))
  <2>1. CandidateLimit(st, q) \in Nat
    <3>1. Len(st.evidence) \in Nat BY StoreRows, ListFacts
    <3> QED BY <3>1 DEF CandidateLimit, Limit
  <2>2. IsFiniteSet(q.words) BY DEF WellRead
  <2>3. RoutedRows(st, q, role, x) \/ RoutedEdges(st, q, family, x) BY <2>1, <2>2, RouteFacts
  <2>4. ch = NoChoice => family = None BY DEF NoChoice, Choice, Chosen
  <2> HIDE DEF x
  <2> QED BY <1>5, <2>3, <2>4, RespondFacts
<1> HIDE DEF r, document
<1> QED BY <1>1, <1>2, <1>3, <1>4, <1>5 DEF r

\* An option is offered only for a question that no document and no instrument answers,
\* by the clarification of what the router found.
LEMMA OptionsOffered ==
    ASSUME NEW st, Sound(st), NEW q, WellRead(q), NEW flt,
           AskQuery(st, q, flt, NoChoice).options # <<>>
    PROVE  /\ ~OwnedByInstrument(st, q, None)
           /\ \E role, x :
                 /\ RoutedRows(st, q, role, x) \/ RoutedEdges(st, q, None, x)
                 /\ Found(Clarification(st, q, Constrained(st, x, NoChoice), role))
<1> DEFINE family == Chosen(NoChoice, "relation_family")
           document == Reply("document", "answer_ready", "source_document", <<>>, <<>>)
           role == RouteRole(q, AskRole(q, flt, NoChoice))
           x == Route(st, q, AskRole(q, flt, NoChoice), family, CandidateLimit(st, q))
           y == Constrained(st, x, NoChoice)
           r == AskQuery(st, q, flt, NoChoice)
<1>0. family = None BY DEF NoChoice, Choice, Chosen
<1>1. r = IF OpensDocument(st, q) THEN document
          ELSE IF OwnedByInstrument(st, q, family) THEN InstrumentReply(st, q)
          ELSE IF OutOfScope(q) THEN Insufficient("scope_guard")
          ELSE Clarified(st, q, NoChoice, role, y)
      BY DEF AskQuery, Retrieved
<1>2. document.options = <<>> /\ Insufficient("scope_guard").options = <<>>
      BY DEF Reply, Insufficient, Refusal
<1>3. InstrumentReply(st, q).options = <<>> BY InstrumentReplyFacts DEF WellReplied
<1>4. /\ ~OwnedByInstrument(st, q, None) /\ r = Clarified(st, q, NoChoice, role, y)
      BY <1>0, <1>1, <1>2, <1>3
<1>5. RoutedRows(st, q, role, x) \/ RoutedEdges(st, q, None, x)
  <2>1. CandidateLimit(st, q) \in Nat
    <3>1. Len(st.evidence) \in Nat BY StoreRows, ListFacts
    <3> QED BY <3>1 DEF CandidateLimit, Limit
  <2> QED BY <1>0, <2>1, RouteFacts DEF WellRead
<1>6. ASSUME ~Found(Clarification(st, q, y, role)) PROVE FALSE
  <2>1. r = Respond(st, q, y, None) BY <1>4, <1>6 DEF Clarified, Found, Respond
  <2>2. CASE RoutedRows(st, q, role, x)
    <3>1. DOMAIN x = RoutedFields BY <2>2 DEF RoutedRows
    <3>2. IsSeq(x.rows) BY <2>2 DEF RoutedRows, OfRole, AllTruthful
    <3> HIDE DEF x
    <3>3. Narrowed(st, NoChoice, x, y) BY <3>1, <3>2, ConstrainedFacts
    <3> HIDE DEF y, r
    <3>4. WellReplied(st, r) /\ r.kind = "answer" BY <2>1, <2>2, <3>3, RowsReplyFacts
    <3> QED BY <3>4 DEF WellReplied, r
  <2>3. CASE RoutedEdges(st, q, None, x)
    <3>1. DOMAIN x = RoutedFields /\ x.rows = <<>> /\ x.route = "document_relation"
          BY <2>3 DEF RoutedEdges
    <3>2. IsSeq(x.rows) BY <3>1, ShortLists
    <3> HIDE DEF x
    <3>3. Narrowed(st, NoChoice, x, y) BY <3>1, <3>2, ConstrainedFacts
    <3>4. y.route = "document_relation" BY <3>1, <3>3 DEF Narrowed
    <3>5. r = RelationReply(st, y) BY <2>1, <3>4 DEF Respond, Found
    <3>6. RoutedEdges(st, q, Chosen(NoChoice, "relation_family"), x) BY <1>0, <2>3
    <3>7. y = Constrained(st, x, NoChoice) OBVIOUS
    <3> HIDE DEF y, r
    <3>8. WellReplied(st, r) /\ r.kind = "answer" BY <3>5, <3>6, <3>7, EdgesReplyFacts
    <3> QED BY <3>8 DEF WellReplied, r
  <2> QED BY <1>5, <2>2, <2>3
<1> QED BY <1>4, <1>5, <1>6

-----------------------------------------------------------------------------
(* A summary asks another question, and offers no choice *)

\* a question without references, metadata, claim and clauses
Bare(q) ==
    /\ q.refs = <<>> /\ q.clauses = <<>> /\ q.bab = None /\ q.claim = None /\ q.family = None
    /\ q.time = "none" /\ ~AsksMetadata(q)
    /\ q.asks \subseteq {"list"}

\* The two questions a summary is turned into.
LEMMA SummaryShape ==
    ASSUME NEW q, WellRead(q), NEW s, s = SummaryQuery(q), Found(s)
    PROVE  /\ Bare(s) /\ WellRead(s)
           /\ \/ s.roles = <<>> /\ q.roles = <<>> /\ "uud" \in s.words
              \/ /\ q.roles # <<>> /\ q.roles[1] \in Amendments
                 /\ s.roles = <<q.roles[1]>> /\ s.part = "Scope"
<1> DEFINE list == [Plain EXCEPT !.asks = {"list"}, !.words = {"bab", "uud"}]
           scope == [Plain EXCEPT !.roles = <<Scope(q).role>>, !.part = "Scope", !.words = {"scope"}]
<1>1. Explicit(q) <=> q.roles # <<>> BY DEF Explicit, Scope
<1>2. q.roles # <<>> => Scope(q).role = q.roles[1] BY DEF Scope
<1>3. \/ s = list /\ q.roles = <<>>
      \/ s = scope /\ q.roles # <<>> /\ q.roles[1] \in Amendments
      BY <1>1, <1>2 DEF SummaryQuery, Found
<1>4. /\ IsSeq(<<>>) /\ ToSet(<<>>) = {} BY ShortLists
<1>5. IsFiniteSet({"bab", "uud"}) /\ IsFiniteSet({"scope"})
  <2>1. IsFiniteSet({} \cup {"bab"}) /\ IsFiniteSet({} \cup {"scope"}) BY FS_EmptySet, FS_AddElement
  <2>2. IsFiniteSet({} \cup {"bab"} \cup {"uud"}) BY <2>1, FS_AddElement
  <2>3. {"bab", "uud"} = {} \cup {"bab"} \cup {"uud"} /\ {"scope"} = {} \cup {"scope"} OBVIOUS
  <2> QED BY <2>1, <2>2, <2>3
<1>6. CASE s = list /\ q.roles = <<>>
  <2>1. /\ s.refs = <<>> /\ s.clauses = <<>> /\ s.bab = None /\ s.claim = None /\ s.family = None
        /\ s.time = "none" /\ s.field = None /\ s.office = None /\ s.names = {}
        /\ s.asks = {"list"} /\ s.roles = <<>> /\ s.words = {"bab", "uud"}
        BY <1>6 DEF Plain
  <2>2. Bare(s) BY <2>1 DEF Bare, AsksMetadata
  <2>3. WellRead(s) BY <1>4, <1>5, <2>1 DEF WellRead
  <2> QED BY <1>6, <2>1, <2>2, <2>3
<1>7. CASE s = scope /\ q.roles # <<>> /\ q.roles[1] \in Amendments
  <2>1. /\ s.refs = <<>> /\ s.clauses = <<>> /\ s.bab = None /\ s.claim = None /\ s.family = None
        /\ s.time = "none" /\ s.field = None /\ s.office = None /\ s.names = {}
        /\ s.asks = {} /\ s.roles = <<Scope(q).role>> /\ s.words = {"scope"} /\ s.part = "Scope"
        BY <1>7 DEF Plain
  <2>2. Bare(s) BY <2>1 DEF Bare, AsksMetadata
  <2>3. s.roles = <<q.roles[1]>> BY <1>2, <1>7, <2>1
  <2>4. IsSeq(s.roles) /\ ToSet(s.roles) = {q.roles[1]} BY <2>3, ShortLists
  <2>5. WellRead(s) BY <1>4, <1>5, <1>7, <2>1, <2>4 DEF WellRead, Amendments
  <2> QED BY <1>7, <2>1, <2>2, <2>3, <2>5
<1> QED BY <1>3, <1>6, <1>7

\* The Scope of an amendment is answered by the instrument.
LEMMA ScopeIsOwned ==
    ASSUME NEW st, Sound(st), NEW s, Bare(s), NEW role \in Amendments, s.roles = <<role>>
    PROVE  OwnedByInstrument(st, s, None)
<1>1. /\ s.refs = <<>> /\ s.bab = None /\ s.claim = None /\ s.family = None
      /\ ~Asks(s, "analysis") /\ ~Asks(s, "metadata") /\ ~Asks(s, "relation")
      /\ ~Asks(s, "becomes") /\ ~Asks(s, "discrepancy") /\ ~Asks(s, "add") /\ ~AsksMetadata(s)
      BY DEF Bare, Asks
<1>2. ~HasPasal(s) /\ ~HasBab(s) /\ ~HasLegalReference(s)
      BY <1>1 DEF HasPasal, HasBab, HasLegalReference
<1>3. ToSet(s.roles) = {role} /\ s.roles # <<>> /\ role # Original
      BY ShortLists DEF Amendments
<1>4. InstrumentDecision(s) # "not_instrument" BY <1>1, <1>3 DEF InstrumentDecision
<1>5. MetadataLookup(st, s) = <<>> BY <1>1, MetadataLookupFacts
<1>6. Family(s) = None BY <1>1 DEF Family
<1>7. RequestedFunction(s) # "temporal_quotation"
  <2>1. ~(Len(s.refs) >= 2 /\ Asks(s, "discrepancy")) BY <1>1
  <2> QED BY <1>2, <2>1 DEF RequestedFunction
<1>8. AmendmentTarget(s, None).mode = None
  <2>1. None \notin {"RENAME_PROVISION", "DELETE_OR_REMOVE_PROVISION"}
        BY NoneAssumption DEF Families
  <2>2. Original \notin ToSet(s.roles) BY <1>3
  <2>3. AmendmentTarget(s, None) = NoRelationTarget
        BY <1>1, <1>2, <1>6, <2>1, <2>2 DEF AmendmentTarget, Found
  <2> QED BY <2>3 DEF NoRelationTarget, RelationTarget
<1> QED BY <1>2, <1>4, <1>5, <1>7, <1>8 DEF OwnedByInstrument

\* The list of the BAB leaves nothing to choose.
LEMMA ListIsUnclarified ==
    ASSUME NEW st, Sound(st), SummaryIsUnsaid(st), NEW s, Bare(s), WellRead(s),
           s.roles = <<>>, "uud" \in s.words, NEW role, NEW x,
           RoutedRows(st, s, role, x) \/ RoutedEdges(st, s, None, x)
    PROVE  ~Found(Clarification(st, s, Constrained(st, x, NoChoice), role))
<1> DEFINE y == Constrained(st, x, NoChoice)
           options == Clarification(st, s, y, role)
<1>1. /\ DOMAIN x = RoutedFields /\ AllTruthful(st, s, x.rows) /\ IsFiniteSet(x.roles)
      /\ x.route = "bm25" => Lexical(x.rows)
      /\ x.route \notin {"metadata", "metadata_scope_unresolved"}
  <2>1. CASE RoutedRows(st, s, role, x)
    <3>1. ~AsksMetadata(s) /\ ~Unresolved(s) BY DEF Bare, Unresolved, Scope
    <3>2. DOMAIN x = RoutedFields BY <2>1 DEF RoutedRows
    <3> QED BY <2>1, <3>1, <3>2 DEF RoutedRows, OfRole
  <2>2. CASE RoutedEdges(st, s, None, x)
    <3>1. /\ x.rows = <<>> /\ x.roles = {} /\ x.route = "document_relation"
          BY <2>2 DEF RoutedEdges
    <3>2. AllTruthful(st, s, <<>>) BY ShortLists DEF AllTruthful
    <3>3. DOMAIN x = RoutedFields BY <2>2 DEF RoutedEdges
    <3> QED BY <3>1, <3>2, <3>3, FS_EmptySet
  <2> QED BY <2>1, <2>2
<1>2. Narrowed(st, NoChoice, x, y)
  <2>1. IsSeq(x.rows) /\ DOMAIN x = RoutedFields BY <1>1 DEF AllTruthful
  <2> QED BY <2>1, ConstrainedFacts
<1> HIDE DEF y
<1>3. /\ AllTruthful(st, s, y.rows) /\ IsFiniteSet(y.roles) /\ IsSeq(y.rows)
      /\ y.route = "bm25" => Lexical(y.rows)
      /\ y.route \notin {"metadata", "metadata_scope_unresolved"}
  <2>1. y.route = x.route /\ y.roles = x.roles BY <1>2 DEF Narrowed
  <2>2. IsSeq(y.rows) /\ ToSet(y.rows) \subseteq ToSet(x.rows) BY <1>2 DEF Narrowed
  <2> QED BY <1>1, <2>1, <2>2 DEF AllTruthful, Lexical
<1>4. s.refs = <<>> /\ s.clauses = <<>> /\ ~AsksMetadata(s) BY DEF Bare
<1>5. ReferenceOptions(st, s, y) = <<>> /\ OperationOptions(st, s, y) = <<>>
  <2>1. ~(Len(s.refs) > 1) BY <1>4, ShortLists
  <2> QED BY <1>4, <2>1 DEF ReferenceOptions, OperationOptions
<1>6. MetadataOptions(y, role) = <<>> BY <1>3 DEF MetadataOptions
<1>7. EntityOptions(y) = <<>>
  <2>1. \A c \in ToSet(y.rows) : ~Found(c.entity) BY <1>3, <1>4 DEF AllTruthful, Truthful
  <2>2. Entities(y) = {} BY <2>1 DEF Entities, Found
  <2> QED BY <1>3, <2>2, EntityOptionsFacts
<1>8. LexicalOptions(st, s, y) = <<>>
  <2>1. CASE y.route = "bm25"
    <3>1. ASSUME NEW c \in ToSet(y.rows), c.whole PROVE FALSE
      <4>1. c.via = "bm25" BY <1>3, <2>1 DEF Lexical
      <4>2. c.row \in ToSet(st.evidence) /\ s.words \subseteq RowWords(st, c.row)
            BY <1>3, <3>1, <4>1 DEF AllTruthful, Truthful
      <4> QED BY <4>2 DEF SummaryIsUnsaid
    <3> QED BY <1>3, <1>4, <3>1, LexicalOptionsFacts DEF WellRead
  <2>2. CASE y.route # "bm25" BY <2>2 DEF LexicalOptions
  <2> QED BY <2>1, <2>2
<1>9. ASSUME Found(options) PROVE FALSE
  <2>1. /\ options # <<>>
        /\ options \in {ReferenceOptions(st, s, y), EntityOptions(y), MetadataOptions(y, role),
                        OperationOptions(st, s, y), LexicalOptions(st, s, y)}
        BY <1>3, <1>9, ClarificationFacts DEF WellRead
  <2> QED BY <1>5, <1>6, <1>7, <1>8, <2>1
<1> QED BY <1>9 DEF y

LEMMA SummaryFacts ==
    ASSUME NEW st, Sound(st), SummaryIsUnsaid(st), NEW q, WellRead(q), Found(SummaryQuery(q)),
           NEW flt
    PROVE  AskQuery(st, SummaryQuery(q), flt, NoChoice).options = <<>>
<1> DEFINE s == SummaryQuery(q)
<1>1. /\ Bare(s) /\ WellRead(s)
      /\ \/ s.roles = <<>> /\ q.roles = <<>> /\ "uud" \in s.words
         \/ /\ q.roles # <<>> /\ q.roles[1] \in Amendments
            /\ s.roles = <<q.roles[1]>> /\ s.part = "Scope"
      BY SummaryShape
<1> HIDE DEF s
<1>2. ASSUME AskQuery(st, s, flt, NoChoice).options # <<>> PROVE FALSE
  <2>1. /\ ~OwnedByInstrument(st, s, None)
        /\ \E role, x :
              /\ RoutedRows(st, s, role, x) \/ RoutedEdges(st, s, None, x)
              /\ Found(Clarification(st, s, Constrained(st, x, NoChoice), role))
        BY <1>1, <1>2, OptionsOffered
  <2>2. CASE s.roles = <<>> /\ "uud" \in s.words
    <3>1. PICK role, x :
             /\ RoutedRows(st, s, role, x) \/ RoutedEdges(st, s, None, x)
             /\ Found(Clarification(st, s, Constrained(st, x, NoChoice), role))
          BY <2>1
    <3>2. ~Found(Clarification(st, s, Constrained(st, x, NoChoice), role))
          BY <1>1, <2>2, <3>1, ListIsUnclarified
    <3> QED BY <3>1, <3>2
  <2>3. CASE q.roles[1] \in Amendments /\ s.roles = <<q.roles[1]>>
    <3>1. OwnedByInstrument(st, s, None) BY <1>1, <2>3, ScopeIsOwned
    <3> QED BY <2>1, <3>1
  <2> QED BY <1>1, <2>2, <2>3
<1> QED BY <1>2 DEF s

-----------------------------------------------------------------------------
(* The session *)

\* the choice is one that was offered for the question
Offered(st, q, ch) ==
    ~Found(SummaryQuery(q)) /\ ~OwnedByInstrument(st, q, None) /\ Offerable(ch)

\* The reply is the one to the question, the filter and the choice of the session; the
\* choice was offered for that question; what is open is a support of that reply.
SessionInv ==
    /\ store \in DOMAIN Stores /\ filter \in Filters /\ question \in Questions \cup {None}
    /\ question = None => choice = NoChoice /\ reply = NoReply /\ opened = None
    /\ question # None => reply = Ask(St, question, filter, choice)
    /\ choice # NoChoice => question # None /\ Offered(St, question, choice)
    /\ opened # None => \E s \in Shows : s.linkable /\ opened = [support |-> s, view |-> Viewer(St, s)]

\* What the reply of a session is, and what it offers.
LEMMA SessionReply ==
    ASSUME SessionInv, question # None
    PROVE  /\ ReplyHolds(St, Asked, filter, choice, reply)
           /\ Sound(St) /\ WellRead(question)
           /\ Found(SummaryQuery(question)) => choice = NoChoice
           /\ \A option \in ToSet(reply.options) :
                 choice = NoChoice /\ reply.supports = <<>> /\ Offered(St, question, option)
<1>1. Sound(St) /\ SummaryIsUnsaid(St) BY StoresAssumption DEF SessionInv, St
<1>2. WellRead(question) BY QuestionsAssumption DEF SessionInv
<1>3. Found(SummaryQuery(question)) => choice = NoChoice BY DEF SessionInv, Offered
<1>4. WellRead(Asked) BY <1>2, SummaryShape DEF Asked
<1>5. reply = AskQuery(St, Asked, filter, choice)
      BY <1>3 DEF SessionInv, Ask, Asked
<1>6. ReplyHolds(St, Asked, filter, choice, reply) BY <1>1, <1>4, <1>5, AskQueryFacts
<1>7. ASSUME NEW option \in ToSet(reply.options)
      PROVE  choice = NoChoice /\ reply.supports = <<>> /\ Offered(St, question, option)
  <2>1. WellReplied(St, reply) BY <1>6 DEF ReplyHolds
  <2>2. reply.options # <<>>
    <3>1. IsSeq(reply.options) BY <2>1 DEF WellReplied
    <3> QED BY <3>1, ListFacts
  <2>3. choice = NoChoice /\ Offerable(option) /\ ~OwnedByInstrument(St, Asked, None)
        BY <1>6, <2>2 DEF ReplyHolds
  <2>4. ~Found(SummaryQuery(question))
    <3>1. ASSUME Found(SummaryQuery(question)) PROVE FALSE
      <4>1. reply = AskQuery(St, SummaryQuery(question), filter, NoChoice)
            BY <1>5, <2>3, <3>1 DEF Asked
      <4> QED BY <1>1, <1>2, <2>2, <3>1, <4>1, SummaryFacts
    <3> QED BY <3>1
  <2>5. reply.supports = <<>> BY <2>1, <2>2 DEF WellReplied, Fulfilled
  <2> QED BY <2>3, <2>4, <2>5 DEF Offered, Asked
<1> QED BY <1>1, <1>2, <1>3, <1>6, <1>7

LEMMA NoReplyFacts ==
    /\ NoReply.supports = <<>> /\ NoReply.options = <<>> /\ NoReply.kind = None
    /\ ToSet(NoReply.supports) = {} /\ ToSet(NoReply.options) = {}
<1>1. NoReply.supports = <<>> /\ NoReply.options = <<>> /\ NoReply.kind = None
      BY DEF NoReply, Reply
<1> QED BY <1>1, ShortLists

LEMMA InitSession == Init => SessionInv
<1> SUFFICES ASSUME Init PROVE SessionInv OBVIOUS
<1> QED BY SessionAssumption DEF Init, SessionInv

LEMMA NextSession == SessionInv /\ [Next]_vars => SessionInv'
<1> SUFFICES ASSUME SessionInv, [Next]_vars PROVE SessionInv' OBVIOUS
<1>1. ASSUME NEW q \in Questions, NEW f \in Filters, AskQuestion(q, f) PROVE SessionInv'
  <2>1. /\ question = None /\ question' = q /\ filter' = f
        /\ reply' = Ask(St, q, f, NoChoice)
        /\ store' = store /\ choice' = choice /\ opened' = opened
        BY <1>1 DEF AskQuestion
  <2>2. choice = NoChoice /\ opened = None /\ store \in DOMAIN Stores BY <2>1 DEF SessionInv
  <2>3. St' = St BY <2>1 DEF St
  <2>4. q # None BY QuestionsAssumption
  <2> QED BY <2>1, <2>2, <2>3, <2>4 DEF SessionInv
<1>2. ASSUME NEW option \in ToSet(reply.options), NEW f \in Filters, Choose(option, f)
      PROVE  SessionInv'
  <2>1. /\ choice' = option /\ filter' = f /\ reply' = Ask(St, question, f, option)
        /\ store' = store /\ question' = question /\ opened' = opened
        BY <1>2 DEF Choose
  <2>2. question # None BY <1>2, NoReplyFacts DEF SessionInv
  <2>3. reply.supports = <<>> /\ Offered(St, question, option) BY <1>2, <2>2, SessionReply
  <2>4. opened = None
    <3>1. Shows = {} BY <2>3, ShortLists DEF Shows
    <3> QED BY <3>1 DEF SessionInv
  <2>5. St' = St BY <2>1 DEF St
  <2>6. store \in DOMAIN Stores /\ question \in Questions \cup {None} BY DEF SessionInv
  <2> QED BY <2>1, <2>2, <2>3, <2>4, <2>5, <2>6 DEF SessionInv
<1>3. ASSUME NEW support \in ToSet(reply.supports), Open(support) PROVE SessionInv'
  <2>1. /\ support.linkable /\ opened' = [support |-> support, view |-> Viewer(St, support)]
        /\ store' = store /\ question' = question /\ filter' = filter /\ choice' = choice
        /\ reply' = reply
        BY <1>3 DEF Open
  <2>2. St' = St /\ Shows' = Shows BY <2>1 DEF St, Shows
  <2>3. question # None BY <1>3, NoReplyFacts DEF SessionInv
  <2>4. support \in Shows BY DEF Shows
  <2> QED BY <2>1, <2>2, <2>3, <2>4 DEF SessionInv
<1>4. ASSUME NewQuestion PROVE SessionInv'
  <2>1. /\ question' = None /\ filter' = None /\ choice' = NoChoice /\ reply' = NoReply
        /\ opened' = None /\ store' = store
        BY <1>4 DEF NewQuestion
  <2> QED BY <2>1, SessionAssumption DEF SessionInv
<1>5. ASSUME UNCHANGED vars PROVE SessionInv'
  <2>1. /\ store' = store /\ question' = question /\ filter' = filter /\ choice' = choice
        /\ reply' = reply /\ opened' = opened
        BY <1>5 DEF vars
  <2>2. St' = St /\ Shows' = Shows BY <2>1 DEF St, Shows
  <2> QED BY <2>1, <2>2 DEF SessionInv
<1> QED BY <1>1, <1>2, <1>3, <1>4, <1>5 DEF Next

LEMMA SessionHolds == Spec => []SessionInv
<1>1. Init => SessionInv BY InitSession
<1>2. SessionInv /\ [Next]_vars => SessionInv' BY NextSession
<1> QED BY <1>1, <1>2, PTL DEF Spec

\* A reply that shows or answers anything is that of a question.
LEMMA AnsweredIsAsked ==
    ASSUME SessionInv
    PROVE  /\ Answered => question # None
           /\ Shows # {} => question # None
           /\ opened # None => question # None
<1>1. ~(NoReply.kind = "answer" /\ NoReply.status \in Answers)
      BY DEF NoReply, Reply, Answers
<1> QED BY <1>1, NoReplyFacts DEF SessionInv, Answered, Shows

LEMMA ShowsAreProper ==
    ASSUME SessionInv
    PROVE  \A s \in Shows : Proper(St, s)
<1>1. ASSUME NEW s \in Shows PROVE Proper(St, s)
  <2>1. question # None BY <1>1, AnsweredIsAsked
  <2>2. WellReplied(St, reply) BY <2>1, SessionReply DEF ReplyHolds
  <2> QED BY <1>1, <2>2 DEF WellReplied, Shows
<1> QED BY <1>1

-----------------------------------------------------------------------------
(* What a session never does *)

\* Every reply is one the API can send, on every corpus: its kind, the roles and targets
\* of what it shows, and nothing is open that this reply does not show (_public_ask).
THEOREM SessionTypeOK == Spec => []TypeOK
<1>1. ASSUME SessionInv PROVE TypeOK
  <2>1. /\ store \in DOMAIN Stores /\ question \in Questions \cup {None} /\ filter \in Filters
        BY <1>1 DEF SessionInv
  <2>2. choice.kind \in ChoiceKinds \cup {None}
    <3>1. choice = NoChoice \/ Offerable(choice) BY <1>1 DEF SessionInv, Offered
    <3>2. NoChoice.kind = None BY DEF NoChoice, Choice
    <3> QED BY <3>1, <3>2 DEF Offerable
  <2>3. reply.kind \in {None, "answer", "clarification", "document"}
    <3>1. CASE question = None
      <4>1. reply = NoReply BY <1>1, <3>1 DEF SessionInv
      <4> QED BY <4>1, NoReplyFacts
    <3>2. CASE question # None
      <4>1. WellReplied(St, reply) BY <1>1, <3>2, SessionReply DEF ReplyHolds
      <4> QED BY <4>1 DEF WellReplied
    <3> QED BY <3>1, <3>2
  <2>4. \A s \in Shows : s.linkable \in BOOLEAN /\ s.role \in Roles
        BY <1>1, ShowsAreProper DEF Proper
  <2>5. opened = None \/ opened.support \in Shows
    <3>1. ASSUME opened # None PROVE opened.support \in Shows
      <4>1. PICK s \in Shows : opened = [support |-> s, view |-> Viewer(St, s)]
            BY <1>1, <3>1 DEF SessionInv
      <4> QED BY <4>1
    <3> QED BY <3>1
  <2> QED BY <2>1, <2>2, <2>3, <2>4, <2>5 DEF TypeOK
<1> QED BY <1>1, SessionHolds, PTL

\* Whatever was offered with a target opens, on every corpus that was validated: the
\* gate of the answers (validate_answer_candidate, _article_relation_evidence,
\* _claim_citations) accepts nothing that the viewer does not resolve.
THEOREM SessionSupportOpens == Spec => []SupportOpens
<1>1. ASSUME SessionInv PROVE SupportOpens
  <2>1. ASSUME opened # None, OwnBoxes(opened.support), OwnProposition(opened.support)
        PROVE  /\ opened.view.status = "highlighted"
               /\ opened.support.boxes # <<>> /\ opened.support.proposition = None
                     => opened.view.boxes = opened.support.boxes
    <3>1. PICK s \in Shows : s.linkable /\ opened = [support |-> s, view |-> Viewer(St, s)]
          BY <1>1, <2>1 DEF SessionInv
    <3>2. opened.support = s /\ opened.view = Viewer(St, s) BY <3>1
    <3>3. Owned(St, s) BY <2>1, <3>2 DEF Owned, OwnBoxes, OwnProposition
    <3>4. Opens(St, s) BY <1>1, <3>1, <3>3, ShowsAreProper DEF Proper
    <3> QED BY <3>2, <3>4 DEF Opens
  <2> QED BY <2>1 DEF SupportOpens
<1> QED BY <1>1, SessionHolds, PTL

\* Every quoted line is drawn by a box of its support, in its own document, whichever
\* lookup found the row (source_lineage_reason, _heading_projection).
THEOREM SessionQuoteIsDrawn == Spec => []QuoteIsDrawn
<1>1. ASSUME SessionInv PROVE QuoteIsDrawn
      BY <1>1, ShowsAreProper DEF QuoteIsDrawn, Proper, Quoted
<1> QED BY <1>1, SessionHolds, PTL

\* No route of route_retrieval leaves the source the reader fixed by a choice, a filter
\* or the name of a document.
THEOREM SessionKeepsToSource == Spec => []AnswersKeepToSource
<1>1. ASSUME SessionInv PROVE AnswersKeepToSource
  <2>1. ASSUME Answered, reply.route \notin {"document_relation", "instrument"}, Found(FixedRole),
               NEW s \in Shows
        PROVE  s.role = FixedRole
    <3> DEFINE role == RouteRole(Asked, AskRole(Asked, filter, choice))
    <3>1. question # None BY <1>1, <2>1, AnsweredIsAsked
    <3>2. /\ ReplyHolds(St, Asked, filter, choice, reply) /\ WellRead(question)
          /\ Found(SummaryQuery(question)) => choice = NoChoice
          BY <1>1, <3>1, SessionReply
    <3>3. Fulfilled(reply) BY <2>1 DEF Answered, Fulfilled
    <3>4. Found(role) => s.role = role
          BY <2>1, <3>2, <3>3 DEF ReplyHolds, RowsAnswer, Shows
    <3>5. Asked.roles # <<>> <=> question.roles # <<>>
      <4>1. Found(SummaryQuery(question)) => (Asked.roles # <<>> <=> question.roles # <<>>)
            BY <3>2, SummaryShape DEF Asked
      <4> QED BY <4>1 DEF Asked
    <3>6. question.roles # <<>> => Asked.roles[1] = question.roles[1]
      <4>1. Found(SummaryQuery(question)) /\ question.roles # <<>> =>
               Asked.roles[1] = question.roles[1]
            BY <3>2, SummaryShape DEF Asked
      <4> QED BY <4>1 DEF Asked
    <3>7. AskRole(Asked, filter, choice) = FixedRole
      <4>1. CASE choice.kind = "source_role" BY <4>1 DEF AskRole, FixedRole
      <4>2. CASE choice.kind # "source_role" /\ Found(filter) BY <4>2 DEF AskRole, FixedRole
      <4>3. CASE choice.kind # "source_role" /\ ~Found(filter)
        <5>1. FixedRole = question.roles[1] /\ question.roles # <<>>
              BY <2>1, <4>3 DEF FixedRole, Found
        <5>2. SemanticRole(Asked) = Asked.roles[1]
              BY <3>5, <5>1 DEF SemanticRole, Temporal, Scope
        <5> QED BY <3>6, <4>3, <5>1, <5>2 DEF AskRole
      <4> QED BY <4>1, <4>2, <4>3
    <3>8. role = FixedRole BY <2>1, <3>7 DEF RouteRole
    <3> QED BY <2>1, <3>4, <3>8
  <2> QED BY <2>1 DEF AnswersKeepToSource
<1> QED BY <1>1, SessionHolds, PTL

\* What is shown after a choice is what was offered: _apply_clarification_constraint acts
\* on every route a choice can take, and the one it does not act on, the instrument,
\* cannot own a question that a choice of rows was offered for.
THEOREM SessionChoiceHolds == Spec => []ChoiceHolds
<1>1. ASSUME SessionInv PROVE ChoiceHolds
  <2>1. ASSUME Answered, NEW s \in Shows
        PROVE  /\ choice.kind = "legal_target" => choice.value \in Hierarchy(St, s.unit)
               /\ choice.kind = "concept_facet" => s.id \in choice.value
               /\ choice.kind = "entity" => SignedBy(St, choice.value, s.id)
               /\ choice.kind = "relation_family" /\ reply.route = "document_relation" =>
                     \E edge \in ToSet(St.edges) :
                         edge.evidence = s.id /\ edge.type \in TypesOf(choice.value)
    <3>1. question # None BY <1>1, <2>1, AnsweredIsAsked
    <3>2. ReplyHolds(St, Asked, filter, choice, reply) BY <1>1, <3>1, SessionReply
    <3>3. Fulfilled(reply) BY <2>1 DEF Answered, Fulfilled
    <3>4. choice.kind \in ChoiceKinds => Asked = question /\ Offered(St, question, choice)
      <4>1. choice.kind \in ChoiceKinds => choice # NoChoice
            BY NoneAssumption DEF NoChoice, Choice
      <4> QED BY <1>1, <4>1 DEF SessionInv, Offered, Asked
    <3>5. reply.supports # <<>>
      <4>1. IsSeq(reply.supports) BY <3>2 DEF ReplyHolds, WellReplied
      <4> QED BY <2>1, <4>1, ListFacts DEF Shows
    <3>6. ASSUME choice.kind \in RowKinds
          PROVE  /\ RowChosen(St, choice, s)
                 /\ choice.kind = "entity" => Found(choice.value)
      <4>1. Asked = question /\ Offered(St, question, choice)
            BY <3>4, <3>6 DEF RowKinds, ChoiceKinds
      <4>2. Chosen(choice, "relation_family") = None BY <3>6 DEF Chosen, RowKinds
      <4>3. reply.route # "instrument" BY <3>2, <4>1, <4>2 DEF ReplyHolds, Offered
      <4>4. reply.route # "document_relation" BY <3>2, <3>5, <3>6 DEF ReplyHolds, EdgesAnswer
      <4>5. RowChosen(St, choice, s)
            BY <2>1, <3>2, <3>3, <4>3, <4>4 DEF ReplyHolds, RowsAnswer, Shows
      <4> QED BY <4>1, <4>5 DEF Offered, Offerable
    <3>7. ASSUME choice.kind = "relation_family", reply.route = "document_relation"
          PROVE  \E edge \in ToSet(St.edges) :
                     edge.evidence = s.id /\ edge.type \in TypesOf(choice.value)
      <4>1. choice.value \in Families
            BY <3>4, <3>7 DEF Offered, Offerable, ChoiceKinds
      <4> QED BY <2>1, <3>2, <3>5, <3>7, <4>1 DEF ReplyHolds, EdgesAnswer, Shows
    <3> QED BY <3>6, <3>7 DEF RowChosen, RowKinds
  <2> QED BY <2>1 DEF ChoiceHolds, SignedBy
<1> QED BY <1>1, SessionHolds, PTL

\* An answer shows what it rests on, and nothing else does; a clarification leaves a
\* choice.  The one answer without a support is that one document amends another.
THEOREM SessionShowsSupport == Spec => []AnswerShowsSupport
<1>1. ASSUME SessionInv PROVE AnswerShowsSupport
  <2>1. CASE question = None
    <3>1. reply = NoReply BY <1>1, <2>1 DEF SessionInv
    <3>2. ~Answered /\ Shows = {} BY <1>1, <2>1, <3>1, AnsweredIsAsked, NoReplyFacts DEF Shows
    <3>3. reply.kind # "clarification" /\ reply.options = <<>> /\ ~(Len(reply.options) > 1)
          BY <3>1, NoReplyFacts, NoneAssumption, ShortLists
    <3> QED BY <3>2, <3>3 DEF AnswerShowsSupport
  <2>2. CASE question # None
    <3>1. ReplyHolds(St, Asked, filter, choice, reply) BY <1>1, <2>2, SessionReply
    <3>2. WellReplied(St, reply) BY <3>1 DEF ReplyHolds
    <3>3. Answered <=> Fulfilled(reply) BY DEF Answered, Fulfilled
    <3>4. Shows = {} <=> reply.supports = <<>>
      <4>1. IsSeq(reply.supports) BY <3>2 DEF WellReplied
      <4> QED BY <4>1, ListFacts DEF Shows
    <3>5. Answered /\ Shows = {} =>
             /\ reply.route = "document_relation" /\ reply.status = "answer_ready"
             /\ AmendmentTarget(Asked, Chosen(choice, "relation_family")).mode = "document"
          BY <3>1, <3>3, <3>4 DEF ReplyHolds, Stated
    <3>6. Shows # {} => Answered BY <3>2, <3>3, <3>4 DEF WellReplied
    <3>7. /\ reply.kind = "clarification" <=> Len(reply.options) > 1
          /\ reply.options # <<>> => reply.kind = "clarification"
      <4>1. CASE reply.kind = "clarification" BY <3>2, <4>1 DEF WellReplied
      <4>2. CASE reply.kind # "clarification"
        <5>1. reply.options = <<>> BY <3>2, <4>2 DEF WellReplied
        <5>2. ~(Len(reply.options) > 1) BY <5>1, ShortLists
        <5> QED BY <4>2, <5>1, <5>2
      <4> QED BY <4>1, <4>2
    <3> QED BY <3>5, <3>6, <3>7 DEF AnswerShowsSupport
  <2> QED BY <2>1, <2>2
<1> QED BY <1>1, SessionHolds, PTL

\* A claim is never answered but on a proposition that says it, with its predicate and its
\* polarity, on every route that verifies claims (verify_claims, _claim_citations).
THEOREM SessionClaimIsProved == Spec => []ClaimIsProved
<1>1. ASSUME SessionInv PROVE ClaimIsProved
  <2>1. ASSUME Answered, reply.route \notin {"instrument", "document_relation"}, VerifiesClaim(Asked)
        PROVE  ClaimProved(St, question, reply)
    <3>1. question # None BY <1>1, <2>1, AnsweredIsAsked
    <3>2. ReplyHolds(St, Asked, filter, choice, reply) /\ WellRead(question)
          BY <1>1, <3>1, SessionReply
    <3>3. Fulfilled(reply) BY <2>1 DEF Answered, Fulfilled
    <3>4. Asked = question
      <4>1. ASSUME Found(SummaryQuery(question)) PROVE FALSE
        <5>1. Asked = SummaryQuery(question) BY <4>1 DEF Asked
        <5>2. Bare(Asked) BY <3>2, <4>1, <5>1, SummaryShape
        <5>3. ~Found(Asked.claim) BY <5>2 DEF Bare, Found
        <5> QED BY <2>1, <5>3 DEF VerifiesClaim, RequestedFunction
      <4> QED BY <4>1 DEF Asked
    <3> QED BY <2>1, <3>2, <3>3, <3>4 DEF ReplyHolds, RowsAnswer
  <2> QED BY <2>1 DEF ClaimIsProved, ClaimProved, Shows
<1> QED BY <1>1, SessionHolds, PTL

\* A lexical answer is one row that alone has every meaningful word of the question, and
\* never a full answer (_with_relevance, lexical_fallback).
THEOREM SessionLexicalIsWhole == Spec => []LexicalIsWhole
<1>1. ASSUME SessionInv PROVE LexicalIsWhole
  <2>1. ASSUME Answered, reply.route = "bm25" PROVE WholeAnswer(St, Asked, reply)
    <3>1. question # None BY <1>1, <2>1, AnsweredIsAsked
    <3>2. ReplyHolds(St, Asked, filter, choice, reply) BY <1>1, <3>1, SessionReply
    <3>3. Fulfilled(reply) BY <2>1 DEF Answered, Fulfilled
    <3> QED BY <2>1, <3>2, <3>3 DEF ReplyHolds, RowsAnswer
  <2> QED BY <2>1 DEF LexicalIsWhole, WholeAnswer, Shows
<1> QED BY <1>1, SessionHolds, PTL
=============================================================================
