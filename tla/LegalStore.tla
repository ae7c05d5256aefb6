------------------------------ MODULE LegalStore ------------------------------
(***************************************************************************)
(* The rows of a verified corpus as the question cascade reads them        *)
(* (EvidenceStore), the evidence gate every answer passes                  *)
(* (retrieval/answer.py) and the viewer that opens a support.              *)
(*                                                                         *)
(* A store is a record of sequences in file order: units, evidence,        *)
(* propositions, facts (document metadata with their groundings), edges    *)
(* (relation projections of the graph), with says (line -> its words) and  *)
(* drawn (the boxes of the box registry).  A line is <<role, number>>; the *)
(* box that draws it has its name.  What is the same in every row (status  *)
(* final, page numbers, the required fields, retrieval rows published) is  *)
(* left out; temporal_context is the role.                                 *)
(***************************************************************************)
EXTENDS Rows

CONSTANTS Roles,      \* source roles
          Preferred,  \* preferred_source_role, the consolidated text
          None

ASSUME StoreAssumption == Preferred \in Roles /\ None \notin Roles

----------------------------------------------------------------------------
(* Lookups of EvidenceStore *)

First(rows) == IF rows = <<>> THEN None ELSE rows[1]
Found(row) == row # None

Unit(st, id) == First(Select(st.units, LAMBDA unit : unit.id = id))
Get(st, id) == First(Select(st.evidence, LAMBDA row : row.id = id))
Up(st, unit) == IF Found(unit) THEN Unit(st, unit.parent) ELSE None

\* a unit and its ancestors: bab, pasal, ayat
Lineage(st, unit) == {unit, Up(st, unit), Up(st, Up(st, unit))} \ {None}
Hierarchy(st, id) == {unit.label : unit \in Lineage(st, Unit(st, id))}

Children(st, id) == Select(st.units, LAMBDA unit : id # None /\ unit.parent = id)

BoxesOfRefs(st, refs) == Select(refs, LAMBDA box : box \in st.drawn)
BoxesFor(st, row) == BoxesOfRefs(st, row.boxes)

\* Mutant: the quote is not looked for among the boxes
LineageErrorInLines(st, row) ==
    LET lines == ToSet(row.lines)
        boxes == ToSet(row.boxes)
        quote == ToSet(row.quote) IN
    ~ /\ quote # {} /\ lines # {} /\ boxes # {}
      /\ \A line \in lines : line \in DOMAIN st.says /\ line[1] = row.role
      /\ \A box \in boxes : box \in st.drawn /\ box[1] = row.role
      /\ quote \subseteq lines

\* source_lineage_reason is not None
LineageError(st, row) ==
    LET lines == ToSet(row.lines)
        boxes == ToSet(row.boxes)
        quote == ToSet(row.quote) IN
    ~ /\ quote # {} /\ lines # {} /\ boxes # {}
      /\ \A line \in lines : line \in DOMAIN st.says /\ line[1] = row.role
      /\ \A box \in boxes : box \in st.drawn /\ box[1] = row.role
      /\ quote \subseteq lines /\ quote \subseteq boxes

----------------------------------------------------------------------------
(* A candidate row: an evidence row (or a metadata grounding) with the way *)
(* it was found.                                                           *)

Candidate(row, via, type) ==
    [row |-> row, via |-> via, type |-> type,
     whole |-> TRUE,     \* lexical_relevance_ok
     shared |-> {},      \* lexical_supported_terms
     forced |-> FALSE,   \* forced_rejection_reason
     entity |-> None]    \* entity_identity of the signatory a fact row is about

Instrument(row) == row.kind = "instrument"
IsMetadata(row) == row.kind = "metadata"

\* _noncanonical_trace: an exact normative row of a historical source is only
\* refused for a unit that is itself an accepted source conflict
NoncanonicalTrace(row, unit) ==
    Found(unit) /\ (unit.trace \/ (~unit.canonical /\ ~(/\ row.kind = "normative"
                                                         /\ ~row.final
                                                         /\ row.role # Preferred)))

GroundedText(st, row) ==
    LET unit == Unit(st, row.unit) IN
    /\ ~LineageError(st, row)
    /\ row.exact /\ row.drawn
    /\ ToSet(row.boxes) \subseteq ToSet(BoxesFor(st, row))
    /\ Found(unit) => (unit.loadable \/ Instrument(row)) /\ unit.lines # <<>>
    /\ ~NoncanonicalTrace(row, unit)
    /\ BoxesFor(st, row) # <<>>

DirectRoutes == {"exact", "metadata", "relation", "structured", "bm25"}

\* validate_answer_candidate
Accepted(st, candidate) ==
    LET row == candidate.row IN
    /\ ~candidate.forced
    /\ row.loadable
    /\ candidate.via \in DirectRoutes
    /\ candidate.via = "bm25" => candidate.whole
    /\ IF IsMetadata(row) THEN row.boxes # <<>> ELSE GroundedText(st, row)

\* _support_group
SupportGroup(row) ==
    IF IsMetadata(row) THEN "metadata_support"
    ELSE IF row.final /\ row.citable THEN "final_citations"
    ELSE IF row.citable THEN "historical_citations"
    ELSE IF row.kind = "structural" THEN "structural_support"
    ELSE "trace_support"

\* assemble_context_pack: the accepted rows, each with the group that shows it
ContextPack(st, candidates) ==
    LET accepted == Select(candidates, LAMBDA c : Accepted(st, c)) IN
    [i \in DOMAIN accepted |-> [row |-> accepted[i].row, group |-> SupportGroup(accepted[i].row)]]

InGroup(pack, group) == Select(pack, LAMBDA item : item.group = group)

\* Mutant: the boxes of a metadata grounding are not looked up
CanResolveUnread(st, row) ==
    /\ row.exact /\ row.drawn
    /\ IF IsMetadata(row) THEN row.boxes # <<>> ELSE BoxesFor(st, row) # <<>>

\* viewer_ref.can_resolve of _payload
CanResolve(st, row) ==
    /\ row.exact /\ row.drawn
    /\ IF IsMetadata(row) THEN row.boxes # <<>> /\ ToSet(row.boxes) \subseteq st.drawn
                          ELSE BoxesFor(st, row) # <<>>

----------------------------------------------------------------------------
(* Supports, and what the viewer makes of one *)

\* A row an answer shows.  linkable: _public_support registers a target for it,
\* made of its evidence, proposition, document and boxes.
Support(row, group, linkable, boxes, quote, proposition) ==
    [id |-> row.id, unit |-> row.unit, role |-> row.role, group |-> group,
     linkable |-> linkable, boxes |-> boxes, quote |-> quote, proposition |-> proposition]

SupportOf(st, item) ==
    LET row == item.row IN
    Support(row, item.group, row.drawn /\ CanResolve(st, row),
            IF IsMetadata(row) THEN <<>> ELSE row.boxes, row.quote, None)

\* _relation_for_evidence: the relation_id of a target is that of the row it was
\* registered for, which no support that opens has; with None the first edge of the
\* evidence is taken, whichever the reply was about
RelationForEvidence(st, id) ==
    First(Select(st.edges, LAMBDA edge : edge.target # None /\ edge.evidence = id))

Groundings(st) == FlattenSeq([i \in DOMAIN st.facts |-> st.facts[i].groundings])
GroundingEvidence(st, id) == First(Select(Groundings(st), LAMBDA row : row.id = id))

Opened(status, boxes) == [status |-> status, boxes |-> boxes]
Shown == {"page", "highlighted"}   \* the page is served, with its boxes or without

\* viewer_payload and resolve_pdf_access: evidence of role with the boxes refs
ViewerPayload(st, evidence, refs, boxes, role) ==
    IF role # evidence.role \/ ~(ToSet(boxes) \subseteq ToSet(refs)) \/ boxes = <<>>
    THEN Opened("unavailable", <<>>)
    ELSE IF evidence.exact /\ evidence.drawn THEN Opened("highlighted", boxes)
    ELSE Opened("page", <<>>)

\* a claim's segment: its own proposition, or nothing
OpenProposition(st, evidence, support) ==
    LET proposition == First(Select(st.props, LAMBDA row :
            /\ row.id = support.proposition
            /\ row.unit = evidence.unit
            /\ row.role = evidence.role
            /\ row.boxes = support.boxes))
        relation == RelationForEvidence(st, evidence.id) IN
    IF ~Found(proposition) \/ proposition.overlay = <<>> THEN Opened("not_found", <<>>)
    ELSE ViewerPayload(st, evidence, IF Found(relation) THEN relation.boxes ELSE support.boxes,
                       proposition.overlay, support.role)

\* LegalRuntimeService.viewer for the target of a support
Viewer(st, support) ==
    LET stored == Get(st, support.id)
        evidence == IF Found(stored) THEN stored ELSE GroundingEvidence(st, support.id)
        relation == RelationForEvidence(st, support.id)
        refs == IF Found(relation) THEN relation.boxes ELSE evidence.boxes
        asked == IF support.boxes # <<>> THEN support.boxes
                 ELSE IF IsMetadata(evidence) THEN evidence.boxes ELSE refs
        boxes == BoxesOfRefs(st, asked) IN
    IF ~Found(evidence) THEN Opened("not_found", <<>>)
    ELSE IF support.proposition # None THEN OpenProposition(st, evidence, support)
    ELSE IF support.boxes # <<>> /\ boxes # asked THEN Opened("not_found", <<>>)
    ELSE ViewerPayload(st, evidence, refs, boxes, support.role)

----------------------------------------------------------------------------
(* What holds of a corpus that was built, attested and loaded.  Part of it *)
(* is checked: the loader refuses an identifier that two rows of a file    *)
(* have, the report and the contract of schema 7 the selectors of a        *)
(* proposition and the unit and evidence of a relation.  The rest holds by *)
(* the way the builders make the rows.                                     *)

SourceRows(st) == ToSet(st.evidence) \cup ToSet(Groundings(st))

RowFields == {"id", "unit", "role", "kind", "label", "final", "citable", "eligible", "exact",
              "drawn", "loadable", "lines", "boxes", "quote", "field"}
WellFormed(row) ==
    /\ RowFields \subseteq DOMAIN row /\ row.role \in Roles
    /\ IsSeq(row.lines) /\ IsSeq(row.boxes) /\ IsSeq(row.quote)

UnitsAreSound(st) ==
    /\ IsSeq(st.units) /\ None \notin ToSet(st.units)
    /\ \A unit \in ToSet(st.units) : IsSeq(unit.lines)

\* an identifier is that of one row, and only a grounding is metadata
RowsAreSound(st) ==
    /\ IsSeq(st.evidence) /\ IsSeq(st.facts) /\ None \notin SourceRows(st)
    /\ \A fact \in ToSet(st.facts) :
          IsSeq(fact.groundings) /\ IsSeq(fact.signatories) /\ None \notin ToSet(fact.signatories)
    /\ \A row \in SourceRows(st) : WellFormed(row)
    /\ \A row \in ToSet(st.evidence) : ~IsMetadata(row)
    /\ \A row \in ToSet(Groundings(st)) : IsMetadata(row)
    /\ \A row, other \in SourceRows(st) : row.id = other.id => row = other

\* the selectors of a proposition and its overlay stand on its boxes
PropsAreSound(st) ==
    /\ IsSeq(st.props) /\ None \notin ToSet(st.props)
    /\ \A p \in ToSet(st.props) :
          /\ p.id # None /\ IsSeq(p.lines) /\ IsSeq(p.boxes) /\ IsSeq(p.overlay)
          /\ ToSet(p.lines) \subseteq ToSet(p.boxes) /\ ToSet(p.overlay) \subseteq ToSet(p.boxes)
          /\ \A box \in ToSet(p.boxes) : box \in st.drawn /\ box[1] = p.role

\* the relations of whole documents and their inverses: they have no unit as target
OfDocuments == {"AMENDS", "AMENDED_BY", "DERIVED_FROM", "DERIVES", "CONSOLIDATES", "CONSOLIDATED_BY"}

\* a relation of articles has a target (also an error of the contract), and stands on
\* lines of the document of its evidence; no relation adds a provision or is proved by
\* metadata.  The contract would pass a relation of type ADDS, and boxes of the target
\* in another document: only the builder excludes these
EdgesAreSound(st) ==
    /\ IsSeq(st.edges) /\ None \notin ToSet(st.edges)
    /\ \A edge \in ToSet(st.edges) :
          /\ edge.type \notin {"ADDS", "SUPPLEMENTS"} /\ edge.role \in Roles
          /\ IsSeq(edge.boxes) /\ IsSeq(edge.lines)
          /\ \A row \in ToSet(Groundings(st)) : row.id # edge.evidence
          /\ edge.type \notin OfDocuments =>
                /\ edge.target # None
                /\ edge.lines # <<>> /\ ToSet(edge.lines) \subseteq ToSet(edge.boxes)
                /\ \A row \in ToSet(st.evidence) : row.id = edge.evidence =>
                      \A box \in ToSet(edge.boxes) : box[1] = row.role

Sound(st) == UnitsAreSound(st) /\ RowsAreSound(st) /\ PropsAreSound(st) /\ EdgesAreSound(st)
=============================================================================
