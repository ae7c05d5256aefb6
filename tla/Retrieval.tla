------------------------------ MODULE Retrieval ------------------------------
(***************************************************************************)
(* The lookups of a question in a store (metadata, relations, structure,   *)
(* words) and the router that takes the first of them that owns it         *)
(* (route_retrieval).                                                      *)
(*                                                                         *)
(* filter is the source role a caller asks for, Invalid for one the corpus *)
(* does not have, or None.  Not modelled: the rows a graph expansion adds, *)
(* which no answer accepts.  The score of a lexical row is reduced to the  *)
(* words it shares with the question and its length.                       *)
(***************************************************************************)
EXTENDS QuestionReading, Integers

CONSTANT Invalid
ASSUME InvalidAssumption == Invalid \notin Roles \cup {None}

Limit == 3
FilterEvidence(candidates, role) ==
    Select(candidates, LAMBDA c : role \in {None, c.row.role})
As(rows, via, type) == [i \in DOMAIN rows |-> Candidate(rows[i], via, type)]
RolesOf(candidates) == {c.row.role : c \in ToSet(candidates)}

\* merge_ranked over the rows of one route: the preferred role gains five
\* places, a lexical row with a word missing falls behind all others, and rows
\* of one score keep the order of the file
Ranked(candidates) ==
    Sorted(candidates, [i \in DOMAIN candidates |->
        (IF candidates[i].whole THEN 10 + i ELSE 600)
        - (IF candidates[i].row.role = Preferred THEN 5 ELSE 0)])

----------------------------------------------------------------------------
(* metadata_lookup.  A fact is the metadata of one document: its role, the *)
(* fields it states, the grounding row of each, and its signatories with   *)
(* theirs; enacted if its enactment is grounded.                           *)

Signs(q, signatory) ==
    IF Found(q.office) THEN signatory.office = q.office ELSE signatory.name \in q.names

FactRows(q, fact) ==
    LET signers == Select(fact.signatories, LAMBDA s : Signs(q, s))
        grounded == Select(fact.groundings, LAMBDA row :
                        IF signers # <<>>
                        THEN \E s \in ToSet(signers) : row.id = s.grounding
                        ELSE row.field = q.field)
        named(row) == First(Select(signers, LAMBDA s : s.grounding = row.id))
        rows == IF signers = <<>> THEN Upto(1, grounded) ELSE grounded
    IN  [i \in DOMAIN rows |->
            [Candidate(rows[i], "metadata", "metadata")
                EXCEPT !.entity = IF Found(named(rows[i])) THEN named(rows[i]).name ELSE None]]

MetadataLookup(st, q) ==
    LET facts == Select(st.facts, LAMBDA fact :
            /\ Explicit(q) => fact.role = Scope(q).role
            /\ Asks(q, "enactment") => fact.enacted
            /\ Found(q.office) => \E s \in ToSet(fact.signatories) : Signs(q, s))
    IN  IF HasLegalReference(q) \/ (q.field = None /\ q.office = None /\ q.names = {})
        THEN <<>>
        ELSE FlattenSeq([i \in DOMAIN facts |-> FactRows(q, facts[i])])

----------------------------------------------------------------------------
(* relation_lookup: the parent of a Pasal, the children of a Pasal or BAB *)

OwnEvidence(st, unit) ==
    First(Select(st.evidence, LAMBDA row : row.unit = unit.id /\ BoxesFor(st, row) # <<>>))

Descendants(st, id) ==
    FlattenSeq([i \in DOMAIN Children(st, id) |->
        <<Children(st, id)[i]>> \o Children(st, Children(st, id)[i].id)])

\* _evidence_for_unit: its own, else that of the first descendant that has one
EvidenceForUnit(st, unit) ==
    LET family == <<unit>> \o Descendants(st, unit.id)
        owners == Select(family, LAMBDA u : Found(OwnEvidence(st, u)))
    IN  IF owners = <<>> THEN None ELSE OwnEvidence(st, owners[1])

\* _unit: of the scope's role; of any, when the scope is not explicit
AskedUnit(st, q, kind) ==
    LET label == IF kind = "pasal" THEN Pasal(q) ELSE q.bab
        matches == Select(st.units, LAMBDA u : u.label = label /\ u.kind = kind)
        scoped == Select(matches, LAMBDA u : u.role = Scope(q).role)
    IN  IF Unresolved(q) THEN None
        ELSE IF Explicit(q) \/ scoped # <<>> THEN First(scoped) ELSE First(matches)

RelationLookup(st, q) ==
    LET route == RelationRoute(q)
        source == AskedUnit(st, q, IF route = "bab_children" THEN "bab" ELSE "pasal")
        kind == IF route = "bab_children" THEN "pasal" ELSE "ayat"
        parent == Up(st, source)
        units == IF route \in {None, "unsupported"} \/ ~Found(source) THEN <<>>
                 ELSE IF route # "parent"
                 THEN Select(Children(st, source.id), LAMBDA u : u.kind = kind)
                 ELSE IF Found(parent) /\ parent.kind = "bab" /\ parent.role = source.role
                 THEN <<source>> ELSE <<>>
        rows == [i \in DOMAIN units |-> EvidenceForUnit(st, units[i])]
    IN  As(Select(rows, Found), "relation", "relation")

\* _article_relation_matches_target
MatchesTarget(st, edge, citation) ==
    \/ ~Found(citation)
    \/ citation.pasal = edge.label /\ citation.ayat = edge.ayat
    \/ ~Found(citation.ayat) /\ citation.pasal \in Hierarchy(st, edge.target)

\* amendment_relation_lookup: the persisted edges of the target
AmendmentEdges(st, target) ==
    CASE target.mode = "document" ->
           Select(st.edges, LAMBDA edge :
               /\ edge.type = (IF target.role = Original THEN "AMENDED_BY" ELSE "AMENDS")
               /\ edge.role = target.role)
      [] target.mode = "article" ->
           Select(st.edges, LAMBDA edge :
               /\ edge.type \in target.types /\ edge.loadable
               /\ target.role \in {None, edge.role}
               /\ MatchesTarget(st, edge, target.citation))
      [] OTHER -> <<>>

----------------------------------------------------------------------------
(* structured_lookup *)

SaysWord(st, row, word) == \E line \in ToSet(row.quote) \cap DOMAIN st.says : word \in st.says[line]
DrawnRows(st, rows) == Select(rows, LAMBDA row : BoxesFor(st, row) # <<>>)
UnitRows(st, id) == Select(st.evidence, LAMBDA row : row.unit = id)

\* _structure_list_rows: every BAB of the preferred source
ListRows(st, q, role) ==
    LET babs == Select(st.units, LAMBDA u :
                    u.kind = "bab" /\ u.role = Preferred /\ role \in {None, u.role})
        rows == [i \in DOMAIN babs |->
                    LET own == UnitRows(st, babs[i].id) IN IF own = <<>> THEN None ELSE Last(own)]
    IN  IF Asks(q, "list") /\ ~HasBab(q) THEN Select(rows, Found) ELSE <<>>

\* a deleted BAB: the rule that says so or, asked of the change, its clause
DeletionRows(st, q) ==
    LET rules == Select(st.evidence, LAMBDA row :
            /\ row.kind = "normative" /\ row.eligible
            /\ q.bab \in Hierarchy(st, row.unit) /\ SaysWord(st, row, "deleted"))
        clauses == Select(st.evidence, LAMBDA row :
            /\ Instrument(row) /\ row.label # "Scope"
            /\ SaysWord(st, row, q.bab) /\ SaysWord(st, row, "deleted"))
    IN  IF Asks(q, "change") THEN clauses ELSE rules

\* _instrument_evidence
PartRow(st, q) ==
    First(Select(st.evidence, LAMBDA row : row.role = q.roles[1] /\ row.label = Part(q)))

InstrumentRows(st, q) ==
    IF AsksDeletion(q) /\ (Asks(q, "change") \/ DeletionRows(st, q) # <<>>)
    THEN DeletionRows(st, q)
    ELSE IF InstrumentDecision(q) = "instrument_resolved"
    THEN Select(<<PartRow(st, q)>>, Found) ELSE <<>>

\* _navigation_rows: the sibling provision before or after
NavigationRows(st, q) ==
    LET role == IF Unresolved(q) THEN None ELSE Scope(q).role
        source == First(Select(st.units, LAMBDA u :
                      u.label = q.nav[1] /\ u.provision /\ role \in {None, u.role}))
        target == First(Select(st.units, LAMBDA u :
                      /\ u.role = source.role /\ u.parent = source.parent
                      /\ u.order = source.order + q.nav[2] /\ u.provision))
    IN  IF q.nav = <<>> \/ ~Found(source) \/ ~Found(target) THEN <<>>
        ELSE DrawnRows(st, UnitRows(st, target.id))

\* _heading_projection: the lines of a BAB that none of its children has, on as
\* many of the first boxes of its evidence; None if there are not enough
Heading(st, unit) ==
    LET row == First(DrawnRows(st, UnitRows(st, unit.id)))
        below == UNION {ToSet(child.lines) : child \in ToSet(Children(st, unit.id))}
        lines == Select(unit.lines, LAMBDA line : line \notin below)
        quote == Select(lines, LAMBDA line : line \in DOMAIN st.says)
    IN  IF ~Found(row) \/ quote = <<>> \/ Len(row.boxes) < Len(lines) THEN None
        ELSE [row EXCEPT !.lines = lines, !.quote = quote, !.boxes = SubSeq(row.boxes, 1, Len(lines))]

\* _quote_projection: a heading that is itself the answer is shown as final law
QuoteProjection(row) ==
    [row EXCEPT !.kind = "normative", !.final = TRUE, !.citable = TRUE, !.eligible = TRUE]

\* _requested_units
RequestedUnits(st, q, heading) ==
    LET below == Descendants(st, heading.id)
        pasals == Select(below, LAMBDA u : u.label = Pasal(q))
        direct == Children(st, heading.id)
        provisions == Select(direct, LAMBDA u : u.kind = "pasal")
    IN  IF HasPasal(q) /\ Found(Ayat(q))
        THEN Select(below, LAMBDA u : u.label = Ayat(q) /\ \E p \in ToSet(pasals) : u.parent = p.id)
        ELSE IF HasPasal(q) THEN Select(pasals, LAMBDA u : u.kind = "pasal")
        ELSE IF AsksLeaves(q)
        THEN Select(below, LAMBDA u : u.kind = "ayat" \/ Children(st, u.id) = <<>>)
        ELSE IF provisions # <<>> THEN provisions ELSE direct

\* _normative_rows, in the order of the units
NormativeRows(st, units, role) ==
    FlattenSeq([i \in DOMAIN units |-> Select(DrawnRows(st, UnitRows(st, units[i].id)),
        LAMBDA row : row.role = role /\ row.kind = "normative" /\ row.eligible)])

\* _bab_request_rows
BabRows(st, q, role) ==
    LET heading == First(Select(st.units, LAMBDA u :
                       u.kind = "bab" /\ u.label = q.bab /\ role \in {None, u.role}))
        row == IF Found(heading) THEN Heading(st, heading) ELSE None
        legal == NormativeRows(st, RequestedUnits(st, q, heading), heading.role)
    IN  IF ~HasBab(q) \/ ~Found(row) THEN <<>>
        ELSE IF ~AsksContent(q) /\ ~HasPasal(q)
        THEN As(<<QuoteProjection(row)>>, "structured", "heading")
        ELSE IF legal = <<>> THEN <<>>
        ELSE As(<<row>> \o legal, "structured", "complete set")

\* the rows of the units whose own label is the last target, else of every unit
\* or row that the targets name
TargetRows(st, q, role) ==
    LET targets == ToSet(Targets(q))
        named == {u \in ToSet(st.units) : targets \subseteq Hierarchy(st, u.id)}
        preferred == {u \in named : u.label = Last(Targets(q)) /\ role \in {None, u.role}}
        Owns(units, row) == \E u \in units : u.id = row.unit
    IN  Select(DrawnRows(st, st.evidence), LAMBDA row :
            /\ role \in {None, row.role}
            /\ IF preferred # {} THEN Owns(preferred, row)
               ELSE Owns(named, row) \/ targets \subseteq {row.label} \cup Hierarchy(st, row.unit))

StructuredLookup(st, q, filter) ==
    LET role == IF Found(filter) THEN filter
                ELSE IF Unresolved(q) THEN None ELSE Scope(q).role
        navigates == RequestedFunction(q) # "temporal_quotation"
    IN  IF ListRows(st, q, filter) # <<>> THEN As(ListRows(st, q, filter), "structured", "list")
        ELSE IF InstrumentRows(st, q) # <<>> THEN As(InstrumentRows(st, q), "structured", "instrument")
        ELSE IF navigates /\ NavigationRows(st, q) # <<>>
        THEN As(NavigationRows(st, q), "structured", "navigation")
        ELSE IF Targets(q) = <<>> THEN <<>>
        ELSE IF BabRows(st, q, role) # <<>> THEN BabRows(st, q, role)
        ELSE As(TargetRows(st, q, role), "structured", "unit")

----------------------------------------------------------------------------
(* lexical_search: every row that shares a word with the question; whole   *)
(* when it has all of them                                                 *)

RowWords(st, row) ==
    {row.label} \cup Hierarchy(st, row.unit)
    \cup UNION {st.says[line] : line \in ToSet(row.quote) \cap DOMAIN st.says}

\* the score rises with the words shared and falls with the length of the row
LexicalSearch(st, q) ==
    LET shared(row) == q.words \cap RowWords(st, row)
        rows == Select(st.evidence, LAMBDA row : shared(row) # {})
        sorted == Sorted(rows, [i \in DOMAIN rows |->
                      Len(rows[i].quote) - 100 * Cardinality(shared(rows[i]))])
    IN  [i \in DOMAIN sorted |->
            [Candidate(sorted[i], "bm25", "lexical")
                EXCEPT !.shared = shared(sorted[i]), !.whole = q.words \subseteq shared(sorted[i])]]

----------------------------------------------------------------------------
(* route_retrieval: the first lookup that owns the question answers it;    *)
(* one whose rows the filter removes all answers that there are none       *)

Routed(status, route, rows) ==
    [status |-> status, route |-> route, rows |-> rows,
     edges |-> <<>>, target |-> NoRelationTarget,   \* of a document relation
     roles |-> {}]                                  \* metadata_source_roles
NoResults == Routed("no_results", "no_results", <<>>)
NotFound(route) == Routed("no_results", route, <<>>)

\* without a role filter the rows of the scope's role come alone, if any
RouteLexical(q, role, limit, all) ==
    LET kept == FilterEvidence(all, role)
        preferred == IF role = None THEN FilterEvidence(kept, Scope(q).role) ELSE <<>>
    IN  IF kept = <<>> THEN NoResults
        ELSE Routed("found", "bm25",
                    Upto(limit, Ranked(IF preferred # <<>> THEN preferred ELSE kept)))

RouteStructured(st, q, role, limit, all) ==
    LET kept == FilterEvidence(all, role)
        types == {c.type : c \in ToSet(kept)}
    IN  IF all # <<>> /\ kept = <<>> THEN NoResults
        ELSE IF "complete set" \in types THEN Routed("found", "structured", kept)
        ELSE IF "list" \in types THEN Routed("found", "structure_list", Ranked(kept))
        ELSE IF all # <<>>
        THEN Routed("found", IF HasPasal(q) THEN "exact" ELSE "structured",
                    Upto(limit, Ranked(kept)))
        ELSE IF HasStructuredTarget(q) THEN NotFound("structured_not_found")
        ELSE RouteLexical(q, role, limit, LexicalSearch(st, q))

RouteMetadata(st, q, role, limit, all, structured) ==
    LET kept == FilterEvidence(all, role)
        rows == IF \A c \in ToSet(kept) : c.row.field = "signatories"
                THEN kept ELSE Upto(limit, Ranked(kept))
    IN  IF kept # <<>>
        THEN [Routed("found", "metadata", rows) EXCEPT !.roles = RolesOf(kept)]
        ELSE IF all # <<>> THEN NoResults
        ELSE IF MetadataTarget(q) THEN NotFound("metadata_not_found")
        ELSE RouteStructured(st, q, role, limit, structured)

RouteNavigation(st, q, role, limit, structured) ==
    LET kept == FilterEvidence(structured, role) IN
    IF \E c \in ToSet(structured) : c.type = "navigation"
    THEN IF kept = <<>> THEN NoResults
         ELSE Routed("found", "structural_navigation", Upto(limit, Ranked(kept)))
    ELSE RouteMetadata(st, q, role, limit, MetadataLookup(st, q), structured)

RouteRelation(st, q, role, limit, all) ==
    LET kept == FilterEvidence(all, role) IN
    IF RequestedFunction(q) # "temporal_quotation" /\ all # <<>>
    THEN IF kept = <<>> THEN NoResults
         ELSE Routed("found", "relation", Upto(limit, Ranked(kept)))
    ELSE IF /\ RequestedFunction(q) # "temporal_quotation"
            /\ HasRelationTarget(q) /\ ~HasInstrumentTarget(q)
    THEN NotFound("relation_not_found")
    ELSE RouteNavigation(st, q, role, limit, StructuredLookup(st, q, role))

\* Mutant: the source a question names goes before the filter
RouteRoleNamed(q, filter) ==
    IF Explicit(q) THEN Scope(q).role
    ELSE IF Found(filter) THEN filter
    ELSE IF ~Unresolved(q) /\ HasStructuredTarget(q) /\ ~HasInstrumentTarget(q)
    THEN Scope(q).role ELSE None

\* the source of a question that names none is the preferred one if the
\* question names a provision
RouteRole(q, filter) ==
    IF Found(filter) THEN filter
    ELSE IF Explicit(q) THEN Scope(q).role
    ELSE IF ~Unresolved(q) /\ HasStructuredTarget(q) /\ ~HasInstrumentTarget(q)
    THEN Scope(q).role ELSE None

Route(st, q, filter, family, limit) ==
    LET role == RouteRole(q, filter)
        target == AmendmentTarget(q, family) IN
    IF role = Invalid THEN Routed("invalid_filter", "no_results", <<>>)
    ELSE IF Unresolved(q) /\ role = None /\ ~HasRelationTarget(q)
    THEN IF MetadataTarget(q)
         THEN [NotFound("metadata_scope_unresolved")
                 EXCEPT !.roles = {fact.role : fact \in ToSet(st.facts)}]
         ELSE NotFound("scope_unresolved")
    ELSE IF Found(target.mode) /\ RequestedFunction(q) # "temporal_quotation"
    THEN [Routed("found", "document_relation", <<>>)
            EXCEPT !.edges = AmendmentEdges(st, target), !.target = target]
    ELSE RouteRelation(st, q, role, limit, RelationLookup(st, q))
=============================================================================
