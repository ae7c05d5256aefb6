------------------------------- MODULE Answering -------------------------------
(***************************************************************************)
(* LegalRuntimeService.ask: from a question, a filter and the choice made  *)
(* in an earlier clarification to the reply the API shows.                 *)
(*                                                                         *)
(* A choice is what one option of a clarification resolves:                *)
(*   legal_target    the label of a unit                                   *)
(*   concept_facet   the identifiers of the rows of one clause             *)
(*   source_role, entity, relation_family                                  *)
(* Not modelled: the quotation of raw source text and the replies about    *)
(* source anomalies, which come before everything here, and all wording.   *)
(***************************************************************************)
EXTENDS Retrieval

ChoiceKinds == {"legal_target", "concept_facet", "source_role", "entity", "relation_family"}
ASSUME NoneAssumption == None \notin ChoiceKinds \cup Families \cup {"clarification"}

Choice(kind, value) == [kind |-> kind, value |-> value]
NoChoice == Choice(None, None)
Chosen(choice, kind) == IF choice.kind = kind THEN choice.value ELSE None

\* kind is that of the public response: an answer with its supports, a
\* clarification with its options, or a document
Reply(kind, status, route, supports, options) ==
    [kind |-> kind, status |-> status, route |-> route, supports |-> supports, options |-> options]
Refusal(status, route) == Reply("answer", status, route, <<>>, <<>>)
Insufficient(route) == Refusal("insufficient_evidence", route)
Answer(status, route, supports) == Reply("answer", status, route, supports, <<>>)

\* _public_ask: the groups in the order they are shown
GroupSupports(st, pack, group) ==
    LET items == InGroup(pack, group) IN [i \in DOMAIN items |-> SupportOf(st, items[i])]
SupportsOf(st, pack) ==
    GroupSupports(st, pack, "final_citations") \o GroupSupports(st, pack, "historical_citations")
    \o GroupSupports(st, pack, "metadata_support") \o GroupSupports(st, pack, "structural_support")
    \o GroupSupports(st, pack, "trace_support")

----------------------------------------------------------------------------
(* The replies that come before any retrieval *)

\* document_summary_query: the fixed question of the registry that a summary is
\* turned into ("BAB UUD", or the Scope of an amendment), None for none
SummaryQuery(q) ==
    IF ~(Asks(q, "summary") /\ Asks(q, "uud")) THEN None
    ELSE IF ~Explicit(q) THEN [Plain EXCEPT !.asks = {"list"}, !.words = {"bab", "uud"}]
    ELSE IF Scope(q).role \in Amendments
    THEN [Plain EXCEPT !.roles = <<Scope(q).role>>, !.part = "Scope", !.words = {"scope"}]
    ELSE None

\* no row has the word "uud" of that question, so that no row is a whole answer to it
SummaryIsUnsaid(st) == \A row \in ToSet(st.evidence) : "uud" \notin RowWords(st, row)

\* source_document_response
OpensDocument(st, q) ==
    LET facts == MetadataLookup(st, q) IN
    /\ Asks(q, "open") /\ Asks(q, "document") /\ Explicit(q)
    /\ ~HasLegalReference(q) /\ ~HasRelationTarget(q)
    /\ ~Asks(q, "analysis") /\ ~Asks(q, "effect")
    /\ q.field \in {None, "official_title"}
    /\ facts # <<>> => facts[1].row.field = "official_title"

\* the instrument decision owns the question
OwnedByInstrument(st, q, family) ==
    /\ RequestedFunction(q) # "temporal_quotation"
    /\ ~HasLegalReference(q)
    /\ AmendmentTarget(q, family).mode = None
    /\ InstrumentDecision(q) # "not_instrument"
    /\ MetadataLookup(st, q) # <<>> => Asks(q, "analysis")

\* _instrument_intent_context: a row that is not answerable is rejected by force
InstrumentReply(st, q) ==
    LET row == IF InstrumentDecision(q) = "instrument_resolved" THEN PartRow(st, q) ELSE None
        pack == ContextPack(st, As(Select(<<row>>, Found), "structured", "instrument")) IN
    IF pack = <<>> THEN Insufficient("instrument")
    ELSE Answer(IF InGroup(pack, "final_citations") # <<>> THEN "answer_ready" ELSE "limited_answer",
                "instrument", SupportsOf(st, pack))

----------------------------------------------------------------------------
(* _apply_clarification_constraint and the choice of an entity *)

\* Mutant: the rows of a clause are not kept apart
ConstrainedByTarget(st, routed, choice) ==
    LET rows == Select(routed.rows, LAMBDA c :
            choice.kind = "legal_target" => choice.value \in Hierarchy(st, c.row.unit))
    IN  [routed EXCEPT !.rows = rows,
                       !.status = IF choice # NoChoice /\ rows = <<>> THEN "no_results"
                                  ELSE routed.status]

Constrained(st, routed, choice) ==
    LET Fits(c) ==
            CASE choice.kind = "legal_target" -> choice.value \in Hierarchy(st, c.row.unit)
              [] choice.kind = "concept_facet" -> c.row.id \in choice.value
              [] choice.kind = "entity" -> c.entity = choice.value
              [] OTHER -> TRUE
        rows == Select(routed.rows, Fits)
        edges == IF choice.kind \in {None, "source_role", "relation_family"} THEN routed.edges ELSE <<>>
    IN  [routed EXCEPT !.rows = rows, !.edges = edges,
                       !.status = IF choice # NoChoice /\ rows = <<>> /\ edges = <<>>
                                  THEN "no_results" ELSE routed.status]

----------------------------------------------------------------------------
(* clarification_decision: the options of the first ambiguity found *)

Options(kind, values) == [i \in DOMAIN values |-> Choice(kind, values[i])]

\* _has_final_legal_target
HasFinalTarget(st, label) ==
    \E row \in ToSet(st.evidence) : Found(Unit(st, row.unit)) /\ Unit(st, row.unit).label = label

ReferenceOptions(st, q, routed) ==
    LET refs == Select(q.refs, LAMBDA ref : ~Found(ref.ayat) /\ HasFinalTarget(st, ref.pasal)) IN
    IF Len(q.refs) > 1 /\ routed.route # "document_relation" /\ Len(refs) > 1
    THEN Options("legal_target", [i \in DOMAIN refs |-> refs[i].pasal]) ELSE <<>>

Entities(routed) == {c.entity : c \in ToSet(routed.rows)} \ {None}
EntityOptions(routed) ==
    IF Cardinality(routed.roles) # 1 /\ Cardinality(Entities(routed)) > 1
    THEN Options("entity", SetToSeq(Entities(routed))) ELSE <<>>

\* role is the role filter the routing used
MetadataOptions(routed, role) ==
    IF /\ routed.route \in {"metadata", "metadata_scope_unresolved"} /\ role = None
       /\ Cardinality(Entities(routed)) # 1
       /\ Cardinality(routed.roles) > 1
    THEN Options("source_role", SetToSeq(routed.roles)) ELSE <<>>

\* the families an edge to a cited provision supports, unless the question names one
OperationOptions(st, q, routed) ==
    LET cited(edge) == \E ref \in ToSet(q.refs) : ref.pasal = edge.label /\ ref.ayat = edge.ayat
        families == {family \in Families :
            \E edge \in ToSet(st.edges) : edge.type \in TypesOf(family) /\ cited(edge)} IN
    IF /\ routed.route \in {"document_relation", "relation_not_found"} /\ q.refs # <<>>
       /\ q.family = None /\ Cardinality(families) > 1
    THEN Options("relation_family", SetToSeq(families)) ELSE <<>>

\* _top_quote_contains_query
TopQuoteHasAll(st, q, rows) ==
    /\ Cardinality(q.words) > 1 /\ rows # <<>>
    /\ \E line \in ToSet(rows[1].row.quote) \cap DOMAIN st.says : q.words \subseteq st.says[line]

\* the unit itself or the nearest Pasal above it
TargetLabel(st, row) ==
    LET pasals == {unit \in Lineage(st, Unit(st, row.unit)) : unit.kind = "pasal"}
    IN  IF pasals = {} THEN None ELSE (CHOOSE unit \in pasals : TRUE).label

\* _matches_clause: the rows that share every word of one clause
ClauseRows(routed, words) ==
    {c.row.id : c \in {c \in ToSet(routed.rows) : words \subseteq c.shared}}

\* one option per clause of "A or B", else one per provision
LexicalOptions(st, q, routed) ==
    LET facets == [i \in DOMAIN q.clauses |-> ClauseRows(routed, q.clauses[i])]
        whole == {c \in ToSet(routed.rows) : c.whole /\ Found(TargetLabel(st, c.row))}
        labels == {label \in {TargetLabel(st, c.row) : c \in whole} : HasFinalTarget(st, label)}
        options == IF Len(q.clauses) > 1
                   THEN IF {} \in ToSet(facets) THEN <<>> ELSE Options("concept_facet", facets)
                   ELSE IF Asks(q, "normalised") \/ TopQuoteHasAll(st, q, routed.rows) THEN <<>>
                   ELSE Options("legal_target", Upto(3, SetToSeq(labels)))
    IN  IF routed.route = "bm25" /\ q.refs = <<>> /\ ~Found(SemanticRole(q)) /\ Len(options) > 1
        THEN options ELSE <<>>

FirstNonEmpty(seqs) == First(Select(seqs, LAMBDA s : s # <<>>))
Clarification(st, q, routed, role) ==
    FirstNonEmpty(<<ReferenceOptions(st, q, routed), EntityOptions(routed),
                    MetadataOptions(routed, role), OperationOptions(st, q, routed),
                    LexicalOptions(st, q, routed)>>)

----------------------------------------------------------------------------
(* verify_claims and _claim_citations *)

\* of the ayat under the accepted rows' units if there are any, else of the units
GroundedPropositions(st, rows) ==
    LET units == {row.unit : row \in rows}
        ayat == {u.id : u \in {u \in ToSet(st.units) : u.parent \in units /\ u.kind = "ayat"}}
    IN  Select(st.props, LAMBDA p :
            p.unit \in (IF ayat # {} THEN ayat ELSE units) /\ p.boxes # <<>> /\ p.lines # <<>>)

\* Mutant: a proposition of the other polarity supports the claim
ClaimSupportOfEither(st, q, rows) ==
    Select(GroundedPropositions(st, rows), LAMBDA p :
        /\ p.predicate = q.claim.predicate
        /\ SemanticRole(q) \in {None, p.role}
        /\ q.claim.words # {} /\ q.claim.words \subseteq p.says)

ClaimSupport(st, q, rows) ==
    Select(GroundedPropositions(st, rows), LAMBDA p :
        /\ p.predicate = q.claim.predicate /\ p.polarity = q.claim.polarity
        /\ SemanticRole(q) \in {None, p.role}
        /\ q.claim.words # {} /\ q.claim.words \subseteq p.says)

VerifiesClaim(q) == RequestedFunction(q) = "proposition_verification"

\* a citation is narrowed to the first proposition of its document that cites
\* its evidence or belongs to its unit
ClaimCitation(support, props) ==
    LET segment == First(Select(props, LAMBDA p :
                      p.role = support.role /\ (p.evidence = support.id \/ p.unit = support.unit)))
    IN  IF support.group # "final_citations" \/ ~Found(segment) THEN support
        ELSE [support EXCEPT !.boxes = segment.boxes, !.quote = segment.lines,
                             !.proposition = segment.id]

----------------------------------------------------------------------------
(* _relation_response *)

\* _article_relation_evidence
RelationProof(st, edge) ==
    LET row == Get(st, edge.evidence) IN
    IF /\ edge.exact /\ Found(row) /\ ~LineageError(st, row) /\ row.exact /\ row.drawn
       /\ edge.boxes # <<>> /\ BoxesOfRefs(st, edge.boxes) = edge.boxes
    THEN Support(row, "relation_support", TRUE, edge.boxes, edge.lines, None)
    ELSE None

\* a trace of a relation is shown, and never opens
RelationTrace(edge) ==
    [id |-> edge.evidence, unit |-> None, role |-> edge.role, group |-> "trace_support",
     linkable |-> FALSE, boxes |-> edge.boxes, quote |-> edge.lines, proposition |-> None]

\* Mutant: the edges found are taken for proofs
ArticleRelationReplyUnread(st, edges) ==
    LET exact == Select(edges, LAMBDA edge : edge.exact)
        trace == Select(edges, LAMBDA edge : ~edge.exact)
        proofs == Select([i \in DOMAIN exact |-> RelationProof(st, exact[i])], Found) IN
    IF edges = <<>> THEN Insufficient("document_relation")
    ELSE Answer(IF trace = <<>> THEN "answer_ready" ELSE "limited_answer", "document_relation",
                proofs \o [i \in DOMAIN trace |-> RelationTrace(trace[i])])

ArticleRelationReply(st, edges) ==
    LET exact == Select(edges, LAMBDA edge : edge.exact)
        targets == {edge.target : edge \in ToSet(exact)}
        trace == Select(edges, LAMBDA edge : ~edge.exact /\ edge.target \notin targets)
        proofs == Select([i \in DOMAIN exact |-> RelationProof(st, exact[i])], Found)
        traces == [i \in DOMAIN trace |-> RelationTrace(trace[i])] IN
    IF proofs = <<>> /\ traces = <<>> THEN Insufficient("document_relation")
    ELSE Answer(IF traces = <<>> THEN "answer_ready" ELSE "limited_answer",
                "document_relation", proofs \o traces)

\* a relation of whole documents is stated, and shows no source
RelationReply(st, routed) ==
    CASE routed.target.mode = "article" -> ArticleRelationReply(st, routed.edges)
      [] routed.target.mode = "document" /\ routed.edges # <<>> ->
           Answer("answer_ready", "document_relation", <<>>)
      [] OTHER -> Insufficient("document_relation")

----------------------------------------------------------------------------
(* From the rows of the route to the reply *)

\* a lexical answer claims one row, the first that is answerable
AnswerRows(st, routed) ==
    LET valid == Select(routed.rows, LAMBDA c : Accepted(st, c)) IN
    IF routed.route = "bm25" /\ valid # <<>> THEN <<valid[1]>> ELSE routed.rows

AnswerFrom(st, q, routed, pack) ==
    LET props == IF VerifiesClaim(q)
                 THEN ClaimSupport(st, q, {item.row : item \in ToSet(pack)}) ELSE <<>>
        shown == SupportsOf(st, pack)
        traced == InGroup(pack, "trace_support") # <<>> /\ InGroup(pack, "final_citations") = <<>> IN
    IF pack = <<>> \/ (VerifiesClaim(q) /\ props = <<>>) THEN Insufficient(routed.route)
    ELSE Answer(IF routed.route = "bm25" \/ traced THEN "limited_answer" ELSE "answer_ready",
                routed.route, [i \in DOMAIN shown |-> ClaimCitation(shown[i], props)])

InsufficientRoutes ==
    {"metadata_not_found", "relation_not_found", "structured_not_found", "scope_unresolved"}

Respond(st, q, routed, options) ==
    IF Found(options) THEN Reply("clarification", "clarification_required", routed.route, <<>>, options)
    ELSE IF routed.route = "document_relation" THEN RelationReply(st, routed)
    ELSE IF routed.status # "found"
    THEN Refusal(IF routed.route \in InsufficientRoutes THEN "insufficient_evidence" ELSE routed.status,
                 routed.route)
    ELSE AnswerFrom(st, q, routed, ContextPack(st, AnswerRows(st, routed)))

----------------------------------------------------------------------------
(* ask *)

\* the role the retrieval is restricted to: the chosen one, else the caller's,
\* else the one the question names
AskRole(q, filter, choice) ==
    IF choice.kind = "source_role" THEN choice.value
    ELSE IF Found(filter) THEN filter ELSE SemanticRole(q)

\* "A or B" looks at every row, any other question at the first three
CandidateLimit(st, q) == IF q.clauses # <<>> THEN Len(st.evidence) ELSE Limit

Clarified(st, q, choice, role, routed) ==
    Respond(st, q, routed,
            IF choice # NoChoice THEN None ELSE Clarification(st, q, routed, role))

Retrieved(st, q, filter, choice) ==
    Clarified(st, q, choice, RouteRole(q, AskRole(q, filter, choice)),
              Constrained(st, Route(st, q, AskRole(q, filter, choice),
                                    Chosen(choice, "relation_family"), CandidateLimit(st, q)),
                          choice))

AskQuery(st, q, filter, choice) ==
    IF OpensDocument(st, q) THEN Reply("document", "answer_ready", "source_document", <<>>, <<>>)
    ELSE IF OwnedByInstrument(st, q, Chosen(choice, "relation_family")) THEN InstrumentReply(st, q)
    ELSE IF OutOfScope(q) THEN Insufficient("scope_guard")
    ELSE Retrieved(st, q, filter, choice)

\* a summary asks another question, and drops the choice
Ask(st, q, filter, choice) ==
    IF Found(SummaryQuery(q)) THEN AskQuery(st, SummaryQuery(q), filter, NoChoice)
    ELSE AskQuery(st, q, filter, choice)
=============================================================================
