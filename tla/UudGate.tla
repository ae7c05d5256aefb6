------------------------------- MODULE UudGate -------------------------------
(***************************************************************************)
(* The gate a built corpus passes before it may be promoted: the healths   *)
(* of build_validation_report that _REQUIRED_HEALTH_STATUSES names and the *)
(* rows' contract (_validate_schema7_contract).  The gate reads the built  *)
(* rows only, so what a builder has left wrong is found where two rows     *)
(* disagree, or not at all.  Behind the gate the store of the service      *)
(* looks at the lineage of an evidence once more before it is cited.       *)
(***************************************************************************)
EXTENDS UudBuild

CONSTANT Suspect    \* the sets of documents whose build may leave a row wrong

VARIABLE wrong      \* what was left wrong, "nothing" when the build is sound

gateVars == <<docs, step, table, wrong>>

Units(r) == table.units[r]
EvidenceRows(r) == table.evidence[r]
SpanRows(r) == ToSet(table.spans[r])
PageLines(r) == {s.id[2] : s \in SpanRows(r)}
SpanAt(r, i) == CHOOSE s \in SpanRows(r) : s.id[2] = i
Published(r, e) == \E u \in table.retrieval[r] : u.evidence = e.unit

\* Mutant: the quote is looked for on the whole page.
SaidOnPage(r, lines) == Flat([k \in DOMAIN table.spans[r] |-> table.spans[r][k].text])

(* Lines that are not on the page say nothing.                             *)
SaidBy(r, lines) == Flat([k \in DOMAIN lines |-> IF lines[k] \in PageLines(r) THEN SpanAt(r, lines[k]).text ELSE <<>>])
DrawnBy(boxes) == Flat([k \in DOMAIN boxes |-> boxes[k].text])

------------------------------------------------------------------------------
(* The contract of the rows.                                               *)
RawSpansFit(r) ==
    \A p \in table.raw[r] :
        /\ p.marker => ~p.eligible
        /\ p.eligible => /\ p.end - p.start = Len(p.semantic)
                         /\ \/ p.start = 0
                            \/ \E q \in table.raw[r] : q.eligible /\ q.end + 1 = p.start

(* Each span row has the hash of the page it was read from.                *)
PageHash(r) == [k \in DOMAIN PageTextSpans(Document(r)) |-> PageTextSpans(Document(r))[k].text]

\* Mutant: the evidence a span names is not looked for.
SpansFitAlone(r) ==
    /\ SpanRows(r) # {} => [k \in DOMAIN table.spans[r] |-> table.spans[r][k].text] = PageHash(r)
    /\ \A s \in SpanRows(r) : s.end - s.start = Len(s.text)

SpansFit(r) ==
    /\ SpanRows(r) # {} => [k \in DOMAIN table.spans[r] |-> table.spans[r][k].text] = PageHash(r)
    /\ \A s \in SpanRows(r) :
        /\ s.end - s.start = Len(s.text)
        /\ s.start = 0 \/ \E t \in SpanRows(r) : t.end + 1 = s.start
        /\ ~(s.role = "normative_text" /\ s.authority = "rejected")
        /\ s.evidence \subseteq {e.unit : e \in EvidenceRows(r)}

\* Mutant: the quote is not looked for in the spans.
EvidenceFitsUnread(r) ==
    \A e \in EvidenceRows(r) :
        /\ ToSet(e.spans) \subseteq PageLines(r)
        /\ e.citable => e.exact
        /\ e.quotable <=> e.citable /\ e.authority = "normative_legal_text"

EvidenceFits(r) ==
    \A e \in EvidenceRows(r) :
        /\ ToSet(e.spans) \subseteq PageLines(r)
        /\ Within(Flat(e.quote), SaidBy(r, e.spans))
        /\ e.citable => e.exact
        /\ e.quotable <=> e.citable /\ e.authority = "normative_legal_text"
        /\ \A u \in Units(r) : (u.id = e.unit /\ u.type \in {"bab", "pasal"} /\ Children(u, Units(r)) # {})
                               => ToSet(u.spans) \subseteq ToSet(e.spans)

SelectorsFit(r) ==
    \A p \in table.propositions[r] : \A place \in ToSet(p.at) :
        /\ place[1] \in PageLines(r)
        /\ \E at \in p.boxes : at[1] = place[1]

SignatoriesFit(r) ==
    \A m \in table.metadata[r] : m.field \in {"signatories", "person"} =>
        \A e \in EvidenceRows(r) : e.unit = m.donor => Within(Flat(m.quote), Flat(e.quote))

RelationsFit ==
    /\ \A a \in table.relations : \E e \in All("evidence") :
           /\ e.unit = a.evidence
           /\ \E u \in All("units") : u.id = a.source
           /\ \E u \in All("units") : u.id = a.target /\ u.role = a.target[1]
           /\ a.exact => a.words # {}
           /\ a.type = "RENAMES" => e.spans # <<>> /\ e.boxes # <<>>
    /\ \A e \in table.edges : \A a \in table.relations :
           (e.type = "RENAMES" /\ e.relation = a.id) => e.from = UnitNode(a.source) /\ e.to = UnitNode(a.target)

ContractErrors ==
    (UNION {{rule \in {"raw", "spans", "evidence", "selectors", "signatories"} :
                CASE rule = "raw" -> ~RawSpansFit(r)
                  [] rule = "spans" -> ~SpansFit(r)
                  [] rule = "evidence" -> ~EvidenceFits(r)
                  [] rule = "selectors" -> ~SelectorsFit(r)
                  [] OTHER -> ~SignatoriesFit(r)} : r \in Roles})
    \cup {rule \in {"relations"} : ~RelationsFit}

------------------------------------------------------------------------------
(* The healths the report must have.                                       *)
RawGeometryHealthy(r) == \A p \in table.raw[r] : p.raw # <<>>

TerminalDispositions ==
    {"promoted_normative_evidence", "promoted_structural_evidence", "promoted_metadata", "promoted_source_anomaly",
     "resolved_mixed_dispositions", "source_annotation_object", "excluded_nonlegal_object",
     "unsupported_nontext_object", "extraction_failed", "needs_review"}

ObjectsHealthy == All("objects") # {} /\ \A o \in All("objects") : o.disposition \in TerminalDispositions

(* Every unit has its chunk and its node, stands on lines that nobody has  *)
(* set aside, and hangs under a unit that is there.                        *)
SetAside(s) == s.status \in {"excluded_nonlegal", "needs_review"} \/ s.role = "header_footer"
LinksHold(r, row) ==
    \A i \in ToSet(row.spans) : i \in PageLines(r) /\ ~SetAside(SpanAt(r, i))

ClosureHealthy(r) ==
    /\ \A u \in Units(r) :
           LET chunk == table.chunks[r][u.id]
           IN  /\ u.loadable => u.spans # <<>> /\ LinksHold(r, u)
               /\ chunk.loadable => LinksHold(r, chunk)
               /\ chunk.allowed => chunk.spans # <<>>
               /\ chunk.status # "context" => Within(Flat(chunk.text), Flat(u.text))
               /\ ToSet(u.parents) \subseteq {v.id[2] : v \in Units(r)} \/ u.parent # None
               /\ UnitNode(u.id) \in table.nodes
    /\ DOMAIN table.chunks[r] = {u.id : u \in Units(r)}

StructureHealthy(r) ==
    /\ \A u \in Units(r) : u.parent = None \/ \E v \in Units(r) : v.id = u.parent
    /\ \A u \in Units(r) : u.id # u.parent /\ ~\E v \in Descendants(u, Units(r)) : v.id = u.parent

\* Mutant: only the article an edge comes from is looked at.
LeadsFrom(e, a) == e.from = UnitNode(IF e.derived THEN a.target ELSE a.source)

(* An edge between articles, and its inverse, leads where its relation     *)
(* does; what the relation rests on is there.                              *)
Leads(e, a) ==
    IF e.derived THEN e.from = UnitNode(a.target) /\ e.to = UnitNode(a.source)
    ELSE e.from = UnitNode(a.source) /\ e.to = UnitNode(a.target)

GraphHealthy ==
    \A e \in table.edges :
        /\ {e.from, e.to} \subseteq table.nodes
        /\ \A a \in table.relations : e.relation = a.id =>
               /\ Leads(e, a)
               /\ \E x \in All("evidence") : x.unit = a.evidence

RelationPolicyHealthy ==
    \A a \in table.relations :
        /\ a.type \in AuthorityBearing
        /\ \E e \in All("evidence") : e.unit = a.evidence /\ (a.exact => e.boxes # <<>>)
        /\ {a.source, a.target} \subseteq {u.id : u \in All("units")}

(* A line a provision stands on is not a heading.                          *)
PrecedenceHealthy(r) ==
    \A s \in SpanRows(r) :
        LET on == {u \in Units(r) : s.id[2] \in ToSet(u.spans)}
            heading == s.role = "structural_heading" \/ s.status = "excluded_structural"
            target == {u \in Units(r) : u.id = s.target}
        IN  /\ heading => /\ \A u \in on : u.type \notin {"ayat", "pasal", "pembukaan"}
                          /\ \A u \in target : RoleOf(u) # "normative_text"
            /\ ((\E u \in on : u.type \in {"bab", "aturan"}) /\ \E u \in on : RoleOf(u) # "structural_heading")
               => ~heading /\ \A u \in target : RoleOf(u) # "structural_heading"
            /\ s.role = "source_conflict_trace"
               => s.force # "canonical_normative" /\ s.status # "promoted_legal_unit"

SomeSpans == AllSpans # {}

(* What is published is loadable, exact and can be shown; the parts of an  *)
(* instrument that are loadable are published.                             *)
RuntimeSafe(r) ==
    \A e \in EvidenceRows(r) : \A u \in {v \in Units(r) : v.id = e.unit} :
        LET chunk == table.chunks[r][u.id]
        IN  /\ Published(r, e) => u.loadable /\ chunk.loadable /\ e.exact /\ e.shown
            /\ u.type \in InstrumentTypes /\ chunk.loadable => Published(r, e)

SafeExactPublished(r) ==
    \A e \in EvidenceRows(r) : \A u \in Units(r) :
        (u.id = e.unit /\ u.type = "scope" /\ e.exact /\ e.shown) => Published(r, e)

HasExactBoxes(row) == AllExact(row.boxes)
MatchesSpans(r, row) == Matching(table.spans[r], row.quote) # <<>>

PrecisionHealthy(r) == \A e \in EvidenceRows(r) : e.exact <=> e.shown

(* Nothing that could be cited exactly is withheld, and nothing is called  *)
(* exact that has no spans, no exact boxes or cannot be shown.             *)
PromotionHealthy(r) ==
    /\ \A e \in EvidenceRows(r) :
        /\ (e.exact /\ e.shown) \/ ~(HasExactBoxes(e) /\ MatchesSpans(r, e))
        /\ e.exact => e.spans # <<>> /\ HasExactBoxes(e) /\ e.shown
    /\ \A m \in table.metadata[r] :
        /\ m.exact \/ ~(HasExactBoxes(m) /\ MatchesSpans(r, m))
        /\ m.exact => m.spans # <<>> /\ HasExactBoxes(m)

NeededDecisions(r) ==
    {e.unit : e \in {e \in EvidenceRows(r) : NeedsDecision(e)}}
    \cup {m.id : m \in {m \in table.metadata[r] : ~m.exact}}
    \cup {<<b.role, b.place, b.at>> : b \in {b \in UNION {ToSet(e.boxes) : e \in EvidenceRows(r)} : ~b.exact}}
    \cup {a.id : a \in {a \in table.relations : a.role = r}}

DecisionsHealthy(r) ==
    /\ {d.id : d \in table.decisions[r]} = NeededDecisions(r)
    /\ \A d \in table.decisions[r] : d.decision = "promote_exact" => d.proven

(* A citation the service may show has the places of its propositions.     *)
SelectorsHealthy(r) ==
    \A p \in table.propositions[r] :
        /\ p.boxes \subseteq UNION {{b.at : b \in ToSet(s.words)} : s \in SpanRows(r)}
        /\ \A e \in EvidenceRows(r) : e.unit = p.evidence /\ e.citable => p.boxes # {}

HealthErrors ==
    (UNION {{rule \in {"geometry", "closure", "structure", "precedence", "runtime", "exact", "precision", "promotion",
                      "decisions", "places"} :
               CASE rule = "geometry" -> ~RawGeometryHealthy(r)
                 [] rule = "closure" -> ~ClosureHealthy(r)
                 [] rule = "structure" -> ~StructureHealthy(r)
                 [] rule = "precedence" -> ~PrecedenceHealthy(r)
                 [] rule = "runtime" -> ~RuntimeSafe(r)
                 [] rule = "exact" -> ~SafeExactPublished(r)
                 [] rule = "precision" -> ~PrecisionHealthy(r)
                 [] rule = "promotion" -> ~PromotionHealthy(r)
                 [] rule = "decisions" -> ~DecisionsHealthy(r)
                 [] OTHER -> ~SelectorsHealthy(r)} : r \in Roles})
    \cup {rule \in {"objects", "no spans", "graph", "policy"} :
               CASE rule = "objects" -> ~ObjectsHealthy
                 [] rule = "no spans" -> ~SomeSpans
                 [] rule = "graph" -> ~GraphHealthy
                 [] OTHER -> ~RelationPolicyHealthy}

Errors == ContractErrors \cup HealthErrors

------------------------------------------------------------------------------
\* Mutant: the boxes need not say the quote.
LineageBySpans(r, e) ==
    /\ Flat(e.quote) # <<>> /\ e.spans # <<>> /\ e.boxes # <<>>
    /\ ToSet(e.spans) \subseteq PageLines(r)
    /\ Within(Flat(e.quote), SaidBy(r, e.spans))

(* The store serves an evidence that is published, may be loaded and whose *)
(* quote its spans and its boxes both say.                                 *)
LineageHolds(r, e) ==
    /\ Flat(e.quote) # <<>> /\ e.spans # <<>> /\ e.boxes # <<>>
    /\ ToSet(e.spans) \subseteq PageLines(r)
    /\ \A b \in ToSet(e.boxes) : b.role = e.role
    /\ Within(Flat(e.quote), SaidBy(r, e.spans))
    /\ Within(Flat(e.quote), DrawnBy(e.boxes))

Served(r) == {e \in EvidenceRows(r) : Published(r, e) /\ e.exact /\ e.shown /\ LineageHolds(r, e)}

------------------------------------------------------------------------------
(* A builder may leave one row wrong: a row is lost, or it says or refers  *)
(* to what another row of its kind does.                                   *)
EvidenceKinds ==
    {"evidence stands on lines of another", "evidence is drawn as another", "evidence quotes another",
     "evidence is another's", "evidence is citable", "evidence is lost"}
UnitKinds == {"unit stands nowhere", "unit hangs under another", "unit is lost"}
SpanKinds == {"span is set aside", "span is a heading", "span is shifted", "span says what another does"}

(* What stands in the place of a row, given another one of its kind.       *)
WrongEvidence(kind, e, f) ==
    CASE kind = "evidence stands on lines of another" -> {[e EXCEPT !.spans = f.spans]}
      [] kind = "evidence is drawn as another" -> {[e EXCEPT !.boxes = f.boxes]}
      [] kind = "evidence quotes another" -> {[e EXCEPT !.quote = f.quote]}
      [] kind = "evidence is another's" -> {[f EXCEPT !.unit = e.unit]}
      [] kind = "evidence is citable" -> {[e EXCEPT !.citable = TRUE, !.quotable = TRUE]}
      [] kind = "evidence is lost" -> {}

WrongUnit(kind, u, v) ==
    CASE kind = "unit stands nowhere" -> {[u EXCEPT !.spans = <<>>]}
      [] kind = "unit hangs under another" -> {[u EXCEPT !.parent = v.id]}
      [] kind = "unit is lost" -> {}

WrongSpan(kind, s, t) ==
    CASE kind = "span is set aside" -> With([status |-> "needs_review"], s)
      [] kind = "span is a heading" -> With([status |-> "excluded_structural", role |-> "structural_heading"], s)
      [] kind = "span is shifted" -> With([start |-> s.start + 1], s)
      [] kind = "span says what another does" -> With([text |-> t.text], s)

Replaced(artifact, r, row, by) == table' = [table EXCEPT ![artifact][r] = (@ \ {row}) \cup by]

LeaveEvidence(r) == \E kind \in EvidenceKinds, e, f \in EvidenceRows(r) :
    Replaced("evidence", r, e, WrongEvidence(kind, e, f)) /\ wrong' = kind

LeaveUnit(r) == \E kind \in UnitKinds, u, v \in Units(r) :
    Replaced("units", r, u, WrongUnit(kind, u, v)) /\ wrong' = kind

LeaveChunk(r) == \E id \in DOMAIN table.chunks[r] :
    /\ table' = [table EXCEPT !.chunks[r][id].loadable = FALSE]
    /\ wrong' = "chunk may not be loaded"

LeaveSpan(r) == \E kind \in SpanKinds, k \in DOMAIN table.spans[r], t \in SpanRows(r) :
    /\ kind = "span says what another does" => t.text # table.spans[r][k].text
    /\ table' = [table EXCEPT !.spans[r][k] = WrongSpan(kind, @, t)]
    /\ wrong' = kind

LeaveProposition(r) == \E p, q \in table.propositions[r] :
    Replaced("propositions", r, p, {[p EXCEPT !.boxes = q.boxes]}) /\ wrong' = "clause is drawn as another"

LoseDecision(r) == \E x \in table.decisions[r] :
    Replaced("decisions", r, x, {}) /\ wrong' = "decision is lost"

LeaveRelation == \E a \in table.relations :
    /\ table' = [table EXCEPT !.relations = (@ \ {a}) \cup {[a EXCEPT !.exact = TRUE]}]
    /\ wrong' = "relation is exact"

LeadElsewhere == \E e \in table.edges, n \in table.nodes :
    /\ n.kind = "legal_unit" /\ n # e.to /\ \E a \in table.relations : a.id = e.relation
    /\ table' = [table EXCEPT !.edges = (@ \ {e}) \cup {[e EXCEPT !.to = n]}]
    /\ wrong' = "amendment leads elsewhere"

LeaveWrong ==
    /\ step = "built" /\ docs \in Suspect
    /\ \/ \E r \in Roles : \/ LeaveEvidence(r) \/ LeaveUnit(r) \/ LeaveChunk(r) \/ LeaveSpan(r)
                           \/ LeaveProposition(r) \/ LoseDecision(r)
       \/ LeaveRelation \/ LeadElsewhere
    /\ table' # table
    /\ step' = "left wrong"
    /\ UNCHANGED docs

Validate ==
    /\ step \in {"built", "left wrong"}
    /\ step' = IF Errors = {} THEN "accepted" ELSE "rejected"
    /\ UNCHANGED <<docs, table, wrong>>

GateInit == Init /\ wrong = "nothing"
Judged == step \in {"accepted", "rejected"} /\ UNCHANGED gateVars
GateNext == (Next /\ UNCHANGED wrong) \/ LeaveWrong \/ Validate \/ Judged

GateSpec == GateInit /\ [][GateNext]_gateVars

------------------------------------------------------------------------------
Accepted == step = "accepted"

(* A page is drawn faithfully when no line is lost and none begins inside  *)
(* another: lines may be cut in two, and markers may stand in them.        *)
Cuts(texts) == {Len(Flat(SubSeq(texts, 1, k))) : k \in 0 .. Len(texts)}
Faithful(d) ==
    LET drawn == [k \in DOMAIN PageTextSpans(d) |-> PageTextSpans(d)[k].text]
    IN  Flat(drawn) = Flat(Page(d)) /\ Cuts(Page(d)) \subseteq Cuts(drawn)

(* The gate never turns down a sound build of faithfully drawn documents,  *)
(* although each of its rules looks at rows that other builders have made. *)
CleanBuildPasses ==
    (step = "rejected" /\ wrong = "nothing") => \E d \in docs : ~Faithful(d)

TextOn(r, lines) ==
    Flat([k \in 1 .. Cardinality(lines) |-> Text(Document(r), Ascending(lines)[k])])

QuoteIsSaid(r, e) == Within(Flat(e.quote), Flat([k \in DOMAIN e.spans |-> Text(Document(r), e.spans[k])]))
QuoteIsDrawn(r, e) == Within(Flat(e.quote), TextOn(r, UNION {{p[1] : p \in b.at} : b \in ToSet(e.boxes)}))

(* What the gate lets through the store can serve: a published evidence    *)
(* passes the lineage the store looks at, also when some row was left      *)
(* wrong - unless it is the boxes that were, which the gate does not       *)
(* compare with the quote; and whatever is served is said by the document  *)
(* on the lines it is attributed to.                                       *)
PublishedIsServed ==
    Accepted =>
        \A r \in Roles : \A e \in EvidenceRows(r) :
            /\ Published(r, e) /\ wrong # "evidence is drawn as another" => e \in Served(r)
            /\ e \in Served(r) => QuoteIsSaid(r, e)

(* What is served lies in the boxes highlighted for it; and no evidence is *)
(* missing, since lines, clauses or relations refer to it.                 *)
ServedIsDrawn ==
    Accepted => /\ wrong # "evidence is lost"
                /\ \A r \in Roles : \A e \in Served(r) : QuoteIsDrawn(r, e)

(* A unit or a decision cannot get lost unnoticed, nor can an amendment be *)
(* led to another article or a line be read in other words: what tells is  *)
(* a row of another builder that was made from the one that is wrong.      *)
NoticedKinds == {"unit is lost", "decision is lost", "amendment leads elsewhere", "span says what another does"}
LossIsNoticed == Accepted => wrong \notin NoticedKinds
==============================================================================
