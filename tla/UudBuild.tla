------------------------------ MODULE UudBuild ------------------------------
(***************************************************************************)
(* The build of the UUD corpus (_rebuild_uud_artifact_baseline_at): what   *)
(* each builder is called with, in which order, and which of them stops    *)
(* the build.  The builders change rows that earlier ones have made, so    *)
(* what a row says depends on who looks at it when: a span is disposed of  *)
(* before the authority contract, its owner is chosen after it.            *)
(***************************************************************************)
EXTENDS UudAuthority

CONSTANT Corpora    \* the sets of documents a build may be started on

(* The documents of SOURCE_DOCUMENT_SPECS have a role each, the amendments *)
(* amend the one that is the original, and parts are cut from amendments   *)
(* only.  What a reviewer declares an authority of the law has no evidence *)
(* behind it: the ledger has no such row that it does not exclude.  Units  *)
(* are named by the number of their line, those that are inserted or split *)
(* from a line by that number and 100 or 200: 100 bounds the lines.  A     *)
(* part is what stands between two texts that are looked for on the page:  *)
(* the build stops where they are not there, so it is never empty, and it  *)
(* is a record of the instrument, a division or a Pasal, never a BAB.      *)
(* That no two parts begin at one line stands for the counter the code     *)
(* takes their names from.                                                 *)
CorporaAssumption ==
    \A c \in Corpora :
        /\ "original" \in {d.role : d \in c}
        /\ \A d, e \in c : d.role = e.role => d = e
        /\ \A d \in c :
               /\ {d.lines, d.drawn} \subseteq Seq(Seq(Words)) /\ Len(d.lines) < 100
               /\ d.role = "current" => d.curated = {}
               /\ \A part \in d.curated :
                      /\ {part.from, part.to} \subseteq DOMAIN d.lines /\ part.from <= part.to
                      /\ Page(d)[part.from] # <<>> /\ part.type # "bab"
               /\ \A p, q \in d.curated : p.from = q.from => p = q
               /\ \A r \in d.reviews : r.authority = "normative_legal_text" => r.excluded
ASSUME CorporaAssumption

VARIABLES
    docs,       \* the source documents
    step,       \* the builder that is called next; "built" or "failed" at the end
    table       \* the rows built so far, by artifact; of each document where they are

vars == <<docs, step, table>>

Roles == {d.role : d \in docs}
Document(role) == CHOOSE d \in docs : d.role = role
All(artifact) == UNION {table[artifact][r] : r \in Roles}
AllSpans == UNION {ToSet(table.spans[r]) : r \in Roles}

Artifacts == {"raw", "units", "chunks", "evidence", "metadata", "conflicts", "retrieval", "spans", "objects",
              "propositions", "health", "nodes", "edges", "relations", "decisions", "support"}

Init ==
    /\ docs \in Corpora
    /\ step = "extract"
    /\ table = [a \in Artifacts |-> [r \in Roles |-> <<>>]]

Go(next) == /\ step' = next
            /\ UNCHANGED docs
Write(artifact, rows) == table' = [table EXCEPT ![artifact] = rows]
Fail == /\ step' = "failed"
        /\ UNCHANGED <<docs, table>>

(* A line whose characters do not spell its text stops the extraction; a   *)
(* page that cannot be read has no lines.                                  *)
Extract ==
    /\ step = "extract"
    /\ \A d \in docs : d.layer # "broken"
    /\ Write("raw", [r \in Roles |-> RawSourceSpans(Document(r))])
    /\ Go("units")

ExtractFails ==
    /\ step = "extract"
    /\ \E d \in docs : d.layer = "broken"
    /\ Fail

BuildUnits ==
    /\ step = "units"
    /\ \E units \in {[r \in Roles |-> LegalUnits(Document(r))]} :
           table' = [table EXCEPT !.units = units,
               !.chunks = [r \in Roles |-> [id \in {u.id : u \in units[r]} |->
                              Chunk(CHOOSE u \in units[r] : u.id = id)]]]
    /\ Go("evidence")

(* Without a line on the page there is not even a page to fall back on.    *)
Unfounded(r) ==
    /\ Drawn(Document(r)) = {}
    /\ \E u \in table.units[r] : Admitted(u, table.chunks[r][u.id], table.units[r])

BuildEvidenceAndBoxes ==
    /\ step = "evidence"
    /\ \A r \in Roles : ~Unfounded(r)
    /\ \E built \in {[r \in Roles |-> BuildEvidence(Document(r), table.units[r], table.chunks[r])]} :
           table' = [table EXCEPT !.evidence = [r \in Roles |-> built[r].evidence],
                                  !.chunks = [r \in Roles |-> built[r].chunks]]
    /\ Go("metadata")

EvidenceFails ==
    /\ step = "evidence"
    /\ \E r \in Roles : Unfounded(r)
    /\ Fail

(* The metadata is rebuilt, given its donors, and rebuilt again.           *)
Metadata(r, rows) == RebuildMetadata(Document(r), table.units[r], rows, table.evidence[r])
Ensured(r, rows) == EnsureSource(Document(r), rows, table.evidence[r])

MetadataStops == \E r \in Roles : SignatoryMissing(Document(r), table.units[r], table.evidence[r])

BuildMetadata ==
    /\ step = "metadata"
    /\ ~MetadataStops
    /\ Write("metadata", [r \in Roles |-> Metadata(r, Ensured(r, Metadata(r, {})))])
    /\ Go("grounding")

MetadataFails ==
    /\ step = "metadata"
    /\ MetadataStops
    /\ Fail

ApplyGrounding ==
    /\ step = "grounding"
    /\ \E grounded \in {[r \in Roles |-> ApplyChunkGrounding(Document(r), table.units[r], table.chunks[r],
                                                              table.evidence[r])]} :
           table' = [table EXCEPT
               !.conflicts = [r \in Roles |-> {GroundConflict(Document(r), c, table.evidence[r]) :
                                                  c \in Document(r).conflicts}],
               !.units = [r \in Roles |-> grounded[r].units],
               !.chunks = [r \in Roles |-> grounded[r].chunks],
               !.evidence = [r \in Roles |-> grounded[r].evidence],
               !.retrieval = [r \in Roles |-> RetrievalUnits(grounded[r].evidence, grounded[r].chunks)]]
    /\ Go("dispositions")

ApplyDispositions ==
    /\ step = "dispositions"
    /\ LET spans == [r \in Roles |-> DisposedSpans(Document(r), table.units[r], table.chunks[r],
                                        table.metadata[r], table.conflicts[r], table.evidence[r])]
           Disposed(r, o) == With([disposition |-> ObjectDisposition(o, spans[r], table.raw[r])], o)
       IN  table' = [table EXCEPT !.spans = spans,
               !.objects = [r \in Roles |-> {Disposed(r, o) : o \in SourceObjects(Document(r))}]]
    /\ Go("propositions")

(* A page without text asks for OCR, one without spans for a repair.       *)
PageHealth(r) ==
    CASE Flat(Page(Document(r))) = <<>> -> "ocr_required"
      [] Flat(Page(Document(r))) # <<>> /\ table.spans[r] = <<>> -> "repair_required"
      [] OTHER -> "native_text_ok"

BuildPropositions ==
    /\ step = "propositions"
    /\ table' = [table EXCEPT
           !.propositions = [r \in Roles |-> Propositions(Document(r), table.units[r], table.evidence[r],
                                                          table.spans[r])],
           !.health = [r \in Roles |-> {PageHealth(r)}]]
    /\ Go("graph")

BuiltNodes == GraphNodes(docs, All("units"), All("evidence"), All("conflicts"))
BuiltEdges == GraphEdges(docs, All("units"), All("evidence"), All("metadata"), All("conflicts"))
              \cup DocumentRelations(docs)
BuiltRelations == ArticleRelations(docs, All("units"), All("evidence"))

(* The policies stop the build at an amendment without its relation and at *)
(* a node or an edge of an unknown kind; the builders make neither.        *)
BuildGraph ==
    /\ step = "graph"
    /\ IF MissingRelation(BuiltEdges, BuiltRelations) THEN Fail
       ELSE /\ table' = [table EXCEPT !.nodes = BuiltNodes, !.relations = BuiltRelations,
                                      !.edges = MaterializeInverseEdges(BuiltEdges)]
            /\ Go("authority")

ApplyAuthority ==
    /\ step = "authority"
    /\ ~UnknownInGraph(table.nodes, table.edges)
    /\ table' = [table EXCEPT
           !.spans = [r \in Roles |-> AuthoritySpans(table.spans[r], table.evidence[r])],
           !.evidence = [r \in Roles |-> AuthorityEvidence(table.evidence[r], table.units[r])]]
    /\ Go("decisions")

BuildDecisions ==
    /\ step = "decisions"
    /\ Write("decisions", [r \in Roles |-> PromotionDecisions(Document(r), table.evidence[r], table.metadata[r],
                                                              table.relations)])
    /\ Go("support")

Owners == CanonicalOwners(All("evidence"), All("metadata"), All("conflicts"))
Reviews == UNION {d.reviews : d \in docs}
SupportStops == SupportFails(AllSpans, All("raw"), Reviews, Owners)

BuildSupport ==
    /\ step = "support"
    /\ ~SupportStops
    /\ Write("support", [r \in Roles |-> MeaningfulSupport(Document(r), table.spans[r], All("raw"), Reviews, Owners)])
    /\ Go("built")

SupportBuildFails ==
    /\ step = "support"
    /\ SupportStops
    /\ Fail

Ended == step \in {"built", "failed"} /\ UNCHANGED vars

Next ==
    \/ Extract \/ ExtractFails \/ BuildUnits \/ BuildEvidenceAndBoxes \/ EvidenceFails
    \/ BuildMetadata \/ MetadataFails \/ ApplyGrounding \/ ApplyDispositions \/ BuildPropositions
    \/ BuildGraph \/ ApplyAuthority \/ BuildDecisions \/ BuildSupport
    \/ SupportBuildFails \/ Ended

------------------------------------------------------------------------------
Spec == Init /\ [][Next]_vars

Built == step = "built"
Boxed(e) == {p[1] : p \in UNION {b.at : b \in ToSet(e.boxes)}}
Citable(r) == {e \in table.evidence[r] : e.citable}

(* No other unit of the document says the same words.                      *)
Distinct(r, u) == \A v \in table.units[r] \ {u} : Flat(v.text) # Flat(u.text)
UnitOf(r, e) == CHOOSE u \in table.units[r] : u.id = e.unit

(* Every support that may be an answer is a citation too, and there is a   *)
(* retrieval unit for its evidence that has all its lines: what may be     *)
(* said can be found and shown.                                            *)
AnswerIsCitable ==
    Built => \A r \in Roles : \A row \in table.support[r] : row.answer =>
        row.citation /\ \E u \in table.retrieval[r] : u.evidence = row.id /\ row.lines \subseteq ToSet(u.spans)

(* A citation that is published for retrieval stands on the very lines its *)
(* boxes are drawn on, although the one was found by text and the other by *)
(* geometry - except where the document says the same words twice and each *)
(* search takes the first.                                                 *)
CitationStandsOnItsLines ==
    Built => \A r \in Roles : \A e \in Citable(r) :
        (Distinct(r, UnitOf(r, e)) /\ \E u \in table.retrieval[r] : u.evidence = e.unit)
        => ToSet(e.spans) = Boxed(e)

(* A citation says all its unit says, whatever the drawing has cut, merged *)
(* or lost.                                                                *)
CitationSaysItsText ==
    Built => \A r \in Roles : \A e \in Citable(r) : Within(Flat(UnitOf(r, e).text), Flat(e.quote))

(* No citation is drawn over a line that was excluded from the law or left *)
(* for review.                                                             *)
FurnitureIsNeverQuoted ==
    Built => \A r \in Roles : \A s \in ToSet(table.spans[r]) :
        s.status \in {"excluded_nonlegal", "needs_review"} => \A e \in Citable(r) : s.id[2] \notin Boxed(e)

(* A provision stands on lines of the provision it is a part of.           *)
ParentHoldsChildren ==
    Built => \A r \in Roles : \A u, v \in table.units[r] :
        (v.parent = u.id /\ u.loadable /\ v.loadable /\ Distinct(r, v)) => ToSet(v.spans) \subseteq ToSet(u.spans)

(* The words of the page belong to one clause: no two provisions publish   *)
(* propositions over the same words.                                       *)
WordsChosenOnce ==
    Built => \A r \in Roles : \A p, q \in table.propositions[r] :
        (p.unit # q.unit /\ \A u \in table.units[r] : u.id \in {p.unit, q.unit} => Distinct(r, u))
        => p.boxes \cap q.boxes = {}

(* The graph can be walked in both directions and never leaves its nodes,  *)
(* whatever the builders of its parts have made and dropped.               *)
GraphCloses ==
    Built => \A e \in table.edges :
        /\ e.from \in table.nodes /\ e.to \in table.nodes
        /\ e.type \in DOMAIN InverseType =>
               \E f \in table.edges : f.type = InverseType[e.type] /\ f.from = e.to /\ f.to = e.from

(* Every line disposed of as law in force that no reviewer has decided on  *)
(* ends in a support that may be an answer.                                *)
NoLawLost ==
    Built => \A r \in Roles : \A s \in ToSet(table.spans[r]) :
        (s.force = "canonical_normative" /\ ReviewOf(s, Reviews) = {}) =>
            \E row \in table.support[r] : s.id[2] \in row.lines /\ row.answer

(* What proposition_builder.py:84 says of the record a proposition cites:  *)
(* that it owns the exact spans of the unit.  Of records that stand on the *)
(* same number of those spans the code takes the smallest identifier.      *)
PropositionCitesOwner ==
    Built => \A r \in Roles : \A p \in table.propositions[r] :
        LET u == CHOOSE u \in table.units[r] : u.id = p.unit
            exactly == {e.unit : e \in {e \in table.evidence[r] : ToSet(e.spans) = ToSet(u.spans)}}
        IN  exactly # {} => p.evidence \in exactly
==============================================================================
