--------------------------- MODULE UudDisposition ---------------------------
(***************************************************************************)
(* What becomes of every line of the page.  Each span is given exactly one *)
(* disposition: by the most specific unit that stands on it, else by the   *)
(* metadata or the source conflict that quotes it, else by its own look.   *)
(***************************************************************************)
EXTENDS UudGrounding

(* A conflict of the source is found by anchor words; its evidence is what *)
(* specs.py names, as far as that exists.                                  *)
GroundConflict(d, c, evidence) ==
    LET spans == SelectSeq(PageTextSpans(d), LAMBDA s : ToSet(s.text) \cap c.anchors # {})
        own == {e \in evidence : e.unit \in c.refs}
        drawn == UNION {ToSet(e.boxes) : e \in evidence}
        Shown(s) == LineBox(d, s.id[2]) \in drawn \/ AlignWords(d, s.text, s.id[2]) # <<>>
        raw == SelectSeq(spans, Shown)
    IN  [id |-> c.id, role |-> d.role, typed |-> c.typed, spans |-> Lines(spans),
         evidence |-> {e.unit : e \in own}, raw |-> Lines(raw),
         blocked |-> Lines(SelectSeq(spans, LAMBDA s : ~Shown(s))),
         available |-> \E e \in own : e.boxes # <<>>]

------------------------------------------------------------------------------
RoleOf(u) ==
    CASE u.anomaly -> "source_conflict_trace"
      [] ~u.anomaly /\ u.type \in {"pasal", "ayat", "pembukaan"} -> "normative_text"
      [] ~u.anomaly /\ u.type \in {"bab", "aturan"} -> "structural_heading"
      [] ~u.anomaly /\ u.type \in {"scope", "renumbering", "deletion"} -> "instrument_scope"
      [] ~u.anomaly /\ u.type = "decision" -> "decision_clause"
      [] ~u.anomaly /\ u.type = "effective" -> "effective_clause"
      [] ~u.anomaly /\ u.type = "determination" -> "metadata_text"
      [] ~u.anomaly /\ u.type = "signatories" -> "signatory_block"
      [] OTHER -> "needs_review"

Specificity(u) ==
    CASE u.anomaly -> 80
      [] ~u.anomaly /\ u.type = "ayat" -> 70
      [] ~u.anomaly /\ u.type = "pasal" -> 60
      [] ~u.anomaly /\ u.type = "aturan" -> 50
      [] ~u.anomaly /\ u.type = "pembukaan" -> 45
      [] ~u.anomaly /\ u.type = "bab" -> 10
      [] OTHER -> 40

Disposition(role, force, status, target, excluded) ==
    [role |-> role, force |-> force, status |-> status, target |-> target, excluded |-> excluded]

InstrumentDisposition(u) ==
    IF RoleOf(u) = "source_conflict_trace"
    THEN Disposition(RoleOf(u), "trace_only", "promoted_source_conflict", u.id, FALSE)
    ELSE Disposition(RoleOf(u), "amendment_instrument", "nonruntime_instrument_text", u.id, TRUE)

LegalDisposition(u) ==
    IF RoleOf(u) = "structural_heading" /\ ~(u.role = "current" /\ Deleted(u))
    THEN Disposition(RoleOf(u), "metadata_only", "excluded_structural", u.id, TRUE)
    ELSE IF RoleOf(u) \in {"normative_text", "structural_heading"}
    THEN Disposition("normative_text",
             IF u.role = "current" THEN "canonical_normative" ELSE "historical_normative",
             "promoted_legal_unit", u.id, FALSE)
    ELSE InstrumentDisposition(u)

(* Of the units that stand on a span the most specific one has it; of two  *)
(* that are equally specific, the one with the smaller identifier.         *)
Claims(u, chunks) == ToSet(FirstOf(u.spans, chunks[u.id].spans))

OwnersOf(i, units, chunks) == {u \in units : i \in Claims(u, chunks)}

OwnerOf(i, units, chunks) ==
    CHOOSE u \in OwnersOf(i, units, chunks) :
        \A v \in OwnersOf(i, units, chunks) :
            \/ Specificity(v) < Specificity(u)
            \/ Specificity(v) = Specificity(u) /\ u.id[2] <= v.id[2]

(* A span nothing refers to may still be text of an instrument; otherwise  *)
(* its own look decides, and what it does not decide is left for review.   *)
LookOf(text) ==
    CASE KindOf[text[1]] = "furniture" -> Disposition("header_footer", "nonlegal", "excluded_nonlegal", None, TRUE)
      [] KindOf[text[1]] # "furniture" /\ \E k \in DOMAIN text : KindOf[text[k]] = "effective"
             -> Disposition("effective_clause", "amendment_instrument", "nonruntime_instrument_text", None, TRUE)
      [] Len(text) = 1 /\ KindOf[text[1]] \in Announced \cup {"Stop"}
             -> Disposition("structural_heading", "metadata_only", "excluded_structural", None, TRUE)
      [] OTHER -> Disposition("needs_review", "unknown", "needs_review", None, TRUE)

SpanDisposition(s, units, chunks, metadata, conflicts) ==
    LET i == s.id[2]
        meta == {m \in metadata : i \in ToSet(m.spans)}
        conflict == {c \in conflicts : ~c.typed /\ i \in ToSet(c.spans)}
        instrument == {u \in units : /\ RoleOf(u) \notin {"normative_text", "structural_heading"}
                                     /\ Within(s.text, Flat(u.text))}
        Least(S) == CHOOSE x \in S : \A y \in S : x.id[2] <= y.id[2]
    IN  IF OwnersOf(i, units, chunks) # {} THEN LegalDisposition(OwnerOf(i, units, chunks))
        ELSE IF meta # {}
        THEN Disposition("metadata_text", "metadata_only", "promoted_metadata",
                         (CHOOSE m \in meta : TRUE).id, FALSE)
        ELSE IF conflict # {}
        THEN Disposition("source_conflict_trace", "trace_only", "promoted_source_conflict",
                         (CHOOSE c \in conflict : TRUE).id, FALSE)
        ELSE IF instrument # {} THEN InstrumentDisposition(Least(instrument))
        ELSE LookOf(s.text)

(* A span that is text of the law, or that no drawn box of the registry    *)
(* covers, is given the boxes of its words, those on the span itself only. *)
SpanWords(d, s, disposition, evidence) ==
    LET drawn == LineBox(d, s.id[2]) \in UNION {ToSet(e.boxes) : e \in evidence}
        legal == disposition.status = "promoted_legal_unit"
        open == disposition.status \in {"promoted_metadata", "promoted_source_conflict",
                                        "nonruntime_instrument_text", "needs_review"}
        words == AlignWords(d, s.text, s.id[2])
    IN  IF legal \/ (~drawn /\ open) THEN SelectSeq(words, LAMBDA b : b.line = s.id[2]) ELSE <<>>

DisposedSpans(d, units, chunks, metadata, conflicts, evidence) ==
    LET Disposed(s) == SpanDisposition(s, units, chunks, metadata, conflicts)
        Row(s) == [id |-> s.id, text |-> s.text, object |-> s.object, start |-> s.start, end |-> s.end,
                   source |-> d.role, words |-> SpanWords(d, s, Disposed(s), evidence)]
        spans == PageTextSpans(d)
    IN  [k \in DOMAIN spans |-> With(Disposed(spans[k]), Row(spans[k]))]

------------------------------------------------------------------------------
(* Every block of the page gets one disposition from those of its spans.   *)
ObjectDisposition(o, spans, raw) ==
    LET own == {spans[k] : k \in {k \in DOMAIN spans : spans[k].object = o.block}}
        pieces == {r \in raw : r.object = o.block}
        statuses == {s.status : s \in own}
    IN  IF o.type = "error" THEN "extraction_failed"
        ELSE IF o.type # "text" THEN "unsupported_nontext_object"
        ELSE IF own = {}
        THEN IF \A r \in pieces : r.raw = <<>> THEN "excluded_nonlegal_object"
             ELSE IF \A r \in pieces : r.marker THEN "source_annotation_object" ELSE "needs_review"
        ELSE IF statuses = {"promoted_legal_unit"}
        THEN IF {s.role : s \in own} = {"normative_text"} THEN "promoted_normative_evidence"
             ELSE "promoted_structural_evidence"
        ELSE IF statuses = {"promoted_metadata"} THEN "promoted_metadata"
        ELSE IF statuses = {"promoted_source_conflict"} THEN "promoted_source_anomaly"
        ELSE IF \A s \in own : s.excluded THEN "excluded_nonlegal_object"
        ELSE IF "needs_review" \notin statuses THEN "resolved_mixed_dispositions"
        ELSE "needs_review"

------------------------------------------------------------------------------
\* Mutant: a unit with units under it has clauses of its own.
AllUnits(units) == units

(* Propositions: the clauses of the units with no unit under them, each as *)
(* a selection of words that occurs once in its line.                      *)
LeafUnits(units) == {u \in units : u.type = "ayat" \/ Children(u, units) = {}}

EvidenceForUnit(u, evidence) ==
    LET Shared(e) == Cardinality(ToSet(e.spans) \cap ToSet(u.spans))
        candidates == {e \in evidence : e.role = u.role /\ Shared(e) > 0}
    IN  {e \in candidates : \A f \in candidates \ {e} :
            Shared(e) > Shared(f) \/ (Shared(e) = Shared(f) /\ e.unit[2] < f.unit[2])}

(* The clauses of a text that may run over several lines, as the places    *)
(* <<line, word>> they consist of.                                         *)
Clauses(d, L) ==
    LET places == Flat([k \in DOMAIN L |-> [w \in DOMAIN Text(d, L[k]) |-> <<L[k], w>>]])
        ends == {k \in DOMAIN places : KindOf[Text(d, places[k][1])[places[k][2]]] = "end"}
        cuts == Ascending({0, Len(places)} \cup ends)
    IN  [k \in 1 .. Len(cuts) - 1 |-> SubSeq(places, cuts[k] + 1, cuts[k + 1])]

(* A selection is refused when its words occur twice among the words that  *)
(* have a box on the line, or not at all.                                  *)
Selected(d, clause, spans) ==
    LET rows == {p[1] : p \in ToSet(clause)}
        Slice(i) == SelectSeq(clause, LAMBDA p : p[1] = i)
        Said(i) == [k \in DOMAIN Slice(i) |-> Text(d, i)[Slice(i)[k][2]]]
        Boxed(i) == (CHOOSE k \in DOMAIN spans : spans[k].id[2] = i)
        Visible(i) == [k \in DOMAIN spans[Boxed(i)].words |-> spans[Boxed(i)].words[k].word]
        Occurs(i) == {k \in 1 .. Len(Visible(i)) - Len(Said(i)) + 1 :
                         SubSeq(Visible(i), k, k + Len(Said(i)) - 1) = Said(i)}
    IN  IF \E i \in rows : Cardinality(Occurs(i)) # 1 THEN {}
        ELSE UNION {{spans[Boxed(i)].words[k + n - 1].at : k \in Occurs(i), n \in 1 .. Len(Said(i))} : i \in rows}

Normative(d, clause) ==
    \E k \in 2 .. Len(clause) - 1 : KindOf[Text(d, clause[k][1])[clause[k][2]]] = "must"

Propositions(d, units, evidence, spans) ==
    UNION {UNION {LET clauses == Clauses(d, u.spans)
                      kept == {k \in DOMAIN clauses : Selected(d, clauses[k], spans) # {}}
                  IN  {[unit |-> u.id, evidence |-> e.unit, at |-> clauses[p[1]], kind |-> p[2],
                        boxes |-> Selected(d, clauses[p[1]], spans)] :
                          p \in {p \in kept \X {"textual_occurrence", "normative_proposition"} :
                                    p[2] = "textual_occurrence" \/ Normative(d, clauses[p[1]])}} :
                  e \in EvidenceForUnit(u, evidence)} : u \in LeafUnits(units)}

------------------------------------------------------------------------------
(* For every row that is not drawn exactly, not shown, or a candidate for  *)
(* recovery, for every relation and for every box that stands for a page:  *)
(* whether it may be cited exactly after all.                              *)
CanBeExact(d, quote, spans, boxes) ==
    LET run == IF spans # <<>> THEN spans ELSE Lines(Matching(PageTextSpans(d), quote))
    IN  Within(Flat(quote), Flat(Page(d))) /\ run # <<>> /\ AllExact(boxes)

NeedsDecision(e) == ~e.exact \/ ~e.shown \/ e.trace \/ e.candidate

PromotionDecisions(d, evidence, metadata, relations) ==
    LET Decided(id, decision, proven) == [id |-> id, decision |-> decision, proven |-> proven]
        Decide(id, proven, candidate) ==
            Decided(id, IF ~proven THEN "keep_non_exact" ELSE IF candidate THEN "recovered_exact" ELSE "already_exact", proven)
        boxes == {b \in UNION {ToSet(e.boxes) : e \in evidence} : ~b.exact}
    IN  {Decide(e.unit, e.exact /\ e.shown /\ CanBeExact(d, e.quote, e.spans, e.boxes), e.candidate) :
            e \in {e \in evidence : NeedsDecision(e)}}
        \cup {Decide(m.id, m.exact /\ CanBeExact(d, m.quote, m.spans, m.boxes), FALSE) : m \in {m \in metadata : ~m.exact}}
        \cup {Decide(<<b.role, b.place, b.at>>, FALSE, FALSE) : b \in boxes}
        \cup {Decided(a.id, IF a.exact THEN "promote_exact" ELSE "keep_non_exact", a.spans # <<>> /\ a.words # {}) :
                  a \in {a \in relations : a.role = d.role}}
=============================================================================
