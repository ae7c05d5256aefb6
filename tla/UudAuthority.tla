---------------------------- MODULE UudAuthority ----------------------------
(***************************************************************************)
(* Who may speak.  The authority contract decides for every span and every *)
(* evidence what it is an authority for and whether it may be cited; the   *)
(* meaningful support then gives every span that has a legal force one     *)
(* owner, among the evidence, the metadata and the source conflicts that   *)
(* stand on it, or a reviewed decision.                                    *)
(***************************************************************************)
EXTENDS UudDisposition, UudRelations

InstrumentTypes == {"scope", "renumbering", "deletion", "decision", "determination", "signatories"}

(* What a span is an authority for: its disposition says it.               *)
SpanAuthority(s) ==
    CASE s.status = "promoted_legal_unit" -> "normative_legal_text"
      [] s.status = "excluded_nonlegal" -> "nonlegal"
      [] s.status = "promoted_metadata" -> "metadata"
      [] s.status = "promoted_source_conflict" -> "source_anomaly_trace"
      [] s.status = "nonruntime_instrument_text" -> "instrument_provenance"
      [] s.status = "excluded_structural" -> "structural_context"
      [] OTHER -> "rejected"

Standing(i, role, evidence) == {e \in evidence : e.role = role /\ i \in ToSet(e.spans)}

AuthoritySpans(spans, evidence) ==
    [k \in DOMAIN spans |->
        LET own == Standing(spans[k].id[2], spans[k].source, evidence)
        IN  With([authority |-> SpanAuthority(spans[k]), evidence |-> {e.unit : e \in own},
                  highlightable |-> /\ spans[k].status = "promoted_legal_unit"
                                    /\ own # {} /\ spans[k].words # <<>>], spans[k])]

EvidenceAuthority(e, u) ==
    CASE RoleOf(u) = "structural_heading" -> "structural_context"
      [] u.anomaly -> "source_anomaly_trace"
      [] ~u.anomaly /\ u.type \in InstrumentTypes -> "instrument_provenance"
      [] OTHER -> IF e.exact /\ e.shown THEN "normative_legal_text" ELSE "page_only"

AuthorityEvidence(evidence, units) ==
    {LET u == CHOOSE u \in units : u.id = e.unit
         citable == /\ e.exact /\ e.shown /\ ~u.anomaly
                    /\ RoleOf(u) # "structural_heading" /\ u.type \notin InstrumentTypes
     IN  With([authority |-> EvidenceAuthority(e, u), citable |-> citable,
               quotable |-> citable /\ EvidenceAuthority(e, u) = "normative_legal_text"], e) : e \in evidence}

(* A node or an edge of a kind the policy does not know stops the build.   *)
KnownNodes == {"bbox", "final_evidence", "legal_unit", "page", "source_role", "source_conflict"}
KnownSupport == {"deterministic_structure", "endpoint_provenance", "source_anomaly_trace"}

UnknownInGraph(nodes, edges) ==
    \/ \E n \in nodes : n.kind \notin KnownNodes
    \/ \E e \in edges : e.relation = None /\ SupportKind(e) \notin KnownSupport

------------------------------------------------------------------------------
(* Owners.  Conflicts are compatible whatever the span is linked to.       *)
Owner(kind, row, spans, authority, citable, shown) ==
    [kind |-> kind, id |-> row.id, role |-> row.role, spans |-> spans, authority |-> authority,
     citable |-> citable, shown |-> shown]

CanonicalOwners(evidence, metadata, conflicts) ==
    {Owner("evidence", [id |-> e.unit, role |-> e.role], ToSet(e.spans), e.authority, e.citable, e.shown) :
        e \in evidence}
    \cup {Owner("metadata", m, ToSet(m.spans), "metadata", FALSE, m.exact) : m \in metadata}
    \cup {Owner("conflict", c, ToSet(c.spans), "source_anomaly_provenance", FALSE, TRUE) : c \in conflicts}

CompatibleForces(authority) ==
    CASE authority = "normative_legal_text" -> {"canonical_normative", "historical_normative"}
      [] authority = "structural_context" -> {"canonical_normative", "historical_normative", "metadata_only"}
      [] authority = "instrument_provenance" -> {"amendment_instrument"}
      [] authority = "metadata" -> {"metadata_only"}
      [] authority = "source_anomaly_provenance"
             -> {"historical_normative", "amendment_instrument", "metadata_only"}
      [] OTHER -> {}

Compatible(s, o) ==
    /\ o.role = s.source /\ s.id[2] \in o.spans
    /\ o.kind = "conflict" \/ o.authority = s.authority
    /\ s.force \in CompatibleForces(o.authority)

(* The owner with the fewest spans has the span, then the smaller name.    *)
Rank(o) == CASE o.kind = "conflict" -> 1 [] o.kind = "evidence" -> 2 [] OTHER -> 3

SelectOwner(s, owners) ==
    LET candidates == {o \in owners : Compatible(s, o)}
        Before(o, p) ==
            IF Cardinality(o.spans) # Cardinality(p.spans) THEN Cardinality(o.spans) < Cardinality(p.spans)
            ELSE IF Rank(o) # Rank(p) THEN Rank(o) < Rank(p)
            ELSE o.kind = "evidence" => o.id[2] <= p.id[2]
    IN  IF candidates = {} THEN {}
        ELSE {CHOOSE o \in candidates : \A p \in candidates \ {o} : Before(o, p)}

(* A reviewed span is owned by its review, which must say what the span is *)
(* and of what authority it is; it may exclude it.                         *)
ReviewOf(s, reviews) == {r \in reviews : r.role = s.source /\ r.line = s.id[2]}

\* Mutant: only what can be highlighted is meaningful.
Highlightable(spans, reviews) == {s \in spans : s.highlightable \/ ReviewOf(s, reviews) # {}}

Meaningful(spans, reviews) ==
    {s \in spans : s.force # "nonlegal" \/ ReviewOf(s, reviews) # {}}

OwnersOfSpan(s, reviews, owners) ==
    IF ReviewOf(s, reviews) # {}
    THEN {Owner("review", [id |-> <<r.role, r.line>>, role |-> r.role], {r.line}, r.authority,
                FALSE, TRUE) : r \in ReviewOf(s, reviews)}
    ELSE SelectOwner(s, owners)

(* The raw selector of a span: the piece of the drawing at its offsets.    *)
RawOf(s, raw) == {r \in raw : r.role = s.source /\ r.eligible /\ r.start = s.start /\ r.end = s.end}

(* The build stops at a span without an owner or without a raw selector,   *)
(* and at a review of another classification.                              *)
SupportFails(spans, raw, reviews, owners) ==
    \E s \in Meaningful(spans, reviews) :
        \/ OwnersOfSpan(s, reviews, owners) = {}
        \/ RawOf(s, raw) = {}
        \/ \E r \in ReviewOf(s, reviews) : r.force # s.force

(* The characters of the raw piece have boxes when its words have.         *)
SegmentBoxes(d, segment, raw) ==
    LET boxed == \A s \in segment : \E r \in RawOf(s, raw) : r.semantic = s.text /\ s.id[2] \notin d.wordless
    IN  IF boxed THEN {s.id[2] : s \in segment} ELSE {}

(* One row for each run of neighbouring spans of one owner and one kind.   *)
MeaningfulSupport(d, spans, raw, reviews, owners) ==
    LET meant == Meaningful(ToSet(spans), reviews)
        OwnerIs(s) == CHOOSE o \in OwnersOfSpan(s, reviews, owners) : TRUE
        Alike(s, t) == OwnerIs(s) = OwnerIs(t) /\ s.role = t.role /\ s.force = t.force
        Between(r, s, t) == \/ s.id[2] <= r.id[2] /\ r.id[2] <= t.id[2]
                            \/ t.id[2] <= r.id[2] /\ r.id[2] <= s.id[2]
        Joined(s, t) == \A r \in ToSet(spans) : Between(r, s, t) => r \in meant /\ Alike(r, s)
        segments == {{t \in meant : Joined(s, t)} : s \in meant}
        Row(segment) ==
            LET s == CHOOSE s \in segment : TRUE
                o == OwnerIs(s)
                excluded == \E r \in ReviewOf(s, reviews) : r.excluded
                boxes == IF excluded THEN {} ELSE SegmentBoxes(d, segment, raw)
            IN  [owner |-> o.kind, id |-> o.id, role |-> d.role, lines |-> {t.id[2] : t \in segment},
                 boxes |-> boxes, highlight |-> boxes # {} /\ o.shown,
                 answer |-> ~excluded /\ o.authority = "normative_legal_text" /\ s.force = "canonical_normative",
                 citation |-> ~excluded /\ o.kind = "evidence" /\ o.citable]
    IN  {Row(segment) : segment \in segments}
=============================================================================
