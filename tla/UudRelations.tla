---------------------------- MODULE UudRelations ----------------------------
(***************************************************************************)
(* The legal graph of the corpus: the nodes of its rows, the edges of its  *)
(* structure, and the relations an amending instrument declares between    *)
(* articles.  A relation is exact only when the words of the article it    *)
(* aims at are found, once, inside the geometry that supports it.          *)
(*                                                                         *)
(* docs is the set of documents; units and evidence are those of all.      *)
(***************************************************************************)
EXTENDS UudGrounding

Node(kind, id) == [kind |-> kind, id |-> id]
UnitNode(id) == Node("legal_unit", id)
RoleNode(role) == Node("source_role", <<role>>)

GraphNodes(docs, units, evidence, conflicts) ==
    {RoleNode(d.role) : d \in docs} \cup {Node("page", <<d.role>>) : d \in docs}
    \cup {UnitNode(u.id) : u \in units}
    \cup {Node("final_evidence", e.unit) : e \in evidence}
    \cup {Node("bbox", <<b.role, b.place, b.at>>) : b \in UNION {ToSet(e.boxes) : e \in evidence}}
    \cup {Node("source_conflict", c.id) : c \in conflicts}

(* derived: the edge is the inverse of another; relation: the relation it  *)
(* is an edge of, None when there is none.                                 *)
Edge(type, from, to, relation) ==
    [type |-> type, from |-> from, to |-> to, relation |-> relation, derived |-> FALSE]

------------------------------------------------------------------------------
(* Structure.  A BAB that was inserted follows its predecessor and is not  *)
(* a part of it.                                                           *)
ParentEdges(units) ==
    LET pairs == {r \in units \X units :
                     /\ r[2].parent = r[1].id
                     /\ ~(r[1].type = "bab" /\ r[2].type = "bab")}
    IN  {Edge("CONTAINS", UnitNode(r[1].id), UnitNode(r[2].id), None) : r \in pairs}
        \cup {Edge("PART_OF", UnitNode(r[2].id), UnitNode(r[1].id), None) : r \in pairs}

SequenceEdges(docs, units) ==
    LET Babs(d) == {u \in units : u.role = d.role /\ u.type = "bab"}
        Place(u) == u.id[2] % 100
        Earlier(d, u) == {v \in Babs(d) : Place(v) < Place(u)}
        pairs == UNION {{r \in Babs(d) \X Babs(d) :
                            /\ r[2].label \in DOMAIN d.inserted /\ r[1] \in Earlier(d, r[2])
                            /\ \A w \in Earlier(d, r[2]) : Place(w) <= Place(r[1])} : d \in docs}
    IN  UNION {{Edge("PRECEDES", UnitNode(r[1].id), UnitNode(r[2].id), None),
                Edge("FOLLOWS", UnitNode(r[2].id), UnitNode(r[1].id), None),
                Edge("INSERTED_AFTER", UnitNode(r[2].id), UnitNode(r[1].id), None)} : r \in pairs}

EvidenceEdges(evidence) ==
    LET Own(e) == Node("final_evidence", e.unit)
    IN  UNION {{Edge("HAS_FINAL_EVIDENCE", UnitNode(e.unit), Own(e), None),
                Edge("BELONGS_TO_SOURCE_ROLE", Own(e), RoleNode(e.role), None),
                Edge("PAGE_GROUNDED_AT", Own(e), Node("page", <<e.role>>), None)}
               \cup {Edge("HAS_BBOX", Own(e), Node("bbox", <<b.role, b.place, b.at>>), None) : b \in ToSet(e.boxes)} :
               e \in evidence}

InstrumentEdges(units, evidence, metadata, conflicts) ==
    LET Part(type) == {u \in units : u.type = type}
        Shown(type) == {u \in Part(type) : EvidenceFor(evidence, u.id) # {}}
        ruled == {u \in Part("effective") : \E m \in metadata : m.role = u.role /\ m.field = "effective"}
    IN  {Edge("HAS_SIGNATORY", RoleNode(u.role), UnitNode(u.id), None) : u \in Shown("signatories")}
        \cup {Edge("HAS_DECISION_SESSION", RoleNode(u.role), UnitNode(u.id), None) : u \in Shown("decision")}
        \cup {Edge("HAS_EFFECTIVE_RULE", RoleNode(u.role), UnitNode(u.id), None) : u \in ruled}
        \cup {Edge("HAS_SOURCE_ANOMALY", RoleNode(c.role), Node("source_conflict", c.id), None) : c \in conflicts}

------------------------------------------------------------------------------
(* Amendments.  A provision names articles; "menjadi" between as many old  *)
(* as new ones pairs them in order.                                        *)
References(text) == SelectSeq(text, LAMBDA w : KindOf[w] = "Pasal")

Renumberings(text) ==
    LET turn == {k \in DOMAIN text : KindOf[text[k]] = "becomes"}
        old(k) == References(SubSeq(text, 1, k - 1))
        new(k) == References(SubSeq(text, k + 1, Len(text)))
    IN  UNION {IF old(k) # <<>> /\ Len(old(k)) = Len(new(k))
               THEN {[old |-> old(k)[n], new |-> new(k)[n]] : n \in DOMAIN old(k)} ELSE {} : k \in turn}

(* The first unit with that label in a document.                           *)
Resolve(units, label, role) ==
    LET named == {u \in units : u.role = role /\ u.label = label}
    IN  {u \in named : \A v \in named : u.id[2] <= v.id[2]}

Amends(type, e, source, target, mapping) ==
    [type |-> type, evidence |-> e, source |-> source, target |-> target, mapping |-> mapping]

(* What the words of a row of evidence aim at in a document, and what each *)
(* kind of amending provision says of it.                                  *)
Aimed(units, e, role) == UNION {Resolve(units, l, role) : l \in ToSet(References(Flat(e.quote)))}

ModifiedBy(units, e) == {Amends("MODIFIES", e, e.unit, u, None) : u \in Aimed(units, e, e.role)}
DeletedBy(units, e) ==
    {Amends("DELETES", e, e.unit, u, None) : u \in {v \in Aimed(units, e, e.role) : v.type \in {"pasal", "ayat"}}}
TurnedInto(units, e, p) ==
    {Amends("RENAMES", e, o.id, n, <<p.old, p.new>>) :
        o \in Resolve(units, p.old, e.role), n \in Resolve(units, p.new, "current")}
RenamedBy(units, e) == UNION {TurnedInto(units, e, p) : p \in Renumberings(Flat(e.quote))}

(* Every provision of a scope counts, and the first that deletes or that   *)
(* renumbers.                                                              *)
DeclaredAmendments(units, evidence) ==
    LET Of(type) == {e \in evidence : \E u \in units : u.id = e.unit /\ u.type = type}
        First(type) == {e \in Of(type) : e = CHOOSE f \in Of(type) :
                                              \A g \in Of(type) : g.role = f.role => f.unit[2] <= g.unit[2]}
    IN  UNION ({ModifiedBy(units, e) : e \in Of("scope")} \cup {DeletedBy(units, e) : e \in First("deletion")}
               \cup {RenamedBy(units, e) : e \in First("renumbering")})

AmendmentId(a) == <<a.type, a.source, a.target.id, a.evidence.unit, a.mapping>>

(* The words of the reference: at each place where the page says the text  *)
(* of the source, the place of the reference in it, if it lies inside the  *)
(* geometry.  More than one candidate is no proof.                         *)
TargetWords(d, ref, text, boxes) ==
    LET page == SelectSeq(WordBoxes(d), LAMBDA b : KindOf[b.word] # "marker")
        n == Len(text)
        said == {s \in 1 .. Len(page) - n + 1 : \A k \in 1 .. n : page[s + k - 1].word = text[k]}
        places == UNION {{s + k - 1 : k \in {k \in 1 .. n : text[k] = ref}} : s \in said}
        Inside(p) == \E b \in ToSet(boxes) :
                        \/ b.place = "line" /\ <<page[p].line, 0>> \in b.at
                        \/ b.place = "words" /\ page[p].at \in b.at
        found == {p \in places : Inside(p)}
    IN  IF n = 0 \/ Cardinality(found) # 1 THEN {} ELSE {page[p].at : p \in found}

ArticleRelation(d, a) ==
    LET e == a.evidence
        ref == IF a.mapping = None THEN a.target.label ELSE a.mapping[2]
        isolated == SelectSeq(e.spans, LAMBDA i : References(Text(d, i)) = <<ref>>)
        text == IF isolated = <<>> THEN Flat(e.quote) ELSE Flat([k \in DOMAIN isolated |-> Text(d, isolated[k])])
        words == TargetWords(d, ref, text, e.boxes)
        supported == IF a.mapping = None THEN e.exact ELSE e.spans # <<>> /\ e.boxes # <<>>
    IN  [id |-> AmendmentId(a), type |-> a.type, evidence |-> e.unit, source |-> a.source,
         target |-> a.target.id, reference |-> ref, role |-> e.role, spans |-> e.spans,
         words |-> words, exact |-> supported /\ e.exact /\ words # {}]

(* A relation aims at an article; a declared amendment of anything else    *)
(* has an edge without a relation.                                         *)
ArticleRelations(docs, units, evidence) ==
    {ArticleRelation(CHOOSE d \in docs : d.role = a.evidence.role, a) :
        a \in {a \in DeclaredAmendments(units, evidence) : KindOf[a.target.label] = "Pasal"}}

AmendmentEdges(units, evidence) ==
    {Edge(a.type, UnitNode(a.source), UnitNode(a.target.id), AmendmentId(a)) :
        a \in DeclaredAmendments(units, evidence)}

DocumentRelations(docs) ==
    LET roles == {d.role : d \in docs}
        amending == roles \ {"current", "original"}
        Link(type, a, b) == Edge(type, RoleNode(a), RoleNode(b), <<type, a, b>>)
    IN  {Link("AMENDS", r, "original") : r \in amending} \cup {Link("AMENDED_BY", "original", r) : r \in amending}
        \cup {Link("DERIVED_FROM", "current", "original") : r \in roles \cap {"current"}}
        \cup {Link("CONSOLIDATES", "current", r) : r \in {r \in amending : "current" \in roles}}

GraphEdges(docs, units, evidence, metadata, conflicts) ==
    ParentEdges(units) \cup SequenceEdges(docs, units) \cup EvidenceEdges(evidence)
    \cup InstrumentEdges(units, evidence, metadata, conflicts) \cup AmendmentEdges(units, evidence)

------------------------------------------------------------------------------
(* The relations the program knows, with their inverses.                   *)
AuthorityBearing == {"MODIFIES", "DELETES", "RENAMES", "RENUMBERED_TO"}

InverseType ==
    [CONTAINS |-> "PART_OF", PART_OF |-> "CONTAINS", PRECEDES |-> "FOLLOWS", FOLLOWS |-> "PRECEDES",
     MODIFIES |-> "MODIFIED_BY", DELETES |-> "DELETED_BY", RENAMES |-> "RENAMED_FROM",
     MODIFIED_BY |-> "MODIFIES", DELETED_BY |-> "DELETES", RENAMED_FROM |-> "RENAMES",
     RENUMBERED_TO |-> "RENUMBERED_FROM", RENUMBERED_FROM |-> "RENUMBERED_TO",
     AMENDS |-> "AMENDED_BY", AMENDED_BY |-> "AMENDS", DERIVED_FROM |-> "DERIVES",
     DERIVES |-> "DERIVED_FROM", CONSOLIDATES |-> "CONSOLIDATED_BY", CONSOLIDATED_BY |-> "CONSOLIDATES"]

(* The policy stops the build on an amending edge without its relation.    *)
MissingRelation(edges, relations) ==
    \E e \in edges : e.type \in AuthorityBearing /\ \A r \in relations : r.id # e.relation

SupportKind(e) ==
    CASE e.type \in AuthorityBearing -> "exact_source_relation"
      [] e.type \in {"CONTAINS", "PART_OF", "PRECEDES", "FOLLOWS", "INSERTED_AFTER"} -> "deterministic_structure"
      [] e.type = "HAS_SOURCE_ANOMALY" -> "source_anomaly_trace"
      [] e.type \in {"AMENDS", "AMENDED_BY", "DERIVED_FROM", "CONSOLIDATES"} -> "provenance_only"
      [] OTHER -> "endpoint_provenance"

\* Mutant: the inverse keeps the ends of its edge.
TurnedInPlace(e) == [e EXCEPT !.type = InverseType[e.type], !.derived = TRUE]

Turned(e) == [e EXCEPT !.type = InverseType[e.type], !.from = e.to, !.to = e.from, !.derived = TRUE]

(* Inverses are persisted, unless an edge in that direction is there.      *)
MaterializeInverseEdges(edges) ==
    LET Answered(e) == \E f \in edges : f.type = InverseType[e.type] /\ f.from = e.to /\ f.to = e.from
        open == {e \in edges : e.type \in DOMAIN InverseType /\ ~e.derived /\ ~Answered(e)}
        Key(e) == <<e.type, e.from, e.to>>
        first == {e \in open : e = CHOOSE f \in open : Key(f) = Key(e)}
    IN  edges \cup {Turned(e) : e \in first}
=============================================================================
