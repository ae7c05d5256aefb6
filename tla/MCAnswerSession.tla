---------------------------- MODULE MCAnswerSession ----------------------------
(***************************************************************************)
(* Small corpora of three documents, the ways the rows of one can be worse *)
(* than that, and one question for every way through the cascade.          *)
(***************************************************************************)
EXTENDS AnswerSession

Line(role, n) == <<role, n>>
Lines(role, from, to) == [i \in 1..(to + 1 - from) |-> Line(role, from + i - 1)]

MCUnit(id, label, kind, parent, role, order, lines) ==
    [id |-> id, label |-> label, kind |-> kind, parent |-> parent, role |-> role,
     order |-> order, lines |-> lines, loadable |-> TRUE, canonical |-> TRUE, trace |-> FALSE,
     provision |-> kind = "pasal"]

\* the evidence of a unit: all its lines
MCRow(id, unit, kind, role, label, lines) ==
    [id |-> id, unit |-> unit, role |-> role, kind |-> kind, label |-> label,
     final |-> kind = "normative", citable |-> kind = "normative", eligible |-> kind = "normative",
     exact |-> TRUE, drawn |-> TRUE, loadable |-> TRUE,
     lines |-> lines, boxes |-> lines, quote |-> lines, field |-> None]

\* the grounding of a metadata field
MCGrounding(id, role, field, lines) ==
    [MCRow(id, None, "metadata", role, None, lines) EXCEPT !.field = field]

MCProposition(id, unit, evidence, role, lines, says) ==
    [id |-> id, unit |-> unit, evidence |-> evidence, role |-> role, lines |-> lines,
     boxes |-> lines, overlay |-> lines, predicate |-> "requires", polarity |-> "positive",
     says |-> says]

MCEdge(type, evidence, target, label, role, lines) ==
    [type |-> type, evidence |-> evidence, target |-> target, label |-> label, ayat |-> None,
     role |-> role, exact |-> TRUE, loadable |-> TRUE, boxes |-> lines, lines |-> lines]

Units == <<
    MCUnit("b1", "BAB I", "bab", None, "current", 1, Lines("current", 1, 4)),
    MCUnit("p1", "Pasal 1", "pasal", "b1", "current", 1, Lines("current", 2, 3)),
    MCUnit("a1", "ayat 1", "ayat", "p1", "current", 1, Lines("current", 2, 2)),
    MCUnit("a2", "ayat 2", "ayat", "p1", "current", 2, Lines("current", 3, 3)),
    MCUnit("p2", "Pasal 2", "pasal", "b1", "current", 2, Lines("current", 4, 4)),
    MCUnit("op1", "Pasal 1", "pasal", None, "original", 1, Lines("original", 1, 1)),
    MCUnit("op2", "Pasal 2", "pasal", None, "original", 2, Lines("original", 2, 2)),
    MCUnit("f1", "Scope", "scope", None, "first", 1, Lines("first", 1, 2)),
    MCUnit("f2", "Clause c", "clause", None, "first", 2, Lines("first", 3, 3)) >>

Evidence == <<
    MCRow("e-b1", "b1", "structural", "current", "BAB I", Lines("current", 1, 4)),
    MCRow("e-p1", "p1", "normative", "current", "Pasal 1", Lines("current", 2, 3)),
    MCRow("e-a1", "a1", "normative", "current", "ayat 1", Lines("current", 2, 2)),
    MCRow("e-a2", "a2", "normative", "current", "ayat 2", Lines("current", 3, 3)),
    MCRow("e-p2", "p2", "normative", "current", "Pasal 2", Lines("current", 4, 4)),
    MCRow("e-op1", "op1", "normative", "original", "Pasal 1", Lines("original", 1, 1)),
    MCRow("e-op2", "op2", "normative", "original", "Pasal 2", Lines("original", 2, 2)),
    MCRow("e-f1", "f1", "instrument", "first", "Scope", Lines("first", 1, 2)),
    MCRow("e-f2", "f2", "instrument", "first", "Clause c", Lines("first", 3, 3)) >>

Facts == <<
    [role |-> "first", enacted |-> TRUE,
     signatories |-> <<[name |-> "Amin", office |-> "chair", grounding |-> "g1"],
                       [name |-> "Budi", office |-> "deputy", grounding |-> "g2"]>>,
     groundings |-> <<MCGrounding("g1", "first", "signatories", Lines("first", 4, 4)),
                      MCGrounding("g2", "first", "signatories", Lines("first", 5, 5)),
                      MCGrounding("g3", "first", "place", Lines("first", 5, 5))>>],
    [role |-> "original", enacted |-> FALSE,
     signatories |-> <<[name |-> "Budi", office |-> "clerk", grounding |-> "g6"]>>,
     groundings |-> <<MCGrounding("g6", "original", "signatories", Lines("original", 3, 3)),
                      MCGrounding("g4", "original", "place", Lines("original", 3, 3)),
                      MCGrounding("g5", "original", "official_title", Lines("original", 3, 3))>>] >>

Says ==
    [line \in {Line("current", n) : n \in 1..4} \cup {Line("original", n) : n \in 1..3}
              \cup {Line("first", n) : n \in 1..5} |->
        CASE line = Line("current", 1) -> {"state"}
          [] line = Line("current", 2) -> {"president", "elected"}
          [] line = Line("current", 3) -> {"people", "deleted"}
          [] line = Line("current", 4) -> {"president", "term"}
          [] line = Line("original", 1) -> {"president", "elected"}
          [] line = Line("first", 3) -> {"BAB I", "deleted"}
          [] OTHER -> {"other"}]

Good ==
    [units |-> Units, evidence |-> Evidence, facts |-> Facts, says |-> Says,
     drawn |-> DOMAIN Says,
     props |-> <<MCProposition("w1", "a1", "e-a1", "current", Lines("current", 2, 2),
                               {"president", "elected"}),
                 MCProposition("w2", "p2", "e-p2", "current", Lines("current", 4, 4),
                               {"president", "term"})>>,
     edges |-> <<MCEdge("AMENDS", None, None, None, "first", <<>>),
                 MCEdge("MODIFIES", "e-f1", "p1", "Pasal 1", "first", Lines("first", 1, 2)),
                 MCEdge("RENAMES", "e-f2", "p1", "Pasal 1", "first", Lines("first", 3, 3))>>]

\* Two relations of one record stand on lines of their own, a third is a trace; the
\* proposition of an Ayat cites the record of its Pasal, or its polarity is the other.
Shared ==
    [Good EXCEPT
        !.edges = <<MCEdge("AMENDS", None, None, None, "first", <<>>),
                    MCEdge("MODIFIES", "e-f1", "p1", "Pasal 1", "first", Lines("first", 1, 1)),
                    MCEdge("MODIFIES", "e-f1", "p2", "Pasal 2", "first", Lines("first", 2, 2)),
                    [MCEdge("MODIFIES", "e-f2", "a2", "ayat 2", "first", Lines("first", 3, 3))
                        EXCEPT !.exact = FALSE]>>,
        !.props = <<MCProposition("w1", "a1", "e-p1", "current", Lines("current", 2, 2),
                                  {"president", "elected"}),
                    [MCProposition("w2", "p2", "e-p2", "current", Lines("current", 4, 4),
                                   {"president", "term"}) EXCEPT !.polarity = "negative"]>>]

\* Rows that must not be shown: boxes of another line, a page without boxes, a box that
\* was never drawn, a unit without its row, a BAB whose heading is not on its first
\* boxes; an earlier text that is not final, and one that is only a trace.
RowWith(id, change(_)) ==
    [i \in DOMAIN Evidence |-> IF Evidence[i].id = id THEN change(Evidence[i]) ELSE Evidence[i]]
Worse(rows) == [Good EXCEPT !.evidence = rows]
Broken == <<
    Worse(RowWith("e-p1", LAMBDA row : [row EXCEPT !.boxes = Lines("current", 1, 2)])),
    Worse(RowWith("e-a1", LAMBDA row : [row EXCEPT !.exact = FALSE, !.drawn = FALSE])),
    [Good EXCEPT !.drawn = @ \ {Line("current", 2), Line("first", 4), Line("first", 2)},
                 !.props = Tail(@)],
    Worse(SelectSeq(Evidence, LAMBDA row : row.id \notin {"e-a2", "e-p2", "e-f1"})),
    Worse(RowWith("e-b1", LAMBDA row : [row EXCEPT !.boxes = Lines("current", 2, 4) \o Lines("current", 1, 1)])),
    [Worse(RowWith("e-op1", LAMBDA row : [row EXCEPT !.final = FALSE]))
        EXCEPT !.units[6].canonical = FALSE, !.units[7].trace = TRUE, !.units[5].loadable = FALSE] >>

MCStores == <<Good, Shared>> \o Broken

----------------------------------------------------------------------------
Ref(pasal, ayat) == [pasal |-> pasal, ayat |-> ayat]
Cites(pasal) == [Plain EXCEPT !.refs = <<Ref(pasal, None)>>]
Of(role, q) == [q EXCEPT !.roles = <<role>>]
Asking(phrases, q) == [q EXCEPT !.asks = phrases]
InBab(q) == [q EXCEPT !.bab = "BAB I"]
Changed(family, q) == [q EXCEPT !.family = family]
Claims(polarity, words, q) ==
    [q EXCEPT !.words = words,
              !.claim = [predicate |-> "requires", polarity |-> polarity, words |-> words]]
BothPasals == [Plain EXCEPT !.refs = <<Ref("Pasal 1", None), Ref("Pasal 2", None)>>]

Structural == {
    Cites("Pasal 1"), Cites("Pasal 9"), Of("original", Cites("Pasal 2")),
    [Plain EXCEPT !.refs = <<Ref("Pasal 1", "ayat 1")>>], BothPasals,
    [Cites("Pasal 1") EXCEPT !.time = "current"],
    Asking({"pasal only"}, Plain), [Plain EXCEPT !.section = "Pasal 2"],
    InBab(Plain), Asking({"content"}, InBab(Plain)),
    Asking({"enumerate", "hierarchy"}, InBab(Plain)), InBab(Cites("Pasal 2")),
    InBab([Plain EXCEPT !.refs = <<Ref("Pasal 1", "ayat 2")>>]),
    Asking({"list"}, Plain), Asking({"deleted"}, InBab(Plain)),
    Asking({"deleted", "change"}, InBab(Plain)),
    [Cites("Pasal 1") EXCEPT !.nav = <<"Pasal 1", 1>>],
    [Cites("Pasal 1") EXCEPT !.nav = <<"Pasal 1", -1>>] }

Instruments == {
    Of("first", [Plain EXCEPT !.part = "Scope"]), Of("first", [Plain EXCEPT !.part = "Clause"]),
    Of("first", [Plain EXCEPT !.part = "Clause c"]), Of("first", Asking({"analysis"}, Plain)),
    Of("first", Asking({"open", "document"}, Plain)), Of("first", Asking({"summary", "uud"}, Plain)),
    Asking({"summary", "uud"}, Plain) }

Related == {
    Of("first", Changed("MODIFY_PROVISION", Asking({"pasal"}, Plain))),
    Of("first", Changed("MODIFY_PROVISION", Cites("Pasal 1"))),
    Changed("RENAME_PROVISION", Cites("Pasal 1")),
    Changed("DELETE_OR_REMOVE_PROVISION", Cites("Pasal 1")),
    Of("first", Changed("MODIFY_PROVISION", Plain)),
    Asking({"becomes"}, BothPasals), Asking({"add", "amendment"}, Cites("Pasal 1")),
    Asking({"unsupported detail", "amendment"}, Changed("MODIFY_PROVISION", Plain)),
    Asking({"document", "amendment"}, Changed("MODIFY_PROVISION", Plain)),
    [Plain EXCEPT !.roles = <<"original", "first">>],
    Asking({"relation"}, Cites("Pasal 1")), Asking({"parent"}, Cites("Pasal 2")),
    Asking({"children", "ayat"}, Cites("Pasal 1")), Asking({"children", "pasal"}, InBab(Plain)) }

Factual == {
    [Plain EXCEPT !.field = "place"], Of("original", [Plain EXCEPT !.field = "place"]),
    [Plain EXCEPT !.field = "place", !.time = "unresolved"],
    [Plain EXCEPT !.field = "promulgation"], Asking({"enactment"}, [Plain EXCEPT !.field = "place"]),
    [Plain EXCEPT !.names = {"Amin", "Budi"}], [Plain EXCEPT !.office = "chair"] }

Worded == {
    [Plain EXCEPT !.words = {"president"}], [Plain EXCEPT !.words = {"president", "elected"}],
    [Plain EXCEPT !.words = {"people", "absent"}], [Plain EXCEPT !.words = {"people"}],
    Of("original", Asking({"metadata"}, [Plain EXCEPT !.words = {"president"}])),
    [Plain EXCEPT !.words = {"people"}, !.time = "unresolved"],
    [Plain EXCEPT !.words = {"people", "term"}, !.clauses = <<{"people"}, {"term"}>>],
    Asking({"current fact"}, [Plain EXCEPT !.words = {"president"}]),
    Claims("positive", {"president", "elected"}, Cites("Pasal 1")),
    Claims("positive", {"president", "term"}, Cites("Pasal 2")),
    Claims("positive", {"president", "elected"}, Plain),
    Claims("negative", {"president", "elected"}, Cites("Pasal 1")) }

MCQuestions == Structural \cup Instruments \cup Related \cup Factual \cup Worded
MCFilters == {None, "current", "original", Invalid}

\* A good corpus but for two relations of one record, each on a line of its own, and
\* the questions that ask for relations.
MCRelationStores == <<[Good EXCEPT !.edges = Shared.edges]>>
=============================================================================
