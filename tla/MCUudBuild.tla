----------------------------- MODULE MCUudBuild -----------------------------
(* A current text, an amending instrument and the ways in which a page is  *)
(* drawn that the extraction has met: a line drawn in two, two lines drawn *)
(* as one, a line that is not drawn, one whose words have no boxes, a      *)
(* footnote marker at the end or in the middle of a line.                  *)
EXTENDS UudGate

MCKindOf ==
    [BAB1 |-> "BAB", BAB2 |-> "BAB", P1 |-> "Pasal", P2 |-> "Pasal", P3 |-> "Pasal", A1 |-> "Ayat", A2 |-> "Ayat",
     stop |-> "Stop", aa |-> "body", bb |-> "body", cc |-> "body", dd |-> "body", nn |-> "body", rule |-> "body",
     gone |-> "deleted", mark |-> "marker", foot |-> "furniture", from |-> "effective",
     chair |-> "chair", day |-> "date", into |-> "becomes", shall |-> "must", dot |-> "end"]
MCWords == DOMAIN MCKindOf

Layout(kind, at) == [kind |-> kind, at |-> at]
Layouts(n) == {Layout("same", 0)} \cup
    {Layout(kind, i) : kind \in {"split", "merged", "lost", "wordless", "marked", "marked inside"}, i \in 1 .. n}

DrawnAs(lines, l) ==
    LET i == l.at
        head(k) == SubSeq(lines, 1, k)
        tail(k) == SubSeq(lines, k, Len(lines))
    IN  CASE l.kind = "split" /\ Len(lines[i]) > 1
                 -> head(i - 1) \o <<SubSeq(lines[i], 1, 1), Tail(lines[i])>> \o tail(i + 1)
          [] l.kind = "merged" /\ i < Len(lines)
                 -> head(i - 1) \o <<lines[i] \o lines[i + 1]>> \o tail(i + 2)
          [] l.kind = "lost" -> head(i - 1) \o tail(i + 1)
          [] l.kind = "marked" -> head(i - 1) \o <<lines[i] \o <<"mark">> >> \o tail(i + 1)
          [] l.kind = "marked inside" -> head(i - 1) \o <<SubSeq(lines[i], 1, 1) \o <<"mark">> \o Tail(lines[i])>> \o tail(i + 1)
          [] OTHER -> lines

Laid(d, l) ==
    LET drawn == DrawnAs(d.lines, l)
    IN  [d EXCEPT !.drawn = drawn, !.block = [k \in DOMAIN drawn |-> IF k < 3 THEN 1 ELSE 2],
                  !.wordless = IF l.kind = "wordless" THEN {l.at} ELSE {}]

NoBabs == [x \in {} |-> {}]

Part(type, label, from, to) ==
    [type |-> type, label |-> label, from |-> from, to |-> to, loadable |-> TRUE, historical |-> TRUE, anomaly |-> FALSE]

Blank(role) ==
    [role |-> role, lines |-> <<>>, drawn |-> <<>>, block |-> <<>>, wordless |-> {}, layer |-> "good",
     inserted |-> NoBabs, curated |-> {}, meta |-> 0, conflicts |-> {}, reviews |-> {}]

Current ==
    [Blank("current") EXCEPT
     !.meta = 8,
     !.lines = << <<"foot">>, <<"BAB1">>, <<"P1">>, <<"A1", "aa", "shall", "bb", "dot">>, <<"A2", "cc">>,
                  <<"P2">>, <<"dd", "shall", "aa">>, <<"stop", "day">>, <<"nn">> >>]

(* A deleted chapter, two provisions that say the same words, and a rule   *)
(* drawn under the last one that a reviewer has excluded from the law.     *)
Repeating ==
    [Blank("current") EXCEPT
     !.reviews = {[role |-> "current", line |-> 9, force |-> "canonical_normative",
                   authority |-> "none", excluded |-> TRUE]},
     !.lines = << <<"BAB1">>, <<"gone">>, <<"BAB2">>, <<"P1">>, <<"A1", "aa">>, <<"P2">>, <<"A1", "aa">>,
                  <<"A2", "bb", "shall", "cc", "dot", "dd">>, <<"rule">> >>]

Amendment ==
    [Blank("amendment") EXCEPT
     !.meta = 6,
     !.curated = {Part("renumbering", "c", 3, 3), Part("decision", "decision", 4, 4),
                  Part("determination", "determination", 6, 6), Part("signatories", "signatories", 7, 8)},
     !.lines = << <<"P1">>, <<"aa", "bb">>, <<"stop", "P1", "into", "P2">>, <<"stop", "cc">>,
                  <<"foot">>, <<"day", "dd">>, <<"chair">>, <<"nn">> >>]

(* An inserted chapter, a misprint, a rule on the effect with its review.  *)
Inserting ==
    [Blank("amendment") EXCEPT
     !.inserted = [BAB2 |-> {"P3"}],
     !.curated = {Part("scope", "scope", 1, 1), Part("effective", "effective", 7, 7)},
     !.conflicts = {[id |-> <<"conflict", 1>>, anchors |-> {"nn"}, refs |-> {<<"amendment", 5>>}, typed |-> FALSE]},
     !.reviews = {[role |-> "amendment", line |-> 7, force |-> "amendment_instrument",
                   authority |-> "structural_context", excluded |-> FALSE]},
     !.lines = << <<"stop", "P3", "cc">>, <<"BAB2">>, <<"P3">>, <<"A1", "aa", "shall", "dot", "bb">>,
                  <<"P2">>, <<"cc", "nn">>, <<"from", "dd">> >>]

AsIs(d) == Laid(d, Layout("same", 0))
Original == [Blank("original") EXCEPT !.lines = << <<"P1">>, <<"aa">> >>]

Variants(d) == {Laid(d, l) : l \in Layouts(Len(d.lines))} \cup {[AsIs(d) EXCEPT !.layer = l] : l \in {"broken", "unreadable"}}

MCCorpora ==
    LET with(d) == IF d.role = "current" THEN AsIs(Amendment) ELSE AsIs(Current)
    IN  {{d, with(d), AsIs(Original)} : d \in Variants(Current) \cup Variants(Repeating)
                                           \cup Variants(Amendment) \cup Variants(Inserting)}

(* The builds in which a row may be left wrong.                            *)
MCSuspect ==
    {{AsIs(Current), AsIs(Amendment), AsIs(Original)}, {AsIs(Current), AsIs(Inserting), AsIs(Original)},
     {AsIs(Current), Laid(Amendment, Layout("wordless", 3)), AsIs(Original)}}
=============================================================================
