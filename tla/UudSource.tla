------------------------------ MODULE UudSource ------------------------------
(***************************************************************************)
(* The extraction of the UUD source documents.  Three readers look at the  *)
(* same page: pages.jsonl has its text by lines, rawdict has the lines as  *)
(* they are drawn, with their characters, and "words" has the words as     *)
(* they lie on the page.  They may disagree on where a line ends, and the  *)
(* whole grounding of the corpus consists of finding a text of the first   *)
(* reader again in what the other two have.                                *)
(*                                                                         *)
(* A text is a sequence of words, a word is an opaque value and KindOf     *)
(* tells what a word that begins a line announces.  A document has one     *)
(* page.                                                                   *)
(***************************************************************************)
EXTENDS Integers, FiniteSets, Sequences, SequencesExt, Rows

CONSTANTS
    Words,      \* the words that occur in documents
    KindOf      \* [Words -> Kinds]

Kinds == {"PEMBUKAAN", "BAB", "ATURAN", "Pasal", "Ayat", "Stop", "marker", "deleted",
          "furniture", "effective", "chair", "date", "becomes", "must", "end", "body"}

ASSUME KindsAssumption == KindOf \in [Words -> Kinds]

None == <<>>

(* [role, lines, drawn, block, wordless, layer, inserted, curated, meta,   *)
(* conflicts, reviews]:                                                    *)
(* the lines of the page text and of the drawing, the block each drawn     *)
(* line is in, the drawn lines whose words carry no box, whether the text  *)
(* layer can be read, and what specs.py says of the document: the BABs it  *)
(* inserts with their Pasals, the spans of lines that are parts of the     *)
(* amending instrument, and the line its metadata block starts at (0: it   *)
(* has none); the conflicts of the source that are known, and what the     *)
(* reviewers have decided on drawn lines.                                  *)
Semantic(text) == AtPlaces(text, {k \in DOMAIN text : KindOf[text[k]] # "marker"})

Page(d) == [i \in DOMAIN d.lines |-> Semantic(d.lines[i])]

(* The drawn lines that still have a text once the markers are gone.       *)
Drawn(d) ==
    IF d.layer # "good" THEN {}
    ELSE {i \in DOMAIN d.drawn : Semantic(d.drawn[i]) # <<>>}

Text(d, i) == Semantic(d.drawn[i])

Flat(texts) == FlattenSeq(texts)

Ordered(S, Before(_, _)) ==
    [k \in 1 .. Cardinality(S) |-> CHOOSE x \in S : Cardinality({y \in S : Before(y, x)}) = k - 1]
Ascending(S) == Ordered(S, <)

------------------------------------------------------------------------------
(* Spans: one for each drawn line with a text; their offsets count through *)
(* the page, one separator between two lines.                              *)
SumOver(S, Op(_)) == FoldSet(LAMBDA i, sum : sum + Op(i), 0, S)

Span(d, i) ==
    LET before == {j \in Drawn(d) : j < i}
        start == SumOver(before, LAMBDA j : Len(Text(d, j))) + Cardinality(before)
    IN  [id |-> <<d.role, i>>, role |-> d.role, text |-> Text(d, i), object |-> d.block[i],
         start |-> start, end |-> start + Len(Text(d, i))]

PageTextSpans(d) == [k \in 1 .. Cardinality(Drawn(d)) |-> Span(d, Ascending(Drawn(d))[k])]

(* Raw spans: a drawn line is cut before and after every marker.  Only a   *)
(* piece that is no marker and still has a text may be cited; it has its   *)
(* own offsets in the stream of semantic pieces.                           *)
Segments(text) ==
    LET marks == {i \in DOMAIN text : KindOf[text[i]] = "marker"}
        cuts == Ascending({0, Len(text)} \cup marks \cup {i - 1 : i \in marks})
    IN  {[from |-> cuts[k], to |-> cuts[k + 1],
          text |-> SubSeq(text, cuts[k] + 1, cuts[k + 1]),
          marker |-> cuts[k + 1] \in marks] : k \in 1 .. Len(cuts) - 1}

RawSourceSpans(d) ==
    LET pieces == {p \in UNION {{i} \X Segments(d.drawn[i]) : i \in DOMAIN d.drawn} :
                       d.layer = "good"}
        Before(p) == {q \in pieces : /\ Semantic(q[2].text) # <<>>
                                     /\ \/ q[1] < p[1]
                                        \/ q[1] = p[1] /\ q[2].to <= p[2].from}
        Start(p) == IF Semantic(p[2].text) = <<>> THEN 0
                    ELSE SumOver(Before(p), LAMBDA q : Len(q[2].text)) + Cardinality(Before(p))
    IN  {[id |-> <<d.role, p[1], p[2].from>>, role |-> d.role, object |-> d.block[p[1]],
          from |-> p[2].from, to |-> p[2].to, raw |-> p[2].text,
          marker |-> p[2].marker, semantic |-> Semantic(p[2].text),
          eligible |-> ~p[2].marker /\ Semantic(p[2].text) # <<>>,
          start |-> Start(p), end |-> Start(p) + Len(Semantic(p[2].text))] : p \in pieces}

(* The objects of the page: its blocks of lines and one picture.  When the *)
(* text layer cannot be read there is one object that says so.             *)
SourceObjects(d) ==
    IF d.layer = "unreadable"
    THEN {[role |-> d.role, type |-> "error", block |-> 0]}
    ELSE {[role |-> d.role, type |-> "text", block |-> b] : b \in ToSet(d.block)}
         \cup {[role |-> d.role, type |-> "picture", block |-> 0]}

------------------------------------------------------------------------------
(* Finding a text on the page.  A run of drawn lines that together say the *)
(* words of the text is taken first; otherwise the page is walked once and *)
(* a drawn line taken that fits the next line of the text, until none is   *)
(* left.                                                                   *)
Matching(rows, lines) ==
    LET n == Len(rows)
        found == {r \in (1 .. n) \X (1 .. n) :
                     r[1] <= r[2] /\ Flat([k \in 1 .. r[2] - r[1] + 1 |-> rows[r[1] + k - 1].text]) = Flat(lines)}
    IN  IF Flat(lines) = <<>> \/ found = {} THEN <<>>
        ELSE LET first == CHOOSE r \in found : \A s \in found : r[1] <= s[1]
             IN  SubSeq(rows, first[1], first[2])

InOrder(rows, lines, Fits(_, _)) ==
    LET wanted == Select(lines, LAMBDA t : t # <<>>)
        Fitting(found, row) == Len(found) < Len(wanted) /\ Fits(wanted[Len(found) + 1], row.text)
        found[n \in 0 .. Len(rows)] ==
            IF n = 0 THEN <<>>
            ELSE IF Fitting(found[n - 1], rows[n]) THEN Append(found[n - 1], rows[n]) ELSE found[n - 1]
    IN  IF Len(found[Len(rows)]) = Len(wanted) THEN found[Len(rows)] ELSE <<>>

Same(wanted, text) == wanted = text

Within(small, big) ==
    \E k \in 1 .. Len(big) - Len(small) + 1 : SubSeq(big, k, k + Len(small) - 1) = small

FirstOf(a, b) == IF a # <<>> THEN a ELSE b

Lines(spans) == [k \in DOMAIN spans |-> spans[k].id[2]]

Found(d, lines) ==
    LET rows == PageTextSpans(d) IN Lines(FirstOf(Matching(rows, lines), InOrder(rows, lines, Same)))

(* The words on the page that have a box, with the drawn line they lie on. *)
WordBoxes(d) ==
    Flat([i \in DOMAIN d.drawn |->
             IF i \in d.wordless THEN <<>>
             ELSE [k \in DOMAIN d.drawn[i] |->
                      [word |-> d.drawn[i][k], line |-> i, at |-> <<i, k>>]]])

(* A run of words that says a text: the one nearest to a reference line,   *)
(* or the first one where there is no reference.  Markers have no letters. *)
AlignWords(d, text, near) ==
    LET all == WordBoxes(d)
        boxes == SelectSeq(all, LAMBDA b : KindOf[b.word] # "marker")
        n == Len(text)
        Says(s) == \A k \in 1 .. n : boxes[s + k - 1].word = text[k]
        Gap(s) == LET gap == boxes[s].line - near IN IF gap < 0 THEN -gap ELSE gap
        found == {s \in 1 .. Len(all) : s + n - 1 <= Len(boxes) /\ Says(s)}
    IN  IF n = 0 \/ found = {} THEN <<>>
        ELSE LET s == CHOOSE s \in found : \A t \in found :
                          \/ near # 0 /\ Gap(s) < Gap(t)
                          \/ (near = 0 \/ Gap(s) = Gap(t)) /\ s <= t
             IN  [k \in 1 .. n |-> boxes[s + k - 1]]

(* Boxes are content-addressed: two boxes with one geometry are one row.   *)
LineBox(d, i) ==
    [role |-> d.role, place |-> "line", at |-> {<<i, 0>>}, text |-> Text(d, i), exact |-> TRUE]
WordsBox(d, boxes) ==
    [role |-> d.role, place |-> "words", at |-> {b.at : b \in ToSet(boxes)},
     text |-> [k \in DOMAIN boxes |-> boxes[k].word], exact |-> TRUE]
PageBox(d, lines) ==
    [role |-> d.role, place |-> "page", at |-> {}, text |-> Flat(lines), exact |-> FALSE]

(* Boxes of a text; without a match, the page as a whole.                  *)
TextBoxes(d, lines) ==
    LET match == Found(d, lines)
    IN  IF match # <<>> THEN [k \in DOMAIN match |-> LineBox(d, match[k])]
        ELSE <<PageBox(d, lines)>>

(* The boxes of one row decide its precision together.                     *)
AllExact(boxes) == boxes # <<>> /\ \A k \in DOMAIN boxes : boxes[k].exact
==============================================================================
