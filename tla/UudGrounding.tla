---------------------------- MODULE UudGrounding ----------------------------
(***************************************************************************)
(* What the built rows stand on.  Chunks, units, metadata and source       *)
(* conflicts are grounded in the spans of the page, every span is then     *)
(* disposed of by the most specific row that refers to it, and the blocks  *)
(* of the page by their spans.  Rows name spans by the drawn line, as a    *)
(* sequence in the order in which the code lists them.                     *)
(***************************************************************************)
EXTENDS UudStructure

(* A text that closes an instrument may be cut in the middle of a line,    *)
(* which is known and accepted; a unit that repeats a misprint of the      *)
(* source is kept as its trace only.                                       *)
Segmentation == {"decision", "effective"}

ReviewCategory(u) ==
    CASE u.type \in Segmentation -> "segmentation"
      [] u.type \notin Segmentation /\ u.anomaly -> "conflict"
      [] OTHER -> ""

ApplyReview(row, u) ==
    LET category == ReviewCategory(u)
    IN  IF category = "" THEN row
        ELSE IF row.status = "active_historical" THEN [row EXCEPT !.allowed = FALSE]
        ELSE [row EXCEPT !.failure = category, !.loadable = FALSE,
                 !.allowed = @ /\ category = "segmentation",
                 !.spans = IF category = "segmentation" THEN @ ELSE <<>>]

(* A loose match takes the spans that contain the text, or the ones that   *)
(* contain its lines in order.                                             *)
SpanMatch(d, lines, loose) ==
    LET rows == PageTextSpans(d)
        containing == SelectSeq(rows, LAMBDA s : Flat(lines) # <<>> /\ Within(Flat(lines), s.text))
        contained == FirstOf(containing, InOrder(rows, lines, Within))
    IN  Lines(FirstOf(Matching(rows, lines),
                      FirstOf(IF loose THEN contained ELSE <<>>, InOrder(rows, lines, Same))))

\* Mutant: the last lines that say the quote one by one are taken.
EvidenceInLastLines(d, e) ==
    With([spans |-> Lines(SelectSeq(PageTextSpans(d), LAMBDA s : s.text \in ToSet(e.quote)))], e)

GroundedEvidence(d, e) == With([spans |-> SpanMatch(d, e.quote, FALSE)], e)

EvidenceFor(evidence, id) == {e \in evidence : e.unit = id}
SpansOf(evidence) == IF evidence = {} THEN <<>> ELSE (CHOOSE e \in evidence : TRUE).spans

(* A chunk without spans of its own takes those of its evidence.           *)
GroundedChunk(d, chunk, u, evidence) ==
    LET own == EvidenceFor(evidence, u.id)
        loose == own = {} /\ ReviewCategory(u) = "segmentation"
        spans == FirstOf(SpanMatch(d, chunk.text, loose), SpansOf(own))
        loadable == u.loadable /\ own # {} /\ spans # <<>>
        provision == /\ loadable /\ u.type = "bab" /\ u.role # "current"
                     /\ \E k \in DOMAIN u.text : SaysDeleted(u.text[k])
    IN  ApplyReview(With([spans |-> spans, loadable |-> loadable,
                          failure |-> IF spans = <<>> THEN "unmatched" ELSE chunk.failure,
                          allowed |-> chunk.allowed \/ provision,
                          status |-> IF provision THEN "active" ELSE chunk.status], chunk), u)

\* Mutant: only a Pasal is looked at for its parts.
HasPasalParts(u, units) == u.type = "pasal" /\ \E v \in units : v.parent = u.id

(* A unit with units under it stands on the spans of its evidence, and it  *)
(* still does when the review has just taken them away.                    *)
HasParts(u, units) == \E v \in units : v.parent = u.id

GroundedUnit(d, u, units, chunk, evidence) ==
    LET own == EvidenceFor(evidence, u.id)
        loose == own = {} /\ ReviewCategory(u) = "segmentation"
        matched == SpanMatch(d, u.text, loose)
        aggregate == IF HasParts(u, units) THEN SpansOf(own) ELSE <<>>
        historical == IF u.historical THEN SpansOf(own) ELSE <<>>
        spans == FirstOf(aggregate, FirstOf(matched, historical))
        row == With([spans |-> spans, status |-> IF u.historical THEN "active_historical" ELSE "source",
                     failure |-> IF spans = <<>> THEN "unmatched" ELSE "", allowed |-> TRUE,
                     loadable |-> u.loadable /\ spans # <<>> /\ (own # {} \/ chunk.loadable)], u)
    IN  IF aggregate = <<>> THEN ApplyReview(row, u)
        ELSE [ApplyReview(row, u) EXCEPT !.spans = aggregate, !.failure = ""]

ApplyChunkGrounding(d, units, chunks, evidence) ==
    LET grounded == {GroundedEvidence(d, e) : e \in evidence}
        ready == [id \in DOMAIN chunks |->
                     GroundedChunk(d, chunks[id], CHOOSE u \in units : u.id = id, grounded)]
    IN  [evidence |-> grounded, chunks |-> ready,
         units |-> {GroundedUnit(d, u, units, ready[u.id], grounded) : u \in units}]

\* Mutant: evidence that is a part of other evidence is not published.
RetrievalOfOutermost(evidence, chunks) ==
    {[evidence |-> e.unit, spans |-> e.spans, text |-> e.quote] :
        e \in {e \in evidence : e.exact /\ e.shown /\ e.spans # <<>> /\ chunks[e.unit].loadable
                                /\ \A f \in evidence \ {e} : ~(ToSet(e.spans) \subseteq ToSet(f.spans))}}

(* A retrieval unit is published for evidence that is drawn exactly, has   *)
(* spans and belongs to a chunk that may be loaded.                        *)
RetrievalUnits(evidence, chunks) ==
    {[evidence |-> e.unit, spans |-> e.spans, text |-> e.quote] :
        e \in {e \in evidence : e.exact /\ e.shown /\ e.spans # <<>> /\ e.boxes # <<>>
                                /\ chunks[e.unit].loadable}}

------------------------------------------------------------------------------
(* Metadata: a block of the page, and fields quoted from the evidence of   *)
(* the instrument's parts.  A quote is found again as a run of rows, or as *)
(* all rows that say one of its lines.                                     *)
AnyRow(rows, lines) ==
    LET wanted == {lines[k] : k \in DOMAIN lines} \ {<<>>}
        said == {rows[k].text : k \in DOMAIN rows}
    IN  IF wanted # {} /\ wanted \subseteq said THEN SelectSeq(rows, LAMBDA r : r.text \in wanted)
        ELSE <<>>

RowsSaying(rows, lines) == FirstOf(Matching(rows, lines), AnyRow(rows, lines))

(* The spans that hold a quote which is no line of its own.                *)
SupportingSpans(d, lines) ==
    LET rows == PageTextSpans(d)
        quote == Flat(lines)
        direct == SelectSeq(rows, LAMBDA s : Within(quote, s.text))
        Joined(a, b) == Flat([k \in 1 .. b - a + 1 |-> rows[a + k - 1].text])
        runs == {r \in (1 .. Len(rows)) \X (1 .. Len(rows)) : r[1] <= r[2] /\ Within(quote, Joined(r[1], r[2]))}
        first == CHOOSE r \in runs : \A s \in runs : r[1] < s[1] \/ (r[1] = s[1] /\ r[2] <= s[2])
    IN  IF quote = <<>> THEN <<>>
        ELSE IF direct # <<>> THEN direct
        ELSE IF runs = {} THEN <<>> ELSE SubSeq(rows, first[1], first[2])

(* The words of a quote, nearest to the first span that contains it.       *)
QuoteWords(d, lines) ==
    LET near == SelectSeq(PageTextSpans(d), LAMBDA s : Within(Flat(lines), s.text))
        words == AlignWords(d, Flat(lines), IF near = <<>> THEN 0 ELSE near[1].id[2])
    IN  IF words = <<>> THEN <<>> ELSE <<WordsBox(d, words)>>

(* A donor that is no evidence is replaced by evidence whose quote holds   *)
(* the quote or is held by it, and otherwise by any evidence there is.     *)
ResolveDonor(donor, quote, evidence) ==
    LET Holds(e) == Within(Flat(quote), Flat(e.quote)) \/ Within(Flat(e.quote), Flat(quote))
        exact == {e \in evidence : Flat(quote) # <<>> /\ Holds(e)}
        First(es) == CHOOSE e \in es : \A f \in es : e.unit[2] <= f.unit[2]
        Size(e) == Len(Flat(e.quote))
    IN  IF \E e \in evidence : e.unit = donor THEN donor
        ELSE IF exact # {} THEN First({e \in exact : \A f \in exact : Size(f) <= Size(e)}).unit
        ELSE IF evidence # {} THEN First(evidence).unit ELSE donor

BlockId(d) == <<d.role, 0>>

MetadataBlock(d) ==
    LET text == SelectSeq(SubSeq(Page(d), d.meta, Len(d.lines)), LAMBDA l : l # <<>>)
    IN  [field |-> "block", item |-> 0, quote |-> <<Flat(text)>>, donor |-> BlockId(d)]

(* The people who sign: after each word that is an office, a name.  The    *)
(* quote of one is the line of the office and the lines of the name, each  *)
(* looked for after the last one found.                                    *)
Signatories(text) ==
    LET offices == {k \in DOMAIN text : KindOf[text[k]] = "chair" /\ k < Len(text)}
        NameEnd(k) == Min({j - 1 : j \in {j \in DOMAIN text : j > k /\ KindOf[text[j]] = "chair"}}
                          \cup {Len(text)})
        named == Ascending({k \in offices : NameEnd(k) > k})
    IN  [i \in DOMAIN named |-> [office |-> text[named[i]],
                                 name |-> SubSeq(text, named[i] + 1, NameEnd(named[i]))]]

SignatoryQuotes(lines, people) ==
    LET n == Len(lines)
        Spoken(p, from) == {r \in (from .. n) \X (1 .. n) :
                               /\ r[1] < r[2] /\ lines[r[1]] = <<p.office>>
                               /\ Flat(SubSeq(lines, r[1] + 1, r[2])) = p.name}
        First(S) == CHOOSE r \in S : \A s \in S : r[1] <= s[1]
        place[k \in 0 .. Len(people)] ==
            IF k = 0 THEN <<0, 0>>
            ELSE IF place[k - 1] = <<>> \/ Spoken(people[k], place[k - 1][2] + 1) = {} THEN <<>>
            ELSE First(Spoken(people[k], place[k - 1][2] + 1))
    IN  [k \in DOMAIN people |-> place[k]]

PartQuote(evidence, units, type) ==
    LET es == {e \in evidence : \E u \in units : u.id = e.unit /\ u.type = type}
    IN  IF es = {} THEN {} ELSE {CHOOSE e \in es : TRUE}

(* A name of the block that the signatories' own text does not spell in    *)
(* its lines stops the build.                                              *)
SignatoryMissing(d, units, evidence) ==
    /\ d.meta # 0 /\ d.role # "current"
    /\ \E e \in PartQuote(evidence, units, "signatories") :
           LET people == Signatories(MetadataBlock(d).quote[1])
           IN  \E k \in DOMAIN people : SignatoryQuotes(e.quote, people)[k] = <<>>

MetadataFields(d, units, evidence) ==
    LET Field(name, quote, donor) == [field |-> name, item |-> 0, quote |-> quote, donor |-> donor]
        Part(type) == PartQuote(evidence, units, type)
        Dated(lines) == SelectSeq(lines, LAMBDA l : \E k \in DOMAIN l : KindOf[l[k]] = "date")
        DateLine(lines) == IF Dated(lines) = <<>> THEN lines ELSE <<Dated(lines)[1]>>
        people == Signatories(MetadataBlock(d).quote[1])
        Person(e, k) == LET at == SignatoryQuotes(e.quote, people)[k] IN SubSeq(e.quote, at[1], at[2])
        block == SubSeq(Page(d), d.meta, Len(d.lines))
        dated == Dated(block) # <<>>
    IN  IF d.meta = 0 THEN {}
        ELSE IF d.role = "current"
        THEN {Field("institution", SubSeq(block, 1, 1), BlockId(d)),
              Field("title", Tail(block), BlockId(d)),
              Field("publication", MetadataBlock(d).quote, BlockId(d))}
        ELSE {Field("penetapan", e.quote, e.unit) : e \in Part("determination")}
             \cup {Field("date", DateLine(e.quote), e.unit) : e \in {e \in Part("determination") : dated}}
             \cup {Field("institution", SubSeq(e.quote, 1, 2), e.unit) : e \in Part("signatories")}
             \cup {Field("signatories", e.quote, e.unit) : e \in Part("signatories")}
             \cup (UNION {{[Field("person", Person(e, k), e.unit) EXCEPT !.item = k] : k \in DOMAIN people} :
                            e \in Part("signatories")})
             \cup {Field("decision", e.quote, e.unit) : e \in Part("decision")}
             \cup {Field("effective", u.text, u.id) : u \in {v \in units : v.type = "effective"}}

(* One row: boxes of the donor that say the quote, else the drawn boxes of *)
(* its spans where some evidence has them, else its words.                 *)
GroundMetadata(d, f, evidence) ==
    LET isBlock == f.field = "block"
        donor == IF isBlock THEN f.donor ELSE ResolveDonor(f.donor, f.quote, evidence)
        given == {e \in evidence : e.unit = donor}
        own == IF isBlock \/ given = {} \/ \E e \in given : ~e.exact THEN <<>>
               ELSE RowsSaying((CHOOSE e \in given : TRUE).boxes, f.quote)
        exactSpans == RowsSaying(PageTextSpans(d), f.quote)
        registry == UNION {ToSet(e.boxes) : e \in evidence}
        line == [k \in DOMAIN exactSpans |-> LineBox(d, exactSpans[k].id[2])]
        reused == IF d.role = "current" /\ ~isBlock THEN <<>>
                  ELSE SelectSeq(line, LAMBDA b : b \in registry)
        spans == IF isBlock THEN exactSpans ELSE FirstOf(exactSpans, SupportingSpans(d, f.quote))
        boxes == FirstOf(own, FirstOf(reused, QuoteWords(d, f.quote)))
    IN  [id |-> <<d.role, f.field, f.item>>, role |-> d.role, field |-> f.field, item |-> f.item, quote |-> f.quote,
         donor |-> donor, spans |-> Lines(spans), boxes |-> boxes, exact |-> boxes # <<>> /\ spans # <<>>]

(* Metadata is rebuilt twice; in between, the block is given a donor.      *)
EnsureSource(d, rows, evidence) ==
    {IF r.field = "block" THEN [r EXCEPT !.donor = ResolveDonor(@, r.quote, evidence)] ELSE r : r \in rows}

RebuildMetadata(d, units, rows, evidence) ==
    LET block == IF rows # {} THEN {r \in rows : r.field = "block"}
                 ELSE IF d.meta = 0 THEN {} ELSE {MetadataBlock(d)}
    IN  {GroundMetadata(d, f, evidence) :
            f \in {[field |-> b.field, item |-> 0, quote |-> b.quote, donor |-> b.donor] : b \in block}
                  \cup MetadataFields(d, units, evidence)}
=============================================================================
