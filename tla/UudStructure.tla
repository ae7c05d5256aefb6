---------------------------- MODULE UudStructure ----------------------------
(***************************************************************************)
(* The legal units of a document and what is made of them: chunks, and     *)
(* evidence with its boxes.  A unit runs from the line that announces it   *)
(* to the next line that ends it; a BAB therefore contains its Pasals and  *)
(* a Pasal its Ayats, in text as well as in the parent relation.           *)
(***************************************************************************)
EXTENDS UudSource

Kind(d, i) ==
    IF Page(d)[i] = <<>> THEN "body" ELSE KindOf[Page(d)[i][1]]
Label(d, i) == Page(d)[i][1]

Heads == {"PEMBUKAAN", "BAB", "ATURAN"}
Announced == Heads \cup {"Pasal", "Ayat"}
Tokens(d) == {i \in DOMAIN d.lines : Kind(d, i) \in Announced \cup {"Stop"}}

Inserted(d, i) == Label(d, i) \in DOMAIN d.inserted

TypeOf(kind) ==
    CASE kind = "PEMBUKAAN" -> "pembukaan" [] kind = "BAB" -> "bab"
      [] kind = "ATURAN" -> "aturan" [] kind = "Pasal" -> "pasal" [] OTHER -> "ayat"

StoppedBy(type) ==
    CASE type = "pasal" -> Heads \cup {"Stop", "Pasal"}
      [] type = "ayat" -> Heads \cup {"Stop", "Pasal", "Ayat"}
      [] OTHER -> Heads \cup {"Stop"}

UnitEnd(d, i) ==
    LET stops == {j \in Tokens(d) : j > i /\ Kind(d, j) \in StoppedBy(TypeOf(Kind(d, i)))}
    IN  IF stops = {} THEN Len(d.lines) ELSE Min(stops) - 1

(* The line of the BAB or ATURAN a line stands under, 0 when there is      *)
(* none.  A BAB that specs.py inserts stands over its own Pasals only, and *)
(* over nothing after the first Pasal that is not one of them.             *)
HeadOf(d, i) ==
    LET heads == {j \in Tokens(d) : j <= i /\ Kind(d, j) \in Heads}
        h == Max(heads)
        Foreign(j) == /\ Kind(d, j) = "Pasal" /\ h < j /\ j <= i
                      /\ Label(d, j) \notin d.inserted[Label(d, h)]
    IN  IF heads = {} THEN 0
        ELSE IF Kind(d, h) = "PEMBUKAAN" THEN 0
        ELSE IF Inserted(d, h) /\ \E j \in Tokens(d) : Foreign(j) THEN 0
        ELSE h

PasalOf(d, i) ==
    LET after == {j \in Tokens(d) : j <= i /\ Kind(d, j) \in Heads}
        pasals == {j \in Tokens(d) : /\ j <= i /\ Kind(d, j) = "Pasal"
                                     /\ \A h \in after : h < j}
    IN  IF pasals = {} THEN 0 ELSE Max(pasals)

(* One unit for each announcing line, with the parents the parse knows.    *)
SourceUnit(d, i) ==
    LET type == TypeOf(Kind(d, i))
        head == HeadOf(d, i)
        known == IF head = 0 \/ Inserted(d, head) THEN 0 ELSE head
        parents == CASE type = "pasal" -> <<known>>
                     [] type = "ayat" -> <<known, PasalOf(d, i)>>
                     [] OTHER -> <<>>
    IN  [id |-> <<d.role, i>>, role |-> d.role, type |-> type, label |-> Label(d, i),
         text |-> SubSeq(Page(d), i, UnitEnd(d, i)),
         parents |-> SelectSeq(parents, LAMBDA p : p # 0),
         loadable |-> TRUE, historical |-> FALSE, anomaly |-> FALSE]

(* A BAB that specs.py inserts: its text runs to its first Pasal, and it   *)
(* becomes a parent of its Pasals and of their Ayats.                      *)
InsertedUnits(d) ==
    {[SourceUnit(d, i) EXCEPT !.id = <<d.role, 100 + i>>,
          !.text = SubSeq(Page(d), i, Min({j \in Tokens(d) : j > i} \cup {Len(d.lines) + 1}) - 1)] :
        i \in {j \in Tokens(d) : Inserted(d, j)}}

Adopt(d, u) ==
    LET owner == {v \in InsertedUnits(d) :
                      \/ u.type = "pasal" /\ u.label \in d.inserted[v.label]
                      \/ u.type = "ayat" /\ \E k \in DOMAIN u.parents :
                             Label(d, u.parents[k]) \in d.inserted[v.label]}
    IN  IF owner = {} THEN u
        ELSE [u EXCEPT !.parents = <<(CHOOSE v \in owner : TRUE).id[2]>> \o @]

(* The parts of an amending instrument, at the lines specs.py gives, cut   *)
(* from the unit whose text had run into them.                             *)
InstrumentUnits(d) ==
    {[id |-> <<d.role, 200 + c.from>>, role |-> d.role, type |-> c.type, label |-> c.label,
      text |-> SubSeq(Page(d), c.from, c.to), parents |-> <<>>,
      loadable |-> c.loadable, historical |-> c.historical, anomaly |-> c.anomaly] : c \in d.curated}

Trimmed(d, u) ==
    LET cuts == {c.from : c \in d.curated} \cap (u.id[2] + 1 .. u.id[2] + Len(u.text) - 1)
    IN  IF cuts = {} THEN u
        ELSE [u EXCEPT !.text = SubSeq(u.text, 1, Min(cuts) - u.id[2])]

(* A BAB whose provision was deleted keeps its heading; the word that says *)
(* so becomes a provision of its own under it.                             *)
SaysDeleted(line) == line # <<>> /\ KindOf[line[1]] = "deleted"

DeletedUnit(u) ==
    LET said == Select(u.text, SaysDeleted)
    IN  [u EXCEPT !.id = <<u.role, 300 + u.id[2]>>, !.type = "ayat", !.label = "Dihapus",
                  !.text = <<said[1]>>, !.parents = <<u.id[2]>>]

SplitDeleted(units) ==
    LET split == {u \in units : /\ u.type = "bab"
                                /\ \E k \in DOMAIN u.text : SaysDeleted(u.text[k])}
    IN  (units \ split)
        \cup {[u EXCEPT !.text = Select(u.text, LAMBDA l : ~SaysDeleted(l))] : u \in split}
        \cup {DeletedUnit(u) : u \in split}

(* The structural contract leaves one parent, and the builders after it    *)
(* see no other: for an Ayat the Pasal among the parents that were read,   *)
(* for every other unit the last of them.                                  *)
CanonicalParent(u, units) ==
    LET named == {v \in units : v.role = u.role /\ \E k \in DOMAIN u.parents : v.id[2] = u.parents[k]}
        wanted == {v \in named : u.type = "ayat" /\ v.type = "pasal"}
    IN  IF named = {} THEN None
        ELSE IF wanted # {} THEN (CHOOSE v \in wanted : TRUE).id
        ELSE <<u.role, Last(SelectSeq(u.parents, LAMBDA p : \E v \in named : v.id[2] = p))>>

LegalUnits(d) ==
    LET parsed == {Trimmed(d, Adopt(d, SourceUnit(d, i))) :
                       i \in {j \in Tokens(d) : Kind(d, j) # "Stop" /\ ~Inserted(d, j)}}
        all == SplitDeleted(parsed \cup InsertedUnits(d) \cup InstrumentUnits(d))
    IN  {With([parent |-> CanonicalParent(u, all)], u) : u \in all}

Children(u, units) == {v \in units : v.parent = u.id}

Descendants(u, units) ==
    LET below[n \in 0 .. 3] ==
            IF n = 0 THEN Children(u, units)
            ELSE below[n - 1] \cup UNION {Children(v, units) : v \in below[n - 1]}
    IN  below[3]

------------------------------------------------------------------------------
(* Chunks: one for each unit, with the status that decides who may use it. *)
HasAyat(u) == \E k \in DOMAIN u.text : u.text[k] # <<>> /\ KindOf[u.text[k][1]] = "Ayat"
Deleted(u) == u.type = "bab" /\ u.role = "current"
              /\ \E k \in DOMAIN u.text : SaysDeleted(u.text[k])

ChunkStatus(u) ==
    IF ~u.loadable THEN "non_runtime"
    ELSE IF u.historical THEN "active_historical"
    ELSE IF ~Deleted(u) /\ (u.type \in {"bab", "aturan"} \/ (u.type = "pasal" /\ HasAyat(u)))
    THEN "context" ELSE "active"

Chunk(u) == [unit |-> u.id, text |-> u.text, status |-> ChunkStatus(u), failure |-> "",
             allowed |-> ChunkStatus(u) = "active"]

------------------------------------------------------------------------------
(* Evidence.  A unit with units under it is evidence for all of them: its  *)
(* text is its own and that of every child it does not yet contain.        *)
ByNumber(units) == Ordered(units, LAMBDA u, v : u.id[2] < v.id[2])

AggregateText(u, units) ==
    LET below == ByNumber(Children(u, units))
        Contained(text, v) == Flat(v.text) = <<>> \/ Within(Flat(v.text), Flat(text))
        text[n \in 0 .. Len(below)] ==
            IF n = 0 THEN u.text
            ELSE IF Contained(text[n - 1], below[n]) THEN text[n - 1] ELSE text[n - 1] \o below[n].text
    IN  text[Len(below)]

Admitted(u, chunk, units) ==
    LET below == Descendants(u, units) # {}
    IN  /\ u.type # "effective"
        /\ IF u.type = "bab" /\ ~below THEN \E k \in DOMAIN u.text : SaysDeleted(u.text[k])
           ELSE \/ below
                \/ u.type = "pasal" /\ HasAyat(u)
                \/ chunk.status \in {"active", "active_historical"}

(* Words recovered part by part, in the order of the page.  A part that is *)
(* not found at all is looked for by its first line, and skipped then.     *)
RecoveredWords(d, parts) ==
    LET FirstLine(p) == Select(p, LAMBDA l : l # <<>>)
        ByFirstLine(p) == IF FirstLine(p) = <<>> THEN <<>> ELSE AlignWords(d, FirstLine(p)[1], 0)
        Match(p) == FirstOf(AlignWords(d, Flat(p), 0), ByFirstLine(p))
        Earlier(b, c) == IF b.at[1] = c.at[1] THEN b.at[2] < c.at[2] ELSE b.at[1] < c.at[1]
    IN  Ordered(UNION {ToSet(Match(parts[k])) : k \in DOMAIN parts}, Earlier)

\* Mutant: boxes that are exact are taken for complete.
ExactIsComplete(boxes, text) == AllExact(boxes)

(* An aggregate is evidence only when its boxes say exactly its text.      *)
Complete(boxes, text) ==
    AllExact(boxes) /\ Flat([k \in DOMAIN boxes |-> boxes[k].text]) = Flat(text)

FirstComplete(drawn, recovered, text) ==
    IF Complete(drawn, text) THEN drawn
    ELSE IF Complete(recovered, text) THEN recovered ELSE <<>>

AggregateBoxes(d, u, units) ==
    LET Texts(us) == [k \in DOMAIN us |-> us[k].text]
        Recovered(words) == IF words = <<>> THEN <<>> ELSE <<WordsBox(d, words)>>
        text == AggregateText(u, units)
    IN  FirstComplete(TextBoxes(d, text),
                      Recovered(RecoveredWords(d, <<u.text>> \o Texts(ByNumber(Descendants(u, units))))), text)

(* The texts of a decision that specs.py lists are looked for by words.    *)
Recoverable == {"scope", "decision"}
TraceOnly == {"decision", "effective"}

UnitBoxes(d, u) ==
    LET drawn == TextBoxes(d, u.text)
        words == AlignWords(d, Flat(u.text), 0)
    IN  IF u.type \in Recoverable /\ ~AllExact(drawn) /\ words # <<>>
        THEN <<WordsBox(d, words)>> ELSE drawn

EvidenceOf(d, u, boxes) ==
    [unit |-> u.id, role |-> u.role, boxes |-> boxes,
     quote |-> [k \in DOMAIN boxes |-> boxes[k].text],
     exact |-> AllExact(boxes), shown |-> \E k \in DOMAIN boxes : boxes[k].exact,
     loadable |-> u.loadable, trace |-> u.type \in TraceOnly,
     candidate |-> u.type \in Recoverable]

(* The evidence of a document, and the chunks as building it leaves them:  *)
(* an aggregate that is evidence becomes active, one that is not records   *)
(* the failure and gives none.                                             *)
EvidenceOn(d, boxes, units, chunks) ==
    LET above == {u \in DOMAIN boxes : Descendants(u, units) # {}}
        failed == {u \in above : boxes[u] = <<>>}
        Settled(u) == IF u \notin above THEN chunks[u.id]
                      ELSE IF u \in failed THEN [chunks[u.id] EXCEPT !.failure = "aggregate"]
                      ELSE [chunks[u.id] EXCEPT !.allowed = TRUE,
                               !.status = IF u.role = "current" THEN "active" ELSE "active_historical"]
    IN  [evidence |-> {EvidenceOf(d, u, boxes[u]) : u \in DOMAIN boxes \ failed},
         chunks |-> [id \in DOMAIN chunks |-> Settled(CHOOSE u \in units : u.id = id)]]

BuildEvidence(d, units, chunks) ==
    LET Boxes(u) == IF Descendants(u, units) # {} THEN AggregateBoxes(d, u, units) ELSE UnitBoxes(d, u)
    IN  EvidenceOn(d, [u \in {u \in units : Admitted(u, chunks[u.id], units)} |-> Boxes(u)], units, chunks)
=============================================================================
