----------------------------- MODULE AnswerSession -----------------------------
(***************************************************************************)
(* A reader's session with one verified corpus: a question is asked, a     *)
(* clarification answered by one of the options it offered, and a support  *)
(* that came with a target opened in the viewer.  Every reply is what      *)
(* Ask computes; what ties the steps is that an option is resolved with    *)
(* the question it was offered for, and a target with the support it was   *)
(* registered for.                                                         *)
(***************************************************************************)
EXTENDS Answering

CONSTANTS Stores,     \* the corpora a session may run on
          Questions,
          Filters     \* the source_role filters a request may carry
ASSUME SessionAssumption == None \in Filters /\ Filters \subseteq Roles \cup {None, Invalid}
ASSUME StoresAssumption ==
    \A i \in DOMAIN Stores : Sound(Stores[i]) /\ SummaryIsUnsaid(Stores[i])
ASSUME QuestionsAssumption == None \notin Questions /\ \A q \in Questions : WellRead(q)

VARIABLES store,      \* index of the corpus
          question,   \* of the last request, None before the first
          filter,
          choice,     \* NoChoice, or the option the last request resolves
          reply,
          opened      \* the support opened last and what the viewer showed
vars == <<store, question, filter, choice, reply, opened>>

St == Stores[store]
NoReply == Reply(None, None, None, <<>>, <<>>)

Init ==
    /\ store \in DOMAIN Stores
    /\ question = None /\ filter = None /\ choice = NoChoice
    /\ reply = NoReply /\ opened = None

\* POST /ask
AskQuestion(q, f) ==
    /\ question = None
    /\ question' = q /\ filter' = f
    /\ reply' = Ask(St, q, f, NoChoice)
    /\ UNCHANGED <<store, choice, opened>>

\* POST /ask with the handle of an option: its question, filters given anew
Choose(option, f) ==
    /\ option \in ToSet(reply.options)
    /\ choice' = option /\ filter' = f
    /\ reply' = Ask(St, question, f, option)
    /\ UNCHANGED <<store, question, opened>>

\* GET /viewer with the target of a support
Open(support) ==
    /\ support \in ToSet(reply.supports) /\ support.linkable
    /\ opened' = [support |-> support, view |-> Viewer(St, support)]
    /\ UNCHANGED <<store, question, filter, choice, reply>>

\* Mutant: what was opened stays open
NewQuestionKeepsView ==
    /\ question # None
    /\ question' = None /\ filter' = None /\ choice' = NoChoice
    /\ reply' = NoReply
    /\ UNCHANGED <<store, opened>>

NewQuestion ==
    /\ question # None
    /\ question' = None /\ filter' = None /\ choice' = NoChoice
    /\ reply' = NoReply /\ opened' = None
    /\ UNCHANGED store

Next ==
    \/ \E q \in Questions, f \in Filters : AskQuestion(q, f)
    \/ \E option \in ToSet(reply.options), f \in Filters : Choose(option, f)
    \/ \E support \in ToSet(reply.supports) : Open(support)
    \/ NewQuestion

Spec == Init /\ [][Next]_vars

----------------------------------------------------------------------------
Answers == {"answer_ready", "limited_answer"}
Answered == reply.kind = "answer" /\ reply.status \in Answers
Shows == ToSet(reply.supports)
Asked == IF Found(SummaryQuery(question)) THEN SummaryQuery(question) ELSE question

\* The reply is one the API can send, and nothing is opened that was not offered
\* (the shape of _public_ask, api.py).
TypeOK ==
    /\ store \in DOMAIN Stores /\ question \in Questions \cup {None} /\ filter \in Filters
    /\ choice.kind \in ChoiceKinds \cup {None}
    /\ reply.kind \in {None, "answer", "clarification", "document"}
    /\ \A s \in Shows : s.linkable \in BOOLEAN /\ s.role \in Roles
    /\ opened = None \/ opened.support \in Shows

\* A support that was offered with a target opens with exactly its boxes drawn,
\* whatever route it came by: what the answer gate accepts (validate_answer_candidate,
\* _article_relation_evidence) is what the viewer resolves (viewer, viewer_payload).
\* Left out are the two kinds of support that do not: one whose evidence carries a
\* relation with other boxes, and a claim proved by the proposition of another unit.
OwnBoxes(s) ==
    LET relation == RelationForEvidence(St, s.id) IN
    Found(relation) => ToSet(s.boxes) \subseteq ToSet(relation.boxes)
OwnProposition(s) ==
    \A p \in ToSet(St.props) :
        p.id = s.proposition => p.unit = Get(St, s.id).unit /\ p.overlay # <<>>
SupportOpens ==
    opened # None /\ OwnBoxes(opened.support) /\ OwnProposition(opened.support) =>
        /\ opened.view.status = "highlighted"
        /\ opened.support.boxes # <<>> /\ opened.support.proposition = None
               => opened.view.boxes = opened.support.boxes

\* Every line an answer quotes as law, as a heading or as the words of a relation lies
\* under a box of that support and in the document it is attributed to; a heading cut
\* out of its BAB (_heading_projection) keeps its own boxes.
QuoteIsDrawn ==
    \A s \in Shows : s.group # "metadata_support" /\ s.linkable =>
        /\ s.quote # <<>> /\ ToSet(s.quote) \subseteq ToSet(s.boxes)
        /\ \A box \in ToSet(s.boxes) : box \in St.drawn /\ box[1] = s.role

\* The source the reader fixed (an option chosen, a filter, or a source the question
\* names) is the source of everything shown, on every route of route_retrieval.  The
\* relations of documents and the parts of an instrument have a source of their own.
FixedRole ==
    IF choice.kind = "source_role" THEN choice.value
    ELSE IF Found(filter) THEN filter
    ELSE IF question.roles # <<>> THEN question.roles[1] ELSE None
AnswersKeepToSource ==
    Answered /\ reply.route \notin {"document_relation", "instrument"} /\ Found(FixedRole) =>
        \A s \in Shows : s.role = FixedRole

\* What is shown after a choice is what the option stood for: the provision it named,
\* the rows of its clause, the person, or the operation of the relation
\* (_apply_clarification_constraint, amendment_relation_target).
ChoiceHolds ==
    Answered => \A s \in Shows :
        /\ choice.kind = "legal_target" => choice.value \in Hierarchy(St, s.unit)
        /\ choice.kind = "concept_facet" => s.id \in choice.value
        /\ choice.kind = "entity" =>
               \E fact \in ToSet(St.facts) : \E signatory \in ToSet(fact.signatories) :
                   signatory.name = choice.value /\ signatory.grounding = s.id
        /\ choice.kind = "relation_family" /\ reply.route = "document_relation" =>
               \E edge \in ToSet(St.edges) :
                   edge.evidence = s.id /\ edge.type \in TypesOf(choice.value)

\* An answer shows what it rests on, and nothing that is not an answer shows anything;
\* a clarification always leaves a choice.  Only the statement that one document amends
\* another has no support (_relation_response).
AnswerShowsSupport ==
    /\ Answered /\ Shows = {} =>
           /\ reply.route = "document_relation" /\ reply.status = "answer_ready"
           /\ AmendmentTarget(Asked, Chosen(choice, "relation_family")).mode = "document"
    /\ Shows # {} => Answered
    /\ reply.kind = "clarification" <=> Len(reply.options) > 1
    /\ reply.options # <<>> => reply.kind = "clarification"

\* A claim is answered only on a proposition of the store that says all its words with
\* its predicate and its polarity, in a unit the answer shows or an Ayat of one; and a
\* citation narrowed to a proposition is narrowed to one that proves the claim
\* (verify_claims, _claim_citations).
Proves(p, claim) ==
    p.predicate = claim.predicate /\ p.polarity = claim.polarity /\ claim.words \subseteq p.says
ClaimIsProved ==
    Answered /\ reply.route \notin {"instrument", "document_relation"} /\ VerifiesClaim(Asked) =>
        /\ \E p \in ToSet(St.props) : Proves(p, question.claim) /\ \E s \in Shows :
               p.unit = s.unit \/ \E u \in ToSet(St.units) : u.id = p.unit /\ u.parent = s.unit
        /\ \A s \in Shows : Found(s.proposition) =>
               \E p \in ToSet(St.props) : p.id = s.proposition /\ Proves(p, question.claim)

\* A lexical answer is never more than one row that alone has every meaningful word of
\* the question, and never a full answer (_with_relevance, lexical_fallback in ask).
LexicalIsWhole ==
    Answered /\ reply.route = "bm25" =>
        /\ reply.status = "limited_answer" /\ Len(reply.supports) = 1
        /\ \A s \in Shows : Asked.words \subseteq RowWords(St, Get(St, s.id))

\* docs/foundation.md: a canonical owner, quote, page and source stay openable: the
\* viewer falls back to the page when there is no overlay.  An offered support whose
\* target does not even serve the page violates it.
OfferedSupportOpens == opened # None => opened.view.status \in Shown
=============================================================================
