---------------------------- MODULE QuestionReading ----------------------------
(***************************************************************************)
(* What the cascade reads in a question before it retrieves anything: the  *)
(* source scope, the semantics, the instrument decision, the relation it   *)
(* asks for and the structural target.                                     *)
(*                                                                         *)
(* A question is a record of what the parsers and the phrase lists of the  *)
(* corpus find in it:                                                      *)
(*   roles    the sources it names, in the order of metadata_roles         *)
(*   time     "current" (temporal_current_terms), "unresolved" or "none"   *)
(*   section, bab, refs   its section, its BAB and its Pasal references    *)
(*   nav      <<label, +1 or -1>>: the provision after or before another   *)
(*   family   the relation family whose terms it contains                  *)
(*   part     the instrument part it names, by the citation of that part   *)
(*   field, names, office   the metadata field, people and office named    *)
(*   claim    the predicate, polarity and words of a claim to verify       *)
(*   asks     the phrase lists it matches                                  *)
(*   words    its meaningful words                                         *)
(*   clauses  the words of A and of B in "A or B", else empty              *)
(* with None or an empty value for what it does not contain.               *)
(***************************************************************************)
EXTENDS LegalStore

CONSTANT Original  \* original_historical
ASSUME OriginalAssumption == Original \in Roles \ {Preferred}

Amendments == Roles \ {Preferred, Original}

\* a question in which nothing is found
Plain ==
    [roles |-> <<>>, time |-> "none", section |-> None, bab |-> None, refs |-> <<>>,
     nav |-> <<>>, family |-> None, part |-> None, field |-> None, names |-> {},
     office |-> None, claim |-> None, asks |-> {}, words |-> {}, clauses |-> <<>>]

\* what the parsers can return
WellRead(q) ==
    /\ IsSeq(q.roles) /\ ToSet(q.roles) \subseteq Roles
    /\ IsSeq(q.refs) /\ IsSeq(q.clauses) /\ IsFiniteSet(q.words)

\* Pasal 1 ayat 2 is [pasal |-> "Pasal 1", ayat |-> "ayat 2"]
HasPasal(q) == q.refs # <<>>
HasBab(q) == q.bab # None
Pasal(q) == IF HasPasal(q) THEN q.refs[1].pasal ELSE None
Ayat(q) == First(Select([i \in DOMAIN q.refs |-> q.refs[i].ayat], Found))
Asks(q, phrase) == phrase \in q.asks

\* the word itself, which a reference contains too
Mentions(q, word) ==
    Asks(q, word) \/ (word = "pasal" /\ HasPasal(q)) \/ (word = "ayat" /\ Found(Ayat(q)))

HasLegalReference(q) == HasPasal(q) \/ HasBab(q)

----------------------------------------------------------------------------
(* resolve_source_scope and interpret_query *)

Scope(q) ==
    IF q.roles # <<>> THEN [role |-> q.roles[1], state |-> "explicit"]
    ELSE IF q.time = "current" THEN [role |-> Preferred, state |-> "current"]
    ELSE IF q.time = "unresolved" THEN [role |-> None, state |-> "unresolved"]
    ELSE [role |-> Preferred, state |-> "unscoped"]

Explicit(q) == Scope(q).state = "explicit"
Unresolved(q) == Scope(q).state = "unresolved"
Temporal(q) == Scope(q).state \in {"explicit", "current"}
SemanticRole(q) == IF Temporal(q) THEN Scope(q).role ELSE None

\* classify_relation_intent: "Pasal A menjadi Pasal B" renumbers too
Family(q) ==
    IF Asks(q, "becomes") /\ Len(q.refs) >= 2 THEN "RENAME_PROVISION" ELSE q.family
RelationIntent(q) == IF Scope(q).state = "current" THEN None ELSE Family(q)

RequestedFunction(q) ==
    IF Len(q.refs) >= 2 /\ Asks(q, "discrepancy") THEN "source_discrepancy"
    ELSE IF Temporal(q) /\ HasPasal(q) /\ ~Found(RelationIntent(q)) THEN "temporal_quotation"
    ELSE IF Found(RelationIntent(q)) THEN "amendment_relation"
    ELSE IF Found(q.claim) THEN "proposition_verification"
    ELSE IF HasPasal(q) /\ ~Temporal(q) /\ q.nav # <<>> THEN "structural_navigation"
    ELSE IF HasPasal(q) THEN "direct_quotation" ELSE "retrieval"

\* scope_guard_context over resolve_capability: a reason always comes with a
\* missing capability, so the guard always refuses
OutOfScope(q) ==
    \/ Asks(q, "current fact") /\ RequestedFunction(q) # "structural_navigation"
    \/ Asks(q, "other law")

----------------------------------------------------------------------------
(* resolve_instrument_intent *)

Part(q) == IF Found(q.part) THEN q.part
           ELSE IF q.family = "MODIFY_PROVISION" THEN "Scope" ELSE None
Unnamed == "Clause"   \* a part whose citation template needs a letter

InstrumentDecision(q) ==
    IF q.roles # <<>> /\ Asks(q, "analysis") THEN "instrument_unresolved"
    ELSE IF q.roles = <<>> \/ Asks(q, "metadata") \/ Asks(q, "relation") THEN "not_instrument"
    ELSE IF Part(q) \in {None, Unnamed} THEN "instrument_unresolved"
    ELSE "instrument_resolved"

AsksDeletion(q) == HasBab(q) /\ (Asks(q, "deleted") \/ q.family = "DELETE_OR_REMOVE_PROVISION")
HasInstrumentTarget(q) == AsksDeletion(q) \/ InstrumentDecision(q) # "not_instrument"

----------------------------------------------------------------------------
(* has_relation_target, _relation and amendment_relation_target *)

AsksUnsupportedRelation(q) ==
    /\ ~Explicit(q)
    /\ \/ Asks(q, "direct relation") /\ (HasLegalReference(q) \/ Asks(q, "relation"))
       \/ Asks(q, "relation") /\ (HasLegalReference(q) \/ Asks(q, "relation context"))
AsksParent(q) == HasPasal(q) /\ Asks(q, "parent")
AsksAyat(q) == HasPasal(q) /\ Mentions(q, "ayat")
AsksPasal(q) == HasBab(q) /\ Mentions(q, "pasal")

HasRelationTarget(q) ==
    \/ AsksUnsupportedRelation(q)
    \/ AsksParent(q)
    \/ (AsksAyat(q) \/ AsksPasal(q)) /\ Asks(q, "children")

RelationRoute(q) ==
    IF ~HasRelationTarget(q) THEN None
    ELSE IF AsksParent(q) THEN "parent"
    ELSE IF AsksAyat(q) THEN "pasal_children"
    ELSE IF AsksPasal(q) THEN "bab_children" ELSE "unsupported"

\* relation_types of the families
TypesOf(family) ==
    CASE family = "RENAME_PROVISION" -> {"RENAMES", "RENUMBERED_TO"}
      [] family = "DELETE_OR_REMOVE_PROVISION" -> {"DELETES"}
      [] OTHER -> {"MODIFIES"}
Families == {"RENAME_PROVISION", "DELETE_OR_REMOVE_PROVISION", "MODIFY_PROVISION"}

AmendmentRole(q) == First(Select(q.roles, LAMBDA role : role \in Amendments))
RelationTarget(mode, role, types, citation) ==
    [mode |-> mode, role |-> role, types |-> types, citation |-> citation]
NoRelationTarget == RelationTarget(None, None, {}, None)

\* choice is the relation family chosen in a clarification, or None.  The words
\* of a change are those of MODIFY_PROVISION, so a family is the change signal.
AmendmentTarget(q, choice) ==
    LET family == IF Found(choice) THEN choice ELSE Family(q)
        role == AmendmentRole(q)
        detail == Mentions(q, "pasal") \/ Mentions(q, "ayat")
        deletes == family = "DELETE_OR_REMOVE_PROVISION"
        asked == Found(family) \/ Asks(q, "add")
        amends == Found(role) \/ Asks(q, "amendment") \/ family = "RENAME_PROVISION"
        citation == IF ~HasPasal(q) THEN None
                    ELSE IF family = "RENAME_PROVISION" THEN Last(q.refs) ELSE q.refs[1]
    IN  IF \/ Explicit(q) /\ Len(q.refs) = 1 /\ ~asked
           \/ deletes /\ ~detail
        THEN NoRelationTarget
        ELSE IF ~HasPasal(q) /\ Found(role) /\ Original \in ToSet(q.roles)
        THEN RelationTarget("document", role, {}, None)
        ELSE IF ~asked \/ (~amends /\ ~deletes) THEN NoRelationTarget
        ELSE IF Asks(q, "add") THEN RelationTarget("article", role, {"ADDS", "SUPPLEMENTS"}, citation)
        ELSE IF family = "RENAME_PROVISION"
        THEN RelationTarget("article", role, TypesOf(family), citation)
        ELSE IF Asks(q, "unsupported detail") THEN RelationTarget("unsupported", None, {}, None)
        ELSE IF detail THEN RelationTarget("article", role, TypesOf(family), citation)
        ELSE IF Found(role) THEN RelationTarget("document", role, {}, None)
        ELSE IF Asks(q, "document") THEN RelationTarget("document", Original, {}, None)
        ELSE NoRelationTarget

----------------------------------------------------------------------------
(* _targets and _structural_request *)

Targets(q) ==
    IF Found(q.section) THEN IF HasPasal(q) THEN <<q.section, Pasal(q)>> ELSE <<q.section>>
    ELSE IF HasBab(q) THEN <<q.bab>>
    ELSE IF ~HasPasal(q) THEN <<>>
    ELSE IF Found(Ayat(q)) THEN <<Pasal(q), Ayat(q)>> ELSE <<Pasal(q)>>

HasStructuredTarget(q) ==
    HasInstrumentTarget(q) \/ Targets(q) # <<>> \/ Asks(q, "pasal only")

AsksContent(q) ==   \* inclusion = "descendants"
    ~Asks(q, "title") /\ ~HasPasal(q) /\ (Asks(q, "enumerate") \/ Asks(q, "content"))
AsksLeaves(q) == Asks(q, "enumerate") /\ Asks(q, "hierarchy") /\ ~Asks(q, "title")

\* _metadata_field; a legal reference is never metadata
MetadataTarget(q) == ~HasLegalReference(q) /\ (Found(q.field) \/ q.names # {})
=============================================================================
