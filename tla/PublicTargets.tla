---------------------------- MODULE PublicTargets ----------------------------
(***************************************************************************)
(* What LegalRuntimeService remembers between requests, for all clients of *)
(* one process: the opaque handles it has given out (_public_targets, an   *)
(* LRU dictionary under a lock) and the bookmarks (BookmarkRepository).    *)
(*                                                                         *)
(* A handle is the sha256 of its corpus and request, so it stands for that *)
(* pair: registering the same request again yields the same handle.  A     *)
(* client may present any handle at any time, one that was never given out *)
(* (or was given out before a restart) included.  Requests run in threads; *)
(* a request touches the dictionary and the repository several times.      *)
(***************************************************************************)
EXTENDS Naturals, SequencesExt

CONSTANTS Corpora,
          Evidence,   \* requests that name evidence or a source document
          Contexts,   \* requests of kind "clarification_context"
          PageOf,     \* the request | {"page_number": ...} viewer_public derives
          Final,      \* those that name evidence with status "final"
          Documents,  \* catalog document targets: no handle of the dictionary
          Answerable, \* handles that answers register
          Limit,      \* _public_target_limit, 1024 in the code
          Threads, None,
          MaxBookmarks \* bound on the bookmarks of a behaviour

Requests == Evidence \union Contexts
Handles == Corpora \X Requests
BookmarkIds == 1 .. MaxBookmarks

ASSUME TargetsAssumption ==
    /\ PageOf \in [Evidence -> Evidence] /\ Final \subseteq Evidence
    /\ Answerable \subseteq Handles /\ Documents \cap Handles = {}
    /\ None \notin Handles \union Documents
ASSUME LimitAssumption == Limit \in Nat \ {0} /\ MaxBookmarks \in Nat

VARIABLES
    targets,    \* keys of _public_targets, least recently used first
    bookmarks,  \* _records: id -> corpus and public target, or None
    saved,      \* bookmarks saved so far
    pc,         \* where each thread is
    corpus,     \* the corpus of its request
    target,     \* the handle it was given
    pending,    \* handles it still has to look up before it replies
    mine,       \* the bookmark it saved, if any
    reply,      \* the handle its last reply shows, or None
    recent,     \* history: every handle ever used, least recently used first
    deleted     \* history: the bookmarks whose deletion was confirmed

dictionary == <<targets, recent>>
repository == <<bookmarks, saved, deleted>>
threads == <<pc, corpus, target, pending, mine, reply>>
vars == <<dictionary, repository, threads>>

Marks == [corpus : Corpora, of : Handles \union Documents, public_target : Handles \union Documents \union {None}]

TypeOK ==
    /\ targets \in Seq(Handles) /\ Len(targets) <= Limit
    /\ recent \in Seq(Handles)
    /\ bookmarks \in [BookmarkIds -> Marks \union {None}]
    /\ saved \in 0 .. MaxBookmarks /\ deleted \subseteq BookmarkIds
    /\ pc \in [Threads -> {"idle", "viewing", "bookmarking", "saved", "projecting"}]
    /\ corpus \in [Threads -> Corpora \union {None}]
    /\ target \in [Threads -> Handles \union {None}]
    /\ pending \in [Threads -> SUBSET Handles]
    /\ mine \in [Threads -> BookmarkIds \union {None}]
    /\ reply \in [Threads -> Handles \union {None}]

Init ==
    /\ targets = <<>> /\ recent = <<>>
    /\ bookmarks = [b \in BookmarkIds |-> None] /\ saved = 0 /\ deleted = {}
    /\ pc = [t \in Threads |-> "idle"]
    /\ corpus = [t \in Threads |-> None] /\ target = [t \in Threads |-> None]
    /\ pending = [t \in Threads |-> {}] /\ mine = [t \in Threads |-> None]
    /\ reply = [t \in Threads |-> None]

-----------------------------------------------------------------------------
(* The dictionary: each operation holds _public_target_lock throughout.    *)

\* Mutant: the entry is overwritten where it stands.
Overwritten(s, h) == IF \E i \in DOMAIN s : s[i] = h THEN s ELSE Append(s, h)

\* The entry is written and moved to the end.
Moved(s, h) ==
    IF \E i \in DOMAIN s : s[i] = h
      THEN LET i == CHOOSE i \in DOMAIN s : s[i] = h IN Append(RemoveAt(s, i), h)
      ELSE Append(s, h)

\* Mutant: the loop stops one entry late.
EvictedLate(s) == IF Len(s) > Limit + 1 THEN Tail(s) ELSE s

\* popitem(last=False) while there are too many.
Evicted(s) == IF Len(s) > Limit THEN Tail(s) ELSE s

\* History: h leaves its place among the handles used and goes last.
Used(h) ==
    recent' = IF \E i \in DOMAIN recent : recent[i] = h
                THEN Append(RemoveAt(recent, CHOOSE i \in DOMAIN recent : recent[i] = h), h)
                ELSE Append(recent, h)

\* register_public_target.
Register(h) == targets' = Evicted(Moved(targets, h)) /\ Used(h)

\* Mutant: the corpus of the record is not compared.
KnownAnywhere(c, h) == \E i \in DOMAIN targets : targets[i] = h

\* _public_target_request finds h and it belongs to corpus c.
Known(c, h) == h[1] = c /\ \E i \in DOMAIN targets : targets[i] = h

\* _public_target_request: a hit counts as a use.
Look(c, h) ==
    \/ Known(c, h) /\ targets' = Moved(targets, h) /\ Used(h)
    \/ ~Known(c, h) /\ UNCHANGED dictionary

-----------------------------------------------------------------------------
(* Requests.  One that is answered without a further look at the shared    *)
(* state is one step.                                                      *)

\* _public_support or _public_clarification_option registers one handle of an
\* answer; the handles of one answer are registered in separate steps.
Answer(h) == Register(h) /\ UNCHANGED <<repository, threads>>

\* pdf_public, and public_clarification_context for an ask: a look-up only.
LookOnly(c, h) == Known(c, h) /\ Look(c, h) /\ UNCHANGED <<repository, threads>>

Start(t, where, c, h) ==
    /\ pc[t] = "idle"
    /\ pc' = [pc EXCEPT ![t] = where]
    /\ corpus' = [corpus EXCEPT ![t] = c] /\ target' = [target EXCEPT ![t] = h]
    /\ reply' = [reply EXCEPT ![t] = None] /\ mine' = [mine EXCEPT ![t] = None]

\* viewer_public and bookmark_public look their handle up; without a hit the
\* reply is not_found or unavailable.
StartView(t, c, h) ==
    /\ Known(c, h) /\ Look(c, h) /\ Start(t, "viewing", c, h)
    /\ UNCHANGED <<repository, pending>>

\* viewer(**request) with a clarification context: its keywords are none of
\* viewer's, so a TypeError ends the request.
ViewFails(t) ==
    /\ pc[t] = "viewing" /\ target[t][2] \in Contexts
    /\ pc' = [pc EXCEPT ![t] = "idle"]
    /\ UNCHANGED <<dictionary, repository, corpus, target, pending, mine, reply>>

\* The payload; when the PDF is available, a handle for its page is registered.
\* The projection then looks the viewed handle up once more.
View(t) ==
    /\ pc[t] = "viewing" /\ target[t][2] \in Evidence
    /\ \/ Register(<<corpus[t], PageOf[target[t][2]]>>)
       \/ UNCHANGED dictionary
    /\ reply' = [reply EXCEPT ![t] = target[t]]
    /\ pending' = [pending EXCEPT ![t] = {target[t]}]
    /\ pc' = [pc EXCEPT ![t] = "projecting"]
    /\ UNCHANGED <<repository, corpus, target, mine>>

\* _public_viewer or _public_bookmark_row: catalog_document_for_target.
Project(t) ==
    /\ pc[t] = "projecting"
    /\ \E h \in pending[t] :
        /\ Look(corpus[t], h)
        /\ pending' = [pending EXCEPT ![t] = @ \ {h}]
    /\ UNCHANGED <<repository, pc, corpus, target, mine, reply>>

Reply(t) ==
    /\ pc[t] = "projecting" /\ pending[t] = {}
    /\ pc' = [pc EXCEPT ![t] = "idle"]
    /\ UNCHANGED <<dictionary, repository, corpus, target, pending, mine, reply>>

StartBookmark(t, c, h) ==
    /\ Known(c, h) /\ h[2] \in Evidence /\ Look(c, h) /\ Start(t, "bookmarking", c, h)
    /\ UNCHANGED <<repository, pending>>

\* BookmarkRepository.save of a record for handle h.
Save(c, h, shown) ==
    /\ saved < MaxBookmarks
    /\ saved' = saved + 1
    /\ bookmarks' = [bookmarks EXCEPT ![saved + 1] = [corpus |-> c, of |-> h, public_target |-> shown]]
    /\ UNCHANGED deleted

\* bookmark: the record is saved before bookmark_public completes it.
SaveEvidence(t) ==
    /\ pc[t] = "bookmarking" /\ target[t][2] \in Final
    /\ Save(corpus[t], target[t], None)
    /\ mine' = [mine EXCEPT ![t] = saved + 1]
    /\ pc' = [pc EXCEPT ![t] = "saved"]
    /\ UNCHANGED <<dictionary, corpus, target, pending, reply>>

SaveRefused(t) ==
    /\ pc[t] = "bookmarking" /\ target[t][2] \notin Final
    /\ pc' = [pc EXCEPT ![t] = "idle"]
    /\ UNCHANGED <<dictionary, repository, corpus, target, pending, mine, reply>>

\* Mutant: the completed record is saved again.
SaveAgain(t) ==
    /\ pc[t] = "saved"
    /\ bookmarks' = [bookmarks EXCEPT ![mine[t]] =
                        [corpus |-> corpus[t], of |-> target[t], public_target |-> target[t]]]
    /\ pending' = [pending EXCEPT ![t] = {target[t]}]
    /\ pc' = [pc EXCEPT ![t] = "projecting"]
    /\ UNCHANGED <<dictionary, saved, deleted, corpus, target, mine, reply>>

\* Mutant: the repository holds a copy, and only the reply gets the target.
CompleteCopy(t) ==
    /\ pc[t] = "saved"
    /\ pending' = [pending EXCEPT ![t] = {target[t]}]
    /\ pc' = [pc EXCEPT ![t] = "projecting"]
    /\ UNCHANGED <<dictionary, repository, corpus, target, mine, reply>>

\* The public target is set in the saved dictionary itself, without the lock:
\* the repository sees it unless the record was deleted meanwhile.
Complete(t) ==
    /\ pc[t] = "saved"
    /\ bookmarks' = IF bookmarks[mine[t]] = None THEN bookmarks
                    ELSE [bookmarks EXCEPT ![mine[t]].public_target = target[t]]
    /\ pending' = [pending EXCEPT ![t] = {target[t]}]
    /\ pc' = [pc EXCEPT ![t] = "projecting"]
    /\ UNCHANGED <<dictionary, saved, deleted, corpus, target, mine, reply>>

\* A catalog document is no handle of the dictionary; its record is complete.
SaveDocument(c, d) == Save(c, d, d) /\ UNCHANGED <<dictionary, threads>>

Listed(c) == {b \in BookmarkIds : bookmarks[b] # None /\ bookmarks[b].corpus = c}

\* list copies the records; the projection of each looks its target up.
List(t, c) ==
    /\ Listed(c) # {} /\ Start(t, "projecting", c, None)
    /\ pending' = [pending EXCEPT ![t] = {bookmarks[b].public_target : b \in Listed(c)} \cap Handles]
    /\ UNCHANGED <<dictionary, repository>>

\* delete_public.
Delete(c, b) ==
    /\ b \in Listed(c)
    /\ bookmarks' = [bookmarks EXCEPT ![b] = None] /\ deleted' = deleted \union {b}
    /\ UNCHANGED <<dictionary, saved, threads>>

Next ==
    \/ \E h \in Answerable : Answer(h)
    \/ \E c \in Corpora : \/ \E h \in Handles : LookOnly(c, h)
                          \/ \E d \in Documents : SaveDocument(c, d)
                          \/ \E b \in BookmarkIds : Delete(c, b)
    \/ \E t \in Threads :
        \/ \E c \in Corpora : \/ \E h \in Handles : StartView(t, c, h) \/ StartBookmark(t, c, h)
                              \/ List(t, c)
        \/ View(t) \/ ViewFails(t) \/ Project(t) \/ Reply(t)
        \/ SaveEvidence(t) \/ SaveRefused(t) \/ Complete(t)

Spec == Init /\ [][Next]_vars

-----------------------------------------------------------------------------
(* Properties.                                                             *)

\* A handle resolves exactly as long as fewer than Limit others were used since
\* its own last use, whichever requests (answers, views, listings) used them.
LeastRecentlyUsed ==
    targets = SubSeq(recent, IF Len(recent) > Limit THEN Len(recent) - Limit + 1 ELSE 1, Len(recent))

\* A reply in one corpus never shows a handle of another.
RepliesStayInCorpus == \A t \in Threads : reply[t] # None => reply[t][1] = corpus[t]

\* A bookmark whose deletion was confirmed is never listed again, even if it
\* was deleted while the request that saved it was still completing it.
DeletedStaysDeleted == \A c \in Corpora : Listed(c) \cap deleted = {}

\* A listing shows with a bookmark the very target it was saved for; it shows none
\* only as long as the request that saved it is between the save of bookmark and
\* the assignment of bookmark_public, whatever the other requests save or delete.
ListedHasItsTarget ==
    \A c \in Corpora : \A b \in Listed(c) :
        \/ bookmarks[b].public_target = bookmarks[b].of
        \/ /\ bookmarks[b].public_target = None
           /\ \E t \in Threads : pc[t] = "saved" /\ mine[t] = b

\* The docstring of register_public_target promises "a stable opaque handle":
\* the target of a bookmark of final evidence, which the listing calls active,
\* resolves.
ActiveBookmarkOpens ==
    \A c \in Corpora : \A b \in Listed(c) :
        bookmarks[b].public_target \in Handles => Known(c, bookmarks[b].public_target)
=============================================================================
