------------------------- MODULE PublicTargetsProofs -------------------------
(***************************************************************************)
(* Proofs about PublicTargets, for any corpora, requests, limit, number of *)
(* threads and number of bookmarks: a reply stays in its corpus, a deleted *)
(* bookmark stays deleted, and a listing shows every bookmark with its own *)
(* target once its save has finished; none needs to know what the          *)
(* dictionary of handles holds, only that a request keeps the handle it    *)
(* found there.  And the dictionary is a true LRU: it holds the Limit      *)
(* handles used last, in the order of their last use.                      *)
(***************************************************************************)
EXTENDS PublicTargets, SequenceFacts

\* The shape of what the two results are about.
Shape ==
    /\ saved \in 0 .. MaxBookmarks
    /\ bookmarks \in [BookmarkIds -> Marks \union {None}]
    /\ deleted \subseteq BookmarkIds
    /\ pc \in [Threads -> {"idle", "viewing", "bookmarking", "saved", "projecting"}]
    /\ corpus \in [Threads -> Corpora \union {None}]
    /\ target \in [Threads -> Handles \union {None}]
    /\ mine \in [Threads -> BookmarkIds \union {None}]
    /\ reply \in [Threads -> Handles \union {None}]

\* A request that has found its handle keeps it, and it is one of its corpus.
HeldInCorpus ==
    \A t \in Threads : pc[t] \in {"viewing", "bookmarking", "saved"} =>
        target[t] \in Handles /\ target[t][1] = corpus[t]

\* Only ids that were handed out are in use, deleted or completed.
IdsHandedOut ==
    /\ \A b \in BookmarkIds : bookmarks[b] # None => b <= saved
    /\ \A b \in deleted : b <= saved /\ bookmarks[b] = None
    /\ \A t \in Threads : pc[t] = "saved" => mine[t] \in 1 .. saved

TInv == Shape /\ HeldInCorpus /\ IdsHandedOut /\ RepliesStayInCorpus

-----------------------------------------------------------------------------

\* Before the first request.
LEMMA InitiallyTInv == Init => TInv
BY LimitAssumption, SMT
DEF Init, TInv, Shape, HeldInCorpus, IdsHandedOut, RepliesStayInCorpus, BookmarkIds

\* The start of a request (viewer_public, bookmark_public) with a handle found
\* in the dictionary.
LEMMA StartKeepsTInv ==
    ASSUME TInv, NEW t \in Threads, NEW c \in Corpora, NEW h \in Handles,
           NEW where \in {"viewing", "bookmarking"},
           h[1] = c, Start(t, where, c, h), UNCHANGED repository
    PROVE  TInv'
<1>1. /\ pc' = [pc EXCEPT ![t] = where]
      /\ corpus' = [corpus EXCEPT ![t] = c] /\ target' = [target EXCEPT ![t] = h]
      /\ reply' = [reply EXCEPT ![t] = None] /\ mine' = [mine EXCEPT ![t] = None]
      /\ bookmarks' = bookmarks /\ saved' = saved /\ deleted' = deleted
      BY DEF Start, repository
<1>2. Shape' BY <1>1 DEF TInv, Shape
<1>3. HeldInCorpus' BY <1>1 DEF TInv, Shape, HeldInCorpus
<1>4. IdsHandedOut' BY <1>1 DEF TInv, Shape, IdsHandedOut
<1>5. RepliesStayInCorpus' BY <1>1 DEF TInv, Shape, RepliesStayInCorpus
<1> QED BY <1>2, <1>3, <1>4, <1>5 DEF TInv

\* BookmarkRepository.save hands out an id that no deletion can have named.
LEMMA SaveHandsOut ==
    ASSUME TInv, NEW c \in Corpora, NEW h \in Handles \union Documents,
           NEW shown \in Handles \union Documents \union {None}, Save(c, h, shown)
    PROVE  /\ saved' = saved + 1 /\ saved' \in 0 .. MaxBookmarks /\ deleted' = deleted
           /\ saved + 1 \in BookmarkIds
           /\ bookmarks' \in [BookmarkIds -> Marks \union {None}]
           /\ \A b \in BookmarkIds : bookmarks'[b] # None => b <= saved'
           /\ \A b \in deleted : b <= saved' /\ bookmarks'[b] = None
<1>1. /\ saved < MaxBookmarks /\ saved' = saved + 1 /\ deleted' = deleted
      /\ bookmarks' = [bookmarks EXCEPT ![saved + 1] =
                          [corpus |-> c, of |-> h, public_target |-> shown]]
      BY DEF Save
<1>2. [corpus |-> c, of |-> h, public_target |-> shown] \in Marks BY DEF Marks
<1>3. saved + 1 \in BookmarkIds /\ saved' \in 0 .. MaxBookmarks
      BY <1>1, LimitAssumption DEF TInv, Shape, BookmarkIds
<1>4. \A b \in deleted : b <= saved' /\ bookmarks'[b] = None
  <2> SUFFICES ASSUME NEW b \in deleted PROVE b <= saved' /\ bookmarks'[b] = None OBVIOUS
  <2>1. b \in BookmarkIds /\ b <= saved /\ bookmarks[b] = None BY DEF TInv, Shape, IdsHandedOut
  <2>2. b # saved + 1 /\ b <= saved + 1
        BY <2>1, LimitAssumption DEF TInv, Shape, BookmarkIds
  <2> QED BY <1>1, <2>1, <2>2 DEF TInv, Shape
<1>5. \A b \in BookmarkIds : bookmarks'[b] # None => b <= saved'
      BY <1>1, LimitAssumption DEF TInv, Shape, IdsHandedOut, BookmarkIds
<1> QED BY <1>1, <1>2, <1>3, <1>4, <1>5 DEF TInv, Shape

-----------------------------------------------------------------------------

\* Every step of every request keeps TInv.
LEMMA StepKeepsTInv == TInv /\ [Next]_vars => TInv'
<1> SUFFICES ASSUME TInv, [Next]_vars PROVE TInv' OBVIOUS
<1> USE DEF TInv
<1>1. CASE UNCHANGED <<repository, threads>>
  BY <1>1 DEF Shape, HeldInCorpus, IdsHandedOut, RepliesStayInCorpus, repository, threads
<1>2. ASSUME NEW t \in Threads, NEW c \in Corpora, NEW h \in Handles, StartView(t, c, h) PROVE TInv'
  BY <1>2, StartKeepsTInv DEF StartView, Known, repository
<1>3. ASSUME NEW t \in Threads, NEW c \in Corpora, NEW h \in Handles, StartBookmark(t, c, h) PROVE TInv'
  BY <1>3, StartKeepsTInv DEF StartBookmark, Known, repository
<1>4. ASSUME NEW t \in Threads, NEW c \in Corpora, List(t, c) PROVE TInv'
  <2>1. /\ pc' = [pc EXCEPT ![t] = "projecting"]
        /\ corpus' = [corpus EXCEPT ![t] = c] /\ target' = [target EXCEPT ![t] = None]
        /\ reply' = [reply EXCEPT ![t] = None] /\ mine' = [mine EXCEPT ![t] = None]
        /\ UNCHANGED <<bookmarks, saved, deleted>>
        BY <1>4 DEF List, Start, repository
  <2>2. Shape' BY <2>1 DEF Shape
  <2>3. HeldInCorpus' BY <2>1 DEF Shape, HeldInCorpus
  <2>4. IdsHandedOut' BY <2>1 DEF Shape, IdsHandedOut
  <2>5. RepliesStayInCorpus' BY <2>1 DEF Shape, RepliesStayInCorpus
  <2> QED BY <2>2, <2>3, <2>4, <2>5
<1>5. ASSUME NEW t \in Threads, View(t) PROVE TInv'
  <2>1. /\ pc[t] = "viewing" /\ reply' = [reply EXCEPT ![t] = target[t]]
        /\ pc' = [pc EXCEPT ![t] = "projecting"]
        /\ UNCHANGED <<bookmarks, saved, deleted, corpus, target, mine>>
        BY <1>5 DEF View, repository
  <2>2. target[t] \in Handles /\ target[t][1] = corpus[t] BY <2>1 DEF HeldInCorpus
  <2>3. Shape' BY <2>1, <2>2 DEF Shape
  <2>4. HeldInCorpus' BY <2>1 DEF Shape, HeldInCorpus
  <2>5. IdsHandedOut' BY <2>1 DEF Shape, IdsHandedOut
  <2>6. RepliesStayInCorpus' BY <2>1, <2>2 DEF Shape, RepliesStayInCorpus
  <2> QED BY <2>3, <2>4, <2>5, <2>6
<1>6. ASSUME NEW t \in Threads, ViewFails(t) \/ Reply(t) \/ SaveRefused(t) PROVE TInv'
  <2>1. /\ pc' = [pc EXCEPT ![t] = "idle"]
        /\ UNCHANGED <<bookmarks, saved, deleted, corpus, target, mine, reply>>
        BY <1>6 DEF ViewFails, Reply, SaveRefused, repository
  <2> QED BY <2>1 DEF Shape, HeldInCorpus, IdsHandedOut, RepliesStayInCorpus
<1>7. ASSUME NEW t \in Threads, Project(t) PROVE TInv'
  <2>1. UNCHANGED <<bookmarks, saved, deleted, pc, corpus, target, mine, reply>>
        BY <1>7 DEF Project, repository
  <2> QED BY <2>1 DEF Shape, HeldInCorpus, IdsHandedOut, RepliesStayInCorpus
<1>8. ASSUME NEW t \in Threads, SaveEvidence(t) PROVE TInv'
  <2>1. /\ pc[t] = "bookmarking" /\ Save(corpus[t], target[t], None)
        /\ mine' = [mine EXCEPT ![t] = saved + 1]
        /\ pc' = [pc EXCEPT ![t] = "saved"]
        /\ UNCHANGED <<corpus, target, reply>>
        BY <1>8 DEF SaveEvidence
  <2>2. target[t] \in Handles /\ corpus[t] \in Corpora
        BY <2>1 DEF HeldInCorpus, Handles
  <2>3. /\ saved' = saved + 1 /\ saved' \in 0 .. MaxBookmarks /\ deleted' = deleted
        /\ saved + 1 \in BookmarkIds /\ bookmarks' \in [BookmarkIds -> Marks \union {None}]
        /\ \A b \in BookmarkIds : bookmarks'[b] # None => b <= saved'
        /\ \A b \in deleted : b <= saved' /\ bookmarks'[b] = None
        BY <2>1, <2>2, SaveHandsOut
  <2>4. Shape' BY <2>1, <2>3 DEF Shape
  <2>5. HeldInCorpus' BY <2>1 DEF Shape, HeldInCorpus
  <2>6. IdsHandedOut' BY <2>1, <2>3 DEF Shape, IdsHandedOut
  <2>7. RepliesStayInCorpus' BY <2>1 DEF RepliesStayInCorpus
  <2> QED BY <2>4, <2>5, <2>6, <2>7
<1>9. ASSUME NEW c \in Corpora, NEW d \in Documents, SaveDocument(c, d) PROVE TInv'
  <2>1. Save(c, d, d) /\ UNCHANGED <<pc, corpus, target, mine, reply>>
        BY <1>9 DEF SaveDocument, threads
  <2>2. /\ saved' = saved + 1 /\ saved' \in 0 .. MaxBookmarks /\ deleted' = deleted
        /\ bookmarks' \in [BookmarkIds -> Marks \union {None}]
        /\ \A b \in BookmarkIds : bookmarks'[b] # None => b <= saved'
        /\ \A b \in deleted : b <= saved' /\ bookmarks'[b] = None
        BY <2>1, SaveHandsOut
  <2>3. Shape' BY <2>1, <2>2 DEF Shape
  <2>4. IdsHandedOut' BY <2>1, <2>2 DEF Shape, IdsHandedOut
  <2> QED BY <2>1, <2>3, <2>4 DEF HeldInCorpus, RepliesStayInCorpus
<1>10. ASSUME NEW t \in Threads, Complete(t) PROVE TInv'
  <2>1. /\ pc[t] = "saved" /\ pc' = [pc EXCEPT ![t] = "projecting"]
        /\ UNCHANGED <<saved, deleted, corpus, target, mine, reply>>
        /\ bookmarks' = IF bookmarks[mine[t]] = None THEN bookmarks
                        ELSE [bookmarks EXCEPT ![mine[t]].public_target = target[t]]
        BY <1>10 DEF Complete
  <2>2. target[t] \in Handles /\ mine[t] \in BookmarkIds
        BY <2>1, LimitAssumption DEF HeldInCorpus, IdsHandedOut, Shape, BookmarkIds
  <2>3. bookmarks' \in [BookmarkIds -> Marks \union {None}]
    <3>1. CASE bookmarks[mine[t]] = None BY <2>1, <3>1 DEF Shape
    <3>2. CASE bookmarks[mine[t]] # None
      <4>1. bookmarks[mine[t]] \in Marks BY <2>2, <3>2 DEF Shape
      <4>2. [bookmarks[mine[t]] EXCEPT !.public_target = target[t]] \in Marks
            BY <2>2, <4>1 DEF Marks
      <4> QED BY <2>1, <2>2, <3>2, <4>2 DEF Shape
    <3> QED BY <3>1, <3>2
  <2>4. /\ \A b \in deleted : bookmarks'[b] = None
        /\ \A b \in BookmarkIds : bookmarks'[b] # None => bookmarks[b] # None
        BY <2>1, <2>2 DEF Shape, IdsHandedOut
  <2>5. Shape' BY <2>1, <2>3 DEF Shape
  <2>6. HeldInCorpus' BY <2>1 DEF Shape, HeldInCorpus
  <2>7. IdsHandedOut' BY <2>1, <2>4 DEF Shape, IdsHandedOut
  <2>8. RepliesStayInCorpus' BY <2>1 DEF RepliesStayInCorpus
  <2> QED BY <2>5, <2>6, <2>7, <2>8
<1>11. ASSUME NEW c \in Corpora, NEW b \in BookmarkIds, Delete(c, b) PROVE TInv'
  <2>1. /\ bookmarks[b] # None /\ bookmarks' = [bookmarks EXCEPT ![b] = None]
        /\ deleted' = deleted \union {b}
        /\ UNCHANGED <<saved, pc, corpus, target, mine, reply>>
        BY <1>11 DEF Delete, Listed, threads
  <2> QED BY <2>1 DEF Shape, HeldInCorpus, IdsHandedOut, RepliesStayInCorpus
<1>12. CASE UNCHANGED vars BY <1>1, <1>12 DEF vars
<1> QED
  BY <1>1, <1>2, <1>3, <1>4, <1>5, <1>6, <1>7, <1>8, <1>9, <1>10, <1>11, <1>12
  DEF Next, Answer, LookOnly

-----------------------------------------------------------------------------

\* The invariant both results rest on.
THEOREM TargetsInvariance == Spec => []TInv
<1>1. Init => TInv BY InitiallyTInv
<1>2. TInv /\ [Next]_vars => TInv' BY StepKeepsTInv
<1> QED BY <1>1, <1>2, PTL DEF Spec

\* A reply in one corpus never shows a handle of another.
THEOREM RepliesAreLocal == Spec => []RepliesStayInCorpus
<1>1. TInv => RepliesStayInCorpus BY DEF TInv
<1> QED BY <1>1, TargetsInvariance, PTL

\* A bookmark whose deletion was confirmed is never listed again.
THEOREM DeletionIsFinal == Spec => []DeletedStaysDeleted
<1>1. TInv => DeletedStaysDeleted BY DEF TInv, IdsHandedOut, DeletedStaysDeleted, Listed
<1> QED BY <1>1, TargetsInvariance, PTL

-----------------------------------------------------------------------------
(* What a listing shows with a bookmark.                                   *)

\* A request that still has to complete its bookmark has the target it is for.
SavedForTarget ==
    \A t \in Threads : pc[t] = "saved" /\ bookmarks[mine[t]] # None =>
        bookmarks[mine[t]].of = target[t]

\* Bookmark b is complete, or a request of this moment will complete it.
HasItsTarget(b) ==
    \/ bookmarks[b].public_target = bookmarks[b].of
    \/ /\ bookmarks[b].public_target = None
       /\ \E t \in Threads : pc[t] = "saved" /\ mine[t] = b

MInv == SavedForTarget /\ \A b \in BookmarkIds : bookmarks[b] # None => HasItsTarget(b)

\* A step of thread t that changes no bookmark, before or after the time in which t
\* has saved one and not completed it.
LEMMA ElsewhereKeepsMInv ==
    ASSUME TInv, MInv, bookmarks' = bookmarks, NEW t \in Threads,
           pc[t] # "saved", pc'[t] # "saved",
           \A u \in Threads : u # t => pc'[u] = pc[u] /\ mine'[u] = mine[u] /\ target'[u] = target[u]
    PROVE  MInv'
<1>1. \A u \in Threads : pc'[u] = "saved" <=> pc[u] = "saved" OBVIOUS
<1>2. \A u \in Threads : pc[u] = "saved" => mine'[u] = mine[u] /\ target'[u] = target[u] OBVIOUS
<1>3. SavedForTarget' BY <1>1, <1>2 DEF MInv, SavedForTarget
<1>4. \A b \in BookmarkIds : bookmarks[b] # None => HasItsTarget(b)'
      BY <1>1, <1>2 DEF MInv, HasItsTarget
<1> QED BY <1>3, <1>4 DEF MInv

LEMMA InitiallyMInv == Init => MInv
BY DEF Init, MInv, SavedForTarget

LEMMA StepKeepsMInv == TInv /\ MInv /\ [Next]_vars => MInv'
<1> SUFFICES ASSUME TInv, MInv, [Next]_vars PROVE MInv' OBVIOUS
<1>0. Shape BY DEF TInv
<1>1. CASE UNCHANGED <<repository, threads>>
  BY <1>1 DEF MInv, SavedForTarget, HasItsTarget, repository, threads
<1>2. ASSUME NEW t \in Threads, NEW c, NEW h, NEW where \in {"viewing", "bookmarking", "projecting"},
             Start(t, where, c, h), UNCHANGED repository
      PROVE  MInv'
  <2>1. /\ bookmarks' = bookmarks /\ pc[t] # "saved" /\ pc'[t] # "saved"
        /\ \A u \in Threads : u # t => pc'[u] = pc[u] /\ mine'[u] = mine[u] /\ target'[u] = target[u]
        BY <1>0, <1>2 DEF Start, repository, Shape
  <2> QED BY <2>1, ElsewhereKeepsMInv
<1>3. ASSUME NEW t \in Threads, NEW c, NEW h,
             StartView(t, c, h) \/ StartBookmark(t, c, h) \/ List(t, c)
      PROVE  MInv'
  BY <1>2, <1>3 DEF StartView, StartBookmark, List, repository, dictionary
<1>4. ASSUME NEW t \in Threads,
             View(t) \/ ViewFails(t) \/ Project(t) \/ Reply(t) \/ SaveRefused(t)
      PROVE  MInv'
  <2>1. /\ bookmarks' = bookmarks /\ pc[t] # "saved" /\ pc'[t] # "saved"
        /\ \A u \in Threads : u # t => pc'[u] = pc[u] /\ mine'[u] = mine[u] /\ target'[u] = target[u]
        BY <1>0, <1>4 DEF View, ViewFails, Project, Reply, SaveRefused, repository, Shape
  <2> QED BY <2>1, ElsewhereKeepsMInv
<1>5. ASSUME NEW c \in Corpora, NEW h \in Handles \union Documents,
             NEW shown \in Handles \union Documents \union {None}, Save(c, h, shown)
      PROVE  /\ saved + 1 \in BookmarkIds
             /\ bookmarks'[saved + 1] = [corpus |-> c, of |-> h, public_target |-> shown]
             /\ \A b \in BookmarkIds : b # saved + 1 => bookmarks'[b] = bookmarks[b]
             /\ \A t \in Threads : pc[t] = "saved" => mine[t] \in BookmarkIds /\ mine[t] # saved + 1
  <2>1. saved + 1 \in BookmarkIds BY <1>5, SaveHandsOut
  <2>2. \A t \in Threads : pc[t] = "saved" => mine[t] \in BookmarkIds /\ mine[t] # saved + 1
        BY <1>0, LimitAssumption DEF TInv, IdsHandedOut, Shape, BookmarkIds
  <2> QED BY <1>0, <1>5, <2>1, <2>2 DEF Save, Shape
<1>6. ASSUME NEW t \in Threads, SaveEvidence(t) PROVE MInv'
  <2>1. /\ pc[t] = "bookmarking" /\ Save(corpus[t], target[t], None)
        /\ mine' = [mine EXCEPT ![t] = saved + 1] /\ pc' = [pc EXCEPT ![t] = "saved"]
        /\ target' = target
        BY <1>6 DEF SaveEvidence
  <2>2. target[t] \in Handles /\ corpus[t] \in Corpora BY <2>1 DEF TInv, HeldInCorpus, Handles
  <2>3. /\ bookmarks'[saved + 1] = [corpus |-> corpus[t], of |-> target[t], public_target |-> None]
        /\ \A b \in BookmarkIds : b # saved + 1 => bookmarks'[b] = bookmarks[b]
        /\ \A u \in Threads : pc[u] = "saved" => mine[u] \in BookmarkIds /\ mine[u] # saved + 1
        BY <1>5, <2>1, <2>2
  <2>4. /\ pc'[t] = "saved" /\ mine'[t] = saved + 1
        /\ \A u \in Threads : u # t => pc'[u] = pc[u] /\ mine'[u] = mine[u]
        BY <1>0, <2>1 DEF Shape
  <2>5. SavedForTarget' BY <2>1, <2>3, <2>4 DEF MInv, SavedForTarget
  <2>6. ASSUME NEW b \in BookmarkIds, bookmarks'[b] # None PROVE HasItsTarget(b)'
    <3>1. CASE b = saved + 1 BY <2>3, <2>4, <3>1 DEF HasItsTarget
    <3>2. CASE b # saved + 1
      <4>1. bookmarks'[b] = bookmarks[b] /\ HasItsTarget(b) BY <2>3, <2>6, <3>2 DEF MInv
      <4> QED BY <2>1, <2>4, <4>1 DEF HasItsTarget
    <3> QED BY <3>1, <3>2
  <2> QED BY <2>5, <2>6 DEF MInv
<1>7. ASSUME NEW c \in Corpora, NEW d \in Documents, SaveDocument(c, d) PROVE MInv'
  <2>1. Save(c, d, d) /\ pc' = pc /\ mine' = mine /\ target' = target
        BY <1>7 DEF SaveDocument, threads
  <2>2. /\ bookmarks'[saved + 1] = [corpus |-> c, of |-> d, public_target |-> d]
        /\ \A b \in BookmarkIds : b # saved + 1 => bookmarks'[b] = bookmarks[b]
        /\ \A u \in Threads : pc[u] = "saved" => mine[u] \in BookmarkIds /\ mine[u] # saved + 1
        BY <1>5, <2>1
  <2> QED BY <2>1, <2>2 DEF MInv, SavedForTarget, HasItsTarget
<1>8. ASSUME NEW t \in Threads, Complete(t) PROVE MInv'
  <2>1. /\ pc[t] = "saved" /\ pc' = [pc EXCEPT ![t] = "projecting"]
        /\ UNCHANGED <<target, mine>>
        /\ bookmarks' = IF bookmarks[mine[t]] = None THEN bookmarks
                        ELSE [bookmarks EXCEPT ![mine[t]].public_target = target[t]]
        BY <1>8 DEF Complete
  <2> DEFINE m == mine[t]
  <2>2. m \in BookmarkIds BY <1>0, <2>1, LimitAssumption DEF TInv, IdsHandedOut, Shape, BookmarkIds
  <2>3. pc'[t] # "saved" /\ \A u \in Threads : u # t => pc'[u] = pc[u] BY <1>0, <2>1 DEF Shape
  <2>4. \A b \in BookmarkIds : b # m => bookmarks'[b] = bookmarks[b] BY <1>0, <2>1, <2>2 DEF Shape
  <2>5. IF bookmarks[m] = None THEN bookmarks'[m] = None
        ELSE bookmarks'[m].of = target[t] /\ bookmarks'[m].public_target = target[t]
    <3>1. CASE bookmarks[m] = None BY <2>1, <3>1
    <3>2. CASE bookmarks[m] # None
      <4>1. bookmarks[m] \in Marks /\ bookmarks[m].of = target[t]
            BY <1>0, <2>1, <2>2, <3>2 DEF MInv, SavedForTarget, Shape
      <4>2. bookmarks'[m] = [bookmarks[m] EXCEPT !.public_target = target[t]]
            BY <1>0, <2>1, <2>2, <3>2 DEF Shape
      <4> QED BY <3>2, <4>1, <4>2 DEF Marks
    <3> QED BY <3>1, <3>2
  <2> HIDE DEF m
  <2>6. \A b \in BookmarkIds : bookmarks'[b] # None =>
           bookmarks[b] # None /\ bookmarks'[b].of = bookmarks[b].of
        BY <2>1, <2>4, <2>5 DEF MInv, SavedForTarget, m
  <2>7. \A u \in Threads : pc[u] = "saved" => mine[u] \in BookmarkIds
        BY <1>0, LimitAssumption DEF TInv, IdsHandedOut, Shape, BookmarkIds
  <2>8. SavedForTarget' BY <2>1, <2>3, <2>6, <2>7 DEF MInv, SavedForTarget
  <2>9. ASSUME NEW b \in BookmarkIds, bookmarks'[b] # None PROVE HasItsTarget(b)'
    <3>1. CASE b = m BY <2>5, <2>9, <3>1 DEF HasItsTarget
    <3>2. CASE b # m
      <4>1. bookmarks'[b] = bookmarks[b] /\ HasItsTarget(b) BY <2>4, <2>9, <3>2 DEF MInv
      <4> QED BY <2>1, <2>3, <3>2, <4>1 DEF HasItsTarget, m
    <3> QED BY <3>1, <3>2
  <2> QED BY <2>8, <2>9 DEF MInv
<1>9. ASSUME NEW c \in Corpora, NEW b \in BookmarkIds, Delete(c, b) PROVE MInv'
  <2>1. /\ bookmarks' = [bookmarks EXCEPT ![b] = None]
        /\ pc' = pc /\ mine' = mine /\ target' = target
        BY <1>9 DEF Delete, threads
  <2>2. /\ bookmarks'[b] = None
        /\ \A x \in BookmarkIds : x # b => bookmarks'[x] = bookmarks[x]
        BY <1>0, <2>1 DEF Shape
  <2>3. \A u \in Threads : pc[u] = "saved" => mine[u] \in BookmarkIds
        BY <1>0, LimitAssumption DEF TInv, IdsHandedOut, Shape, BookmarkIds
  <2> QED BY <2>1, <2>2, <2>3 DEF MInv, SavedForTarget, HasItsTarget
<1>10. CASE UNCHANGED vars BY <1>1, <1>10 DEF vars
<1> QED
  BY <1>1, <1>3, <1>4, <1>6, <1>7, <1>8, <1>9, <1>10
  DEF Next, Answer, LookOnly

\* A listed bookmark has the target it was saved for, or none as long as the
\* request that saved it has not finished (service.py:684-687).
THEOREM ListingsAreComplete == Spec => []ListedHasItsTarget
<1>1. Init => MInv BY InitiallyMInv
<1>2. TInv /\ MInv /\ [Next]_vars => MInv' BY StepKeepsMInv
<1>3. MInv => ListedHasItsTarget BY DEF MInv, HasItsTarget, ListedHasItsTarget, Listed
<1> QED BY <1>1, <1>2, <1>3, TargetsInvariance, PTL DEF Spec

-----------------------------------------------------------------------------
(* The dictionary.                                                         *)

\* Where the handles that are still remembered begin among those used.
Start0(s) == IF Len(s) > Limit THEN Len(s) - Limit ELSE 0

Distinct(s) == \A i, j \in DOMAIN s : s[i] = s[j] => i = j

\* s holds the last entries of r, as many as there is room for.
LastOf(s, r) ==
    /\ s \in Seq(Handles) /\ r \in Seq(Handles) /\ Distinct(r)
    /\ Len(s) = Len(r) - Start0(r)
    /\ \A j \in 1 .. Len(s) : s[j] = r[Start0(r) + j]

DInv == LastOf(targets, recent) /\ pending \in [Threads -> SUBSET Handles]

LEMMA LastOfIsLeastRecentlyUsed == LastOf(targets, recent) => LeastRecentlyUsed /\ Len(targets) <= Limit
<1> SUFFICES ASSUME LastOf(targets, recent) PROVE LeastRecentlyUsed /\ Len(targets) <= Limit OBVIOUS
<1> DEFINE n == Len(recent)
           lo == Start0(recent)
<1>1. n \in Nat /\ Len(targets) \in Nat BY LenProperties DEF LastOf
<1>2. lo \in 0 .. n /\ Limit \in Nat /\ n - lo <= Limit BY <1>1, LimitAssumption DEF Start0
<1>3. SubSeq(recent, lo + 1, n) \in Seq(Handles) /\ Len(SubSeq(recent, lo + 1, n)) = n - lo
      /\ \A j \in 1 .. n - lo : SubSeq(recent, lo + 1, n)[j] = recent[lo + j]
  <2>1. \A i \in lo + 1 .. n : recent[i] \in Handles
    <3> SUFFICES ASSUME NEW i \in lo + 1 .. n PROVE recent[i] \in Handles OBVIOUS
    <3>1. i \in 1 .. n BY <1>1, <1>2
    <3> QED BY <3>1, ElementOfSeq DEF LastOf
  <2>2. lo + 1 \in 1 .. n + 1 BY <1>1, <1>2
  <2> HIDE DEF lo
  <2>3. /\ SubSeq(recent, lo + 1, n) \in Seq(Handles)
        /\ Len(SubSeq(recent, lo + 1, n)) = IF lo + 1 <= n THEN n - (lo + 1) + 1 ELSE 0
        /\ \A j \in 1 .. n - (lo + 1) + 1 : SubSeq(recent, lo + 1, n)[j] = recent[lo + 1 + j - 1]
        BY <1>1, <2>1, <2>2, SubSeqProperties DEF LastOf
  <2>4. n - (lo + 1) + 1 = n - lo /\ (~(lo + 1 <= n) => n - lo = 0) BY <1>1, <1>2
  <2>5. \A j \in 1 .. n - lo : lo + 1 + j - 1 = lo + j BY <1>1, <1>2
  <2> QED BY <2>3, <2>4, <2>5
<1>4. targets \in Seq(Handles) /\ Len(targets) = n - lo
      /\ \A j \in 1 .. n - lo : targets[j] = recent[lo + j]
      BY DEF LastOf
<1>5. targets = SubSeq(recent, lo + 1, n) BY <1>3, <1>4, SeqEqual
<1>6. lo + 1 = IF Len(recent) > Limit THEN Len(recent) - Limit + 1 ELSE 1 BY <1>1, <1>2 DEF Start0
<1> QED BY <1>2, <1>4, <1>5, <1>6 DEF LeastRecentlyUsed

\* A handle among those of s goes to the end, and s stays without repetition.
LEMMA MovedWithin ==
    ASSUME NEW s \in Seq(Handles), Distinct(s), NEW i \in DOMAIN s
    PROVE  /\ (CHOOSE k \in DOMAIN s : s[k] = s[i]) = i
           /\ Distinct(Append(RemoveAt(s, i), s[i]))
<1>1. (CHOOSE k \in DOMAIN s : s[k] = s[i]) = i BY DEF Distinct
<1>2. Len(s) \in Nat /\ DOMAIN s = 1 .. Len(s) /\ i \in 1 .. Len(s) BY LenProperties
<1> DEFINE m == Append(RemoveAt(s, i), s[i])
<1>3. /\ m \in Seq(Handles) /\ Len(m) = Len(s)
      /\ \A j \in 1 .. Len(s) : m[j] = IF j = Len(s) THEN s[i] ELSE IF j < i THEN s[j] ELSE s[j + 1]
      BY MovedToEnd
<1> HIDE DEF m
<1>4. DOMAIN m = 1 .. Len(s) BY <1>3, LenProperties
<1> DEFINE from(j) == IF j = Len(s) THEN i ELSE IF j < i THEN j ELSE j + 1
<1>a. Len(s) \in Nat /\ i \in 1 .. Len(s) BY <1>2
<1>5. ASSUME NEW j \in 1 .. Len(s) PROVE from(j) \in DOMAIN s /\ m[j] = s[from(j)]
  <2>1. from(j) \in 1 .. Len(s) BY <1>a
  <2>2. m[j] = s[from(j)] BY <1>3
  <2> QED BY <1>2, <2>1, <2>2
<1>6. ASSUME NEW j \in 1 .. Len(s), NEW k \in 1 .. Len(s), from(j) = from(k) PROVE j = k
      BY <1>a, <1>6
<1> HIDE DEF from
<1>7. Distinct(m) BY <1>4, <1>5, <1>6 DEF Distinct
<1> QED BY <1>1, <1>7 DEF m

\* Writing or finding a handle, then evicting: the dictionary still holds the
\* handles used last.
LEMMA UsedStaysLast ==
    ASSUME LastOf(targets, recent), NEW h \in Handles, Used(h),
           targets' = Evicted(Moved(targets, h))
    PROVE  LastOf(targets', recent')
<1> DEFINE n == Len(recent)
           lo == Start0(recent)
           len == Len(targets)
<1>0. /\ targets \in Seq(Handles) /\ recent \in Seq(Handles) /\ Distinct(recent)
      /\ len = n - lo /\ \A j \in 1 .. len : targets[j] = recent[lo + j]
      BY DEF LastOf
<1>1. /\ n \in Nat /\ len \in Nat /\ DOMAIN recent = 1 .. n /\ DOMAIN targets = 1 .. len
      BY <1>0, LenProperties
<1>2. n \in Nat /\ len \in Nat BY <1>1
<1>3. /\ lo \in 0 .. n /\ lo = IF n > Limit THEN n - Limit ELSE 0
      /\ Limit \in Nat \ {0} /\ len = n - lo /\ len <= Limit
  <2>1. lo = IF n > Limit THEN n - Limit ELSE 0 BY DEF Start0
  <2>2. len = n - lo BY <1>0
  <2> HIDE DEF n, lo, len
  <2> QED BY <1>2, <2>1, <2>2, LimitAssumption
<1> HIDE DEF n, lo, len
<1>4. ASSUME NEW j \in 1 .. len PROVE lo + j \in 1 .. n BY <1>2, <1>3
<1>5. Distinct(targets)
  <2> SUFFICES ASSUME NEW j \in 1 .. len, NEW k \in 1 .. len, targets[j] = targets[k] PROVE j = k
      BY <1>1 DEF Distinct
  <2>1. lo + j \in DOMAIN recent /\ lo + k \in DOMAIN recent BY <1>1, <1>4
  <2>2. recent[lo + j] = recent[lo + k] BY <1>0
  <2>3. lo + j = lo + k BY <1>0, <2>1, <2>2 DEF Distinct
  <2> QED BY <1>3, <2>3
<1>6. CASE \A i \in DOMAIN recent : recent[i] # h
  <2>1. \A i \in DOMAIN targets : targets[i] # h BY <1>0, <1>1, <1>4, <1>6
  <2>2. recent' = Append(recent, h) BY <1>6 DEF Used
  <2>3. Moved(targets, h) = Append(targets, h) BY <2>1 DEF Moved
  <2> DEFINE longer == Append(targets, h)
  <2>4. /\ longer \in Seq(Handles) /\ Len(longer) = len + 1
        /\ \A j \in 1 .. len : longer[j] = targets[j]
        /\ longer[len + 1] = h
        BY <1>0, AppendProperties DEF len
  <2>5. /\ recent' \in Seq(Handles) /\ Len(recent') = n + 1
        /\ \A j \in 1 .. n : recent'[j] = recent[j]
        /\ recent'[n + 1] = h
        BY <1>0, <2>2, AppendProperties DEF n
  <2> HIDE DEF longer
  <2>6. DOMAIN recent' = 1 .. n + 1 BY <2>5, LenProperties
  <2>7. Distinct(recent')
    <3> SUFFICES ASSUME NEW j \in 1 .. n + 1, NEW k \in 1 .. n + 1, recent'[j] = recent'[k] PROVE j = k
        BY <2>6 DEF Distinct
    <3>1. CASE j \in 1 .. n /\ k \in 1 .. n BY <1>0, <1>1, <2>5, <3>1 DEF Distinct
    <3>2. CASE j = n + 1 /\ k \in 1 .. n BY <1>1, <1>6, <2>5, <3>2
    <3>3. CASE k = n + 1 /\ j \in 1 .. n BY <1>1, <1>6, <2>5, <3>3
    <3>4. CASE j = n + 1 /\ k = n + 1 BY <3>4
    <3>5. \A x \in 1 .. n + 1 : x \in 1 .. n \/ x = n + 1 BY <1>2
    <3> QED BY <3>1, <3>2, <3>3, <3>4, <3>5
  <2>8. targets' = IF len + 1 > Limit THEN Tail(longer) ELSE longer BY <2>3, <2>4 DEF Evicted, longer
  <2>9. Start0(recent') = IF n + 1 > Limit THEN n + 1 - Limit ELSE 0
    <3>1. Len(recent') = n + 1 BY <2>5
    <3>2. Start0(recent') = IF Len(recent') > Limit THEN Len(recent') - Limit ELSE 0 BY DEF Start0
    <3> QED BY <1>2, <1>3, <3>1, <3>2
  <2>10. CASE len + 1 > Limit
    <3>1. targets' = Tail(longer) BY <2>8, <2>10
    <3>2. longer # <<>> BY <1>2, <2>4, EmptySeq
    <3>3. /\ targets' \in Seq(Handles) /\ Len(targets') = len
          /\ \A j \in 1 .. len : targets'[j] = longer[j + 1]
          BY <1>2, <2>4, <3>1, <3>2, HeadTailProperties
    <3>4. Start0(recent') = lo + 1 /\ len = n + 1 - (lo + 1)
          BY <1>2, <1>3, <2>9, <2>10
    <3>5. ASSUME NEW j \in 1 .. len PROVE targets'[j] = recent'[lo + 1 + j]
      <4>1. CASE j = len
        <5>1. lo + 1 + j = n + 1 /\ j + 1 = len + 1 BY <1>2, <1>3, <3>4, <4>1
        <5> QED BY <2>4, <2>5, <3>3, <5>1
      <4>2. CASE j # len
        <5>1. j + 1 \in 1 .. len /\ lo + (j + 1) = lo + 1 + j BY <1>2, <1>3, <4>2
        <5>2. lo + (j + 1) \in 1 .. n BY <1>4, <5>1
        <5>3. longer[j + 1] = recent[lo + (j + 1)] BY <1>0, <2>4, <5>1
        <5> QED BY <2>5, <3>3, <5>1, <5>2, <5>3
      <4> QED BY <4>1, <4>2
    <3>6. Len(recent') - Start0(recent') = len
      <4>1. Len(recent') = n + 1 BY <2>5
      <4> QED BY <1>2, <1>3, <3>4, <4>1
    <3>7. \A j \in 1 .. Len(targets') : targets'[j] = recent'[Start0(recent') + j]
          BY <3>3, <3>4, <3>5, Zenon
    <3> QED BY <2>5, <2>7, <3>3, <3>6, <3>7, Zenon DEF LastOf
  <2>11. CASE ~(len + 1 > Limit)
    <3>1. targets' = longer BY <2>8, <2>11
    <3>2. lo = 0 /\ Start0(recent') = 0 /\ len = n BY <1>2, <1>3, <2>9, <2>11
    <3>3. ASSUME NEW j \in 1 .. n + 1 PROVE targets'[j] = recent'[0 + j]
      <4>1. CASE j = n + 1 BY <1>2, <2>4, <2>5, <3>1, <3>2, <4>1
      <4>2. CASE j \in 1 .. n
        <5>1. 0 + j = j BY <1>2
        <5> QED BY <1>0, <2>4, <2>5, <3>1, <3>2, <4>2, <5>1
      <4> QED BY <1>2, <4>1, <4>2
    <3>4. n + 1 = n + 1 - 0 BY <1>2
    <3> QED BY <2>4, <2>5, <2>7, <3>1, <3>2, <3>3, <3>4 DEF LastOf
  <2> QED BY <2>10, <2>11
<1>7. ASSUME NEW i \in DOMAIN recent, recent[i] = h PROVE LastOf(targets', recent')
  <2>0. /\ (CHOOSE k \in DOMAIN recent : recent[k] = recent[i]) = i
        /\ Distinct(Append(RemoveAt(recent, i), recent[i]))
        BY <1>0, <1>7, MovedWithin
  <2> HIDE DEF RemoveAt
  <2>1. /\ recent' = Append(RemoveAt(recent, i), h)
        /\ Distinct(Append(RemoveAt(recent, i), h))
        BY <1>7, <2>0, Zenon DEF Used
  <2>2. i \in 1 .. n BY <1>1
  <2>3. /\ recent' \in Seq(Handles) /\ Len(recent') = n
        /\ \A j \in 1 .. n : recent'[j] = IF j = n THEN h ELSE IF j < i THEN recent[j] ELSE recent[j + 1]
        BY <1>0, <1>7, <2>1, MovedToEnd DEF n
  <2>4. Start0(recent') = lo BY <2>3 DEF Start0, lo, n
  <2>5. CASE i > lo
    <3> DEFINE p == i - lo
    <3>1. p \in 1 .. len /\ lo + p = i BY <1>2, <1>3, <2>2, <2>5
    <3> HIDE DEF p
    <3>2. p \in DOMAIN targets /\ targets[p] = h BY <1>0, <1>1, <1>7, <3>1
    <3>3. (CHOOSE k \in DOMAIN targets : targets[k] = h) = p BY <1>0, <1>5, <3>2, MovedWithin
    <3>4. Moved(targets, h) = Append(RemoveAt(targets, p), targets[p]) BY <3>2, <3>3 DEF Moved
    <3>5. /\ Moved(targets, h) \in Seq(Handles) /\ Len(Moved(targets, h)) = len
          /\ \A j \in 1 .. len : Moved(targets, h)[j] =
                 IF j = len THEN h ELSE IF j < p THEN targets[j] ELSE targets[j + 1]
      <4>1. /\ Append(RemoveAt(targets, p), targets[p]) \in Seq(Handles)
            /\ Len(Append(RemoveAt(targets, p), targets[p])) = Len(targets)
            /\ \A j \in 1 .. Len(targets) : Append(RemoveAt(targets, p), targets[p])[j] =
                   IF j = Len(targets) THEN targets[p]
                   ELSE IF j < p THEN targets[j] ELSE targets[j + 1]
            BY <1>0, <3>2, MovedToEnd
      <4> QED BY <3>2, <3>4, <4>1, Zenon DEF len
    <3>6. targets' = Moved(targets, h) BY <1>2, <1>3, <3>5 DEF Evicted
    <3>7. ASSUME NEW j \in 1 .. len PROVE targets'[j] = recent'[lo + j]
      <4>1. lo + j \in 1 .. n BY <1>4
      <4>2. CASE j = len
        <5>1. lo + j = n BY <1>2, <1>3, <4>2
        <5> QED BY <2>3, <3>5, <3>6, <4>1, <4>2, <5>1
      <4>3. CASE j # len /\ j < p
        <5>1. lo + j # n /\ lo + j < i BY <1>2, <1>3, <3>1, <4>3
        <5> QED BY <1>0, <2>3, <3>5, <3>6, <4>1, <4>3, <5>1
      <4>4. CASE j # len /\ ~(j < p)
        <5>1. lo + j # n /\ ~(lo + j < i) /\ j + 1 \in 1 .. len /\ lo + (j + 1) = lo + j + 1
              BY <1>2, <1>3, <2>2, <3>1, <4>4
        <5>2. targets[j + 1] = recent[lo + j + 1] BY <1>0, <5>1
        <5> QED BY <2>3, <3>5, <3>6, <4>1, <4>4, <5>1, <5>2
      <4> QED BY <4>2, <4>3, <4>4
    <3> QED BY <1>0, <2>1, <2>3, <2>4, <3>5, <3>6, <3>7 DEF LastOf
  <2>6. CASE ~(i > lo)
    <3>1. \A j \in DOMAIN targets : targets[j] # h
      <4> SUFFICES ASSUME NEW j \in 1 .. len, targets[j] = h PROVE FALSE BY <1>1
      <4>1. lo + j \in DOMAIN recent /\ recent[lo + j] = recent[i] BY <1>0, <1>1, <1>4, <1>7
      <4>2. lo + j = i BY <1>0, <4>1 DEF Distinct
      <4> QED BY <1>2, <1>3, <2>2, <2>6, <4>2
    <3>2. Moved(targets, h) = Append(targets, h) BY <3>1 DEF Moved
    <3> DEFINE longer == Append(targets, h)
    <3>3. /\ longer \in Seq(Handles) /\ Len(longer) = len + 1
          /\ \A j \in 1 .. len : longer[j] = targets[j]
          /\ longer[len + 1] = h
          BY <1>0, AppendProperties DEF len
    <3>4. len = Limit BY <1>2, <1>3, <2>2, <2>6
    <3>5. Evicted(longer) = Tail(longer) BY <1>3, <3>3, <3>4 DEF Evicted
    <3> HIDE DEF longer
    <3>6. longer # <<>> BY <1>2, <3>3, EmptySeq
    <3>7. /\ targets' \in Seq(Handles) /\ Len(targets') = len
          /\ \A j \in 1 .. len : targets'[j] = longer[j + 1]
          BY <1>2, <3>2, <3>3, <3>5, <3>6, HeadTailProperties DEF longer
    <3>8. ASSUME NEW j \in 1 .. len PROVE targets'[j] = recent'[lo + j]
      <4>1. lo + j \in 1 .. n BY <1>4
      <4>2. CASE j = len
        <5>1. lo + j = n /\ j + 1 = len + 1 BY <1>2, <1>3, <4>2
        <5> QED BY <2>3, <3>3, <3>7, <4>1, <4>2, <5>1
      <4>3. CASE j # len
        <5>1. lo + j # n /\ ~(lo + j < i) /\ j + 1 \in 1 .. len /\ lo + (j + 1) = lo + j + 1
              BY <1>2, <1>3, <2>2, <2>6, <4>3
        <5>2. targets[j + 1] = recent[lo + j + 1] BY <1>0, <5>1
        <5> QED BY <2>3, <3>3, <3>7, <4>1, <4>3, <5>1, <5>2
      <4> QED BY <4>2, <4>3
    <3> QED BY <1>0, <2>1, <2>3, <2>4, <3>7, <3>8 DEF LastOf
  <2> QED BY <2>5, <2>6
<1> QED BY <1>6, <1>7

\* A look-up evicts nothing: a handle that was found needs no room.
LEMMA LookStaysLast ==
    ASSUME LastOf(targets, recent), NEW c, NEW h \in Handles, Look(c, h)
    PROVE  LastOf(targets', recent')
<1>1. CASE UNCHANGED dictionary BY <1>1 DEF dictionary
<1>2. CASE Known(c, h) /\ targets' = Moved(targets, h) /\ Used(h)
  <2>1. targets \in Seq(Handles) /\ Len(targets) <= Limit BY LastOfIsLeastRecentlyUsed DEF LastOf
  <2>2. PICK i \in DOMAIN targets : targets[i] = h BY <1>2 DEF Known
  <2> DEFINE k == CHOOSE k \in DOMAIN targets : targets[k] = h
  <2>3. k \in DOMAIN targets /\ targets[k] = h BY <2>2
  <2>4. Moved(targets, h) = Append(RemoveAt(targets, k), targets[k]) BY <2>2, <2>3 DEF Moved
  <2> HIDE DEF k
  <2>5. Len(Moved(targets, h)) = Len(targets) BY <2>1, <2>3, <2>4, MovedToEnd
  <2>6. Evicted(Moved(targets, h)) = Moved(targets, h)
        BY <2>1, <2>5, LenProperties, LimitAssumption DEF Evicted
  <2> QED BY <1>2, <2>6, UsedStaysLast
<1> QED BY <1>1, <1>2 DEF Look

-----------------------------------------------------------------------------

LEMMA InitiallyDInv == Init => DInv
<1> SUFFICES ASSUME Init PROVE DInv OBVIOUS
<1>1. targets = <<>> /\ recent = <<>> BY DEF Init
<1>2. <<>> \in Seq(Handles) /\ Len(<<>>) = 0 /\ DOMAIN <<>> = {} BY EmptySeq
<1>3. Start0(recent) = 0 BY <1>1, <1>2, LimitAssumption DEF Start0
<1>4. LastOf(targets, recent) BY <1>1, <1>2, <1>3 DEF LastOf, Distinct
<1>5. pending \in [Threads -> SUBSET Handles] BY DEF Init
<1> QED BY <1>4, <1>5 DEF DInv

LEMMA StepKeepsDInv == TInv /\ DInv /\ [Next]_vars => DInv'
<1> SUFFICES ASSUME TInv, DInv, [Next]_vars PROVE DInv' OBVIOUS
<1>0. LastOf(targets, recent) /\ pending \in [Threads -> SUBSET Handles] BY DEF DInv
<1>1. ASSUME UNCHANGED <<dictionary, pending>> PROVE DInv'
      BY <1>0, <1>1 DEF DInv, dictionary
<1>2. ASSUME UNCHANGED pending, NEW h \in Handles, Register(h) PROVE DInv'
      BY <1>0, <1>2, UsedStaysLast DEF DInv, Register
<1>3. ASSUME UNCHANGED pending, NEW c, NEW h \in Handles, Look(c, h) PROVE DInv'
      BY <1>0, <1>3, LookStaysLast DEF DInv
<1>4. ASSUME NEW h \in Answerable, Answer(h) PROVE DInv'
      BY <1>2, <1>4, TargetsAssumption DEF Answer, threads
<1>5. ASSUME NEW c \in Corpora, NEW h \in Handles, LookOnly(c, h) PROVE DInv'
      BY <1>3, <1>5 DEF LookOnly, threads
<1>6. ASSUME NEW t \in Threads, NEW c \in Corpora, NEW h \in Handles,
             StartView(t, c, h) \/ StartBookmark(t, c, h)
      PROVE  DInv'
      BY <1>3, <1>6 DEF StartView, StartBookmark
<1>7. ASSUME NEW t \in Threads, NEW c \in Corpora, List(t, c) PROVE DInv'
  <2>1. UNCHANGED dictionary /\ pending' \in [Threads -> SUBSET Handles] BY <1>0, <1>7 DEF List
  <2> QED BY <1>0, <2>1 DEF DInv, dictionary
<1>8. ASSUME NEW t \in Threads, View(t) PROVE DInv'
  <2>1. target[t] \in Handles /\ target[t][1] = corpus[t] /\ target[t][2] \in Evidence
        BY <1>8 DEF View, TInv, HeldInCorpus
  <2>2. pending' \in [Threads -> SUBSET Handles] BY <1>0, <1>8, <2>1 DEF View
  <2>3. <<corpus[t], PageOf[target[t][2]]>> \in Handles
        BY <2>1, TargetsAssumption DEF Handles, Requests
  <2>4. LastOf(targets', recent')
        BY <1>0, <1>8, <2>3, UsedStaysLast DEF View, Register, dictionary
  <2> QED BY <2>2, <2>4 DEF DInv
<1>9. ASSUME NEW t \in Threads, Project(t) PROVE DInv'
  <2>1. PICK h \in pending[t] : Look(corpus[t], h) /\ pending' = [pending EXCEPT ![t] = @ \ {h}]
        BY <1>9 DEF Project
  <2>2. h \in Handles /\ pending' \in [Threads -> SUBSET Handles] BY <1>0, <2>1
  <2> QED BY <1>0, <2>1, <2>2, LookStaysLast DEF DInv
<1>10. ASSUME NEW t \in Threads, Complete(t) PROVE DInv'
  <2>1. target[t] \in Handles BY <1>10 DEF Complete, TInv, HeldInCorpus
  <2>2. UNCHANGED dictionary /\ pending' \in [Threads -> SUBSET Handles]
        BY <1>0, <1>10, <2>1 DEF Complete
  <2> QED BY <1>0, <2>2 DEF DInv, dictionary
<1>11. ASSUME NEW t \in Threads, ViewFails(t) \/ Reply(t) \/ SaveEvidence(t) \/ SaveRefused(t)
       PROVE  DInv'
       BY <1>1, <1>11 DEF ViewFails, Reply, SaveEvidence, SaveRefused
<1>12. ASSUME NEW c \in Corpora,
              \/ \E d \in Documents : SaveDocument(c, d)
              \/ \E b \in BookmarkIds : Delete(c, b)
       PROVE  DInv'
       BY <1>1, <1>12 DEF SaveDocument, Delete, threads
<1>13. CASE UNCHANGED vars BY <1>1, <1>13 DEF vars, threads
<1> QED BY <1>4, <1>5, <1>6, <1>7, <1>8, <1>9, <1>10, <1>11, <1>12, <1>13 DEF Next

THEOREM DictionaryInvariance == Spec => []DInv
<1>1. Init => DInv BY InitiallyDInv
<1>2. TInv /\ DInv /\ [Next]_vars => DInv' BY StepKeepsDInv
<1> QED BY <1>1, <1>2, TargetsInvariance, PTL DEF Spec

\* A handle resolves exactly as long as fewer than Limit others were used since.
THEOREM DictionaryIsLRU == Spec => []LeastRecentlyUsed
<1>1. DInv => LeastRecentlyUsed BY LastOfIsLeastRecentlyUsed DEF DInv
<1> QED BY <1>1, DictionaryInvariance, PTL

\* In particular the dictionary never holds more than Limit handles.
THEOREM TargetsTypes == Spec => []TypeOK
<1>1. TInv /\ DInv => TypeOK
      BY LastOfIsLeastRecentlyUsed DEF TInv, Shape, DInv, LastOf, TypeOK
<1> QED BY <1>1, TargetsInvariance, DictionaryInvariance, PTL
=============================================================================
