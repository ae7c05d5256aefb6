------------------------- MODULE CorpusLoadingProofs -------------------------
(***************************************************************************)
(* What VerifiedCorpusRepository.load returns, for every number of request *)
(* threads and files, every cache limit, and whatever rebuilds and edits   *)
(* do to the disk meanwhile.  LInv uses no fact about the disk; the type   *)
(* invariant, at the end, takes its types from PromotionProofs.            *)
(***************************************************************************)
EXTENDS CorpusLoading, SequenceTheorems, TLAPS

\* Snapshots whose content is what their attested manifest lists.
Good == {s \in [id : Nat, listing : Attested, data : Listings] : s.data = s.listing}

\* The second pass has parsed the listed files it has hashed, each with the
\* listed content, and nothing else.
Parsed(t) ==
    [a \in Artifacts |->
        IF rpc[t] = "publishing" /\ a \in Listed(want[t]) \ unchecked[t]
          THEN want[t][a] ELSE Absent]

Shape ==
    /\ rpc \in [Threads -> {"idle", "resolved", "trusted", "hashing", "publishing"}]
    /\ DOMAIN want = Threads /\ want = [t \in Threads |-> want[t]]
    /\ DOMAIN result = Threads /\ result = [t \in Threads |-> result[t]]
    /\ unchecked \in [Threads -> SUBSET Artifacts]
    /\ got = [t \in Threads |-> Parsed(t)]
    /\ loadCount \in Nat

CachesGood ==
    /\ published \in Seq(Good)
    /\ validated # None => validated.snap \in Good

\* What a load has returned is good and has the digest the load began with.
ResultsGood ==
    \A t \in Threads : result[t].snap # None =>
        result[t].snap \in Good /\ result[t].snap.listing = want[t]

\* A thread in the second pass holds the lock, and nobody published its digest.
PublisherAlone ==
    \A t \in Threads : rpc[t] = "publishing" => lock = t /\ ~IsPublished(want[t])

LInv == Shape /\ CachesGood /\ ResultsGood /\ PublisherAlone

-----------------------------------------------------------------------------
(* Shape: each action changes one thread's entries.                        *)

LEMMA EndShape ==
    ASSUME Shape, NEW t \in Threads, NEW code, NEW s, End(t, code, s),
           want' = want, loadCount' \in Nat
    PROVE  /\ Shape'
           /\ rpc'[t] = "idle" /\ result'[t] = [code |-> code, snap |-> s]
           /\ \A u \in Threads \ {t} : rpc'[u] = rpc[u] /\ result'[u] = result[u]
  <1>1. rpc' = [rpc EXCEPT ![t] = "idle"] /\ unchecked' = [unchecked EXCEPT ![t] = {}]
    BY DEF End, Goto
  <1>2. result' = [result EXCEPT ![t] = [code |-> code, snap |-> s]]
    BY DEF End
  <1>3. got' = [got EXCEPT ![t] = [a \in Artifacts |-> Absent]]
    BY DEF End, NoFiles
  <1>4. got' = [u \in Threads |-> Parsed(u)']
    <2>1. Parsed(t)' = [a \in Artifacts |-> Absent]
      BY <1>1 DEF Shape, Parsed
    <2>2. ASSUME NEW u \in Threads, u # t
          PROVE  Parsed(u)' = Parsed(u)
      BY <1>1, <2>2 DEF Shape, Parsed, Listed
    <2>3. QED
      BY <1>3, <2>1, <2>2 DEF Shape
  <1>5. QED
    BY <1>1, <1>2, <1>4 DEF Shape

\* A step to another place of load, with the files still to hash.
LEMMA MoveShape ==
    ASSUME Shape, NEW t \in Threads, NEW where \in {"resolved", "trusted", "hashing", "publishing"},
           NEW S \in SUBSET Artifacts,
           rpc[t] # "publishing",
           where = "publishing" => S = Listed(want'[t]),
           Goto(t, where), unchecked' = [unchecked EXCEPT ![t] = S],
           DOMAIN want' = Threads, want' = [u \in Threads |-> want'[u]],
           \A u \in Threads \ {t} : want'[u] = want[u],
           DOMAIN result' = Threads, result' = [u \in Threads |-> result'[u]],
           got' = got, loadCount' = loadCount
    PROVE  Shape'
  <1>1. rpc' = [rpc EXCEPT ![t] = where]
    BY DEF Goto
  <1>2. ASSUME NEW u \in Threads
        PROVE  Parsed(u)' = Parsed(u)
    <2>1. CASE u = t
      BY <1>1, <2>1 DEF Shape, Parsed, Listed
    <2>2. CASE u # t
      BY <1>1, <2>2 DEF Shape, Parsed, Listed
    <2>3. QED
      BY <2>1, <2>2
  <1>3. got' = [u \in Threads |-> Parsed(u)']
    BY <1>2 DEF Shape
  <1>4. QED
    BY <1>1, <1>3 DEF Shape

LEMMA ReadShape ==
    ASSUME Shape, NEW t \in Threads, ReadFile(t)
    PROVE  Shape'
  <1> PICK a \in unchecked[t] :
        /\ NextFile(t, a) /\ final[a] = want[t][a]
        /\ unchecked' = [unchecked EXCEPT ![t] = @ \ {a}]
        /\ got' = [got EXCEPT ![t][a] = IF rpc[t] = "publishing" THEN final[a] ELSE @]
    BY DEF ReadFile
  <1>1. rpc' = rpc /\ want' = want /\ loadCount' = loadCount /\ result' = result
    BY DEF ReadFile
  <1>2. a \in Artifacts
    BY DEF Shape
  <1>3. got[t] = Parsed(t) /\ DOMAIN got = Threads
    BY DEF Shape
  <1>4. Parsed(t)' = [Parsed(t) EXCEPT ![a] = IF rpc[t] = "publishing" THEN final[a] ELSE @]
    <2>1. ASSUME NEW b \in Artifacts
          PROVE  Parsed(t)'[b] = [Parsed(t) EXCEPT ![a] = IF rpc[t] = "publishing" THEN final[a] ELSE @][b]
      <3>1. unchecked'[t] = unchecked[t] \ {a}
        BY DEF Shape
      <3>2. CASE b = a
        BY <1>1, <1>2, <3>1, <3>2 DEF Parsed, Listed
      <3>3. CASE b # a
        BY <1>1, <1>2, <3>1, <3>3 DEF Parsed, Listed
      <3>4. QED
        BY <3>2, <3>3
    <2>2. QED
      BY <2>1, <1>2 DEF Parsed
  <1>5. ASSUME NEW u \in Threads, u # t
        PROVE  Parsed(u)' = Parsed(u)
    BY <1>1, <1>5 DEF Shape, Parsed, Listed
  <1>6. got' = [u \in Threads |-> Parsed(u)']
    BY <1>3, <1>4, <1>5 DEF Shape
  <1>7. unchecked' \in [Threads -> SUBSET Artifacts]
    BY DEF Shape
  <1>8. QED
    BY <1>1, <1>6, <1>7 DEF Shape

-----------------------------------------------------------------------------
(* Loads that end.                                                         *)

\* An exception leaves the caches alone and gives the lock back.
LEMMA RaiseKeeps ==
    ASSUME LInv, NEW t \in Threads, NEW code, Raise(t, code), want' = want,
           loadCount' = loadCount, published' = published, validated' = validated,
           lock' = lock \/ Release(t)
    PROVE  LInv'
  <1>1. /\ Shape'
        /\ rpc'[t] = "idle" /\ result'[t] = [code |-> code, snap |-> None]
        /\ \A u \in Threads \ {t} : rpc'[u] = rpc[u] /\ result'[u] = result[u]
    <2>1. loadCount' \in Nat
      BY DEF LInv, Shape
    <2>2. QED
      BY <2>1, EndShape DEF LInv, Raise
  <1>2. CachesGood'
    BY DEF LInv, CachesGood
  <1>3. ResultsGood'
    BY <1>1 DEF LInv, ResultsGood
  <1>4. PublisherAlone'
    <2>1. ASSUME NEW u \in Threads, rpc'[u] = "publishing"
          PROVE  lock' = u /\ ~IsPublished(want[u])
      BY <1>1, <2>1 DEF LInv, PublisherAlone, Release
    <2>2. QED
      BY <2>1 DEF PublisherAlone, IsPublished
  <1>5. QED
    BY <1>1, <1>2, <1>3, <1>4 DEF LInv

\* A load that ends under the lock with a good snapshot of its digest.
LEMMA RecordKeeps ==
    ASSUME LInv, NEW t \in Threads, NEW s \in Good, s.listing = want[t], Record(t, s),
           want' = want, loadCount' \in Nat, published' \in Seq(Good),
           \A u \in Threads \ {t} : rpc[u] # "publishing"
    PROVE  LInv'
  <1>1. PICK code, r : End(t, code, r) /\ r \in {s, None}
    BY DEF Record, Return, Raise
  <1>2. /\ Shape'
        /\ rpc'[t] = "idle" /\ result'[t] = [code |-> code, snap |-> r]
        /\ \A u \in Threads \ {t} : rpc'[u] = rpc[u] /\ result'[u] = result[u]
    BY <1>1, EndShape DEF LInv
  <1>3. CachesGood'
    BY DEF LInv, CachesGood, Record
  <1>4. ResultsGood'
    BY <1>1, <1>2 DEF LInv, ResultsGood
  <1>5. PublisherAlone'
    BY <1>2 DEF PublisherAlone
  <1>6. QED
    BY <1>2, <1>3, <1>4, <1>5 DEF LInv

LEMMA UseValidatedKeeps ==
    ASSUME LInv, NEW t \in Threads, UseValidated(t)
    PROVE  LInv'
  <1>1. /\ End(t, "ok", validated.snap)
        /\ want' = want /\ loadCount' = loadCount /\ lock' = lock
        /\ published' = published /\ validated' = validated
    BY DEF UseValidated, Return
  <1>2. validated.snap \in Good /\ validated.snap.listing = want[t]
    BY DEF LInv, CachesGood, UseValidated, Fresh
  <1>3. /\ Shape'
        /\ rpc'[t] = "idle" /\ result'[t] = [code |-> "ok", snap |-> validated.snap]
        /\ \A u \in Threads \ {t} : rpc'[u] = rpc[u] /\ result'[u] = result[u]
    <2>1. loadCount' \in Nat
      BY <1>1 DEF LInv, Shape
    <2>2. QED
      BY <1>1, <2>1, EndShape DEF LInv
  <1>4. CachesGood' /\ ResultsGood'
    BY <1>1, <1>2, <1>3 DEF LInv, CachesGood, ResultsGood
  <1>5. PublisherAlone'
    BY <1>1, <1>3 DEF LInv, PublisherAlone, IsPublished
  <1>6. QED
    BY <1>3, <1>4, <1>5 DEF LInv

\* move_to_end keeps the cache a sequence of good snapshots.
LEMMA MoveToEnd ==
    ASSUME published \in Seq(Good), NEW i \in DOMAIN published
    PROVE  Append(RemoveAt(published, i), published[i]) \in Seq(Good)
  <1>1. i \in 1 .. Len(published) /\ published[i] \in Good
    BY LenProperties, ElementOfSeq
  <1>2. SubSeq(published, 1, i - 1) \in Seq(Good) /\ SubSeq(published, i + 1, Len(published)) \in Seq(Good)
    BY <1>1, SubSeqProperties
  <1>3. RemoveAt(published, i) \in Seq(Good)
    BY <1>2, ConcatProperties DEF RemoveAt
  <1>4. QED
    BY <1>1, <1>3, AppendProperties

LEMMA TakePublishedKeeps ==
    ASSUME LInv, NEW t \in Threads, TakePublished(t)
    PROVE  LInv'
  <1> PICK i \in DOMAIN published :
        /\ published[i].listing = want[t]
        /\ published' = Append(RemoveAt(published, i), published[i])
        /\ Record(t, published[i])
    BY DEF TakePublished
  <1>1. published[i] \in Good
    BY LenProperties, ElementOfSeq DEF LInv, CachesGood
  <1>2. published' \in Seq(Good)
    BY MoveToEnd DEF LInv, CachesGood
  <1>3. \A u \in Threads : rpc[u] # "publishing"
    BY LockAssumption DEF TakePublished, MayLock, LInv, PublisherAlone
  <1>4. want' = want /\ loadCount' \in Nat
    BY DEF TakePublished, LInv, Shape
  <1>5. QED
    BY <1>1, <1>2, <1>3, <1>4, RecordKeeps

\* The snapshot that the second pass ends with is good.
LEMMA NewSnapshotIsGood ==
    ASSUME LInv, NEW t \in Threads, rpc[t] = "publishing", unchecked[t] = {},
           IsAttested(want[t])
    PROVE  [id |-> loadCount + 1, listing |-> want[t], data |-> got[t]] \in Good
  <1>1. want[t] \in Attested /\ want[t] \in [Artifacts -> Contents \union {Absent}]
    BY LoadingAssumption DEF IsAttested, Listings, B!Listings
  <1>2. got[t] = want[t]
    <2>1. got[t] = [a \in Artifacts |-> IF a \in Listed(want[t]) THEN want[t][a] ELSE Absent]
      BY DEF LInv, Shape, Parsed
    <2>2. ASSUME NEW a \in Artifacts
          PROVE  got[t][a] = want[t][a]
      BY <2>1 DEF Listed
    <2>3. QED
      BY <1>1, <2>1, <2>2
  <1>3. want[t] \in Listings /\ loadCount + 1 \in Nat
    BY <1>1, LoadingAssumption DEF LInv, Shape
  <1>4. QED
    BY <1>1, <1>2, <1>3 DEF Good

LEMMA PublishKeeps ==
    ASSUME LInv, NEW t \in Threads, Publish(t)
    PROVE  LInv'
  <1> DEFINE s == [id |-> loadCount + 1, listing |-> want[t], data |-> got[t]]
             cache == Append(published, s)
  <1>1. s \in Good /\ s.listing = want[t]
    BY NewSnapshotIsGood DEF Publish
  <1>2. cache \in Seq(Good) /\ cache # <<>>
    BY <1>1, AppendProperties DEF LInv, CachesGood
  <1>3. Tail(cache) \in Seq(Good)
    BY <1>2, HeadTailProperties
  <1>4. published' \in Seq(Good) /\ Record(t, s) /\ want' = want
    BY <1>2, <1>3 DEF Publish
  <1>5. loadCount' \in Nat
    BY DEF Publish, LInv, Shape
  <1>6. \A u \in Threads \ {t} : rpc[u] # "publishing"
    BY DEF Publish, LInv, PublisherAlone
  <1>7. QED
    BY <1>1, <1>4, <1>5, <1>6, RecordKeeps

-----------------------------------------------------------------------------
(* Steps inside a load.                                                    *)

\* A step of t that returns nothing, publishes nothing, and leaves the others
\* where they are.
LEMMA StayKeeps ==
    ASSUME LInv, Shape', NEW t \in Threads,
           \A u \in Threads \ {t} :
              rpc'[u] = rpc[u] /\ want'[u] = want[u] /\ result'[u] = result[u],
           result'[t] = NoResult \/ (result'[t] = result[t] /\ want'[t] = want[t]),
           rpc'[t] = "publishing" => lock' = t /\ ~IsPublished(want'[t]),
           (\A u \in Threads : rpc[u] # "publishing") \/ lock' = lock,
           published' = published, validated' = validated
    PROVE  LInv'
  <1>1. CachesGood'
    BY DEF LInv, CachesGood
  <1>2. ResultsGood'
    BY DEF LInv, ResultsGood, NoResult
  <1>3. PublisherAlone'
    <2>1. ASSUME NEW u \in Threads, rpc'[u] = "publishing"
          PROVE  lock' = u /\ ~IsPublished(want'[u])
      BY <2>1 DEF LInv, PublisherAlone
    <2>2. \A u \in Threads : rpc'[u] = "publishing" =>
             lock' = u /\ ~(\E i \in DOMAIN published' : published'[i].listing = want'[u])
      BY <2>1 DEF IsPublished
    <2>3. QED
      BY <2>2 DEF PublisherAlone, IsPublished
  <1>4. QED
    BY <1>1, <1>2, <1>3 DEF LInv

LEMMA LoadKeeps ==
    ASSUME LInv, NEW t \in Threads, Load(t)
    PROVE  LInv'
  <1> USE DEF LInv
  <1>1. CASE Resolve(t)
    <2>1. Shape'
      <3>1. DOMAIN want' = Threads /\ want' = [u \in Threads |-> want'[u]]
        BY <1>1 DEF Resolve, Shape
      <3>2. DOMAIN result' = Threads /\ result' = [u \in Threads |-> result'[u]]
        BY <1>1 DEF Resolve, Shape
      <3>3. \A u \in Threads \ {t} : want'[u] = want[u]
        BY <1>1 DEF Resolve, Shape
      <3>4. unchecked[t] \in SUBSET Artifacts /\ unchecked' = [unchecked EXCEPT ![t] = unchecked[t]]
        BY <1>1 DEF Resolve, Shape
      <3>5. rpc[t] # "publishing" /\ Goto(t, "resolved") /\ got' = got /\ loadCount' = loadCount
        BY <1>1 DEF Resolve
      <3> QED BY <3>1, <3>2, <3>3, <3>4, <3>5, MoveShape
    <2>2. rpc'[t] = "resolved" /\ \A u \in Threads \ {t} : rpc'[u] = rpc[u]
      BY <1>1 DEF Resolve, Goto, Shape
    <2>3. QED
      BY <1>1, <2>1, <2>2, StayKeeps DEF Resolve, Shape
  <1>2. CASE ResolveFails(t)
    BY <1>2, RaiseKeeps DEF ResolveFails
  <1>3. CASE Trust(t)
    <2>1. CASE Raise(t, "trusted_manifest_mismatch")
      BY <1>3, <2>1, RaiseKeeps DEF Trust
    <2>2. CASE Goto(t, "trusted") /\ UNCHANGED <<unchecked, got, result>>
      <3>1. unchecked' = [unchecked EXCEPT ![t] = unchecked[t]] /\ unchecked[t] \in SUBSET Artifacts
        BY <2>2 DEF Shape
      <3>2. Shape'
        BY <1>3, <2>2, <3>1, MoveShape DEF Trust, Shape
      <3>3. rpc'[t] = "trusted" /\ \A u \in Threads \ {t} : rpc'[u] = rpc[u]
        BY <2>2 DEF Goto, Shape
      <3>4. QED
        BY <1>3, <2>2, <3>2, <3>3, StayKeeps DEF Trust
    <2>3. QED
      BY <1>3, <2>1, <2>2 DEF Trust
  <1>4. CASE UseValidated(t)
    BY <1>4, UseValidatedKeeps
  <1>5. CASE StatFails(t)
    BY <1>5, RaiseKeeps DEF StatFails
  <1>6. CASE StartHashing(t)
    <2>1. Listed(want[t]) \in SUBSET Artifacts
      BY DEF Listed
    <2>2. Shape'
      BY <1>6, <2>1, MoveShape DEF StartHashing, Shape
    <2>3. rpc'[t] = "hashing" /\ \A u \in Threads \ {t} : rpc'[u] = rpc[u]
      BY <1>6 DEF StartHashing, Goto, Shape
    <2>4. QED
      BY <1>6, <2>2, <2>3, StayKeeps DEF StartHashing
  <1>7. CASE ReadFile(t)
    <2>1. Shape'
      BY <1>7, ReadShape
    <2>2. QED
      BY <1>7, <2>1, StayKeeps DEF ReadFile, Disk, PublisherAlone
  <1>8. CASE ReadFails(t)
    BY <1>8, RaiseKeeps DEF ReadFails
  <1>9. CASE TakePublished(t)
    BY <1>9, TakePublishedKeeps
  <1>10. CASE StartPublishing(t)
    <2>1. Listed(want[t]) \in SUBSET Artifacts
      BY DEF Listed
    <2>2. Shape'
      BY <1>10, <2>1, MoveShape DEF StartPublishing, MayLock, Shape
    <2>3. rpc'[t] = "publishing" /\ \A u \in Threads \ {t} : rpc'[u] = rpc[u]
      BY <1>10 DEF StartPublishing, Goto, Shape
    <2>4. \A u \in Threads : rpc[u] # "publishing"
      BY <1>10, LockAssumption DEF StartPublishing, MayLock, PublisherAlone
    <2>5. QED
      BY <1>10, <2>2, <2>3, <2>4, StayKeeps DEF StartPublishing
  <1>11. CASE ManifestMoved(t)
    BY <1>11, RaiseKeeps DEF ManifestMoved
  <1>12. CASE Publish(t)
    BY <1>12, PublishKeeps
  <1>13. CASE AttestationMissing(t)
    BY <1>13, RaiseKeeps DEF AttestationMissing
  <1>14. QED
    BY <1>1, <1>2, <1>3, <1>4, <1>5, <1>6, <1>7, <1>8, <1>9, <1>10, <1>11, <1>12, <1>13
       DEF Load, Continue

LEMMA InitKeeps == Init => LInv
  <1> SUFFICES ASSUME Init PROVE LInv
    OBVIOUS
  <1>1. Shape
    BY DEF Init, Shape, Parsed, NoFiles
  <1>2. CachesGood
    BY DEF Init, CachesGood
  <1>3. ResultsGood /\ PublisherAlone
    BY DEF Init, ResultsGood, NoResult, PublisherAlone
  <1>4. QED
    BY <1>1, <1>2, <1>3 DEF LInv

\* The invariant speaks of the loader only.
LEMMA DiskKeeps == LInv /\ UNCHANGED loader => LInv'
  BY DEF loader, LInv, Shape, Parsed, Listed, CachesGood, ResultsGood, PublisherAlone, IsPublished

THEOREM LoaderInvariance == Spec => []LInv
  <1>1. Init => LInv
    BY InitKeeps
  <1>2. LInv /\ [Next]_vars => LInv'
    <2> SUFFICES ASSUME LInv, [Next]_vars PROVE LInv'
      OBVIOUS
    <2>1. CASE \E t \in Threads : Load(t)
      BY <2>1, LoadKeeps
    <2>2. CASE UNCHANGED loader
      BY <2>2, DiskKeeps
    <2>3. QED
      BY <2>1, <2>2 DEF Next, Rebuild, Builder, Edit, Reanchor, vars
  <1>3. QED
    BY <1>1, <1>2, PTL DEF Spec

-----------------------------------------------------------------------------
(* The properties.                                                         *)

\* No interleaving of loads, rebuilds and edits makes load return bytes that
\* are not those its attested manifest lists.
THEOREM LoadsAreVerified == Spec => []ServedIsVerified
  <1>1. LInv => ServedIsVerified
    BY DEF LInv, ResultsGood, Good, ServedIsVerified, Verified, Listed
  <1>2. QED
    BY <1>1, LoaderInvariance, PTL

\* Nor a set other than the one the registry named when the load began.
THEOREM LoadsAreAnchored == Spec => []ServedIsAnchored
  <1>1. LInv => ServedIsAnchored
    BY DEF LInv, ResultsGood, ServedIsAnchored
  <1>2. QED
    BY <1>1, LoaderInvariance, PTL

\* Nor does a set get a second snapshot while its first one is published.
THEOREM LoadsPublishOnce == Spec => PublishedOnce
  <1> DEFINE Once == loadCount' # loadCount => ~IsPublished(published'[Len(published')].listing)
  <1>1. LInv /\ [Next]_vars => Once
    <2> SUFFICES ASSUME LInv, [Next]_vars, loadCount' # loadCount PROVE Once
      OBVIOUS
    <2>1. PICK t \in Threads : Publish(t)
      BY DEF Next, Load, Continue, Resolve, ResolveFails, Trust, UseValidated, StatFails,
             StartHashing, ReadFile, ReadFails, TakePublished, StartPublishing,
             ManifestMoved, AttestationMissing, Rebuild, Builder, Edit, Reanchor, vars, loader
    <2> DEFINE s == [id |-> loadCount + 1, listing |-> want[t], data |-> got[t]]
               cache == Append(published, s)
    <2>2. s \in Good
      BY <2>1, NewSnapshotIsGood DEF Publish
    <2>3. cache \in Seq(Good) /\ cache[Len(cache)] = s /\ Len(cache) \in Nat \ {0}
      BY <2>2, AppendProperties, LenProperties DEF LInv, CachesGood
    <2>4. published'[Len(published')] = s
      <3>1. CASE published' = cache
        BY <2>3, <3>1
      <3>2. CASE published' = Tail(cache) /\ Len(cache) > PublishedLimit
        <4>1. Len(cache) > 1
          BY <2>3, <3>2, LoadingAssumption
        <4>2. Len(Tail(cache)) = Len(cache) - 1 /\ Tail(cache)[Len(cache) - 1] = cache[Len(cache)]
          BY <2>3, <4>1, HeadTailProperties
        <4>3. QED
          BY <2>3, <3>2, <4>2
      <3>3. QED
        BY <2>1, <3>1, <3>2 DEF Publish
    <2>5. ~IsPublished(want[t])
      BY <2>1 DEF Publish, LInv, PublisherAlone
    <2>6. QED
      BY <2>4, <2>5
  <1>2. QED
    BY <1>1, LoaderInvariance, PTL DEF Spec, PublishedOnce
-----------------------------------------------------------------------------
(* Type correctness: the disk keeps the types that PromotionProofs shows,  *)
(* and what a thread reads of it is a listing.                             *)

P == INSTANCE PromotionProofs

LEMMA DiskTypeIsTheBuilders == B!TypeOK = P!TypeOK
  BY DEF B!TypeOK, P!TypeOK, B!Names, P!Names, P!Listings, B!Listings,
         P!Directories, B!Directories

LEMMA DiskStepIsTheBuilders ==
    ASSUME B!Start \/ B!Step \/ B!Crash
    PROVE  P!Next
  <1> USE DEF P!disk, B!disk, P!Leave, B!Leave, P!FirstOf, B!FirstOf
  <1>1. CASE B!Start
    BY <1>1 DEF P!Next, P!Start, B!Start, P!Trusted, B!Trusted
  <1>2. CASE B!Crash
    BY <1>2 DEF P!Next, P!Crash, B!Crash
  <1>3. ASSUME NEW out \in Outputs, B!Build(out)
        PROVE  P!Build(out)
    BY <1>3 DEF P!Build, B!Build, P!Built, B!Built, P!Names, B!Names
  <1>4. CASE B!BuildFails \/ B!Accept \/ B!Reject
    BY <1>4 DEF B!BuildFails, B!Accept, B!Reject, P!BuildFails, P!Accept, P!Reject,
                P!Next, P!Step, P!Present, B!Present, P!Names, B!Names
  <1>5. CASE B!Replace \/ B!Retry \/ B!ReplaceFails \/ B!Interrupt
    BY <1>5 DEF B!Replace, P!Replace, P!Retry, B!Retry, P!ReplaceFails, B!ReplaceFails,
                P!Interrupt, B!Interrupt, P!Next, P!Step
  <1>6. CASE B!Restore \/ B!RestoreFails \/ B!RolledBack
    BY <1>6 DEF B!Restore, P!Restore, P!RestoreFails, B!RestoreFails, B!RolledBack,
                P!RolledBack, P!Next, P!Step
  <1>7. CASE B!PromoteDone \/ B!CleanupFails \/ B!TruncateRegistry \/ B!WriteAnchor
    BY <1>7 DEF B!PromoteDone, P!PromoteDone, B!CleanupFails, P!CleanupFails,
                B!TruncateRegistry, P!TruncateRegistry, B!WriteAnchor, P!WriteAnchor,
                P!Next, P!Step
  <1>8. QED
    BY <1>1, <1>2, <1>3, <1>4, <1>5, <1>6, <1>7 DEF B!Step, P!Next, P!Step

\* A rebuild, an edit and a re-anchoring leave a directory a directory.
LEMMA DiskTypes ==
    ASSUME B!TypeOK, Rebuild \/ Builder \/ Edit \/ Reanchor
    PROVE  B!TypeOK'
  <1>1. CASE Rebuild \/ Builder
    <2>1. P!TypeOK /\ P!Next
      BY <1>1, DiskTypeIsTheBuilders, DiskStepIsTheBuilders DEF Rebuild, Builder
    <2>2. P!TypeOK'
      BY <2>1, DiskAssumption, P!NextType DEF B!Names, P!Names, P!Listings, B!Listings, Listings
    <2>3. QED
      BY <2>2 DEF B!TypeOK, P!TypeOK, B!Names, P!Names, P!Listings, B!Listings,
         P!Directories, B!Directories
  <1>2. CASE Edit
    <2>1. PICK a \in Artifacts, c \in Contents \union {Absent} : final' = [final EXCEPT ![a] = c]
      BY <1>2 DEF Edit
    <2>2. final' \in B!Directories
      BY <2>1, DiskAssumption DEF B!TypeOK, B!Directories, B!Names
    <2>3. QED
      BY <1>2, <2>2 DEF Edit, B!TypeOK
  <1>3. CASE Reanchor
    <2> DEFINE l == [a \in Artifacts |-> final[a]]
    <2>1. l \in Listings
      BY DEF B!TypeOK, B!Directories, Listings, B!Listings
    <2>2. final' = [final EXCEPT ![ManifestName] = l] /\ anchor' = l /\ registry' = "whole"
      BY <1>3 DEF Reanchor
    <2> HIDE DEF l
    <2>3. final' \in B!Directories
      BY <2>1, <2>2, DiskAssumption DEF B!TypeOK, B!Directories, B!Names, Listings
    <2>4. QED
      BY <1>3, <2>1, <2>2, <2>3 DEF Reanchor, B!TypeOK, Listings
  <1>4. QED
    BY <1>1, <1>2, <1>3

ThreadTypes ==
    /\ want \in [Threads -> Listings \union {None}]
    /\ \A t \in Threads : rpc[t] # "idle" => want[t] \in Listings
    /\ result \in [Threads -> [code : Errors \union {"none", "ok"}, snap : Snapshots \union {None}]]

CacheTypes ==
    /\ published \in Seq(Snapshots) /\ Len(published) <= PublishedLimit
    /\ validated \in {None} \union [snap : Snapshots, signature : Listings]

\* Whoever holds the lock is in the second pass.
LockTypes ==
    /\ lock \in Threads \union {None}
    /\ \A t \in Threads : lock = t => rpc[t] = "publishing"

LoaderTypes == ThreadTypes /\ CacheTypes /\ LockTypes

CInv == LInv /\ B!TypeOK /\ LoaderTypes /\ changes \in 0 .. MaxChanges

LEMMA CInvTypes == CInv => TypeOK
  <1> SUFFICES ASSUME CInv PROVE TypeOK
    OBVIOUS
  <1> USE DEF CInv, LInv, LoaderTypes
  <1>1. got \in [Threads -> Listings]
    <2>1. ASSUME NEW t \in Threads
          PROVE  Parsed(t) \in Listings
      <3>1. CASE rpc[t] = "publishing"
        BY <3>1 DEF ThreadTypes, Parsed, Listings, B!Listings
      <3>2. CASE rpc[t] # "publishing"
        BY <3>2 DEF Parsed, Listings, B!Listings
      <3>3. QED
        BY <3>1, <3>2
    <2>2. QED
      BY <2>1 DEF Shape
  <1>2. \A t \in Threads : rpc[t] = "publishing" <=> lock = t
    BY DEF LockTypes, PublisherAlone
  <1>3. QED
    BY <1>1, <1>2 DEF TypeOK, Shape, ThreadTypes, CacheTypes, LockTypes

LEMMA SignatureIsListing ==
    ASSUME B!TypeOK, NEW l
    PROVE  Signature(l) \in Listings
  BY DEF B!TypeOK, B!Directories, Signature, Listings, B!Listings

\* What was a snapshot remains one.
LEMMA SnapshotsGrow ==
    ASSUME loadCount \in Nat, loadCount' \in {loadCount, loadCount + 1}
    PROVE  Snapshots \subseteq Snapshots'
  BY DEF Snapshots

LEMMA EndTypes ==
    ASSUME CInv, NEW t \in Threads, NEW code \in Errors \union {"ok"},
           NEW s \in Snapshots' \union {None}, End(t, code, s), want' = want,
           loadCount' \in {loadCount, loadCount + 1}
    PROVE  ThreadTypes' /\ rpc' = [rpc EXCEPT ![t] = "idle"]
  <1>1. /\ rpc' = [rpc EXCEPT ![t] = "idle"]
        /\ result' = [result EXCEPT ![t] = [code |-> code, snap |-> s]]
    BY DEF End, Goto
  <1>2. Snapshots \subseteq Snapshots'
    BY SnapshotsGrow DEF CInv, LInv, Shape
  <1> DEFINE R(S) == [code : Errors \union {"none", "ok"}, snap : S \union {None}]
  <1>3. [code |-> code, snap |-> s] \in R(Snapshots') /\ R(Snapshots) \subseteq R(Snapshots')
    BY <1>2
  <1>4. result \in [Threads -> R(Snapshots)]
    BY DEF CInv, LoaderTypes, ThreadTypes
  <1> HIDE DEF R
  <1>5. result' \in [Threads -> R(Snapshots')]
    BY <1>1, <1>3, <1>4
  <1>6. QED
    BY <1>1, <1>5 DEF R, CInv, LInv, Shape, LoaderTypes, ThreadTypes

LEMMA RaiseTypes ==
    ASSUME CInv, NEW t \in Threads, NEW code \in Errors, Raise(t, code),
           want' = want, published' = published, validated' = validated,
           loadCount' = loadCount,
           (lock' = lock /\ rpc[t] # "publishing") \/ Release(t)
    PROVE  LoaderTypes'
  <1>1. ThreadTypes' /\ rpc' = [rpc EXCEPT ![t] = "idle"]
    BY EndTypes DEF Raise
  <1>2. CacheTypes'
    BY DEF CInv, LoaderTypes, CacheTypes, Snapshots
  <1>3. LockTypes'
    BY <1>1, LockAssumption DEF CInv, LInv, Shape, LoaderTypes, LockTypes, Release
  <1>4. QED
    BY <1>1, <1>2, <1>3 DEF LoaderTypes

\* A load that ends under the lock.
LEMMA RecordTypes ==
    ASSUME CInv, NEW t \in Threads, NEW s \in Snapshots', Record(t, s), want' = want,
           loadCount' \in {loadCount, loadCount + 1},
           published' \in Seq(Snapshots'), Len(published') <= PublishedLimit,
           (lock' = lock /\ rpc[t] # "publishing") \/ Release(t)
    PROVE  LoaderTypes'
  <1>1. PICK code \in {"ok", "artifact_missing"}, r \in {s, None} : End(t, code, r)
    BY DEF Record, Return, Raise
  <1>2. ThreadTypes' /\ rpc' = [rpc EXCEPT ![t] = "idle"]
    BY <1>1, EndTypes DEF Errors
  <1>3. validated' \in {None} \union [snap : Snapshots', signature : Listings]
    <2>1. CASE validated' = [snap |-> s, signature |-> Signature(s.listing)]
      BY <2>1, SignatureIsListing DEF CInv
    <2>2. CASE validated' = validated
      <3>1. Snapshots \subseteq Snapshots'
        BY SnapshotsGrow DEF CInv, LInv, Shape
      <3>2. QED
        BY <2>2, <3>1 DEF CInv, LoaderTypes, CacheTypes
    <2>3. QED
      BY <2>1, <2>2 DEF Record
  <1>4. LockTypes'
    BY <1>2, LockAssumption DEF CInv, LInv, Shape, LoaderTypes, LockTypes, Release
  <1>5. QED
    BY <1>2, <1>3, <1>4 DEF LoaderTypes, CacheTypes, Listings

LEMMA TakePublishedTypes ==
    ASSUME CInv, NEW t \in Threads, TakePublished(t)
    PROVE  LoaderTypes'
  <1> PICK i \in DOMAIN published :
        /\ published' = Append(RemoveAt(published, i), published[i])
        /\ Record(t, published[i])
    BY DEF TakePublished
  <1>1. published \in Seq(Snapshots) /\ Len(published) <= PublishedLimit /\ loadCount' = loadCount
    BY DEF CInv, LoaderTypes, CacheTypes, TakePublished
  <1>2. i \in 1 .. Len(published) /\ published[i] \in Snapshots
    BY <1>1, LenProperties, ElementOfSeq
  <1> DEFINE before == SubSeq(published, 1, i - 1)
             after == SubSeq(published, i + 1, Len(published))
  <1>3. /\ before \in Seq(Snapshots) /\ after \in Seq(Snapshots)
        /\ Len(before) = i - 1 /\ Len(after) = Len(published) - i
    BY <1>1, <1>2, SubSeqProperties, LenProperties
  <1>4. RemoveAt(published, i) = before \o after
    BY DEF RemoveAt
  <1> HIDE DEF before, after
  <1>5. /\ RemoveAt(published, i) \in Seq(Snapshots)
        /\ Len(RemoveAt(published, i)) = Len(published) - 1
    BY <1>1, <1>2, <1>3, <1>4, ConcatProperties, LenProperties
  <1>6. published' \in Seq(Snapshots) /\ Len(published') = Len(published)
    BY <1>1, <1>2, <1>5, AppendProperties, LenProperties
  <1>7. Snapshots' = Snapshots
    BY <1>1 DEF Snapshots
  <1>8. want' = want /\ lock' = lock /\ rpc[t] # "publishing"
    BY DEF TakePublished, MayLock
  <1>9. published[i] \in Snapshots' /\ published' \in Seq(Snapshots') /\ Len(published') <= PublishedLimit
    BY <1>1, <1>2, <1>6, <1>7
  <1>10. QED
    BY <1>1, <1>8, <1>9, RecordTypes

LEMMA PublishTypes ==
    ASSUME CInv, NEW t \in Threads, Publish(t)
    PROVE  LoaderTypes'
  <1> DEFINE s == [id |-> loadCount + 1, listing |-> want[t], data |-> got[t]]
             cache == Append(published, s)
  <1>1. loadCount' = loadCount + 1 /\ loadCount \in Nat /\ want' = want /\ Release(t)
    BY DEF Publish, CInv, LInv, Shape
  <1>2. s \in Good
    BY NewSnapshotIsGood DEF Publish, CInv
  <1>3. s \in Snapshots'
    BY <1>1, <1>2, LoadingAssumption DEF Good, Snapshots
  <1>4. published \in Seq(Snapshots') /\ Len(published) <= PublishedLimit
    <2>1. Snapshots \subseteq Snapshots'
      BY <1>1, SnapshotsGrow
    <2>2. QED
      BY <2>1 DEF CInv, LoaderTypes, CacheTypes
  <1>5. cache \in Seq(Snapshots') /\ Len(cache) = Len(published) + 1 /\ cache # <<>>
    BY <1>3, <1>4, AppendProperties
  <1>6. Tail(cache) \in Seq(Snapshots') /\ Len(Tail(cache)) = Len(published)
    BY <1>4, <1>5, HeadTailProperties, LenProperties
  <1>7. /\ published' = IF Len(cache) > PublishedLimit THEN Tail(cache) ELSE cache
        /\ Record(t, s)
    BY DEF Publish
  <1> HIDE DEF cache, s
  <1>8. published' \in Seq(Snapshots') /\ Len(published') <= PublishedLimit
    <2>1. CASE Len(cache) > PublishedLimit
      BY <2>1, <1>4, <1>6, <1>7
    <2>2. CASE ~(Len(cache) > PublishedLimit)
      <3>1. Len(cache) \in Nat /\ PublishedLimit \in Nat
        BY <1>5, LenProperties, LoadingAssumption
      <3>2. QED
        BY <2>2, <3>1, <1>5, <1>7
    <2>3. QED
      BY <2>1, <2>2
  <1>9. QED
    BY <1>1, <1>3, <1>7, <1>8, RecordTypes

\* A step to another place of load.
LEMMA MoveTypes ==
    ASSUME CInv, NEW t \in Threads, NEW where \in {"resolved", "trusted", "hashing", "publishing"},
           rpc' = [rpc EXCEPT ![t] = where], rpc[t] # "publishing",
           want' = [want EXCEPT ![t] = want'[t]], want'[t] \in Listings,
           result' = result \/ result' = [result EXCEPT ![t] = NoResult],
           lock' = (IF where = "publishing" THEN t ELSE lock),
           where = "publishing" => lock = None,
           published' = published, validated' = validated, loadCount' = loadCount
    PROVE  LoaderTypes'
  <1> USE DEF CInv, LInv, Shape, LoaderTypes
  <1>1. Snapshots' = Snapshots
    BY DEF Snapshots
  <1>2. CacheTypes'
    BY <1>1 DEF CacheTypes
  <1>3. LockTypes'
    BY LockAssumption DEF LockTypes
  <1>4. NoResult \in [code : Errors \union {"none", "ok"}, snap : Snapshots \union {None}]
    BY DEF NoResult
  <1>5. result' \in [Threads -> [code : Errors \union {"none", "ok"}, snap : Snapshots \union {None}]]
    BY <1>4 DEF ThreadTypes
  <1>6. want' \in [Threads -> Listings \union {None}]
    BY DEF ThreadTypes
  <1>7. \A u \in Threads : rpc'[u] # "idle" => want'[u] \in Listings
    BY DEF ThreadTypes
  <1>8. ThreadTypes'
    BY <1>1, <1>5, <1>6, <1>7 DEF ThreadTypes, Listings
  <1>9. QED
    BY <1>2, <1>3, <1>8

LEMMA LoadTypes ==
    ASSUME CInv, NEW t \in Threads, Load(t)
    PROVE  LoaderTypes'
  <1> USE DEF CInv, LoaderTypes
  <1>0. /\ want \in [Threads -> Listings \union {None}]
        /\ rpc[t] # "idle" => want[t] \in Listings
        /\ want = [want EXCEPT ![t] = want[t]]
    BY DEF ThreadTypes
  <1>1. CASE Resolve(t)
    <2>1. anchor \in Listings
      BY DEF B!TypeOK, Listings
    <2>2. want' = [want EXCEPT ![t] = want'[t]] /\ want'[t] \in Listings
      BY <1>0, <1>1, <2>1 DEF Resolve
    <2>3. QED
      BY <1>1, <2>2, MoveTypes DEF Resolve, Goto
  <1>2. CASE ResolveFails(t)
    BY <1>2, RaiseTypes DEF ResolveFails, Errors
  <1>3. CASE Trust(t)
    <2>1. CASE Raise(t, "trusted_manifest_mismatch")
      BY <1>3, <2>1, RaiseTypes DEF Trust, Errors
    <2>2. CASE Goto(t, "trusted") /\ UNCHANGED <<unchecked, got, result>>
      BY <1>0, <1>3, <2>2, MoveTypes DEF Trust, Goto
    <2>3. QED
      BY <1>3, <2>1, <2>2 DEF Trust
  <1>4. CASE UseValidated(t)
    <2>1. validated.snap \in Snapshots' /\ loadCount' = loadCount /\ Snapshots' = Snapshots
      BY <1>4 DEF UseValidated, Fresh, CacheTypes, Snapshots
    <2>2. ThreadTypes' /\ rpc' = [rpc EXCEPT ![t] = "idle"]
      BY <1>4, <2>1, EndTypes DEF UseValidated, Return
    <2>3. CacheTypes'
      BY <1>4, <2>1 DEF UseValidated, CacheTypes
    <2>4. LockTypes'
      BY <1>4, <2>2 DEF UseValidated, LockTypes, LInv, Shape
    <2>5. QED
      BY <2>2, <2>3, <2>4
  <1>5. CASE StatFails(t)
    BY <1>5, RaiseTypes DEF StatFails, Errors
  <1>6. CASE StartHashing(t)
    BY <1>0, <1>6, MoveTypes DEF StartHashing, Goto
  <1>7. CASE ReadFile(t)
    BY <1>7 DEF ReadFile, ThreadTypes, CacheTypes, LockTypes, Snapshots
  <1>8. CASE ReadFails(t)
    BY <1>8, RaiseTypes DEF ReadFails, Errors
  <1>9. CASE TakePublished(t)
    BY <1>9, TakePublishedTypes
  <1>10. CASE StartPublishing(t)
    BY <1>0, <1>10, MoveTypes DEF StartPublishing, MayLock, Goto
  <1>11. CASE ManifestMoved(t)
    BY <1>11, RaiseTypes DEF ManifestMoved, MayLock, Errors
  <1>12. CASE Publish(t)
    BY <1>12, PublishTypes
  <1>13. CASE AttestationMissing(t)
    BY <1>13, RaiseTypes DEF AttestationMissing, Errors
  <1>14. QED
    BY <1>1, <1>2, <1>3, <1>4, <1>5, <1>6, <1>7, <1>8, <1>9, <1>10, <1>11, <1>12, <1>13
       DEF Load, Continue

\* A load touches neither the disk nor the count of its changes.
LEMMA LoadLeavesDisk ==
    ASSUME NEW t \in Threads, Load(t)
    PROVE  UNCHANGED <<builder, changes>>
  BY DEF Load, Continue, Resolve, ResolveFails, Trust, UseValidated, StatFails, StartHashing,
         ReadFile, ReadFails, TakePublished, StartPublishing, ManifestMoved, Publish,
         AttestationMissing, Disk

LEMMA InitTypes == Init => CInv
  <1> SUFFICES ASSUME Init PROVE CInv
    OBVIOUS
  <1>1. LInv
    BY InitKeeps
  <1>2. B!TypeOK
    <2>1. P!Init
      BY DEF Init, B!Init, P!Init, B!Built, P!Built, B!Names, P!Names
    <2>2. P!TypeOK
      BY <2>1, DiskAssumption, P!InitType DEF B!Names, P!Names, P!Listings, B!Listings, Listings
    <2>3. QED
      BY <2>2, DiskTypeIsTheBuilders
  <1>3. ThreadTypes
    BY DEF Init, ThreadTypes, NoResult
  <1>4. CacheTypes
    <2>1. <<>> \in Seq(Snapshots) /\ Len(<<>>) = 0
      BY EmptySeq, LenProperties
    <2>2. QED
      BY <2>1, LoadingAssumption DEF Init, CacheTypes
  <1>5. LockTypes /\ changes \in 0 .. MaxChanges
    BY LockAssumption, LoadingAssumption DEF Init, LockTypes
  <1>6. QED
    BY <1>1, <1>2, <1>3, <1>4, <1>5 DEF CInv, LoaderTypes

\* Whatever the disk does, the threads hold listings, the lock has the one holder
\* that is in its second pass, and the published cache stays within its limit.
THEOREM LoadingTypes == Spec => []TypeOK
  <1>1. CInv /\ [Next]_vars => CInv'
    <2> SUFFICES ASSUME CInv, [Next]_vars PROVE CInv'
      OBVIOUS
    <2>1. CASE \E t \in Threads : Load(t)
      <3>1. PICK t \in Threads : Load(t)
        BY <2>1
      <3>2. LInv' /\ LoaderTypes'
        BY <3>1, LoadKeeps, LoadTypes DEF CInv
      <3>3. B!TypeOK' /\ changes' = changes
        BY <3>1, LoadLeavesDisk DEF CInv, builder, B!TypeOK
      <3>4. QED
        BY <3>2, <3>3 DEF CInv
    <2>2. CASE Rebuild \/ Builder \/ Edit \/ Reanchor
      <3>1. UNCHANGED loader /\ B!TypeOK'
        BY <2>2, DiskTypes DEF CInv, Rebuild, Builder, Edit, Reanchor
      <3>2. LInv' /\ LoaderTypes'
        BY <3>1, DiskKeeps DEF CInv, loader, LoaderTypes, ThreadTypes, CacheTypes, LockTypes, Snapshots
      <3>3. changes' \in 0 .. MaxChanges
        BY <2>2, LoadingAssumption DEF CInv, Change, Rebuild, Builder, Edit, Reanchor
      <3>4. QED
        BY <3>1, <3>2, <3>3 DEF CInv
    <2>3. CASE UNCHANGED vars
      <3>1. UNCHANGED loader /\ UNCHANGED builder /\ changes' = changes
        BY <2>3 DEF vars
      <3>2. LInv' /\ LoaderTypes'
        BY <3>1, DiskKeeps DEF CInv, loader, LoaderTypes, ThreadTypes, CacheTypes, LockTypes, Snapshots
      <3>3. QED
        BY <3>1, <3>2 DEF CInv, builder, B!TypeOK
    <2>4. QED
      BY <2>1, <2>2, <2>3 DEF Next
  <1>2. QED
    BY <1>1, InitTypes, CInvTypes, PTL DEF Spec
=============================================================================
