---------------------------- MODULE CorpusLoading ----------------------------
(***************************************************************************)
(* VerifiedCorpusRepository.load, run by the request threads of one        *)
(* process against a disk that a rebuild (module Promotion) and an         *)
(* operator's hand change at the same time.                                *)
(*                                                                         *)
(* A load reads the registry, checks the manifest against the trust        *)
(* anchor, and then either returns the repository's validated snapshot,    *)
(* if the files' stat signature is the one recorded with it, or hashes     *)
(* every listed file and, under the process-wide lock, takes the published *)
(* snapshot of that digest or publishes one from bytes it hashes again.    *)
(* Each read of a file is a step of its own.                               *)
(*                                                                         *)
(* A file's stat (size, mtime_ns) stands for its content: every write of   *)
(* other bytes changes it.  The server has one repository per process      *)
(* (runtime/http.py), so `validated` is one cell.                          *)
(***************************************************************************)
EXTENDS Naturals, SequencesExt

CONSTANTS Artifacts, ManifestName, Contents, Absent, Outputs, Valid,
          MaxAttempts, Crashes,
          Attested,       \* listings whose validation report attests them
          Threads, None,
          PublishedLimit, \* _published_snapshot_limit
          MaxChanges      \* bound on the rebuilds and edits of a behaviour

VARIABLES final, stage, snapshot, tmp, registry, anchor, pc, todo, promoted,
          attempt, outcome,          \* the disk and the builder
          rpc,        \* where each thread is in load
          want,       \* the manifest digest its config carries
          unchecked,  \* listed files it has not hashed yet in this pass
          got,        \* what it parsed from the files it has hashed
          lock,       \* the holder of _published_lock
          published,  \* _published_snapshots, least recently used first
          validated,  \* _validated[corpus_id]: snapshot and stat signature
          loadCount,  \* load_count
          result,     \* what the thread's last load returned or raised
          changes     \* rebuilds and edits so far

B == INSTANCE Promotion

builder == <<final, stage, snapshot, tmp, registry, anchor, pc, todo, promoted, attempt, outcome>>
loader == <<rpc, want, unchecked, got, lock, published, validated, loadCount, result>>
vars == <<builder, loader, changes>>

Listings == B!Listings

\* The assumptions of Promotion on its constants.
ASSUME DiskAssumption ==
    /\ B!Names \subseteq Nat /\ ManifestName \notin Artifacts
    /\ Absent \notin Contents /\ Absent \notin Listings
    /\ Outputs \subseteq Listings /\ Valid \subseteq Listings
    /\ MaxAttempts \in Nat \ {0} /\ Crashes \in BOOLEAN
ASSUME LoadingAssumption ==
    /\ Attested \subseteq Listings /\ Valid \subseteq Attested
    /\ PublishedLimit \in Nat \ {0} /\ MaxChanges \in Nat
ASSUME LockAssumption == None \notin Threads

Errors == {"registry_unavailable", "trusted_manifest_mismatch", "artifact_missing",
           "artifact_sha256_mismatch", "runtime_validation_attestation_missing"}

Snapshots == [id : 1 .. loadCount, listing : Listings, data : Listings]

TypeOK ==
    /\ B!TypeOK
    /\ rpc \in [Threads -> {"idle", "resolved", "trusted", "hashing", "publishing"}]
    /\ want \in [Threads -> Listings \union {None}]
    /\ unchecked \in [Threads -> SUBSET Artifacts]
    /\ got \in [Threads -> Listings]
    /\ lock \in Threads \union {None}
    /\ \A t \in Threads : rpc[t] = "publishing" <=> lock = t
    /\ published \in Seq(Snapshots) /\ Len(published) <= PublishedLimit
    /\ validated \in {None} \union [snap : Snapshots, signature : Listings]
    /\ loadCount \in Nat
    /\ result \in [Threads -> [code : Errors \union {"none", "ok"}, snap : Snapshots \union {None}]]
    /\ changes \in 0 .. MaxChanges

NoFiles == [a \in Artifacts |-> Absent]
NoResult == [code |-> "none", snap |-> None]

Init ==
    /\ B!Init
    /\ rpc = [t \in Threads |-> "idle"] /\ want = [t \in Threads |-> None]
    /\ unchecked = [t \in Threads |-> {}] /\ got = [t \in Threads |-> NoFiles]
    /\ lock = None /\ published = <<>> /\ validated = None
    /\ loadCount = 0 /\ result = [t \in Threads |-> NoResult]
    /\ changes = 0

-----------------------------------------------------------------------------
(* One thread's load.                                                      *)

Listed(l) == {a \in Artifacts : l[a] # Absent}

\* _artifact_stat_signature over the listed files; it raises artifact_missing
\* when one of them is not there.
Signature(l) == [a \in Artifacts |-> IF l[a] = Absent THEN Absent ELSE final[a]]
Missing(l) == \E a \in Listed(l) : final[a] = Absent

Goto(t, where) == rpc' = [rpc EXCEPT ![t] = where]

\* The load of thread t ends.
End(t, code, s) ==
    /\ Goto(t, "idle")
    /\ result' = [result EXCEPT ![t] = [code |-> code, snap |-> s]]
    /\ unchecked' = [unchecked EXCEPT ![t] = {}] /\ got' = [got EXCEPT ![t] = NoFiles]

Return(t, s) == End(t, "ok", s)
Raise(t, code) == End(t, code, None)

Disk == UNCHANGED <<builder, changes>>

\* CorpusRegistry.resolve: the config carries the anchor it read.
Resolve(t) ==
    /\ rpc[t] = "idle" /\ registry = "whole"
    /\ want' = [want EXCEPT ![t] = anchor]
    /\ result' = [result EXCEPT ![t] = NoResult]
    /\ Goto(t, "resolved")
    /\ Disk /\ UNCHANGED <<unchecked, got, lock, published, validated, loadCount>>

\* A truncated registry does not parse.
ResolveFails(t) ==
    /\ rpc[t] = "idle" /\ registry = "torn"
    /\ Raise(t, "registry_unavailable")
    /\ Disk /\ UNCHANGED <<want, lock, published, validated, loadCount>>

\* _read_trusted_manifest.
Trust(t) ==
    /\ rpc[t] = "resolved"
    /\ \/ /\ final[ManifestName] = want[t]
          /\ Goto(t, "trusted")
          /\ UNCHANGED <<unchecked, got, result>>
       \/ /\ final[ManifestName] # want[t]
          /\ Raise(t, "trusted_manifest_mismatch")
    /\ Disk /\ UNCHANGED <<want, lock, published, validated, loadCount>>

\* Mutant: the stat signature alone decides.
FreshBySignature(l) ==
    validated # None /\ validated.signature = Signature(validated.snap.listing)

\* The validated snapshot has the digest asked for, and no file changed.
Fresh(l) ==
    /\ validated # None /\ validated.snap.listing = l
    /\ validated.signature = Signature(l)

UseValidated(t) ==
    /\ rpc[t] = "trusted" /\ Fresh(want[t])
    /\ Return(t, validated.snap)
    /\ Disk /\ UNCHANGED <<want, lock, published, validated, loadCount>>

\* The stat of an entry with the digest asked for raises.
StatFails(t) ==
    /\ rpc[t] = "trusted" /\ validated # None
    /\ validated.snap.listing = want[t] /\ Missing(want[t])
    /\ Raise(t, "artifact_missing")
    /\ Disk /\ UNCHANGED <<want, lock, published, validated, loadCount>>

\* _verify_artifact_integrity starts.
StartHashing(t) ==
    /\ rpc[t] = "trusted" /\ ~Fresh(want[t])
    /\ validated # None /\ validated.snap.listing = want[t] => ~Missing(want[t])
    /\ Goto(t, "hashing")
    /\ unchecked' = [unchecked EXCEPT ![t] = Listed(want[t])]
    /\ Disk /\ UNCHANGED <<want, got, lock, published, validated, loadCount, result>>

\* a is the next file of the pass that t is in.
NextFile(t, a) == rpc[t] \in {"hashing", "publishing"} /\ B!FirstOf(a, unchecked[t])

\* Mutant: the second pass takes the first pass's word for it.
ReadFileUnhashed(t) ==
    /\ \E a \in unchecked[t] :
        /\ NextFile(t, a) /\ (rpc[t] = "hashing" => final[a] = want[t][a])
        /\ unchecked' = [unchecked EXCEPT ![t] = @ \ {a}]
        /\ got' = [got EXCEPT ![t][a] = IF rpc[t] = "publishing" THEN final[a] ELSE @]
    /\ Disk /\ UNCHANGED <<rpc, want, lock, published, validated, loadCount, result>>

\* verified_file_bytes matches the file's record; the publishing pass parses
\* the very bytes it hashed.
ReadFile(t) ==
    /\ \E a \in unchecked[t] :
        /\ NextFile(t, a) /\ final[a] = want[t][a]
        /\ unchecked' = [unchecked EXCEPT ![t] = @ \ {a}]
        /\ got' = [got EXCEPT ![t][a] = IF rpc[t] = "publishing" THEN final[a] ELSE @]
    /\ Disk /\ UNCHANGED <<rpc, want, lock, published, validated, loadCount, result>>

Release(t) == lock' = IF lock = t THEN None ELSE lock

\* Mutant: the exception path keeps the lock.
ReadFailsHoldingLock(t) ==
    /\ \E a \in unchecked[t] :
        /\ NextFile(t, a) /\ final[a] # want[t][a]
        /\ Raise(t, IF final[a] = Absent THEN "artifact_missing" ELSE "artifact_sha256_mismatch")
    /\ Disk /\ UNCHANGED <<want, lock, published, validated, loadCount>>

\* It does not match: the exception leaves load, and the `with` block.
ReadFails(t) ==
    /\ \E a \in unchecked[t] :
        /\ NextFile(t, a) /\ final[a] # want[t][a]
        /\ Raise(t, IF final[a] = Absent THEN "artifact_missing" ELSE "artifact_sha256_mismatch")
    /\ Release(t)
    /\ Disk /\ UNCHANGED <<want, published, validated, loadCount>>

-----------------------------------------------------------------------------
(* Under _published_lock.                                                  *)

\* The first pass is over, and the lock is free.
MayLock(t) == rpc[t] = "hashing" /\ unchecked[t] = {} /\ lock = None

IsPublished(l) == \E i \in DOMAIN published : published[i].listing = l

\* The stat signature of the files as they are now is recorded with s, which
\* is returned; the stat of a missing file raises instead.
Record(t, s) ==
    \/ /\ ~Missing(s.listing)
       /\ validated' = [snap |-> s, signature |-> Signature(s.listing)]
       /\ Return(t, s)
    \/ /\ Missing(s.listing)
       /\ Raise(t, "artifact_missing")
       /\ UNCHANGED validated

\* The digest is published already: move_to_end.
TakePublished(t) ==
    /\ MayLock(t)
    /\ \E i \in DOMAIN published :
        LET s == published[i] IN
        /\ s.listing = want[t]
        /\ published' = Append(RemoveAt(published, i), s)
        /\ Record(t, s)
    /\ Disk /\ UNCHANGED <<want, lock, loadCount>>

\* Mutant: the cache is not consulted again once the lock is held.
StartPublishingUnasked(t) ==
    /\ MayLock(t) /\ final[ManifestName] = want[t]
    /\ Goto(t, "publishing") /\ lock' = t
    /\ unchecked' = [unchecked EXCEPT ![t] = Listed(want[t])]
    /\ Disk /\ UNCHANGED <<want, got, published, validated, loadCount, result>>

\* It is not: verify_and_publish reads the manifest again and starts over.
StartPublishing(t) ==
    /\ MayLock(t) /\ ~IsPublished(want[t]) /\ final[ManifestName] = want[t]
    /\ Goto(t, "publishing") /\ lock' = t
    /\ unchecked' = [unchecked EXCEPT ![t] = Listed(want[t])]
    /\ Disk /\ UNCHANGED <<want, got, published, validated, loadCount, result>>

\* The manifest is another one by now.
ManifestMoved(t) ==
    /\ MayLock(t) /\ ~IsPublished(want[t]) /\ final[ManifestName] # want[t]
    /\ Raise(t, "trusted_manifest_mismatch")
    /\ Disk /\ UNCHANGED <<want, lock, published, validated, loadCount>>

\* Mutant: the report is taken at its word.
IsAttestedAlways(l) == l \in Listings

\* _runtime_attestation: the report's status and its digest of the other files.
IsAttested(l) == l \in Attested

\* Mutant: the eviction loop stops one entry late.
PublishEvictingLate(t) ==
    /\ rpc[t] = "publishing" /\ unchecked[t] = {} /\ IsAttested(want[t])
    /\ LET s == [id |-> loadCount + 1, listing |-> want[t], data |-> got[t]]
           cache == Append(published, s)
       IN  /\ published' = IF Len(cache) > PublishedLimit + 1 THEN Tail(cache) ELSE cache
           /\ Record(t, s)
    /\ loadCount' = loadCount + 1 /\ Release(t)
    /\ Disk /\ UNCHANGED want

\* Every file was hashed and parsed: publish and evict; the signature recorded
\* is that of the files as they are now, not as they were read.
Publish(t) ==
    /\ rpc[t] = "publishing" /\ unchecked[t] = {} /\ IsAttested(want[t])
    /\ LET s == [id |-> loadCount + 1, listing |-> want[t], data |-> got[t]]
           cache == Append(published, s)
       IN  /\ published' = IF Len(cache) > PublishedLimit THEN Tail(cache) ELSE cache
           /\ Record(t, s)
    /\ loadCount' = loadCount + 1 /\ Release(t)
    /\ Disk /\ UNCHANGED want

AttestationMissing(t) ==
    /\ rpc[t] = "publishing" /\ unchecked[t] = {} /\ ~IsAttested(want[t])
    /\ Raise(t, "runtime_validation_attestation_missing")
    /\ Release(t)
    /\ Disk /\ UNCHANGED <<want, published, validated, loadCount>>

\* What a load does once it has started.
Continue(t) ==
    \/ Trust(t) \/ UseValidated(t) \/ StatFails(t) \/ StartHashing(t)
    \/ ReadFile(t) \/ ReadFails(t)
    \/ TakePublished(t) \/ StartPublishing(t) \/ ManifestMoved(t)
    \/ Publish(t) \/ AttestationMissing(t)

Load(t) == Resolve(t) \/ ResolveFails(t) \/ Continue(t)

-----------------------------------------------------------------------------
(* The disk changes under the server.                                      *)

Change == changes < MaxChanges /\ changes' = changes + 1

\* Rebuilds run in a process of their own (main of uud_artifact_baseline.py);
\* a refused one changes nothing that a load reads.
Rebuild ==
    /\ Change /\ B!Start
    /\ UNCHANGED loader

Builder == (B!Step \/ B!Crash) /\ UNCHANGED <<loader, changes>>

\* Somebody overwrites or deletes an artifact in place.
Edit ==
    /\ pc = "idle" /\ Change
    /\ \E a \in Artifacts, c \in Contents \union {Absent} :
        final[a] # c /\ final' = [final EXCEPT ![a] = c]
    /\ UNCHANGED <<stage, snapshot, tmp, registry, anchor, pc, todo, promoted, attempt,
                   outcome, loader>>

\* Somebody makes the manifest and the registry agree with the files by hand,
\* as tests/test_verified_corpus_contract.py does; nothing is validated.
Reanchor ==
    /\ pc = "idle" /\ Change
    /\ LET l == [a \in Artifacts |-> final[a]] IN
        /\ l # final[ManifestName] /\ final' = [final EXCEPT ![ManifestName] = l]
        /\ anchor' = l /\ registry' = "whole"
    /\ UNCHANGED <<stage, snapshot, tmp, pc, todo, promoted, attempt, outcome, loader>>

Next == (\E t \in Threads : Load(t)) \/ Rebuild \/ Builder \/ Edit \/ Reanchor

Spec == Init /\ [][Next]_vars

\* A request thread that can run keeps running.  Nothing is assumed about who
\* gets the lock next, nor that requests, rebuilds or edits ever come.
FairSpec == Spec /\ \A t \in Threads : WF_vars(Continue(t))

-----------------------------------------------------------------------------
(* Properties.                                                             *)

\* Whatever a load returns is what its manifest lists, byte for byte, although
\* every file is read twice and may be replaced in between; and its report
\* attests it.
Verified(s) ==
    s.listing \in Attested /\ \A a \in Listed(s.listing) : s.data[a] = s.listing[a]

ServedIsVerified == \A t \in Threads : result[t].snap # None => Verified(result[t].snap)

\* It is also the set the registry named when the load began, although the
\* caches are shared by threads that began before and after a promotion.
ServedIsAnchored ==
    \A t \in Threads : result[t].snap # None => result[t].snap.listing = want[t]

\* Threads that miss together publish once: no second snapshot is made of a set
\* whose snapshot is still in the process-wide cache.
PublishedOnce ==
    [][loadCount' # loadCount => ~IsPublished(published'[Len(published')].listing)]_vars

\* Whatever the disk does meanwhile, a load ends or meets a lock that another
\* thread holds, and a held lock is released: no path out of load keeps it.
LoadsEnd ==
    /\ \A t \in Threads : rpc[t] # "idle" ~> rpc[t] = "idle" \/ lock \notin {None, t}
    /\ lock # None ~> lock = None

\* test_cached_snapshot_rejects_integrity_mutation: once a listed file is not
\* what the manifest says, the cached snapshot is not returned.
CachedOnlyIfUnchanged ==
    \A t \in Threads :
        rpc[t] = "trusted" /\ Fresh(want[t])
            => \A a \in Listed(want[t]) : final[a] = want[t][a]
=============================================================================
