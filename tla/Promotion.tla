------------------------------ MODULE Promotion ------------------------------
(***************************************************************************)
(* `rebuild_uud_artifact_baseline`: build a corpus into a stage directory, *)
(* validate it, promote it file by file over the final directory, then     *)
(* re-align the trust anchor in data/corpus_registry.json.                 *)
(*                                                                         *)
(* A directory maps a file name to its content.  File names are numbers:   *)
(* their order is the order of `sorted(stage_dir.iterdir())`.  Every file  *)
(* but the manifest is an artifact; the manifest's content is its listing, *)
(* artifact -> content (standing for size and sha256; Absent: not listed). *)
(* The trust anchor is the sha256 of a manifest, hence a listing.          *)
(*                                                                         *)
(* One builder runs at a time: pipeline.py says so ("one build per final   *)
(* directory").  Faults are a PermissionError on a rename or on the clean- *)
(* up, any other exception, KeyboardInterrupt, and the death of the        *)
(* process between any two steps.                                          *)
(***************************************************************************)
EXTENDS Naturals

CONSTANTS Artifacts,    \* artifact file names, by position in sorted order
          ManifestName, \* the position of manifest.json among them
          Contents,     \* contents an artifact may have
          Absent,       \* no such file / not listed
          Outputs,      \* listings a build may produce
          Valid,        \* listings whose stage passes validate_uud_artifact_dir
          MaxAttempts,  \* tries of one rename (10 in the code)
          Crashes       \* may the builder process die?

Names == Artifacts \union {ManifestName}
Listings == [Artifacts -> Contents \union {Absent}]

ASSUME NamesAssumption == Names \subseteq Nat /\ ManifestName \notin Artifacts
ASSUME ContentsAssumption == Absent \notin Contents /\ Absent \notin Listings
ASSUME OutputsAssumption == Outputs \subseteq Listings /\ Valid \subseteq Listings
ASSUME AttemptsAssumption == MaxAttempts \in Nat \ {0}
ASSUME CrashesAssumption == Crashes \in BOOLEAN

VARIABLES
    final,     \* the final directory
    stage,     \* the stage directory as built; `todo` says what has not been renamed yet
    snapshot,  \* the copy of `final` taken when the build started
    tmp,       \* the temporary directory that holds stage and snapshot
    registry,  \* is the registry file whole or truncated?
    anchor,    \* the manifest digest last written to the registry
    pc,        \* where the builder is
    todo,      \* staged files not promoted yet
    promoted,  \* files renamed over the final directory and not restored
    attempt,   \* failed tries of the current rename
    outcome    \* how the last rebuild ended, or how far it got

vars == <<final, stage, snapshot, tmp, registry, anchor, pc, todo, promoted, attempt, outcome>>
disk == <<final, registry, anchor>>

-----------------------------------------------------------------------------
(* What a reader makes of the disk.                                        *)

\* The registry parses and its digest is that of the manifest on disk.
Trusted == registry = "whole" /\ final[ManifestName] = anchor

\* Every listed artifact has the listed content.
Intact(dir) ==
    \A a \in Artifacts : dir[ManifestName][a] # Absent => dir[a] = dir[ManifestName][a]

Loadable == Trusted /\ Intact(final)

\* Mutant: only files the final directory already had.
PresentBefore(dir) == {n \in Names : dir[n] # Absent /\ snapshot[n] # Absent}

\* The regular files directly in a directory.
Present(dir) == {n \in Names : dir[n] # Absent}

\* The directory a build leaves behind: it overwrites what it lists, keeps the
\* other files it was given, and refreshes the manifest last.
Built(dir, out) ==
    [n \in Names |-> IF n = ManifestName THEN out
                     ELSE IF out[n] = Absent THEN dir[n] ELSE out[n]]

Directories ==
    {d \in [Names -> Contents \union Listings \union {Absent}] :
        /\ d[ManifestName] \in Listings
        /\ \A a \in Artifacts : d[a] \in Contents \union {Absent}}

TypeOK ==
    /\ final \in Directories /\ stage \in Directories /\ snapshot \in Directories
    /\ tmp \in {"none", "live", "abandoned"}
    /\ registry \in {"whole", "torn"}
    /\ anchor \in Listings
    /\ pc \in {"idle", "building", "validating", "promoting", "restoring",
               "refreshing", "writing"}
    /\ todo \subseteq Names /\ promoted \subseteq Names
    /\ attempt \in 0 .. MaxAttempts - 1
    /\ outcome \in {"none", "refused", "failed", "invalid", "rolled_back",
                    "rollback_failed", "interrupted", "promoted", "aligned"}

\* The repository as checked in: one validated set, anchored.
Init ==
    /\ \E out \in Valid :
        /\ final = Built([n \in Names |-> Absent], out)
        /\ anchor = out
    /\ stage = final /\ snapshot = final
    /\ tmp = "none" /\ registry = "whole" /\ pc = "idle"
    /\ todo = {} /\ promoted = {} /\ attempt = 0 /\ outcome = "none"

-----------------------------------------------------------------------------
(* rebuild_uud_artifact_baseline up to the promotion.                      *)

\* resolve or require_canonical_build_environment raises, always when the
\* manifest is not trusted, else when this host's extractor differs from the one
\* the manifest names: nothing is touched.
Refuse ==
    /\ pc = "idle"
    /\ outcome' = "refused"
    /\ UNCHANGED <<disk, stage, snapshot, tmp, pc, todo, promoted, attempt>>

\* The manifest is trusted: abandoned stages are removed, and the final
\* directory is copied to a new stage and a new snapshot.
Start ==
    /\ pc = "idle" /\ Trusted
    /\ stage' = final /\ snapshot' = final
    /\ tmp' = "live" /\ pc' = "building"
    /\ todo' = {} /\ promoted' = {} /\ attempt' = 0 /\ outcome' = "none"
    /\ UNCHANGED disk

Build(out) ==
    /\ pc = "building"
    /\ stage' = Built(stage, out)
    /\ pc' = "validating"
    /\ UNCHANGED <<disk, snapshot, tmp, todo, promoted, attempt, outcome>>

\* Leave the `with` block by an exception: the temporary directory goes, and
\* with it stage and snapshot.
Leave(how) ==
    /\ pc' = "idle" /\ tmp' = "none" /\ outcome' = how

BuildFails ==
    /\ pc = "building"
    /\ Leave("failed")
    /\ UNCHANGED <<disk, stage, snapshot, todo, promoted, attempt>>

Accept ==
    /\ pc = "validating" /\ stage[ManifestName] \in Valid
    /\ pc' = "promoting"
    /\ todo' = Present(stage) /\ promoted' = {} /\ attempt' = 0
    /\ UNCHANGED <<disk, stage, snapshot, tmp, outcome>>

\* Mutant: a stage with errors goes the way of an accepted one.
RejectPromotesAnyway ==
    /\ pc = "validating" /\ stage[ManifestName] \notin Valid
    /\ pc' = "promoting"
    /\ todo' = Present(stage) /\ promoted' = {} /\ attempt' = 0
    /\ UNCHANGED <<disk, stage, snapshot, tmp, outcome>>

Reject ==
    /\ pc = "validating" /\ stage[ManifestName] \notin Valid
    /\ Leave("invalid")
    /\ UNCHANGED <<disk, stage, snapshot, todo, promoted, attempt>>

-----------------------------------------------------------------------------
(* atomic_promote_artifacts: one rename per staged file, in sorted order.  *)

\* n is the first file of S in sorted order.
FirstOf(n, S) == n \in S /\ \A m \in S : n <= m

Replace ==
    \E n \in todo :
        /\ pc = "promoting" /\ FirstOf(n, todo)
        /\ final' = [final EXCEPT ![n] = stage[n]]
        /\ todo' = todo \ {n} /\ promoted' = promoted \union {n}
        /\ attempt' = 0
        /\ UNCHANGED <<stage, snapshot, tmp, registry, anchor, pc, outcome>>

\* Mutant: the retry loop starts over instead of giving up.
RetriesForever ==
    /\ pc = "promoting" /\ todo # {}
    /\ attempt' = (attempt + 1) % MaxAttempts
    /\ UNCHANGED <<disk, stage, snapshot, tmp, pc, todo, promoted, outcome>>

\* Mutant: one try too many.
RetryOnceMore ==
    /\ pc = "promoting" /\ todo # {} /\ attempt < MaxAttempts
    /\ attempt' = attempt + 1
    /\ UNCHANGED <<disk, stage, snapshot, tmp, pc, todo, promoted, outcome>>

\* PermissionError: the rename is tried again, up to the last attempt.
Retry ==
    /\ pc = "promoting" /\ todo # {} /\ attempt < MaxAttempts - 1
    /\ attempt' = attempt + 1
    /\ UNCHANGED <<disk, stage, snapshot, tmp, pc, todo, promoted, outcome>>

\* Mutant: the exception is swallowed, and the rebuild goes on.
ReplaceFailsSwallowed ==
    /\ pc = "promoting" /\ todo # {}
    /\ pc' = "refreshing" /\ tmp' = "none"
    /\ UNCHANGED <<disk, stage, snapshot, todo, promoted, attempt, outcome>>

\* The last PermissionError, or any other Exception, starts the roll-back.
ReplaceFails ==
    /\ pc = "promoting" /\ todo # {}
    /\ pc' = "restoring"
    /\ UNCHANGED <<disk, stage, snapshot, tmp, todo, promoted, attempt, outcome>>

\* KeyboardInterrupt is no Exception: nothing is rolled back.
Interrupt ==
    /\ pc \in {"promoting", "restoring"}
    /\ Leave("interrupted")
    /\ UNCHANGED <<disk, stage, snapshot, todo, promoted, attempt>>

\* Mutant: a file the snapshot never had is skipped instead of raising.
RestoreSkippingNew ==
    \E n \in promoted :
        /\ pc = "restoring" /\ FirstOf(n, promoted)
        /\ final' = [final EXCEPT ![n] = IF snapshot[n] = Absent THEN @ ELSE snapshot[n]]
        /\ promoted' = promoted \ {n}
        /\ UNCHANGED <<stage, snapshot, tmp, registry, anchor, pc, todo, attempt, outcome>>

\* The renames of the `except` block, in the order the files were promoted.
Restore ==
    \E n \in promoted :
        /\ pc = "restoring" /\ FirstOf(n, promoted) /\ snapshot[n] # Absent
        /\ final' = [final EXCEPT ![n] = snapshot[n]]
        /\ promoted' = promoted \ {n}
        /\ UNCHANGED <<stage, snapshot, tmp, registry, anchor, pc, todo, attempt, outcome>>

\* A restoring rename raises (it is not retried, and a file the snapshot never
\* had raises FileNotFoundError): the rest of the roll-back is skipped.
RestoreFails ==
    /\ pc = "restoring" /\ promoted # {}
    /\ Leave("rollback_failed")
    /\ UNCHANGED <<disk, stage, snapshot, todo, promoted, attempt>>

RolledBack ==
    /\ pc = "restoring" /\ promoted = {}
    /\ Leave("rolled_back")
    /\ UNCHANGED <<disk, stage, snapshot, todo, promoted, attempt>>

PromoteDone ==
    /\ pc = "promoting" /\ todo = {}
    /\ pc' = "refreshing" /\ tmp' = "none" /\ outcome' = "promoted"
    /\ UNCHANGED <<disk, stage, snapshot, todo, promoted, attempt>>

\* All files are promoted, and removing the temporary directory raises: the
\* exception leaves atomic_promote_artifacts, so the anchor is not refreshed.
\* What _remove_stage_dir cannot remove either stays behind.
CleanupFails ==
    /\ pc = "promoting" /\ todo = {}
    /\ pc' = "idle" /\ tmp' \in {"none", "abandoned"} /\ outcome' = "promoted"
    /\ UNCHANGED <<disk, stage, snapshot, todo, promoted, attempt>>

-----------------------------------------------------------------------------
(* _refresh_trusted_manifest_digest: write_json truncates, then writes.    *)

TruncateRegistry ==
    /\ pc = "refreshing"
    /\ registry' = "torn" /\ pc' = "writing"
    /\ UNCHANGED <<final, anchor, stage, snapshot, tmp, todo, promoted, attempt, outcome>>

WriteAnchor ==
    /\ pc = "writing"
    /\ registry' = "whole" /\ anchor' = final[ManifestName]
    /\ pc' = "idle" /\ outcome' = "aligned"
    /\ UNCHANGED <<final, stage, snapshot, tmp, todo, promoted, attempt>>

\* The process dies, or writing the registry raises; a live temporary directory
\* is left behind.
Crash ==
    /\ Crashes /\ pc # "idle"
    /\ pc' = "idle"
    /\ tmp' = IF tmp = "live" THEN "abandoned" ELSE tmp
    /\ UNCHANGED <<disk, stage, snapshot, todo, promoted, attempt, outcome>>

\* What the builder does of its own accord once a rebuild has started.
Step ==
    \/ \E out \in Outputs : Build(out)
    \/ BuildFails \/ Accept \/ Reject
    \/ Replace \/ Retry \/ ReplaceFails \/ Interrupt
    \/ Restore \/ RestoreFails \/ RolledBack
    \/ PromoteDone \/ CleanupFails
    \/ TruncateRegistry \/ WriteAnchor

Next == Start \/ Refuse \/ Step \/ Crash

Spec == Init /\ [][Next]_vars

\* A running builder process keeps executing; nobody has to start one.
FairSpec == Spec /\ WF_vars(Step)

-----------------------------------------------------------------------------
(* Properties.                                                             *)

\* A rebuild that ends in a build error, a validation error or a completed
\* roll-back leaves the final directory exactly as it found it, still trusted.
ErrorsLeaveFinalAlone ==
    pc = "idle" /\ outcome \in {"failed", "invalid", "rolled_back"}
        => final = snapshot /\ Trusted

\* A rebuild that reports success leaves a set the runtime can load, whatever
\* half-promoted directory an earlier crash or interrupt left it to start from.
AlignedIsLoadable ==
    pc = "idle" /\ outcome = "aligned" => Loadable

\* When a rebuild leaves a manifest that the (whole) registry does not trust,
\* that manifest is the one of the last accepted stage: the promotion got past
\* manifest.json and never reached the anchor.
UntrustedIsLatePromotion ==
    pc = "idle" /\ registry = "whole" /\ ~Trusted
        => final[ManifestName] = stage[ManifestName] /\ final[ManifestName] \in Valid

\* The pipeline keeps the promise of ArtifactPublication: the anchor moves only
\* to the last candidate, if the validator accepted it, with every listed file
\* in place, and only while readers are refused.
Publication == INSTANCE ArtifactPublication
                 WITH open <- Loadable, current <- anchor, candidate <- stage[ManifestName]
PublicationSpec == Publication!Spec

\* A rebuild that started ends: retries are bounded and the roll-back too.
PromotionEnds == pc # "idle" ~> pc = "idle"

\* The docstring of _refresh_trusted_manifest_digest: "Keep the runtime trust
\* anchor aligned with a successful staged build."
AnchorFollowsPromotion ==
    pc = "idle" /\ outcome \in {"promoted", "aligned"} => Trusted
=============================================================================
