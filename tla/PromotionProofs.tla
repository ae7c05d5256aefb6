--------------------------- MODULE PromotionProofs ---------------------------
(***************************************************************************)
(* What Promotion guarantees for every set of files, every build output,   *)
(* every validator and every retry limit.                                  *)
(***************************************************************************)
EXTENDS Promotion, TLAPS

\* A listing is one of a set of functions with a fixed domain, so a directory
\* with one file replaced by a file of the same kind is a directory.
LEMMA DirectoryExcept ==
    ASSUME NEW d \in Directories, NEW e \in Directories, NEW n \in Names
    PROVE  [d EXCEPT ![n] = e[n]] \in Directories
  BY DEF Directories, Names

\* A build turns a directory into a directory.
LEMMA BuiltDirectory ==
    ASSUME NEW d \in Directories, NEW out \in Listings
    PROVE  Built(d, out) \in Directories
  <1> DEFINE b == Built(d, out)
  <1>1. b \in [Names -> Contents \union Listings \union {Absent}]
    BY DEF Directories, Names, Listings, Built
  <1>2. b[ManifestName] = out
    BY DEF Names, Built
  <1>3. ASSUME NEW a \in Artifacts
        PROVE  b[a] \in Contents \union {Absent}
    BY NamesAssumption DEF Directories, Names, Listings, Built
  <1>4. QED
    BY <1>1, <1>2, <1>3 DEF Directories

\* Its listed files have the listed content.
LEMMA BuiltIntact ==
    ASSUME NEW d \in Directories, NEW out \in Listings
    PROVE  Intact(Built(d, out)) /\ Built(d, out)[ManifestName] = out
  BY NamesAssumption DEF Intact, Built, Names, Directories, Listings

\* The manifest is a file like any other to the promotion loop.
LEMMA ManifestPresent ==
    ASSUME NEW d \in Directories
    PROVE  ManifestName \in Present(d)
  BY ContentsAssumption DEF Directories, Present, Names

-----------------------------------------------------------------------------
(* Type correctness.                                                       *)

LEMMA InitType == Init => TypeOK
  <1> SUFFICES ASSUME NEW out \in Valid,
                      final = Built([n \in Names |-> Absent], out),
                      anchor = out, stage = final, snapshot = final,
                      tmp = "none", registry = "whole", pc = "idle",
                      todo = {}, promoted = {}, attempt = 0, outcome = "none"
               PROVE  TypeOK
    BY DEF Init
  <1>1. out \in Listings
    BY OutputsAssumption
  <1>2. Built([n \in Names |-> Absent], out) \in Directories
    BY <1>1, NamesAssumption DEF Built, Directories, Names, Listings
  <1>3. attempt \in 0 .. MaxAttempts - 1
    BY AttemptsAssumption
  <1>4. QED
    BY <1>1, <1>2, <1>3 DEF TypeOK

LEMMA NextType == TypeOK /\ [Next]_vars => TypeOK'
  <1> SUFFICES ASSUME TypeOK, [Next]_vars
               PROVE  TypeOK'
    OBVIOUS
  <1> USE DEF TypeOK, disk
  <1>0. 0 \in 0 .. MaxAttempts - 1
    BY AttemptsAssumption
  <1>1. CASE Start
    BY <1>0, <1>1 DEF Start
  <1>2. CASE Refuse
    BY <1>2 DEF Refuse
  <1>3. ASSUME NEW out \in Outputs, Build(out)
        PROVE  TypeOK'
    <2>1. stage' \in Directories
      BY <1>3, BuiltDirectory, OutputsAssumption DEF Build
    <2>2. QED
      BY <1>3, <2>1 DEF Build
  <1>4. CASE Accept
    BY <1>0, <1>4 DEF Accept, Present
  <1>5. CASE Replace
    <2>1. PICK n \in todo : final' = [final EXCEPT ![n] = stage[n]]
                            /\ todo' = todo \ {n} /\ promoted' = promoted \union {n}
      BY <1>5 DEF Replace
    <2>2. final' \in Directories
      BY <2>1, DirectoryExcept
    <2>3. QED
      BY <1>0, <1>5, <2>1, <2>2 DEF Replace
  <1>6. CASE Retry
    <2>1. attempt' \in 0 .. MaxAttempts - 1
      BY <1>6, AttemptsAssumption DEF Retry
    <2>2. QED
      BY <1>6, <2>1 DEF Retry
  <1>7. CASE Restore
    <2>1. PICK n \in promoted : final' = [final EXCEPT ![n] = snapshot[n]]
                                /\ promoted' = promoted \ {n}
      BY <1>7 DEF Restore
    <2>2. final' \in Directories
      BY <2>1, DirectoryExcept
    <2>3. QED
      BY <1>7, <2>1, <2>2 DEF Restore
  <1>8. CASE WriteAnchor
    BY <1>8 DEF WriteAnchor, Directories
  <1>9. CASE BuildFails \/ Reject \/ Interrupt \/ RestoreFails \/ RolledBack \/ CleanupFails
    BY <1>9 DEF BuildFails, Reject, Interrupt, RestoreFails, RolledBack, CleanupFails, Leave
  <1>10. CASE ReplaceFails \/ PromoteDone \/ TruncateRegistry \/ Crash
    BY <1>10 DEF ReplaceFails, PromoteDone, TruncateRegistry, Crash
  <1>11. CASE UNCHANGED vars
    BY <1>11 DEF vars
  <1>12. QED
    BY <1>1, <1>2, <1>3, <1>4, <1>5, <1>6, <1>7, <1>8, <1>9, <1>10, <1>11 DEF Next, Step

\* Every state of the builder is well-typed: in particular a rename is tried at
\* most MaxAttempts times.
THEOREM TypeCorrect == Spec => []TypeOK
  BY InitType, NextType, PTL DEF Spec

-----------------------------------------------------------------------------
(* The inductive invariant: what each phase of a rebuild has left on disk.  *)

\* Up to the anchor's refresh the registry names the manifest of the snapshot.
AnchorIsSnapshot ==
    pc \in {"building", "validating", "promoting", "restoring"}
        => registry = "whole" /\ snapshot[ManifestName] = anchor

\* Nothing touches the final directory before the stage is accepted.
UntouchedBefore == pc \in {"building", "validating"} => final = snapshot

\* A stage that has been built is complete.
StageIntact ==
    pc \in {"validating", "promoting", "restoring", "refreshing", "writing"}
        => Intact(stage)

\* Each file is the stage's once promoted and the snapshot's otherwise.
Split ==
    pc \in {"promoting", "restoring"}
        => /\ stage[ManifestName] \in Valid
           /\ promoted \subseteq Present(stage)
           /\ \A n \in promoted : final[n] = stage[n]
           /\ \A n \in Names \ promoted : final[n] = snapshot[n]

TodoIsTheRest == pc = "promoting" => promoted = Present(stage) \ todo /\ todo \subseteq Present(stage)

\* Past the promotion, every staged file is in place.
AllPromoted ==
    pc \in {"refreshing", "writing"}
        => /\ stage[ManifestName] \in Valid
           /\ \A n \in Present(stage) : final[n] = stage[n]
           /\ registry = IF pc = "writing" THEN "torn" ELSE "whole"

OutcomePending == pc # "idle" => outcome \in {"none", "promoted"}

IInv ==
    /\ TypeOK
    /\ anchor \in Valid
    /\ AnchorIsSnapshot /\ UntouchedBefore /\ StageIntact
    /\ Split /\ TodoIsTheRest /\ AllPromoted /\ OutcomePending
    /\ ErrorsLeaveFinalAlone /\ AlignedIsLoadable /\ UntrustedIsLatePromotion

LEMMA InitInv == Init => IInv
  <1> SUFFICES ASSUME Init
               PROVE  IInv
    OBVIOUS
  <1>1. TypeOK
    BY InitType
  <1>2. anchor \in Valid /\ final[ManifestName] = anchor
    BY DEF Init, Built, Names
  <1>3. QED
    BY <1>1, <1>2 DEF Init, IInv, AnchorIsSnapshot, UntouchedBefore, StageIntact, Split,
       TodoIsTheRest, AllPromoted, OutcomePending, ErrorsLeaveFinalAlone,
       AlignedIsLoadable, UntrustedIsLatePromotion, Trusted

\* Once all staged files are in place, the final directory is as complete as
\* the stage was.
LEMMA PromotedIntact ==
    ASSUME TypeOK, Intact(stage), \A n \in Present(stage) : final[n] = stage[n]
    PROVE  Intact(final) /\ final[ManifestName] = stage[ManifestName]
  <1>1. final[ManifestName] = stage[ManifestName]
    BY ManifestPresent DEF TypeOK
  <1>2. ASSUME NEW a \in Artifacts, final[ManifestName][a] # Absent
        PROVE  final[a] = final[ManifestName][a]
    BY <1>1, <1>2 DEF Intact, Present, Names
  <1>3. QED
    BY <1>1, <1>2 DEF Intact

\* Wherever a promotion or a roll-back stops, an untrusted manifest is the
\* accepted stage's: a manifest not promoted is the snapshot's, the trusted one.
LEMMA StoppedPromotion ==
    ASSUME TypeOK, AnchorIsSnapshot, Split, pc \in {"promoting", "restoring"}
    PROVE  /\ ~Trusted => /\ final[ManifestName] = stage[ManifestName]
                          /\ final[ManifestName] \in Valid
           /\ promoted = {} => final = snapshot /\ Trusted
  <1>1. ManifestName \in Names
    BY DEF Names
  <1>2. ManifestName \notin promoted => Trusted
    BY <1>1 DEF Split, AnchorIsSnapshot, Trusted
  <1>3. ManifestName \in promoted => /\ final[ManifestName] = stage[ManifestName]
                                    /\ final[ManifestName] \in Valid
    BY DEF Split
  <1>4. ASSUME promoted = {}
        PROVE  final = snapshot
    BY <1>4 DEF Split, TypeOK, Directories
  <1>5. QED
    BY <1>2, <1>3, <1>4

LEMMA NextInv == IInv /\ [Next]_vars => IInv'
  <1> SUFFICES ASSUME IInv, [Next]_vars
               PROVE  IInv'
    OBVIOUS
  <1> USE DEF disk
  <1>0. TypeOK /\ TypeOK'
    BY NextType DEF IInv
  <1>1. CASE Start
    BY <1>0, <1>1 DEF Start, IInv, AnchorIsSnapshot, UntouchedBefore, StageIntact, Split,
       TodoIsTheRest, AllPromoted, OutcomePending, ErrorsLeaveFinalAlone,
       AlignedIsLoadable, UntrustedIsLatePromotion, Trusted
  <1>2. CASE Refuse
    BY <1>0, <1>2 DEF Refuse, IInv, AnchorIsSnapshot, UntouchedBefore, StageIntact, Split,
       TodoIsTheRest, AllPromoted, OutcomePending, ErrorsLeaveFinalAlone,
       AlignedIsLoadable, UntrustedIsLatePromotion, Trusted
  <1>3. ASSUME NEW out \in Outputs, Build(out)
        PROVE  IInv'
    <2>1. Intact(stage')
      BY <1>0, <1>3, BuiltIntact, OutputsAssumption DEF Build, TypeOK
    <2>2. QED
      BY <1>0, <1>3, <2>1 DEF Build, IInv, AnchorIsSnapshot, UntouchedBefore, StageIntact,
         Split, TodoIsTheRest, AllPromoted, OutcomePending, ErrorsLeaveFinalAlone,
         AlignedIsLoadable, UntrustedIsLatePromotion, Intact
  <1>4. CASE BuildFails \/ Reject
    <2>1. final = snapshot /\ Trusted
      BY <1>4 DEF BuildFails, Reject, IInv, UntouchedBefore, AnchorIsSnapshot, Trusted
    <2>2. QED
      BY <1>0, <1>4, <2>1 DEF BuildFails, Reject, Leave, IInv, AnchorIsSnapshot,
         UntouchedBefore, StageIntact, Split, TodoIsTheRest, AllPromoted, OutcomePending,
         ErrorsLeaveFinalAlone, AlignedIsLoadable, UntrustedIsLatePromotion, Trusted
  <1>5. CASE Accept
    <2>1. TodoIsTheRest' /\ Split'
      BY <1>5 DEF Accept, IInv, Split, TodoIsTheRest, UntouchedBefore, Present
    <2>2. QED
      BY <1>0, <1>5, <2>1 DEF Accept, IInv, AnchorIsSnapshot, UntouchedBefore, StageIntact,
         AllPromoted, OutcomePending, ErrorsLeaveFinalAlone, AlignedIsLoadable,
         UntrustedIsLatePromotion, Intact
  <1>6. CASE Replace
    <2>1. PICK n \in todo : /\ pc = "promoting"
                            /\ final' = [final EXCEPT ![n] = stage[n]]
                            /\ todo' = todo \ {n} /\ promoted' = promoted \union {n}
                            /\ UNCHANGED <<stage, snapshot, tmp, registry, anchor, pc, outcome>>
      BY <1>6 DEF Replace
    <2>2. n \in Names /\ DOMAIN final = Names
      BY <1>0 DEF TypeOK, Directories
    <2>3. Split' /\ TodoIsTheRest'
      BY <2>1, <2>2 DEF IInv, Split, TodoIsTheRest, Present
    <2>4. QED
      BY <1>0, <2>1, <2>3 DEF IInv, AnchorIsSnapshot, UntouchedBefore, StageIntact,
         AllPromoted, OutcomePending, ErrorsLeaveFinalAlone, AlignedIsLoadable,
         UntrustedIsLatePromotion, Intact
  <1>7. CASE Retry \/ ReplaceFails
    BY <1>0, <1>7 DEF Retry, ReplaceFails, IInv, AnchorIsSnapshot, UntouchedBefore,
       StageIntact, Split, TodoIsTheRest, AllPromoted, OutcomePending,
       ErrorsLeaveFinalAlone, AlignedIsLoadable, UntrustedIsLatePromotion, Intact, Present
  <1>8. CASE Restore
    <2>1. PICK n \in promoted : /\ pc = "restoring"
                                /\ final' = [final EXCEPT ![n] = snapshot[n]]
                                /\ promoted' = promoted \ {n}
                                /\ UNCHANGED <<stage, snapshot, tmp, registry, anchor, pc,
                                               todo, outcome>>
      BY <1>8 DEF Restore
    <2>2. n \in Names /\ DOMAIN final = Names
      BY <1>0 DEF TypeOK, Directories
    <2>3. Split'
      BY <2>1, <2>2 DEF IInv, Split, Present
    <2>4. QED
      BY <1>0, <2>1, <2>3 DEF IInv, AnchorIsSnapshot, UntouchedBefore, StageIntact,
         TodoIsTheRest, AllPromoted, OutcomePending, ErrorsLeaveFinalAlone,
         AlignedIsLoadable, UntrustedIsLatePromotion, Intact
  <1>9. CASE Interrupt \/ RestoreFails \/ RolledBack
    <2>1. /\ ~Trusted => /\ final[ManifestName] = stage[ManifestName]
                         /\ final[ManifestName] \in Valid
          /\ promoted = {} => final = snapshot /\ Trusted
      BY <1>0, <1>9, StoppedPromotion DEF Interrupt, RestoreFails, RolledBack, IInv
    <2>2. QED
      BY <1>0, <1>9, <2>1 DEF Interrupt, RestoreFails, RolledBack, Leave, IInv,
         AnchorIsSnapshot, UntouchedBefore, StageIntact, Split, TodoIsTheRest, AllPromoted,
         OutcomePending, ErrorsLeaveFinalAlone, AlignedIsLoadable,
         UntrustedIsLatePromotion, Trusted
  <1>10. CASE PromoteDone \/ CleanupFails
    <2>1. /\ \A n \in Present(stage) : final[n] = stage[n]
          /\ stage[ManifestName] \in Valid /\ Intact(stage) /\ registry = "whole"
      BY <1>10 DEF PromoteDone, CleanupFails, IInv, Split, TodoIsTheRest, StageIntact,
         AnchorIsSnapshot
    <2>2. final[ManifestName] = stage[ManifestName]
      BY <1>0, <2>1, PromotedIntact
    <2>3. CASE PromoteDone
      BY <1>0, <2>1, <2>3 DEF PromoteDone, IInv, AnchorIsSnapshot, UntouchedBefore,
         StageIntact, Split, TodoIsTheRest, AllPromoted, OutcomePending,
         ErrorsLeaveFinalAlone, AlignedIsLoadable, UntrustedIsLatePromotion, Intact, Present
    <2>4. CASE CleanupFails
      BY <1>0, <2>1, <2>2, <2>4 DEF CleanupFails, Leave, IInv, AnchorIsSnapshot,
         UntouchedBefore, StageIntact, Split, TodoIsTheRest, AllPromoted, OutcomePending,
         ErrorsLeaveFinalAlone, AlignedIsLoadable, UntrustedIsLatePromotion
    <2>5. QED
      BY <1>10, <2>3, <2>4
  <1>11. CASE TruncateRegistry
    BY <1>0, <1>11 DEF TruncateRegistry, IInv, AnchorIsSnapshot, UntouchedBefore,
       StageIntact, Split, TodoIsTheRest, AllPromoted, OutcomePending,
       ErrorsLeaveFinalAlone, AlignedIsLoadable, UntrustedIsLatePromotion, Intact, Present
  <1>12. CASE WriteAnchor
    <2>1. Intact(final) /\ final[ManifestName] = stage[ManifestName] /\ stage[ManifestName] \in Valid
      BY <1>0, <1>12, PromotedIntact DEF WriteAnchor, IInv, StageIntact, AllPromoted
    <2>2. Loadable' /\ anchor' \in Valid
      BY <1>12, <2>1 DEF WriteAnchor, Loadable, Trusted, Intact
    <2>3. QED
      BY <1>0, <1>12, <2>2 DEF WriteAnchor, IInv, AnchorIsSnapshot, UntouchedBefore,
         StageIntact, Split, TodoIsTheRest, AllPromoted, OutcomePending,
         ErrorsLeaveFinalAlone, AlignedIsLoadable, UntrustedIsLatePromotion, Loadable
  <1>13. CASE Crash
    <2>1. registry = "whole" /\ ~Trusted => /\ final[ManifestName] = stage[ManifestName]
                                            /\ final[ManifestName] \in Valid
      <3>1. CASE pc \in {"promoting", "restoring"}
        BY <1>0, <3>1, StoppedPromotion DEF IInv
      <3>2. CASE pc \in {"refreshing", "writing"}
        BY <1>0, <3>2, ManifestPresent DEF IInv, AllPromoted, TypeOK
      <3>3. CASE pc \in {"building", "validating"}
        BY <3>3 DEF IInv, UntouchedBefore, AnchorIsSnapshot, Trusted
      <3>4. QED
        BY <1>0, <1>13, <3>1, <3>2, <3>3 DEF Crash, TypeOK
    <2>2. QED
      BY <1>0, <1>13, <2>1 DEF Crash, IInv, AnchorIsSnapshot, UntouchedBefore, StageIntact,
         Split, TodoIsTheRest, AllPromoted, OutcomePending, ErrorsLeaveFinalAlone,
         AlignedIsLoadable, UntrustedIsLatePromotion, Trusted
  <1>14. CASE UNCHANGED vars
    BY <1>0, <1>14 DEF vars, IInv, AnchorIsSnapshot, UntouchedBefore, StageIntact, Split,
       TodoIsTheRest, AllPromoted, OutcomePending, ErrorsLeaveFinalAlone,
       AlignedIsLoadable, UntrustedIsLatePromotion, Trusted, Loadable, Intact, Present
  <1>15. QED
    BY <1>1, <1>2, <1>3, <1>4, <1>5, <1>6, <1>7, <1>8, <1>9, <1>10, <1>11, <1>12, <1>13,
       <1>14 DEF Next, Step

LEMMA Invariance == Spec => []IInv
  BY InitInv, NextInv, PTL DEF Spec

\* A failed rebuild that could roll back leaves the directory as it found it.
THEOREM FailedRebuildIsHarmless == Spec => []ErrorsLeaveFinalAlone
  <1>1. IInv => ErrorsLeaveFinalAlone
    BY DEF IInv
  <1>2. QED
    BY <1>1, Invariance, PTL

\* A successful rebuild leaves a loadable set, whatever it started from.
THEOREM SuccessfulRebuildIsLoadable == Spec => []AlignedIsLoadable
  <1>1. IInv => AlignedIsLoadable
    BY DEF IInv
  <1>2. QED
    BY <1>1, Invariance, PTL

\* An untrusted manifest is always one a validator accepted and a late fault
\* kept from being anchored.
THEOREM UntrustedIsAccepted == Spec => []UntrustedIsLatePromotion
  <1>1. IInv => UntrustedIsLatePromotion
    BY DEF IInv
  <1>2. QED
    BY <1>1, Invariance, PTL

-----------------------------------------------------------------------------
(* Refinement.                                                              *)

LEMMA InitRefines == Init => Publication!Init
  <1> SUFFICES ASSUME Init
               PROVE  Publication!Init
    OBVIOUS
  <1>1. PICK out \in Valid : final = Built([n \in Names |-> Absent], out) /\ anchor = out
    BY DEF Init
  <1>2. out \in Listings
    BY OutputsAssumption
  <1>3. final[ManifestName] = out /\ Intact(final)
    BY <1>1, <1>2, NamesAssumption DEF Built, Intact, Names
  <1>4. Loadable = TRUE
    BY <1>1, <1>3 DEF Init, Loadable, Trusted
  <1>5. QED
    BY <1>1, <1>3, <1>4 DEF Init, Publication!Init

\* A step that leaves the anchor and the stage's manifest alone is a Close, a
\* Reopen or a stutter of the abstract specification.
LEMMA SameSet ==
    ASSUME anchor' = anchor, stage'[ManifestName] = stage[ManifestName]
    PROVE  Publication!Next
  <1>1. CASE Loadable'
    <2>1. Loadable' = TRUE
      BY <1>1 DEF Loadable
    <2>2. QED
      BY <2>1 DEF Publication!Next, Publication!Reopen
  <1>2. CASE ~Loadable'
    <2>1. Loadable' = FALSE
      BY <1>2 DEF Loadable
    <2>2. QED
      BY <2>1 DEF Publication!Next, Publication!Close
  <1>3. QED
    BY <1>1, <1>2

\* A step that leaves all that a reader sees alone and stages another manifest
\* is a Propose.
LEMMA OtherStage ==
    ASSUME UNCHANGED <<final, registry, anchor>>, stage'[ManifestName] \in Listings
    PROVE  Publication!Next
  <1>1. Loadable' = Loadable
    BY DEF Loadable, Trusted, Intact
  <1>2. QED
    BY <1>1 DEF Publication!Next, Publication!Propose

LEMMA NextRefines == IInv /\ IInv' /\ [Next]_vars => [Publication!Next]_Publication!vars
  <1> SUFFICES ASSUME IInv, IInv', [Next]_vars
               PROVE  [Publication!Next]_Publication!vars
    OBVIOUS
  <1>1. TypeOK
    BY DEF IInv
  <1>2. CASE Start
    BY <1>1, <1>2, OtherStage DEF Start, disk, TypeOK, Directories
  <1>3. ASSUME NEW out \in Outputs, Build(out)
        PROVE  Publication!Next
    <2>1. stage'[ManifestName] \in Listings
      BY <1>1, <1>3, BuiltIntact, OutputsAssumption DEF Build, TypeOK
    <2>2. QED
      BY <1>3, <2>1, OtherStage DEF Build, disk
  <1>4. CASE WriteAnchor
    <2>1. Intact(final) /\ final[ManifestName] = stage[ManifestName] /\ stage[ManifestName] \in Valid
      BY <1>1, <1>4, PromotedIntact DEF WriteAnchor, IInv, StageIntact, AllPromoted
    <2>2. Loadable' = TRUE
      BY <1>4, <2>1 DEF WriteAnchor, Loadable, Trusted, Intact
    <2>3. ~Loadable
      BY <1>4 DEF WriteAnchor, IInv, AllPromoted, Loadable, Trusted
    <2>4. Publication!Advance
      BY <1>4, <2>1, <2>2, <2>3 DEF WriteAnchor, Publication!Advance
    <2>5. QED
      BY <2>4 DEF Publication!Next
  <1>5. CASE Replace \/ Restore
    BY <1>5, SameSet DEF Replace, Restore
  <1>6. CASE Refuse \/ BuildFails \/ Accept \/ Reject \/ Retry \/ ReplaceFails \/ Interrupt
    BY <1>6, SameSet DEF Refuse, BuildFails, Accept, Reject, Retry, ReplaceFails, Interrupt, disk
  <1>7. CASE RestoreFails \/ RolledBack \/ PromoteDone \/ CleanupFails \/ TruncateRegistry \/ Crash
    BY <1>7, SameSet DEF RestoreFails, RolledBack, PromoteDone, CleanupFails, TruncateRegistry,
       Crash, disk
  <1>8. CASE UNCHANGED vars
    BY <1>8, SameSet DEF vars
  <1>9. QED
    BY <1>2, <1>3, <1>4, <1>5, <1>6, <1>7, <1>8 DEF Next, Step

\* The pipeline implements ArtifactPublication: the trusted set moves only to
\* the candidate of the last build, validated and complete on disk, and only
\* while readers are refused.
THEOREM PromotionPublishes == Spec => PublicationSpec
  BY InitRefines, NextRefines, Invariance, PTL DEF Spec, PublicationSpec, Publication!Spec
=============================================================================
