------------------------- MODULE ArtifactPublication -------------------------
(***************************************************************************)
(* What the artifact pipeline promises to the runtime, without saying how: *)
(* one corpus has a current artifact set.  A reader is either served that  *)
(* set or refused.  A build proposes a candidate; the current set moves    *)
(* only to the last candidate, only if the validator accepts it, and only  *)
(* while readers are refused, so no reader ever sees two sets at once.     *)
(*                                                                         *)
(* A set is identified by its listing, the manifest's map from file name   *)
(* to digest.                                                              *)
(***************************************************************************)
CONSTANTS Listings,   \* every manifest listing
          Valid       \* the listings the validator accepts

VARIABLES open,       \* may a reader load the current set?
          current,    \* the listing the trust anchor names
          candidate   \* the listing of the last stage a build prepared

vars == <<open, current, candidate>>

Init ==
    /\ open = TRUE
    /\ current \in Valid
    /\ candidate = current

\* A build stages another set; readers notice nothing.
Propose ==
    /\ candidate' \in Listings
    /\ UNCHANGED <<open, current>>

\* Promotion starts to change files: readers are refused.
Close ==
    /\ open' = FALSE
    /\ UNCHANGED <<current, candidate>>

\* A promotion was undone, or rewrote the very bytes that were there.
Reopen ==
    /\ open' = TRUE
    /\ UNCHANGED <<current, candidate>>

\* The candidate becomes the current set.
Advance ==
    /\ ~open
    /\ candidate \in Valid
    /\ open' = TRUE
    /\ current' = candidate
    /\ UNCHANGED candidate

Next == Propose \/ Close \/ Reopen \/ Advance

Spec == Init /\ [][Next]_vars
=============================================================================
