----------------------------- MODULE MCPromotion -----------------------------
(* Two artifacts on either side of manifest.json and one, the first in order, *)
(* that only some builds write, so that a promotion can add a file.           *)
EXTENDS Promotion, TLC

CONSTANTS c0, c1

Listing(new, early, late) == (1 :> new) @@ (2 :> early) @@ (4 :> late)

MCOutputs == {Listing(Absent, c0, c0), Listing(Absent, c1, c1),
              Listing(c1, c1, c0), Listing(c0, c0, c1)}
MCValid == MCOutputs \ {Listing(c0, c0, c1)}
=============================================================================
