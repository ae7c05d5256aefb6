--------------------------- MODULE MCCorpusLoading ---------------------------
(* One artifact on either side of manifest.json; the first is listed by some *)
(* builds only, so that two listings may agree on the files of one of them.  *)
EXTENDS CorpusLoading, TLC

CONSTANTS c0, c1

Listing(early, late) == (1 :> early) @@ (3 :> late)

MCOutputs == {Listing(Absent, c0), Listing(c1, c0)}
=============================================================================
