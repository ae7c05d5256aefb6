---------------------------- MODULE MCPublicTargets ----------------------------
(* Two handles that may be bookmarked and two that may not, in two corpora.   *)
EXTENDS PublicTargets, TLC

CONSTANTS uud, other, pasal, page, draft, context

MCPageOf == (pasal :> page) @@ (page :> page) @@ (draft :> draft)
MCThreads == Permutations(Threads)
MCAnswerable == {<<uud, pasal>>, <<uud, context>>, <<other, draft>>}
=============================================================================
