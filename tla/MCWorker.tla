-------------------------------- MODULE MCWorker --------------------------------
(***************************************************************************)
(* Worker for TLC: a short and a long prompt with a common prefix, and a   *)
(* request that asks for no tokens; more sequence ids than batch entries.  *)
(***************************************************************************)
EXTENDS Worker, TLC

CONSTANTS r1, r2, r3

MCPromptLen == (r1 :> 1) @@ (r2 :> 3) @@ (r3 :> 1)
MCMaxTokens == (r1 :> 2) @@ (r2 :> 9) @@ (r3 :> 0)
MCShares    == {<<r1, r2>>, <<r2, r1>>}

\* Fewer sequences than requests, and enough to send back part of a batch.
MCLimits    == {<<2, 1>>, <<3, 2>>}
=============================================================================
