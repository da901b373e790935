---------------------------- MODULE MCRadixPointers ----------------------------
(***************************************************************************)
(* RadixPointers for TLC: prompts that diverge inside and at the end of    *)
(* edges.                                                                  *)
(***************************************************************************)
EXTENDS RadixPointers, TLC

CONSTANTS ta, tb

MCPrompts == {<<ta, ta, tb>>, <<ta, ta>>, <<ta, tb>>}
Generated == {<<ta>>, <<tb>>, <<tb, ta>>}

Perms == Permutations(Requests) \cup Permutations(SeqIds)
=============================================================================
