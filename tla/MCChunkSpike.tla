----------------------------- MODULE MCChunkSpike -----------------------------
(***************************************************************************)
(* ChunkSpike for TLC: three chunks of one to three tokens, ties in the    *)
(* scores, and every kind of variant with up to two parts.                 *)
(***************************************************************************)
EXTENDS ChunkSpike

MCItems ==
    {[size |-> <<2, 1, 3>>, gold |-> <<FALSE, TRUE, FALSE>>, bm25 |-> <<1, 2, 2>>],
     [size |-> <<1, 2, 2>>, gold |-> <<TRUE, FALSE, TRUE>>,  bm25 |-> <<2, 1, 1>>]}

MCParts ==
    {<<"rALL">>, <<"gold">>, <<"r", 0>>, <<"r", 1>>, <<"r", 2>>, <<"top", 1>>, <<"top", 2>>}

MCVariants ==
    [base : {"naive", "prefixed"},
     parts : {<< >>} \cup {<<p>> : p \in MCParts} \cup {<<p, q>> : p, q \in MCParts}]
=============================================================================
