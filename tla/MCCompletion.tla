----------------------------- MODULE MCCompletion -----------------------------
(***************************************************************************)
(* Completion for TLC: tokens that cut characters of two to four bytes,    *)
(* begin with the rest of one, and carry stray continuations.              *)
(***************************************************************************)
EXTENDS Completion

MCPieces == {<<1>>, <<0>>, <<4>>, <<0, 0>>, <<1, 3>>, <<0, 2>>}

FewPieces == {<<1>>}
=============================================================================
