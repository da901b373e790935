------------------------------ MODULE MCKVMapper ------------------------------
(***************************************************************************)
(* KVMapper for TLC: prompts over two tokens that share prefixes, diverge  *)
(* inside an edge, and extend one another.                                 *)
(***************************************************************************)
EXTENDS KVMapper, TLC

CONSTANTS a, b

MCTokens  == {a, b}
NestedPrompts == {<<a, b>>, <<a, a>>, <<a, b, a>>}
AndEmpty      == NestedPrompts \cup {<< >>}

Symmetry == Permutations(Requests)

\* last_access_tick only orders the nodes that own, or may come to own, sequences:
\* states that differ in the values but not in the order behave alike.
Rank(p) ==
    IF Dead(tree[p]) THEN 0
    ELSE Cardinality({q \in DOMAIN tree : /\ ~ Dead(tree[q])
                                          /\ tree[q].last_access_tick
                                                 < tree[p].last_access_tick})

View == <<prefix_cache_enabled, [p \in DOMAIN tree |-> [tree[p] EXCEPT !.last_access_tick = Rank(p)]],
          free_seq_ids, seq_cell_counts, retained_seq_ids, kv, reqs>>
=============================================================================
