------------------------------ MODULE RadixTree ------------------------------
(***************************************************************************)
(* The logical prefix index of radixforge (radix_tree.h, radix_tree.cpp).  *)
(*                                                                         *)
(* A tree is a function from the cumulative token path of every live node  *)
(* to the node's record.  Edges are not stored: the parent of a node is    *)
(* the longest other path that is a prefix of its own.  A RadixNode        *)
(* pointer is the path of the node it points to; split_node is the only    *)
(* operation that moves a node to another path, and Follow says where the  *)
(* pointers held elsewhere lead afterwards.                                *)
(*                                                                         *)
(* The module has no state of its own: KVMapper keeps the tree and applies *)
(* these operators, one call of the class per operator.                    *)
(***************************************************************************)
EXTENDS Integers, Sequences, FiniteSets

\* The path of root_.
Root == << >>

\* p is a prefix of q (equal paths included).
p \sqsubseteq q == Len(p) <= Len(q) /\ \A i \in 1 .. Len(p) : p[i] = q[i]

\* The first n tokens of a token sequence.
Prefix(tokens, n) == SubSeq(tokens, 1, n)

Least(a, b) == IF a <= b THEN a ELSE b

NewNode(tick) ==
    [ref_count |-> 0, seq_ids |-> {}, ready_seq_ids |-> {},
     last_access_tick |-> tick, canonical_len |-> 0]

\* RadixTree(): the root is referenced once, for ever.
EmptyTree == [p \in {Root} |-> [NewNode(0) EXCEPT !.ref_count = 1]]

-----------------------------------------------------------------------------
(* The walk of find_prefix_locked *)

\* The walk stops after m tokens: they lead into the tree, one more does not.
Matches(t, tokens, m) ==
    /\ m \in 0 .. Len(tokens)
    /\ \E p \in DOMAIN t : Prefix(tokens, m) \sqsubseteq p
    /\ \A k \in m + 1 .. Len(tokens) :
           \A p \in DOMAIN t : ~ (Prefix(tokens, k) \sqsubseteq p)

\* x is the node in whose edge the path cut ends, cut itself when it is a node.
EdgeNode(t, cut, x) ==
    /\ x \in DOMAIN t
    /\ cut \sqsubseteq x
    /\ \A p \in DOMAIN t : cut \sqsubseteq p => x \sqsubseteq p

\* Mutant of split_node: the suffix also takes the reference count of the node.
split_node_copies_refs(t, x, cut) ==
    [p \in DOMAIN t \cup {cut} |->
        IF p = cut THEN t[x]
        ELSE IF p = x THEN [NewNode(t[x].last_access_tick) EXCEPT
                                !.ref_count = t[x].ref_count]
        ELSE t[p]]

\* split_node: the node at x is shortened to the path cut and keeps its record;
\* a new, unreferenced node without sequences takes the path x and the children.
\* With cut = x nothing changes.
split_node(t, x, cut) ==
    [p \in DOMAIN t \cup {cut} |->
        IF p = cut THEN t[x]
        ELSE IF p = x THEN NewNode(t[x].last_access_tick)
        ELSE t[p]]

\* Where a pointer to the node at p leads after split_node(t, x, cut).
Follow(p, x, cut) == IF p = x THEN cut ELSE p

\* The node at the end of the walk when all tokens matched, else a new leaf.
NodeAt(t, p, tick) == IF p \in DOMAIN t THEN t[p] ELSE NewNode(tick)

\* insert: walk (splitting at most one node), add the leaf, touch and reference it.
insert(t, tokens, x, cut, tick) ==
    LET s == split_node(t, x, cut)
    IN  [p \in DOMAIN s \cup {tokens} |->
            IF p = tokens
            THEN [NodeAt(s, p, tick) EXCEPT !.ref_count = @ + 1,
                                            !.last_access_tick = tick]
            ELSE s[p]]

-----------------------------------------------------------------------------
(* inspect_prefix: the nodes the walk meets, and what their sequences cover *)

Visited(t, tokens, x) == ({p \in DOMAIN t : p \sqsubseteq tokens} \cup {x}) \ {Root}

Coverage(t, p, m) == Least(Least(Len(p), m), t[p].canonical_len)

HasPending(n) == n.seq_ids # n.ready_seq_ids

\* pending_tokens - ready_tokens > 0: some sequence that is still being
\* prefilled covers more of the prompt than every ready one.
PendingAdvantage(t, tokens, m, x) ==
    \E p \in Visited(t, tokens, x) :
        /\ HasPending(t[p])
        /\ Coverage(t, p, m) > 0
        /\ \A q \in Visited(t, tokens, x) :
               t[q].ready_seq_ids # {} => Coverage(t, q, m) < Coverage(t, p, m)

-----------------------------------------------------------------------------
(* Pruning, release, eviction *)

Dead(n) == n.ref_count = 0 /\ n.seq_ids = {}

\* Mutant of Prunable: nodes that still have children are removed as well.
PrunableWithChildren(t, e) ==
    {p \in DOMAIN t \ {Root} : p \sqsubseteq e /\ Dead(t[p])}

\* Mutant of Prunable: the walk does not go upwards.
PrunableAlone(t, e) ==
    {p \in {e} \ {Root} : \A q \in DOMAIN t : p \sqsubseteq q => Dead(t[q]) /\ q = e}

\* prune_empty_leaves_locked(e): the ancestors-or-self of e below which nothing
\* is left once the walk upwards from e has removed what is dead.
Prunable(t, e) ==
    {p \in DOMAIN t \ {Root} :
        /\ p \sqsubseteq e
        /\ \A q \in DOMAIN t : p \sqsubseteq q => Dead(t[q]) /\ q \sqsubseteq e}

prune_empty_leaves(t, e) == [p \in DOMAIN t \ Prunable(t, e) |-> t[p]]

\* Mutant of release: the reference is not given back.
release_keeps_ref(t, p) == prune_empty_leaves(t, p)

release(t, p) ==
    IF t[p].ref_count > 0
    THEN prune_empty_leaves([t EXCEPT ![p].ref_count = @ - 1], p)
    ELSE t

\* Mutant of Candidates: nodes in use are candidates too.
CandidatesInUse(t) == {p \in DOMAIN t \ {Root} : t[p].seq_ids # {}}

\* Every idle, non-root owner of physical sequences; the least recently used first.
Candidates(t) ==
    {p \in DOMAIN t \ {Root} : t[p].ref_count = 0 /\ t[p].seq_ids # {}}

find_eviction_candidates(t) ==
    {p \in Candidates(t) : \A q \in Candidates(t) :
        t[p].last_access_tick <= t[q].last_access_tick}

\* Mutant of evict: the evicted sequences stay in ready_seq_ids.
evict_keeps_ready(t, p) ==
    prune_empty_leaves(
        [t EXCEPT ![p] = [@ EXCEPT !.seq_ids = {}, !.canonical_len = 0]], p)

evict(t, p) ==
    prune_empty_leaves(
        [t EXCEPT ![p] = [@ EXCEPT !.seq_ids = {}, !.ready_seq_ids = {},
                                   !.canonical_len = 0]], p)

-----------------------------------------------------------------------------
(* Physical sequences of a node *)

\* Mutant of WithSeq: the sequence is offered before it is filled.
WithSeqReady(n, s, len) ==
    [n EXCEPT !.seq_ids = @ \cup {s}, !.ready_seq_ids = @ \cup {s},
              !.canonical_len = IF @ = 0 THEN len ELSE @]

\* The node with the pending sequence s.
WithSeq(n, s, len) ==
    [n EXCEPT !.seq_ids = @ \cup {s},
              !.canonical_len = IF @ = 0 THEN len ELSE @]

register_seq_id(t, p, s, len) == [t EXCEPT ![p] = WithSeq(@, s, len)]

mark_seq_id_ready(t, p, s) ==
    [t EXCEPT ![p].ready_seq_ids = IF s \in t[p].seq_ids THEN @ \cup {s} ELSE @]

\* Mutant of KeepsSeq: a pending sequence is kept like a ready one.
KeepsPending(n, s, retain) == retain /\ Cardinality(n.seq_ids) <= 1

\* Mutant of KeepsSeq: every ready sequence is kept.
KeepsEvery(n, s, retain) == retain /\ s \in n.ready_seq_ids

\* release_seq_id answers "do not free" for the sole sequence of a node, if ready.
KeepsSeq(n, s, retain) ==
    retain /\ s \in n.ready_seq_ids /\ Cardinality(n.seq_ids) <= 1

\* Mutant of WithoutSeq: the sequence leaves ready_seq_ids only.
WithoutReady(n, s) == [n EXCEPT !.ready_seq_ids = @ \ {s}]

\* The node without the sequence s.
WithoutSeq(n, s) ==
    [n EXCEPT !.seq_ids = @ \ {s}, !.ready_seq_ids = @ \ {s},
              !.canonical_len = IF n.seq_ids = {s} THEN 0 ELSE @]

\* Mutant of WithReadySeq: the sequence arrives as a pending one.
WithPendingSeq(n, s, len, tick) ==
    [n EXCEPT !.seq_ids = @ \cup {s}, !.canonical_len = len, !.last_access_tick = tick]

\* The node with the ready sequence s, which covers len tokens.
WithReadySeq(n, s, len, tick) ==
    [n EXCEPT !.seq_ids = @ \cup {s}, !.ready_seq_ids = @ \cup {s},
              !.canonical_len = len, !.last_access_tick = tick]

\* Move the ready sequence s from the node p to the node at tokens, made if need be.
MoveSeq(t, p, s, tokens, tick) ==
    [q \in DOMAIN t \cup {tokens} |->
        IF q = tokens THEN WithReadySeq(NodeAt(t, q, tick), s, Len(tokens), tick)
        ELSE IF q = p THEN WithoutSeq(t[q], s)
        ELSE t[q]]

\* extend_seq_id: walk along tokens, of which the path p is a proper prefix.
extend_seq_id(t, p, s, tokens, x, cut, tick) ==
    MoveSeq(split_node(t, x, cut), p, s, tokens, tick)

\* find_covering_seq_id: the deepest ready ancestor-or-self, else any node the
\* depth-first search can meet first (the children are an unordered map).
CoveringNodes(t, n) ==
    LET up   == {p \in DOMAIN t : p \sqsubseteq n /\ t[p].ready_seq_ids # {}}
        down == {p \in DOMAIN t : n \sqsubseteq p /\ t[p].ready_seq_ids # {}}
    IN  IF up # {} THEN {p \in up : \A q \in up : q \sqsubseteq p}
                   ELSE {p \in down : \A q \in down : q \sqsubseteq p => q = p}

\* *ready_seq_ids.begin()
FirstReady(n) == {s \in n.ready_seq_ids : \A r \in n.ready_seq_ids : s <= r}

CoveredLen(t, p) == Least(t[p].canonical_len, Len(p))
=============================================================================
