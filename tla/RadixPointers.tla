----------------------------- MODULE RadixPointers -----------------------------
(***************************************************************************)
(* The class RadixTree with its nodes and pointers (radix_tree.cpp): the   *)
(* heap is a function from addresses to nodes, an edge holds the tokens    *)
(* between a node and its parent, children are found by their first token, *)
(* and addresses of deleted nodes are used again.  The calls are those of  *)
(* module RadixIndex, which this module implements.                        *)
(***************************************************************************)
EXTENDS Integers, Sequences, FiniteSets, FiniteSetsExt, Functions

CONSTANTS
    Token, Prompts, Requests, SeqIds,
    Extensions,     \* what a request may generate behind its prompt
    MaxTick         \* bound: value of tick_

ASSUME ConstantsAssumption ==
    /\ Prompts \subseteq Seq(Token)
    /\ Extensions \subseteq Seq(Token) \ {<< >>}
    /\ MaxTick \in Nat

VARIABLES
    heap,       \* the nodes by address
    tick_,
    held        \* the pointers and sequences of the callers

vars == <<heap, tick_, held>>

root_ == 0

\* The map f with the value e at x.
With(f, x, e) == [y \in DOMAIN f \cup {x} |-> IF y = x THEN e ELSE f[y]]

\* A new node, at the least address that is free.
New(h) == Min(0 .. Cardinality(DOMAIN h) \ DOMAIN h)

RadixNode(tokens, parent, tick) ==
    [tokens |-> tokens, parent |-> parent, children |-> << >>, ref_count |-> 0,
     seq_ids |-> {}, ready_seq_ids |-> {}, last_access_tick |-> tick, canonical_len |-> 0]

NoHandle == [phase |-> "none", tokens |-> << >>, node |-> root_, matched |-> 0,
             seq |-> 0, owner |-> root_]

Init ==
    /\ heap = [n \in {root_} |-> [RadixNode(<< >>, root_, 0) EXCEPT !.ref_count = 1]]
    /\ tick_ = 0
    /\ held = [r \in Requests |-> NoHandle]

-----------------------------------------------------------------------------
(* Walking and splitting *)

\* Mutant of Adopted: the children that move to the suffix keep their parent.
AdoptedNot(h, node, suffix) == h

\* The children of a node get the suffix node as their parent.
Adopted(h, node, suffix) ==
    [n \in DOMAIN h |-> IF n \in Range(h[node].children)
                        THEN [h[n] EXCEPT !.parent = suffix] ELSE h[n]]

split_node(h, node, split_pos) ==
    LET n == h[node]
        suffix == New(h)
        rest == SubSeq(n.tokens, split_pos + 1, Len(n.tokens))
    IN  With([Adopted(h, node, suffix) EXCEPT
                  ![node] = [n EXCEPT !.tokens = SubSeq(@, 1, split_pos),
                                      !.children = With(<< >>, rest[1], suffix)]],
             suffix,
             [RadixNode(rest, node, n.last_access_tick) EXCEPT !.children = n.children])

\* How many tokens of an edge go on where idx tokens have matched.
match_len(edge, tokens, idx) ==
    Max({k \in 0 .. Min({Len(edge), Len(tokens) - idx}) :
            \A i \in 1 .. k : edge[i] = tokens[idx + i]})

\* The loop reads a next token that is the key of a child, the child, and match_len in it.
Leads(h, tokens, w) == w.idx < Len(tokens) /\ tokens[w.idx + 1] \in DOMAIN h[w.node].children
Child(h, tokens, w) == h[w.node].children[tokens[w.idx + 1]]
Matched(h, tokens, w) == match_len(h[Child(h, tokens, w)].tokens, tokens, w.idx)

FullMatch(h, tokens, w) ==
    /\ Leads(h, tokens, w)
    /\ Matched(h, tokens, w) = Len(h[Child(h, tokens, w)].tokens)

\* An iteration with a full match; any other is the last one.
Descend(h, tokens, w) ==
    IF FullMatch(h, tokens, w)
    THEN [node |-> Child(h, tokens, w), idx |-> w.idx + Matched(h, tokens, w)]
    ELSE w

\* The full matches from the root.  Each takes a token at least.
Walk(h, tokens) ==
    LET walk[k \in 0 .. Len(tokens)] ==
            IF k = 0 THEN [node |-> root_, idx |-> 0] ELSE Descend(h, tokens, walk[k - 1])
    IN  walk[Len(tokens)]

\* The heap, the node and matched_tokens, after the partial match that may follow.
find_prefix_locked(h, tokens) ==
    LET w == Walk(h, tokens)
    IN  IF Leads(h, tokens, w)
        THEN [heap |-> split_node(h, Child(h, tokens, w), Matched(h, tokens, w)),
              node |-> Child(h, tokens, w), matched_tokens |-> w.idx + Matched(h, tokens, w)]
        ELSE [heap |-> h, node |-> w.node, matched_tokens |-> w.idx]

\* The node of the remaining tokens, a new leaf unless there are none.
WithLeaf(match, tokens, tick) ==
    LET h == match.heap
        m == match.matched_tokens
        rest == SubSeq(tokens, m + 1, Len(tokens))
        leaf == New(h)
    IN  IF m = Len(tokens) THEN match
        ELSE [match EXCEPT
                 !.node = leaf,
                 !.heap = With([h EXCEPT ![match.node].children = With(@, rest[1], leaf)],
                               leaf, RadixNode(rest, match.node, tick))]

\* A node that nothing needs, at which the loop of prune_empty_leaves_locked goes on.
Prunable(h, node) ==
    /\ node # root_ /\ h[node].ref_count = 0 /\ h[node].seq_ids = {}
    /\ DOMAIN h[node].children = {}

\* The heap without a leaf.
Unlinked(h, node) ==
    [n \in DOMAIN h \ {node} |->
        IF n = h[node].parent
        THEN [h[n] EXCEPT !.children = Restrict(@, DOMAIN @ \ {h[node].tokens[1]})]
        ELSE h[n]]

\* An iteration: the node is erased and the loop goes on with its parent.
Climb(s) ==
    IF Prunable(s.heap, s.node)
    THEN [heap |-> Unlinked(s.heap, s.node), node |-> s.heap[s.node].parent]
    ELSE s

\* Mutant of Climbs: only the node itself is pruned.
ClimbsNot(h) == 1

\* Enough iterations for the loop to end.
Climbs(h) == Cardinality(DOMAIN h)

prune_empty_leaves_locked(h, node) ==
    LET prune[k \in 0 .. Climbs(h)] ==
            IF k = 0 THEN [heap |-> h, node |-> node] ELSE Climb(prune[k - 1])
    IN  prune[Climbs(h)].heap

-----------------------------------------------------------------------------
(* Reading *)

cumulative_token_depth(h, node) ==
    LET depth[n \in DOMAIN h] ==
            Len(h[n].tokens) + IF n = root_ THEN 0 ELSE depth[h[n].parent]
    IN  depth[node]

\* consider_availability for a node that the walk has reached after this many tokens.
consider_availability(n, covered, a) ==
    LET coverage == Min({covered, n.canonical_len})
    IN  [a EXCEPT !.ready_tokens = IF n.ready_seq_ids = {} THEN @ ELSE Max({@, coverage}),
                  !.pending_tokens = IF Cardinality(n.seq_ids) > Cardinality(n.ready_seq_ids)
                                     THEN Max({@, coverage}) ELSE @]

\* Mutant of Reached: only the tokens of the last edge are counted.
ReachedEdge(idx, n) == n

\* The tokens that lead to, or into, a node.
Reached(idx, n) == idx + n

\* The availability after the child has been considered, in an iteration at w.
Considered(h, tokens, w) ==
    consider_availability(h[Child(h, tokens, w)], Reached(w.idx, Matched(h, tokens, w)), w.avail)

InspectChild(h, tokens, w) ==
    IF FullMatch(h, tokens, w)
    THEN [node |-> Child(h, tokens, w), idx |-> w.idx + Matched(h, tokens, w),
          avail |-> Considered(h, tokens, w)]
    ELSE w

Inspect(h, tokens) ==
    LET walk[k \in 0 .. Len(tokens)] ==
            IF k = 0 THEN [node |-> root_, idx |-> 0,
                           avail |-> [ready_tokens |-> 0, pending_tokens |-> 0]]
            ELSE InspectChild(h, tokens, walk[k - 1])
    IN  walk[Len(tokens)]

inspect_prefix(h, tokens) ==
    LET w == Inspect(h, tokens)
    IN  IF Leads(h, tokens, w)
        THEN [matched_tokens |-> w.idx + Matched(h, tokens, w), avail |-> Considered(h, tokens, w)]
        ELSE [matched_tokens |-> w.idx, avail |-> w.avail]

\* find_covering_seq_id_locked: the nodes at which it can end; the children are unordered.
Above(h, node) ==
    LET above[n \in DOMAIN h] ==
            IF h[n].ready_seq_ids # {} THEN {n}
            ELSE IF n = root_ THEN {} ELSE above[h[n].parent]
    IN  above[node]

Below(h, node) ==
    LET below[n \in DOMAIN h] ==
            IF Above(h, n) # {} THEN Above(h, n)
            ELSE UNION {below[child] : child \in Range(h[n].children)}
    IN  below[node]

\* The nodes that a search with a stack meets: eviction, the counts and to_json.
Searched(h, node) ==
    LET searched[n \in DOMAIN h] ==
            {n} \cup UNION {searched[child] : child \in Range(h[n].children)}
    IN  searched[node]

Idle(h) == {n \in Searched(h, root_) \ {root_} : h[n].ref_count = 0 /\ h[n].seq_ids # {}}

find_eviction_candidates(h) ==
    {n \in Idle(h) : \A m \in Idle(h) : h[n].last_access_tick <= h[m].last_access_tick}

-----------------------------------------------------------------------------
(* The calls *)

Phases(S) == {r \in Requests : held[r].phase \in S}
Quiet == Phases({"inserted", "retiring", "released"}) = {}

insert(r, tokens) ==
    /\ Quiet /\ held[r].phase = "none" /\ tick_ < MaxTick
    /\ tick_' = tick_ + 1
    /\ LET match == WithLeaf(find_prefix_locked(heap, tokens), tokens, tick_')
       IN  /\ heap' = [match.heap EXCEPT ![match.node].ref_count = @ + 1,
                                         ![match.node].last_access_tick = tick_']
           /\ held' = [held EXCEPT
                  ![r] = [NoHandle EXCEPT !.phase = "inserted", !.tokens = tokens,
                                          !.node = match.node,
                                          !.matched = match.matched_tokens]]

register_seq_id(r, s) ==
    /\ held[r].phase = "inserted"
    /\ \A n \in DOMAIN heap : s \notin heap[n].seq_ids
    /\ LET node == held[r].node
       IN  /\ heap' = [heap EXCEPT ![node].seq_ids = @ \cup {s},
                                   ![node].canonical_len =
                                       IF @ = 0 THEN Len(held[r].tokens) ELSE @]
           /\ held' = [held EXCEPT ![r] = [@ EXCEPT !.phase = "pending", !.seq = s,
                                                    !.owner = node]]
    /\ UNCHANGED tick_

mark_seq_id_ready(r) ==
    /\ Quiet /\ held[r].phase = "pending"
    /\ heap' = IF held[r].seq \in heap[held[r].owner].seq_ids
               THEN [heap EXCEPT ![held[r].owner].ready_seq_ids = @ \cup {held[r].seq}]
               ELSE heap
    /\ held' = [held EXCEPT ![r].phase = "ready"]
    /\ UNCHANGED tick_

\* A node without the sequence s.
Erased(n, s) ==
    [n EXCEPT !.seq_ids = @ \ {s}, !.ready_seq_ids = @ \ {s},
              !.canonical_len = IF n.seq_ids \subseteq {s} THEN 0 ELSE @]

\* A node with the ready sequence s, which covers this many tokens.
Readied(n, s, covered, tick) ==
    [n EXCEPT !.seq_ids = @ \cup {s}, !.ready_seq_ids = @ \cup {s},
              !.canonical_len = covered, !.last_access_tick = tick]

extend_seq_id(r, more) ==
    /\ Quiet /\ held[r].phase = "ready" /\ tick_ + 1 < MaxTick
    /\ LET node == held[r].owner
           s == held[r].seq
           tokens == held[r].tokens \o more
           found == find_prefix_locked(heap, tokens)
           match == WithLeaf(found, tokens, tick_ + 1)
           target == match.node
           last == IF found.matched_tokens = Len(tokens) THEN tick_ + 1 ELSE tick_ + 2
       IN  IF s \in heap[node].ready_seq_ids
           THEN /\ heap' = [match.heap EXCEPT
                        ![node] = Erased(@, s),
                        ![target] = Readied(@, s, Len(tokens), last)]
                /\ tick_' = last
                /\ held' = [held EXCEPT
                       ![r] = [@ EXCEPT !.phase = "retiring", !.tokens = tokens,
                                        !.owner = target]]
           ELSE held' = [held EXCEPT ![r].phase = "retiring"] /\ UNCHANGED <<heap, tick_>>

release_seq_id(r, retain) ==
    /\ \/ Quiet /\ held[r].phase \in {"pending", "ready"}
       \/ held[r].phase = "retiring"
    /\ LET node == held[r].owner
           s == held[r].seq
           n == heap[node]
           kept == \/ s \notin n.seq_ids
                   \/ retain /\ s \in n.ready_seq_ids /\ Cardinality(n.seq_ids) <= 1
       IN  heap' = IF kept THEN heap ELSE [heap EXCEPT ![node] = Erased(@, s)]
    /\ held' = [held EXCEPT ![r] = [@ EXCEPT !.phase = "released", !.owner = root_]]
    /\ UNCHANGED tick_

release(r) ==
    /\ held[r].phase \in {"inserted", "released"}
    /\ LET node == held[r].node
       IN  heap' = IF heap[node].ref_count > 0
                   THEN prune_empty_leaves_locked([heap EXCEPT ![node].ref_count = @ - 1], node)
                   ELSE heap
    /\ held' = [held EXCEPT ![r] = NoHandle]
    /\ UNCHANGED tick_

evict ==
    /\ Phases({"retiring", "released"}) = {}
    /\ \E node \in find_eviction_candidates(heap) :
           heap' = prune_empty_leaves_locked(
                       [heap EXCEPT ![node] = [@ EXCEPT !.seq_ids = {}, !.ready_seq_ids = {},
                                                        !.canonical_len = 0]], node)
    /\ UNCHANGED <<tick_, held>>

Next ==
    \/ \E r \in Requests :
           \/ \E tokens \in Prompts : insert(r, tokens)
           \/ \E s \in SeqIds : register_seq_id(r, s)
           \/ mark_seq_id_ready(r)
           \/ \E more \in Extensions : extend_seq_id(r, more)
           \/ \E retain \in BOOLEAN : release_seq_id(r, retain)
           \/ release(r)
    \/ evict

Spec == Init /\ [][Next]_vars

-----------------------------------------------------------------------------
(* Properties *)

\* Children and parents agree, every edge is filed under its first token, every node hangs
\* below the root, and no caller holds a pointer to a deleted node, although splits move
\* nodes down and pruning deletes them while other requests hold theirs.
PointersValid ==
    /\ \A n \in DOMAIN heap :
           \A t \in DOMAIN heap[n].children :
               LET c == heap[n].children[t]
               IN  /\ c \in DOMAIN heap /\ heap[c].parent = n
                   /\ heap[c].tokens # << >> /\ heap[c].tokens[1] = t
    /\ Searched(heap, root_) = DOMAIN heap
    /\ \A r \in Requests : {held[r].node, held[r].owner} \subseteq DOMAIN heap

\* The token paths of the nodes.
Paths(h) ==
    LET path[n \in DOMAIN h] ==
            IF n = root_ THEN << >> ELSE path[h[n].parent] \o h[n].tokens
    IN  path

Path(n) == Paths(heap)[n]

AtPath(p) == CHOOSE n \in DOMAIN heap : Path(n) = p

Record(n) ==
    [ref_count |-> n.ref_count, seq_ids |-> n.seq_ids, ready_seq_ids |-> n.ready_seq_ids,
     last_access_tick |-> n.last_access_tick, canonical_len |-> n.canonical_len]

treeBar == [p \in {Path(n) : n \in DOMAIN heap} |-> Record(heap[AtPath(p)])]
heldBar == [r \in Requests |-> [held[r] EXCEPT !.node = Path(@), !.owner = Path(@)]]

Index == INSTANCE RadixIndex WITH tree <- treeBar, tick <- tick_, held <- heldBar

\* Every call does to the nodes and pointers what module RadixTree, on which the mapper is
\* modelled and proved, says of paths: walks match as much as they can, a split keeps the
\* prefix at its address, and pruning removes every ancestor that nothing needs.
ImplementsIndex == Index!Spec

\* The walks that only read agree with the definitions on paths: how much of a prompt
\* is matched, and by how much a pending sequence is ahead of the ready ones; which node
\* covers a prefix; and how deep it is.
LookupsAgree ==
    /\ \A tokens \in Prompts :
           LET a == inspect_prefix(heap, tokens)
           IN  /\ Index!Matches(treeBar, tokens, a.matched_tokens)
               /\ \A x \in DOMAIN treeBar :
                      Index!EdgeNode(treeBar, Index!Prefix(tokens, a.matched_tokens), x) =>
                          (a.avail.pending_tokens > a.avail.ready_tokens <=>
                              Index!PendingAdvantage(treeBar, tokens, a.matched_tokens, x))
    /\ \A n \in DOMAIN heap :
           /\ {Path(m) : m \in Below(heap, n)} = Index!CoveringNodes(treeBar, Path(n))
           /\ cumulative_token_depth(heap, n) = Len(Path(n))
=============================================================================
