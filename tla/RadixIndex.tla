------------------------------ MODULE RadixIndex ------------------------------
(***************************************************************************)
(* What the class RadixTree promises its callers: the path-keyed tree of   *)
(* module RadixTree under any order of calls that the worker thread makes, *)
(* together with the node pointers and sequence ids the callers hold.      *)
(*                                                                         *)
(* A request inserts its tokens, registers a sequence, marks it ready,     *)
(* perhaps extends it, and gives the sequence and the node back.  Between  *)
(* insert and register, and from extend to release, no other request       *)
(* calls.  The tick may skip values; only its order counts.                *)
(*                                                                         *)
(* The other side of the interface is Calls: what a caller may do for whom *)
(* the last two calls of a request are one step.                           *)
(***************************************************************************)
EXTENDS RadixTree

CONSTANTS
    Prompts, Requests, SeqIds,
    Extensions  \* what a request may generate behind its prompt

VARIABLES
    tree, tick, \* RadixTree::root_ by path, RadixTree::tick_
    held        \* what each caller holds

vars == <<tree, tick, held>>

NoHandle == [phase |-> "none", tokens |-> << >>, node |-> Root, matched |-> 0,
             seq |-> 0, owner |-> Root]

Init == tree = EmptyTree /\ tick = 0 /\ held = [r \in Requests |-> NoHandle]

Phases(S) == {r \in Requests : held[r].phase \in S}
Quiet == Phases({"inserted", "retiring", "released"}) = {}

\* What a split does to the pointers of the callers.
Relink(x, cut) == [r \in Requests |-> [held[r] EXCEPT !.node = Follow(@, x, cut),
                                                      !.owner = Follow(@, x, cut)]]

\* x is where the walk along tokens ends, after the first m of them.
Ends(tokens, m, x) == Matches(tree, tokens, m) /\ EdgeNode(tree, Prefix(tokens, m), x)

Insert(r, tokens) ==
    /\ held[r].phase = "none" /\ Quiet
    /\ tick' \in Nat /\ tick' > tick
    /\ \E m \in 0 .. Len(tokens), x \in DOMAIN tree :
           LET cut == Prefix(tokens, m)
           IN  /\ Ends(tokens, m, x)
               /\ held' = [Relink(x, cut) EXCEPT
                      ![r] = [NoHandle EXCEPT !.phase = "inserted", !.tokens = tokens,
                                              !.node = tokens, !.matched = m]]
               /\ tree' = insert(tree, tokens, x, cut, tick')

Register(r, s) ==
    /\ held[r].phase = "inserted"
    /\ \A p \in DOMAIN tree : s \notin tree[p].seq_ids
    /\ tree' = register_seq_id(tree, held[r].node, s, Len(held[r].tokens))
    /\ held' = [held EXCEPT ![r] = [@ EXCEPT !.phase = "pending", !.seq = s,
                                             !.owner = held[r].node]]
    /\ UNCHANGED tick

MarkReady(r) ==
    /\ held[r].phase = "pending" /\ Quiet
    /\ tree' = mark_seq_id_ready(tree, held[r].owner, held[r].seq)
    /\ held' = [held EXCEPT ![r].phase = "ready"]
    /\ UNCHANGED tick

\* Tokens were generated; the sequence moves to the node of all its tokens.
Extend(r, more) ==
    /\ held[r].phase = "ready" /\ Quiet
    /\ tick' \in Nat /\ tick' > tick
    /\ LET tokens == held[r].tokens \o more
       IN  \E m \in 0 .. Len(tokens), x \in DOMAIN tree :
               LET cut == Prefix(tokens, m)
               IN  /\ Ends(tokens, m, x)
                   /\ held' = [Relink(x, cut) EXCEPT
                          ![r] = [@ EXCEPT !.phase = "retiring", !.tokens = tokens,
                                           !.owner = tokens]]
                   /\ tree' = extend_seq_id(tree, held[r].owner, held[r].seq, tokens,
                                            x, cut, tick')

MayReleaseSeq(r) ==
    \/ Quiet /\ held[r].phase \in {"pending", "ready"}
    \/ held[r].phase = "retiring"

\* release_seq_id: the tree without the sequence of r, unless its node keeps it.
SeqReleased(r, retain) ==
    IF KeepsSeq(tree[held[r].owner], held[r].seq, retain) THEN tree
    ELSE [tree EXCEPT ![held[r].owner] = WithoutSeq(@, held[r].seq)]

ReleaseSeq(r, retain) ==
    /\ MayReleaseSeq(r)
    /\ tree' = SeqReleased(r, retain)
    /\ held' = [held EXCEPT ![r] = [@ EXCEPT !.phase = "released", !.owner = Root]]
    /\ UNCHANGED tick

Release(r) ==
    /\ held[r].phase \in {"inserted", "released"}
    /\ tree' = release(tree, held[r].node)
    /\ held' = [held EXCEPT ![r] = NoHandle]
    /\ UNCHANGED tick

Evict ==
    /\ Phases({"retiring", "released"}) = {}
    /\ \E p \in find_eviction_candidates(tree) : tree' = evict(tree, p)
    /\ UNCHANGED <<tick, held>>

Next ==
    \/ \E r \in Requests :
           \/ \E tokens \in Prompts : Insert(r, tokens)
           \/ \E s \in SeqIds : Register(r, s)
           \/ MarkReady(r)
           \/ \E more \in Extensions : Extend(r, more)
           \/ \E retain \in BOOLEAN : ReleaseSeq(r, retain)
           \/ Release(r)
    \/ Evict

Spec == Init /\ [][Next]_vars

\* ReleaseSeq(r, retain) and then Release(r), by a caller that does both at once.
End(r, retain) ==
    /\ MayReleaseSeq(r)
    /\ held' = [held EXCEPT ![r] = NoHandle]
    /\ tree' = release(SeqReleased(r, retain), held[r].node)
    /\ UNCHANGED tick

Calls == Init /\ [][Next \/ \E r \in Requests, retain \in BOOLEAN : End(r, retain)]_vars
=============================================================================
