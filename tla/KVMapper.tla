------------------------------- MODULE KVMapper -------------------------------
(***************************************************************************)
(* The logical-to-physical cache mapper of radixforge (kv_mapper.cpp) over *)
(* the prefix index of module RadixTree, driven by the calls that the      *)
(* inference worker (worker.cpp) makes for the requests in flight.         *)
(*                                                                         *)
(* One thread, the worker, changes the tree and the mapper; the HTTP       *)
(* threads only read them.  prepare_sequence takes and drops the locks     *)
(* several times, so it is a chain of steps here (phases "pressure" and    *)
(* "inserted"), and so is retire (phase "retiring"); no other call starts  *)
(* before the chain has ended (Quiet).                                     *)
(*                                                                         *)
(* kv is the content of llama.cpp's unified KV cache as one token sequence *)
(* per seq_id: llama_decode appends, seq_cp copies a prefix, seq_rm cuts.  *)
(***************************************************************************)
EXTENDS RadixTree, Functions

CONSTANTS
    Token,                  \* token vocabulary
    Prompts,                \* the prompts that clients send
    Requests,               \* request slots: one value per concurrently handled request
    max_sequences,          \* --max-seq: seq_ids 1 .. max_sequences - 1, 0 is scratch
    high_watermark,         \* kv_high_watermark * n_ctx, in cells
    CacheModes,             \* values of prefix_cache_enabled: FALSE with --no-prefix-cache
    MaxLen                  \* bound: prompt and generated tokens of one request

ASSUME PromptsAssumption   == Prompts \subseteq Seq(Token)
ASSUME SequencesAssumption == max_sequences \in Nat \ {0} /\ high_watermark \in Nat
ASSUME CacheAssumption     == CacheModes \subseteq BOOLEAN /\ MaxLen \in Nat
ASSUME RequestsAssumption  == IsFiniteSet(Requests)

VARIABLES
    prefix_cache_enabled,   \* fixed when the process starts
    tree,               \* RadixTree::root_ and its nodes, by path
    tick,               \* RadixTree::tick_
    free_seq_ids,       \* KVMapper::free_seq_ids_, a FIFO queue
    seq_cell_counts,    \* KVMapper::seq_cell_counts_, defined on registered ids
    retained_seq_ids,   \* KVMapper::retained_seq_ids_
    kv,                 \* external: tokens whose KV cells are tagged with each seq_id
    reqs                \* PrefillCtx / ActiveSeq of every slot

vars == <<prefix_cache_enabled, tree, tick, free_seq_ids, seq_cell_counts, retained_seq_ids, kv, reqs>>
mapper == <<free_seq_ids, seq_cell_counts, retained_seq_ids, kv>>

SeqIds == 1 .. max_sequences - 1
NoSeq  == -1

\* phase: none -> pressure -> inserted -> prefill -> active [-> retiring] -> none.
\* leaf is leaf_node, matched is matched_tokens, tokens are the tokens the worker
\* takes for decoded (cached_pos and the submitted delta, then cached_tokens),
\* node is the node that owns seq.
NoRequest == [phase |-> "none", prompt |-> << >>, leaf |-> Root, matched |-> 0,
              seq |-> NoSeq, tokens |-> << >>, node |-> Root]

\* The constructor's pool.
InitialPool == [i \in SeqIds |-> i]

Init ==
    /\ prefix_cache_enabled \in CacheModes
    /\ tree = EmptyTree
    /\ tick = 0
    /\ free_seq_ids = InitialPool
    /\ seq_cell_counts = << >>
    /\ retained_seq_ids = {}
    /\ kv = [s \in SeqIds |-> << >>]
    /\ reqs = [r \in Requests |-> NoRequest]

Phase(r) == reqs[r].phase

\* The requests that hold a reference on their leaf, and those that own a seq_id.
Holding == {r \in Requests : Phase(r) \in {"inserted", "prefill", "active", "retiring"}}
Owning  == {r \in Requests : Phase(r) \in {"prefill", "active", "retiring"}}

\* The worker is inside a chain of calls for r; it is between two calls.
Busy(r) == Phase(r) \in {"pressure", "inserted", "retiring"}
Quiet == \A r \in Requests : ~ Busy(r)

\* What a split does to the pointers of the requests.
Relink(x, cut) == [r \in Requests |-> [reqs[r] EXCEPT !.leaf = Follow(@, x, cut),
                                                      !.node = Follow(@, x, cut)]]

-----------------------------------------------------------------------------
(* Eviction *)

kv_cells_used == SumFunction(seq_cell_counts)

\* std::set iteration: ascending ids.
Ascending(S) ==
    {q \in [1 .. Cardinality(S) -> S] :
        \A i, j \in 1 .. Cardinality(S) : i < j => q[i] < q[j]}

\* evict_one_locked: every sequence of the least recently used idle node.
evict_one ==
    \E p \in find_eviction_candidates(tree) :
        LET evicted == tree[p].seq_ids
        IN  /\ tree' = evict(tree, p)
            /\ kv' = [s \in SeqIds |-> IF s \in evicted THEN << >> ELSE kv[s]]
            /\ \E q \in Ascending(evicted) : free_seq_ids' = free_seq_ids \o q
            /\ seq_cell_counts' = Restrict(seq_cell_counts,
                                           DOMAIN seq_cell_counts \ evicted)
            /\ retained_seq_ids' = retained_seq_ids \ evicted

-----------------------------------------------------------------------------
(* prepare_sequence *)

\* prepare_all reaches prepare_sequence: a slot is left (run), and no pending
\* sequence promises a longer prefix than the ready ones (else it is deferred).
BeginPrepare(r, prompt) ==
    /\ Quiet
    /\ Phase(r) = "none"
    /\ Cardinality(Holding) < max_sequences - 1
    /\ \E m \in 0 .. Len(prompt) : \E x \in DOMAIN tree :
           /\ Matches(tree, prompt, m)
           /\ EdgeNode(tree, Prefix(prompt, m), x)
           /\ ~ PendingAdvantage(tree, prompt, m, x)
    /\ reqs' = [reqs EXCEPT ![r] = [NoRequest EXCEPT !.phase = "pressure",
                                                     !.prompt = prompt]]
    /\ UNCHANGED <<tree, tick, mapper>>

\* One iteration of evict_kv_pressure_locked.
EvictPressure(r) ==
    /\ Phase(r) = "pressure"
    /\ kv_cells_used > high_watermark
    /\ evict_one
    /\ UNCHANGED <<tick, reqs>>

\* The pressure loop is over: tree_.insert.
Insert(r) ==
    /\ Phase(r) = "pressure"
    /\ kv_cells_used <= high_watermark \/ Candidates(tree) = {}
    /\ LET prompt == reqs[r].prompt
       IN  \E m \in 0 .. Len(prompt) : \E x \in DOMAIN tree :
               LET cut == Prefix(prompt, m)
               IN  /\ Matches(tree, prompt, m)
                   /\ EdgeNode(tree, cut, x)
                   /\ tick' = tick + 1
                   /\ tree' = insert(tree, prompt, x, cut, tick')
                   /\ reqs' = [Relink(x, cut) EXCEPT
                                   ![r] = [@ EXCEPT !.phase = "inserted",
                                                    !.leaf = prompt,
                                                    !.node = prompt,
                                                    !.matched = m]]
    /\ UNCHANGED mapper

\* allocate_seq_id_locked finds the pool empty and evicts once.
AllocateEvict(r) ==
    /\ Phase(r) = "inserted"
    /\ free_seq_ids = << >>
    /\ evict_one
    /\ UNCHANGED <<tick, reqs>>

\* Mutant of Exhausted: the reference on the leaf is forgotten.
ExhaustedForgets(r) ==
    /\ Phase(r) = "inserted"
    /\ free_seq_ids = << >>
    /\ Candidates(tree) = {}
    /\ reqs' = [reqs EXCEPT ![r] = NoRequest]
    /\ UNCHANGED <<tree, tick, mapper>>

\* SequenceCapacityExhausted: the reference is dropped, the worker queues the request.
Exhausted(r) ==
    /\ Phase(r) = "inserted"
    /\ free_seq_ids = << >>
    /\ Candidates(tree) = {}
    /\ tree' = release(tree, reqs[r].leaf)
    /\ reqs' = [reqs EXCEPT ![r] = NoRequest]
    /\ UNCHANGED <<tick, mapper>>

\* The cells of s below position pos: what seq_cp(s, _, 0, pos) tags and what
\* seq_rm(s, pos, -1) leaves.
Cells(s, pos) == Prefix(kv[s], Least(pos, Len(kv[s])))

\* Mutant of BackOff: a full hit is copied whole.
NoBackOff(prompt, len) == len

\* A full hit gives its last token back, so that there is one to decode.
BackOff(prompt, len) == IF len = Len(prompt) /\ len > 0 THEN len - 1 ELSE len

\* Mutant of Lookup: the match is not capped by what the source covers.
LookupUncapped(prompt, m) ==
    LET nodes == IF prefix_cache_enabled /\ m > 0
                 THEN CoveringNodes(tree, Prefix(prompt, m)) ELSE {}
    IN  IF nodes = {} THEN {<<NoSeq, 0>>}
        ELSE UNION {{<<s, BackOff(prompt, m)>> : s \in FirstReady(tree[p])} : p \in nodes}

\* The (source, cached_pos) pairs that the lookup may come to; NoSeq without one.
Lookup(prompt, m) ==
    LET nodes == IF prefix_cache_enabled /\ m > 0
                 THEN CoveringNodes(tree, Prefix(prompt, m)) ELSE {}
    IN  IF nodes = {} THEN {<<NoSeq, 0>>}
        ELSE UNION {{<<s, BackOff(prompt, Least(m, CoveredLen(tree, p)))>> :
                        s \in FirstReady(tree[p])} : p \in nodes}

\* The id is allocated, the covered prefix copied, the id registered as pending.
\* An empty delta (only an empty prompt has one) is released at once.
Register(r) ==
    /\ Phase(r) = "inserted"
    /\ free_seq_ids # << >>
    /\ LET prompt == reqs[r].prompt
           new    == Head(free_seq_ids)
       IN  \E hit \in Lookup(prompt, reqs[r].matched) :
               LET src == hit[1]
                   pos == hit[2]
               IN  /\ kv' = IF pos > 0
                            THEN [kv EXCEPT ![new] = Cells(src, pos)] ELSE kv
                   /\ seq_cell_counts' = [s \in DOMAIN seq_cell_counts \cup {new} |->
                                             IF s = new THEN pos ELSE seq_cell_counts[s]]
                   /\ reqs' = [reqs EXCEPT
                          ![r] = [@ EXCEPT
                                     !.phase = IF pos = Len(prompt) THEN "retiring"
                                               ELSE "prefill",
                                     !.seq = new,
                                     !.tokens = Prefix(prompt, pos)]]
    /\ free_seq_ids' = Tail(free_seq_ids)
    /\ retained_seq_ids' = retained_seq_ids \ {Head(free_seq_ids)}
    /\ tree' = register_seq_id(tree, reqs[r].leaf, Head(free_seq_ids),
                               Len(reqs[r].prompt))
    /\ UNCHANGED tick

-----------------------------------------------------------------------------
(* Decoding *)

\* A fused decode succeeds with k prompt tokens of r.  The last chunk makes the
\* sequence ready: mark_sequence_ready.
DecodePrompt(r, k) ==
    /\ Quiet
    /\ Phase(r) = "prefill"
    /\ LET q    == reqs[r]
           pos  == Len(q.tokens)
           full == pos + k = Len(q.prompt)
       IN  /\ pos + k <= Len(q.prompt)
           /\ kv' = [kv EXCEPT ![q.seq] = @ \o SubSeq(q.prompt, pos + 1, pos + k)]
           /\ reqs' = [reqs EXCEPT
                  ![r] = [@ EXCEPT !.tokens = Prefix(q.prompt, pos + k),
                                   !.phase = IF full THEN "active" ELSE "prefill"]]
           /\ tree' = IF full THEN mark_seq_id_ready(tree, q.leaf, q.seq) ELSE tree
           /\ seq_cell_counts' =
                  IF full THEN [seq_cell_counts EXCEPT ![q.seq] =
                                    tree[q.leaf].canonical_len]
                  ELSE seq_cell_counts
    /\ UNCHANGED <<tick, free_seq_ids, retained_seq_ids>>

\* A fused decode succeeds with the queued token of r: set_sequence_cell_count.
Generate(r, token) ==
    /\ Quiet
    /\ Phase(r) = "active"
    /\ Len(reqs[r].tokens) < MaxLen
    /\ LET s == reqs[r].seq
       IN  /\ kv' = [kv EXCEPT ![s] = Append(@, token)]
           /\ seq_cell_counts' = [seq_cell_counts EXCEPT ![s] =
                                      Len(reqs[r].tokens) + 1]
    /\ reqs' = [reqs EXCEPT ![r].tokens = Append(@, token)]
    /\ UNCHANGED <<tree, tick, free_seq_ids, retained_seq_ids>>

\* llama_decode reports a full KV cache: evict_idle_sequence before the retry.
EvictIdle ==
    /\ Quiet
    /\ Owning # {}
    /\ evict_one
    /\ UNCHANGED <<tick, reqs>>

-----------------------------------------------------------------------------
(* End of a request *)

\* retire after an end-of-generation token: extend_sequence, and release_sequence
\* follows.  The last sampled token was not decoded and is not in tokens.
Retire(r) ==
    /\ Quiet
    /\ Phase(r) = "active"
    /\ Len(reqs[r].tokens) > Len(reqs[r].prompt)
    /\ LET q == reqs[r]
       IN  /\ IF prefix_cache_enabled /\ q.seq \in tree[q.leaf].ready_seq_ids
              THEN \E m \in 0 .. Len(q.tokens) : \E x \in DOMAIN tree :
                      LET cut == Prefix(q.tokens, m)
                      IN  /\ Matches(tree, q.tokens, m)
                          /\ EdgeNode(tree, cut, x)
                          /\ tick' = tick + 1
                          /\ tree' = extend_seq_id(tree, q.leaf, q.seq, q.tokens,
                                                   x, cut, tick')
                          /\ reqs' = [Relink(x, cut) EXCEPT
                                 ![r] = [@ EXCEPT !.phase = "retiring",
                                                  !.node = q.tokens]]
              ELSE /\ reqs' = [reqs EXCEPT ![r].phase = "retiring"]
                   /\ UNCHANGED <<tree, tick>>
           /\ seq_cell_counts' = IF prefix_cache_enabled
                                 THEN [seq_cell_counts EXCEPT ![q.seq] = Len(q.tokens)]
                                 ELSE seq_cell_counts
    /\ UNCHANGED <<free_seq_ids, retained_seq_ids, kv>>

\* release_sequence(seq, node), then tree_.release(leaf_node).
ReleaseAll(r) ==
    LET s    == reqs[r].seq
        p    == reqs[r].node
        keep == s \notin tree[p].seq_ids \/ KeepsSeq(tree[p], s, prefix_cache_enabled)
        covers == {c \in CoveringNodes(tree, p) : s \in FirstReady(tree[c])}
    IN  /\ IF keep
           THEN /\ IF covers = {}
                   THEN UNCHANGED <<kv, seq_cell_counts, retained_seq_ids>>
                   ELSE \E c \in covers :
                        LET len == CoveredLen(tree, c)
                        IN  /\ kv' = [kv EXCEPT ![s] = Cells(s, len)]
                            /\ seq_cell_counts' = [seq_cell_counts EXCEPT ![s] = len]
                            /\ retained_seq_ids' = retained_seq_ids \cup {s}
                /\ tree' = release(tree, reqs[r].leaf)
                /\ UNCHANGED free_seq_ids
           ELSE /\ kv' = [kv EXCEPT ![s] = << >>]
                /\ free_seq_ids' = Append(free_seq_ids, s)
                /\ seq_cell_counts' = Restrict(seq_cell_counts,
                                               DOMAIN seq_cell_counts \ {s})
                /\ retained_seq_ids' = retained_seq_ids \ {s}
                /\ tree' = release([tree EXCEPT ![p] = WithoutSeq(@, s)], reqs[r].leaf)
        /\ reqs' = [reqs EXCEPT ![r] = NoRequest]
        /\ UNCHANGED tick

FinishRetire(r) == Phase(r) = "retiring" /\ ReleaseAll(r)

\* The request ends without extending the tree: cancelled, failed, ended by its
\* token limit or by its first sampled token, or cut off by shutdown.
Abandon(r) == Quiet /\ Phase(r) \in {"prefill", "active"} /\ ReleaseAll(r)

-----------------------------------------------------------------------------
Next ==
    /\ UNCHANGED prefix_cache_enabled
    /\ \/ \E r \in Requests :
           \/ \E prompt \in Prompts : BeginPrepare(r, prompt)
           \/ EvictPressure(r)
           \/ Insert(r)
           \/ AllocateEvict(r)
           \/ Exhausted(r)
           \/ Register(r)
           \/ \E k \in 1 .. Len(reqs[r].prompt) : DecodePrompt(r, k)
           \/ \E token \in Token : Generate(r, token)
           \/ Retire(r)
           \/ FinishRetire(r)
           \/ Abandon(r)
       \/ EvictIdle

Spec == Init /\ [][Next]_vars

-----------------------------------------------------------------------------
(* Properties *)

Nodes == [ref_count : Nat, seq_ids : SUBSET SeqIds, ready_seq_ids : SUBSET SeqIds,
          last_access_tick : Nat, canonical_len : Nat]

Slots == [phase : {"none", "pressure", "inserted", "prefill", "active", "retiring"},
          prompt : Seq(Token), leaf : Seq(Token), matched : Nat,
          seq : SeqIds \cup {NoSeq}, tokens : Seq(Token), node : Seq(Token)]

\* Every variable has its type; the tree always has its root.
TypeOK ==
    /\ DOMAIN tree \subseteq Seq(Token)
    /\ Root \in DOMAIN tree
    /\ \A p \in DOMAIN tree : tree[p] \in Nodes
    /\ tick \in Nat
    /\ free_seq_ids \in Seq(SeqIds)
    /\ DOMAIN seq_cell_counts \subseteq SeqIds
    /\ \A s \in DOMAIN seq_cell_counts : seq_cell_counts[s] \in Nat
    /\ retained_seq_ids \subseteq SeqIds
    /\ kv \in [SeqIds -> Seq(Token)]
    /\ reqs \in [Requests -> Slots]

Registered == UNION {tree[p].seq_ids : p \in DOMAIN tree}

\* No id is lost or handed out twice: every id is either queued in the pool, once,
\* or registered at exactly one node, and has a cell count just when registered.
SeqIdConservation ==
    /\ \A i, j \in DOMAIN free_seq_ids : free_seq_ids[i] = free_seq_ids[j] => i = j
    /\ Registered = SeqIds \ Range(free_seq_ids)
    /\ \A p, q \in DOMAIN tree : p # q => tree[p].seq_ids \cap tree[q].seq_ids = {}
    /\ DOMAIN seq_cell_counts = Registered

Holders(p) == {r \in Holding : reqs[r].leaf = p}

\* Splits, extensions, evictions and failed preparations leave every ref_count equal
\* to the number of requests that hold the node (one more for the root), so release
\* neither frees a node in use nor leaves one pinned.
RefCountExact ==
    /\ \A r \in Holding : reqs[r].leaf \in DOMAIN tree
    /\ \A p \in DOMAIN tree :
           tree[p].ref_count = Cardinality(Holders(p)) + (IF p = Root THEN 1 ELSE 0)

\* A sequence offered as a copy source holds the KV of its node's whole path, whatever
\* splits happened since it was filled: README "Ancestor-cap coverage" and
\* "Ready-only copying".
ReadyCoversPath ==
    \A p \in DOMAIN tree :
        /\ tree[p].ready_seq_ids \subseteq tree[p].seq_ids
        /\ \A s \in tree[p].ready_seq_ids : p \sqsubseteq kv[s]
        /\ IF tree[p].seq_ids = {} THEN tree[p].canonical_len = 0
                                   ELSE tree[p].canonical_len >= Len(p)

\* The KV cells under a request's seq_id are exactly the tokens that the worker takes
\* for decoded: no foreign, missing or duplicated cell is ever attended to.
RequestKvExact ==
    \A r \in Owning : kv[reqs[r].seq] = reqs[r].tokens

\* Nobody evicts, frees or re-registers the sequence of a request in flight.
OwnedRegistered ==
    \A r \in Owning :
        /\ reqs[r].node \in DOMAIN tree
        /\ reqs[r].seq \in tree[reqs[r].node].seq_ids
        /\ \A o \in Owning : reqs[o].seq = reqs[r].seq => o = r

\* worker.cpp "the leading pending request will become ready (or be released on failure)":
\* a sequence is pending only as long as a request is filling it (or, of an empty prompt,
\* about to release it), so that no request is deferred behind a sequence left pending.
PendingOwned ==
    \A p \in DOMAIN tree : \A s \in tree[p].seq_ids \ tree[p].ready_seq_ids :
        \E r \in Owning :
            /\ reqs[r].seq = s
            /\ Phase(r) = "prefill" \/ (Phase(r) = "retiring" /\ reqs[r].prompt = << >>)

\* README "Non-empty delta": preparation leaves a token of every non-empty prompt to
\* decode, so none takes the error exit of prepare_all or waits with nothing to submit.
NonEmptyDelta ==
    \A r \in Requests :
        /\ Phase(r) = "prefill" => Len(reqs[r].tokens) < Len(reqs[r].prompt)
        /\ Phase(r) = "retiring" /\ reqs[r].prompt # << >>
               => Len(reqs[r].tokens) > Len(reqs[r].prompt)

\* An id in the pool has no cell left in the KV cache.
PooledEmpty == \A s \in Range(free_seq_ids) : kv[s] = << >>

\* The /metrics gauges, one subtracting two container sizes, and the counts of cells that
\* decide evictions: retained ids are the registered ones that no request owns, the
\* difference counts the requests, a pooled id has no cell left, and the cells counted are
\* those that llama.cpp holds for a retained sequence and for one that has decoded a
\* generated token or is about to retire.  For one in prefill they may be too few.  Only of
\* a sequence that has just decoded its prompt nothing is said: mark_sequence_ready counts
\* canonical_len of its node, which a split does not change.
GaugesExact ==
    /\ retained_seq_ids = Registered \ {reqs[r].seq : r \in Owning}
    /\ Cardinality(DOMAIN seq_cell_counts) - Cardinality(retained_seq_ids)
           = Cardinality(Owning)
    /\ \A s \in retained_seq_ids : seq_cell_counts[s] = Len(kv[s])
    /\ \A r \in Owning :
           LET counted == seq_cell_counts[reqs[r].seq]
               held    == Len(kv[reqs[r].seq])
           IN  /\ Phase(r) = "prefill" => counted <= held
               /\ Phase(r) = "retiring" \/ Len(reqs[r].tokens) > Len(reqs[r].prompt)
                      => counted = held
    /\ PooledEmpty

\* A node keeps at most one canonical sequence beside those of the requests in flight.
OneCanonical ==
    \A p \in DOMAIN tree : Cardinality(tree[p].seq_ids \cap retained_seq_ids) <= 1

\* Between allocation and lookup an eviction may prune nodes; cache_node survives it.
CacheNodeAlive ==
    \A r \in Requests : Phase(r) = "inserted" =>
        Prefix(reqs[r].prompt, reqs[r].matched) \in DOMAIN tree

\* README "exhausted KV capacity", test_kv_mapper.cpp "sequence pool reports exhaustion when
\* no idle cache exists": a request is sent back to the queue for want of an id only while
\* another one is in flight, whose end will give it one, so that retrying makes progress.
\* With a single id (max_sequences = 2, which main accepts) this fails: the id that is
\* retained on the request's own path is pinned by the request that asks for it.
ExhaustedOnlyWhenShared ==
    \A r \in Requests :
        Phase(r) = "inserted" /\ free_seq_ids = << >> /\ Candidates(tree) = {}
            => Owning # {}

\* README on --no-prefix-cache: nothing is retained and every request starts cold.
ColdWithoutCache ==
    ~ prefix_cache_enabled =>
        /\ retained_seq_ids = {}
        /\ Registered = {reqs[r].seq : r \in Owning}
        /\ \A r \in Requests : Phase(r) = "prefill" => seq_cell_counts[reqs[r].seq] = 0

-----------------------------------------------------------------------------
(* Refinement *)

\* The nodes whose sequences may be copied from.
Reusable ==
    IF prefix_cache_enabled THEN {p \in DOMAIN tree : tree[p].ready_seq_ids # {}} ELSE {}

\* What the cells of llama.cpp hold for each request, from registration to release.
Attended ==
    [r \in Requests |->
        IF r \in Owning
        THEN [running |-> TRUE, prompt |-> reqs[r].prompt, tokens |-> kv[reqs[r].seq]]
        ELSE [running |-> FALSE, prompt |-> << >>, tokens |-> << >>]]

Cache == INSTANCE PrefixCache
             WITH cached   <- UNION {{Prefix(p, n) : n \in 1 .. Len(p)} : p \in Reusable},
                  sessions <- Attended

\* The mapper implements the abstract cache: under every interleaving of splits, evictions,
\* extensions and releases, a request starts from cells that hold a published prefix of its
\* prompt, computes the rest itself, and is published only once its prompt is decoded.
ImplementsPrefixCache == Cache!Spec

\* What a request holds of the tree, and how far it is with its calls.  One that retires
\* without having moved its sequence to another node is where it was before.
Handle(q) ==
    LET at(phase, tokens) == [phase |-> phase, tokens |-> tokens, node |-> q.leaf,
                              matched |-> q.matched, seq |-> q.seq, owner |-> q.node]
        moved == q.node # q.leaf
    IN  CASE q.phase = "inserted" -> [at("inserted", q.prompt) EXCEPT !.seq = 0,
                                                                      !.owner = Root]
          [] q.phase = "prefill" -> at("pending", q.prompt)
          [] q.phase = "active"  -> at("ready", q.prompt)
          [] q.phase = "retiring" /\ moved   -> at("retiring", q.tokens)
          [] q.phase = "retiring" /\ ~ moved ->
                 at(IF q.prompt = << >> THEN "pending" ELSE "ready", q.prompt)
          [] OTHER -> [phase |-> "none", tokens |-> << >>, node |-> Root, matched |-> 0,
                       seq |-> 0, owner |-> Root]

Handles == [r \in Requests |-> Handle(reqs[r])]

Index == INSTANCE RadixIndex
             WITH held       <- Handles,
                  Extensions <- UNION {[1 .. n -> Token] : n \in 1 .. MaxLen - 1}

\* The worker and the mapper call the tree only as RadixIndex says, which is what makes its
\* raw node pointers safe: one insert and one release per request, in that order, whatever
\* becomes of the request; no call of another request inside a chain of calls; no eviction
\* while a sequence that was moved waits for its release; an id is registered once.
CallsIndex == Index!Calls

\* The leaves that hold nothing.
EmptyLeaves(t) ==
    {p \in DOMAIN t \ {Root} : Dead(t[p]) /\ ~ \E q \in DOMAIN t : p \sqsubseteq q /\ q # p}

\* README "empty leaf branches are pruned": no release, cleanup or eviction, wherever the
\* references and sequences of its path went before, leaves a leaf behind that holds
\* nothing.  A split does: nothing ever prunes its suffix when that has no children and
\* holds no sequence, so a step that makes nodes is left out.
EmptiedIsPruned ==
    [][DOMAIN tree' \subseteq DOMAIN tree => EmptyLeaves(tree') \subseteq EmptyLeaves(tree)]_vars

-----------------------------------------------------------------------------
(* The inductive invariant *)

\* What the worker knows of a request in each phase.
RequestInv ==
    /\ \A r, o \in Requests : Busy(r) /\ Busy(o) => r = o
    /\ \A r \in Holding :
           /\ reqs[r].leaf \sqsubseteq reqs[r].prompt
           /\ Phase(r) # "retiring" => reqs[r].node = reqs[r].leaf
           /\ Phase(r) = "inserted" => /\ reqs[r].leaf = reqs[r].prompt
                                       /\ reqs[r].matched \in 0 .. Len(reqs[r].prompt)
           /\ Phase(r) = "prefill" =>
                  /\ Len(reqs[r].tokens) < Len(reqs[r].prompt)
                  /\ reqs[r].tokens = Prefix(reqs[r].prompt, Len(reqs[r].tokens))
           /\ Phase(r) = "active" => reqs[r].prompt \sqsubseteq reqs[r].tokens

\* The invariants that need each other to be preserved.
IInv ==
    /\ TypeOK
    /\ RequestInv
    /\ RefCountExact
    /\ OwnedRegistered
    /\ SeqIdConservation
    /\ ReadyCoversPath
    /\ RequestKvExact
    /\ PooledEmpty
    /\ CacheNodeAlive
=============================================================================
