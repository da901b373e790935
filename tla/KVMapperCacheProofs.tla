------------------------- MODULE KVMapperCacheProofs -------------------------
(***************************************************************************)
(* Proofs about the cache that module KVMapper keeps, on top of the         *)
(* invariant of module KVMapperProofs: what is pending, what is retained,   *)
(* what the gauges say, and that KVMapper implements PrefixCache: every     *)
(* step of the mapper is a step of the abstract cache, or changes nothing   *)
(* of it.  Last, that every step is one of the calls of the tree that       *)
(* module RadixIndex allows, or none.                                       *)
(***************************************************************************)
EXTENDS KVMapperProofs

-----------------------------------------------------------------------------
(* The second inductive invariant *)

OwnedIds == {reqs[r].seq : r \in Owning}

Pending(n) == n.seq_ids \ n.ready_seq_ids

\* The requests whose sequence is pending by right.
Filling == {r \in Owning : Phase(r) = "prefill"
                               \/ (Phase(r) = "retiring" /\ reqs[r].prompt = << >>)}

RetainedExact == retained_seq_ids = Registered \ OwnedIds

RetainedCells == \A s \in retained_seq_ids : seq_cell_counts[s] = Len(kv[s])

OneRetained ==
    \A p \in DOMAIN tree : \A s, u \in tree[p].seq_ids \cap retained_seq_ids : s = u

Cold ==
    ~ prefix_cache_enabled =>
        /\ retained_seq_ids = {}
        /\ \A r \in Requests : Phase(r) = "prefill" => seq_cell_counts[reqs[r].seq] = 0

\* The root never offers a sequence: only an empty prompt comes to hold it.
RootBare ==
    /\ tree[Root].ready_seq_ids = {}
    /\ \A r \in Holding : reqs[r].prompt # << >> => reqs[r].leaf # Root

\* A request is only prepared when there is a seq_id besides the scratch one.
Admitted == \A r \in Requests : Phase(r) # "none" => /\ max_sequences > 1
                                                     /\ reqs[r].prompt \in Prompts

CacheInv ==
    /\ NonEmptyDelta
    /\ PendingOwned
    /\ RetainedExact
    /\ RetainedCells
    /\ OneRetained
    /\ Cold
    /\ RootBare
    /\ Admitted

-----------------------------------------------------------------------------
(* What a step does to the nodes and to the other requests *)

\* Apart from s, the node at p has its sequences from the node that was at q.
Inherits(p, q, s) ==
    /\ p \sqsubseteq q
    /\ p = Root => q = Root
    /\ tree'[p].seq_ids \ {s} \subseteq tree[q].seq_ids
    /\ tree'[p].ready_seq_ids \ {s} \subseteq tree[q].ready_seq_ids
    /\ Pending(tree'[p]) \ {s} \subseteq Pending(tree[q])

\* Splits, prunings, evictions and releases leave sequences together that were together,
\* at the same path or a shorter one; s is the sequence the step is about.
TreeStep(s) ==
    \A p \in DOMAIN tree' :
        tree'[p].seq_ids \ {s} # {} => \E q \in DOMAIN tree : Inherits(p, q, s)

\* The step is about r: the others keep all but their pointers.
OthersKept(r) ==
    \A o \in Requests \ {r} :
        /\ reqs'[o].phase = reqs[o].phase /\ reqs'[o].prompt = reqs[o].prompt
        /\ reqs'[o].seq = reqs[o].seq /\ reqs'[o].tokens = reqs[o].tokens
        /\ reqs[o].leaf # Root => reqs'[o].leaf # Root

\* A tree whose nodes stay as they are, or are removed.
LEMMA TreeStepSubset ==
    ASSUME TypeOK, NEW s, DOMAIN tree' \subseteq DOMAIN tree,
           \A p \in DOMAIN tree' : /\ tree'[p].seq_ids \ {s} \subseteq tree[p].seq_ids
                                   /\ tree'[p].ready_seq_ids \ {s} \subseteq tree[p].ready_seq_ids
                                   /\ Pending(tree'[p]) \ {s} \subseteq Pending(tree[p])
    PROVE  TreeStep(s)
<1>1. \A p \in DOMAIN tree : p \sqsubseteq p
  BY PrefixOrder DEF TypeOK
<1> QED
  BY <1>1 DEF TreeStep, Inherits

\* The tree is the same.
LEMMA TreeStepSame ==
    ASSUME TypeOK, NEW s, tree' = tree
    PROVE  TreeStep(s)
BY TreeStepSubset

\* A node keeps one canonical sequence through every step that retains nothing new.
LEMMA OneRetainedStep ==
    ASSUME OneRetained, NEW s, TreeStep(s), retained_seq_ids' \subseteq retained_seq_ids,
           s \notin retained_seq_ids'
    PROVE  OneRetained'
<1> SUFFICES ASSUME NEW p \in DOMAIN tree',
                    NEW i \in tree'[p].seq_ids \cap retained_seq_ids',
                    NEW j \in tree'[p].seq_ids \cap retained_seq_ids'
             PROVE  i = j
  BY DEF OneRetained
<1>1. PICK q \in DOMAIN tree : Inherits(p, q, s)
  BY DEF TreeStep
<1> QED
  BY <1>1 DEF Inherits, OneRetained

\* A pending sequence stays the sequence of a request that fills it.
LEMMA PendingStep ==
    ASSUME TypeOK, PendingOwned, ReadyCoversPath', NEW s, NEW r \in Requests, TreeStep(s), OthersKept(r),
           \A p \in DOMAIN tree' :
               s \in Pending(tree'[p]) => r \in Filling' /\ reqs'[r].seq = s,
           r \in Filling => \/ r \in Filling' /\ reqs'[r].seq = reqs[r].seq
                            \/ \A p \in DOMAIN tree' : reqs[r].seq \notin Pending(tree'[p])
    PROVE  PendingOwned'
<1> SUFFICES ASSUME NEW p \in DOMAIN tree',
                    NEW i \in Pending(tree'[p])
             PROVE  \E o \in Filling' : reqs'[o].seq = i
  BY DEF PendingOwned, Pending, Filling, Phase
<1>1. CASE i = s
  BY <1>1
<1>2. CASE i # s
  <2>1. i \in tree'[p].seq_ids \ {s}
    BY <1>2 DEF Pending
  <2>2. PICK q \in DOMAIN tree : Inherits(p, q, s)
    BY <2>1 DEF TreeStep
  <2>3. i \in Pending(tree[q])
    BY <1>2, <2>2 DEF Inherits
  <2>4. PICK o \in Filling : reqs[o].seq = i
    BY <2>3 DEF PendingOwned, Pending, Filling
  <2>5. CASE o = r
    BY <2>4, <2>5
  <2>6. CASE o # r
    <3>1. o \in Requests \ {r}
      BY <2>6 DEF Filling, Owning
    <3>2. o \in Filling'
      BY <2>4, <3>1 DEF Filling, Owning, Phase, OthersKept
    <3> QED BY <2>4, <3>1, <3>2 DEF OthersKept
  <2> QED BY <2>5, <2>6
<1> QED BY <1>1, <1>2

\* The root stays bare.
LEMMA RootStep ==
    ASSUME TypeOK, TypeOK', ReadyCoversPath', RootBare, NEW s, NEW r \in Requests, TreeStep(s), OthersKept(r),
           s \notin tree'[Root].ready_seq_ids,
           r \in Holding' /\ reqs'[r].prompt # << >> => reqs'[r].leaf # Root
    PROVE  RootBare'
<1>1. tree'[Root].ready_seq_ids = {}
  <2> SUFFICES ASSUME NEW i \in tree'[Root].ready_seq_ids PROVE FALSE
    OBVIOUS
  <2>1. Root \in DOMAIN tree' /\ i \in tree'[Root].seq_ids \ {s}
    BY DEF TypeOK, ReadyCoversPath
  <2>2. PICK q \in DOMAIN tree : Inherits(Root, q, s)
    BY <2>1 DEF TreeStep
  <2> QED BY <2>2 DEF Inherits, RootBare
<1>2. ASSUME NEW o \in Holding', reqs'[o].prompt # << >>
      PROVE  reqs'[o].leaf # Root
  <2>1. CASE o = r
    BY <1>2, <2>1
  <2>2. CASE o # r
    <3>1. o \in Requests \ {r}
      BY <2>2 DEF Holding
    <3>2. o \in Holding
      BY <1>2, <3>1 DEF Holding, Phase, OthersKept
    <3> QED BY <1>2, <3>1, <3>2 DEF OthersKept, RootBare
  <2> QED BY <2>1, <2>2
<1> QED BY <1>1, <1>2 DEF RootBare

\* The parts of the invariant that are about one request at a time.
LEMMA SlotStep ==
    ASSUME NonEmptyDelta, Admitted, NEW r \in Requests, OthersKept(r),
           reqs'[r].phase = "prefill" => Len(reqs'[r].tokens) < Len(reqs'[r].prompt),
           reqs'[r].phase = "retiring" /\ reqs'[r].prompt # << >>
               => Len(reqs'[r].tokens) > Len(reqs'[r].prompt),
           reqs'[r].phase # "none" => /\ max_sequences > 1
                                      /\ reqs'[r].prompt \in Prompts
    PROVE  NonEmptyDelta' /\ Admitted'
<1>1. NonEmptyDelta'
  BY DEF NonEmptyDelta, OthersKept, Phase
<1>2. Admitted'
  BY DEF Admitted, OthersKept, Phase
<1> QED BY <1>1, <1>2

\* Without the cache nothing is retained and nothing was copied.
LEMMA ColdStep ==
    ASSUME Cold, UNCHANGED prefix_cache_enabled, NEW r \in Requests, OthersKept(r),
           ~ prefix_cache_enabled => retained_seq_ids' = {},
           ~ prefix_cache_enabled /\ reqs'[r].phase = "prefill"
               => seq_cell_counts'[reqs'[r].seq] = 0,
           \A o \in Requests \ {r} :
               Phase(o) = "prefill" => seq_cell_counts'[reqs[o].seq] = seq_cell_counts[reqs[o].seq]
    PROVE  Cold'
BY DEF Cold, OthersKept, Phase

\* The registered ids are what the pool does not hold.
LEMMA RegisteredPool ==
    ASSUME SeqIdConservation
    PROVE  Registered = SeqIds \ Range(free_seq_ids) /\ Registered = DOMAIN seq_cell_counts
BY DEF SeqIdConservation

\* A step that begins and ends no ownership.
LEMMA OwnedSame ==
    ASSUME NEW r \in Requests, OthersKept(r), r \in Owning <=> r \in Owning',
           r \in Owning => reqs'[r].seq = reqs[r].seq
    PROVE  Owning' = Owning /\ OwnedIds' = OwnedIds
<1>1. Owning' = Owning
  BY DEF Owning, Phase, OthersKept
<1>2. \A o \in Owning : reqs'[o].seq = reqs[o].seq
  BY DEF Owning, OthersKept
<1> QED BY <1>1, <1>2 DEF OwnedIds

\* A step that moves no id between the pool, the cache and the requests.
LEMMA RetainedSame ==
    ASSUME RetainedExact, SeqIdConservation, SeqIdConservation', OwnedIds' = OwnedIds,
           UNCHANGED <<free_seq_ids, retained_seq_ids>>
    PROVE  RetainedExact'
<1>1. Registered' = Registered
  BY DEF SeqIdConservation
<1> QED BY <1>1 DEF RetainedExact

\* The id of a request is registered, counted, and not retained.
LEMMA OwnedFacts ==
    ASSUME IInv, RetainedExact, NEW r \in Owning
    PROVE  /\ r \in Requests /\ reqs[r].seq \in SeqIds
           /\ reqs[r].seq \in Registered /\ reqs[r].seq \in DOMAIN seq_cell_counts
           /\ reqs[r].seq \notin retained_seq_ids
           /\ reqs[r].seq \notin Range(free_seq_ids)
           /\ \A o \in Owning : reqs[o].seq = reqs[r].seq => o = r
<1>1. r \in Requests
  BY DEF Owning
<1>2. reqs[r].node \in DOMAIN tree /\ reqs[r].seq \in tree[reqs[r].node].seq_ids
  BY DEF IInv, OwnedRegistered
<1>3. reqs[r].seq \in Registered
  BY <1>2 DEF Registered
<1>4. reqs[r].seq \in OwnedIds
  BY DEF OwnedIds
<1>5. \A o \in Owning : reqs[o].seq = reqs[r].seq => o = r
  BY DEF IInv, OwnedRegistered
<1>6. Registered = SeqIds \ Range(free_seq_ids) /\ Registered = DOMAIN seq_cell_counts
  BY RegisteredPool DEF IInv
<1> QED BY <1>1, <1>3, <1>4, <1>5, <1>6 DEF RetainedExact

-----------------------------------------------------------------------------
(* One step per action *)

\* prepare_all reaches prepare_sequence.
LEMMA BeginPrepareEffect ==
    ASSUME IInv, NEW r \in Requests, NEW prompt \in Prompts, BeginPrepare(r, prompt)
    PROVE  /\ OthersKept(r) /\ Phase(r) = "none"
           /\ reqs'[r].phase = "pressure" /\ reqs'[r].prompt = prompt
           /\ max_sequences > 1
           /\ UNCHANGED <<tree, tick, free_seq_ids, seq_cell_counts, retained_seq_ids, kv>>
<1>1. /\ Phase(r) = "none" /\ Cardinality(Holding) < max_sequences - 1
      /\ reqs' = [reqs EXCEPT ![r] = [NoRequest EXCEPT !.phase = "pressure",
                                                       !.prompt = prompt]]
      /\ UNCHANGED <<tree, tick, free_seq_ids, seq_cell_counts, retained_seq_ids, kv>>
  BY DEF BeginPrepare, mapper
<1>2. reqs \in [Requests -> Slots]
  BY DEF IInv, TypeOK
<1>3. /\ reqs'[r].phase = "pressure" /\ reqs'[r].prompt = prompt
      /\ \A o \in Requests \ {r} : reqs'[o] = reqs[o]
  BY <1>1, <1>2 DEF NoRequest
<1>4. Cardinality(Holding) \in Nat
  <2>1. Holding \subseteq Requests
    BY DEF Holding
  <2> QED BY <2>1, RequestsAssumption, FS_Subset, FS_CardinalityType
<1>5. max_sequences > 1
  BY <1>1, <1>4, SequencesAssumption
<1> QED BY <1>1, <1>3, <1>5 DEF OthersKept

\* A step of prepare_sequence before the id is allocated, or that gives it up.
LEMMA PrepareCache ==
    ASSUME IInv, CacheInv, IInv', UNCHANGED prefix_cache_enabled,
           NEW r \in Requests, TreeStep(NoSeq), OthersKept(r), r \notin Owning,
           reqs'[r].phase \in {"none", "pressure", "inserted"},
           reqs'[r].phase # "none" => max_sequences > 1 /\ reqs'[r].prompt \in Prompts,
           reqs'[r].phase = "inserted" => reqs'[r].leaf = reqs'[r].prompt,
           UNCHANGED <<free_seq_ids, seq_cell_counts, retained_seq_ids, kv>>
    PROVE  CacheInv'
<1> USE DEF IInv, CacheInv
<1>1. r \notin Owning' /\ r \notin Filling
  BY DEF Owning, Phase, Filling
<1>2. Owning' = Owning /\ OwnedIds' = OwnedIds
  BY <1>1, OwnedSame
<1>3. /\ \A p \in DOMAIN tree' : NoSeq \notin tree'[p].seq_ids
      /\ NoSeq \notin tree'[Root].ready_seq_ids
      /\ NoSeq \notin retained_seq_ids'
  BY DEF NoSeq, SeqIds, TypeOK, Nodes
<1>4. NonEmptyDelta' /\ Admitted'
  BY SlotStep
<1>5. PendingOwned'
  <2>1. \A p \in DOMAIN tree' : NoSeq \notin Pending(tree'[p])
    BY <1>3 DEF Pending
  <2> QED BY <1>1, <2>1, PendingStep
<1>6. RetainedExact'
  BY <1>2, RetainedSame
<1>7. RetainedCells'
  BY DEF RetainedCells
<1>8. OneRetained'
  BY <1>3, OneRetainedStep
<1>9. Cold'
  <2>1. ~ prefix_cache_enabled => retained_seq_ids' = {}
    BY DEF Cold
  <2>2. reqs'[r].phase # "prefill"
    OBVIOUS
  <2> QED BY <2>1, <2>2, ColdStep
<1>10. RootBare'
  <2>1. r \in Holding' /\ reqs'[r].prompt # << >> => reqs'[r].leaf # Root
    BY DEF Holding, Phase, Root
  <2> QED BY <1>3, <2>1, RootStep
<1> QED BY <1>4, <1>5, <1>6, <1>7, <1>8, <1>9, <1>10

\* The start of a preparation touches neither tree nor pool.
LEMMA BeginPrepareCache ==
    ASSUME IInv, CacheInv, IInv', UNCHANGED prefix_cache_enabled,
           NEW r \in Requests, NEW prompt \in Prompts, BeginPrepare(r, prompt)
    PROVE  CacheInv'
<1>1. /\ OthersKept(r) /\ Phase(r) = "none"
      /\ reqs'[r].phase = "pressure" /\ reqs'[r].prompt = prompt
      /\ max_sequences > 1
      /\ UNCHANGED <<tree, tick, free_seq_ids, seq_cell_counts, retained_seq_ids, kv>>
  BY BeginPrepareEffect
<1>2. TreeStep(NoSeq)
  BY <1>1, TreeStepSame DEF IInv
<1>3. r \notin Owning
  BY <1>1 DEF Owning
<1> QED BY <1>1, <1>2, <1>3, PrepareCache

\* What an eviction takes away: the sequences of one node, none of them a request's.
EvictEffect(ids) ==
    /\ TreeStep(NoSeq)
    /\ ids \subseteq SeqIds /\ ids \cap OwnedIds = {}
    /\ Registered' = Registered \ ids
    /\ retained_seq_ids' = retained_seq_ids \ ids
    /\ \A s \in SeqIds \ ids : kv'[s] = kv[s]
    /\ \A s \in Registered \ ids : seq_cell_counts'[s] = seq_cell_counts[s]

\* evict_one_locked has that effect for some set of ids.
LEMMA EvictFacts ==
    ASSUME IInv, IInv', evict_one, UNCHANGED reqs
    PROVE  \E ids : EvictEffect(ids)
<1>1. PICK p \in find_eviction_candidates(tree) :
          /\ tree' = evict(tree, p)
          /\ kv' = [s \in SeqIds |-> IF s \in tree[p].seq_ids THEN << >> ELSE kv[s]]
          /\ \E q \in Ascending(tree[p].seq_ids) : free_seq_ids' = free_seq_ids \o q
          /\ seq_cell_counts' = Restrict(seq_cell_counts,
                                         DOMAIN seq_cell_counts \ tree[p].seq_ids)
          /\ retained_seq_ids' = retained_seq_ids \ tree[p].seq_ids
  BY DEF evict_one
<1>2. PICK ids : ids = tree[p].seq_ids
  OBVIOUS
<1> DEFINE t == [tree EXCEPT ![p] = [@ EXCEPT !.seq_ids = {}, !.ready_seq_ids = {},
                                              !.canonical_len = 0]]
<1>3. p \in DOMAIN tree /\ tree[p] \in Nodes /\ ids \in SUBSET SeqIds
  BY <1>1, <1>2 DEF IInv, TypeOK, find_eviction_candidates, Candidates, Nodes
<1>4. /\ DOMAIN t = DOMAIN tree
      /\ \A q \in DOMAIN tree \ {p} : t[q] = tree[q]
      /\ t[p].seq_ids = {} /\ t[p].ready_seq_ids = {}
  BY <1>3 DEF Nodes
<1>5. tree' = prune_empty_leaves(t, p)
  BY <1>1 DEF evict
<1> HIDE DEF t
<1>6. /\ DOMAIN tree' \subseteq DOMAIN tree
      /\ \A q \in DOMAIN tree' : tree'[q] = t[q]
  <2>1. DOMAIN t \subseteq Seq(Token)
    BY <1>4 DEF IInv, TypeOK
  <2> QED BY <1>4, <1>5, <2>1, PruneFacts
<1>7. TreeStep(NoSeq)
  <2>1. \A q \in DOMAIN tree' : /\ tree'[q].seq_ids \subseteq tree[q].seq_ids
                                 /\ tree'[q].ready_seq_ids \subseteq tree[q].ready_seq_ids
                                 /\ Pending(tree'[q]) \subseteq Pending(tree[q])
    BY <1>4, <1>6 DEF Pending
  <2> QED BY <1>6, <2>1, TreeStepSubset DEF IInv
<1>8. Range(free_seq_ids') = Range(free_seq_ids) \cup ids
  <2>1. PICK q \in Ascending(ids) : free_seq_ids' = free_seq_ids \o q
    BY <1>1, <1>2
  <2>2. q \in Seq(SeqIds) /\ Range(q) = ids /\ free_seq_ids \in Seq(SeqIds)
    BY <1>3, <2>1, AscendingFacts DEF IInv, TypeOK
  <2> QED BY <2>1, <2>2, RangeConcatenation
<1>9. Registered' = Registered \ ids
  BY <1>8 DEF IInv, SeqIdConservation
<1>10. ids \cap OwnedIds = {}
  <2> SUFFICES ASSUME NEW r \in Owning, reqs[r].seq \in ids PROVE FALSE
    BY DEF OwnedIds
  <2>1. r \in Owning'
    BY DEF Owning, Phase
  <2>2. reqs[r].seq \in Registered'
    BY <2>1 DEF IInv, OwnedRegistered, Registered
  <2> QED BY <1>9, <2>2
<1>11. \A s \in Registered \ ids : seq_cell_counts'[s] = seq_cell_counts[s]
  BY <1>1, <1>2 DEF IInv, SeqIdConservation, Restrict
<1>12. EvictEffect(ids)
  BY <1>1, <1>2, <1>3, <1>7, <1>9, <1>10, <1>11 DEF EvictEffect
<1> QED BY <1>12

\* An eviction under pressure, for want of an id, or after a failed decode.
LEMMA EvictCache ==
    ASSUME IInv, CacheInv, IInv', UNCHANGED prefix_cache_enabled, NEW r \in Requests,
           evict_one, UNCHANGED reqs
    PROVE  CacheInv'
<1>1. PICK ids : EvictEffect(ids)
  BY EvictFacts
<1> USE DEF IInv, CacheInv
<1>2. OthersKept(r)
  BY DEF OthersKept
<1>3. Owning' = Owning /\ OwnedIds' = OwnedIds /\ Filling' = Filling /\ Holding' = Holding
  BY DEF Owning, OwnedIds, Filling, Phase, Holding
<1>4. \A p \in DOMAIN tree' : NoSeq \notin tree'[p].seq_ids /\ NoSeq \notin tree'[p].ready_seq_ids
  BY DEF NoSeq, SeqIds, TypeOK, Nodes
<1>5. NonEmptyDelta' /\ Admitted'
  BY DEF NonEmptyDelta, Admitted, Phase
<1>6. PendingOwned'
  <2>1. TreeStep(NoSeq)
    BY <1>1 DEF EvictEffect
  <2>2. \A p \in DOMAIN tree' : NoSeq \notin Pending(tree'[p])
    BY <1>4 DEF Pending
  <2> QED BY <1>2, <1>3, <2>1, <2>2, PendingStep
<1>7. RetainedExact'
  BY <1>1, <1>3 DEF RetainedExact, EvictEffect
<1>8. RetainedCells'
  <2> SUFFICES ASSUME NEW s \in retained_seq_ids' PROVE seq_cell_counts'[s] = Len(kv'[s])
    BY DEF RetainedCells
  <2>1. s \in retained_seq_ids /\ s \notin ids
    BY <1>1 DEF EvictEffect
  <2>2. s \in Registered /\ s \in SeqIds
    BY <2>1, RegisteredPool DEF RetainedExact
  <2>3. seq_cell_counts'[s] = seq_cell_counts[s] /\ kv'[s] = kv[s]
    BY <1>1, <2>1, <2>2 DEF EvictEffect
  <2> QED BY <2>1, <2>3 DEF RetainedCells
<1>9. OneRetained'
  <2>1. TreeStep(NoSeq) /\ retained_seq_ids' \subseteq retained_seq_ids
    BY <1>1 DEF EvictEffect
  <2>2. NoSeq \notin retained_seq_ids'
    BY DEF TypeOK, NoSeq, SeqIds
  <2> QED BY <2>1, <2>2, OneRetainedStep
<1>10. Cold'
  <2>1. ~ prefix_cache_enabled => retained_seq_ids' = {}
    BY <1>1 DEF Cold, EvictEffect
  <2>2. \A o \in Requests : Phase(o) = "prefill" =>
            seq_cell_counts'[reqs[o].seq] = seq_cell_counts[reqs[o].seq]
    <3> SUFFICES ASSUME NEW o \in Requests, Phase(o) = "prefill"
                 PROVE  seq_cell_counts'[reqs[o].seq] = seq_cell_counts[reqs[o].seq]
      OBVIOUS
    <3>1. o \in Owning
      BY DEF Owning
    <3>2. reqs[o].seq \in Registered /\ reqs[o].seq \in OwnedIds
      BY <3>1, OwnedFacts DEF OwnedIds
    <3> QED BY <1>1, <3>2 DEF EvictEffect
  <2> QED BY <2>1, <2>2 DEF Cold, Phase
<1>11. RootBare'
  <2>1. TreeStep(NoSeq)
    BY <1>1 DEF EvictEffect
  <2>2. NoSeq \notin tree'[Root].ready_seq_ids
    BY <1>4 DEF TypeOK
  <2>3. r \in Holding' /\ reqs'[r].prompt # << >> => reqs'[r].leaf # Root
    BY <1>3 DEF RootBare
  <2> QED BY <1>2, <2>1, <2>2, <2>3, RootStep
<1> QED BY <1>5, <1>6, <1>7, <1>8, <1>9, <1>10, <1>11

-----------------------------------------------------------------------------
(* Splits *)

\* A split keeps the sequences of every node together, on the same path or a shorter one.
LEMMA SplitCarries ==
    ASSUME IInv, NEW cut \in Seq(Token), NEW x, EdgeNode(tree, cut, x), NEW d,
           d = split_node(tree, x, cut), NEW p \in DOMAIN d, d[p].seq_ids # {}
    PROVE  \E q \in DOMAIN tree : p \sqsubseteq q /\ (p = Root => q = Root) /\ d[p] = tree[q]
<1>1. /\ x \in DOMAIN tree /\ x \in Seq(Token) /\ cut \sqsubseteq x
      /\ cut = Root <=> x = Root
      /\ DOMAIN d = DOMAIN tree \cup {cut}
      /\ d[cut] = tree[x]
      /\ x # cut => d[x] = NewNode(tree[x].last_access_tick)
      /\ \A q \in DOMAIN tree \ {x, cut} : d[q] = tree[q]
  <2>1. TypeOK
    BY DEF IInv
  <2>2. /\ x \in DOMAIN tree /\ x \in Seq(Token) /\ cut \sqsubseteq x
        /\ cut = Root <=> x = Root
    BY <2>1, SplitFacts
  <2>3. DOMAIN d = DOMAIN tree \cup {cut} /\ d[cut] = tree[x]
    BY DEF split_node
  <2>4. x # cut => d[x] = NewNode(tree[x].last_access_tick)
    BY <2>2 DEF split_node
  <2>5. \A q \in DOMAIN tree \ {x, cut} : d[q] = tree[q]
    BY DEF split_node
  <2> QED BY <2>2, <2>3, <2>4, <2>5
<1>2. CASE p = cut
  BY <1>1, <1>2
<1>3. CASE p # cut
  <2>1. p # x
    BY <1>1, <1>3 DEF NewNode
  <2>2. p \in DOMAIN tree /\ p \sqsubseteq p
    BY <1>1, <1>3, PrefixOrder DEF IInv, TypeOK
  <2> QED BY <1>1, <1>3, <2>1, <2>2
<1> QED BY <1>2, <1>3

\* A pointer to another node than the root never comes to point to the root.
LEMMA FollowRoot ==
    ASSUME IInv, NEW cut \in Seq(Token), NEW x, EdgeNode(tree, cut, x), NEW p, p # Root
    PROVE  Follow(p, x, cut) # Root
<1>1. cut = Root <=> x = Root
  BY SplitFacts DEF IInv
<1> QED BY <1>1 DEF Follow

\* tree_.insert, as the others see it.
InsertEffect(r) ==
    /\ TreeStep(NoSeq) /\ OthersKept(r)
    /\ Phase(r) = "pressure" /\ reqs'[r].phase = "inserted"
    /\ reqs'[r].prompt = reqs[r].prompt /\ reqs'[r].leaf = reqs[r].prompt
    /\ UNCHANGED <<free_seq_ids, seq_cell_counts, retained_seq_ids, kv>>

\* insert has that effect, with or without a split.
LEMMA InsertFacts ==
    ASSUME IInv, NEW r \in Requests, Insert(r)
    PROVE  InsertEffect(r)
<1>0. PICK prompt \in Seq(Token) : prompt = reqs[r].prompt
  BY DEF IInv, TypeOK, Slots
<1>1. /\ Phase(r) = "pressure"
      /\ UNCHANGED <<free_seq_ids, seq_cell_counts, retained_seq_ids, kv>>
  BY DEF Insert, mapper
<1>2. PICK m \in 0 .. Len(prompt), x \in DOMAIN tree :
          /\ EdgeNode(tree, Prefix(prompt, m), x)
          /\ tree' = insert(tree, prompt, x, Prefix(prompt, m), tick')
          /\ reqs' = [Relink(x, Prefix(prompt, m)) EXCEPT
                         ![r] = [@ EXCEPT !.phase = "inserted", !.leaf = prompt,
                                          !.node = prompt, !.matched = m]]
  BY <1>0 DEF Insert
<1>3. PICK cut \in Seq(Token) : cut = Prefix(prompt, m)
  BY <1>2, PrefixFacts
<1>4. /\ EdgeNode(tree, cut, x)
      /\ tree' = insert(tree, prompt, x, cut, tick')
      /\ reqs' = [Relink(x, cut) EXCEPT
                      ![r] = [@ EXCEPT !.phase = "inserted", !.leaf = prompt,
                                       !.node = prompt, !.matched = m]]
  BY <1>2, <1>3
<1>5. PICK d : d = split_node(tree, x, cut)
  OBVIOUS
<1>6. /\ DOMAIN tree' = DOMAIN d \cup {prompt}
      /\ \A p \in DOMAIN d \ {prompt} : tree'[p] = d[p]
      /\ tree'[prompt] = [NodeAt(d, prompt, tick') EXCEPT !.ref_count = @ + 1,
                                                          !.last_access_tick = tick']
  BY <1>4, <1>5 DEF insert
<1>7. \A p \in DOMAIN d : d[p] \in Nodes
  <2>1. \A p \in DOMAIN split_node(tree, x, cut) : split_node(tree, x, cut)[p] \in Nodes
    BY <1>4, SplitInv DEF IInv
  <2> QED BY <1>5, <2>1
<1>8. /\ prompt \in DOMAIN d => /\ tree'[prompt].seq_ids = d[prompt].seq_ids
                                /\ tree'[prompt].ready_seq_ids = d[prompt].ready_seq_ids
      /\ prompt \notin DOMAIN d => tree'[prompt].seq_ids = {}
  <2>1. CASE prompt \in DOMAIN d
    <3>1. tree'[prompt] = [d[prompt] EXCEPT !.ref_count = @ + 1, !.last_access_tick = tick']
      BY <1>6, <2>1 DEF NodeAt
    <3>2. d[prompt] \in Nodes
      BY <1>7, <2>1
    <3> QED BY <2>1, <3>1, <3>2 DEF Nodes
  <2>2. CASE prompt \notin DOMAIN d
    <3>1. tree'[prompt] = [NewNode(tick') EXCEPT !.ref_count = @ + 1, !.last_access_tick = tick']
      BY <1>6, <2>2 DEF NodeAt
    <3> QED BY <2>2, <3>1 DEF NewNode
  <2> QED BY <2>1, <2>2
<1>9. TreeStep(NoSeq)
  <2> SUFFICES ASSUME NEW p \in DOMAIN tree', tree'[p].seq_ids # {}
               PROVE  \E q \in DOMAIN tree : Inherits(p, q, NoSeq)
    BY DEF TreeStep
  <2>1. /\ p \in DOMAIN d /\ d[p].seq_ids = tree'[p].seq_ids
        /\ d[p].ready_seq_ids = tree'[p].ready_seq_ids
    BY <1>6, <1>8
  <2>2. PICK q \in DOMAIN tree : p \sqsubseteq q /\ (p = Root => q = Root) /\ d[p] = tree[q]
    BY <1>4, <1>5, <2>1, SplitCarries
  <2> QED BY <2>1, <2>2 DEF Inherits, Pending
<1>10. /\ reqs'[r].phase = "inserted" /\ reqs'[r].leaf = prompt
       /\ reqs'[r].prompt = prompt
       /\ \A o \in Requests \ {r} :
              /\ reqs'[o].phase = reqs[o].phase /\ reqs'[o].prompt = reqs[o].prompt
              /\ reqs'[o].seq = reqs[o].seq /\ reqs'[o].tokens = reqs[o].tokens
              /\ reqs'[o].leaf = Follow(reqs[o].leaf, x, cut)
  <2>1. /\ DOMAIN Relink(x, cut) = Requests
        /\ \A o \in Requests : /\ Relink(x, cut)[o].phase = reqs[o].phase
                               /\ Relink(x, cut)[o].prompt = reqs[o].prompt
                               /\ Relink(x, cut)[o].seq = reqs[o].seq
                               /\ Relink(x, cut)[o].tokens = reqs[o].tokens
                               /\ Relink(x, cut)[o].leaf = Follow(reqs[o].leaf, x, cut)
                               /\ DOMAIN Relink(x, cut)[o] = DOMAIN reqs[o]
    BY DEF Relink, IInv, TypeOK, Slots
  <2>2. \A o \in Requests : DOMAIN reqs[o] = {"phase", "prompt", "leaf", "matched", "seq",
                                              "tokens", "node"}
    BY DEF IInv, TypeOK, Slots
  <2> QED BY <1>0, <1>4, <2>1, <2>2
<1>11. OthersKept(r)
  BY <1>4, <1>10, FollowRoot DEF OthersKept
<1> QED BY <1>0, <1>1, <1>9, <1>10, <1>11 DEF InsertEffect

\* insert keeps the cache invariant: it registers no sequence.
LEMMA InsertCache ==
    ASSUME IInv, CacheInv, IInv', UNCHANGED prefix_cache_enabled,
           NEW r \in Requests, Insert(r)
    PROVE  CacheInv'
<1>1. InsertEffect(r)
  BY InsertFacts
<1>2. r \notin Owning
  BY <1>1 DEF Owning, InsertEffect
<1>3. max_sequences > 1 /\ reqs[r].prompt \in Prompts
  BY <1>1 DEF InsertEffect, CacheInv, Admitted
<1> QED BY <1>1, <1>2, <1>3, PrepareCache DEF InsertEffect

-----------------------------------------------------------------------------
(* Release *)

\* The nodes that a release leaves have the sequences they had in t.
LEMMA ReleasedNodes ==
    ASSUME IInv, NEW r \in Holding, NEW t, Released(r, t),
           \A p \in DOMAIN tree : /\ t[p].seq_ids \subseteq tree[p].seq_ids
                                  /\ t[p].ready_seq_ids \subseteq tree[p].ready_seq_ids
                                  /\ Pending(t[p]) \subseteq Pending(tree[p])
    PROVE  TreeStep(NoSeq) /\ OthersKept(r)
<1>1. /\ DOMAIN tree' \subseteq DOMAIN tree
      /\ \A p \in DOMAIN tree' : /\ tree'[p].seq_ids = t[p].seq_ids
                                  /\ tree'[p].ready_seq_ids = t[p].ready_seq_ids
      /\ \A o \in Requests \ {r} : reqs'[o] = reqs[o]
  BY DEF Released
<1>2. \A p \in DOMAIN tree' : /\ tree'[p].seq_ids \subseteq tree[p].seq_ids
                               /\ tree'[p].ready_seq_ids \subseteq tree[p].ready_seq_ids
                               /\ Pending(tree'[p]) \subseteq Pending(tree[p])
  BY <1>1 DEF Pending
<1>3. TreeStep(NoSeq)
  BY <1>1, <1>2, TreeStepSubset DEF IInv
<1> QED BY <1>1, <1>3 DEF OthersKept

\* SequenceCapacityExhausted.
LEMMA ExhaustedFacts ==
    ASSUME IInv, NEW r \in Requests, Exhausted(r)
    PROVE  /\ TreeStep(NoSeq) /\ OthersKept(r) /\ Phase(r) = "inserted"
           /\ reqs'[r].phase = "none"
           /\ UNCHANGED <<free_seq_ids, seq_cell_counts, retained_seq_ids, kv>>
<1>1. /\ Phase(r) = "inserted" /\ r \in Holding /\ Busy(r)
      /\ tree' = release(tree, reqs[r].leaf)
      /\ reqs' = [reqs EXCEPT ![r] = NoRequest]
      /\ UNCHANGED <<free_seq_ids, seq_cell_counts, retained_seq_ids, kv>>
  BY DEF Exhausted, Holding, Busy, mapper
<1>2. SameReferences(tree)
  BY DEF SameReferences, IInv, TypeOK
<1>3. Released(r, tree)
  BY <1>1, <1>2, ReleaseInv
<1>4. TreeStep(NoSeq) /\ OthersKept(r)
  BY <1>1, <1>3, ReleasedNodes
<1>5. reqs'[r].phase = "none"
  BY <1>1 DEF IInv, TypeOK, NoRequest
<1> QED BY <1>1, <1>4, <1>5

\* A preparation that ends for want of an id keeps the cache invariant.
LEMMA ExhaustedCache ==
    ASSUME IInv, CacheInv, IInv', UNCHANGED prefix_cache_enabled,
           NEW r \in Requests, Exhausted(r)
    PROVE  CacheInv'
<1>1. /\ TreeStep(NoSeq) /\ OthersKept(r) /\ Phase(r) = "inserted"
      /\ reqs'[r].phase = "none"
      /\ UNCHANGED <<free_seq_ids, seq_cell_counts, retained_seq_ids, kv>>
  BY ExhaustedFacts
<1>2. r \notin Owning
  BY <1>1 DEF Owning
<1> QED BY <1>1, <1>2, PrepareCache

\* The id s leaves the request r, which is over.
ReleaseEffect(r, s) ==
    /\ TreeStep(NoSeq) /\ OthersKept(r) /\ reqs'[r].phase = "none"
    /\ Owning' = Owning \ {r} /\ OwnedIds' = OwnedIds \ {s}
    /\ \A i \in SeqIds \ {s} : kv'[i] = kv[i]
    /\ \A i \in DOMAIN seq_cell_counts \ {s} : seq_cell_counts'[i] = seq_cell_counts[i]

\* The id is retained, as the only sequence of its node, or given back to the pool.
Retains(s) ==
    /\ prefix_cache_enabled
    /\ retained_seq_ids' = retained_seq_ids \cup {s} /\ UNCHANGED free_seq_ids
    /\ \A p \in DOMAIN tree' : s \in tree'[p].seq_ids => tree'[p].seq_ids = {s}
    /\ \A p \in DOMAIN tree' : s \notin Pending(tree'[p])
    /\ s \in DOMAIN seq_cell_counts' /\ seq_cell_counts'[s] = Len(kv'[s])

Frees(s) ==
    /\ retained_seq_ids' = retained_seq_ids \ {s}
    /\ Registered' = Registered \ {s}
    /\ \A p \in DOMAIN tree' : s \notin tree'[p].seq_ids

\* Whatever becomes of the id, the request is over.
LEMMA ReleaseCommon ==
    ASSUME IInv, NEW r \in Owning, NEW s, s = reqs[r].seq, NEW t, Released(r, t),
           reqs' = [reqs EXCEPT ![r] = NoRequest],
           \A p \in DOMAIN tree : /\ t[p].seq_ids \subseteq tree[p].seq_ids
                                  /\ t[p].ready_seq_ids \subseteq tree[p].ready_seq_ids
                                  /\ Pending(t[p]) \subseteq Pending(tree[p])
    PROVE  /\ TreeStep(NoSeq) /\ OthersKept(r) /\ reqs'[r].phase = "none"
           /\ Owning' = Owning \ {r} /\ OwnedIds' = OwnedIds \ {s}
<1>1. r \in Holding /\ r \in Requests
  BY DEF Owning, Holding
<1>2. TreeStep(NoSeq) /\ OthersKept(r)
  BY <1>1, ReleasedNodes
<1>3. reqs'[r].phase = "none"
  BY <1>1 DEF IInv, TypeOK, NoRequest
<1>4. Owning' = Owning \ {r}
  BY DEF Released
<1>5. \A o \in Owning \ {r} : reqs'[o].seq = reqs[o].seq /\ reqs[o].seq # s
  BY DEF Owning, Released, IInv, OwnedRegistered
<1>6. OwnedIds' = OwnedIds \ {s}
  BY <1>4, <1>5 DEF OwnedIds
<1> QED BY <1>2, <1>3, <1>4, <1>6

\* release_sequence keeps the id: it is the only sequence of its node, cut to its path.
LEMMA KeepFacts ==
    ASSUME IInv, NEW r \in Owning, Busy(r) \/ Quiet, ReleaseAll(r),
           NEW s, s = reqs[r].seq, NEW p, p = reqs[r].node,
           KeepsSeq(tree[p], s, prefix_cache_enabled)
    PROVE  ReleaseEffect(r, s) /\ Retains(s)
<1>1. p \in DOMAIN tree /\ p \in Seq(Token) /\ s \in SeqIds /\ tree[p] \in Nodes
      /\ s \in tree[p].seq_ids
  <2>1. p \in DOMAIN tree /\ s \in tree[p].seq_ids
    BY DEF IInv, OwnedRegistered
  <2> QED BY <2>1 DEF IInv, TypeOK, Nodes
<1>2. tree[p].seq_ids = {s} /\ s \in tree[p].ready_seq_ids
  <2>1. /\ IsFiniteSet(tree[p].seq_ids) /\ Cardinality(tree[p].seq_ids) \in Nat
    BY <1>1, FiniteIds DEF Nodes
  <2>2. Cardinality(tree[p].seq_ids) = 1
    <3>1. Cardinality(tree[p].seq_ids) # 0
      BY <1>1, <2>1, FS_EmptySet
    <3> QED BY <2>1, <3>1 DEF KeepsSeq
  <2>3. PICK i : tree[p].seq_ids = {i}
    BY <2>1, <2>2, FS_Singleton
  <2> QED BY <1>1, <2>3 DEF KeepsSeq
<1>3. tree[p].ready_seq_ids = {s}
  BY <1>1, <1>2 DEF IInv, ReadyCoversPath
<1>4. FirstReady(tree[p]) = {s}
  <2>1. s <= s
    BY <1>1 DEF SeqIds
  <2> QED BY <1>3, <2>1 DEF FirstReady
<1>5. {c \in CoveringNodes(tree, p) : s \in FirstReady(tree[c])} = {p}
  <2>1. PICK up : up = {c \in DOMAIN tree : c \sqsubseteq p /\ tree[c].ready_seq_ids # {}}
    OBVIOUS
  <2>2. p \in up
    BY <1>1, <1>2, <2>1, PrefixOrder
  <2>3. CoveringNodes(tree, p) = {c \in up : \A q \in up : q \sqsubseteq c}
    BY <2>1, <2>2 DEF CoveringNodes
  <2>4. p \in CoveringNodes(tree, p)
    BY <2>1, <2>2, <2>3
  <2>5. \A c \in CoveringNodes(tree, p) : c = p
    <3> SUFFICES ASSUME NEW c \in CoveringNodes(tree, p) PROVE c = p
      OBVIOUS
    <3>1. c \sqsubseteq p /\ p \sqsubseteq c /\ c \in Seq(Token)
      BY <2>1, <2>2, <2>3 DEF IInv, TypeOK
    <3> QED BY <1>1, <3>1, PrefixAntisymmetric
  <2> QED BY <1>4, <2>4, <2>5
<1>6. CoveredLen(tree, p) = Len(p) /\ Len(p) \in Nat
      /\ kv[s] \in Seq(Token) /\ Len(kv[s]) \in Nat /\ Len(p) <= Len(kv[s])
  <2>1. Len(p) \in Nat /\ kv[s] \in Seq(Token) /\ tree[p].canonical_len \in Nat
    BY <1>1, LenProperties DEF IInv, TypeOK, Nodes
  <2>2. tree[p].canonical_len >= Len(p) /\ p \sqsubseteq kv[s]
    BY <1>1, <1>2 DEF IInv, ReadyCoversPath
  <2>3. Len(kv[s]) \in Nat
    BY <2>1, LenProperties
  <2> QED BY <2>1, <2>2, <2>3 DEF CoveredLen, Least, \sqsubseteq
<1>7. /\ kv' = [kv EXCEPT ![s] = Prefix(kv[s], Len(p))]
      /\ seq_cell_counts' = [seq_cell_counts EXCEPT ![s] = Len(p)]
      /\ retained_seq_ids' = retained_seq_ids \cup {s}
      /\ UNCHANGED free_seq_ids
      /\ tree' = release(tree, reqs[r].leaf)
      /\ reqs' = [reqs EXCEPT ![r] = NoRequest]
  <2>1. Cells(s, Len(p)) = Prefix(kv[s], Len(p))
    BY <1>6 DEF Cells, Least
  <2>2. /\ \E c \in {c \in CoveringNodes(tree, p) : s \in FirstReady(tree[c])} :
               /\ kv' = [kv EXCEPT ![s] = Cells(s, CoveredLen(tree, c))]
               /\ seq_cell_counts' = [seq_cell_counts EXCEPT ![s] = CoveredLen(tree, c)]
               /\ retained_seq_ids' = retained_seq_ids \cup {s}
        /\ UNCHANGED free_seq_ids
        /\ tree' = release(tree, reqs[r].leaf)
        /\ reqs' = [reqs EXCEPT ![r] = NoRequest]
    <3>1. {c \in CoveringNodes(tree, p) : s \in FirstReady(tree[c])} # {}
      BY <1>5
    <3> QED BY <3>1 DEF ReleaseAll
  <2> QED BY <1>5, <1>6, <2>1, <2>2
<1>8. s \in DOMAIN seq_cell_counts
  BY <1>1 DEF IInv, SeqIdConservation, Registered
<1>9. /\ \A i \in SeqIds \ {s} : kv'[i] = kv[i]
      /\ \A i \in DOMAIN seq_cell_counts \ {s} : seq_cell_counts'[i] = seq_cell_counts[i]
      /\ s \in DOMAIN seq_cell_counts' /\ seq_cell_counts'[s] = Len(kv'[s])
  <2>1. Len(Prefix(kv[s], Len(p))) = Len(p)
    BY <1>6, PrefixFacts
  <2>2. kv \in [SeqIds -> Seq(Token)]
    BY DEF IInv, TypeOK
  <2> QED BY <1>1, <1>7, <1>8, <2>1, <2>2
<1>10. r \in Holding /\ SameReferences(tree)
  BY DEF Owning, Holding, SameReferences, IInv, TypeOK
<1>11. Released(r, tree)
  BY <1>7, <1>10, ReleaseInv
<1>12. /\ TreeStep(NoSeq) /\ OthersKept(r) /\ reqs'[r].phase = "none"
       /\ Owning' = Owning \ {r} /\ OwnedIds' = OwnedIds \ {s}
  BY <1>7, <1>11, ReleaseCommon
<1>13. \A q \in DOMAIN tree' : s \in tree'[q].seq_ids =>
           tree'[q].seq_ids = {s} /\ s \in tree'[q].ready_seq_ids
  <2> SUFFICES ASSUME NEW q \in DOMAIN tree', s \in tree'[q].seq_ids
               PROVE  tree'[q].seq_ids = {s} /\ s \in tree'[q].ready_seq_ids
    OBVIOUS
  <2>1. /\ q \in DOMAIN tree /\ tree'[q].seq_ids = tree[q].seq_ids
        /\ tree'[q].ready_seq_ids = tree[q].ready_seq_ids
    BY <1>11 DEF Released
  <2>2. q = p
    BY <1>1, <2>1 DEF IInv, SeqIdConservation
  <2> QED BY <1>2, <2>1, <2>2
<1>14. prefix_cache_enabled
  BY DEF KeepsSeq
<1>15. Retains(s)
  BY <1>7, <1>9, <1>13, <1>14 DEF Retains, Pending
<1> QED BY <1>9, <1>12, <1>15 DEF ReleaseEffect

\* release_sequence gives the id back to the pool.
LEMMA FreeFacts ==
    ASSUME IInv, IInv', NEW r \in Owning, Busy(r) \/ Quiet, ReleaseAll(r),
           NEW s, s = reqs[r].seq, NEW p, p = reqs[r].node,
           ~ KeepsSeq(tree[p], s, prefix_cache_enabled)
    PROVE  ReleaseEffect(r, s) /\ Frees(s)
<1>1. p \in DOMAIN tree /\ s \in tree[p].seq_ids /\ s \in SeqIds
  <2>1. p \in DOMAIN tree /\ s \in tree[p].seq_ids
    BY DEF IInv, OwnedRegistered
  <2> QED BY <2>1 DEF IInv, TypeOK, Nodes
<1>2. /\ kv' = [kv EXCEPT ![s] = << >>]
      /\ free_seq_ids' = Append(free_seq_ids, s)
      /\ seq_cell_counts' = Restrict(seq_cell_counts, DOMAIN seq_cell_counts \ {s})
      /\ retained_seq_ids' = retained_seq_ids \ {s}
      /\ tree' = release([tree EXCEPT ![p] = WithoutSeq(@, s)], reqs[r].leaf)
      /\ reqs' = [reqs EXCEPT ![r] = NoRequest]
  BY <1>1 DEF ReleaseAll
<1> DEFINE t == [tree EXCEPT ![p] = WithoutSeq(@, s)]
<1>3. Without(t, s)
  BY <1>1, WithoutSeqFacts DEF IInv
<1>4. tree' = release(t, reqs[r].leaf)
  BY <1>2
<1> HIDE DEF t
<1>5. r \in Holding /\ SameReferences(t)
  BY <1>3 DEF Owning, Holding, SameReferences, Without
<1>6. Released(r, t)
  BY <1>2, <1>4, <1>5, ReleaseInv
<1>7. \A q \in DOMAIN tree : /\ t[q].seq_ids \subseteq tree[q].seq_ids
                             /\ t[q].ready_seq_ids \subseteq tree[q].ready_seq_ids
                             /\ Pending(t[q]) \subseteq Pending(tree[q])
                             /\ s \notin t[q].seq_ids
  BY <1>3 DEF Without, Pending
<1>8. /\ TreeStep(NoSeq) /\ OthersKept(r) /\ reqs'[r].phase = "none"
      /\ Owning' = Owning \ {r} /\ OwnedIds' = OwnedIds \ {s}
  BY <1>2, <1>6, <1>7, ReleaseCommon
<1>9. /\ \A i \in SeqIds \ {s} : kv'[i] = kv[i]
      /\ \A i \in DOMAIN seq_cell_counts \ {s} : seq_cell_counts'[i] = seq_cell_counts[i]
  BY <1>1, <1>2 DEF IInv, TypeOK, Restrict
<1>10. \A q \in DOMAIN tree' : s \notin tree'[q].seq_ids
  BY <1>6, <1>7 DEF Released
<1>11. Registered' = Registered \ {s}
  <2>1. Registered' = DOMAIN seq_cell_counts'
    BY DEF IInv, SeqIdConservation
  <2>2. DOMAIN seq_cell_counts' = DOMAIN seq_cell_counts \ {s}
    BY <1>2 DEF Restrict
  <2> QED BY <2>1, <2>2, RegisteredPool DEF IInv
<1> QED BY <1>2, <1>8, <1>9, <1>10, <1>11 DEF ReleaseEffect, Frees

\* release_sequence and tree_.release at the end of a request.
LEMMA ReleaseFacts ==
    ASSUME IInv, IInv', NEW r \in Owning, Busy(r) \/ Quiet, ReleaseAll(r)
    PROVE  ReleaseEffect(r, reqs[r].seq) /\ (Retains(reqs[r].seq) \/ Frees(reqs[r].seq))
BY KeepFacts, FreeFacts

\* release_sequence and release keep the cache invariant, whether the sequence is
\* retained or freed.
LEMMA ReleaseCache ==
    ASSUME IInv, CacheInv, IInv', UNCHANGED prefix_cache_enabled,
           NEW r \in Owning, Busy(r) \/ Quiet, ReleaseAll(r)
    PROVE  CacheInv'
<1>1. PICK s : s = reqs[r].seq
  OBVIOUS
<1>2. ReleaseEffect(r, s) /\ (Retains(s) \/ Frees(s))
  BY <1>1, ReleaseFacts
<1>3. /\ TreeStep(NoSeq) /\ OthersKept(r) /\ reqs'[r].phase = "none"
      /\ Owning' = Owning \ {r} /\ OwnedIds' = OwnedIds \ {s}
      /\ \A i \in SeqIds \ {s} : kv'[i] = kv[i]
      /\ \A i \in DOMAIN seq_cell_counts \ {s} : seq_cell_counts'[i] = seq_cell_counts[i]
  BY <1>2 DEF ReleaseEffect
<1>4. /\ r \in Requests /\ s \in SeqIds
      /\ s \in Registered /\ s \in DOMAIN seq_cell_counts /\ s \notin retained_seq_ids
      /\ \A o \in Owning : reqs[o].seq = s => o = r
  BY <1>1, OwnedFacts DEF CacheInv
<1> USE DEF IInv, CacheInv
<1>5. /\ \A p \in DOMAIN tree' : NoSeq \notin tree'[p].seq_ids
      /\ NoSeq \notin tree'[Root].ready_seq_ids
      /\ NoSeq \notin retained_seq_ids'
  BY DEF NoSeq, SeqIds, TypeOK, Nodes
<1>6. NonEmptyDelta' /\ Admitted'
  BY <1>3, <1>4, SlotStep
<1>7. \A p \in DOMAIN tree' : s \notin Pending(tree'[p])
  BY <1>2 DEF Retains, Frees, Pending
<1>8. PendingOwned'
  <2>1. \A p \in DOMAIN tree' : NoSeq \notin Pending(tree'[p])
    BY <1>5 DEF Pending
  <2> QED BY <1>1, <1>3, <1>4, <1>7, <2>1, PendingStep
<1>9. RetainedExact'
  <2>1. CASE Retains(s)
    <3>1. Registered' = Registered
      BY <2>1 DEF Retains, SeqIdConservation
    <3> QED BY <1>3, <1>4, <2>1, <3>1 DEF RetainedExact, Retains
  <2>2. CASE Frees(s)
    BY <1>3, <2>2 DEF RetainedExact, Frees
  <2> QED BY <1>2, <2>1, <2>2
<1>10. RetainedCells'
  <2> SUFFICES ASSUME NEW i \in retained_seq_ids' PROVE seq_cell_counts'[i] = Len(kv'[i])
    BY DEF RetainedCells
  <2>1. CASE i = s
    BY <1>2, <2>1 DEF Retains, Frees
  <2>2. CASE i # s
    <3>1. i \in retained_seq_ids
      BY <1>2, <2>2 DEF Retains, Frees
    <3>2. i \in DOMAIN seq_cell_counts /\ i \in SeqIds
      BY <3>1, RegisteredPool DEF RetainedExact
    <3> QED BY <1>3, <2>2, <3>1, <3>2 DEF RetainedCells
  <2> QED BY <2>1, <2>2
<1>11. OneRetained'
  <2> SUFFICES ASSUME NEW p \in DOMAIN tree',
                      NEW i \in tree'[p].seq_ids \cap retained_seq_ids',
                      NEW j \in tree'[p].seq_ids \cap retained_seq_ids'
               PROVE  i = j
    BY DEF OneRetained
  <2>1. CASE i = s \/ j = s
    BY <1>2, <2>1 DEF Retains, Frees
  <2>2. CASE i # s /\ j # s
    <3>1. i \in retained_seq_ids /\ j \in retained_seq_ids
      BY <1>2, <2>2 DEF Retains, Frees
    <3>2. tree'[p].seq_ids \ {NoSeq} # {}
      BY <1>5
    <3>3. PICK q \in DOMAIN tree : Inherits(p, q, NoSeq)
      BY <1>3, <3>2 DEF TreeStep
    <3>4. i \in tree[q].seq_ids /\ j \in tree[q].seq_ids
      BY <1>5, <3>3 DEF Inherits
    <3> QED BY <3>1, <3>4 DEF OneRetained
  <2> QED BY <2>1, <2>2
<1>12. Cold'
  <2>1. ~ prefix_cache_enabled => retained_seq_ids' = {}
    BY <1>2 DEF Cold, Retains, Frees
  <2>2. reqs'[r].phase # "prefill"
    BY <1>3
  <2>3. \A o \in Requests \ {r} :
            Phase(o) = "prefill" => seq_cell_counts'[reqs[o].seq] = seq_cell_counts[reqs[o].seq]
    <3> SUFFICES ASSUME NEW o \in Requests \ {r}, Phase(o) = "prefill"
                 PROVE  seq_cell_counts'[reqs[o].seq] = seq_cell_counts[reqs[o].seq]
      OBVIOUS
    <3>1. o \in Owning
      BY DEF Owning
    <3>2. reqs[o].seq # s /\ reqs[o].seq \in DOMAIN seq_cell_counts
      BY <1>4, <3>1, OwnedFacts
    <3> QED BY <1>3, <3>2
  <2> QED BY <1>3, <1>4, <2>1, <2>2, <2>3, ColdStep
<1>13. RootBare'
  <2>1. r \notin Holding'
    BY <1>3 DEF Holding, Phase
  <2> QED BY <1>3, <1>4, <1>5, <2>1, RootStep
<1> QED BY <1>6, <1>8, <1>9, <1>10, <1>11, <1>12, <1>13

-----------------------------------------------------------------------------
(* Registration *)

\* prepare_sequence has allocated new and found pos tokens of the prompt to copy.
RegisterEffect(r, new, pos) ==
    /\ TreeStep(new) /\ OthersKept(r)
    /\ Phase(r) = "inserted"
    /\ new \in SeqIds /\ new \in Range(free_seq_ids)
    /\ \E hit \in Lookup(reqs[r].prompt, reqs[r].matched) : pos = hit[2]
    /\ reqs[r].prompt \in Seq(Token) /\ reqs[r].matched \in 0 .. Len(reqs[r].prompt)
    /\ pos \in 0 .. Len(reqs[r].prompt)
    /\ pos = Len(reqs[r].prompt) => reqs[r].prompt = << >>
    /\ reqs'[r].phase = IF pos = Len(reqs[r].prompt) THEN "retiring" ELSE "prefill"
    /\ reqs'[r].prompt = reqs[r].prompt /\ reqs'[r].leaf = reqs[r].prompt
    /\ reqs'[r].seq = new /\ reqs'[r].tokens = Prefix(reqs[r].prompt, pos)
    /\ Registered' = Registered \cup {new}
    /\ retained_seq_ids' = retained_seq_ids \ {new}
    /\ \A i \in SeqIds \ {new} : kv'[i] = kv[i]
    /\ \A i \in DOMAIN seq_cell_counts \ {new} : seq_cell_counts'[i] = seq_cell_counts[i]
    /\ seq_cell_counts'[new] = pos
    /\ \A p \in DOMAIN tree' : /\ p \in DOMAIN tree
                               /\ tree'[p].ready_seq_ids = tree[p].ready_seq_ids

\* The rest of prepare_sequence has that effect for some id and number of copied cells.
LEMMA RegisterEffects ==
    ASSUME IInv, IInv', NEW r \in Requests, Register(r)
    PROVE  \E new, pos : RegisterEffect(r, new, pos)
<1> USE DEF IInv
<1>1. Phase(r) = "inserted" /\ r \in Holding /\ free_seq_ids # << >>
  BY DEF Register, Holding
<1>2. PICK prompt \in Seq(Token), m \in Nat :
          /\ prompt = reqs[r].prompt /\ prompt = reqs[r].leaf
          /\ m = reqs[r].matched /\ m \in 0 .. Len(prompt)
  BY <1>1 DEF RequestInv, TypeOK, Slots
<1>3. PICK new : new = Head(free_seq_ids)
  OBVIOUS
<1>4. /\ new \in SeqIds /\ new \in Range(free_seq_ids)
      /\ Range(free_seq_ids') = Range(free_seq_ids) \ {new}
  <2>1. free_seq_ids' = Tail(free_seq_ids)
    BY DEF Register
  <2>2. free_seq_ids \in Seq(SeqIds) /\ Distinct(free_seq_ids)
    BY DEF TypeOK, SeqIdConservation, Distinct
  <2> QED BY <1>1, <1>3, <2>1, <2>2, PoolHead
<1>5. PICK hit \in Lookup(prompt, m) :
          /\ kv' = IF hit[2] > 0 THEN [kv EXCEPT ![new] = Cells(hit[1], hit[2])] ELSE kv
          /\ seq_cell_counts' = [s \in DOMAIN seq_cell_counts \cup {new} |->
                                    IF s = new THEN hit[2] ELSE seq_cell_counts[s]]
          /\ reqs' = [reqs EXCEPT
                 ![r] = [@ EXCEPT !.phase = IF hit[2] = Len(prompt) THEN "retiring"
                                            ELSE "prefill",
                                  !.seq = new,
                                  !.tokens = Prefix(prompt, hit[2])]]
  BY <1>2, <1>3 DEF Register
<1>6. PICK pos : pos = hit[2]
  OBVIOUS
<1>7. /\ pos \in 0 .. Len(prompt) /\ (pos = Len(prompt) => prompt = << >>)
      /\ \A i \in SeqIds \ {new} : kv'[i] = kv[i]
  BY <1>2, <1>4, <1>5, <1>6, RegisterKv
<1>8. /\ \A o \in Requests \ {r} : reqs'[o] = reqs[o]
      /\ reqs'[r].phase = IF pos = Len(prompt) THEN "retiring" ELSE "prefill"
      /\ reqs'[r].prompt = prompt /\ reqs'[r].leaf = prompt
      /\ reqs'[r].seq = new
      /\ reqs'[r].tokens = Prefix(prompt, pos)
  <2>1. reqs[r] \in Slots /\ reqs \in [Requests -> Slots]
    BY DEF TypeOK
  <2>2. PICK ph : ph = IF pos = Len(prompt) THEN "retiring" ELSE "prefill"
    OBVIOUS
  <2>3. PICK q : q = [reqs[r] EXCEPT !.phase = ph, !.seq = new, !.tokens = Prefix(prompt, pos)]
    OBVIOUS
  <2>4. reqs' = [reqs EXCEPT ![r] = q]
    BY <1>5, <1>6, <2>2, <2>3
  <2>5. /\ q.phase = ph /\ q.prompt = reqs[r].prompt
        /\ q.leaf = reqs[r].leaf /\ q.seq = new /\ q.tokens = Prefix(prompt, pos)
    BY <2>1, <2>3 DEF Slots
  <2> QED BY <1>2, <2>1, <2>2, <2>4, <2>5
<1>9. prompt \in DOMAIN tree /\ tree' = register_seq_id(tree, prompt, new, Len(prompt))
  BY <1>1, <1>2, <1>3 DEF Register, RefCountExact
<1>10. /\ DOMAIN tree' = DOMAIN tree
       /\ \A q \in DOMAIN tree : tree'[q].ready_seq_ids = tree[q].ready_seq_ids
       /\ \A q \in DOMAIN tree \ {prompt} : tree'[q] = tree[q]
       /\ tree'[prompt].seq_ids = tree[prompt].seq_ids \cup {new}
  BY <1>4, <1>9, RegisterFacts
<1>11. TreeStep(new)
  <2>1. \A q \in DOMAIN tree' : /\ tree'[q].seq_ids \ {new} \subseteq tree[q].seq_ids
                                 /\ tree'[q].ready_seq_ids \ {new} \subseteq tree[q].ready_seq_ids
                                 /\ Pending(tree'[q]) \ {new} \subseteq Pending(tree[q])
    BY <1>10 DEF Pending
  <2> QED BY <1>10, <2>1, TreeStepSubset
<1>12. OthersKept(r)
  BY <1>8 DEF OthersKept
<1>13. Registered' = Registered \cup {new}
  BY <1>4 DEF SeqIdConservation
<1>14. retained_seq_ids' = retained_seq_ids \ {new}
  BY <1>3 DEF Register
<1>15. /\ \A i \in DOMAIN seq_cell_counts \ {new} : seq_cell_counts'[i] = seq_cell_counts[i]
       /\ seq_cell_counts'[new] = pos
  BY <1>5, <1>6
<1>16. RegisterEffect(r, new, pos)
  BY <1>1, <1>2, <1>4, <1>5, <1>6, <1>7, <1>8, <1>10, <1>11, <1>12, <1>13, <1>14, <1>15
     DEF RegisterEffect
<1> QED BY <1>16

\* Allocation, copy and registration keep the cache invariant.
LEMMA RegisterCache ==
    ASSUME IInv, CacheInv, IInv', UNCHANGED prefix_cache_enabled,
           NEW r \in Requests, Register(r)
    PROVE  CacheInv'
<1>1. PICK new, pos : RegisterEffect(r, new, pos)
  BY RegisterEffects
<1>2. PICK prompt \in Seq(Token) : prompt = reqs[r].prompt
  BY <1>1 DEF RegisterEffect
<1>3. /\ TreeStep(new) /\ OthersKept(r) /\ Phase(r) = "inserted"
      /\ new \in SeqIds /\ new \in Range(free_seq_ids)
      /\ pos \in 0 .. Len(prompt) /\ (pos = Len(prompt) => prompt = << >>)
      /\ reqs'[r].phase = IF pos = Len(prompt) THEN "retiring" ELSE "prefill"
      /\ reqs'[r].prompt = prompt /\ reqs'[r].leaf = prompt
      /\ reqs'[r].seq = new /\ reqs'[r].tokens = Prefix(prompt, pos)
  BY <1>1, <1>2 DEF RegisterEffect
<1>4. /\ Registered' = Registered \cup {new}
      /\ retained_seq_ids' = retained_seq_ids \ {new}
      /\ \A i \in SeqIds \ {new} : kv'[i] = kv[i]
      /\ \A i \in DOMAIN seq_cell_counts \ {new} : seq_cell_counts'[i] = seq_cell_counts[i]
      /\ seq_cell_counts'[new] = pos
      /\ \A p \in DOMAIN tree' : /\ p \in DOMAIN tree
                                 /\ tree'[p].ready_seq_ids = tree[p].ready_seq_ids
  BY <1>1 DEF RegisterEffect
<1> USE DEF IInv, CacheInv
<1>5. r \notin Owning /\ r \notin Filling /\ Owning' = Owning \cup {r}
  BY <1>3 DEF Owning, Phase, Filling, OthersKept
<1>6. OwnedIds' = OwnedIds \cup {new}
  <2>1. \A o \in Owning : reqs'[o].seq = reqs[o].seq
    BY <1>3, <1>5 DEF OthersKept, Owning
  <2> QED BY <1>3, <1>5, <2>1 DEF OwnedIds
<1>7. Len(prompt) \in Nat /\ Len(Prefix(prompt, pos)) = pos /\ pos \in Nat
  BY <1>3, PrefixFacts, LenProperties
<1>8. NonEmptyDelta' /\ Admitted'
  <2>1. max_sequences > 1 /\ prompt \in Prompts
    BY <1>2, <1>3 DEF Admitted
  <2>2. reqs'[r].phase = "prefill" => Len(reqs'[r].tokens) < Len(reqs'[r].prompt)
    BY <1>3, <1>7
  <2>3. ~ (reqs'[r].phase = "retiring" /\ reqs'[r].prompt # << >>)
    BY <1>3
  <2> QED BY <1>3, <2>1, <2>2, <2>3, SlotStep
<1>9. PendingOwned'
  <2>1. r \in Filling'
    BY <1>3, <1>5 DEF Filling, Phase
  <2> QED BY <1>3, <1>5, <2>1, PendingStep
<1>10. RetainedExact'
  BY <1>4, <1>6 DEF RetainedExact
<1>11. RetainedCells'
  <2> SUFFICES ASSUME NEW i \in retained_seq_ids' PROVE seq_cell_counts'[i] = Len(kv'[i])
    BY DEF RetainedCells
  <2>1. i \in retained_seq_ids /\ i # new
    BY <1>4
  <2>2. i \in DOMAIN seq_cell_counts /\ i \in SeqIds
    BY <2>1, RegisteredPool DEF RetainedExact
  <2> QED BY <1>4, <2>1, <2>2 DEF RetainedCells
<1>12. OneRetained'
  BY <1>3, <1>4, OneRetainedStep
<1>13. Cold'
  <2>1. ~ prefix_cache_enabled => retained_seq_ids' = {}
    BY <1>4 DEF Cold
  <2>2. ~ prefix_cache_enabled => pos = 0
    <3>1. PICK hit \in Lookup(reqs[r].prompt, reqs[r].matched) : pos = hit[2]
      BY <1>1 DEF RegisterEffect
    <3>2. ~ prefix_cache_enabled => hit = <<NoSeq, 0>>
      BY DEF Lookup
    <3> QED BY <3>1, <3>2
  <2>3. \A o \in Requests \ {r} :
            Phase(o) = "prefill" => seq_cell_counts'[reqs[o].seq] = seq_cell_counts[reqs[o].seq]
    <3> SUFFICES ASSUME NEW o \in Requests \ {r}, Phase(o) = "prefill"
                 PROVE  seq_cell_counts'[reqs[o].seq] = seq_cell_counts[reqs[o].seq]
      OBVIOUS
    <3>1. o \in Owning
      BY DEF Owning
    <3>2. reqs[o].seq # new /\ reqs[o].seq \in DOMAIN seq_cell_counts
      BY <1>3, <3>1, OwnedFacts
    <3> QED BY <1>4, <3>2
  <2> QED BY <1>3, <1>4, <2>1, <2>2, <2>3, ColdStep
<1>14. RootBare'
  <2>1. new \notin tree'[Root].ready_seq_ids
    BY <1>4 DEF RootBare, TypeOK
  <2>2. reqs'[r].prompt # << >> => reqs'[r].leaf # Root
    BY <1>3 DEF Root
  <2> QED BY <1>3, <2>1, <2>2, RootStep
<1> QED BY <1>8, <1>9, <1>10, <1>11, <1>12, <1>13, <1>14

-----------------------------------------------------------------------------
(* Decoding and retiring *)

\* A step of the request r and of its sequence s, which it keeps.
OwnEffect(r, s) ==
    /\ r \in Owning /\ s = reqs[r].seq /\ TreeStep(s) /\ OthersKept(r)
    /\ reqs'[r].seq = s /\ reqs'[r].prompt = reqs[r].prompt
    /\ reqs'[r].phase \in {"prefill", "active", "retiring"}
    /\ reqs[r].leaf # Root => reqs'[r].leaf # Root
    /\ UNCHANGED <<free_seq_ids, retained_seq_ids>>
    /\ \A i \in SeqIds \ {s} : kv'[i] = kv[i]
    /\ \A i \in DOMAIN seq_cell_counts \ {s} : seq_cell_counts'[i] = seq_cell_counts[i]

\* Such a step preserves what is said of the cache and of the other requests.
LEMMA OwnCache ==
    ASSUME IInv, CacheInv, IInv', UNCHANGED prefix_cache_enabled,
           NEW r \in Requests, NEW s, OwnEffect(r, s),
           reqs'[r].phase = "retiring" => Len(reqs'[r].tokens) > Len(reqs'[r].prompt),
           reqs'[r].phase = "prefill" => /\ Phase(r) = "prefill"
                                         /\ Len(reqs'[r].tokens) < Len(reqs'[r].prompt)
                                         /\ seq_cell_counts' = seq_cell_counts,
           reqs'[r].phase # "prefill" => \A p \in DOMAIN tree' : s \notin Pending(tree'[p]),
           s \notin tree'[Root].ready_seq_ids
    PROVE  CacheInv'
<1>1. /\ r \in Owning /\ s = reqs[r].seq /\ TreeStep(s) /\ OthersKept(r)
      /\ reqs'[r].seq = s /\ reqs'[r].prompt = reqs[r].prompt
      /\ reqs'[r].phase \in {"prefill", "active", "retiring"}
      /\ reqs[r].leaf # Root => reqs'[r].leaf # Root
      /\ UNCHANGED <<free_seq_ids, retained_seq_ids>>
      /\ \A i \in SeqIds \ {s} : kv'[i] = kv[i]
      /\ \A i \in DOMAIN seq_cell_counts \ {s} : seq_cell_counts'[i] = seq_cell_counts[i]
  BY DEF OwnEffect
<1> USE DEF IInv, CacheInv
<1>2. /\ s \in SeqIds /\ s \in DOMAIN seq_cell_counts /\ s \notin retained_seq_ids
      /\ \A o \in Owning : reqs[o].seq = s => o = r
  BY <1>1, OwnedFacts
<1>3. r \in Owning' /\ r \in Holding
  BY <1>1 DEF Owning, Holding, Phase
<1>4. Owning' = Owning /\ OwnedIds' = OwnedIds
  BY <1>1, <1>3, OwnedSame
<1>5. NonEmptyDelta' /\ Admitted'
  <2>1. Phase(r) # "none"
    BY <1>1 DEF Owning
  <2>2. max_sequences > 1 /\ reqs[r].prompt \in Prompts
    BY <2>1 DEF Admitted
  <2> QED BY <1>1, <2>2, SlotStep
<1>6. PendingOwned'
  <2>1. reqs'[r].phase = "prefill" => r \in Filling'
    BY <1>3 DEF Filling, Phase
  <2> QED BY <1>1, <2>1, PendingStep
<1>7. RetainedExact'
  BY <1>1, <1>4, RetainedSame
<1>8. RetainedCells'
  <2> SUFFICES ASSUME NEW i \in retained_seq_ids PROVE seq_cell_counts'[i] = Len(kv'[i])
    BY <1>1 DEF RetainedCells
  <2>1. i \in DOMAIN seq_cell_counts /\ i \in SeqIds /\ i # s
    BY <1>2, RegisteredPool DEF RetainedExact
  <2> QED BY <1>1, <2>1 DEF RetainedCells
<1>9. OneRetained'
  BY <1>1, <1>2, OneRetainedStep
<1>10. Cold'
  <2>1. ~ prefix_cache_enabled => retained_seq_ids' = {}
    BY <1>1 DEF Cold
  <2>2. ~ prefix_cache_enabled /\ reqs'[r].phase = "prefill"
            => seq_cell_counts'[reqs'[r].seq] = 0
    BY <1>1 DEF Cold
  <2>3. \A o \in Requests \ {r} :
            Phase(o) = "prefill" => seq_cell_counts'[reqs[o].seq] = seq_cell_counts[reqs[o].seq]
    <3> SUFFICES ASSUME NEW o \in Requests \ {r}, Phase(o) = "prefill"
                 PROVE  seq_cell_counts'[reqs[o].seq] = seq_cell_counts[reqs[o].seq]
      OBVIOUS
    <3>1. o \in Owning
      BY DEF Owning
    <3>2. reqs[o].seq # s /\ reqs[o].seq \in DOMAIN seq_cell_counts
      BY <1>2, <3>1, OwnedFacts
    <3> QED BY <1>1, <3>2
  <2> QED BY <1>1, <2>1, <2>2, <2>3, ColdStep
<1>11. RootBare'
  <2>1. reqs'[r].prompt # << >> => reqs'[r].leaf # Root
    BY <1>1, <1>3 DEF RootBare
  <2> QED BY <1>1, <2>1, RootStep
<1> QED BY <1>5, <1>6, <1>7, <1>8, <1>9, <1>10, <1>11

\* A decode of prompt tokens; with the last of them the sequence is ready.
LEMMA DecodeFacts ==
    ASSUME IInv, IInv', NEW r \in Requests, NEW k \in 1 .. Len(reqs[r].prompt), DecodePrompt(r, k)
    PROVE  /\ OwnEffect(r, reqs[r].seq)
           /\ Phase(r) = "prefill" /\ reqs[r].leaf \in DOMAIN tree
           /\ Len(reqs[r].tokens) + k <= Len(reqs[r].prompt)
           /\ reqs'[r].tokens = Prefix(reqs[r].prompt, Len(reqs[r].tokens) + k)
           /\ reqs'[r].leaf = reqs[r].leaf
           /\ \/ /\ Len(reqs[r].tokens) + k < Len(reqs[r].prompt)
                 /\ reqs'[r].phase = "prefill"
                 /\ UNCHANGED <<tree, seq_cell_counts>>
              \/ /\ Len(reqs[r].tokens) + k = Len(reqs[r].prompt)
                 /\ reqs'[r].phase = "active"
                 /\ \A p \in DOMAIN tree' : reqs[r].seq \notin Pending(tree'[p])
                 /\ \A p \in DOMAIN tree' : reqs[r].seq \in tree'[p].seq_ids => p = reqs[r].leaf
<1> USE DEF IInv
<1>1. Phase(r) = "prefill" /\ r \in Owning /\ r \in Holding
  BY DEF DecodePrompt, Owning, Holding
<1>2. PICK prompt \in Seq(Token), s \in SeqIds, leaf \in DOMAIN tree, pos \in Nat :
          /\ prompt = reqs[r].prompt /\ s = reqs[r].seq /\ leaf = reqs[r].leaf
          /\ pos = Len(reqs[r].tokens) /\ s \in tree[leaf].seq_ids
  <2>1. reqs[r].leaf = reqs[r].node
    BY <1>1 DEF RequestInv
  <2>2. reqs[r].leaf \in DOMAIN tree /\ reqs[r].seq \in tree[reqs[r].leaf].seq_ids
    BY <1>1, <2>1 DEF OwnedRegistered
  <2>3. reqs[r].seq \in SeqIds
    BY <2>2 DEF TypeOK, Nodes
  <2>4. reqs[r].prompt \in Seq(Token) /\ Len(reqs[r].tokens) \in Nat
    BY LenProperties DEF TypeOK, Slots
  <2> QED BY <2>2, <2>3, <2>4
<1>3. /\ pos + k <= Len(prompt)
      /\ kv' = [kv EXCEPT ![s] = @ \o SubSeq(prompt, pos + 1, pos + k)]
      /\ reqs' = [reqs EXCEPT
             ![r] = [@ EXCEPT !.tokens = Prefix(prompt, pos + k),
                              !.phase = IF pos + k = Len(prompt) THEN "active"
                                        ELSE "prefill"]]
      /\ tree' = IF pos + k = Len(prompt) THEN mark_seq_id_ready(tree, leaf, s) ELSE tree
      /\ seq_cell_counts' =
             IF pos + k = Len(prompt)
             THEN [seq_cell_counts EXCEPT ![s] = tree[leaf].canonical_len]
             ELSE seq_cell_counts
      /\ UNCHANGED <<tick, free_seq_ids, retained_seq_ids>>
  BY <1>2 DEF DecodePrompt
<1>4. pos + k < Len(prompt) \/ pos + k = Len(prompt)
  <2>1. Len(prompt) \in Nat /\ pos + k \in Nat
    BY <1>2, LenProperties
  <2> QED BY <1>3, <2>1
<1>5. /\ \A o \in Requests \ {r} : reqs'[o] = reqs[o]
      /\ reqs'[r].phase = IF pos + k = Len(prompt) THEN "active" ELSE "prefill"
      /\ reqs'[r].prompt = prompt /\ reqs'[r].leaf = leaf /\ reqs'[r].seq = s
      /\ reqs'[r].tokens = Prefix(prompt, pos + k)
  <2>1. reqs[r] \in Slots /\ reqs \in [Requests -> Slots]
    BY DEF TypeOK
  <2>2. PICK ph : ph = IF pos + k = Len(prompt) THEN "active" ELSE "prefill"
    OBVIOUS
  <2>3. PICK q : q = [reqs[r] EXCEPT !.tokens = Prefix(prompt, pos + k), !.phase = ph]
    OBVIOUS
  <2>4. reqs' = [reqs EXCEPT ![r] = q]
    BY <1>3, <2>2, <2>3
  <2>5. /\ q.phase = ph /\ q.prompt = reqs[r].prompt /\ q.leaf = reqs[r].leaf
        /\ q.seq = reqs[r].seq /\ q.tokens = Prefix(prompt, pos + k)
    BY <2>1, <2>3 DEF Slots
  <2> QED BY <1>2, <2>1, <2>2, <2>4, <2>5
<1>6. OthersKept(r)
  BY <1>5 DEF OthersKept
<1>7. /\ DOMAIN tree' = DOMAIN tree
      /\ \A p \in DOMAIN tree : tree'[p].seq_ids = tree[p].seq_ids
      /\ \A p \in DOMAIN tree : tree'[p].ready_seq_ids \ {s} \subseteq tree[p].ready_seq_ids
      /\ \A p \in DOMAIN tree : tree[p].ready_seq_ids \subseteq tree'[p].ready_seq_ids
      /\ pos + k = Len(prompt) => s \in tree'[leaf].ready_seq_ids
  <2>1. CASE pos + k = Len(prompt)
    <3>1. tree' = [tree EXCEPT ![leaf].ready_seq_ids = @ \cup {s}]
      BY <1>2, <1>3, <2>1 DEF mark_seq_id_ready
    <3>2. \A p \in DOMAIN tree : tree[p] \in Nodes
      BY DEF TypeOK
    <3>3. tree'[leaf] = [tree[leaf] EXCEPT !.ready_seq_ids = @ \cup {s}]
          /\ DOMAIN tree' = DOMAIN tree /\ \A p \in DOMAIN tree \ {leaf} : tree'[p] = tree[p]
      BY <1>2, <3>1
    <3>4. tree'[leaf].seq_ids = tree[leaf].seq_ids
          /\ tree'[leaf].ready_seq_ids = tree[leaf].ready_seq_ids \cup {s}
      BY <3>2, <3>3 DEF Nodes
    <3> QED BY <1>2, <3>3, <3>4
  <2>2. CASE pos + k # Len(prompt)
    BY <1>3, <2>2
  <2> QED BY <2>1, <2>2
<1>8. TreeStep(s)
  <2>1. \A q \in DOMAIN tree' : /\ tree'[q].seq_ids \ {s} \subseteq tree[q].seq_ids
                                 /\ tree'[q].ready_seq_ids \ {s} \subseteq tree[q].ready_seq_ids
                                 /\ Pending(tree'[q]) \ {s} \subseteq Pending(tree[q])
    BY <1>7 DEF Pending
  <2> QED BY <1>7, <2>1, TreeStepSubset
<1>9. /\ \A i \in SeqIds \ {s} : kv'[i] = kv[i]
      /\ \A i \in DOMAIN seq_cell_counts \ {s} : seq_cell_counts'[i] = seq_cell_counts[i]
  BY <1>3 DEF TypeOK
<1>10. OwnEffect(r, s)
  BY <1>1, <1>2, <1>3, <1>5, <1>6, <1>8, <1>9 DEF OwnEffect
<1>11. \A p \in DOMAIN tree' : s \in tree'[p].seq_ids => p = leaf
  BY <1>2, <1>7 DEF SeqIdConservation
<1>12. pos + k = Len(prompt) => \A p \in DOMAIN tree' : s \notin Pending(tree'[p])
  BY <1>7, <1>11 DEF Pending
<1> QED BY <1>1, <1>2, <1>3, <1>4, <1>5, <1>10, <1>11, <1>12

\* A decode of prompt tokens keeps the invariant.
LEMMA DecodeCache ==
    ASSUME IInv, CacheInv, IInv', UNCHANGED prefix_cache_enabled,
           NEW r \in Requests, NEW k \in 1 .. Len(reqs[r].prompt), DecodePrompt(r, k)
    PROVE  CacheInv'
<1>1. PICK prompt, s, leaf, pos :
          /\ prompt = reqs[r].prompt /\ s = reqs[r].seq /\ leaf = reqs[r].leaf
          /\ pos = Len(reqs[r].tokens)
  OBVIOUS
<1>2. /\ OwnEffect(r, s) /\ Phase(r) = "prefill" /\ leaf \in DOMAIN tree
      /\ pos + k <= Len(prompt)
      /\ reqs'[r].tokens = Prefix(prompt, pos + k) /\ reqs'[r].leaf = leaf
      /\ \/ /\ pos + k < Len(prompt)
            /\ reqs'[r].phase = "prefill"
            /\ UNCHANGED <<tree, seq_cell_counts>>
         \/ /\ pos + k = Len(prompt)
            /\ reqs'[r].phase = "active"
            /\ \A p \in DOMAIN tree' : s \notin Pending(tree'[p])
            /\ \A p \in DOMAIN tree' : s \in tree'[p].seq_ids => p = leaf
  BY <1>1, DecodeFacts
<1>3. /\ prompt \in Seq(Token) /\ Len(prompt) \in Nat /\ pos \in Nat
      /\ reqs'[r].prompt = prompt /\ k \in Nat
  BY <1>1, <1>2, LenProperties DEF OwnEffect, IInv, TypeOK, Slots
<1>4. CASE pos + k < Len(prompt) /\ reqs'[r].phase = "prefill"
               /\ UNCHANGED <<tree, seq_cell_counts>>
  <2>1. Len(reqs'[r].tokens) = pos + k
    BY <1>2, <1>3, PrefixFacts
  <2>2. s \notin tree'[Root].ready_seq_ids
    BY <1>4 DEF CacheInv, RootBare
  <2> QED BY <1>2, <1>3, <1>4, <2>1, <2>2, OwnCache
<1>5. CASE /\ reqs'[r].phase = "active"
           /\ \A p \in DOMAIN tree' : s \notin Pending(tree'[p])
           /\ \A p \in DOMAIN tree' : s \in tree'[p].seq_ids => p = leaf
  <2>1. leaf # Root
    <3>1. prompt # << >> /\ r \in Holding
      BY <1>1, <1>2 DEF Holding
    <3> QED BY <1>1, <3>1 DEF CacheInv, RootBare
  <2>2. s \notin tree'[Root].ready_seq_ids
    BY <1>5, <2>1 DEF IInv, TypeOK, ReadyCoversPath
  <2> QED BY <1>2, <1>5, <2>2, OwnCache
<1> QED BY <1>2, <1>4, <1>5

\* A request that is past its prompt has no pending sequence.
LEMMA ActiveReady ==
    ASSUME IInv, CacheInv, NEW r \in Requests, Phase(r) = "active"
    PROVE  \A p \in DOMAIN tree : reqs[r].seq \notin Pending(tree[p])
<1> SUFFICES ASSUME NEW p \in DOMAIN tree, reqs[r].seq \in Pending(tree[p])
             PROVE  FALSE
  OBVIOUS
<1>1. PICK o \in Owning : /\ reqs[o].seq = reqs[r].seq
                          /\ Phase(o) = "prefill" \/ Phase(o) = "retiring"
  BY DEF CacheInv, PendingOwned, Pending
<1>2. r \in Owning
  BY DEF Owning
<1>3. o = r
  BY <1>1, <1>2 DEF IInv, OwnedRegistered
<1> QED BY <1>1, <1>3

\* A decode of a generated token.
LEMMA GenerateFacts ==
    ASSUME IInv, NEW r \in Requests, NEW token \in Token, Generate(r, token)
    PROVE  /\ OwnEffect(r, reqs[r].seq) /\ tree' = tree
           /\ Phase(r) = "active" /\ reqs'[r].phase = "active"
           /\ reqs'[r].tokens = Append(reqs[r].tokens, token)
<1> USE DEF IInv
<1>1. Phase(r) = "active" /\ r \in Owning
  BY DEF Generate, Owning
<1>2. PICK more, s : more = Append(reqs[r].tokens, token) /\ s = reqs[r].seq
  OBVIOUS
<1>3. /\ kv' = [kv EXCEPT ![s] = Append(@, token)]
      /\ seq_cell_counts' = [seq_cell_counts EXCEPT ![s] = Len(reqs[r].tokens) + 1]
      /\ reqs' = [reqs EXCEPT ![r].tokens = more]
      /\ UNCHANGED <<tree, tick, free_seq_ids, retained_seq_ids>>
  BY <1>2 DEF Generate
<1>4. reqs[r] \in Slots /\ reqs \in [Requests -> Slots]
  BY DEF TypeOK
<1>5. PICK q : q = [reqs[r] EXCEPT !.tokens = more]
  OBVIOUS
<1>6. reqs' = [reqs EXCEPT ![r] = q]
  BY <1>3, <1>4, <1>5
<1>7. /\ q.phase = reqs[r].phase /\ q.prompt = reqs[r].prompt
      /\ q.leaf = reqs[r].leaf /\ q.seq = s /\ q.tokens = more
  BY <1>2, <1>4, <1>5 DEF Slots
<1>8. /\ \A o \in Requests \ {r} : reqs'[o] = reqs[o]
      /\ reqs'[r].phase = "active" /\ reqs'[r].prompt = reqs[r].prompt
      /\ reqs'[r].leaf = reqs[r].leaf /\ reqs'[r].seq = s /\ reqs'[r].tokens = more
  BY <1>1, <1>4, <1>6, <1>7 DEF Phase
<1>9. TreeStep(s)
  BY <1>3, TreeStepSame
<1>10. OthersKept(r)
  BY <1>8 DEF OthersKept
<1>11. /\ \A i \in SeqIds \ {s} : kv'[i] = kv[i]
       /\ \A i \in DOMAIN seq_cell_counts \ {s} : seq_cell_counts'[i] = seq_cell_counts[i]
  BY <1>3 DEF TypeOK
<1>12. OwnEffect(r, s)
  BY <1>1, <1>2, <1>3, <1>8, <1>9, <1>10, <1>11 DEF OwnEffect
<1> QED BY <1>1, <1>2, <1>3, <1>8, <1>12

\* A decode of a generated token keeps the invariant.
LEMMA GenerateCache ==
    ASSUME IInv, CacheInv, IInv', UNCHANGED prefix_cache_enabled,
           NEW r \in Requests, NEW token \in Token, Generate(r, token)
    PROVE  CacheInv'
<1>1. PICK s : s = reqs[r].seq
  OBVIOUS
<1>2. OwnEffect(r, s) /\ tree' = tree /\ Phase(r) = "active" /\ reqs'[r].phase = "active"
  BY <1>1, GenerateFacts
<1>3. \A p \in DOMAIN tree' : s \notin Pending(tree'[p])
  BY <1>1, <1>2, ActiveReady
<1>4. s \notin tree'[Root].ready_seq_ids
  BY <1>2 DEF CacheInv, RootBare
<1> QED BY <1>2, <1>3, <1>4, OwnCache

\* extend_sequence, which splits at most one node and moves the sequence s from p to T.
LEMMA ExtendTree ==
    ASSUME IInv, NEW cut \in Seq(Token), NEW x, EdgeNode(tree, cut, x), NEW d,
           d = split_node(tree, x, cut), NEW p \in DOMAIN d, NEW T \in Seq(Token), p # T,
           T # Root, NEW s \in SeqIds, tick' \in Nat, tree' = MoveSeq(d, p, s, T, tick')
    PROVE  TreeStep(s) /\ T \in DOMAIN tree' /\ s \in tree'[T].ready_seq_ids
<1>1. PICK t, k : t = tree' /\ k = tick' /\ k \in Nat
  OBVIOUS
<1>2. \A q \in DOMAIN d : d[q] \in Nodes
  BY SplitInv DEF IInv
<1>3. Extended(d, p, s, T, k, t)
  BY <1>1, <1>2, ExtendFacts
<1>4. PICK n : n = NodeAt(d, T, k)
  OBVIOUS
<1>5. /\ DOMAIN t = DOMAIN d \cup {T}
      /\ \A q \in DOMAIN d \ {p, T} : t[q] = d[q]
      /\ t[p].seq_ids = d[p].seq_ids \ {s}
      /\ t[p].ready_seq_ids = d[p].ready_seq_ids \ {s}
      /\ t[T].seq_ids = n.seq_ids \cup {s}
      /\ t[T].ready_seq_ids = n.ready_seq_ids \cup {s}
  BY <1>3, <1>4 DEF Extended
<1>6. /\ T \in DOMAIN d => n = d[T]
      /\ T \notin DOMAIN d => n.seq_ids = {}
  BY <1>4 DEF NodeAt, NewNode
<1>7. TreeStep(s)
  <2> SUFFICES ASSUME NEW q \in DOMAIN tree', tree'[q].seq_ids \ {s} # {}
               PROVE  \E w \in DOMAIN tree : Inherits(q, w, s)
    BY DEF TreeStep
  <2>1. /\ q \in DOMAIN d
        /\ tree'[q].seq_ids \ {s} = d[q].seq_ids \ {s}
        /\ tree'[q].ready_seq_ids \ {s} = d[q].ready_seq_ids \ {s}
    <3>1. CASE q = T
      BY <1>1, <1>5, <1>6, <3>1
    <3>2. CASE q = p
      BY <1>1, <1>5, <3>2
    <3>3. CASE q # T /\ q # p
      BY <1>1, <1>5, <3>3
    <3> QED BY <3>1, <3>2, <3>3
  <2>2. d[q].seq_ids # {}
    BY <2>1
  <2>3. PICK w \in DOMAIN tree : q \sqsubseteq w /\ (q = Root => w = Root) /\ d[q] = tree[w]
    BY <2>1, <2>2, SplitCarries
  <2> QED BY <2>1, <2>3 DEF Inherits, Pending
<1> QED BY <1>1, <1>5, <1>7

\* retire of a request that ended with an end-of-generation token.
LEMMA RetireFacts ==
    ASSUME IInv, CacheInv, IInv', NEW r \in Requests, Retire(r)
    PROVE  /\ OwnEffect(r, reqs[r].seq) /\ UNCHANGED kv
           /\ Phase(r) = "active" /\ reqs'[r].phase = "retiring"
           /\ reqs'[r].tokens = reqs[r].tokens
           /\ Len(reqs[r].tokens) > Len(reqs[r].prompt)
           /\ \A p \in DOMAIN tree' : reqs[r].seq \notin Pending(tree'[p])
           /\ reqs[r].seq \notin tree'[Root].ready_seq_ids
<1> USE DEF IInv
<1>1. /\ Phase(r) = "active" /\ r \in Owning
      /\ Len(reqs[r].tokens) > Len(reqs[r].prompt)
      /\ UNCHANGED <<free_seq_ids, retained_seq_ids, kv>>
  BY DEF Retire, Owning
<1>2. PICK T \in Seq(Token), p \in DOMAIN tree, s \in SeqIds :
          /\ T = reqs[r].tokens /\ p = reqs[r].leaf /\ s = reqs[r].seq
          /\ s \in tree[p].seq_ids
  <2>1. reqs[r].leaf = reqs[r].node
    BY <1>1 DEF RequestInv, Owning, Holding
  <2>2. reqs[r].leaf \in DOMAIN tree /\ reqs[r].seq \in tree[reqs[r].leaf].seq_ids
    BY <1>1, <2>1 DEF OwnedRegistered
  <2>3. reqs[r].seq \in SeqIds /\ reqs[r].tokens \in Seq(Token)
    BY <2>2 DEF TypeOK, Nodes, Slots
  <2> QED BY <2>2, <2>3
<1>3. \A i \in DOMAIN seq_cell_counts \ {s} : seq_cell_counts'[i] = seq_cell_counts[i]
  <2>1. \/ seq_cell_counts' = seq_cell_counts
        \/ seq_cell_counts' = [seq_cell_counts EXCEPT ![s] = Len(T)]
    BY <1>2 DEF Retire
  <2> QED BY <2>1
<1>4. CASE prefix_cache_enabled /\ s \in tree[p].ready_seq_ids
  <2>1. PICK m \in 0 .. Len(T), x \in DOMAIN tree :
            /\ Matches(tree, T, m)
            /\ EdgeNode(tree, Prefix(T, m), x)
            /\ tick' = tick + 1
            /\ tree' = extend_seq_id(tree, p, s, T, x, Prefix(T, m), tick')
            /\ reqs' = [Relink(x, Prefix(T, m)) EXCEPT
                           ![r] = [@ EXCEPT !.phase = "retiring", !.node = T]]
    BY <1>2, <1>4 DEF Retire
  <2>2. PICK cut \in Seq(Token) : cut = Prefix(T, m)
    BY <1>2, <2>1, PrefixFacts
  <2>3. EdgeNode(tree, cut, x) /\ x \in Seq(Token) /\ tick' \in Nat
    BY <2>1, <2>2 DEF TypeOK
  <2>4. PICK d : d = split_node(tree, x, cut)
    OBVIOUS
  <2>5. Relinked(r, T, x, cut)
    BY <1>2, <2>1, <2>2, <2>3, RelinkFacts
  <2>6. p \sqsubseteq T /\ p # T /\ T # Root
    <3>1. /\ p \in Seq(Token) /\ reqs[r].prompt \in Seq(Token)
          /\ p \sqsubseteq reqs[r].prompt /\ reqs[r].prompt \sqsubseteq T
      BY <1>1, <1>2 DEF RequestInv, TypeOK, Slots, Holding
    <3>2. p \sqsubseteq T
      BY <1>2, <3>1, PrefixOrder
    <3>3. Len(p) <= Len(reqs[r].prompt) /\ Len(p) \in Nat /\ Len(reqs[r].prompt) \in Nat
          /\ Len(T) \in Nat /\ Len(T) > Len(reqs[r].prompt)
      BY <1>1, <1>2, <3>1, LenProperties DEF \sqsubseteq
    <3>4. Len(Root) = 0
      BY DEF Root
    <3> QED BY <3>2, <3>3, <3>4
  <2>7. p \in DOMAIN d
    <3>1. Follow(p, x, cut) = p
      BY <1>2, <2>1, <2>2, <2>6, WalkPasses
    <3>2. Follow(p, x, cut) \in DOMAIN d
      BY <2>3, <2>4, SplitInv
    <3> QED BY <3>1, <3>2
  <2>8. tree' = MoveSeq(d, p, s, T, tick')
    BY <2>1, <2>2, <2>4 DEF extend_seq_id
  <2>9. TreeStep(s) /\ T \in DOMAIN tree' /\ s \in tree'[T].ready_seq_ids
    <3> HIDE DEF IInv
    <3> QED BY <2>3, <2>4, <2>6, <2>7, <2>8, ExtendTree
  <2>10. \A q \in DOMAIN tree' : s \in tree'[q].seq_ids => q = T
    BY <2>9 DEF SeqIdConservation, ReadyCoversPath
  <2>11. /\ \A q \in DOMAIN tree' : s \notin Pending(tree'[q])
         /\ s \notin tree'[Root].ready_seq_ids
    BY <2>6, <2>9, <2>10 DEF Pending, TypeOK, ReadyCoversPath
  <2>12. OthersKept(r) /\ (reqs[r].leaf # Root => reqs'[r].leaf # Root)
    BY <2>3, <2>5, FollowRoot DEF OthersKept, Relinked
  <2>13. /\ reqs'[r].seq = s /\ reqs'[r].prompt = reqs[r].prompt
         /\ reqs'[r].phase = "retiring" /\ reqs'[r].tokens = reqs[r].tokens
    BY <1>2, <2>5 DEF Relinked
  <2>14. OwnEffect(r, s)
    BY <1>1, <1>2, <1>3, <2>9, <2>12, <2>13 DEF OwnEffect
  <2> QED BY <1>1, <1>2, <2>11, <2>13, <2>14
<1>5. CASE ~ (prefix_cache_enabled /\ s \in tree[p].ready_seq_ids)
  <2>1. reqs' = [reqs EXCEPT ![r].phase = "retiring"] /\ tree' = tree
    BY <1>2, <1>5 DEF Retire
  <2>2. /\ \A o \in Requests \ {r} : reqs'[o] = reqs[o]
        /\ reqs'[r].phase = "retiring" /\ reqs'[r].leaf = reqs[r].leaf
        /\ reqs'[r].seq = reqs[r].seq /\ reqs'[r].prompt = reqs[r].prompt
        /\ reqs'[r].tokens = reqs[r].tokens
    BY <2>1 DEF TypeOK, Slots
  <2>3. TreeStep(s) /\ OthersKept(r)
    BY <2>1, <2>2, TreeStepSame DEF OthersKept
  <2>4. OwnEffect(r, s)
    BY <1>1, <1>2, <1>3, <2>2, <2>3 DEF OwnEffect
  <2>5. \A q \in DOMAIN tree' : s \notin Pending(tree'[q])
    BY <1>1, <1>2, <2>1, ActiveReady
  <2>6. s \notin tree'[Root].ready_seq_ids
    BY <2>1 DEF CacheInv, RootBare
  <2> QED BY <1>1, <1>2, <2>2, <2>4, <2>5, <2>6
<1> QED BY <1>4, <1>5

\* Retirement keeps the invariant.
LEMMA RetireCache ==
    ASSUME IInv, CacheInv, IInv', UNCHANGED prefix_cache_enabled,
           NEW r \in Requests, Retire(r)
    PROVE  CacheInv'
<1>1. PICK s : s = reqs[r].seq
  OBVIOUS
<1>2. /\ OwnEffect(r, s) /\ reqs'[r].phase = "retiring"
      /\ reqs'[r].tokens = reqs[r].tokens
      /\ Len(reqs[r].tokens) > Len(reqs[r].prompt)
      /\ \A p \in DOMAIN tree' : s \notin Pending(tree'[p])
      /\ s \notin tree'[Root].ready_seq_ids
  BY <1>1, RetireFacts
<1>3. Len(reqs'[r].tokens) > Len(reqs'[r].prompt)
  BY <1>2 DEF OwnEffect
<1> QED BY <1>2, <1>3, OwnCache

-----------------------------------------------------------------------------
(* The invariant *)

\* The initial state: nothing is cached and nobody is in flight.
LEMMA InitCache == Init => CacheInv
<1> SUFFICES ASSUME Init PROVE CacheInv
  OBVIOUS
<1>1. /\ DOMAIN tree = {Root} /\ tree[Root].seq_ids = {} /\ tree[Root].ready_seq_ids = {}
  BY DEF Init, EmptyTree, NewNode
<1>2. \A r \in Requests : Phase(r) = "none"
  BY DEF Init, Phase, NoRequest
<1>3. Owning = {} /\ Holding = {} /\ OwnedIds = {} /\ Registered = {}
      /\ retained_seq_ids = {}
  BY <1>1, <1>2 DEF Owning, Holding, OwnedIds, Registered, Init
<1>4. NonEmptyDelta /\ Admitted
  BY <1>2 DEF NonEmptyDelta, Admitted
<1>5. PendingOwned /\ OneRetained /\ RetainedExact /\ RetainedCells
  BY <1>1, <1>3 DEF PendingOwned, OneRetained, RetainedExact, RetainedCells
<1>6. Cold /\ RootBare
  BY <1>1, <1>2, <1>3 DEF Cold, RootBare
<1> QED BY <1>4, <1>5, <1>6 DEF CacheInv

\* A step that changes nothing preserves the invariant.
LEMMA StutterCache == CacheInv /\ UNCHANGED vars => CacheInv'
<1> SUFFICES ASSUME CacheInv, UNCHANGED vars PROVE CacheInv'
  OBVIOUS
<1> USE DEF CacheInv, vars
<1>1. \A r \in Requests : Phase(r)' = Phase(r)
  BY DEF Phase
<1>2. Owning' = Owning /\ Holding' = Holding /\ OwnedIds' = OwnedIds
      /\ Registered' = Registered
  BY DEF Owning, Holding, OwnedIds, Registered, Phase
<1>3. NonEmptyDelta' /\ Admitted'
  BY <1>1 DEF NonEmptyDelta, Admitted
<1>4. PendingOwned'
  BY <1>2 DEF PendingOwned, Phase
<1>5. OneRetained' /\ RetainedExact' /\ RetainedCells'
  BY <1>2 DEF OneRetained, RetainedExact, RetainedCells
<1>6. Cold' /\ RootBare'
  BY <1>1, <1>2 DEF Cold, RootBare
<1> QED BY <1>3, <1>4, <1>5, <1>6

\* Every step of the mapper preserves the invariant.
LEMMA CacheNext == IInv /\ CacheInv /\ [Next]_vars => CacheInv'
<1> SUFFICES ASSUME IInv, CacheInv, [Next]_vars PROVE CacheInv'
  OBVIOUS
<1>1. IInv'
  BY NextInv
<1>2. CASE Next
  <2>1. UNCHANGED prefix_cache_enabled
    BY <1>2 DEF Next
  <2>2. ASSUME NEW r \in Requests, NEW prompt \in Prompts, BeginPrepare(r, prompt)
        PROVE  CacheInv'
    BY <1>1, <2>1, <2>2, BeginPrepareCache
  <2>3. ASSUME NEW r \in Requests, EvictPressure(r) \/ AllocateEvict(r) PROVE CacheInv'
    <3>1. evict_one /\ UNCHANGED reqs
      BY <2>3 DEF EvictPressure, AllocateEvict
    <3> QED BY <1>1, <2>1, <3>1, EvictCache
  <2>4. ASSUME NEW r \in Requests, Insert(r) PROVE CacheInv'
    BY <1>1, <2>1, <2>4, InsertCache
  <2>5. ASSUME NEW r \in Requests, Exhausted(r) PROVE CacheInv'
    BY <1>1, <2>1, <2>5, ExhaustedCache
  <2>6. ASSUME NEW r \in Requests, Register(r) PROVE CacheInv'
    BY <1>1, <2>1, <2>6, RegisterCache
  <2>7. ASSUME NEW r \in Requests, NEW k \in 1 .. Len(reqs[r].prompt), DecodePrompt(r, k)
        PROVE  CacheInv'
    BY <1>1, <2>1, <2>7, DecodeCache
  <2>8. ASSUME NEW r \in Requests, NEW token \in Token, Generate(r, token) PROVE CacheInv'
    BY <1>1, <2>1, <2>8, GenerateCache
  <2>9. ASSUME NEW r \in Requests, Retire(r) PROVE CacheInv'
    BY <1>1, <2>1, <2>9, RetireCache
  <2>10. ASSUME NEW r \in Requests, FinishRetire(r) \/ Abandon(r) PROVE CacheInv'
    <3>1. r \in Owning /\ (Busy(r) \/ Quiet) /\ ReleaseAll(r)
      BY <2>10 DEF FinishRetire, Abandon, Owning, Busy
    <3> QED BY <1>1, <2>1, <3>1, ReleaseCache
  <2>11. ASSUME EvictIdle PROVE CacheInv'
    <3>1. evict_one /\ UNCHANGED reqs /\ \E r : r \in Requests
      BY <2>11 DEF EvictIdle, Owning
    <3> QED BY <1>1, <2>1, <3>1, EvictCache
  <2> QED
    BY <1>2, <2>2, <2>3, <2>4, <2>5, <2>6, <2>7, <2>8, <2>9, <2>10, <2>11 DEF Next
<1>3. CASE UNCHANGED vars
  BY <1>3, StutterCache
<1> QED BY <1>2, <1>3

\* Pending and retained sequences, gauges and roots stay as the invariant says, whatever
\* the vocabulary, the prompts, the number of ids and of concurrent requests.
THEOREM CacheInvariance == Spec => [](IInv /\ CacheInv)
<1>1. Init => IInv /\ CacheInv
  BY InitInv, InitCache
<1>2. IInv /\ CacheInv /\ [Next]_vars => (IInv /\ CacheInv)'
  BY NextInv, CacheNext
<1> QED BY <1>1, <1>2, PTL DEF Spec

-----------------------------------------------------------------------------
(* What the runs check *)

\* worker.cpp defers a request behind a pending sequence; the sequence is always one that a
\* request in flight is filling, so nobody waits for a sequence left pending.
THEOREM PendingAlwaysOwned == Spec => []PendingOwned
<1>1. CacheInv => PendingOwned
  BY DEF CacheInv
<1> QED BY <1>1, CacheInvariance, PTL

\* prepare_sequence leaves a token to decode of every non-empty prompt.
THEOREM DeltaNonEmpty == Spec => []NonEmptyDelta
<1>1. CacheInv => NonEmptyDelta
  BY DEF CacheInv
<1> QED BY <1>1, CacheInvariance, PTL

\* release_seq_id keeps at most one canonical sequence at a node.
THEOREM CanonicalUnique == Spec => []OneCanonical
<1>1. IInv /\ CacheInv => OneCanonical
  <2> SUFFICES ASSUME IInv, CacheInv, NEW p \in DOMAIN tree
               PROVE  Cardinality(tree[p].seq_ids \cap retained_seq_ids) <= 1
    BY DEF OneCanonical
  <2>1. PICK S : S = tree[p].seq_ids \cap retained_seq_ids
    OBVIOUS
  <2>2. \A s, u \in S : s = u
    BY <2>1 DEF CacheInv, OneRetained
  <2>3. CASE S = {}
    BY <2>1, <2>3, FS_EmptySet
  <2>4. CASE S # {}
    <3>1. PICK s : S = {s}
      BY <2>2, <2>4
    <3>2. Cardinality(S) = 1
      BY <3>1, FS_Singleton
    <3> QED BY <2>1, <3>2
  <2> QED BY <2>3, <2>4
<1> QED BY <1>1, CacheInvariance, PTL

\* With --no-prefix-cache nothing is retained, only requests in flight own sequences, and
\* every one of them starts with no cached cell.
THEOREM ColdStart == Spec => []ColdWithoutCache
<1>1. IInv /\ CacheInv => ColdWithoutCache
  <2> SUFFICES ASSUME IInv, CacheInv, ~ prefix_cache_enabled
               PROVE  /\ retained_seq_ids = {}
                      /\ Registered = OwnedIds
                      /\ \A r \in Requests : Phase(r) = "prefill" =>
                             seq_cell_counts[reqs[r].seq] = 0
    BY DEF ColdWithoutCache, OwnedIds
  <2>1. /\ retained_seq_ids = {}
        /\ \A r \in Requests : Phase(r) = "prefill" => seq_cell_counts[reqs[r].seq] = 0
    BY DEF CacheInv, Cold
  <2>2. Registered \ OwnedIds = {}
    BY <2>1 DEF CacheInv, RetainedExact
  <2>3. OwnedIds \subseteq Registered
    BY OwnedFacts DEF OwnedIds, CacheInv
  <2> QED BY <2>1, <2>2, <2>3
<1> QED BY <1>1, CacheInvariance, PTL

\* The requests in flight and the ids they own are equally many.
LEMMA OwnersCount ==
    ASSUME IInv, CacheInv
    PROVE  Cardinality(OwnedIds) = Cardinality(Owning)
<1>1. IsFiniteSet(Owning)
  <2>1. Owning \subseteq Requests
    BY DEF Owning
  <2> QED BY <2>1, RequestsAssumption, FS_Subset
<1>2. PICK f : f = [r \in Owning |-> reqs[r].seq]
  OBVIOUS
<1>3. f \in [Owning -> OwnedIds] /\ \A s \in OwnedIds : \E r \in Owning : f[r] = s
  BY <1>2 DEF OwnedIds
<1>4. \A r, o \in Owning : f[r] = f[o] => r = o
  BY <1>2 DEF IInv, OwnedRegistered
<1>5. f \in Bijection(Owning, OwnedIds)
  BY <1>3, <1>4 DEF Bijection, Injection, Surjection, IsInjective
<1>6. ExistsBijection(Owning, OwnedIds)
  BY <1>5 DEF ExistsBijection
<1> QED BY <1>1, <1>6, FS_Bijection

\* What is counted for the sequence of a request, and the cells it has.
CountOf(r) ==
    LET q       == reqs[r]
        counted == seq_cell_counts[q.seq]
    IN  /\ q.phase = "prefill" => counted <= Len(q.tokens)
        /\ q.phase = "retiring" => counted = Len(q.tokens)
        /\ q.phase = "active" /\ Len(q.tokens) > Len(q.prompt) => counted = Len(q.tokens)

CountInv == \A r \in Requests : CountOf(r)

\* The step is about r, and counts of the others what was counted before.
LEMMA CountStep ==
    ASSUME CountInv, NEW r \in Requests, OthersKept(r), CountOf(r)',
           \A o \in Owning \ {r} : seq_cell_counts'[reqs[o].seq] = seq_cell_counts[reqs[o].seq]
    PROVE  CountInv'
<1> SUFFICES ASSUME NEW o \in Requests, o # r PROVE CountOf(o)'
  BY DEF CountInv
<1>1. /\ CountOf(o)
      /\ reqs'[o].phase = reqs[o].phase /\ reqs'[o].prompt = reqs[o].prompt
      /\ reqs'[o].seq = reqs[o].seq /\ reqs'[o].tokens = reqs[o].tokens
  BY DEF CountInv, OthersKept
<1>2. CASE o \in Owning
  BY <1>1, <1>2 DEF CountOf
<1>3. CASE o \notin Owning
  BY <1>1, <1>3 DEF CountOf, Owning, Phase
<1> QED BY <1>2, <1>3

\* A step after which r owns no sequence.
LEMMA CountLeft ==
    ASSUME CountInv, NEW r \in Requests, OthersKept(r),
           reqs'[r].phase \in {"none", "pressure", "inserted"},
           \A o \in Owning \ {r} : seq_cell_counts'[reqs[o].seq] = seq_cell_counts[reqs[o].seq]
    PROVE  CountInv'
<1>1. CountOf(r)'
  BY DEF CountOf
<1> QED BY <1>1, CountStep

\* An eviction takes none of the ids that are owned.
LEMMA EvictCount ==
    ASSUME IInv, CacheInv, IInv', CountInv, evict_one, UNCHANGED reqs
    PROVE  CountInv'
<1>1. PICK ids : EvictEffect(ids)
  BY EvictFacts
<1> SUFFICES ASSUME NEW r \in Requests PROVE CountOf(r)'
  BY DEF CountInv
<1>2. CountOf(r) /\ reqs'[r] = reqs[r]
  BY DEF CountInv
<1>3. CASE r \in Owning
  <2>1. reqs[r].seq \in Registered /\ reqs[r].seq \in OwnedIds
    BY <1>3, OwnedFacts DEF OwnedIds, CacheInv
  <2>2. seq_cell_counts'[reqs[r].seq] = seq_cell_counts[reqs[r].seq]
    BY <1>1, <2>1 DEF EvictEffect
  <2> QED BY <1>2, <2>2 DEF CountOf
<1>4. CASE r \notin Owning
  BY <1>2, <1>4 DEF CountOf, Owning, Phase
<1> QED BY <1>3, <1>4

\* The id that is registered counts the cells copied for it.
LEMMA RegisterCount ==
    ASSUME IInv, CacheInv, IInv', CountInv, NEW r \in Requests, Register(r)
    PROVE  CountInv'
<1>1. PICK new, pos : RegisterEffect(r, new, pos)
  BY RegisterEffects
<1>2. /\ OthersKept(r) /\ new \in Range(free_seq_ids)
      /\ reqs[r].prompt \in Seq(Token) /\ pos \in 0 .. Len(reqs[r].prompt)
      /\ reqs'[r].phase = IF pos = Len(reqs[r].prompt) THEN "retiring" ELSE "prefill"
      /\ reqs'[r].seq = new /\ reqs'[r].tokens = Prefix(reqs[r].prompt, pos)
      /\ \A i \in DOMAIN seq_cell_counts \ {new} : seq_cell_counts'[i] = seq_cell_counts[i]
      /\ seq_cell_counts'[new] = pos
  BY <1>1 DEF RegisterEffect
<1>3. Len(reqs'[r].tokens) = pos /\ pos \in Nat
  BY <1>2, PrefixFacts, LenProperties
<1>4. CountOf(r)'
  BY <1>2, <1>3 DEF CountOf
<1>5. ASSUME NEW o \in Owning \ {r}
      PROVE  seq_cell_counts'[reqs[o].seq] = seq_cell_counts[reqs[o].seq]
  <2>1. reqs[o].seq \in DOMAIN seq_cell_counts /\ reqs[o].seq # new
    BY <1>2, OwnedFacts DEF CacheInv
  <2> QED BY <1>2, <2>1
<1> QED BY <1>2, <1>4, <1>5, CountStep

\* A decode, or the end of the generation, counts for its own sequence only.
LEMMA OwnCount ==
    ASSUME IInv, CacheInv, CountInv, NEW r \in Requests, OwnEffect(r, reqs[r].seq), CountOf(r)'
    PROVE  CountInv'
<1>1. /\ r \in Owning /\ OthersKept(r)
      /\ \A i \in DOMAIN seq_cell_counts \ {reqs[r].seq} :
             seq_cell_counts'[i] = seq_cell_counts[i]
  BY DEF OwnEffect
<1>2. ASSUME NEW o \in Owning \ {r}
      PROVE  seq_cell_counts'[reqs[o].seq] = seq_cell_counts[reqs[o].seq]
  <2>1. reqs[o].seq \in DOMAIN seq_cell_counts /\ reqs[o].seq # reqs[r].seq
    BY <1>1, OwnedFacts DEF CacheInv
  <2> QED BY <1>1, <2>1
<1> QED BY <1>1, <1>2, CountStep

\* Decoding tokens of the prompt adds cells, and counts nothing before the last of them.
LEMMA DecodeCount ==
    ASSUME IInv, CacheInv, IInv', CountInv, NEW r \in Requests,
           NEW k \in 1 .. Len(reqs[r].prompt), DecodePrompt(r, k)
    PROVE  CountInv'
<1>1. PICK prompt \in Seq(Token), T \in Seq(Token) : prompt = reqs[r].prompt /\ T = reqs[r].tokens
  BY DEF IInv, TypeOK, Slots
<1>2. /\ OwnEffect(r, reqs[r].seq) /\ Phase(r) = "prefill"
      /\ reqs'[r].seq = reqs[r].seq /\ reqs'[r].prompt = prompt
      /\ Len(T) + k <= Len(prompt) /\ reqs'[r].tokens = Prefix(prompt, Len(T) + k)
      /\ \/ reqs'[r].phase = "prefill" /\ UNCHANGED seq_cell_counts
         \/ Len(T) + k = Len(prompt) /\ reqs'[r].phase = "active"
  BY <1>1, DecodeFacts DEF OwnEffect
<1>3. PICK n, len, c : n = Len(T) /\ len = Len(prompt) /\ c = seq_cell_counts[reqs[r].seq]
  OBVIOUS
<1>4. n \in Nat /\ len \in Nat /\ k \in Nat /\ n + k \in 0 .. len
  BY <1>1, <1>2, <1>3, LenProperties
<1>5. Len(reqs'[r].tokens) = n + k
  <2>1. PICK m : m = n + k
    OBVIOUS
  <2>2. m \in 0 .. Len(prompt) /\ reqs'[r].tokens = Prefix(prompt, m)
    BY <1>2, <1>3, <1>4, <2>1
  <2> QED BY <1>1, <2>1, <2>2, PrefixFacts
<1>6. c <= n /\ c \in Nat
  <2>1. r \in Owning
    BY <1>2 DEF OwnEffect
  <2>2. c \in Nat
    BY <1>3, <2>1, OwnedFacts DEF CacheInv, IInv, TypeOK
  <2> QED BY <1>1, <1>2, <1>3, <2>2 DEF CountInv, CountOf, Phase
<1>7. c <= n + k
  BY <1>4, <1>6
<1>8. ASSUME reqs'[r].phase = "prefill", UNCHANGED seq_cell_counts PROVE CountOf(r)'
  BY <1>2, <1>3, <1>5, <1>7, <1>8 DEF CountOf
<1>9. ASSUME Len(T) + k = Len(prompt), reqs'[r].phase = "active" PROVE CountOf(r)'
  <2>1. ~ (Len(reqs'[r].tokens) > Len(reqs'[r].prompt))
    BY <1>2, <1>3, <1>4, <1>5, <1>9
  <2> QED BY <1>9, <2>1 DEF CountOf
<1> QED
  <2>1. OwnEffect(r, reqs[r].seq) /\ CountOf(r)'
    BY <1>2, <1>8, <1>9
  <2> QED BY <2>1, OwnCount

\* set_sequence_cell_count counts the token that was generated.
LEMMA GenerateCount ==
    ASSUME IInv, CacheInv, CountInv, NEW r \in Requests, NEW token \in Token, Generate(r, token)
    PROVE  CountInv'
<1>1. PICK T \in Seq(Token) : T = reqs[r].tokens
  BY DEF IInv, TypeOK, Slots
<1>2. /\ OwnEffect(r, reqs[r].seq) /\ r \in Owning /\ reqs'[r].seq = reqs[r].seq
      /\ reqs'[r].phase = "active" /\ reqs'[r].tokens = Append(T, token)
  BY <1>1, GenerateFacts DEF OwnEffect
<1>3. seq_cell_counts'[reqs[r].seq] = Len(T) + 1
  <2>1. reqs[r].seq \in DOMAIN seq_cell_counts
    BY <1>2, OwnedFacts DEF CacheInv
  <2> QED BY <1>1, <2>1 DEF Generate
<1>4. Len(Append(T, token)) = Len(T) + 1
  BY <1>1, AppendProperties
<1>5. CountOf(r)'
  BY <1>2, <1>3, <1>4 DEF CountOf
<1> QED BY <1>2, <1>5, OwnCount

\* extend_sequence counts the whole sequence; without the prefix cache it is counted already.
LEMMA RetireCount ==
    ASSUME IInv, CacheInv, IInv', CountInv, NEW r \in Requests, Retire(r)
    PROVE  CountInv'
<1>1. /\ OwnEffect(r, reqs[r].seq) /\ r \in Owning /\ Phase(r) = "active"
      /\ reqs'[r].seq = reqs[r].seq /\ reqs'[r].phase = "retiring"
      /\ reqs'[r].tokens = reqs[r].tokens /\ Len(reqs[r].tokens) > Len(reqs[r].prompt)
  BY RetireFacts DEF OwnEffect
<1>2. seq_cell_counts[reqs[r].seq] = Len(reqs[r].tokens)
  BY <1>1 DEF CountInv, CountOf, Phase
<1>3. seq_cell_counts' = IF prefix_cache_enabled
                         THEN [seq_cell_counts EXCEPT ![reqs[r].seq] = Len(reqs[r].tokens)]
                         ELSE seq_cell_counts
  BY DEF Retire
<1>4. reqs[r].seq \in DOMAIN seq_cell_counts
  BY <1>1, OwnedFacts DEF CacheInv
<1>5. seq_cell_counts'[reqs[r].seq] = Len(reqs[r].tokens)
  BY <1>2, <1>3, <1>4
<1>6. CountOf(r)'
  BY <1>1, <1>5 DEF CountOf
<1> QED BY <1>1, <1>6, OwnCount

\* Every step preserves what is counted of the sequences of requests.
LEMMA CountNext == IInv /\ CacheInv /\ CountInv /\ [Next]_vars => CountInv'
<1> SUFFICES ASSUME IInv, CacheInv, CountInv, [Next]_vars PROVE CountInv'
  OBVIOUS
<1>1. IInv'
  BY NextInv
<1>2. CASE Next
  <2>1. ASSUME NEW r \in Requests, OthersKept(r), UNCHANGED seq_cell_counts,
               reqs'[r].phase \in {"none", "pressure", "inserted"}
        PROVE  CountInv'
    BY <2>1, CountLeft
  <2>2. ASSUME NEW r \in Requests, NEW prompt \in Prompts, BeginPrepare(r, prompt)
        PROVE  CountInv'
    <3>1. OthersKept(r) /\ reqs'[r].phase = "pressure" /\ UNCHANGED seq_cell_counts
      BY <2>2, BeginPrepareEffect
    <3> QED BY <2>1, <3>1
  <2>3. ASSUME NEW r \in Requests, EvictPressure(r) \/ AllocateEvict(r) PROVE CountInv'
    <3>1. evict_one /\ UNCHANGED reqs
      BY <2>3 DEF EvictPressure, AllocateEvict
    <3> QED BY <1>1, <3>1, EvictCount
  <2>4. ASSUME NEW r \in Requests, Insert(r) PROVE CountInv'
    <3>1. OthersKept(r) /\ reqs'[r].phase = "inserted" /\ UNCHANGED seq_cell_counts
      BY <2>4, InsertFacts DEF InsertEffect
    <3> QED BY <2>1, <3>1
  <2>5. ASSUME NEW r \in Requests, Exhausted(r) PROVE CountInv'
    <3>1. OthersKept(r) /\ reqs'[r].phase = "none" /\ UNCHANGED seq_cell_counts
      BY <2>5, ExhaustedFacts
    <3> QED BY <2>1, <3>1
  <2>6. ASSUME NEW r \in Requests, Register(r) PROVE CountInv'
    BY <1>1, <2>6, RegisterCount
  <2>7. ASSUME NEW r \in Requests, NEW k \in 1 .. Len(reqs[r].prompt), DecodePrompt(r, k)
        PROVE  CountInv'
    BY <1>1, <2>7, DecodeCount
  <2>8. ASSUME NEW r \in Requests, NEW token \in Token, Generate(r, token) PROVE CountInv'
    BY <2>8, GenerateCount
  <2>9. ASSUME NEW r \in Requests, Retire(r) PROVE CountInv'
    BY <1>1, <2>9, RetireCount
  <2>10. ASSUME NEW r \in Requests, FinishRetire(r) \/ Abandon(r) PROVE CountInv'
    <3>1. r \in Owning /\ (Busy(r) \/ Quiet) /\ ReleaseAll(r)
      BY <2>10 DEF FinishRetire, Abandon, Owning, Busy
    <3>2. /\ OthersKept(r) /\ reqs'[r].phase = "none"
          /\ \A i \in DOMAIN seq_cell_counts \ {reqs[r].seq} :
                 seq_cell_counts'[i] = seq_cell_counts[i]
      BY <1>1, <3>1, ReleaseFacts DEF ReleaseEffect
    <3>3. ASSUME NEW o \in Owning \ {r}
          PROVE  seq_cell_counts'[reqs[o].seq] = seq_cell_counts[reqs[o].seq]
      <4>1. reqs[o].seq \in DOMAIN seq_cell_counts /\ reqs[o].seq # reqs[r].seq
        BY <3>1, OwnedFacts DEF CacheInv
      <4> QED BY <3>2, <4>1
    <3> QED BY <3>2, <3>3, CountLeft
  <2>11. ASSUME EvictIdle PROVE CountInv'
    <3>1. evict_one /\ UNCHANGED reqs
      BY <2>11 DEF EvictIdle
    <3> QED BY <1>1, <3>1, EvictCount
  <2> QED
    BY <1>2, <2>2, <2>3, <2>4, <2>5, <2>6, <2>7, <2>8, <2>9, <2>10, <2>11 DEF Next
<1>3. CASE UNCHANGED vars
  BY <1>3 DEF vars, CountInv, CountOf
<1> QED BY <1>2, <1>3

\* What is counted of the sequence of a request is what the gauge theorem says.
LEMMA CountsExact ==
    ASSUME IInv, CountInv, NEW r \in Owning
    PROVE  LET counted == seq_cell_counts[reqs[r].seq]
               held    == Len(kv[reqs[r].seq])
           IN  /\ Phase(r) = "prefill" => counted <= held
               /\ Phase(r) = "retiring" \/ Len(reqs[r].tokens) > Len(reqs[r].prompt)
                      => counted = held
<1>1. /\ r \in Requests /\ r \in Holding /\ kv[reqs[r].seq] = reqs[r].tokens
      /\ Phase(r) \in {"prefill", "active", "retiring"}
  BY DEF Owning, Holding, IInv, RequestKvExact
<1>2. CountOf(r)
  BY <1>1 DEF CountInv
<1>3. Phase(r) = "prefill" => ~ (Len(reqs[r].tokens) > Len(reqs[r].prompt))
  <2>1. Len(reqs[r].tokens) \in Nat /\ Len(reqs[r].prompt) \in Nat
    BY <1>1, LenProperties DEF IInv, TypeOK, Slots
  <2>2. Phase(r) = "prefill" => Len(reqs[r].tokens) < Len(reqs[r].prompt)
    BY <1>1 DEF IInv, RequestInv
  <2> QED BY <2>1, <2>2
<1> QED BY <1>1, <1>2, <1>3 DEF CountOf, Phase

\* The gauges of /metrics: active sequences are the registered less the retained ones, and
\* the cells accounted are those that llama.cpp holds, for a retained sequence and for one
\* that has decoded a generated token or is about to retire; for one in prefill they are
\* never more.
THEOREM GaugesAlwaysExact == Spec => []GaugesExact
<1>1. IInv /\ CacheInv /\ CountInv => GaugesExact
  <2> SUFFICES ASSUME IInv, CacheInv, CountInv PROVE GaugesExact
    OBVIOUS
  <2>1. retained_seq_ids = Registered \ OwnedIds
    BY DEF CacheInv, RetainedExact
  <2>2. OwnedIds \subseteq Registered
    BY OwnedFacts DEF OwnedIds, CacheInv
  <2>3. Registered = DOMAIN seq_cell_counts /\ Registered \subseteq SeqIds
    BY RegisteredPool DEF IInv
  <2>4. IsFiniteSet(Registered) /\ Cardinality(Registered) \in Nat
    BY <2>3, FiniteIds
  <2>5. Cardinality(Registered \ OwnedIds)
            = Cardinality(Registered) - Cardinality(Registered \cap OwnedIds)
    BY <2>4, FS_Difference
  <2>6. Registered \cap OwnedIds = OwnedIds
    BY <2>2
  <2>7. Cardinality(OwnedIds) = Cardinality(Owning)
    BY OwnersCount
  <2>8. Cardinality(OwnedIds) \in Nat
    BY <2>2, <2>3, FiniteIds
  <2>9. Cardinality(DOMAIN seq_cell_counts) - Cardinality(retained_seq_ids)
            = Cardinality(Owning)
    <3>1. PICK a, b, c : /\ a = Cardinality(Registered) /\ b = Cardinality(OwnedIds)
                         /\ c = Cardinality(retained_seq_ids)
      OBVIOUS
    <3>2. c = a - b /\ a \in Nat /\ b \in Nat
      BY <2>1, <2>4, <2>5, <2>6, <2>8, <3>1
    <3>3. a - c = b
      BY <3>2
    <3> QED BY <2>3, <2>7, <3>1, <3>3
  <2>10. /\ \A s \in retained_seq_ids : seq_cell_counts[s] = Len(kv[s])
         /\ PooledEmpty
    BY DEF CacheInv, RetainedCells, IInv
  <2>11. \A r \in Owning :
             LET counted == seq_cell_counts[reqs[r].seq]
                 held    == Len(kv[reqs[r].seq])
             IN  /\ Phase(r) = "prefill" => counted <= held
                 /\ Phase(r) = "retiring" \/ Len(reqs[r].tokens) > Len(reqs[r].prompt)
                        => counted = held
    BY CountsExact
  <2> QED BY <2>1, <2>9, <2>10, <2>11, Zenon DEF GaugesExact, OwnedIds
<1>2. Init => CountInv
  BY DEF Init, NoRequest, CountInv, CountOf
<1>3. IInv /\ CacheInv /\ CountInv /\ [Next]_vars => CountInv'
  BY CountNext
<1> QED BY <1>1, <1>2, <1>3, CacheInvariance, PTL DEF Spec

\* SequenceCapacityExhausted sends a request back to the queue only while another one is in
\* flight.  With --max-seq 2 this fails: the single id may be retained at the very node that
\* the request itself holds, which is then no eviction candidate.  It holds for every other
\* number of sequences: the ids then sit at two nodes at least, and only one is held.
THEOREM ExhaustedMeansShared ==
    max_sequences # 2 => (Spec => []ExhaustedOnlyWhenShared)
<1> SUFFICES ASSUME max_sequences # 2 PROVE Spec => []ExhaustedOnlyWhenShared
  OBVIOUS
<1>1. IInv /\ CacheInv => ExhaustedOnlyWhenShared
  <2> SUFFICES ASSUME IInv, CacheInv, NEW r \in Requests, Phase(r) = "inserted",
                      free_seq_ids = << >>, Candidates(tree) = {}, Owning = {}
               PROVE  FALSE
    BY DEF ExhaustedOnlyWhenShared
  <2>1. 1 \in SeqIds /\ 2 \in SeqIds
    <3>1. max_sequences > 1
      BY DEF CacheInv, Admitted
    <3> QED BY <3>1, SequencesAssumption DEF SeqIds
  <2>2. Registered = SeqIds
    <3>1. Range(free_seq_ids) = {}
      BY DEF Range
    <3> QED BY <3>1 DEF IInv, SeqIdConservation
  <2>3. retained_seq_ids = SeqIds
    BY <2>2 DEF CacheInv, RetainedExact, OwnedIds
  <2>4. ASSUME NEW p \in DOMAIN tree, NEW s \in tree[p].seq_ids
        PROVE  p = reqs[r].leaf
    <3>1. s \in tree[p].ready_seq_ids
      BY <2>4 DEF CacheInv, PendingOwned
    <3>2. p # Root
      BY <3>1 DEF CacheInv, RootBare
    <3>3. tree[p].ref_count # 0
      BY <2>4, <3>2 DEF Candidates
    <3>4. Cardinality(Holders(p)) # 0
      <4>1. tree[p].ref_count = Cardinality(Holders(p)) + 0
        BY <3>2 DEF IInv, RefCountExact
      <4>2. tree[p].ref_count \in Nat
        BY DEF IInv, TypeOK, Nodes
      <4> QED BY <3>3, <4>1, <4>2
    <3>5. PICK o \in Holding : reqs[o].leaf = p
      BY <3>4, FS_EmptySet DEF Holders
    <3>6. o \in Requests /\ Busy(o) /\ Busy(r)
      BY <3>5 DEF Holding, Owning, Busy
    <3>7. o = r
      BY <3>6 DEF IInv, RequestInv
    <3> QED BY <3>5, <3>7
  <2>5. PICK p \in DOMAIN tree : 1 \in tree[p].seq_ids
    BY <2>1, <2>2 DEF Registered
  <2>6. PICK q \in DOMAIN tree : 2 \in tree[q].seq_ids
    BY <2>1, <2>2 DEF Registered
  <2>7. p = q
    BY <2>4, <2>5, <2>6
  <2> QED BY <2>1, <2>3, <2>5, <2>6, <2>7 DEF CacheInv, OneRetained
<1> QED BY <1>1, CacheInvariance, PTL

-----------------------------------------------------------------------------
(* The abstract cache *)

\* The non-empty prefixes of a path.
Prefixes(p) == {Prefix(p, n) : n \in 1 .. Len(p)}

\* What the mapper has published, and what the abstract step may leave of it.
Published == UNION {Prefixes(p) : p \in Reusable}

KeepsOf(S) ==
    /\ Published' \subseteq S
    /\ \A tokens \in Published' : Prefixes(tokens) \subseteq Published'

\* A shorter path has fewer prefixes.
LEMMA PrefixesGrow ==
    ASSUME NEW p \in Seq(Token), NEW q \in Seq(Token), p \sqsubseteq q
    PROVE  Prefixes(p) \subseteq Prefixes(q)
<1> SUFFICES ASSUME NEW n \in 1 .. Len(p) PROVE Prefix(p, n) \in Prefixes(q)
  BY DEF Prefixes
<1>1. /\ Len(p) \in Nat /\ Len(q) \in Nat /\ Len(p) <= Len(q)
      /\ \A i \in 1 .. n : p[i] = q[i]
  BY LenProperties DEF \sqsubseteq
<1>2. n \in Nat /\ n <= Len(p) /\ n <= Len(q) /\ n \in 1 .. Len(q)
  BY <1>1
<1>3. Prefix(p, n) = Prefix(q, n)
  BY <1>1, <1>2, PrefixEqual
<1> QED BY <1>2, <1>3 DEF Prefixes

\* A prefix of a path is one of its prefixes' paths, and so are its own prefixes.
LEMMA PrefixesClosed ==
    ASSUME NEW q \in Seq(Token), NEW tokens \in Prefixes(q)
    PROVE  tokens \in Seq(Token) /\ Prefixes(tokens) \subseteq Prefixes(q)
<1>1. PICK n \in 1 .. Len(q) : tokens = Prefix(q, n)
  BY DEF Prefixes
<1>2. n \in 0 .. Len(q)
  BY LenProperties
<1>3. tokens \in Seq(Token) /\ tokens \sqsubseteq q
  BY <1>1, <1>2, PrefixFacts
<1> QED BY <1>3, PrefixesGrow

\* A step that makes no sequence but s ready, and s nowhere but on paths in S, keeps the cache.
LEMMA KeepsStep ==
    ASSUME TypeOK, TypeOK', ReadyCoversPath', UNCHANGED prefix_cache_enabled,
           NEW s, TreeStep(s), NEW S, Published \subseteq S,
           \A p \in DOMAIN tree' : s \in tree'[p].ready_seq_ids => Prefixes(p) \subseteq S
    PROVE  KeepsOf(S)
<1>1. ASSUME NEW p \in Reusable'
      PROVE  p \in DOMAIN tree' /\ p \in Seq(Token) /\ Prefixes(p) \subseteq S
  <2>1. /\ p \in DOMAIN tree' /\ tree'[p].ready_seq_ids # {} /\ prefix_cache_enabled
        /\ p \in Seq(Token)
    BY <1>1 DEF Reusable, TypeOK
  <2>2. CASE s \in tree'[p].ready_seq_ids
    BY <2>1, <2>2
  <2>3. CASE s \notin tree'[p].ready_seq_ids
    <3>1. PICK i : i \in tree'[p].ready_seq_ids /\ i # s
      BY <2>1, <2>3
    <3>2. tree'[p].seq_ids \ {s} # {}
      BY <2>1, <3>1 DEF ReadyCoversPath
    <3>3. PICK q \in DOMAIN tree : Inherits(p, q, s)
      BY <2>1, <3>2 DEF TreeStep
    <3>4. p \sqsubseteq q /\ i \in tree[q].ready_seq_ids /\ q \in Seq(Token)
      BY <3>1, <3>3 DEF Inherits, TypeOK
    <3>5. q \in Reusable
      BY <2>1, <3>3, <3>4 DEF Reusable
    <3>6. Prefixes(q) \subseteq S
      BY <3>5 DEF Published
    <3> QED BY <2>1, <3>4, <3>6, PrefixesGrow
  <2> QED BY <2>1, <2>2, <2>3
<1>2. Published' \subseteq S
  BY <1>1 DEF Published
<1>3. ASSUME NEW tokens \in Published' PROVE Prefixes(tokens) \subseteq Published'
  <2>1. PICK p \in Reusable' : tokens \in Prefixes(p)
    BY <1>3 DEF Published
  <2>2. Prefixes(tokens) \subseteq Prefixes(p)
    BY <1>1, <2>1, PrefixesClosed
  <2> QED BY <2>1, <2>2 DEF Published
<1> QED BY <1>2, <1>3 DEF KeepsOf

\* A step that makes nothing ready.
LEMMA KeepsQuiet ==
    ASSUME IInv, IInv', UNCHANGED prefix_cache_enabled, NEW s, TreeStep(s),
           \A p \in DOMAIN tree' : s \notin tree'[p].ready_seq_ids
    PROVE  KeepsOf(Published)
BY KeepsStep DEF IInv

\* What llama.cpp holds for a request.
Session(r) ==
    IF r \in Owning
    THEN [running |-> TRUE, prompt |-> reqs[r].prompt, tokens |-> kv[reqs[r].seq]]
    ELSE [running |-> FALSE, prompt |-> << >>, tokens |-> << >>]

\* The sessions that a step about r leaves alone.
LEMMA SessionsKept ==
    ASSUME IInv, NEW r \in Requests, OthersKept(r),
           \A o \in Owning \ {r} : kv'[reqs[o].seq] = kv[reqs[o].seq]
    PROVE  Attended' = [Attended EXCEPT ![r] = Session(r)']
<1>1. \A o \in Requests \ {r} : Session(o)' = Session(o)
  <2> SUFFICES ASSUME NEW o \in Requests \ {r} PROVE Session(o)' = Session(o)
    OBVIOUS
  <2>1. /\ o \in Owning' <=> o \in Owning
        /\ reqs'[o].prompt = reqs[o].prompt /\ reqs'[o].seq = reqs[o].seq
    BY DEF OthersKept, Owning, Phase
  <2>2. CASE o \in Owning
    BY <2>1, <2>2 DEF Session
  <2>3. CASE o \notin Owning
    BY <2>1, <2>3 DEF Session
  <2> QED BY <2>2, <2>3
<1>2. Attended = [o \in Requests |-> Session(o)]
  BY DEF Attended, Session
<1>3. Attended' = [o \in Requests |-> Session(o)']
  BY DEF Attended, Session
<1> HIDE DEF Session
<1> QED BY <1>1, <1>2, <1>3

-----------------------------------------------------------------------------
(* The steps of the abstract cache *)

\* The cache keeps all or some of what it has; no session changes.
LEMMA ForgetStep ==
    ASSUME KeepsOf(Published), Attended' = Attended
    PROVE  Cache!Next
<1>1. Cache!Forget
  BY DEF Cache!Forget, Cache!Keeps, Cache!Prefixes, KeepsOf, Published, Prefixes, Prefix
<1> QED BY <1>1 DEF Cache!Next

\* A session starts from a published prefix of its prompt.
LEMMA StartStep ==
    ASSUME NEW r \in Requests, NEW prompt \in Prompts, NEW n \in 0 .. Len(prompt),
           r \notin Owning, n > 0 => Prefix(prompt, n) \in Published,
           n < Len(prompt) \/ prompt = << >>,
           Attended' = [Attended EXCEPT ![r] = [running |-> TRUE, prompt |-> prompt,
                                                tokens |-> Prefix(prompt, n)]],
           KeepsOf(Published)
    PROVE  Cache!Next
<1>1. ~ Attended[r].running
  BY DEF Attended
<1>2. Cache!Start(r, prompt, n)
  BY <1>1 DEF Cache!Start, Cache!Keeps, Cache!Prefixes, KeepsOf, Published, Prefixes, Prefix
<1> QED BY <1>2 DEF Cache!Next

\* The record of a session with other tokens.
LEMMA SessionUpdate ==
    ASSUME NEW b, NEW prompt, NEW tokens, NEW more, NEW v,
           v = [running |-> b, prompt |-> prompt, tokens |-> tokens]
    PROVE  [v EXCEPT !.tokens = more] = [running |-> b, prompt |-> prompt, tokens |-> more]
OBVIOUS

\* A session computes k tokens of its prompt; all of it may be published once computed.
LEMMA ComputeStep ==
    ASSUME NEW r \in Owning, NEW k \in 1 .. Len(reqs[r].prompt), NEW n,
           n = Len(kv[reqs[r].seq]) + k, n <= Len(reqs[r].prompt),
           Attended' = [Attended EXCEPT ![r] = [running |-> TRUE, prompt |-> reqs[r].prompt,
                                                tokens |-> Prefix(reqs[r].prompt, n)]],
           \/ KeepsOf(Published)
           \/ n = Len(reqs[r].prompt) /\ KeepsOf(Published \cup Prefixes(reqs[r].prompt))
    PROVE  Cache!Next
<1>1. PICK prompt, tokens, more : /\ prompt = reqs[r].prompt /\ tokens = kv[reqs[r].seq]
                                  /\ more = Prefix(prompt, n)
  OBVIOUS
<1>2. r \in Requests
  BY DEF Owning
<1>3. Attended[r] = [running |-> TRUE, prompt |-> prompt, tokens |-> tokens]
  BY <1>1, <1>2 DEF Attended
<1>4. Attended[r].running /\ Attended[r].prompt = prompt /\ Attended[r].tokens = tokens
  BY <1>3
<1>5. Attended' = [Attended EXCEPT ![r].tokens = more]
  <2>1. Attended' = [Attended EXCEPT ![r] = [running |-> TRUE, prompt |-> prompt,
                                             tokens |-> more]]
    BY <1>1
  <2>2. PICK v : v = Attended[r]
    OBVIOUS
  <2>3. PICK b : b = TRUE
    OBVIOUS
  <2>4. [v EXCEPT !.tokens = more] = [running |-> b, prompt |-> prompt, tokens |-> more]
    <3>1. v = [running |-> b, prompt |-> prompt, tokens |-> tokens]
      BY <1>3, <2>2, <2>3
    <3> QED BY <3>1, SessionUpdate
  <2> QED BY <2>1, <2>2, <2>3, <2>4
<1>6. /\ Attended[r].running /\ Len(Attended[r].tokens) + k = n
      /\ Len(Attended[r].tokens) + k <= Len(Attended[r].prompt)
      /\ Attended' = [Attended EXCEPT ![r].tokens = SubSeq(Attended[r].prompt, 1, n)]
  BY <1>1, <1>4, <1>5 DEF Prefix
<1>7. Cache!ComputePrompt(r, k)
  <2>1. CASE n = Len(Attended[r].prompt)
    <3>1. KeepsOf(Published \cup Cache!Prefixes(Attended[r].prompt))
      BY <1>1, <1>4 DEF KeepsOf, Cache!Prefixes, Prefixes, Prefix
    <3> QED BY <1>6, <2>1, <3>1
            DEF Cache!ComputePrompt, Cache!Keeps, KeepsOf, Cache!Prefixes, Published, Prefixes,
                Prefix
  <2>2. CASE n # Len(Attended[r].prompt)
    <3>1. KeepsOf(Published)
      BY <1>1, <1>4, <2>2
    <3> QED BY <1>6, <2>2, <3>1
            DEF Cache!ComputePrompt, Cache!Keeps, KeepsOf, Cache!Prefixes, Published, Prefixes,
                Prefix
  <2> QED BY <2>1, <2>2
<1>8. k \in 1 .. Len(Attended[r].prompt)
  BY <1>1, <1>4
<1> QED BY <1>2, <1>7, <1>8 DEF Cache!Next

\* A session attends to one more token after its prompt.
LEMMA GenerateStep ==
    ASSUME NEW r \in Owning, NEW token \in Token,
           Len(kv[reqs[r].seq]) >= Len(reqs[r].prompt),
           Attended' = [Attended EXCEPT ![r] = [running |-> TRUE, prompt |-> reqs[r].prompt,
                                                tokens |-> Append(kv[reqs[r].seq], token)]],
           KeepsOf(Published)
    PROVE  Cache!Next
<1>1. PICK prompt, tokens, more : /\ prompt = reqs[r].prompt /\ tokens = kv[reqs[r].seq]
                                  /\ more = Append(tokens, token)
  OBVIOUS
<1>2. r \in Requests
  BY DEF Owning
<1>3. Attended[r] = [running |-> TRUE, prompt |-> prompt, tokens |-> tokens]
  BY <1>1, <1>2 DEF Attended
<1>4. Attended[r].running /\ Attended[r].prompt = prompt /\ Attended[r].tokens = tokens
  BY <1>3
<1>5. Attended' = [Attended EXCEPT ![r].tokens = more]
  <2>1. Attended' = [Attended EXCEPT ![r] = [running |-> TRUE, prompt |-> prompt,
                                             tokens |-> more]]
    BY <1>1
  <2>2. PICK v : v = Attended[r]
    OBVIOUS
  <2>3. PICK b : b = TRUE
    OBVIOUS
  <2>4. [v EXCEPT !.tokens = more] = [running |-> b, prompt |-> prompt, tokens |-> more]
    <3>1. v = [running |-> b, prompt |-> prompt, tokens |-> tokens]
      BY <1>3, <2>2, <2>3
    <3> QED BY <3>1, SessionUpdate
  <2> QED BY <2>1, <2>2, <2>3, <2>4
<1>6. Attended' = [Attended EXCEPT ![r].tokens = Append(@, token)]
  BY <1>1, <1>4, <1>5
<1>7. Cache!Keeps(Published)
  BY DEF Cache!Keeps, Cache!Prefixes, KeepsOf, Published, Prefixes, Prefix
<1>8. Cache!Generate(r, token)
  BY <1>1, <1>4, <1>6, <1>7
     DEF Cache!Generate, Cache!Keeps, Cache!Prefixes, Published, Prefixes, Prefix
<1> QED BY <1>2, <1>8 DEF Cache!Next

\* What a session attends to is published.
LEMMA PublishStep ==
    ASSUME NEW r \in Owning, Len(kv[reqs[r].seq]) > Len(reqs[r].prompt),
           Attended' = Attended, KeepsOf(Published \cup Prefixes(kv[reqs[r].seq]))
    PROVE  Cache!Next
<1>1. PICK prompt, tokens : /\ prompt = reqs[r].prompt /\ tokens = kv[reqs[r].seq]
  OBVIOUS
<1>2. r \in Requests
  BY DEF Owning
<1>3. Attended[r] = [running |-> TRUE, prompt |-> prompt, tokens |-> tokens]
  BY <1>1, <1>2 DEF Attended
<1>4. Attended[r].running /\ Attended[r].prompt = prompt /\ Attended[r].tokens = tokens
  BY <1>3
<1>5. Cache!Keeps(Published \cup Prefixes(tokens))
  BY <1>1 DEF Cache!Keeps, Cache!Prefixes, KeepsOf, Published, Prefixes, Prefix
<1>6. Cache!Publish(r)
  BY <1>1, <1>4, <1>5
     DEF Cache!Publish, Cache!Keeps, Cache!Prefixes, Published, Prefixes, Prefix
<1> QED BY <1>2, <1>6 DEF Cache!Next

\* A session ends.
LEMMA EndStep ==
    ASSUME NEW r \in Owning, KeepsOf(Published),
           Attended' = [Attended EXCEPT ![r] = [running |-> FALSE, prompt |-> << >>,
                                                tokens |-> << >>]]
    PROVE  Cache!Next
<1>1. r \in Requests
  BY DEF Owning
<1>2. Attended[r].running
  BY <1>1 DEF Attended
<1>3. Cache!End(r)
  BY <1>1, <1>2 DEF Cache!End, Cache!Idle, Cache!Keeps, Cache!Prefixes, KeepsOf, Published,
                    Prefixes, Prefix
<1> QED BY <1>1, <1>3 DEF Cache!Next

-----------------------------------------------------------------------------
(* Every step of the mapper *)

\* A step about a request that is not in flight changes no session.
LEMMA NotInFlight ==
    ASSUME IInv, NEW r \in Requests, OthersKept(r), r \notin Owning, r \notin Owning',
           \A o \in Owning : kv'[reqs[o].seq] = kv[reqs[o].seq]
    PROVE  Attended' = Attended
<1>1. Attended' = [Attended EXCEPT ![r] = Session(r)']
  BY SessionsKept
<1>2. PICK idle : idle = [running |-> FALSE, prompt |-> << >>, tokens |-> << >>]
  OBVIOUS
<1>3. Session(r)' = idle /\ Attended[r] = idle /\ DOMAIN Attended = Requests
      /\ Attended = [o \in Requests |-> Attended[o]]
  BY <1>2 DEF Session, Attended
<1> QED BY <1>1, <1>3

\* prepare_sequence before the id is allocated, and when there is none, only forgets.
LEMMA PrepareRefines ==
    ASSUME IInv, IInv', UNCHANGED prefix_cache_enabled, NEW r \in Requests,
           (BeginPrepare(r, reqs'[r].prompt) /\ reqs'[r].prompt \in Prompts)
               \/ Insert(r) \/ Exhausted(r)
    PROVE  Cache!Next
<1>1. /\ TreeStep(NoSeq) /\ OthersKept(r) /\ UNCHANGED kv
      /\ Phase(r) \in {"none", "pressure", "inserted"}
      /\ reqs'[r].phase \in {"none", "pressure", "inserted"}
  <2>1. CASE BeginPrepare(r, reqs'[r].prompt) /\ reqs'[r].prompt \in Prompts
    <3>1. PICK prompt \in Prompts : prompt = reqs'[r].prompt
      BY <2>1
    <3>2. BeginPrepare(r, prompt)
      BY <2>1, <3>1 DEF BeginPrepare
    <3>3. /\ OthersKept(r) /\ Phase(r) = "none" /\ reqs'[r].phase = "pressure"
          /\ tree' = tree /\ UNCHANGED kv
      BY <3>2, BeginPrepareEffect
    <3> QED BY <3>3, TreeStepSame DEF IInv
  <2>2. CASE Insert(r)
    BY <2>2, InsertFacts DEF InsertEffect
  <2>3. CASE Exhausted(r)
    BY <2>3, ExhaustedFacts
  <2> QED BY <2>1, <2>2, <2>3
<1>2. r \notin Owning /\ r \notin Owning'
  BY <1>1 DEF Owning, Phase
<1>3. Attended' = Attended
  BY <1>1, <1>2, NotInFlight
<1>4. \A p \in DOMAIN tree' : NoSeq \notin tree'[p].ready_seq_ids
  BY DEF IInv, TypeOK, Nodes, NoSeq, SeqIds
<1>5. KeepsOf(Published)
  BY <1>1, <1>4, KeepsQuiet
<1> QED BY <1>3, <1>5, ForgetStep

\* An eviction forgets, and takes no cell of a session.
LEMMA EvictRefines ==
    ASSUME IInv, IInv', UNCHANGED prefix_cache_enabled, evict_one, UNCHANGED reqs
    PROVE  Cache!Next
<1>1. PICK ids : EvictEffect(ids)
  BY EvictFacts
<1>2. \A o \in Owning : kv'[reqs[o].seq] = kv[reqs[o].seq]
  <2> SUFFICES ASSUME NEW o \in Owning PROVE kv'[reqs[o].seq] = kv[reqs[o].seq]
    OBVIOUS
  <2>1. reqs[o].seq \in OwnedIds /\ reqs[o].seq \in SeqIds
    BY DEF OwnedIds, IInv, OwnedRegistered, TypeOK, Nodes
  <2> QED BY <1>1, <2>1 DEF EvictEffect
<1>3. Owning' = Owning
  BY DEF Owning, Phase
<1>4. Attended' = Attended
  BY <1>2, <1>3 DEF Attended
<1>5. \A p \in DOMAIN tree' : NoSeq \notin tree'[p].ready_seq_ids
  BY DEF IInv, TypeOK, Nodes, NoSeq, SeqIds
<1>6. KeepsOf(Published)
  BY <1>1, <1>5, KeepsQuiet DEF EvictEffect
<1> QED BY <1>4, <1>6, ForgetStep

\* What the lookup takes over is a prefix of a published path.
LEMMA LookupPublished ==
    ASSUME IInv, NEW prompt \in Seq(Token), NEW m \in 0 .. Len(prompt),
           NEW hit \in Lookup(prompt, m), hit[2] > 0
    PROVE  Prefix(prompt, hit[2]) \in Published
<1> DEFINE cut   == Prefix(prompt, m)
           nodes == IF prefix_cache_enabled /\ m > 0 THEN CoveringNodes(tree, cut) ELSE {}
<1>1. nodes # {}
  <2>1. nodes = {} => hit = <<NoSeq, 0>>
    BY DEF Lookup
  <2> QED BY <2>1
<1>2. PICK p \in nodes : \E s \in FirstReady(tree[p]) :
          hit = <<s, BackOff(prompt, Least(m, CoveredLen(tree, p)))>>
  BY <1>1 DEF Lookup
<1>3. prefix_cache_enabled /\ p \in CoveringNodes(tree, cut)
  BY <1>2
<1>4. /\ p \in DOMAIN tree /\ tree[p].ready_seq_ids # {}
      /\ p \sqsubseteq cut \/ cut \sqsubseteq p
  BY <1>3 DEF CoveringNodes
<1>5. p \in Seq(Token) /\ tree[p].canonical_len \in Nat /\ p \in Reusable
  BY <1>3, <1>4 DEF IInv, TypeOK, Nodes, Reusable
<1>6. Len(p) \in Nat /\ Len(prompt) \in Nat /\ m \in Nat /\ m <= Len(prompt)
  BY <1>5, LenProperties
<1>7. PICK n \in Nat : n = Least(m, CoveredLen(tree, p)) /\ n <= m /\ n <= Len(p)
  BY <1>5, <1>6 DEF Least, CoveredLen
<1>8. PICK pos \in Nat : pos = hit[2] /\ pos <= n /\ pos > 0
  <2>1. hit[2] = BackOff(prompt, n)
    BY <1>2, <1>7
  <2> QED BY <1>6, <1>7, <2>1 DEF BackOff
<1>9. Len(cut) = m /\ \A i \in 1 .. m : cut[i] = prompt[i]
  BY PrefixFacts
<1> HIDE DEF cut
<1>10. \A i \in 1 .. pos : p[i] = prompt[i]
  <2>1. \A i \in 1 .. pos : i \in 1 .. Len(p) /\ i \in 1 .. m
    BY <1>6, <1>7, <1>8
  <2>2. \A i \in 1 .. pos : p[i] = cut[i]
    BY <1>4, <1>9, <2>1 DEF \sqsubseteq
  <2> QED BY <1>9, <2>1, <2>2
<1>11. pos <= Len(p) /\ pos <= Len(prompt) /\ pos \in 1 .. Len(p)
  BY <1>6, <1>7, <1>8
<1>12. Prefix(prompt, pos) = Prefix(p, pos)
  BY <1>5, <1>10, <1>11, PrefixEqual
<1> QED BY <1>5, <1>8, <1>11, <1>12 DEF Published, Prefixes

\* Registration starts a session from a published prefix.
LEMMA RegisterRefines ==
    ASSUME IInv, CacheInv, IInv', UNCHANGED prefix_cache_enabled, NEW r \in Requests,
           Register(r)
    PROVE  Cache!Next
<1>1. PICK new, pos : RegisterEffect(r, new, pos)
  BY RegisterEffects
<1>2. PICK prompt \in Prompts : prompt = reqs[r].prompt
  BY <1>1 DEF RegisterEffect, CacheInv, Admitted
<1>3. PICK m, hit : m = reqs[r].matched /\ hit \in Lookup(prompt, m) /\ pos = hit[2]
  BY <1>1, <1>2 DEF RegisterEffect
<1>4. /\ TreeStep(new) /\ OthersKept(r) /\ Phase(r) = "inserted"
      /\ new \in SeqIds /\ new \in Range(free_seq_ids)
      /\ prompt \in Seq(Token) /\ m \in 0 .. Len(prompt)
      /\ pos \in 0 .. Len(prompt) /\ (pos = Len(prompt) => prompt = << >>)
      /\ reqs'[r].phase = IF pos = Len(prompt) THEN "retiring" ELSE "prefill"
      /\ reqs'[r].prompt = prompt
      /\ reqs'[r].seq = new /\ reqs'[r].tokens = Prefix(prompt, pos)
      /\ \A i \in SeqIds \ {new} : kv'[i] = kv[i]
      /\ \A p \in DOMAIN tree' : /\ p \in DOMAIN tree
                                 /\ tree'[p].ready_seq_ids = tree[p].ready_seq_ids
  BY <1>1, <1>2, <1>3 DEF RegisterEffect
<1>5. r \notin Owning /\ r \in Owning'
  BY <1>4 DEF Owning, Phase
<1>6. new \notin Registered
  BY <1>4, RegisteredPool DEF IInv
<1>7. \A p \in DOMAIN tree' : new \notin tree'[p].ready_seq_ids
  BY <1>4, <1>6 DEF IInv, ReadyCoversPath, Registered
<1>8. KeepsOf(Published)
  BY <1>4, <1>7, KeepsQuiet
<1>9. \A o \in Owning \ {r} : kv'[reqs[o].seq] = kv[reqs[o].seq]
  <2> SUFFICES ASSUME NEW o \in Owning PROVE kv'[reqs[o].seq] = kv[reqs[o].seq]
    OBVIOUS
  <2>1. reqs[o].seq \in Registered /\ reqs[o].seq \in SeqIds
    BY OwnedFacts DEF CacheInv
  <2> QED BY <1>4, <1>6, <2>1
<1>10. Attended' = [Attended EXCEPT ![r] = Session(r)']
  BY <1>4, <1>9, SessionsKept
<1>11. kv'[new] = Prefix(prompt, pos)
  BY <1>4, <1>5 DEF IInv, RequestKvExact
<1>12. Session(r)' = [running |-> TRUE, prompt |-> prompt, tokens |-> Prefix(prompt, pos)]
  BY <1>4, <1>5, <1>11 DEF Session
<1>13. pos > 0 => Prefix(prompt, pos) \in Published
  BY <1>3, <1>4, LookupPublished
<1>14. pos < Len(prompt) \/ prompt = << >>
  BY <1>4, LenProperties
<1> QED BY <1>2, <1>4, <1>5, <1>8, <1>10, <1>12, <1>13, <1>14, StartStep

\* The sessions after a step of a request in flight.
LEMMA OwnSession ==
    ASSUME IInv, CacheInv, IInv', NEW r \in Requests, NEW s, OwnEffect(r, s)
    PROVE  /\ r \in Owning /\ kv[s] = reqs[r].tokens
           /\ Attended' = [Attended EXCEPT ![r] =
                  [running |-> TRUE, prompt |-> reqs[r].prompt, tokens |-> reqs'[r].tokens]]
           /\ kv'[s] = reqs'[r].tokens
<1>1. /\ r \in Owning /\ s = reqs[r].seq /\ OthersKept(r)
      /\ reqs'[r].seq = s /\ reqs'[r].prompt = reqs[r].prompt
      /\ reqs'[r].phase \in {"prefill", "active", "retiring"}
      /\ \A i \in SeqIds \ {s} : kv'[i] = kv[i]
  BY DEF OwnEffect
<1>2. r \in Owning'
  BY <1>1 DEF Owning, Phase
<1>3. kv[s] = reqs[r].tokens /\ kv'[s] = reqs'[r].tokens
  BY <1>1, <1>2 DEF IInv, RequestKvExact
<1>4. \A o \in Owning \ {r} : kv'[reqs[o].seq] = kv[reqs[o].seq]
  <2> SUFFICES ASSUME NEW o \in Owning \ {r} PROVE kv'[reqs[o].seq] = kv[reqs[o].seq]
    OBVIOUS
  <2>1. reqs[o].seq \in SeqIds /\ reqs[o].seq # s
    BY <1>1, OwnedFacts DEF CacheInv
  <2> QED BY <1>1, <2>1
<1>5. Attended' = [Attended EXCEPT ![r] = Session(r)']
  BY <1>1, <1>4, SessionsKept
<1>6. Session(r)' = [running |-> TRUE, prompt |-> reqs[r].prompt, tokens |-> reqs'[r].tokens]
  BY <1>1, <1>2, <1>3 DEF Session
<1> QED BY <1>1, <1>3, <1>5, <1>6

\* What a step makes ready is a path of the tokens that the sequence holds.
LEMMA KeepsOwn ==
    ASSUME IInv, IInv', UNCHANGED prefix_cache_enabled, NEW s \in SeqIds, TreeStep(s),
           NEW tokens \in Seq(Token), kv'[s] = tokens
    PROVE  KeepsOf(Published \cup Prefixes(tokens))
<1>1. \A p \in DOMAIN tree' : s \in tree'[p].ready_seq_ids => Prefixes(p) \subseteq Prefixes(tokens)
  <2> SUFFICES ASSUME NEW p \in DOMAIN tree', s \in tree'[p].ready_seq_ids
               PROVE  Prefixes(p) \subseteq Prefixes(tokens)
    OBVIOUS
  <2>1. p \in Seq(Token) /\ p \sqsubseteq tokens
    BY DEF IInv, TypeOK, ReadyCoversPath
  <2> QED BY <2>1, PrefixesGrow
<1>2. PICK S : S = Published \cup Prefixes(tokens)
  OBVIOUS
<1>3. KeepsOf(S)
  BY <1>1, <1>2, KeepsStep DEF IInv
<1> QED BY <1>2, <1>3 DEF KeepsOf

\* A decode of prompt tokens computes them, and publishes the prompt with the last one.
LEMMA DecodeRefines ==
    ASSUME IInv, CacheInv, IInv', UNCHANGED prefix_cache_enabled,
           NEW r \in Requests, NEW k \in 1 .. Len(reqs[r].prompt), DecodePrompt(r, k)
    PROVE  Cache!Next
<1>1. PICK prompt, s, n :
          /\ prompt = reqs[r].prompt /\ s = reqs[r].seq /\ n = Len(reqs[r].tokens) + k
          /\ prompt \in Seq(Token)
  BY DEF IInv, TypeOK, Slots
<1>2. /\ OwnEffect(r, s) /\ n <= Len(prompt) /\ reqs'[r].tokens = Prefix(prompt, n)
      /\ \/ n < Len(prompt) /\ tree' = tree
         \/ n = Len(prompt)
  BY <1>1, DecodeFacts
<1>3. /\ r \in Owning /\ kv[s] = reqs[r].tokens
      /\ Attended' = [Attended EXCEPT ![r] =
             [running |-> TRUE, prompt |-> prompt, tokens |-> Prefix(prompt, n)]]
      /\ kv'[s] = Prefix(prompt, n)
  BY <1>1, <1>2, OwnSession
<1>4. \/ KeepsOf(Published)
      \/ n = Len(prompt) /\ KeepsOf(Published \cup Prefixes(prompt))
  <2>1. CASE n < Len(prompt) /\ tree' = tree
    <3>1. TreeStep(NoSeq)
      BY <2>1, TreeStepSame DEF IInv
    <3>2. \A p \in DOMAIN tree' : NoSeq \notin tree'[p].ready_seq_ids
      BY DEF IInv, TypeOK, Nodes, NoSeq, SeqIds
    <3> QED BY <3>1, <3>2, KeepsQuiet
  <2>2. CASE n = Len(prompt)
    <3>1. Prefix(prompt, n) = prompt
      <4>1. Len(prompt) \in Nat /\ n \in 0 .. Len(prompt)
        BY <1>1, <2>2, LenProperties
      <4>2. /\ Prefix(prompt, n) \in Seq(Token) /\ Len(Prefix(prompt, n)) = n
            /\ \A i \in 1 .. n : Prefix(prompt, n)[i] = prompt[i]
        BY <1>1, <4>1, PrefixFacts
      <4> QED BY <1>1, <2>2, <4>2, SeqEqual
    <3>2. s \in SeqIds /\ TreeStep(s) /\ kv'[s] = prompt
      BY <1>1, <1>2, <1>3, <3>1, OwnedFacts DEF OwnEffect, CacheInv
    <3> QED BY <1>1, <2>2, <3>2, KeepsOwn
  <2> QED BY <1>2, <2>1, <2>2
<1>5. Len(kv[reqs[r].seq]) + k = n
  BY <1>1, <1>3
<1>6. \/ KeepsOf(Published)
      \/ n = Len(reqs[r].prompt) /\ KeepsOf(Published \cup Prefixes(reqs[r].prompt))
  BY <1>1, <1>4 DEF KeepsOf
<1> QED BY <1>1, <1>2, <1>3, <1>5, <1>6, ComputeStep

\* A decode of a generated token.
LEMMA GenerateRefines ==
    ASSUME IInv, CacheInv, IInv', UNCHANGED prefix_cache_enabled,
           NEW r \in Requests, NEW token \in Token, Generate(r, token)
    PROVE  Cache!Next
<1>1. PICK s, tokens : s = reqs[r].seq /\ tokens = reqs[r].tokens
  OBVIOUS
<1>2. /\ OwnEffect(r, s) /\ tree' = tree /\ Phase(r) = "active"
      /\ reqs'[r].tokens = Append(tokens, token)
  BY <1>1, GenerateFacts
<1>3. /\ r \in Owning /\ kv[s] = tokens
      /\ Attended' = [Attended EXCEPT ![r] =
             [running |-> TRUE, prompt |-> reqs[r].prompt, tokens |-> Append(tokens, token)]]
  BY <1>1, <1>2, OwnSession
<1>4. Len(tokens) >= Len(reqs[r].prompt)
  <2>1. reqs[r].prompt \sqsubseteq tokens
    BY <1>1, <1>2 DEF IInv, RequestInv, Holding
  <2>2. Len(tokens) \in Nat /\ Len(reqs[r].prompt) \in Nat
    BY <1>1, LenProperties DEF IInv, TypeOK, Slots
  <2> QED BY <2>1, <2>2 DEF \sqsubseteq
<1>5. KeepsOf(Published)
  <2>1. TreeStep(NoSeq)
    BY <1>2, TreeStepSame DEF IInv
  <2>2. \A p \in DOMAIN tree' : NoSeq \notin tree'[p].ready_seq_ids
    BY DEF IInv, TypeOK, Nodes, NoSeq, SeqIds
  <2> QED BY <2>1, <2>2, KeepsQuiet
<1>6. kv[reqs[r].seq] = tokens
  BY <1>1, <1>3
<1> QED BY <1>3, <1>4, <1>5, <1>6, GenerateStep

\* Retirement publishes what the request attended to, if the mapper extends the sequence.
LEMMA RetireRefines ==
    ASSUME IInv, CacheInv, IInv', UNCHANGED prefix_cache_enabled,
           NEW r \in Requests, Retire(r)
    PROVE  Cache!Next
<1>1. PICK s, tokens : /\ s = reqs[r].seq /\ tokens = reqs[r].tokens
                       /\ tokens \in Seq(Token)
  BY DEF IInv, TypeOK, Slots
<1>2. /\ OwnEffect(r, s) /\ reqs'[r].tokens = tokens
      /\ Len(tokens) > Len(reqs[r].prompt)
  BY <1>1, RetireFacts
<1>3. /\ r \in Owning /\ kv[s] = tokens /\ kv'[s] = tokens
      /\ Attended' = [Attended EXCEPT ![r] =
             [running |-> TRUE, prompt |-> reqs[r].prompt, tokens |-> tokens]]
  BY <1>1, <1>2, OwnSession
<1>4. Attended' = Attended
  <2>1. PICK v : v = [running |-> TRUE, prompt |-> reqs[r].prompt, tokens |-> tokens]
    OBVIOUS
  <2>2. Attended[r] = v /\ Attended = [o \in Requests |-> Attended[o]]
    BY <1>1, <1>3, <2>1 DEF Attended
  <2> QED BY <1>3, <2>1, <2>2
<1>5. s \in SeqIds /\ TreeStep(s)
  BY <1>1, <1>2, <1>3, OwnedFacts DEF OwnEffect, CacheInv
<1>6. KeepsOf(Published \cup Prefixes(tokens))
  BY <1>1, <1>3, <1>5, KeepsOwn
<1>7. kv[reqs[r].seq] = tokens /\ KeepsOf(Published \cup Prefixes(kv[reqs[r].seq]))
  BY <1>1, <1>3, <1>6 DEF KeepsOf
<1> QED BY <1>2, <1>3, <1>4, <1>7, PublishStep

\* The end of a request ends its session.
LEMMA ReleaseRefines ==
    ASSUME IInv, CacheInv, IInv', UNCHANGED prefix_cache_enabled,
           NEW r \in Owning, Busy(r) \/ Quiet, ReleaseAll(r)
    PROVE  Cache!Next
<1>1. PICK s : s = reqs[r].seq
  OBVIOUS
<1>2. /\ TreeStep(NoSeq) /\ OthersKept(r) /\ Owning' = Owning \ {r}
      /\ \A i \in SeqIds \ {s} : kv'[i] = kv[i]
  BY <1>1, ReleaseFacts DEF ReleaseEffect
<1>3. r \in Requests /\ r \notin Owning'
  BY <1>2 DEF Owning
<1>4. \A o \in Owning \ {r} : kv'[reqs[o].seq] = kv[reqs[o].seq]
  <2> SUFFICES ASSUME NEW o \in Owning \ {r} PROVE kv'[reqs[o].seq] = kv[reqs[o].seq]
    OBVIOUS
  <2>1. reqs[o].seq \in SeqIds /\ reqs[o].seq # s
    BY <1>1, OwnedFacts DEF CacheInv
  <2> QED BY <1>2, <2>1
<1>5. Attended' = [Attended EXCEPT ![r] = Session(r)']
  BY <1>2, <1>3, <1>4, SessionsKept
<1>6. Session(r)' = [running |-> FALSE, prompt |-> << >>, tokens |-> << >>]
  BY <1>3 DEF Session
<1>7. \A p \in DOMAIN tree' : NoSeq \notin tree'[p].ready_seq_ids
  BY DEF IInv, TypeOK, Nodes, NoSeq, SeqIds
<1>8. KeepsOf(Published)
  BY <1>2, <1>7, KeepsQuiet
<1> QED BY <1>5, <1>6, <1>8, EndStep

-----------------------------------------------------------------------------
(* The refinement *)

\* The initial state of the mapper is that of the cache.
LEMMA InitRefines == Init => Cache!Init
<1> SUFFICES ASSUME Init PROVE Cache!Init
  OBVIOUS
<1>1. \A p \in DOMAIN tree : tree[p].ready_seq_ids = {}
  BY DEF Init, EmptyTree, NewNode
<1>2. Reusable = {}
  BY <1>1 DEF Reusable
<1>3. Owning = {}
  BY DEF Init, Owning, Phase, NoRequest
<1>4. Attended = [r \in Requests |-> Cache!Idle]
  BY <1>3 DEF Attended, Cache!Idle
<1> QED BY <1>2, <1>4 DEF Cache!Init

\* Every step of the mapper is a step of the cache or leaves it alone.
LEMMA NextRefines ==
    IInv /\ CacheInv /\ [Next]_vars
        => [Cache!Next]_<<UNION {{Prefix(p, n) : n \in 1 .. Len(p)} : p \in Reusable}, Attended>>
<1> SUFFICES ASSUME IInv, CacheInv, [Next]_vars
             PROVE  Cache!Next \/ UNCHANGED <<Published, Attended>>
  BY DEF Published, Prefixes
<1>1. IInv'
  BY NextInv
<1>2. CASE Next
  <2>1. UNCHANGED prefix_cache_enabled
    BY <1>2 DEF Next
  <2>2. ASSUME NEW r \in Requests, NEW prompt \in Prompts, BeginPrepare(r, prompt)
        PROVE  Cache!Next
    <3>1. reqs'[r].prompt = prompt
      BY <2>2, BeginPrepareEffect
    <3>2. BeginPrepare(r, reqs'[r].prompt)
      BY <2>2, <3>1 DEF BeginPrepare
    <3> QED BY <1>1, <2>1, <3>1, <3>2, PrepareRefines
  <2>3. ASSUME NEW r \in Requests, EvictPressure(r) \/ AllocateEvict(r) PROVE Cache!Next
    <3>1. evict_one /\ UNCHANGED reqs
      BY <2>3 DEF EvictPressure, AllocateEvict
    <3> QED BY <1>1, <2>1, <3>1, EvictRefines
  <2>4. ASSUME NEW r \in Requests, Insert(r) \/ Exhausted(r) PROVE Cache!Next
    BY <1>1, <2>1, <2>4, PrepareRefines
  <2>5. ASSUME NEW r \in Requests, Register(r) PROVE Cache!Next
    BY <1>1, <2>1, <2>5, RegisterRefines
  <2>6. ASSUME NEW r \in Requests, NEW k \in 1 .. Len(reqs[r].prompt), DecodePrompt(r, k)
        PROVE  Cache!Next
    BY <1>1, <2>1, <2>6, DecodeRefines
  <2>7. ASSUME NEW r \in Requests, NEW token \in Token, Generate(r, token) PROVE Cache!Next
    BY <1>1, <2>1, <2>7, GenerateRefines
  <2>8. ASSUME NEW r \in Requests, Retire(r) PROVE Cache!Next
    BY <1>1, <2>1, <2>8, RetireRefines
  <2>9. ASSUME NEW r \in Requests, FinishRetire(r) \/ Abandon(r) PROVE Cache!Next
    <3>1. r \in Owning /\ (Busy(r) \/ Quiet) /\ ReleaseAll(r)
      BY <2>9 DEF FinishRetire, Abandon, Owning, Busy
    <3> QED BY <1>1, <2>1, <3>1, ReleaseRefines
  <2>10. ASSUME EvictIdle PROVE Cache!Next
    <3>1. evict_one /\ UNCHANGED reqs
      BY <2>10 DEF EvictIdle
    <3> QED BY <1>1, <2>1, <3>1, EvictRefines
  <2> QED
    BY <1>2, <2>2, <2>3, <2>4, <2>5, <2>6, <2>7, <2>8, <2>9, <2>10 DEF Next
<1>3. CASE UNCHANGED vars
  <2>1. UNCHANGED Published
    BY <1>3 DEF vars, Published, Reusable
  <2>2. UNCHANGED Attended
    BY <1>3 DEF vars, Attended, Owning, Phase
  <2> QED BY <2>1, <2>2
<1> QED BY <1>2, <1>3

\* kv_mapper.cpp and radix_tree.cpp implement the abstract prefix cache, whatever the
\* vocabulary, the prompts, the number of sequences and of concurrent requests: a request
\* attends to its own tokens only, takes over nothing that was not published, computes a
\* token of its prompt itself and publishes nothing before the whole prompt is computed.
THEOREM MapperImplementsCache == Spec => ImplementsPrefixCache
<1>1. Init => Cache!Init
  BY InitRefines
<1>2. IInv /\ CacheInv /\ [Next]_vars
          => [Cache!Next]_<<UNION {{Prefix(p, n) : n \in 1 .. Len(p)} : p \in Reusable}, Attended>>
  BY NextRefines
<1>3. Spec => [](IInv /\ CacheInv)
  BY CacheInvariance
<1> QED BY <1>1, <1>2, <1>3, PTL DEF Spec, ImplementsPrefixCache, Cache!Spec

-----------------------------------------------------------------------------
(* The calls of the tree *)

\* A handle of RadixIndex, by its fields.
Held(phase, tokens, node, matched, seq, owner) ==
    [phase |-> phase, tokens |-> tokens, node |-> node, matched |-> matched,
     seq |-> seq, owner |-> owner]

\* The changes that the calls make to a handle.
Staged(h, phase) == [h EXCEPT !.phase = phase]
Repointed(h, node, owner) == [h EXCEPT !.node = node, !.owner = owner]
Assigned(h, phase, seq, owner) == [h EXCEPT !.phase = phase, !.seq = seq, !.owner = owner]
Prolonged(h, phase, tokens, owner) ==
    [h EXCEPT !.phase = phase, !.tokens = tokens, !.owner = owner]
Placed(h, phase, tokens, node, matched) ==
    [h EXCEPT !.phase = phase, !.tokens = tokens, !.node = node, !.matched = matched]

\* What they make of its fields.
LEMMA HeldExcept ==
    ASSUME NEW phase, NEW tokens, NEW node, NEW matched, NEW seq, NEW owner,
           NEW h, h = Held(phase, tokens, node, matched, seq, owner)
    PROVE  /\ \A i : Staged(h, i) = Held(i, tokens, node, matched, seq, owner)
           /\ \A i, j : Repointed(h, i, j) = Held(phase, tokens, i, matched, seq, j)
           /\ \A i, j, k : Assigned(h, i, j, k) = Held(i, tokens, node, matched, j, k)
           /\ \A i, j, k : Prolonged(h, i, j, k) = Held(i, j, node, matched, seq, k)
           /\ \A i, j, k, l : Placed(h, i, j, k, l) = Held(i, j, k, l, seq, owner)
<1> DEFINE D == {"phase", "tokens", "node", "matched", "seq", "owner"}
<1>1. DOMAIN h = D
  BY DEF Held
<1>2. ASSUME NEW i
      PROVE  Staged(h, i) = Held(i, tokens, node, matched, seq, owner)
  <2>1. Staged(h, i) = [f \in D |-> CASE f = "phase" -> i [] OTHER -> h[f]]
    BY <1>1 DEF Staged
  <2> QED BY <2>1 DEF Held
<1>3. ASSUME NEW i, NEW j
      PROVE  Repointed(h, i, j) = Held(phase, tokens, i, matched, seq, j)
  <2>1. Repointed(h, i, j)
          = [f \in D |-> CASE f = "node" -> i [] f = "owner" -> j [] OTHER -> h[f]]
    BY <1>1 DEF Repointed
  <2> QED BY <2>1 DEF Held
<1>4. ASSUME NEW i, NEW j, NEW k
      PROVE  Assigned(h, i, j, k) = Held(i, tokens, node, matched, j, k)
  <2>1. Assigned(h, i, j, k)
          = [f \in D |-> CASE f = "phase" -> i [] f = "seq" -> j [] f = "owner" -> k
                          [] OTHER -> h[f]]
    BY <1>1 DEF Assigned
  <2> QED BY <2>1 DEF Held
<1>5. ASSUME NEW i, NEW j, NEW k
      PROVE  Prolonged(h, i, j, k) = Held(i, j, node, matched, seq, k)
  <2>1. Prolonged(h, i, j, k)
          = [f \in D |-> CASE f = "phase" -> i [] f = "tokens" -> j [] f = "owner" -> k
                          [] OTHER -> h[f]]
    BY <1>1 DEF Prolonged
  <2> QED BY <2>1 DEF Held
<1>6. ASSUME NEW i, NEW j, NEW k, NEW l
      PROVE  Placed(h, i, j, k, l) = Held(i, j, k, l, seq, owner)
  <2>1. Placed(h, i, j, k, l)
          = [f \in D |-> CASE f = "phase" -> i [] f = "tokens" -> j [] f = "node" -> k
                          [] f = "matched" -> l [] OTHER -> h[f]]
    BY <1>1 DEF Placed
  <2> QED BY <2>1 DEF Held
<1> QED BY <1>2, <1>3, <1>4, <1>5, <1>6

\* The handle of a slot, by its phase.
LEMMA HandleFacts ==
    ASSUME NEW q
    PROVE  /\ q.phase \in {"none", "pressure"} => Handle(q) = Held("none", << >>, Root, 0, 0, Root)
           /\ q.phase = "inserted" =>
                  Handle(q) = Held("inserted", q.prompt, q.leaf, q.matched, 0, Root)
           /\ q.phase = "prefill" =>
                  Handle(q) = Held("pending", q.prompt, q.leaf, q.matched, q.seq, q.node)
           /\ q.phase = "active" =>
                  Handle(q) = Held("ready", q.prompt, q.leaf, q.matched, q.seq, q.node)
           /\ q.phase = "retiring" /\ q.node # q.leaf =>
                  Handle(q) = Held("retiring", q.tokens, q.leaf, q.matched, q.seq, q.node)
           /\ q.phase = "retiring" /\ q.node = q.leaf =>
                  Handle(q) = Held(IF q.prompt = << >> THEN "pending" ELSE "ready",
                                   q.prompt, q.leaf, q.matched, q.seq, q.node)
<1>1. CASE q.phase \in {"none", "pressure"}
  BY <1>1 DEF Handle, Held
<1>2. CASE q.phase = "inserted"
  BY <1>2 DEF Handle, Held
<1>3. CASE q.phase = "prefill"
  BY <1>3 DEF Handle, Held
<1>4. CASE q.phase = "active"
  BY <1>4 DEF Handle, Held
<1>5. CASE q.phase = "retiring" /\ q.node # q.leaf
  BY <1>5 DEF Handle, Held
<1>6. CASE q.phase = "retiring" /\ q.node = q.leaf
  BY <1>6 DEF Handle, Held
<1> QED BY <1>1, <1>2, <1>3, <1>4, <1>5, <1>6

\* How far a request is, in the words of RadixIndex, and whether the worker is busy with it.
LEMMA StageFacts ==
    ASSUME TypeOK, NEW r \in Requests
    PROVE  /\ Handles[r] = Handle(reqs[r])
           /\ Handles[r].phase \in {"inserted", "retiring", "released"} => Busy(r)
           /\ Handles[r].phase \in {"retiring", "released"} => Phase(r) = "retiring"
<1>1. Handles[r] = Handle(reqs[r])
  BY DEF Handles
<1>2. reqs[r].phase \in {"none", "pressure", "inserted", "prefill", "active", "retiring"}
  BY DEF TypeOK, Slots
<1>3. CASE reqs[r].phase \in {"none", "pressure"}
  BY <1>1, <1>3, HandleFacts DEF Held
<1>4. CASE reqs[r].phase = "inserted"
  BY <1>1, <1>4, HandleFacts DEF Held, Busy, Phase
<1>5. CASE reqs[r].phase = "prefill"
  BY <1>1, <1>5, HandleFacts DEF Held
<1>6. CASE reqs[r].phase = "active"
  BY <1>1, <1>6, HandleFacts DEF Held
<1>7. CASE reqs[r].phase = "retiring"
  BY <1>1, <1>7 DEF Busy, Phase
<1> QED BY <1>1, <1>2, <1>3, <1>4, <1>5, <1>6, <1>7

\* Before a chain of calls no request is inside one.
LEMMA QuietCalls ==
    ASSUME IInv, Quiet \/ \E r \in Requests : Phase(r) = "pressure"
    PROVE  Index!Quiet
<1> SUFFICES ASSUME NEW o \in Requests, Handles[o].phase \in {"inserted", "retiring", "released"}
             PROVE  FALSE
  BY DEF Index!Quiet, Index!Phases
<1>1. Busy(o)
  BY StageFacts DEF IInv
<1>2. PICK r \in Requests : Phase(r) = "pressure"
  BY <1>1 DEF Quiet
<1>3. o = r
  BY <1>1, <1>2 DEF IInv, RequestInv, Busy
<1>4. Handles[o] = Held("none", << >>, Root, 0, 0, Root)
  BY <1>2, <1>3, HandleFacts DEF Handles, Phase
<1> QED BY <1>4 DEF Held

\* While a request is inside a chain no other retires.
LEMMA NoneRetires ==
    ASSUME IInv, Quiet \/ \E r \in Requests : Phase(r) \in {"pressure", "inserted"}
    PROVE  Index!Phases({"retiring", "released"}) = {}
<1> SUFFICES ASSUME NEW o \in Requests, Phase(o) = "retiring" PROVE FALSE
  BY StageFacts DEF Index!Phases, IInv
<1>1. Busy(o)
  BY DEF Busy
<1>2. PICK r \in Requests : Phase(r) \in {"pressure", "inserted"}
  BY <1>1 DEF Quiet
<1> QED BY <1>1, <1>2 DEF IInv, RequestInv, Busy

\* The tree of RadixIndex is the tree of this module.
LEMMA SameTree ==
    ASSUME NEW t, NEW p, NEW q, NEW x, NEW s, NEW n, NEW tokens
    PROVE  /\ Index!Root = Root /\ Index!EmptyTree = EmptyTree
           /\ Index!Prefix(tokens, n) = Prefix(tokens, n)
           /\ Index!Follow(p, x, q) = Follow(p, x, q)
           /\ Index!Matches(t, tokens, n) <=> Matches(t, tokens, n)
           /\ Index!EdgeNode(t, q, x) <=> EdgeNode(t, q, x)
           /\ Index!release(t, p) = release(t, p)
           /\ Index!evict(t, p) = evict(t, p)
           /\ Index!find_eviction_candidates(t) = find_eviction_candidates(t)
           /\ Index!register_seq_id(t, p, s, n) = register_seq_id(t, p, s, n)
           /\ Index!mark_seq_id_ready(t, p, s) = mark_seq_id_ready(t, p, s)
           /\ Index!insert(t, tokens, x, q, n) = insert(t, tokens, x, q, n)
           /\ Index!extend_seq_id(t, p, s, tokens, x, q, n)
                = extend_seq_id(t, p, s, tokens, x, q, n)
           /\ \A b \in BOOLEAN : Index!KeepsSeq(q, s, b) <=> KeepsSeq(q, s, b)
           /\ Index!WithoutSeq(q, s) = WithoutSeq(q, s)
<1>1. /\ Index!Root = Root /\ Index!EmptyTree = EmptyTree
      /\ Index!Prefix(tokens, n) = Prefix(tokens, n)
      /\ Index!Follow(p, x, q) = Follow(p, x, q)
  BY DEF Index!Root, Root, Index!EmptyTree, EmptyTree, Index!NewNode, NewNode,
         Index!Prefix, Prefix, Index!Follow, Follow
<1>2. Index!Matches(t, tokens, n) <=> Matches(t, tokens, n)
  BY DEF Index!Matches, Matches, Index!Prefix, Prefix, Index!\sqsubseteq, \sqsubseteq
<1>3. Index!EdgeNode(t, q, x) <=> EdgeNode(t, q, x)
  BY DEF Index!EdgeNode, EdgeNode, Index!\sqsubseteq, \sqsubseteq
<1>4. \A u : Index!prune_empty_leaves(u, p) = prune_empty_leaves(u, p)
  BY DEF Index!prune_empty_leaves, prune_empty_leaves, Index!Prunable, Prunable,
         Index!Dead, Dead, Index!Root, Root, Index!\sqsubseteq, \sqsubseteq
<1>5. Index!release(t, p) = release(t, p) /\ Index!evict(t, p) = evict(t, p)
  BY <1>4 DEF Index!release, release, Index!evict, evict
<1>6. Index!find_eviction_candidates(t) = find_eviction_candidates(t)
  BY DEF Index!find_eviction_candidates, find_eviction_candidates, Index!Candidates, Candidates,
         Index!Root, Root
<1>7. /\ Index!register_seq_id(t, p, s, n) = register_seq_id(t, p, s, n)
      /\ Index!mark_seq_id_ready(t, p, s) = mark_seq_id_ready(t, p, s)
  BY DEF Index!register_seq_id, register_seq_id, Index!WithSeq, WithSeq,
         Index!mark_seq_id_ready, mark_seq_id_ready
<1>8. /\ Index!split_node(t, x, q) = split_node(t, x, q)
      /\ \A u : Index!NodeAt(u, tokens, n) = NodeAt(u, tokens, n)
  BY DEF Index!split_node, split_node, Index!NodeAt, NodeAt, Index!NewNode, NewNode
<1>9. Index!insert(t, tokens, x, q, n) = insert(t, tokens, x, q, n)
  BY <1>8 DEF Index!insert, insert
<1>10. \A u : Index!WithoutSeq(u, s) = WithoutSeq(u, s)
  BY DEF Index!WithoutSeq, WithoutSeq
<1>11. \A u : Index!WithReadySeq(u, s, Len(tokens), n) = WithReadySeq(u, s, Len(tokens), n)
  BY DEF Index!WithReadySeq, WithReadySeq
<1>12. Index!extend_seq_id(t, p, s, tokens, x, q, n) = extend_seq_id(t, p, s, tokens, x, q, n)
  <2>1. PICK u : u = split_node(t, x, q)
    OBVIOUS
  <2>2. Index!NodeAt(u, tokens, n) = NodeAt(u, tokens, n)
    BY <1>8
  <2>3. Index!MoveSeq(u, p, s, tokens, n) = MoveSeq(u, p, s, tokens, n)
    BY <1>10, <1>11 DEF Index!MoveSeq, MoveSeq, Index!NodeAt, NodeAt, Index!NewNode, NewNode
  <2> QED BY <1>8, <2>1, <2>3 DEF Index!extend_seq_id, extend_seq_id
<1>13. \A b \in BOOLEAN : Index!KeepsSeq(q, s, b) <=> KeepsSeq(q, s, b)
  <2>1. \A S : Index!Cardinality(S) = Cardinality(S)
    BY Zenon DEF Cardinality, Index!Cardinality
  <2> QED BY <2>1 DEF Index!KeepsSeq, KeepsSeq
<1> QED BY <1>1, <1>2, <1>3, <1>5, <1>6, <1>7, <1>9, <1>10, <1>12, <1>13

-----------------------------------------------------------------------------
(* One call per action *)

\* prepare_all and the decoding of a generated token do not call the tree, and neither does
\* a decode that leaves some of the prompt.
LEMMA NoCall ==
    ASSUME IInv, NEW r \in Requests, UNCHANGED <<tree, tick>>,
           Handle(reqs'[r]) = Handle(reqs[r]), \A o \in Requests \ {r} : reqs'[o] = reqs[o]
    PROVE  UNCHANGED <<tree, tick, Handles>>
<1>1. \A o \in Requests : Handle(reqs'[o]) = Handle(reqs[o])
  OBVIOUS
<1> QED BY <1>1 DEF Handles

\* A step that gives the slot r the value v.
LEMMA HandlesStep ==
    ASSUME IInv, NEW r \in Requests, NEW v, reqs' = [reqs EXCEPT ![r] = v]
    PROVE  Handles' = [Handles EXCEPT ![r] = Handle(v)]
<1>1. /\ DOMAIN reqs = Requests /\ reqs'[r] = v
      /\ \A o \in Requests \ {r} : reqs'[o] = reqs[o]
  BY DEF IInv, TypeOK
<1> QED BY <1>1 DEF Handles

\* A slot that is given back.
LEMMA HandlesEnd ==
    ASSUME IInv, NEW r \in Requests, reqs' = [reqs EXCEPT ![r] = NoRequest]
    PROVE  Handles' = [Handles EXCEPT ![r] = Index!NoHandle]
<1>1. NoRequest.phase = "none"
  BY DEF NoRequest
<1>2. Handle(NoRequest) = Held("none", << >>, Root, 0, 0, Root)
  BY <1>1, HandleFacts
<1>3. Handle(NoRequest) = Index!NoHandle
  BY <1>2 DEF Held, Index!NoHandle, Index!Root, Root
<1> QED BY <1>3, HandlesStep

LEMMA BeginPrepareCalls ==
    ASSUME IInv, NEW r \in Requests, NEW prompt \in Prompts, BeginPrepare(r, prompt)
    PROVE  UNCHANGED <<tree, tick, Handles>>
<1>1. PICK v : v = [NoRequest EXCEPT !.phase = "pressure", !.prompt = prompt]
  OBVIOUS
<1>2. /\ reqs' = [reqs EXCEPT ![r] = v] /\ reqs[r].phase = "none"
      /\ UNCHANGED <<tree, tick>>
  BY <1>1 DEF BeginPrepare, Phase
<1>3. v.phase = "pressure"
  BY <1>1 DEF NoRequest
<1>4. reqs'[r] = v /\ \A o \in Requests \ {r} : reqs'[o] = reqs[o]
  BY <1>2 DEF IInv, TypeOK
<1>5. Handle(v) = Held("none", << >>, Root, 0, 0, Root)
  BY <1>3, HandleFacts
<1>6. Handle(reqs[r]) = Held("none", << >>, Root, 0, 0, Root)
  BY <1>2, HandleFacts
<1> QED BY <1>2, <1>4, <1>5, <1>6, NoCall

LEMMA GenerateCalls ==
    ASSUME IInv, NEW r \in Requests, NEW token \in Token, Generate(r, token)
    PROVE  UNCHANGED <<tree, tick, Handles>>
<1>1. PICK T : T = Append(reqs[r].tokens, token)
  OBVIOUS
<1>2. PICK v : v = [reqs[r] EXCEPT !.tokens = T]
  OBVIOUS
<1>3. /\ reqs' = [reqs EXCEPT ![r] = v] /\ reqs[r].phase = "active"
      /\ UNCHANGED <<tree, tick>>
  BY <1>1, <1>2 DEF Generate, Phase
<1>4. reqs'[r] = v /\ \A o \in Requests \ {r} : reqs'[o] = reqs[o]
  BY <1>3 DEF IInv, TypeOK
<1>5. /\ v.phase = "active" /\ v.prompt = reqs[r].prompt /\ v.leaf = reqs[r].leaf
      /\ v.matched = reqs[r].matched /\ v.seq = reqs[r].seq /\ v.node = reqs[r].node
  BY <1>2, <1>3 DEF IInv, TypeOK, Slots
<1>6. Handle(v) = Handle(reqs[r])
  BY <1>3, <1>5, HandleFacts
<1> QED BY <1>3, <1>4, <1>6, NoCall

\* evict_one_locked is a call of evict.
LEMMA EvictCalls ==
    ASSUME IInv, evict_one, UNCHANGED <<tick, reqs>>,
           Quiet \/ \E r \in Requests : Phase(r) \in {"pressure", "inserted"}
    PROVE  Index!Evict
<1>1. PICK p \in find_eviction_candidates(tree) : tree' = evict(tree, p)
  BY Zenon DEF evict_one
<1>2. p \in Index!find_eviction_candidates(tree) /\ tree' = Index!evict(tree, p)
  BY <1>1, SameTree
<1>3. Index!Phases({"retiring", "released"}) = {}
  BY NoneRetires
<1>4. Handles' = Handles
  BY DEF Handles
<1> QED BY <1>2, <1>3, <1>4 DEF Index!Evict

\* A request without an id gives its reference back.
LEMMA ExhaustedCalls ==
    ASSUME IInv, NEW r \in Requests, Exhausted(r)
    PROVE  Index!Release(r)
<1>1. /\ reqs[r].phase = "inserted" /\ tree' = release(tree, reqs[r].leaf)
      /\ reqs' = [reqs EXCEPT ![r] = NoRequest] /\ UNCHANGED tick
  BY DEF Exhausted, Phase
<1>2. Handles[r] = Held("inserted", reqs[r].prompt, reqs[r].leaf, reqs[r].matched, 0, Root)
  BY <1>1, HandleFacts DEF Handles
<1>3. Handles[r].phase = "inserted" /\ Handles[r].node = reqs[r].leaf
  BY <1>2 DEF Held
<1>4. Handles' = [Handles EXCEPT ![r] = Index!NoHandle]
  BY <1>1, HandlesEnd
<1>5. tree' = Index!release(tree, Handles[r].node)
  BY <1>1, <1>3, SameTree
<1> QED BY <1>1, <1>3, <1>4, <1>5 DEF Index!Release

\* A slot whose pointers follow a split.
LEMMA RelinkedSlots ==
    ASSUME TypeOK, NEW x, NEW cut
    PROVE  /\ DOMAIN Relink(x, cut) = Requests
           /\ \A o \in Requests :
                  /\ Relink(x, cut)[o].phase = reqs[o].phase
                  /\ Relink(x, cut)[o].prompt = reqs[o].prompt
                  /\ Relink(x, cut)[o].matched = reqs[o].matched
                  /\ Relink(x, cut)[o].seq = reqs[o].seq
                  /\ Relink(x, cut)[o].tokens = reqs[o].tokens
                  /\ Relink(x, cut)[o].leaf = Follow(reqs[o].leaf, x, cut)
                  /\ Relink(x, cut)[o].node = Follow(reqs[o].node, x, cut)
                  /\ DOMAIN Relink(x, cut)[o] = {"phase", "prompt", "leaf", "matched", "seq",
                                                 "tokens", "node"}
BY DEF Relink, TypeOK, Slots

\* A handle whose pointers follow a split.
LEMMA RelinkedHandles ==
    ASSUME NEW x, NEW cut
    PROVE  /\ DOMAIN Index!Relink(x, cut) = Requests
           /\ \A o \in Requests : \A phase, tokens, node, matched, seq, owner :
                  Handles[o] = Held(phase, tokens, node, matched, seq, owner) =>
                      Index!Relink(x, cut)[o]
                        = Held(phase, tokens, Follow(node, x, cut), matched, seq,
                               Follow(owner, x, cut))
<1>1. DOMAIN Index!Relink(x, cut) = Requests
  BY DEF Index!Relink
<1>2. ASSUME NEW o \in Requests, NEW phase, NEW tokens, NEW node, NEW matched, NEW seq, NEW owner,
             Handles[o] = Held(phase, tokens, node, matched, seq, owner)
      PROVE  Index!Relink(x, cut)[o] = Held(phase, tokens, Follow(node, x, cut), matched, seq,
                                            Follow(owner, x, cut))
  <2>1. Index!Relink(x, cut)[o] = [Handles[o] EXCEPT !.node = Index!Follow(@, x, cut),
                                                     !.owner = Index!Follow(@, x, cut)]
    BY DEF Index!Relink
  <2>2. PICK a, b : a = Follow(node, x, cut) /\ b = Follow(owner, x, cut)
    OBVIOUS
  <2>3. a = Index!Follow(node, x, cut) /\ b = Index!Follow(owner, x, cut)
    BY <2>2, SameTree
  <2>4. Handles[o].node = node /\ Handles[o].owner = owner
    BY <1>2 DEF Held
  <2>5. Index!Relink(x, cut)[o] = [Handles[o] EXCEPT !.node = a, !.owner = b]
    BY <2>1, <2>3, <2>4
  <2>6. Repointed(Handles[o], a, b) = Held(phase, tokens, a, matched, seq, b)
    BY <1>2, HeldExcept
  <2> QED BY <2>2, <2>5, <2>6 DEF Repointed
<1> QED BY <1>1, <1>2

\* The other requests, outside a chain of calls, only follow the split.
LEMMA OthersFollow ==
    ASSUME IInv, NEW cut \in Seq(Token), NEW x, EdgeNode(tree, cut, x), NEW o \in Requests,
           ~ Busy(o), reqs'[o] = Relink(x, cut)[o]
    PROVE  Handles'[o] = Index!Relink(x, cut)[o]
<1>1. Handles[o] = Handle(reqs[o]) /\ Handles'[o] = Handle(reqs'[o])
  BY DEF Handles
<1>2. PICK v : v = reqs'[o]
  OBVIOUS
<1>3. /\ v.phase = reqs[o].phase /\ v.prompt = reqs[o].prompt
      /\ v.matched = reqs[o].matched /\ v.seq = reqs[o].seq
      /\ v.leaf = Follow(reqs[o].leaf, x, cut) /\ v.node = Follow(reqs[o].node, x, cut)
  BY <1>2, RelinkedSlots DEF IInv
<1>4. CASE reqs[o].phase = "none"
  <2>1. Follow(Root, x, cut) = Root
    <3>1. TypeOK
      BY DEF IInv
    <3>2. x = Root => cut = Root
      BY <3>1, SplitFacts
    <3> QED BY <3>2 DEF Follow
  <2>2. Handles[o] = Held("none", << >>, Root, 0, 0, Root)
    BY <1>1, <1>4, HandleFacts
  <2>3. Handle(v) = Held("none", << >>, Root, 0, 0, Root)
    BY <1>3, <1>4, HandleFacts
  <2> QED BY <1>1, <1>2, <2>1, <2>2, <2>3, RelinkedHandles
<1>5. CASE reqs[o].phase = "prefill"
  <2>1. Handles[o] = Held("pending", reqs[o].prompt, reqs[o].leaf, reqs[o].matched, reqs[o].seq,
                          reqs[o].node)
    BY <1>1, <1>5, HandleFacts
  <2>2. Handle(v) = Held("pending", v.prompt, v.leaf, v.matched, v.seq, v.node)
    BY <1>3, <1>5, HandleFacts
  <2> QED BY <1>1, <1>2, <1>3, <2>1, <2>2, RelinkedHandles
<1>6. CASE reqs[o].phase = "active"
  <2>1. Handles[o] = Held("ready", reqs[o].prompt, reqs[o].leaf, reqs[o].matched, reqs[o].seq,
                          reqs[o].node)
    BY <1>1, <1>6, HandleFacts
  <2>2. Handle(v) = Held("ready", v.prompt, v.leaf, v.matched, v.seq, v.node)
    BY <1>3, <1>6, HandleFacts
  <2> QED BY <1>1, <1>2, <1>3, <2>1, <2>2, RelinkedHandles
<1> QED BY <1>4, <1>5, <1>6 DEF IInv, TypeOK, Slots, Busy, Phase

\* The handles after a split of the pointers of all requests and a change of the slot r.
LEMMA RelinkStep ==
    ASSUME IInv, NEW cut \in Seq(Token), NEW x, EdgeNode(tree, cut, x), NEW r \in Requests,
           NEW v, reqs' = [Relink(x, cut) EXCEPT ![r] = v],
           \A o \in Requests \ {r} : ~ Busy(o)
    PROVE  Handles' = [Index!Relink(x, cut) EXCEPT ![r] = Handle(v)]
<1>1. reqs'[r] = v /\ \A o \in Requests \ {r} : reqs'[o] = Relink(x, cut)[o]
  BY RelinkedSlots DEF IInv
<1>2. Handles'[r] = Handle(v)
  BY <1>1 DEF Handles
<1>3. \A o \in Requests \ {r} : Handles'[o] = Index!Relink(x, cut)[o]
  BY <1>1, OthersFollow
<1>4. DOMAIN Index!Relink(x, cut) = Requests
  BY RelinkedHandles
<1>5. Handles' = [o \in Requests |-> Handles'[o]]
  BY DEF Handles
<1>6. PICK a, b, c : a = Handles' /\ b = Index!Relink(x, cut) /\ c = Handle(v)
  OBVIOUS
<1>7. /\ a = [o \in Requests |-> a[o]] /\ a[r] = c /\ DOMAIN b = Requests
      /\ \A o \in Requests \ {r} : a[o] = b[o]
  BY <1>2, <1>3, <1>4, <1>5, <1>6
<1>8. a = [b EXCEPT ![r] = c]
  BY ONLY <1>7, r \in Requests
<1> QED BY <1>6, <1>8

\* prepare_sequence inserts the prompt.
LEMMA InsertCalls ==
    ASSUME IInv, NEW r \in Requests, Insert(r)
    PROVE  Index!Insert(r, reqs[r].prompt)
<1>0. PICK prompt \in Seq(Token) : prompt = reqs[r].prompt
  BY DEF IInv, TypeOK, Slots
<1>1. PICK m \in 0 .. Len(prompt), x \in DOMAIN tree :
          /\ Matches(tree, prompt, m) /\ EdgeNode(tree, Prefix(prompt, m), x)
          /\ tick' = tick + 1
          /\ tree' = insert(tree, prompt, x, Prefix(prompt, m), tick')
          /\ reqs' = [Relink(x, Prefix(prompt, m)) EXCEPT
                         ![r] = [@ EXCEPT !.phase = "inserted", !.leaf = prompt,
                                          !.node = prompt, !.matched = m]]
  BY <1>0 DEF Insert
<1>2. PICK cut \in Seq(Token) : cut = Prefix(prompt, m)
  BY <1>1, PrefixFacts
<1>3. PICK u : u = Relink(x, cut)[r]
  OBVIOUS
<1>4. PICK v : v = [u EXCEPT !.phase = "inserted", !.leaf = prompt, !.node = prompt,
                             !.matched = m]
  OBVIOUS
<1>5. /\ v.phase = "inserted" /\ v.leaf = prompt /\ v.node = prompt /\ v.matched = m
      /\ v.prompt = prompt
  <2>1. /\ DOMAIN u = {"phase", "prompt", "leaf", "matched", "seq", "tokens", "node"}
        /\ u.prompt = prompt
    BY <1>0, <1>3, RelinkedSlots DEF IInv
  <2> QED BY <1>4, <2>1
<1>6. reqs' = [Relink(x, cut) EXCEPT ![r] = v]
  <2>1. r \in DOMAIN Relink(x, cut)
    BY RelinkedSlots DEF IInv
  <2> QED BY <1>1, <1>2, <1>3, <1>4, <2>1
<1>7. Phase(r) = "pressure" /\ \A o \in Requests \ {r} : ~ Busy(o)
  <2>1. Phase(r) = "pressure"
    BY DEF Insert
  <2> QED BY <2>1 DEF IInv, RequestInv, Busy
<1>8. Handles' = [Index!Relink(x, cut) EXCEPT ![r] = Handle(v)]
  <2>1. EdgeNode(tree, cut, x)
    BY <1>1, <1>2
  <2> QED BY ONLY IInv, r \in Requests, <2>1, <1>6, <1>7, RelinkStep
<1>9. Handle(v) = [Index!NoHandle EXCEPT !.phase = "inserted", !.tokens = prompt,
                                         !.node = prompt, !.matched = m]
  <2>1. Handle(v) = Held("inserted", prompt, prompt, m, 0, Root)
    BY <1>5, HandleFacts
  <2>2. Index!NoHandle = Held("none", << >>, Root, 0, 0, Root)
    BY DEF Held, Index!NoHandle, Index!Root, Root
  <2>3. Placed(Index!NoHandle, "inserted", prompt, prompt, m)
          = Held("inserted", prompt, prompt, m, 0, Root)
    BY <2>2, HeldExcept
  <2> QED BY <2>1, <2>3 DEF Placed
<1>10. Handles[r].phase = "none"
  <2>1. Handles[r] = Held("none", << >>, Root, 0, 0, Root)
    BY <1>7, HandleFacts DEF Handles, Phase
  <2> QED BY <2>1 DEF Held
<1>11. Index!Quiet /\ tick' \in Nat /\ tick' > tick
  BY <1>1, <1>7, QuietCalls DEF IInv, TypeOK
<1>12. /\ Index!Ends(prompt, m, x) /\ cut = Index!Prefix(prompt, m)
       /\ tree' = Index!insert(tree, prompt, x, cut, tick')
  <2>1. cut = Index!Prefix(prompt, m) /\ Index!Matches(tree, prompt, m)
    BY <1>1, <1>2, SameTree
  <2>2. Index!EdgeNode(tree, cut, x)
    <3>1. EdgeNode(tree, cut, x)
      BY <1>1, <1>2
    <3> QED BY <3>1, SameTree
  <2>3. tree' = Index!insert(tree, prompt, x, cut, tick')
    <3>1. tree' = insert(tree, prompt, x, cut, tick')
      BY <1>1, <1>2
    <3> QED BY <3>1, SameTree
  <2> QED BY <2>1, <2>2, <2>3 DEF Index!Ends
<1>13. Handles' = [Index!Relink(x, cut) EXCEPT
           ![r] = [Index!NoHandle EXCEPT !.phase = "inserted", !.tokens = prompt,
                                         !.node = prompt, !.matched = m]]
  BY <1>8, <1>9
<1>14. Index!Insert(r, prompt)
  BY Zenon, <1>10, <1>11, <1>12, <1>13 DEF Index!Insert
<1> QED BY <1>0, <1>14

\* The rest of prepare_sequence registers an id that no node has.
LEMMA RegisterCalls ==
    ASSUME IInv, CacheInv, IInv', NEW r \in Requests, Register(r)
    PROVE  \E s \in SeqIds : Index!Register(r, s)
<1>0. PICK new, pos : RegisterEffect(r, new, pos)
  BY RegisterEffects
<1>1. PICK prompt : prompt = reqs[r].prompt
  OBVIOUS
<1>2. /\ reqs[r].phase = "inserted" /\ new \in SeqIds /\ new \notin Registered
      /\ reqs'[r].phase \in {"retiring", "prefill"}
      /\ reqs'[r].phase = "retiring" => prompt = << >>
      /\ reqs'[r].prompt = prompt /\ reqs'[r].seq = new
  <2>1. new \in Range(free_seq_ids)
    BY <1>0 DEF RegisterEffect
  <2>2. new \notin Registered
    BY <2>1, RegisteredPool DEF IInv
  <2> QED BY <1>0, <1>1, <2>2 DEF RegisterEffect, Phase
<1>3. reqs[r].leaf = prompt /\ reqs[r].node = prompt
  BY <1>1, <1>2 DEF IInv, RequestInv, Holding, Phase
<1>4. PICK v : v = reqs'[r]
  OBVIOUS
<1>5. /\ reqs' = [reqs EXCEPT ![r] = v]
      /\ v.phase \in {"retiring", "prefill"} /\ (v.phase = "retiring" => prompt = << >>)
      /\ v.prompt = prompt /\ v.seq = new
      /\ v.leaf = prompt /\ v.node = prompt /\ v.matched = reqs[r].matched
  <2>1. PICK ph, se, to : reqs' = [reqs EXCEPT ![r] = [@ EXCEPT !.phase = ph, !.seq = se,
                                                               !.tokens = to]]
    BY DEF Register
  <2>2. reqs[r] \in Slots /\ DOMAIN reqs = Requests
    BY DEF IInv, TypeOK
  <2>3. PICK w : w = [reqs[r] EXCEPT !.phase = ph, !.seq = se, !.tokens = to]
    OBVIOUS
  <2>4. reqs' = [reqs EXCEPT ![r] = w] /\ reqs'[r] = w
    BY <2>1, <2>2, <2>3
  <2>5. w.leaf = reqs[r].leaf /\ w.node = reqs[r].node /\ w.matched = reqs[r].matched
    BY <2>2, <2>3 DEF Slots
  <2> QED BY <1>2, <1>3, <1>4, <2>4, <2>5
<1>6. Handles' = [Handles EXCEPT ![r] = Handle(v)]
  BY <1>5, HandlesStep
<1>7. Handles[r] = Held("inserted", prompt, prompt, reqs[r].matched, 0, Root)
  BY <1>1, <1>2, <1>3, HandleFacts DEF Handles
<1>8. Handle(v) = Held("pending", prompt, prompt, reqs[r].matched, new, prompt)
  <2>1. CASE v.phase = "prefill"
    BY <1>5, <2>1, HandleFacts
  <2>2. CASE v.phase = "retiring"
    <3>1. v.node = v.leaf /\ v.prompt = << >>
      BY <1>5, <2>2
    <3>2. Handle(v) = Held("pending", v.prompt, v.leaf, v.matched, v.seq, v.node)
      BY <2>2, <3>1, HandleFacts
    <3> QED BY <1>5, <3>2
  <2> QED BY <1>5, <2>1, <2>2
<1>9. /\ Handles[r].phase = "inserted" /\ Handles[r].node = prompt
      /\ Handles[r].tokens = prompt
  BY <1>7 DEF Held
<1>10. Handle(v) = [Handles[r] EXCEPT !.phase = "pending", !.seq = new,
                                      !.owner = Handles[r].node]
  <2>1. Assigned(Handles[r], "pending", new, prompt)
          = Held("pending", prompt, prompt, reqs[r].matched, new, prompt)
    BY <1>7, HeldExcept
  <2> QED BY <1>8, <1>9, <2>1 DEF Assigned
<1>11. tree' = Index!register_seq_id(tree, Handles[r].node, new, Len(Handles[r].tokens))
  <2>1. new = Head(free_seq_ids)
    BY <1>4, <1>5 DEF Register, IInv, TypeOK, Slots
  <2>2. tree' = register_seq_id(tree, prompt, new, Len(prompt))
    BY <1>1, <1>3, <2>1 DEF Register
  <2> QED BY <1>9, <2>2, SameTree
<1>12. \A p \in DOMAIN tree : new \notin tree[p].seq_ids
  BY <1>2 DEF Registered
<1>13. Handles' = [Handles EXCEPT ![r] = [@ EXCEPT !.phase = "pending", !.seq = new,
                                                   !.owner = Handles[r].node]]
  BY <1>6, <1>10
<1>14. UNCHANGED tick
  BY DEF Register
<1>15. Index!Register(r, new)
  BY Zenon, <1>9, <1>11, <1>12, <1>13, <1>14 DEF Index!Register
<1> QED BY <1>2, <1>15

\* The handle of a request in flight, which owns a sequence.
LEMMA OwnedHandle ==
    ASSUME IInv, NEW r \in Owning, Busy(r) \/ Quiet
    PROVE  /\ Handles[r].node = reqs[r].leaf /\ Handles[r].owner = reqs[r].node
           /\ Handles[r].seq = reqs[r].seq
           /\ Index!MayReleaseSeq(r)
<1>1. /\ r \in Requests /\ Handles[r] = Handle(reqs[r])
      /\ reqs[r].phase \in {"prefill", "active", "retiring"}
  BY DEF Owning, Handles, Phase
<1>2. PICK phase, tokens :
          /\ Handles[r] = Held(phase, tokens, reqs[r].leaf, reqs[r].matched, reqs[r].seq,
                               reqs[r].node)
          /\ phase \in {"pending", "ready", "retiring"}
  BY <1>1, HandleFacts
<1>3. /\ Handles[r].node = reqs[r].leaf /\ Handles[r].owner = reqs[r].node
      /\ Handles[r].seq = reqs[r].seq /\ Handles[r].phase = phase
  BY <1>2 DEF Held
<1>4. phase \in {"pending", "ready"} => Index!Quiet
  <2>1. CASE Quiet
    BY <2>1, QuietCalls
  <2>2. CASE Busy(r) /\ phase \in {"pending", "ready"}
    <3> SUFFICES ASSUME NEW o \in Requests,
                        Handles[o].phase \in {"inserted", "retiring", "released"}
                 PROVE  FALSE
      BY <2>2 DEF Index!Quiet, Index!Phases
    <3>1. Busy(o)
      BY StageFacts DEF IInv
    <3>2. o = r
      BY <1>1, <2>2, <3>1 DEF IInv, RequestInv
    <3> QED BY <1>3, <2>2, <3>2
  <2> QED BY <2>1, <2>2
<1> QED BY <1>2, <1>3, <1>4 DEF Index!MayReleaseSeq

\* release_sequence and release at the end of a request.
LEMMA ReleaseCalls ==
    ASSUME IInv, NEW r \in Owning, Busy(r) \/ Quiet, ReleaseAll(r)
    PROVE  \E retain \in BOOLEAN : Index!End(r, retain)
<1>1. PICK s, p, leaf : s = reqs[r].seq /\ p = reqs[r].node /\ leaf = reqs[r].leaf
  OBVIOUS
<1>2. /\ Handles[r].node = leaf /\ Handles[r].owner = p /\ Handles[r].seq = s
      /\ Index!MayReleaseSeq(r)
  BY <1>1, OwnedHandle
<1>3. r \in Requests /\ s \in tree[p].seq_ids
  BY <1>1 DEF IInv, OwnedRegistered, Owning
<1>4. PICK retain \in BOOLEAN : KeepsSeq(tree[p], s, prefix_cache_enabled)
                                    <=> KeepsSeq(tree[p], s, retain)
  <2>1. CASE prefix_cache_enabled
    <3>1. KeepsSeq(tree[p], s, prefix_cache_enabled) <=> KeepsSeq(tree[p], s, TRUE)
      BY <2>1 DEF KeepsSeq
    <3> QED BY <3>1
  <2>2. CASE ~ prefix_cache_enabled
    <3>1. KeepsSeq(tree[p], s, prefix_cache_enabled) <=> KeepsSeq(tree[p], s, FALSE)
      BY <2>2 DEF KeepsSeq
    <3> QED BY <3>1
  <2> QED BY <2>1, <2>2
<1>5. PICK t : t = IF KeepsSeq(tree[p], s, retain) THEN tree
                   ELSE [tree EXCEPT ![p] = WithoutSeq(@, s)]
  OBVIOUS
<1>6. tree' = release(t, leaf) /\ UNCHANGED tick /\ reqs' = [reqs EXCEPT ![r] = NoRequest]
  <2>1. CASE KeepsSeq(tree[p], s, retain)
    BY <1>1, <1>3, <1>4, <1>5, <2>1 DEF ReleaseAll
  <2>2. CASE ~ KeepsSeq(tree[p], s, retain)
    BY <1>1, <1>3, <1>4, <1>5, <2>2 DEF ReleaseAll
  <2> QED BY <2>1, <2>2
<1>7. t = Index!SeqReleased(r, retain)
  <2>1. Index!KeepsSeq(tree[p], s, retain) <=> KeepsSeq(tree[p], s, retain)
    BY SameTree
  <2>2. Index!WithoutSeq(tree[p], s) = WithoutSeq(tree[p], s)
    BY SameTree
  <2> QED BY <1>2, <1>5, <2>1, <2>2 DEF Index!SeqReleased
<1>8. tree' = Index!release(t, leaf)
  BY <1>6, SameTree
<1>9. Handles' = [Handles EXCEPT ![r] = Index!NoHandle]
  BY <1>3, <1>6, HandlesEnd
<1>10. Index!End(r, retain)
  BY <1>2, <1>6, <1>7, <1>8, <1>9 DEF Index!End
<1> QED BY <1>10

\* mark_sequence_ready with the last token of the prompt; before that no call.
LEMMA DecodeCalls ==
    ASSUME IInv, NEW r \in Requests, NEW k \in 1 .. Len(reqs[r].prompt), DecodePrompt(r, k)
    PROVE  Index!MarkReady(r) \/ UNCHANGED <<tree, tick, Handles>>
<1>1. PICK full \in BOOLEAN : full <=> Len(reqs[r].tokens) + k = Len(reqs[r].prompt)
  OBVIOUS
<1>2. PICK phase, T : /\ phase = IF full THEN "active" ELSE "prefill"
                      /\ T = Prefix(reqs[r].prompt, Len(reqs[r].tokens) + k)
  OBVIOUS
<1>3. PICK v : v = [reqs[r] EXCEPT !.tokens = T, !.phase = phase]
  OBVIOUS
<1>4. /\ Quiet /\ reqs[r].phase = "prefill" /\ UNCHANGED tick
      /\ reqs' = [reqs EXCEPT ![r] = v]
      /\ tree' = IF full THEN mark_seq_id_ready(tree, reqs[r].leaf, reqs[r].seq) ELSE tree
  BY <1>1, <1>2, <1>3 DEF DecodePrompt, Phase
<1>5. /\ v.phase = phase /\ v.prompt = reqs[r].prompt /\ v.leaf = reqs[r].leaf
      /\ v.matched = reqs[r].matched /\ v.seq = reqs[r].seq /\ v.node = reqs[r].node
  BY <1>3 DEF IInv, TypeOK, Slots
<1>6. Handles[r] = Held("pending", reqs[r].prompt, reqs[r].leaf, reqs[r].matched, reqs[r].seq,
                        reqs[r].node)
  BY <1>4, HandleFacts DEF Handles
<1>7. CASE full
  <2>1. Handle(v) = Held("ready", reqs[r].prompt, reqs[r].leaf, reqs[r].matched, reqs[r].seq,
                         reqs[r].node)
    BY <1>2, <1>5, <1>7, HandleFacts
  <2>2. Handle(v) = Staged(Handles[r], "ready")
    BY <1>6, <2>1, HeldExcept
  <2>3. Handles' = [Handles EXCEPT ![r] = Handle(v)]
    BY <1>4, HandlesStep
  <2>4. Handles' = [Handles EXCEPT ![r].phase = "ready"]
    BY <2>2, <2>3 DEF Staged, Handles
  <2>5. /\ Handles[r].phase = "pending" /\ Handles[r].owner = reqs[r].leaf
        /\ Handles[r].seq = reqs[r].seq
    <3>1. reqs[r].node = reqs[r].leaf
      BY <1>4 DEF IInv, RequestInv, Holding, Phase
    <3> QED BY <1>6, <3>1 DEF Held
  <2>6. tree' = Index!mark_seq_id_ready(tree, Handles[r].owner, Handles[r].seq)
    BY <1>4, <1>7, <2>5, SameTree
  <2>7. Index!Quiet
    BY <1>4, QuietCalls
  <2>8. Index!MarkReady(r)
    BY <1>4, <2>4, <2>5, <2>6, <2>7 DEF Index!MarkReady
  <2> QED BY <2>8
<1>8. CASE ~ full
  <2>1. Handle(v) = Handle(reqs[r])
    BY <1>2, <1>4, <1>5, <1>8, HandleFacts
  <2>2. reqs'[r] = v /\ \A o \in Requests \ {r} : reqs'[o] = reqs[o]
    BY <1>4 DEF IInv, TypeOK
  <2> QED BY <1>4, <1>8, <2>1, <2>2, NoCall
<1> QED BY <1>7, <1>8

\* What a request generates is not empty and no longer than a request can be.
Generated == UNION {[1 .. n -> Token] : n \in 1 .. MaxLen - 1}

\* A request that decodes generated tokens has a prompt, and stopped at the bound.
ActiveInv ==
    \A r \in Requests : Phase(r) = "active" =>
        /\ reqs[r].prompt # << >>
        /\ Len(reqs[r].tokens) = Len(reqs[r].prompt) \/ Len(reqs[r].tokens) <= MaxLen

\* A sequence behind its prefix.
LEMMA Remainder ==
    ASSUME NEW T \in Seq(Token), NEW p \in Seq(Token), p \sqsubseteq T, Len(T) > Len(p),
           Len(T) <= MaxLen, p # << >>
    PROVE  \E more \in Generated : p \o more = T
<1>1. /\ Len(T) \in Nat /\ Len(p) \in Nat /\ Len(p) > 0
      /\ \A i \in 1 .. Len(p) : p[i] = T[i]
  BY LenProperties, EmptySeq DEF \sqsubseteq
<1>2. PICK a, b, n : a = Len(p) /\ b = Len(T) /\ n = b - a
  OBVIOUS
<1>3. PICK more : more = SubSeq(T, a + 1, b)
  OBVIOUS
<1>4. /\ a \in Nat /\ b \in Nat /\ b > a /\ b <= MaxLen /\ n \in 1 .. MaxLen - 1
      /\ a + 1 \in Int /\ b \in Int /\ b - (a + 1) + 1 = n
  BY <1>1, <1>2, CacheAssumption
<1>5. \A i \in a + 1 .. b : T[i] \in Token
  BY <1>2, <1>4, ElementOfSeq
<1>6. /\ more \in Seq(Token) /\ Len(more) = n
      /\ \A i \in 1 .. n : more[i] = T[a + i]
  <2>1. /\ SubSeq(T, a + 1, b) \in Seq(Token)
        /\ Len(SubSeq(T, a + 1, b)) = IF a + 1 <= b THEN b - (a + 1) + 1 ELSE 0
        /\ \A i \in 1 .. b - (a + 1) + 1 : SubSeq(T, a + 1, b)[i] = T[a + 1 + i - 1]
    BY <1>4, <1>5, SubSeqProperties
  <2>2. \A i \in 1 .. n : more[i] = T[a + 1 + i - 1]
    BY <1>3, <1>4, <2>1
  <2>3. \A i \in 1 .. n : a + 1 + i - 1 = a + i
    BY <1>4
  <2>4. \A i \in 1 .. n : more[i] = T[a + i]
    BY <2>2, <2>3
  <2>5. a + 1 <= b
    BY <1>4
  <2>6. Len(more) = n
    BY <1>3, <1>4, <2>1, <2>5
  <2> QED BY <1>3, <2>1, <2>4, <2>6
<1>7. more \in Generated
  <2>1. more \in [1 .. n -> Token]
    BY <1>6, LenProperties
  <2> QED BY <1>4, <2>1 DEF Generated
<1>8. PICK w : /\ w = p \o more
               /\ w \in Seq(Token) /\ Len(w) = a + n
               /\ \A i \in 1 .. a + n : w[i] = IF i <= a THEN p[i] ELSE more[i - a]
  <2>1. /\ p \o more \in Seq(Token) /\ Len(p \o more) = a + n
        /\ \A i \in 1 .. a + n : (p \o more)[i] = IF i <= a THEN p[i] ELSE more[i - a]
    BY <1>2, <1>6, ConcatProperties
  <2> QED BY Zenon, <2>1
<1>9. \A i \in 1 .. a + n : w[i] = T[i]
  <2> SUFFICES ASSUME NEW i \in 1 .. a + n PROVE w[i] = T[i]
    OBVIOUS
  <2>1. i \in Nat /\ n \in Nat
    BY <1>4
  <2>2. CASE i <= a
    BY <1>1, <1>2, <1>8, <2>1, <2>2
  <2>3. CASE ~ (i <= a)
    <3>1. i - a \in 1 .. n /\ a + (i - a) = i
      BY <1>4, <2>1, <2>3
    <3>2. more[i - a] = T[i]
      BY <1>6, <3>1
    <3>3. w[i] = more[i - a]
      BY <1>8, <2>3
    <3> QED BY <3>2, <3>3
  <2> QED BY <2>2, <2>3
<1>10. p \o more = T
  <2>1. Len(w) = Len(T) /\ a + n = Len(T)
    BY <1>2, <1>4, <1>8
  <2>2. w = T
    BY <1>8, <1>9, <2>1, SeqEqual
  <2> QED BY <1>8, <2>2
<1> QED BY <1>7, <1>10

\* retire: the sequence of the request moves to the node of all its tokens.
LEMMA ExtendCalls ==
    ASSUME IInv, ActiveInv, NEW r \in Requests, Retire(r), prefix_cache_enabled,
           reqs[r].seq \in tree[reqs[r].leaf].ready_seq_ids
    PROVE  \E more \in Generated : Index!Extend(r, more)
<1>1. PICK T \in Seq(Token), p \in DOMAIN tree, prompt \in Seq(Token), s \in SeqIds \cup {NoSeq} :
          /\ T = reqs[r].tokens /\ p = reqs[r].leaf /\ s = reqs[r].seq
          /\ prompt = reqs[r].prompt
  <2>1. r \in Holding
    BY DEF Retire, Holding
  <2> QED BY <2>1 DEF IInv, TypeOK, Slots, RefCountExact
<1>2. /\ Quiet /\ reqs[r].phase = "active" /\ Len(T) > Len(prompt)
  BY <1>1 DEF Retire, Phase
<1>3. /\ reqs[r].node = p /\ p \sqsubseteq prompt /\ prompt \sqsubseteq T
  BY <1>1, <1>2 DEF IInv, RequestInv, Holding, Phase
<1>4. p \sqsubseteq T /\ p # T
  <2>1. p \in Seq(Token)
    BY <1>1 DEF IInv, TypeOK
  <2>2. p \sqsubseteq T
    BY <1>1, <1>3, <2>1, PrefixOrder
  <2>3. Len(p) <= Len(prompt) /\ Len(p) \in Nat /\ Len(prompt) \in Nat /\ Len(T) \in Nat
    BY <1>1, <1>3, <2>1, LenProperties DEF \sqsubseteq
  <2> QED BY <1>2, <2>2, <2>3
<1>5. PICK more \in Generated : prompt \o more = T
  <2>1. Len(T) <= MaxLen
    <3>1. Len(prompt) \in Nat /\ Len(T) \in Nat
      BY <1>1, LenProperties
    <3> QED BY <1>1, <1>2, <3>1 DEF ActiveInv, Phase
  <2>2. prompt # << >>
    BY <1>1, <1>2 DEF ActiveInv, Phase
  <2> QED BY <1>1, <1>2, <1>3, <2>1, <2>2, Remainder
<1>6. PICK m \in 0 .. Len(T), x \in DOMAIN tree :
          /\ Matches(tree, T, m)
          /\ EdgeNode(tree, Prefix(T, m), x)
          /\ tick' = tick + 1
          /\ tree' = extend_seq_id(tree, p, s, T, x, Prefix(T, m), tick')
          /\ reqs' = [Relink(x, Prefix(T, m)) EXCEPT
                         ![r] = [@ EXCEPT !.phase = "retiring", !.node = T]]
  BY <1>1 DEF Retire
<1>7. PICK cut \in Seq(Token) : cut = Prefix(T, m)
  BY <1>6, PrefixFacts
<1>8. EdgeNode(tree, cut, x)
  BY <1>6, <1>7
<1>9. Follow(p, x, cut) = p
  BY <1>1, <1>4, <1>6, <1>7, WalkPasses DEF IInv
<1>10. PICK u : u = Relink(x, cut)[r]
  OBVIOUS
<1>11. PICK v : v = [u EXCEPT !.phase = "retiring", !.node = T]
  OBVIOUS
<1>12. /\ v.phase = "retiring" /\ v.node = T /\ v.leaf = p /\ v.tokens = T /\ v.seq = s
       /\ v.matched = reqs[r].matched
  <2>1. /\ DOMAIN u = {"phase", "prompt", "leaf", "matched", "seq", "tokens", "node"}
        /\ u.leaf = Follow(reqs[r].leaf, x, cut) /\ u.tokens = reqs[r].tokens
        /\ u.seq = reqs[r].seq /\ u.matched = reqs[r].matched
    BY <1>10, RelinkedSlots DEF IInv
  <2> QED BY <1>1, <1>9, <1>11, <2>1
<1>13. reqs' = [Relink(x, cut) EXCEPT ![r] = v]
  <2>1. r \in DOMAIN Relink(x, cut)
    BY RelinkedSlots DEF IInv
  <2> QED BY <1>6, <1>7, <1>10, <1>11, <2>1
<1>14. Handles' = [Index!Relink(x, cut) EXCEPT ![r] = Handle(v)]
  <2>1. \A o \in Requests \ {r} : ~ Busy(o)
    BY <1>2 DEF Quiet
  <2> QED BY ONLY IInv, r \in Requests, <2>1, <1>8, <1>13, RelinkStep
<1>15. Handle(v) = Held("retiring", T, p, reqs[r].matched, s, T)
  BY <1>4, <1>12, HandleFacts
<1>16. Handles[r] = Held("ready", prompt, p, reqs[r].matched, s, p)
  BY <1>1, <1>2, <1>3, HandleFacts DEF Handles
<1>17. Index!Relink(x, cut)[r] = Held("ready", prompt, p, reqs[r].matched, s, p)
  <2>1. Index!Relink(x, cut)[r] = Held("ready", prompt, Follow(p, x, cut), reqs[r].matched, s,
                                       Follow(p, x, cut))
    BY <1>16, RelinkedHandles
  <2> QED BY <1>9, <2>1
<1>18. Handle(v) = [Index!Relink(x, cut)[r] EXCEPT !.phase = "retiring", !.tokens = T,
                                                   !.owner = T]
  <2>1. Prolonged(Index!Relink(x, cut)[r], "retiring", T, T)
          = Held("retiring", T, p, reqs[r].matched, s, T)
    BY <1>17, HeldExcept
  <2> QED BY <1>15, <2>1 DEF Prolonged
<1>19. /\ Handles[r].phase = "ready" /\ Handles[r].tokens = prompt
       /\ Handles[r].owner = p /\ Handles[r].seq = s
  BY <1>16 DEF Held
<1>20. Index!Quiet /\ tick' \in Nat /\ tick' > tick
  BY <1>2, <1>6, QuietCalls DEF IInv, TypeOK
<1>21. cut = Index!Prefix(T, m) /\ Index!Matches(tree, T, m)
  BY <1>6, <1>7, SameTree
<1>22. Index!EdgeNode(tree, cut, x)
  BY <1>8, SameTree
<1>23. Index!Ends(T, m, x)
  BY <1>21, <1>22 DEF Index!Ends
<1>24. tree' = Index!extend_seq_id(tree, p, s, T, x, cut, tick')
  <2>1. tree' = extend_seq_id(tree, p, s, T, x, cut, tick')
    BY <1>6, <1>7
  <2> QED BY <2>1, SameTree
<1>25. Handles' = [Index!Relink(x, cut) EXCEPT
           ![r] = [@ EXCEPT !.phase = "retiring", !.tokens = T, !.owner = T]]
  <2>1. r \in DOMAIN Index!Relink(x, cut)
    BY RelinkedHandles
  <2> QED BY <1>14, <1>18, <2>1
<1>26. Index!Extend(r, more)
  <2>1. Handles[r].tokens \o more = T
    BY <1>5, <1>19
  <2>2. \E n \in 0 .. Len(T), y \in DOMAIN tree :
            /\ Index!Ends(T, n, y)
            /\ tree' = Index!extend_seq_id(tree, Handles[r].owner, Handles[r].seq, T, y,
                                           Index!Prefix(T, n), tick')
            /\ Handles' = [Index!Relink(y, Index!Prefix(T, n)) EXCEPT
                   ![r] = [@ EXCEPT !.phase = "retiring", !.tokens = T, !.owner = T]]
    <3>1. m \in 0 .. Len(T) /\ x \in DOMAIN tree
      BY <1>6
    <3> QED BY <1>19, <1>21, <1>23, <1>24, <1>25, <3>1
  <2> QED BY <1>19, <1>20, <2>1, <2>2 DEF Index!Extend
<1> QED BY <1>26

\* retire of a request whose sequence stays where it is: no call before the release.
LEMMA StayCalls ==
    ASSUME IInv, ActiveInv, NEW r \in Requests, Retire(r),
           ~ (prefix_cache_enabled /\ reqs[r].seq \in tree[reqs[r].leaf].ready_seq_ids)
    PROVE  UNCHANGED <<tree, tick, Handles>>
<1>1. /\ reqs[r].phase = "active" /\ reqs' = [reqs EXCEPT ![r].phase = "retiring"]
      /\ UNCHANGED <<tree, tick>>
  BY DEF Retire, Phase
<1>2. PICK v : v = [reqs[r] EXCEPT !.phase = "retiring"]
  OBVIOUS
<1>3. /\ v.phase = "retiring" /\ v.prompt = reqs[r].prompt /\ v.leaf = reqs[r].leaf
      /\ v.matched = reqs[r].matched /\ v.seq = reqs[r].seq /\ v.node = reqs[r].node
  BY <1>2 DEF IInv, TypeOK, Slots
<1>4. reqs[r].node = reqs[r].leaf /\ reqs[r].prompt # << >>
  BY <1>1 DEF IInv, RequestInv, ActiveInv, Holding, Phase
<1>5. Handle(v) = Held("ready", v.prompt, v.leaf, v.matched, v.seq, v.node)
  BY <1>3, <1>4, HandleFacts
<1>6. Handle(v) = Handle(reqs[r])
  BY <1>1, <1>3, <1>5, HandleFacts
<1>7. reqs'[r] = v /\ \A o \in Requests \ {r} : reqs'[o] = reqs[o]
  BY <1>1, <1>2 DEF IInv, TypeOK
<1> QED BY <1>1, <1>6, <1>7, NoCall

-----------------------------------------------------------------------------
(* Every step is a call *)

\* The step is about r, which is active afterwards only with a prompt and within the bound.
LEMMA ActiveStep ==
    ASSUME ActiveInv, NEW r \in Requests, OthersKept(r),
           reqs'[r].phase = "active" =>
               /\ reqs'[r].prompt # << >>
               /\ \/ Len(reqs'[r].tokens) = Len(reqs'[r].prompt)
                  \/ Len(reqs'[r].tokens) <= MaxLen
    PROVE  ActiveInv'
<1> SUFFICES ASSUME NEW o \in Requests, reqs'[o].phase = "active"
             PROVE  /\ reqs'[o].prompt # << >>
                    /\ \/ Len(reqs'[o].tokens) = Len(reqs'[o].prompt)
                       \/ Len(reqs'[o].tokens) <= MaxLen
  BY DEF ActiveInv, Phase
<1>1. CASE o = r
  BY <1>1
<1>2. CASE o # r
  BY <1>2 DEF ActiveInv, Phase, OthersKept
<1> QED BY <1>1, <1>2

\* The last token of the prompt makes a request active.
LEMMA DecodeActive ==
    ASSUME IInv, IInv', ActiveInv, NEW r \in Requests, NEW k \in 1 .. Len(reqs[r].prompt),
           DecodePrompt(r, k)
    PROVE  ActiveInv'
<1>1. PICK prompt \in Seq(Token) : prompt = reqs[r].prompt
  BY DEF IInv, TypeOK, Slots
<1>2. PICK n : n = Len(reqs[r].tokens) + k
  OBVIOUS
<1>3. /\ OthersKept(r) /\ reqs'[r].prompt = prompt /\ reqs'[r].tokens = Prefix(prompt, n)
      /\ reqs'[r].phase = "active" => n = Len(prompt)
  BY <1>1, <1>2, DecodeFacts DEF OwnEffect
<1>4. Len(prompt) \in Nat /\ Len(prompt) > 0
  BY <1>1, LenProperties
<1>5. prompt # << >>
  BY <1>4
<1>6. n = Len(prompt) => Len(Prefix(prompt, n)) = n
  <2>1. Len(prompt) \in 0 .. Len(prompt)
    BY <1>4
  <2> QED BY <1>1, <1>2, <2>1, PrefixFacts
<1> QED BY <1>3, <1>5, <1>6, ActiveStep

\* Generation stops at the bound.
LEMMA GenerateActive ==
    ASSUME IInv, ActiveInv, NEW r \in Requests, NEW token \in Token, Generate(r, token)
    PROVE  ActiveInv'
<1>1. PICK T \in Seq(Token) : T = reqs[r].tokens
  BY DEF IInv, TypeOK, Slots
<1>2. /\ OthersKept(r) /\ Phase(r) = "active"
      /\ reqs'[r].prompt = reqs[r].prompt /\ reqs'[r].tokens = Append(T, token)
  BY <1>1, GenerateFacts DEF OwnEffect
<1>3. Len(T) < MaxLen
  BY <1>1 DEF Generate
<1>4. Len(Append(T, token)) <= MaxLen
  <2>1. Len(Append(T, token)) = Len(T) + 1 /\ Len(T) \in Nat
    BY <1>1, AppendProperties, LenProperties
  <2> QED BY <1>3, <2>1, CacheAssumption
<1>5. reqs[r].prompt # << >>
  BY <1>2 DEF ActiveInv
<1> QED BY <1>2, <1>4, <1>5, ActiveStep

\* Every step preserves what is said of active requests.
LEMMA ActiveNext == IInv /\ CacheInv /\ ActiveInv /\ [Next]_vars => ActiveInv'
<1> SUFFICES ASSUME IInv, CacheInv, ActiveInv, [Next]_vars PROVE ActiveInv'
  OBVIOUS
<1>1. IInv'
  BY NextInv
<1>2. CASE Next
  <2>1. ASSUME NEW r \in Requests, OthersKept(r), reqs'[r].phase # "active" PROVE ActiveInv'
    BY <2>1, ActiveStep
  <2>2. ASSUME NEW r \in Requests, NEW prompt \in Prompts, BeginPrepare(r, prompt)
        PROVE  ActiveInv'
    <3>1. OthersKept(r) /\ reqs'[r].phase = "pressure"
      BY <2>2, BeginPrepareEffect
    <3> QED BY <2>1, <3>1
  <2>3. ASSUME UNCHANGED reqs PROVE ActiveInv'
    BY <2>3 DEF ActiveInv, Phase
  <2>4. ASSUME NEW r \in Requests, Insert(r) PROVE ActiveInv'
    <3>1. OthersKept(r) /\ reqs'[r].phase = "inserted"
      BY <2>4, InsertFacts DEF InsertEffect
    <3> QED BY <2>1, <3>1
  <2>5. ASSUME NEW r \in Requests, Exhausted(r) PROVE ActiveInv'
    <3>1. OthersKept(r) /\ reqs'[r].phase = "none"
      BY <2>5, ExhaustedFacts
    <3> QED BY <2>1, <3>1
  <2>6. ASSUME NEW r \in Requests, Register(r) PROVE ActiveInv'
    <3>1. OthersKept(r) /\ reqs'[r].phase # "active"
      BY <1>1, <2>6, RegisterEffects DEF RegisterEffect
    <3> QED BY <2>1, <3>1
  <2>7. ASSUME NEW r \in Requests, NEW k \in 1 .. Len(reqs[r].prompt), DecodePrompt(r, k)
        PROVE  ActiveInv'
    BY <1>1, <2>7, DecodeActive
  <2>8. ASSUME NEW r \in Requests, NEW token \in Token, Generate(r, token) PROVE ActiveInv'
    BY <2>8, GenerateActive
  <2>9. ASSUME NEW r \in Requests, Retire(r) PROVE ActiveInv'
    <3>1. OthersKept(r) /\ reqs'[r].phase = "retiring"
      BY <1>1, <2>9, RetireFacts DEF OwnEffect
    <3> QED BY <2>1, <3>1
  <2>10. ASSUME NEW r \in Requests, FinishRetire(r) \/ Abandon(r) PROVE ActiveInv'
    <3>1. r \in Owning /\ (Busy(r) \/ Quiet) /\ ReleaseAll(r)
      BY <2>10 DEF FinishRetire, Abandon, Owning, Busy
    <3>2. OthersKept(r) /\ reqs'[r].phase = "none"
      BY <1>1, <3>1, ReleaseFacts DEF ReleaseEffect
    <3> QED BY <2>1, <3>2
  <2>11. ASSUME NEW r \in Requests, EvictPressure(r) \/ AllocateEvict(r) PROVE ActiveInv'
    BY <2>3, <2>11 DEF EvictPressure, AllocateEvict
  <2>12. ASSUME EvictIdle PROVE ActiveInv'
    BY <2>3, <2>12 DEF EvictIdle
  <2> QED
    BY <1>2, <2>2, <2>4, <2>5, <2>6, <2>7, <2>8, <2>9, <2>10, <2>11, <2>12 DEF Next
<1>3. CASE UNCHANGED vars
  BY <1>3 DEF vars, ActiveInv, Phase
<1> QED BY <1>2, <1>3

\* The initial state of the mapper is one of the calls.
LEMMA InitCalls == Init => Index!Init /\ ActiveInv
<1> SUFFICES ASSUME Init PROVE Index!Init /\ ActiveInv
  OBVIOUS
<1>1. /\ tree = EmptyTree /\ tick = 0
      /\ reqs = [r \in Requests |-> NoRequest] /\ NoRequest.phase = "none"
  BY DEF Init, NoRequest
<1>2. tree = Index!EmptyTree
  BY <1>1, SameTree
<1>3. Handle(NoRequest) = Held("none", << >>, Root, 0, 0, Root)
  BY <1>1, HandleFacts
<1>4. Handle(NoRequest) = Index!NoHandle
  BY <1>3 DEF Held, Index!NoHandle, Index!Root, Root
<1>5. Handles = [r \in Requests |-> Index!NoHandle]
  BY <1>1, <1>4 DEF Handles
<1>6. ActiveInv
  BY <1>1 DEF ActiveInv, Phase
<1> QED BY <1>1, <1>2, <1>5, <1>6 DEF Index!Init

\* What a step of the mapper is to the tree.
CallStep == Index!Next \/ \E r \in Requests, retain \in BOOLEAN : Index!End(r, retain)

\* Every step of the mapper is a call of the tree, the two last calls of a request, or none.
LEMMA NextCalls ==
    ASSUME IInv, CacheInv, ActiveInv, [Next]_vars
    PROVE  CallStep \/ UNCHANGED <<tree, tick, Handles>>
<1>1. IInv'
  BY NextInv
<1>2. CASE Next
  <2>1. ASSUME NEW r \in Requests, NEW prompt \in Prompts, BeginPrepare(r, prompt)
        PROVE  UNCHANGED <<tree, tick, Handles>>
    BY <2>1, BeginPrepareCalls
  <2>2. ASSUME Index!Evict PROVE CallStep
    BY <2>2 DEF CallStep, Index!Next
  <2>3. ASSUME NEW r \in Requests, EvictPressure(r) \/ AllocateEvict(r) PROVE CallStep
    <3>1. evict_one /\ UNCHANGED <<tick, reqs>> /\ Phase(r) \in {"pressure", "inserted"}
      BY <2>3 DEF EvictPressure, AllocateEvict
    <3>2. Index!Evict
      BY <3>1, EvictCalls
    <3> QED BY <2>2, <3>2
  <2>4. ASSUME NEW r \in Requests, Insert(r) PROVE CallStep
    <3>1. Index!Insert(r, reqs[r].prompt)
      BY <2>4, InsertCalls
    <3>2. reqs[r].prompt \in Prompts
      <4>1. Phase(r) # "none"
        BY <2>4 DEF Insert
      <4> QED BY <4>1 DEF CacheInv, Admitted
    <3> QED BY <3>1, <3>2 DEF CallStep, Index!Next
  <2>5. ASSUME NEW r \in Requests, Exhausted(r) PROVE CallStep
    <3>1. Index!Release(r)
      BY <2>5, ExhaustedCalls
    <3> QED BY <3>1 DEF CallStep, Index!Next
  <2>6. ASSUME NEW r \in Requests, Register(r) PROVE CallStep
    <3>1. PICK s \in SeqIds : Index!Register(r, s)
      BY <1>1, <2>6, RegisterCalls
    <3> QED BY <3>1 DEF CallStep, Index!Next
  <2>7. ASSUME NEW r \in Requests, NEW k \in 1 .. Len(reqs[r].prompt), DecodePrompt(r, k)
        PROVE  CallStep \/ UNCHANGED <<tree, tick, Handles>>
    <3>1. CASE Index!MarkReady(r)
      BY <3>1 DEF CallStep, Index!Next
    <3> QED BY <2>7, <3>1, DecodeCalls
  <2>8. ASSUME NEW r \in Requests, NEW token \in Token, Generate(r, token)
        PROVE  UNCHANGED <<tree, tick, Handles>>
    BY <2>8, GenerateCalls
  <2>9. ASSUME NEW r \in Requests, Retire(r)
        PROVE  CallStep \/ UNCHANGED <<tree, tick, Handles>>
    <3>1. CASE prefix_cache_enabled /\ reqs[r].seq \in tree[reqs[r].leaf].ready_seq_ids
      <4>1. PICK more \in Generated : Index!Extend(r, more)
        BY <2>9, <3>1, ExtendCalls
      <4> QED BY <4>1 DEF CallStep, Index!Next, Generated
    <3>2. CASE ~ (prefix_cache_enabled /\ reqs[r].seq \in tree[reqs[r].leaf].ready_seq_ids)
      BY <2>9, <3>2, StayCalls
    <3> QED BY <3>1, <3>2
  <2>10. ASSUME NEW r \in Requests, FinishRetire(r) \/ Abandon(r) PROVE CallStep
    <3>1. r \in Owning /\ (Busy(r) \/ Quiet) /\ ReleaseAll(r)
      BY <2>10 DEF FinishRetire, Abandon, Owning, Busy
    <3>2. PICK retain \in BOOLEAN : Index!End(r, retain)
      BY <3>1, ReleaseCalls
    <3> QED BY <3>2 DEF CallStep
  <2>11. ASSUME EvictIdle PROVE CallStep
    <3>1. Quiet /\ evict_one /\ UNCHANGED <<tick, reqs>>
      BY <2>11 DEF EvictIdle
    <3>2. Index!Evict
      BY <3>1, EvictCalls
    <3> QED BY <2>2, <3>2
  <2> QED
    BY <1>2, <2>1, <2>3, <2>4, <2>5, <2>6, <2>7, <2>8, <2>9, <2>10, <2>11 DEF Next
<1>3. CASE UNCHANGED vars
  BY <1>3 DEF vars, Handles
<1> QED BY <1>2, <1>3

\* worker.cpp and kv_mapper.cpp call the tree only as RadixIndex allows, whatever the
\* vocabulary, the prompts, the number of ids and of concurrent requests: insert, register,
\* mark ready, extend and release in this order for every request, also for one that is
\* cancelled, fails or finds no id; no call for another request, and no eviction, where
\* a raw node pointer would not survive it.
THEOREM MapperCallsIndex == Spec => CallsIndex
<1>1. Init => IInv /\ CacheInv /\ ActiveInv /\ Index!Init
  BY InitInv, InitCache, InitCalls
<1>2. IInv /\ CacheInv /\ ActiveInv /\ [Next]_vars => (IInv /\ CacheInv /\ ActiveInv)'
  BY NextInv, CacheNext, ActiveNext
<1>3. IInv /\ CacheInv /\ ActiveInv /\ [Next]_vars
          => [Index!Next \/ \E r \in Requests, retain \in BOOLEAN : Index!End(r, retain)]_
                 <<tree, tick, Handles>>
  BY NextCalls DEF CallStep
<1> QED BY <1>1, <1>2, <1>3, PTL DEF Spec, CallsIndex, Index!Calls, Index!vars
=============================================================================
