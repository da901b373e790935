---------------------------- MODULE KVMapperProofs ----------------------------
(***************************************************************************)
(* Proofs about KVMapper.  The invariant IInv is inductive; the theorems   *)
(* at the end read the safety properties off it, for every vocabulary, set *)
(* of prompts, number of sequences and number of concurrent requests.      *)
(***************************************************************************)
EXTENDS KVMapper, FiniteSetTheorems, SequenceTheorems, TLAPS

-----------------------------------------------------------------------------
(* Token paths *)

\* Prefix cuts a sequence after its first n elements.
LEMMA PrefixFacts ==
    ASSUME NEW S, NEW s \in Seq(S), NEW n \in 0 .. Len(s)
    PROVE  /\ Prefix(s, n) \in Seq(S)
           /\ Len(Prefix(s, n)) = n
           /\ \A i \in 1 .. n : Prefix(s, n)[i] = s[i]
           /\ Prefix(s, n) \sqsubseteq s
<1>1. \A i \in 1 .. n : s[i] \in S
  BY ElementOfSeq, LenProperties
<1>2. /\ SubSeq(s, 1, n) \in Seq(S)
      /\ Len(SubSeq(s, 1, n)) = IF 1 <= n THEN n - 1 + 1 ELSE 0
      /\ \A i \in 1 .. n - 1 + 1 : SubSeq(s, 1, n)[i] = s[1 + i - 1]
  BY <1>1, SubSeqProperties, LenProperties
<1>3. Len(s) \in Nat
  BY LenProperties
<1> QED
  BY <1>2, <1>3 DEF Prefix, \sqsubseteq

\* The prefix relation is reflexive and transitive.
LEMMA PrefixOrder ==
    ASSUME NEW S, NEW p \in Seq(S), NEW q \in Seq(S), NEW w \in Seq(S)
    PROVE  /\ p \sqsubseteq p
           /\ p \sqsubseteq q /\ q \sqsubseteq w => p \sqsubseteq w
<1> Len(p) \in Nat /\ Len(q) \in Nat /\ Len(w) \in Nat
  BY LenProperties
<1> QED
  BY DEF \sqsubseteq

\* Pruning removes dead nodes other than the root and changes no other node.
LEMMA PruneFacts ==
    ASSUME NEW S, NEW t, DOMAIN t \subseteq Seq(S), NEW e
    PROVE  /\ DOMAIN prune_empty_leaves(t, e) \subseteq DOMAIN t
           /\ \A p \in DOMAIN prune_empty_leaves(t, e) :
                  prune_empty_leaves(t, e)[p] = t[p]
           /\ \A p \in DOMAIN t \ DOMAIN prune_empty_leaves(t, e) :
                  /\ p # Root
                  /\ \A q \in DOMAIN t : p \sqsubseteq q => Dead(t[q])
                  /\ Dead(t[p])
<1>1. \A p \in DOMAIN t : p \sqsubseteq p
  BY PrefixOrder
<1> QED
  BY <1>1 DEF prune_empty_leaves, Prunable

-----------------------------------------------------------------------------
(* Initial states *)

\* The ids that the pool of max_sequences hands out are finitely many.
LEMMA FiniteIds == /\ IsFiniteSet(SeqIds)
                   /\ \A S \in SUBSET SeqIds : /\ IsFiniteSet(S)
                                               /\ Cardinality(S) \in Nat
<1>1. IsFiniteSet(SeqIds)
  BY SequencesAssumption, FS_Interval DEF SeqIds
<1> QED
  BY <1>1, FS_Subset, FS_CardinalityType

\* The constructors of tree and mapper, with no request in flight, establish the invariant.
LEMMA InitInv == Init => IInv
<1> SUFFICES ASSUME Init PROVE IInv
  OBVIOUS
<1> USE DEF Init
<1>1. /\ DOMAIN tree = {Root}
      /\ tree[Root] = [ref_count |-> 1, seq_ids |-> {}, ready_seq_ids |-> {},
                       last_access_tick |-> 0, canonical_len |-> 0]
  BY DEF EmptyTree, NewNode
<1>2. Holding = {} /\ Owning = {}
  BY DEF Holding, Owning, Phase, NoRequest
<1>3. Root \in Seq(Token)
  BY EmptySeq DEF Root
<1>4. InitialPool \in Seq(SeqIds) /\ Len(InitialPool) = max_sequences - 1
  BY SequencesAssumption, IsASeq DEF InitialPool, SeqIds
<1>5. TypeOK
  BY <1>1, <1>3, <1>4, EmptySeq DEF TypeOK, Nodes, Slots, NoRequest, NoSeq, Root
<1>6. RequestInv
  BY <1>2 DEF RequestInv, Busy, Phase, NoRequest
<1>7. RefCountExact
  <2> HIDE DEF Init
  <2>1. Cardinality(Holders(Root)) = 0
    BY <1>2, FS_EmptySet DEF Holders
  <2>2. \A p \in DOMAIN tree : p = Root
    BY <1>1
  <2>3. tree[Root].ref_count = Cardinality(Holders(Root)) + 1
    BY <1>1, <2>1
  <2> QED
    BY <1>2, <2>2, <2>3 DEF RefCountExact
<1>8. OwnedRegistered /\ RequestKvExact
  BY <1>2 DEF OwnedRegistered, RequestKvExact
<1>9. SeqIdConservation
  <2>1. Registered = {}
    BY <1>1 DEF Registered
  <2>2. Range(free_seq_ids) = SeqIds
    BY DEF InitialPool, Range
  <2>3. DOMAIN seq_cell_counts = {}
    BY EmptySeq
  <2> QED
    BY <1>1, <2>1, <2>2, <2>3 DEF SeqIdConservation, InitialPool
<1>10. ReadyCoversPath
  BY <1>1 DEF ReadyCoversPath
<1>11. PooledEmpty
  <2>1. Range(free_seq_ids) = SeqIds
    BY DEF InitialPool, Range
  <2> QED
    BY <2>1 DEF PooledEmpty
<1>12. CacheNodeAlive
  BY DEF CacheNodeAlive, Phase, NoRequest
<1> QED
  BY <1>5, <1>6, <1>7, <1>8, <1>9, <1>10, <1>11, <1>12 DEF IInv

-----------------------------------------------------------------------------
(* The pool of ids and the references *)

Distinct(f) == \A i, j \in DOMAIN f : f[i] = f[j] => i = j

\* The ids of an evicted node, in ascending order, are each listed once.
LEMMA AscendingFacts ==
    ASSUME NEW S \in SUBSET SeqIds, NEW q \in Ascending(S)
    PROVE  q \in Seq(SeqIds) /\ Distinct(q) /\ Range(q) = S
<1> DEFINE n == Cardinality(S)
<1>1. n \in Nat /\ IsFiniteSet(S)
  BY FiniteIds
<1>2. q \in [1 .. n -> S] /\ \A i, j \in 1 .. n : i < j => q[i] < q[j]
  BY DEF Ascending
<1>3. \A i \in 1 .. n : q[i] \in Int
  <2>1. \A i \in 1 .. n : q[i] \in SeqIds
    BY <1>2
  <2> QED
    BY <2>1, SequencesAssumption DEF SeqIds
<1>4. \A i, j \in 1 .. n : q[i] = q[j] => i = j
  BY <1>1, <1>2, <1>3
<1>5. Distinct(q)
  BY <1>2, <1>4 DEF Distinct
<1>6. q \in Seq(SeqIds)
  <2>1. q \in [1 .. n -> SeqIds]
    BY <1>2
  <2>2. \A i \in 1 .. n : q[i] \in SeqIds
    BY <1>2
  <2>3. [i \in 1 .. n |-> q[i]] \in Seq(SeqIds)
    BY <1>1, <2>2, IsASeq
  <2> QED
    BY <2>1, <2>3
<1>7. Range(q) = S
  <2>1. q \in Injection(1 .. n, S)
    BY <1>2, <1>4 DEF Injection, IsInjective
  <2>2. Cardinality(1 .. n) = n
    BY <1>1, FS_Interval
  <2>3. q \in Surjection(1 .. n, S)
    BY <1>1, <2>1, <2>2, FS_Injection
  <2> QED
    BY <1>2, <2>3 DEF Surjection, Range
<1> QED
  BY <1>5, <1>6, <1>7

\* Ids appended behind others that differ from them.
LEMMA ConcatDistinct ==
    ASSUME NEW S, NEW f \in Seq(S), NEW q \in Seq(S), Distinct(f), Distinct(q),
           Range(f) \cap Range(q) = {}
    PROVE  Distinct(f \o q)
<1>1. /\ f \o q \in Seq(S) /\ Len(f) \in Nat /\ Len(q) \in Nat
      /\ DOMAIN f = 1 .. Len(f) /\ DOMAIN q = 1 .. Len(q)
      /\ DOMAIN (f \o q) = 1 .. Len(f) + Len(q)
  BY ConcatProperties, LenProperties
<1>2. \A i \in 1 .. Len(f) + Len(q) :
          (f \o q)[i] = IF i <= Len(f) THEN f[i] ELSE q[i - Len(f)]
  BY ConcatProperties
<1>3. \A i \in DOMAIN f, j \in DOMAIN q : f[i] # q[j]
  BY DEF Range
<1> SUFFICES ASSUME NEW i \in 1 .. Len(f) + Len(q), NEW j \in 1 .. Len(f) + Len(q),
                    (f \o q)[i] = (f \o q)[j]
             PROVE  i = j
  BY <1>1 DEF Distinct
<1>4. CASE i <= Len(f) /\ j <= Len(f)
  BY <1>1, <1>2, <1>4 DEF Distinct
<1>5. CASE i > Len(f) /\ j > Len(f)
  <2>1. q[i - Len(f)] = q[j - Len(f)] /\ i - Len(f) \in DOMAIN q /\ j - Len(f) \in DOMAIN q
    BY <1>1, <1>2, <1>5
  <2>2. i - Len(f) = j - Len(f)
    BY <2>1 DEF Distinct
  <2> QED
    BY <1>1, <2>2
<1>6. CASE i <= Len(f) /\ j > Len(f)
  <2>1. i \in DOMAIN f /\ j - Len(f) \in DOMAIN q /\ f[i] = q[j - Len(f)]
    BY <1>1, <1>2, <1>6
  <2> QED
    BY <1>3, <2>1
<1>7. CASE i > Len(f) /\ j <= Len(f)
  <2>1. j \in DOMAIN f /\ i - Len(f) \in DOMAIN q /\ f[j] = q[i - Len(f)]
    BY <1>1, <1>2, <1>7
  <2> QED
    BY <1>3, <2>1
<1> QED
  BY <1>1, <1>4, <1>5, <1>6, <1>7

\* The requests that hold a node can be counted, as ref_count does.
LEMMA HoldersFinite ==
    ASSUME NEW p
    PROVE  IsFiniteSet(Holders(p)) /\ Cardinality(Holders(p)) \in Nat
<1>1. Holders(p) \in SUBSET Requests
  BY DEF Holders, Holding
<1> QED
  BY <1>1, RequestsAssumption, FS_Subset, FS_CardinalityType

\* A node that a request holds is referenced.
LEMMA HeldReferenced ==
    ASSUME RefCountExact, NEW r \in Holding
    PROVE  /\ reqs[r].leaf \in DOMAIN tree
           /\ tree[reqs[r].leaf].ref_count # 0
<1>1. r \in Holders(reqs[r].leaf)
  BY DEF Holders
<1>2. Cardinality(Holders(reqs[r].leaf)) # 0
  BY <1>1, HoldersFinite, FS_EmptySet
<1> QED
  BY <1>2, HoldersFinite DEF RefCountExact

-----------------------------------------------------------------------------
(* Eviction *)

\* evict_one between two calls, or inside prepare_sequence: no request is retiring, so
\* every sequence in use is registered at a referenced node and is passed over.
LEMMA EvictOneInv ==
    ASSUME IInv, evict_one, UNCHANGED <<tick, reqs>>,
           \A r \in Requests : Phase(r) # "retiring"
    PROVE  IInv'
<1> USE DEF IInv
<1>1. PICK p \in find_eviction_candidates(tree) :
          /\ tree' = evict(tree, p)
          /\ kv' = [s \in SeqIds |-> IF s \in tree[p].seq_ids THEN << >> ELSE kv[s]]
          /\ \E q \in Ascending(tree[p].seq_ids) : free_seq_ids' = free_seq_ids \o q
          /\ seq_cell_counts' = Restrict(seq_cell_counts,
                                         DOMAIN seq_cell_counts \ tree[p].seq_ids)
          /\ retained_seq_ids' = retained_seq_ids \ tree[p].seq_ids
  BY DEF evict_one
<1> DEFINE ids == tree[p].seq_ids
           t   == [tree EXCEPT ![p] = [@ EXCEPT !.seq_ids = {}, !.ready_seq_ids = {},
                                                !.canonical_len = 0]]
<1>2. /\ p \in DOMAIN tree /\ p # Root /\ tree[p] \in Nodes
      /\ tree[p].ref_count = 0 /\ ids # {} /\ ids \in SUBSET SeqIds
  BY DEF find_eviction_candidates, Candidates, TypeOK, Nodes
<1>3. /\ DOMAIN t = DOMAIN tree
      /\ \A q \in DOMAIN tree \ {p} : t[q] = tree[q]
      /\ t[p] = [tree[p] EXCEPT !.seq_ids = {}, !.ready_seq_ids = {}, !.canonical_len = 0]
  BY <1>2
<1>4. /\ t[p].seq_ids = {} /\ t[p].ready_seq_ids = {} /\ t[p].canonical_len = 0
      /\ t[p].ref_count = 0 /\ t[p] \in Nodes
  BY <1>2, <1>3 DEF Nodes
<1>5. tree' = prune_empty_leaves(t, p)
  BY <1>1 DEF evict
<1> HIDE DEF t
<1>6. /\ DOMAIN tree' \subseteq DOMAIN tree
      /\ \A q \in DOMAIN tree' : tree'[q] = t[q]
      /\ \A q \in DOMAIN tree \ DOMAIN tree' :
             q # Root /\ Dead(t[q]) /\ \A w \in DOMAIN t : q \sqsubseteq w => Dead(t[w])
  <2>1. DOMAIN t \subseteq Seq(Token)
    BY <1>3 DEF TypeOK
  <2> QED
    BY <1>3, <1>5, <2>1, PruneFacts
<1>7. \A q \in DOMAIN tree :
          t[q].ref_count = tree[q].ref_count /\ t[q].seq_ids = tree[q].seq_ids \ ids
  BY <1>2, <1>3, <1>4 DEF SeqIdConservation
<1>8. \A r \in Holding : reqs[r].leaf \in DOMAIN tree'
  BY <1>3, <1>6, <1>7, HeldReferenced DEF Dead
<1>9. /\ Holding' = Holding /\ Owning' = Owning
      /\ \A q : Holders(q)' = Holders(q)
  BY DEF Holding, Owning, Phase, Holders
<1>10. \A r \in Owning : /\ r \in Holding /\ reqs[r].node = reqs[r].leaf
                         /\ reqs[r].leaf # p /\ reqs[r].seq \notin ids
                         /\ reqs[r].seq \in SeqIds
  <2> SUFFICES ASSUME NEW r \in Owning
               PROVE  /\ r \in Holding /\ reqs[r].node = reqs[r].leaf
                      /\ reqs[r].leaf # p /\ reqs[r].seq \notin ids
                      /\ reqs[r].seq \in SeqIds
    OBVIOUS
  <2>1. r \in Holding /\ r \in Requests
    BY DEF Owning, Holding
  <2>2. reqs[r].node = reqs[r].leaf
    BY <2>1 DEF RequestInv
  <2>3. reqs[r].leaf # p
    BY <1>2, <2>1, HeldReferenced
  <2>4. reqs[r].leaf \in DOMAIN tree /\ reqs[r].seq \in tree[reqs[r].leaf].seq_ids
    BY <2>2 DEF OwnedRegistered
  <2> QED
    BY <1>2, <2>1, <2>2, <2>3, <2>4 DEF SeqIdConservation, TypeOK, Nodes
<1>11. TypeOK'
  <2>1. \A q \in DOMAIN tree' : tree'[q] \in Nodes
    BY <1>2, <1>3, <1>4, <1>6 DEF TypeOK
  <2>2. Root \in DOMAIN tree'
    BY <1>6 DEF TypeOK
  <2>3. free_seq_ids' \in Seq(SeqIds)
    <3>1. PICK q \in Ascending(ids) : free_seq_ids' = free_seq_ids \o q
      BY <1>1
    <3>2. q \in Seq(SeqIds) /\ free_seq_ids \in Seq(SeqIds)
      BY <1>2, <3>1, AscendingFacts DEF TypeOK
    <3> QED
      BY <3>1, <3>2, ConcatProperties
  <2>4. /\ DOMAIN seq_cell_counts' \subseteq SeqIds
        /\ \A s \in DOMAIN seq_cell_counts' : seq_cell_counts'[s] \in Nat
    BY <1>1 DEF TypeOK, Restrict
  <2>5. kv' \in [SeqIds -> Seq(Token)]
    BY <1>1, EmptySeq DEF TypeOK
  <2> QED
    BY <1>1, <1>6, <2>1, <2>2, <2>3, <2>4, <2>5 DEF TypeOK
<1>12. RequestInv'
  BY <1>9 DEF RequestInv, Busy, Phase
<1>13. RefCountExact'
  BY <1>6, <1>7, <1>8, <1>9 DEF RefCountExact
<1>14. OwnedRegistered'
  BY <1>6, <1>7, <1>8, <1>9, <1>10 DEF OwnedRegistered
<1>15. Registered' = Registered \ ids
  <2>1. \A q \in DOMAIN tree \ DOMAIN tree' : tree[q].seq_ids \ ids = {}
    BY <1>6, <1>7 DEF Dead
  <2> QED
    BY <1>6, <1>7, <2>1 DEF Registered
<1>16. PICK q \in Ascending(ids) : free_seq_ids' = free_seq_ids \o q
  BY <1>1
<1>17. q \in Seq(SeqIds) /\ Distinct(q) /\ Range(q) = ids
  BY <1>2, <1>16, AscendingFacts
<1>18. Range(free_seq_ids') = Range(free_seq_ids) \cup ids
  BY <1>16, <1>17, RangeConcatenation DEF TypeOK
<1>19. SeqIdConservation'
  <2>1. ids \subseteq Registered
    BY <1>2 DEF Registered
  <2>2. Distinct(free_seq_ids')
    <3>1. free_seq_ids \in Seq(SeqIds) /\ Range(free_seq_ids) \cap Range(q) = {}
      BY <1>17, <2>1 DEF SeqIdConservation, TypeOK
    <3>2. Distinct(free_seq_ids)
      BY DEF SeqIdConservation, Distinct
    <3> QED
      BY <1>16, <1>17, <3>1, <3>2, ConcatDistinct
  <2>3. Registered' = SeqIds \ Range(free_seq_ids')
    BY <1>15, <1>18 DEF SeqIdConservation
  <2>4. \A v, w \in DOMAIN tree' : v # w => tree'[v].seq_ids \cap tree'[w].seq_ids = {}
    BY <1>6, <1>7 DEF SeqIdConservation
  <2>5. DOMAIN seq_cell_counts' = Registered'
    BY <1>1, <1>15 DEF SeqIdConservation, Restrict
  <2> QED
    BY <2>2, <2>3, <2>4, <2>5 DEF SeqIdConservation, Distinct
<1>20. ReadyCoversPath'
  <2> SUFFICES ASSUME NEW w \in DOMAIN tree'
               PROVE  /\ tree'[w].ready_seq_ids \subseteq tree'[w].seq_ids
                      /\ \A s \in tree'[w].ready_seq_ids : w \sqsubseteq kv'[s]
                      /\ IF tree'[w].seq_ids = {} THEN tree'[w].canonical_len = 0
                                                  ELSE tree'[w].canonical_len >= Len(w)
    BY DEF ReadyCoversPath
  <2>1. CASE w = p
    BY <1>4, <1>6, <2>1
  <2>2. CASE w # p
    <3>1. tree'[w] = tree[w] /\ w \in DOMAIN tree
      BY <1>3, <1>6, <2>2
    <3>2. \A s \in tree[w].ready_seq_ids : kv'[s] = kv[s]
      BY <1>1, <1>2, <2>2, <3>1 DEF ReadyCoversPath, SeqIdConservation, TypeOK, Nodes
    <3> QED
      BY <3>1, <3>2 DEF ReadyCoversPath
  <2> QED
    BY <2>1, <2>2
<1>21. RequestKvExact'
  BY <1>1, <1>9, <1>10 DEF RequestKvExact
<1>22. PooledEmpty'
  <2>1. Range(free_seq_ids) \subseteq SeqIds
    BY RangeOfSeq DEF TypeOK
  <2> QED
    BY <1>1, <1>2, <1>18, <2>1 DEF PooledEmpty
<1>23. CacheNodeAlive'
  <2> SUFFICES ASSUME NEW r \in Requests, Phase(r) = "inserted"
               PROVE  Prefix(reqs[r].prompt, reqs[r].matched) \in DOMAIN tree'
    BY DEF CacheNodeAlive, Phase
  <2>1. r \in Holding
    BY DEF Holding
  <2>2. /\ reqs[r].leaf = reqs[r].prompt /\ reqs[r].prompt \in Seq(Token)
        /\ reqs[r].matched \in 0 .. Len(reqs[r].prompt)
    BY <2>1 DEF RequestInv, TypeOK, Slots
  <2>3. Prefix(reqs[r].prompt, reqs[r].matched) \sqsubseteq reqs[r].leaf
    BY <2>2, PrefixFacts
  <2>4. reqs[r].leaf \in DOMAIN tree /\ ~ Dead(t[reqs[r].leaf])
    BY <1>7, <2>1, HeldReferenced DEF Dead
  <2> QED
    BY <1>3, <1>6, <2>3, <2>4 DEF CacheNodeAlive
<1> QED
  BY <1>11, <1>12, <1>13, <1>14, <1>19, <1>20, <1>21, <1>22, <1>23

-----------------------------------------------------------------------------
(* Splits *)

\* Two paths that are prefixes of each other are equal.
LEMMA PrefixAntisymmetric ==
    ASSUME NEW S, NEW p \in Seq(S), NEW q \in Seq(S), p \sqsubseteq q, q \sqsubseteq p
    PROVE  p = q
<1>1. Len(p) \in Nat /\ Len(q) \in Nat
  BY LenProperties
<1>2. Len(p) = Len(q) /\ \A i \in 1 .. Len(p) : p[i] = q[i]
  BY <1>1 DEF \sqsubseteq
<1> QED
  BY <1>2, SeqEqual

\* The requests that hold the node at p once x has been split at cut.
HoldersAfter(p, x, cut) == {o \in Holding : Follow(reqs[o].leaf, x, cut) = p}

\* The split as such: what the tree and the pointers into it are afterwards.
LEMMA SplitFacts ==
    ASSUME TypeOK, NEW cut \in Seq(Token), NEW x, EdgeNode(tree, cut, x)
    PROVE  /\ x \in DOMAIN tree /\ x \in Seq(Token) /\ cut \sqsubseteq x
           /\ cut \in DOMAIN tree => cut = x
           /\ cut = Root <=> x = Root
           /\ DOMAIN split_node(tree, x, cut) = DOMAIN tree \cup {cut}
           /\ split_node(tree, x, cut)[cut] = tree[x]
           /\ x # cut => split_node(tree, x, cut)[x] = NewNode(tree[x].last_access_tick)
           /\ \A p \in DOMAIN tree \ {x, cut} : split_node(tree, x, cut)[p] = tree[p]
<1>1. x \in DOMAIN tree /\ x \in Seq(Token) /\ cut \sqsubseteq x
  BY DEF EdgeNode, TypeOK
<1>2. cut \in DOMAIN tree => cut = x
  BY <1>1, PrefixOrder, PrefixAntisymmetric DEF EdgeNode
<1>3. cut = Root <=> x = Root
  <2>1. cut = Root => x = Root
    BY <1>2 DEF TypeOK
  <2>2. ASSUME x = Root PROVE cut = Root
    <3>1. Len(Root) = 0 /\ Root \in Seq(Token)
      BY EmptySeq DEF Root
    <3>2. Len(cut) \in Nat
      BY LenProperties
    <3>3. Len(cut) = 0
      BY <1>1, <2>2, <3>1, <3>2 DEF \sqsubseteq
    <3> QED
      BY <3>3, EmptySeq DEF Root
  <2> QED
    BY <2>1, <2>2
<1> QED
  BY <1>1, <1>2, <1>3 DEF split_node

\* The invariants of the tree hold of the split tree.
LEMMA SplitInv ==
    ASSUME TypeOK, SeqIdConservation, ReadyCoversPath, RefCountExact,
           NEW cut \in Seq(Token), NEW x, EdgeNode(tree, cut, x),
           NEW STATE d, d = split_node(tree, x, cut)
    PROVE  /\ DOMAIN d \subseteq Seq(Token) /\ Root \in DOMAIN d /\ cut \in DOMAIN d
           /\ \A p \in DOMAIN d : d[p] \in Nodes
           /\ \A p, q \in DOMAIN d : p # q => d[p].seq_ids \cap d[q].seq_ids = {}
           /\ UNION {d[p].seq_ids : p \in DOMAIN d} = Registered
           /\ \A p \in DOMAIN d :
                 /\ d[p].ready_seq_ids \subseteq d[p].seq_ids
                 /\ \A s \in d[p].ready_seq_ids : p \sqsubseteq kv[s]
                 /\ IF d[p].seq_ids = {} THEN d[p].canonical_len = 0
                                         ELSE d[p].canonical_len >= Len(p)
           /\ \A p \in DOMAIN tree : /\ Follow(p, x, cut) \in DOMAIN d
                                     /\ d[Follow(p, x, cut)] = tree[p]
           /\ \A p \in DOMAIN d :
                 d[p].ref_count = Cardinality(HoldersAfter(p, x, cut))
                                      + (IF p = Root THEN 1 ELSE 0)
           /\ \A p : p \notin DOMAIN d => HoldersAfter(p, x, cut) = {}
<1>1. /\ x \in DOMAIN tree /\ x \in Seq(Token) /\ cut \sqsubseteq x
      /\ cut \in DOMAIN tree => cut = x
      /\ cut = Root <=> x = Root
      /\ DOMAIN d = DOMAIN tree \cup {cut}
      /\ d[cut] = tree[x]
      /\ x # cut => d[x] = NewNode(tree[x].last_access_tick)
      /\ \A p \in DOMAIN tree \ {x, cut} : d[p] = tree[p]
  <2>1. /\ x \in DOMAIN tree /\ x \in Seq(Token) /\ cut \sqsubseteq x
        /\ cut \in DOMAIN tree => cut = x
        /\ cut = Root <=> x = Root
    BY SplitFacts
  <2>2. DOMAIN d = DOMAIN tree \cup {cut} /\ d[cut] = tree[x]
    BY DEF split_node
  <2>3. x # cut => d[x] = NewNode(tree[x].last_access_tick)
    BY <2>1 DEF split_node
  <2>4. \A p \in DOMAIN tree \ {x, cut} : d[p] = tree[p]
    BY DEF split_node
  <2> QED
    BY <2>1, <2>2, <2>3, <2>4
<1>2. x # cut => /\ d[x] \in Nodes /\ d[x].seq_ids = {} /\ d[x].ready_seq_ids = {}
                 /\ d[x].canonical_len = 0 /\ d[x].ref_count = 0
  BY <1>1 DEF NewNode, Nodes, TypeOK
<1>3. DOMAIN d \subseteq Seq(Token) /\ Root \in DOMAIN d /\ cut \in DOMAIN d
  BY <1>1 DEF TypeOK
<1>4. \A p \in DOMAIN d : d[p] \in Nodes
  BY <1>1, <1>2 DEF TypeOK
<1>5. \A p, q \in DOMAIN d : p # q => d[p].seq_ids \cap d[q].seq_ids = {}
  BY <1>1, <1>2 DEF SeqIdConservation
<1>6. UNION {d[p].seq_ids : p \in DOMAIN d} = Registered
  BY <1>1, <1>2 DEF Registered
<1>7. ASSUME NEW p \in DOMAIN d
      PROVE  /\ d[p].ready_seq_ids \subseteq d[p].seq_ids
             /\ \A s \in d[p].ready_seq_ids : p \sqsubseteq kv[s]
             /\ IF d[p].seq_ids = {} THEN d[p].canonical_len = 0
                                     ELSE d[p].canonical_len >= Len(p)
  <2>1. CASE p = cut
    <3>1. \A s \in tree[x].ready_seq_ids : x \sqsubseteq kv[s] /\ kv[s] \in Seq(Token)
      BY <1>1 DEF ReadyCoversPath, TypeOK, Nodes
    <3>2. \A s \in tree[x].ready_seq_ids : cut \sqsubseteq kv[s]
      BY <1>1, <3>1, PrefixOrder
    <3>3. Len(cut) <= Len(x) /\ Len(cut) \in Nat /\ Len(x) \in Nat
      BY <1>1, LenProperties DEF \sqsubseteq
    <3>4. tree[x].canonical_len \in Nat
      BY <1>1 DEF TypeOK, Nodes
    <3> QED
      BY <1>1, <2>1, <3>2, <3>3, <3>4 DEF ReadyCoversPath
  <2>2. CASE p # cut /\ p = x
    BY <1>2, <2>2
  <2>3. CASE p # cut /\ p # x
    BY <1>1, <2>3 DEF ReadyCoversPath
  <2> QED
    BY <2>1, <2>2, <2>3
<1>8. \A p \in DOMAIN tree : /\ Follow(p, x, cut) \in DOMAIN d
                             /\ d[Follow(p, x, cut)] = tree[p]
  BY <1>1 DEF Follow
<1>9. \A o \in Holding : reqs[o].leaf \in DOMAIN tree
  BY DEF RefCountExact
<1>10. ASSUME NEW p \in DOMAIN d
       PROVE  d[p].ref_count = Cardinality(HoldersAfter(p, x, cut))
                                   + (IF p = Root THEN 1 ELSE 0)
  <2>1. CASE p = cut
    <3>1. HoldersAfter(p, x, cut) = Holders(x)
      BY <1>1, <1>9, <2>1 DEF HoldersAfter, Holders, Follow
    <3> QED
      BY <1>1, <2>1, <3>1 DEF RefCountExact
  <2>2. CASE p # cut /\ p = x
    <3>1. HoldersAfter(p, x, cut) = {}
      BY <2>2 DEF HoldersAfter, Follow
    <3> QED
      BY <1>1, <1>2, <2>2, <3>1, FS_EmptySet
  <2>3. CASE p # cut /\ p # x
    <3>1. HoldersAfter(p, x, cut) = Holders(p)
      BY <2>3 DEF HoldersAfter, Holders, Follow
    <3> QED
      BY <1>1, <2>3, <3>1 DEF RefCountExact
  <2> QED
    BY <2>1, <2>2, <2>3
<1>11. \A p : p \notin DOMAIN d => HoldersAfter(p, x, cut) = {}
  BY <1>8, <1>9 DEF HoldersAfter
<1> QED
  BY <1>3, <1>4, <1>5, <1>6, <1>7, <1>8, <1>10, <1>11

-----------------------------------------------------------------------------
(* Preparation *)

\* prepare_all entering prepare_sequence: only the request's phase and prompt change.
LEMMA BeginPrepareInv ==
    ASSUME IInv, NEW r \in Requests, NEW prompt \in Prompts, BeginPrepare(r, prompt)
    PROVE  IInv'
<1> USE DEF IInv
<1>1. /\ Quiet /\ Phase(r) = "none"
      /\ reqs' = [reqs EXCEPT ![r] = [NoRequest EXCEPT !.phase = "pressure",
                                                       !.prompt = prompt]]
      /\ UNCHANGED <<tree, tick, free_seq_ids, seq_cell_counts, retained_seq_ids, kv>>
  BY DEF BeginPrepare, mapper
<1>2. prompt \in Seq(Token)
  BY PromptsAssumption
<1>3. reqs'[r] = [phase |-> "pressure", prompt |-> prompt, leaf |-> Root, matched |-> 0,
                  seq |-> NoSeq, tokens |-> << >>, node |-> Root]
  BY <1>1 DEF NoRequest, TypeOK
<1>4. /\ \A o \in Requests \ {r} : reqs'[o] = reqs[o]
      /\ Holding' = Holding /\ Owning' = Owning /\ r \notin Holding /\ r \notin Owning
  BY <1>1, <1>3 DEF Holding, Owning, Phase, TypeOK
<1>5. TypeOK'
  <2>1. reqs'[r] \in Slots
    BY <1>2, <1>3, EmptySeq DEF Slots, Root
  <2> QED
    BY <1>1, <2>1 DEF TypeOK
<1>6. RequestInv'
  BY <1>1, <1>3, <1>4 DEF RequestInv, Quiet, Busy, Phase
<1>7. RefCountExact'
  <2>1. \A p : Holders(p)' = Holders(p)
    BY <1>4 DEF Holders, Holding
  <2> QED
    BY <1>1, <1>4, <2>1 DEF RefCountExact, Holding
<1>8. OwnedRegistered' /\ RequestKvExact'
  BY <1>1, <1>4 DEF OwnedRegistered, RequestKvExact, Owning
<1>9. SeqIdConservation'
  BY <1>1 DEF SeqIdConservation, Registered
<1>10. ReadyCoversPath' /\ PooledEmpty'
  BY <1>1 DEF ReadyCoversPath, PooledEmpty
<1>11. CacheNodeAlive'
  BY <1>1, <1>3, <1>4 DEF CacheNodeAlive, Phase
<1> QED
  BY <1>5, <1>6, <1>7, <1>8, <1>9, <1>10, <1>11

\* tree_.insert: at most one split, then the leaf of the prompt with one more reference.
LEMMA InsertInv ==
    ASSUME IInv, NEW r \in Requests, Insert(r)
    PROVE  IInv'
<1> USE DEF IInv
<1>0. PICK prompt \in Seq(Token) : prompt = reqs[r].prompt
  BY DEF TypeOK, Slots
<1>1. /\ Phase(r) = "pressure" /\ prompt \in Seq(Token)
      /\ UNCHANGED <<free_seq_ids, seq_cell_counts, retained_seq_ids, kv>>
  BY DEF Insert, mapper
<1>2. PICK m \in 0 .. Len(prompt), x \in DOMAIN tree :
          /\ EdgeNode(tree, Prefix(prompt, m), x)
          /\ tick' = tick + 1
          /\ tree' = insert(tree, prompt, x, Prefix(prompt, m), tick')
          /\ reqs' = [Relink(x, Prefix(prompt, m)) EXCEPT
                         ![r] = [@ EXCEPT !.phase = "inserted", !.leaf = prompt,
                                          !.node = prompt, !.matched = m]]
  BY <1>0 DEF Insert
<1>3. PICK cut \in Seq(Token) : cut = Prefix(prompt, m) /\ cut \sqsubseteq prompt
  BY <1>1, <1>2, PrefixFacts
<1>3a. /\ EdgeNode(tree, cut, x)
       /\ tree' = insert(tree, prompt, x, cut, tick')
       /\ reqs' = [Relink(x, cut) EXCEPT
                      ![r] = [@ EXCEPT !.phase = "inserted", !.leaf = prompt,
                                       !.node = prompt, !.matched = m]]
  BY <1>2, <1>3
<1> DEFINE d == split_node(tree, x, cut)
<1>4. /\ DOMAIN d \subseteq Seq(Token) /\ Root \in DOMAIN d /\ cut \in DOMAIN d
      /\ \A p \in DOMAIN d : d[p] \in Nodes
      /\ \A p, q \in DOMAIN d : p # q => d[p].seq_ids \cap d[q].seq_ids = {}
      /\ UNION {d[p].seq_ids : p \in DOMAIN d} = Registered
  BY <1>3a, SplitInv
<1>5. \A p \in DOMAIN d :
          /\ d[p].ready_seq_ids \subseteq d[p].seq_ids
          /\ \A s \in d[p].ready_seq_ids : p \sqsubseteq kv[s]
          /\ IF d[p].seq_ids = {} THEN d[p].canonical_len = 0
                                  ELSE d[p].canonical_len >= Len(p)
  BY <1>3a, SplitInv
<1>6. \A p \in DOMAIN tree : /\ Follow(p, x, cut) \in DOMAIN d
                             /\ d[Follow(p, x, cut)] = tree[p]
  BY <1>3a, SplitInv
<1>7. /\ \A p \in DOMAIN d :
             d[p].ref_count = Cardinality(HoldersAfter(p, x, cut))
                                  + (IF p = Root THEN 1 ELSE 0)
      /\ \A p : p \notin DOMAIN d => HoldersAfter(p, x, cut) = {}
  BY <1>3a, SplitInv
<1>8. tick' \in Nat
  BY <1>2 DEF TypeOK
<1>9. /\ DOMAIN tree' = DOMAIN d \cup {prompt}
      /\ \A p \in DOMAIN d \ {prompt} : tree'[p] = d[p]
      /\ tree'[prompt] = [NodeAt(d, prompt, tick') EXCEPT !.ref_count = @ + 1,
                                                          !.last_access_tick = tick']
  BY <1>3a DEF insert
<1> HIDE DEF d
<1>0a. PICK leaf : leaf = NodeAt(d, prompt, tick')
  OBVIOUS
<1>10. /\ leaf \in Nodes
       /\ prompt \in DOMAIN d => leaf = d[prompt]
       /\ prompt \notin DOMAIN d => /\ leaf.seq_ids = {} /\ leaf.ready_seq_ids = {}
                                    /\ leaf.canonical_len = 0 /\ leaf.ref_count = 0
  BY <1>4, <1>8, <1>0a DEF NodeAt, NewNode, Nodes
<1>11. /\ tree'[prompt] \in Nodes
       /\ tree'[prompt].seq_ids = leaf.seq_ids
       /\ tree'[prompt].ready_seq_ids = leaf.ready_seq_ids
       /\ tree'[prompt].canonical_len = leaf.canonical_len
       /\ tree'[prompt].ref_count = leaf.ref_count + 1
  <2>1. tree'[prompt] = [leaf EXCEPT !.ref_count = @ + 1, !.last_access_tick = tick']
    BY <1>9, <1>0a
  <2>2. /\ leaf = [ref_count |-> leaf.ref_count, seq_ids |-> leaf.seq_ids,
                    ready_seq_ids |-> leaf.ready_seq_ids,
                    last_access_tick |-> leaf.last_access_tick,
                    canonical_len |-> leaf.canonical_len]
        /\ leaf.ref_count \in Nat /\ leaf.seq_ids \in SUBSET SeqIds
        /\ leaf.ready_seq_ids \in SUBSET SeqIds /\ leaf.canonical_len \in Nat
    BY <1>10 DEF Nodes
  <2>3. tree'[prompt] = [ref_count |-> leaf.ref_count + 1, seq_ids |-> leaf.seq_ids,
                         ready_seq_ids |-> leaf.ready_seq_ids, last_access_tick |-> tick',
                         canonical_len |-> leaf.canonical_len]
    BY <2>1, <2>2
  <2>4. leaf.ref_count + 1 \in Nat
    BY <2>2
  <2> QED
    BY <1>8, <2>2, <2>3, <2>4 DEF Nodes
<1>12. /\ reqs' \in [Requests -> Slots]
       /\ reqs'[r].phase = "inserted" /\ reqs'[r].leaf = prompt /\ reqs'[r].node = prompt
       /\ reqs'[r].prompt = prompt /\ reqs'[r].matched = m
       /\ \A o \in Requests \ {r} :
              /\ reqs'[o].phase = reqs[o].phase /\ reqs'[o].prompt = reqs[o].prompt
              /\ reqs'[o].seq = reqs[o].seq /\ reqs'[o].tokens = reqs[o].tokens
              /\ reqs'[o].matched = reqs[o].matched
              /\ reqs'[o].leaf = Follow(reqs[o].leaf, x, cut)
              /\ reqs'[o].node = Follow(reqs[o].node, x, cut)
  <2>1. \A o \in Requests : /\ Follow(reqs[o].leaf, x, cut) \in Seq(Token)
                            /\ Follow(reqs[o].node, x, cut) \in Seq(Token)
                            /\ reqs[o] \in Slots
    BY <1>3 DEF Follow, TypeOK, Slots
  <2>2. Relink(x, cut) \in [Requests -> Slots]
    BY <2>1 DEF Relink, Slots
  <2>3. m \in Nat
    BY <1>2
  <2> QED
    <3>1. /\ reqs'[r] = [Relink(x, cut)[r] EXCEPT !.phase = "inserted", !.leaf = prompt,
                                                 !.node = prompt, !.matched = m]
          /\ \A o \in Requests \ {r} : reqs'[o] = Relink(x, cut)[o]
          /\ DOMAIN reqs' = Requests
          /\ reqs' = [o \in Requests |-> reqs'[o]]
      BY <1>3a, <2>2
    <3>2. /\ Relink(x, cut)[r] \in Slots
          /\ Relink(x, cut)[r].prompt = prompt
      BY <1>0, <2>1, <2>2 DEF Relink, Slots
    <3>3. /\ reqs'[r] \in Slots
          /\ reqs'[r].phase = "inserted" /\ reqs'[r].leaf = prompt /\ reqs'[r].node = prompt
          /\ reqs'[r].prompt = prompt /\ reqs'[r].matched = m
      BY <1>1, <2>3, <3>1, <3>2 DEF Slots
    <3>4. reqs' \in [Requests -> Slots]
      BY <2>2, <3>1, <3>3
    <3>5. \A o \in Requests \ {r} :
              /\ reqs'[o].phase = reqs[o].phase /\ reqs'[o].prompt = reqs[o].prompt
              /\ reqs'[o].seq = reqs[o].seq /\ reqs'[o].tokens = reqs[o].tokens
              /\ reqs'[o].matched = reqs[o].matched
              /\ reqs'[o].leaf = Follow(reqs[o].leaf, x, cut)
              /\ reqs'[o].node = Follow(reqs[o].node, x, cut)
      <4> SUFFICES ASSUME NEW o \in Requests \ {r}
                   PROVE  /\ reqs'[o].phase = reqs[o].phase
                          /\ reqs'[o].prompt = reqs[o].prompt
                          /\ reqs'[o].seq = reqs[o].seq /\ reqs'[o].tokens = reqs[o].tokens
                          /\ reqs'[o].matched = reqs[o].matched
                          /\ reqs'[o].leaf = Follow(reqs[o].leaf, x, cut)
                          /\ reqs'[o].node = Follow(reqs[o].node, x, cut)
        OBVIOUS
      <4>1. reqs'[o] = [reqs[o] EXCEPT !.leaf = Follow(reqs[o].leaf, x, cut),
                                       !.node = Follow(reqs[o].node, x, cut)]
        BY <3>1 DEF Relink
      <4>2. reqs[o] \in Slots
        BY <2>1
      <4> QED
        BY <4>1, <4>2 DEF Slots
    <3> QED
      BY <3>3, <3>4, <3>5
<1>13. /\ Holding' = Holding \cup {r} /\ r \notin Holding /\ Owning' = Owning
       /\ r \notin Owning
       /\ \A o \in Holding : o # r /\ ~ Busy(o)
  BY <1>1, <1>12 DEF Holding, Owning, Phase, RequestInv, Busy
<1>14. TypeOK'
  BY <1>1, <1>4, <1>8, <1>9, <1>11, <1>12 DEF TypeOK
<1>15. RequestInv'
  <2>1. prompt \sqsubseteq prompt
    BY <1>1, PrefixOrder
  <2>2. \A o \in Holding : Follow(reqs[o].leaf, x, cut) \sqsubseteq reqs[o].prompt
    <3>1. \A o \in Holding : /\ reqs[o].leaf \in Seq(Token) /\ reqs[o].prompt \in Seq(Token)
                             /\ reqs[o].leaf \sqsubseteq reqs[o].prompt
      BY DEF Holding, TypeOK, Slots, RequestInv
    <3>2. cut \sqsubseteq x
      BY <1>3a DEF EdgeNode
    <3> QED
      BY <1>3, <3>1, <3>2, PrefixOrder DEF Follow
  <2>3. \A o \in Requests : ~ (Busy(o)' /\ o # r)
    BY <1>1, <1>12 DEF Busy, Phase, RequestInv
  <2>4. \A o \in Holding :
            /\ Phase(o) # "retiring" /\ Phase(o) # "inserted" /\ Phase(o)' = Phase(o)
            /\ reqs'[o].node = reqs'[o].leaf
            /\ reqs'[o].leaf \sqsubseteq reqs'[o].prompt
    BY <1>12, <1>13, <2>2 DEF Holding, Phase, RequestInv, Busy
  <2>5. \A o \in Holding :
            /\ Phase(o)' = "prefill" =>
                   /\ Len(reqs'[o].tokens) < Len(reqs'[o].prompt)
                   /\ reqs'[o].tokens = Prefix(reqs'[o].prompt, Len(reqs'[o].tokens))
            /\ Phase(o)' = "active" => reqs'[o].prompt \sqsubseteq reqs'[o].tokens
    BY <1>12, <1>13 DEF Holding, Phase, RequestInv
  <2> QED
    BY <1>2, <1>12, <1>13, <2>1, <2>3, <2>4, <2>5 DEF RequestInv, Phase
<1>16. RefCountExact'
  <2>1. \A p : Holders(p)' = IF p = prompt THEN HoldersAfter(p, x, cut) \cup {r}
                             ELSE HoldersAfter(p, x, cut)
    BY <1>12, <1>13 DEF Holders, HoldersAfter, Holding
  <2>2. \A p : /\ IsFiniteSet(HoldersAfter(p, x, cut)) /\ r \notin HoldersAfter(p, x, cut)
               /\ Cardinality(HoldersAfter(p, x, cut)) \in Nat
    <3>1. \A p : HoldersAfter(p, x, cut) \in SUBSET Requests
      BY DEF HoldersAfter, Holding
    <3> QED
      BY <1>13, <3>1, RequestsAssumption, FS_Subset, FS_CardinalityType DEF HoldersAfter
  <2>3. Cardinality(Holders(prompt)') = Cardinality(HoldersAfter(prompt, x, cut)) + 1
    BY <2>1, <2>2, FS_AddElement
  <2>4. leaf.ref_count = Cardinality(HoldersAfter(prompt, x, cut))
                             + (IF prompt = Root THEN 1 ELSE 0)
    <3>1. CASE prompt \in DOMAIN d
      BY <1>7, <1>10, <3>1
    <3>2. CASE prompt \notin DOMAIN d
      <4>1. HoldersAfter(prompt, x, cut) = {} /\ prompt # Root
        BY <1>4, <1>7, <3>2
      <4>2. Cardinality(HoldersAfter(prompt, x, cut)) = 0
        BY <4>1, FS_EmptySet
      <4> QED
        BY <1>10, <3>2, <4>1, <4>2
    <3> QED
      BY <3>1, <3>2
  <2>5. tree'[prompt].ref_count = Cardinality(Holders(prompt)')
                                      + (IF prompt = Root THEN 1 ELSE 0)
    BY <1>11, <2>2, <2>3, <2>4
  <2>6. \A p \in DOMAIN d \ {prompt} :
            tree'[p].ref_count = Cardinality(Holders(p)') + (IF p = Root THEN 1 ELSE 0)
    BY <1>7, <1>9, <2>1
  <2>7. \A o \in Holding' : reqs'[o].leaf \in DOMAIN tree'
    <3>1. \A o \in Holding : Follow(reqs[o].leaf, x, cut) \in DOMAIN d
      BY <1>6 DEF RefCountExact
    <3> QED
      BY <1>9, <1>12, <1>13, <3>1 DEF Holding
  <2> QED
    BY <1>9, <2>5, <2>6, <2>7 DEF RefCountExact
<1>17. \A p \in DOMAIN d : p \in DOMAIN tree' /\ tree'[p].seq_ids = d[p].seq_ids
                           /\ tree'[p].ready_seq_ids = d[p].ready_seq_ids
                           /\ tree'[p].canonical_len = d[p].canonical_len
  BY <1>9, <1>10, <1>11
<1>18. prompt \notin DOMAIN d => /\ tree'[prompt].seq_ids = {}
                                 /\ tree'[prompt].ready_seq_ids = {}
                                 /\ tree'[prompt].canonical_len = 0
  BY <1>10, <1>11
<1>19. OwnedRegistered'
  <2> SUFFICES ASSUME NEW o \in Owning
               PROVE  /\ reqs'[o].node \in DOMAIN tree'
                      /\ reqs'[o].seq \in tree'[reqs'[o].node].seq_ids
                      /\ \A w \in Owning : reqs'[w].seq = reqs'[o].seq => w = o
    BY <1>13 DEF OwnedRegistered
  <2>1. /\ reqs[o].node \in DOMAIN tree /\ reqs[o].seq \in tree[reqs[o].node].seq_ids
        /\ \A w \in Owning : reqs[w].seq = reqs[o].seq => w = o
    BY DEF OwnedRegistered
  <2>2. /\ reqs'[o].node = Follow(reqs[o].node, x, cut) /\ reqs'[o].seq = reqs[o].seq
        /\ \A w \in Owning : reqs'[w].seq = reqs[w].seq
    BY <1>12, <1>13 DEF Owning
  <2> QED
    BY <1>6, <1>17, <2>1, <2>2
<1>20. Registered' = Registered
  <2>1. \A s : s \in Registered' <=> \E p \in DOMAIN tree' : s \in tree'[p].seq_ids
    BY DEF Registered
  <2>2. \A s : s \in Registered <=> \E p \in DOMAIN d : s \in d[p].seq_ids
    BY <1>4
  <2>3. \A s : (\E p \in DOMAIN tree' : s \in tree'[p].seq_ids)
                  <=> (\E p \in DOMAIN d : s \in d[p].seq_ids)
    BY <1>9, <1>17, <1>18
  <2> QED
    BY <2>1, <2>2, <2>3
<1>21. SeqIdConservation'
  <2>1. \A p, q \in DOMAIN tree' : p # q => tree'[p].seq_ids \cap tree'[q].seq_ids = {}
    <3> SUFFICES ASSUME NEW p \in DOMAIN tree', NEW q \in DOMAIN tree', p # q
                 PROVE  tree'[p].seq_ids \cap tree'[q].seq_ids = {}
      OBVIOUS
    <3>1. CASE p \in DOMAIN d /\ q \in DOMAIN d
      BY <1>4, <1>17, <3>1
    <3>2. CASE p \notin DOMAIN d \/ q \notin DOMAIN d
      BY <1>9, <1>18, <3>2
    <3> QED
      BY <3>1, <3>2
  <2> QED
    BY <1>1, <1>20, <2>1 DEF SeqIdConservation
<1>22. ReadyCoversPath'
  BY <1>1, <1>5, <1>9, <1>17, <1>18 DEF ReadyCoversPath
<1>23. RequestKvExact' /\ PooledEmpty'
  BY <1>1, <1>12, <1>13 DEF RequestKvExact, PooledEmpty, Owning
<1>24. CacheNodeAlive'
  <2>1. \A o \in Requests : Phase(o)' = "inserted" => o = r
    BY <1>1, <1>12 DEF RequestInv, Busy, Phase
  <2>2. cut \in DOMAIN tree'
    BY <1>4, <1>9
  <2> QED
    BY <1>3, <1>12, <2>1, <2>2 DEF CacheNodeAlive
<1> QED
  BY <1>14, <1>15, <1>16, <1>19, <1>21, <1>22, <1>23, <1>24

-----------------------------------------------------------------------------
(* Release of the reference on the leaf *)

\* t has the nodes of tree, with their references.
SameReferences(t) ==
    /\ DOMAIN t = DOMAIN tree
    /\ \A p \in DOMAIN tree : t[p] \in Nodes /\ t[p].ref_count = tree[p].ref_count

\* What releasing the leaf of r in t comes to.
Released(r, t) ==
    /\ DOMAIN tree' \subseteq DOMAIN tree /\ Root \in DOMAIN tree'
    /\ \A p \in DOMAIN tree' : /\ tree'[p] \in Nodes
                                /\ tree'[p].seq_ids = t[p].seq_ids
                                /\ tree'[p].ready_seq_ids = t[p].ready_seq_ids
                                /\ tree'[p].canonical_len = t[p].canonical_len
    /\ \A p \in DOMAIN tree \ DOMAIN tree' : t[p].seq_ids = {}
    /\ reqs' \in [Requests -> Slots]
    /\ Holding' = Holding \ {r} /\ Owning' = Owning \ {r}
    /\ \A o \in Requests \ {r} : reqs'[o] = reqs[o]
    /\ \A o \in Owning \ {r} : reqs[o].node = reqs[o].leaf /\ o \in Holding'
    /\ RefCountExact' /\ RequestInv' /\ CacheNodeAlive'

\* tree_.release of the leaf of r, in a tree t that differs from tree at most in the
\* sequences of its nodes.
LEMMA ReleaseInv ==
    ASSUME IInv, NEW r \in Holding, Busy(r) \/ Quiet, NEW STATE t,
           SameReferences(t),
           tree' = release(t, reqs[r].leaf),
           reqs' = [reqs EXCEPT ![r] = NoRequest]
    PROVE  Released(r, t)
<1> USE DEF IInv, SameReferences
<1>1. /\ r \in Requests /\ r \in Holders(reqs[r].leaf)
      /\ reqs[r].leaf \in DOMAIN tree /\ tree[reqs[r].leaf].ref_count # 0
  BY HeldReferenced DEF Holders, Holding
<1>2. PICK e : e = reqs[r].leaf
  OBVIOUS
<1>3. e \in DOMAIN tree /\ t[e] \in Nodes /\ t[e].ref_count \in Nat \ {0}
      /\ t[e].ref_count = tree[e].ref_count
  BY <1>1, <1>2 DEF Nodes
<1> DEFINE u == [t EXCEPT ![e].ref_count = @ - 1]
<1>4. tree' = prune_empty_leaves(u, e)
  BY <1>2, <1>3 DEF release
<1>5. DOMAIN u = DOMAIN tree /\ \A p \in DOMAIN tree \ {e} : u[p] = t[p]
  BY <1>3
<1>6. /\ u[e] \in Nodes /\ u[e].seq_ids = t[e].seq_ids
      /\ u[e].ready_seq_ids = t[e].ready_seq_ids
      /\ u[e].canonical_len = t[e].canonical_len
      /\ u[e].ref_count = t[e].ref_count - 1
  <2>1. /\ t[e] = [ref_count |-> t[e].ref_count, seq_ids |-> t[e].seq_ids,
                   ready_seq_ids |-> t[e].ready_seq_ids,
                   last_access_tick |-> t[e].last_access_tick,
                   canonical_len |-> t[e].canonical_len]
        /\ t[e].seq_ids \in SUBSET SeqIds /\ t[e].ready_seq_ids \in SUBSET SeqIds
        /\ t[e].canonical_len \in Nat /\ t[e].last_access_tick \in Nat
    BY <1>3 DEF Nodes
  <2>2. u[e] = [t[e] EXCEPT !.ref_count = t[e].ref_count - 1]
    BY <1>3
  <2>3. u[e] = [ref_count |-> t[e].ref_count - 1, seq_ids |-> t[e].seq_ids,
                ready_seq_ids |-> t[e].ready_seq_ids,
                last_access_tick |-> t[e].last_access_tick,
                canonical_len |-> t[e].canonical_len]
    BY <2>1, <2>2
  <2>4. t[e].ref_count - 1 \in Nat
    BY <1>3
  <2> HIDE DEF u
  <2> QED
    BY <2>1, <2>3, <2>4 DEF Nodes
<1> HIDE DEF u
<1>7. /\ DOMAIN tree' \subseteq DOMAIN tree
      /\ \A p \in DOMAIN tree' : tree'[p] = u[p]
      /\ \A p \in DOMAIN tree \ DOMAIN tree' : p # Root /\ Dead(u[p])
  <2>1. DOMAIN u \subseteq Seq(Token)
    BY <1>5 DEF TypeOK
  <2> QED
    BY <1>4, <1>5, <2>1, PruneFacts
<1>8. Root \in DOMAIN tree'
  BY <1>7 DEF TypeOK
<1>9. \A p \in DOMAIN tree' : /\ tree'[p] \in Nodes
                               /\ tree'[p].seq_ids = t[p].seq_ids
                               /\ tree'[p].ready_seq_ids = t[p].ready_seq_ids
                               /\ tree'[p].canonical_len = t[p].canonical_len
  BY <1>5, <1>6, <1>7
<1>10. \A p \in DOMAIN tree \ DOMAIN tree' : t[p].seq_ids = {}
  BY <1>5, <1>6, <1>7 DEF Dead
<1>11. /\ \A o \in Requests \ {r} : reqs'[o] = reqs[o]
       /\ reqs'[r] = NoRequest
       /\ DOMAIN reqs' = Requests
       /\ reqs' = [o \in Requests |-> reqs'[o]]
  BY <1>1 DEF TypeOK
<1>12. reqs' \in [Requests -> Slots]
  <2>1. NoRequest \in Slots
    BY EmptySeq DEF NoRequest, Slots, Root
  <2>2. \A o \in Requests : reqs'[o] \in Slots
    BY <1>11, <2>1 DEF TypeOK
  <2> QED
    BY <1>11, <2>2
<1>13. Holding' = Holding \ {r} /\ Owning' = Owning \ {r} /\ Owning \subseteq Holding
  BY <1>11 DEF Holding, Owning, Phase, NoRequest
<1>14. \A o \in Requests \ {r} : ~ Busy(o)
  BY <1>1 DEF RequestInv, Quiet
<1>15. \A o \in Owning \ {r} : reqs[o].node = reqs[o].leaf /\ o \in Holding'
  BY <1>13, <1>14 DEF RequestInv, Busy, Holding, Owning, Phase
<1>16. RequestInv'
  <2>1. \A o \in Requests : ~ Busy(o)'
    BY <1>11, <1>14 DEF Busy, Phase, NoRequest
  <2>2. \A o \in Holding' : o \in Holding /\ o # r /\ reqs'[o] = reqs[o]
    BY <1>11, <1>13 DEF Holding
  <2> QED
    BY <2>1, <2>2 DEF RequestInv, Phase
<1>17. CacheNodeAlive'
  BY <1>11, <1>14 DEF CacheNodeAlive, Busy, Phase, NoRequest
<1>18. RefCountExact'
  <2>1. \A p : Holders(p)' = Holders(p) \ {r}
    BY <1>11, <1>13 DEF Holders, Holding
  <2>2. Cardinality(Holders(e) \ {r}) = Cardinality(Holders(e)) - 1
    BY <1>1, <1>2, HoldersFinite, FS_RemoveElement
  <2>3. \A p : p # e => Holders(p) \ {r} = Holders(p)
    BY <1>2 DEF Holders
  <2>4. ASSUME NEW p \in DOMAIN tree
        PROVE  u[p].ref_count = Cardinality(Holders(p) \ {r}) + (IF p = Root THEN 1 ELSE 0)
    <3>1. t[p].ref_count = Cardinality(Holders(p)) + (IF p = Root THEN 1 ELSE 0)
      BY DEF RefCountExact
    <3>2. CASE p = e
      BY <1>6, <2>2, <3>1, <3>2, HoldersFinite
    <3>3. CASE p # e
      BY <1>5, <2>3, <3>1, <3>3
    <3> QED
      BY <3>2, <3>3
  <2>5. ASSUME NEW o \in Holding'
        PROVE  reqs'[o].leaf \in DOMAIN tree'
    <3>1. o \in Holding /\ o # r /\ reqs'[o] = reqs[o] /\ reqs[o].leaf \in DOMAIN tree
      BY <1>11, <1>13 DEF Holding, RefCountExact
    <3>2. o \in Holders(reqs[o].leaf) \ {r}
      BY <3>1 DEF Holders
    <3>3. IsFiniteSet(Holders(reqs[o].leaf) \ {r})
      BY HoldersFinite, FS_Subset
    <3>4. Cardinality(Holders(reqs[o].leaf) \ {r}) \in Nat \ {0}
      BY <3>2, <3>3, FS_EmptySet, FS_CardinalityType
    <3>5. u[reqs[o].leaf].ref_count # 0
      <4>1. PICK n \in Nat \ {0} : n = Cardinality(Holders(reqs[o].leaf) \ {r})
        BY <3>4
      <4>2. u[reqs[o].leaf].ref_count = n + (IF reqs[o].leaf = Root THEN 1 ELSE 0)
        BY <2>4, <3>1, <4>1
      <4> QED
        BY <4>2
    <3> QED
      BY <1>7, <3>1, <3>5 DEF Dead
  <2>6. \A p \in DOMAIN tree' :
            tree'[p].ref_count = Cardinality(Holders(p)') + (IF p = Root THEN 1 ELSE 0)
    BY <1>7, <2>1, <2>4
  <2> QED
    BY <2>5, <2>6 DEF RefCountExact
<1> QED
  BY <1>7, <1>8, <1>9, <1>10, <1>11, <1>12, <1>13, <1>15, <1>16, <1>17, <1>18 DEF Released

\* The catch of prepare_sequence: the reference taken by insert is given back.
LEMMA ExhaustedInv ==
    ASSUME IInv, NEW r \in Requests, Exhausted(r)
    PROVE  IInv'
<1> USE DEF IInv
<1>1. /\ Phase(r) = "inserted"
      /\ tree' = release(tree, reqs[r].leaf)
      /\ reqs' = [reqs EXCEPT ![r] = NoRequest]
      /\ UNCHANGED <<tick, free_seq_ids, seq_cell_counts, retained_seq_ids, kv>>
  BY DEF Exhausted, mapper
<1>2. r \in Holding /\ Busy(r) /\ r \notin Owning
  BY <1>1 DEF Holding, Busy, Owning
<1>3. Released(r, tree)
  <2>1. SameReferences(tree)
    BY DEF SameReferences, TypeOK
  <2> QED
    BY <1>1, <1>2, <2>1, ReleaseInv
<1>4. /\ DOMAIN tree' \subseteq DOMAIN tree /\ Root \in DOMAIN tree'
      /\ \A p \in DOMAIN tree' : /\ tree'[p] \in Nodes
                                  /\ tree'[p].seq_ids = tree[p].seq_ids
                                  /\ tree'[p].ready_seq_ids = tree[p].ready_seq_ids
                                  /\ tree'[p].canonical_len = tree[p].canonical_len
      /\ \A p \in DOMAIN tree \ DOMAIN tree' : tree[p].seq_ids = {}
  BY <1>3 DEF Released
<1>5. /\ reqs' \in [Requests -> Slots]
      /\ Holding' = Holding \ {r} /\ Owning' = Owning \ {r}
      /\ \A o \in Requests \ {r} : reqs'[o] = reqs[o]
      /\ \A o \in Owning \ {r} : reqs[o].node = reqs[o].leaf /\ o \in Holding'
  BY <1>3 DEF Released
<1>5a. Owning' = Owning /\ Owning \ {r} = Owning
  BY <1>2, <1>5
<1>6. RefCountExact' /\ RequestInv' /\ CacheNodeAlive'
  BY <1>3 DEF Released
<1>7. TypeOK'
  BY <1>1, <1>4, <1>5 DEF TypeOK
<1>8. \A o \in Owning : o \in Requests /\ reqs'[o] = reqs[o] /\ reqs[o].leaf \in DOMAIN tree'
  BY <1>5, <1>5a, <1>6 DEF RefCountExact, Owning
<1>9. OwnedRegistered'
  BY <1>4, <1>5, <1>5a, <1>8 DEF OwnedRegistered
<1>10. Registered' = Registered
  BY <1>4 DEF Registered
<1>11. SeqIdConservation'
  BY <1>1, <1>4, <1>10 DEF SeqIdConservation
<1>12. ReadyCoversPath' /\ PooledEmpty'
  BY <1>1, <1>4 DEF ReadyCoversPath, PooledEmpty
<1>13. RequestKvExact'
  BY <1>1, <1>5, <1>5a, <1>8 DEF RequestKvExact
<1> QED
  BY <1>6, <1>7, <1>9, <1>11, <1>12, <1>13

-----------------------------------------------------------------------------
(* Release of the sequence *)

\* release_seq_id keeps s: it stays registered, cut to the path of its node.
LEMMA KeepSequenceInv ==
    ASSUME IInv, NEW r \in Owning, Busy(r) \/ Quiet,
           NEW s, s = reqs[r].seq, NEW p, p = reqs[r].node,
           s \in tree[p].ready_seq_ids,
           LET covers == {c \in CoveringNodes(tree, p) : s \in FirstReady(tree[c])}
           IN  IF covers = {}
               THEN UNCHANGED <<kv, seq_cell_counts, retained_seq_ids>>
               ELSE \E c \in covers :
                       LET len == CoveredLen(tree, c)
                       IN  /\ kv' = [kv EXCEPT ![s] = Cells(s, len)]
                           /\ seq_cell_counts' = [seq_cell_counts EXCEPT ![s] = len]
                           /\ retained_seq_ids' = retained_seq_ids \cup {s},
           tree' = release(tree, reqs[r].leaf),
           reqs' = [reqs EXCEPT ![r] = NoRequest],
           UNCHANGED <<free_seq_ids, tick>>
    PROVE  IInv'
<1> USE DEF IInv
<1>1. /\ r \in Holding /\ r \in Requests /\ p \in DOMAIN tree /\ p \in Seq(Token)
      /\ s \in tree[p].seq_ids /\ s \in SeqIds /\ tree[p].canonical_len >= Len(p)
      /\ tree[p].canonical_len \in Nat /\ Len(p) \in Nat
  <2>1. r \in Holding /\ r \in Requests /\ p \in DOMAIN tree /\ s \in tree[p].seq_ids
    BY DEF Holding, Owning, OwnedRegistered
  <2>2. p \in Seq(Token) /\ tree[p] \in Nodes
    BY <2>1 DEF TypeOK
  <2> QED
    BY <2>1, <2>2, LenProperties DEF Nodes, ReadyCoversPath
<1>2. \A q \in DOMAIN tree : tree[q] \in Nodes
  BY DEF TypeOK
<1>2a. Released(r, tree)
  <2>1. SameReferences(tree)
    BY <1>2 DEF SameReferences
  <2> QED
    BY <1>1, <2>1, ReleaseInv
<1>3. /\ DOMAIN tree' \subseteq DOMAIN tree /\ Root \in DOMAIN tree'
      /\ \A q \in DOMAIN tree' : /\ tree'[q] \in Nodes
                                  /\ tree'[q].seq_ids = tree[q].seq_ids
                                  /\ tree'[q].ready_seq_ids = tree[q].ready_seq_ids
                                  /\ tree'[q].canonical_len = tree[q].canonical_len
      /\ \A q \in DOMAIN tree \ DOMAIN tree' : tree[q].seq_ids = {}
  BY <1>2a DEF Released
<1>4. /\ reqs' \in [Requests -> Slots]
      /\ Holding' = Holding \ {r} /\ Owning' = Owning \ {r}
      /\ \A o \in Requests \ {r} : reqs'[o] = reqs[o]
      /\ \A o \in Owning \ {r} : reqs[o].node = reqs[o].leaf /\ o \in Holding'
  BY <1>2a DEF Released
<1>5. RefCountExact' /\ RequestInv' /\ CacheNodeAlive'
  BY <1>2a DEF Released
<1>6. /\ kv' \in [SeqIds -> Seq(Token)]
      /\ \A i \in SeqIds \ {s} : kv'[i] = kv[i]
      /\ p \sqsubseteq kv'[s]
      /\ DOMAIN seq_cell_counts' = DOMAIN seq_cell_counts
      /\ \A i \in DOMAIN seq_cell_counts' : seq_cell_counts'[i] \in Nat
      /\ retained_seq_ids' \subseteq SeqIds
  <2>1. kv[s] \in Seq(Token) /\ p \sqsubseteq kv[s]
    BY <1>1 DEF ReadyCoversPath, TypeOK
  <2>2. CASE UNCHANGED <<kv, seq_cell_counts, retained_seq_ids>>
    BY <2>1, <2>2 DEF TypeOK
  <2>3. ASSUME NEW c \in CoveringNodes(tree, p), s \in FirstReady(tree[c]),
               NEW len, len = CoveredLen(tree, c),
               kv' = [kv EXCEPT ![s] = Cells(s, len)],
               seq_cell_counts' = [seq_cell_counts EXCEPT ![s] = len],
               retained_seq_ids' = retained_seq_ids \cup {s}
        PROVE  <1>6!:
    <3>1. c \in DOMAIN tree /\ s \in tree[c].ready_seq_ids
      BY <2>3 DEF CoveringNodes, FirstReady
    <3>2. c = p
      BY <1>1, <3>1 DEF SeqIdConservation, ReadyCoversPath
    <3>3. len = Len(p)
      BY <1>1, <2>3, <3>2 DEF CoveredLen, Least
    <3>4. Len(kv[s]) \in Nat /\ Len(p) <= Len(kv[s])
      BY <2>1, LenProperties DEF \sqsubseteq
    <3>5. Cells(s, len) = Prefix(kv[s], Len(p))
      BY <1>1, <3>3, <3>4 DEF Cells, Least
    <3>6. /\ Prefix(kv[s], Len(p)) \in Seq(Token)
          /\ Len(Prefix(kv[s], Len(p))) = Len(p)
          /\ \A i \in 1 .. Len(p) : Prefix(kv[s], Len(p))[i] = kv[s][i]
      <4>1. Len(p) \in 0 .. Len(kv[s])
        BY <1>1, <3>4
      <4> QED
        BY <2>1, <4>1, PrefixFacts
    <3>7. p \sqsubseteq Prefix(kv[s], Len(p))
      BY <1>1, <2>1, <3>6 DEF \sqsubseteq
    <3>8. kv'[s] = Prefix(kv[s], Len(p)) /\ kv' \in [SeqIds -> Seq(Token)]
      BY <1>1, <2>3, <3>5, <3>6 DEF TypeOK
    <3>9. \A i \in SeqIds \ {s} : kv'[i] = kv[i]
      BY <2>3 DEF TypeOK
    <3>10. /\ DOMAIN seq_cell_counts' = DOMAIN seq_cell_counts
           /\ \A i \in DOMAIN seq_cell_counts' : seq_cell_counts'[i] \in Nat
      BY <1>1, <2>3, <3>3 DEF TypeOK
    <3>11. retained_seq_ids' \subseteq SeqIds
      BY <1>1, <2>3 DEF TypeOK
    <3> QED
      BY <3>7, <3>8, <3>9, <3>10, <3>11
  <2> QED
    BY <2>2, <2>3
<1>7. TypeOK'
  BY <1>3, <1>4, <1>6 DEF TypeOK
<1>8. \A o \in Owning' : /\ o \in Requests /\ o \in Owning /\ o # r /\ reqs'[o] = reqs[o]
                          /\ reqs[o].leaf \in DOMAIN tree' /\ reqs[o].seq # s
                          /\ reqs[o].seq \in SeqIds
  <2>1. \A o \in Owning' : /\ o \in Requests /\ o \in Owning /\ o # r
                            /\ reqs'[o] = reqs[o] /\ reqs[o].leaf \in DOMAIN tree'
    BY <1>4, <1>5 DEF RefCountExact, Owning
  <2>2. \A o \in Owning' : reqs[o].node \in DOMAIN tree
                            /\ reqs[o].seq \in tree[reqs[o].node].seq_ids
    BY <2>1 DEF OwnedRegistered
  <2>3. \A o \in Owning' : reqs[o].seq # s
    BY <2>1 DEF OwnedRegistered
  <2> QED
    BY <2>1, <2>2, <2>3 DEF TypeOK, Nodes
<1>9. OwnedRegistered'
  BY <1>3, <1>4, <1>8 DEF OwnedRegistered
<1>10. Registered' = Registered
  BY <1>3 DEF Registered
<1>11. SeqIdConservation'
  BY <1>3, <1>6, <1>10 DEF SeqIdConservation
<1>12. ReadyCoversPath'
  <2> SUFFICES ASSUME NEW q \in DOMAIN tree'
               PROVE  /\ tree'[q].ready_seq_ids \subseteq tree'[q].seq_ids
                      /\ \A i \in tree'[q].ready_seq_ids : q \sqsubseteq kv'[i]
                      /\ IF tree'[q].seq_ids = {} THEN tree'[q].canonical_len = 0
                                                  ELSE tree'[q].canonical_len >= Len(q)
    BY DEF ReadyCoversPath
  <2>1. \A i \in tree[q].ready_seq_ids : q \sqsubseteq kv'[i]
    <3> SUFFICES ASSUME NEW i \in tree[q].ready_seq_ids PROVE q \sqsubseteq kv'[i]
      OBVIOUS
    <3>1. q \in DOMAIN tree /\ i \in SeqIds /\ q \sqsubseteq kv[i] /\ i \in tree[q].seq_ids
      BY <1>2, <1>3 DEF ReadyCoversPath, Nodes
    <3>2. CASE i = s
      <4>1. q = p
        BY <1>1, <3>1, <3>2 DEF SeqIdConservation
      <4> QED
        BY <1>6, <3>2, <4>1
    <3>3. CASE i # s
      BY <1>6, <3>1, <3>3
    <3> QED
      BY <3>2, <3>3
  <2> QED
    BY <1>3, <2>1 DEF ReadyCoversPath
<1>13. RequestKvExact'
  BY <1>6, <1>8 DEF RequestKvExact
<1>14. PooledEmpty'
  <2>1. Range(free_seq_ids) \subseteq SeqIds
    BY RangeOfSeq DEF TypeOK
  <2>2. s \notin Range(free_seq_ids)
    BY <1>1 DEF SeqIdConservation, Registered
  <2> QED
    BY <1>6, <2>1, <2>2 DEF PooledEmpty
<1> QED
  BY <1>5, <1>7, <1>9, <1>11, <1>12, <1>13, <1>14

\* t is tree without the sequence s.
Without(t, s) ==
    /\ DOMAIN t = DOMAIN tree
    /\ \A q \in DOMAIN tree :
          /\ t[q] \in Nodes /\ t[q].ref_count = tree[q].ref_count
          /\ t[q].seq_ids = tree[q].seq_ids \ {s}
          /\ t[q].ready_seq_ids = tree[q].ready_seq_ids \ {s}
          /\ IF t[q].seq_ids = {} THEN t[q].canonical_len = 0
                                  ELSE t[q].canonical_len >= Len(q)

\* The tree whose node p gives s up.
LEMMA WithoutSeqFacts ==
    ASSUME TypeOK, SeqIdConservation, ReadyCoversPath,
           NEW p \in DOMAIN tree, NEW s \in tree[p].seq_ids,
           NEW t, t = [tree EXCEPT ![p] = WithoutSeq(@, s)]
    PROVE  Without(t, s)
<1>1. s \in SeqIds
  BY DEF TypeOK, Nodes
<1>2. /\ DOMAIN t = DOMAIN tree
      /\ \A q \in DOMAIN tree \ {p} : t[q] = tree[q]
      /\ t[p] = WithoutSeq(tree[p], s)
  OBVIOUS
<1>3. /\ t[p] \in Nodes /\ t[p].ref_count = tree[p].ref_count
      /\ t[p].seq_ids = tree[p].seq_ids \ {s}
      /\ t[p].ready_seq_ids = tree[p].ready_seq_ids \ {s}
      /\ t[p].canonical_len = IF tree[p].seq_ids = {s} THEN 0 ELSE tree[p].canonical_len
  <2>1. /\ tree[p] = [ref_count |-> tree[p].ref_count, seq_ids |-> tree[p].seq_ids,
                      ready_seq_ids |-> tree[p].ready_seq_ids,
                      last_access_tick |-> tree[p].last_access_tick,
                      canonical_len |-> tree[p].canonical_len]
        /\ tree[p].seq_ids \in SUBSET SeqIds /\ tree[p].ready_seq_ids \in SUBSET SeqIds
        /\ tree[p].canonical_len \in Nat /\ tree[p].last_access_tick \in Nat
        /\ tree[p].ref_count \in Nat
    BY <1>1 DEF TypeOK, Nodes
  <2>2. PICK n \in Nat : n = IF tree[p].seq_ids = {s} THEN 0 ELSE tree[p].canonical_len
    BY <2>1
  <2>3. t[p] = [ref_count |-> tree[p].ref_count, seq_ids |-> tree[p].seq_ids \ {s},
                ready_seq_ids |-> tree[p].ready_seq_ids \ {s},
                last_access_tick |-> tree[p].last_access_tick, canonical_len |-> n]
    BY <1>2, <2>1, <2>2 DEF WithoutSeq
  <2> QED
    BY <2>1, <2>2, <2>3 DEF Nodes
<1>4. \A q \in DOMAIN tree :
          /\ t[q] \in Nodes /\ t[q].ref_count = tree[q].ref_count
          /\ t[q].seq_ids = tree[q].seq_ids \ {s}
          /\ t[q].ready_seq_ids = tree[q].ready_seq_ids \ {s}
  <2>1. \A q \in DOMAIN tree : tree[q] \in Nodes
    BY DEF TypeOK
  <2>2. \A q \in DOMAIN tree \ {p} : s \notin tree[q].seq_ids /\ s \notin tree[q].ready_seq_ids
    BY <1>1 DEF SeqIdConservation, ReadyCoversPath
  <2> QED
    BY <1>2, <1>3, <2>1, <2>2
<1>5. ASSUME NEW q \in DOMAIN tree
      PROVE  IF t[q].seq_ids = {} THEN t[q].canonical_len = 0
                                  ELSE t[q].canonical_len >= Len(q)
  <2>1. CASE q = p
    <3>1. tree[p].seq_ids \ {s} = {} <=> tree[p].seq_ids = {s}
      OBVIOUS
    <3> QED
      BY <1>3, <2>1, <3>1 DEF ReadyCoversPath
  <2>2. CASE q # p
    BY <1>2, <2>2 DEF ReadyCoversPath
  <2> QED
    BY <2>1, <2>2
<1> QED
  BY <1>2, <1>4, <1>5 DEF Without

\* release_seq_id gives s up: its cells are removed and it goes to the end of the pool.
LEMMA FreeSequenceInv ==
    ASSUME IInv, NEW r \in Owning, Busy(r) \/ Quiet,
           NEW s, s = reqs[r].seq, NEW p, p = reqs[r].node,
           kv' = [kv EXCEPT ![s] = << >>],
           free_seq_ids' = Append(free_seq_ids, s),
           seq_cell_counts' = Restrict(seq_cell_counts, DOMAIN seq_cell_counts \ {s}),
           retained_seq_ids' = retained_seq_ids \ {s},
           NEW STATE t, Without(t, s),
           tree' = release(t, reqs[r].leaf),
           reqs' = [reqs EXCEPT ![r] = NoRequest],
           UNCHANGED tick
    PROVE  IInv'
<1> USE DEF IInv
<1>1. /\ r \in Holding /\ r \in Requests /\ p \in DOMAIN tree /\ s \in tree[p].seq_ids
      /\ s \in SeqIds
  <2>1. r \in Holding /\ r \in Requests /\ p \in DOMAIN tree /\ s \in tree[p].seq_ids
    BY DEF Holding, Owning, OwnedRegistered
  <2> QED
    BY <2>1 DEF TypeOK, Nodes
<1>4. Released(r, t)
  <2>1. SameReferences(t)
    BY DEF SameReferences, Without
  <2> QED
    BY <1>1, <2>1, ReleaseInv
<1>5. /\ DOMAIN tree' \subseteq DOMAIN tree /\ Root \in DOMAIN tree'
      /\ \A q \in DOMAIN tree' : /\ tree'[q] \in Nodes
                                  /\ tree'[q].seq_ids = t[q].seq_ids
                                  /\ tree'[q].ready_seq_ids = t[q].ready_seq_ids
                                  /\ tree'[q].canonical_len = t[q].canonical_len
      /\ \A q \in DOMAIN tree \ DOMAIN tree' : t[q].seq_ids = {}
  BY <1>4 DEF Released
<1>6. /\ reqs' \in [Requests -> Slots]
      /\ Holding' = Holding \ {r} /\ Owning' = Owning \ {r}
      /\ \A o \in Requests \ {r} : reqs'[o] = reqs[o]
      /\ \A o \in Owning \ {r} : reqs[o].node = reqs[o].leaf /\ o \in Holding'
  BY <1>4 DEF Released
<1>7. RefCountExact' /\ RequestInv' /\ CacheNodeAlive'
  BY <1>4 DEF Released
<1>8. /\ free_seq_ids' \in Seq(SeqIds)
      /\ Len(free_seq_ids') = Len(free_seq_ids) + 1 /\ Len(free_seq_ids) \in Nat
      /\ DOMAIN free_seq_ids' = 1 .. Len(free_seq_ids) + 1
      /\ DOMAIN free_seq_ids = 1 .. Len(free_seq_ids)
      /\ \A i \in 1 .. Len(free_seq_ids) : free_seq_ids'[i] = free_seq_ids[i]
      /\ free_seq_ids'[Len(free_seq_ids) + 1] = s
  BY <1>1, AppendProperties, LenProperties DEF TypeOK
<1>9. Range(free_seq_ids') = Range(free_seq_ids) \cup {s} /\ s \notin Range(free_seq_ids)
  <2>1. s \notin Range(free_seq_ids)
    BY <1>1 DEF SeqIdConservation, Registered
  <2> QED
    BY <1>8, <2>1 DEF Range
<1>10. /\ kv' \in [SeqIds -> Seq(Token)] /\ kv'[s] = << >>
       /\ \A i \in SeqIds \ {s} : kv'[i] = kv[i]
  BY <1>1, EmptySeq DEF TypeOK
<1>11. TypeOK'
  <2>1. /\ DOMAIN seq_cell_counts' \subseteq SeqIds
        /\ \A i \in DOMAIN seq_cell_counts' : seq_cell_counts'[i] \in Nat
        /\ retained_seq_ids' \subseteq SeqIds
    BY DEF TypeOK, Restrict
  <2> QED
    BY <1>5, <1>6, <1>8, <1>10, <2>1 DEF TypeOK
<1>12. \A o \in Owning' : /\ o \in Requests /\ o \in Owning /\ o # r /\ reqs'[o] = reqs[o]
                           /\ reqs[o].leaf \in DOMAIN tree' /\ reqs[o].seq # s
                           /\ reqs[o].seq \in SeqIds
                           /\ reqs[o].seq \in tree[reqs[o].node].seq_ids
  <2>1. \A o \in Owning' : /\ o \in Requests /\ o \in Owning /\ o # r
                            /\ reqs'[o] = reqs[o] /\ reqs[o].leaf \in DOMAIN tree'
    BY <1>6, <1>7 DEF RefCountExact, Owning
  <2>2. \A o \in Owning' : reqs[o].node \in DOMAIN tree
                            /\ reqs[o].seq \in tree[reqs[o].node].seq_ids
    BY <2>1 DEF OwnedRegistered
  <2>3. \A o \in Owning' : reqs[o].seq # s
    BY <2>1 DEF OwnedRegistered
  <2> QED
    BY <2>1, <2>2, <2>3 DEF TypeOK, Nodes
<1>13. OwnedRegistered'
  BY <1>5, <1>6, <1>12 DEF Without, OwnedRegistered
<1>14. Registered' = Registered \ {s}
  BY <1>5 DEF Registered, Without
<1>15. SeqIdConservation'
  <2>1. \A i, j \in DOMAIN free_seq_ids' : free_seq_ids'[i] = free_seq_ids'[j] => i = j
    <3>1. \A i \in 1 .. Len(free_seq_ids) : free_seq_ids[i] # s
      BY <1>8, <1>9 DEF Range
    <3>2. \A i, j \in 1 .. Len(free_seq_ids) : free_seq_ids[i] = free_seq_ids[j] => i = j
      BY <1>8 DEF SeqIdConservation
    <3> QED
      BY <1>8, <3>1, <3>2
  <2>2. Registered' = SeqIds \ Range(free_seq_ids')
    BY <1>9, <1>14 DEF SeqIdConservation
  <2>3. \A v, w \in DOMAIN tree' : v # w => tree'[v].seq_ids \cap tree'[w].seq_ids = {}
    <3>1. \A v \in DOMAIN tree' : v \in DOMAIN tree
                                   /\ tree'[v].seq_ids = tree[v].seq_ids \ {s}
      BY <1>5 DEF Without
    <3> QED
      BY <3>1 DEF SeqIdConservation
  <2>4. DOMAIN seq_cell_counts' = Registered'
    BY <1>14 DEF SeqIdConservation, Restrict
  <2> QED
    BY <2>1, <2>2, <2>3, <2>4 DEF SeqIdConservation
<1>16. ReadyCoversPath'
  <2> SUFFICES ASSUME NEW q \in DOMAIN tree'
               PROVE  /\ tree'[q].ready_seq_ids \subseteq tree'[q].seq_ids
                      /\ \A i \in tree'[q].ready_seq_ids : q \sqsubseteq kv'[i]
                      /\ IF tree'[q].seq_ids = {} THEN tree'[q].canonical_len = 0
                                                  ELSE tree'[q].canonical_len >= Len(q)
    BY DEF ReadyCoversPath
  <2>1. q \in DOMAIN tree /\ tree[q].ready_seq_ids \subseteq tree[q].seq_ids
        /\ tree[q].seq_ids \subseteq SeqIds
    BY <1>5 DEF ReadyCoversPath, TypeOK, Nodes
  <2>2. \A i \in tree[q].ready_seq_ids \ {s} : q \sqsubseteq kv'[i]
    BY <1>10, <2>1 DEF ReadyCoversPath
  <2> QED
    BY <1>5, <2>1, <2>2 DEF Without
<1>17. RequestKvExact'
  BY <1>10, <1>12 DEF RequestKvExact
<1>18. PooledEmpty'
  <2>1. Range(free_seq_ids) \subseteq SeqIds
    BY RangeOfSeq DEF TypeOK
  <2> QED
    BY <1>9, <1>10, <2>1 DEF PooledEmpty
<1> QED
  BY <1>7, <1>11, <1>13, <1>15, <1>16, <1>17, <1>18

\* release_sequence and tree_.release at the end of a request.
LEMMA ReleaseAllInv ==
    ASSUME IInv, NEW r \in Owning, Busy(r) \/ Quiet, ReleaseAll(r)
    PROVE  IInv'
<1> USE DEF IInv
<1>1. PICK s, p : s = reqs[r].seq /\ p = reqs[r].node
  OBVIOUS
<1>2. s \in tree[p].seq_ids
  BY <1>1 DEF OwnedRegistered
<1>3. CASE KeepsSeq(tree[p], s, prefix_cache_enabled)
  <2>1. s \in tree[p].ready_seq_ids
    BY <1>3 DEF KeepsSeq
  <2> QED
    BY <1>1, <1>3, <2>1, KeepSequenceInv DEF ReleaseAll
<1>4. CASE ~ KeepsSeq(tree[p], s, prefix_cache_enabled)
  <2>1. PICK t : t = [tree EXCEPT ![p] = WithoutSeq(@, s)]
    OBVIOUS
  <2>2. p \in DOMAIN tree
    BY <1>1 DEF OwnedRegistered
  <2>3. Without(t, s)
    BY <1>2, <2>1, <2>2, WithoutSeqFacts
  <2>4. /\ kv' = [kv EXCEPT ![s] = << >>]
        /\ free_seq_ids' = Append(free_seq_ids, s)
        /\ seq_cell_counts' = Restrict(seq_cell_counts, DOMAIN seq_cell_counts \ {s})
        /\ retained_seq_ids' = retained_seq_ids \ {s}
        /\ tree' = release(t, reqs[r].leaf)
        /\ reqs' = [reqs EXCEPT ![r] = NoRequest]
        /\ UNCHANGED tick
    BY <1>1, <1>2, <1>4, <2>1 DEF ReleaseAll
  <2> HIDE DEF IInv
  <2> QED
    BY <1>1, <2>3, <2>4, FreeSequenceInv
<1> QED
  BY <1>3, <1>4

-----------------------------------------------------------------------------
(* Registration *)

\* What the lookup finds: no source, or a ready sequence that shares the tokens below
\* cached_pos with the prompt.
LEMMA LookupFacts ==
    ASSUME TypeOK, ReadyCoversPath, NEW prompt \in Seq(Token), NEW m \in 0 .. Len(prompt),
           NEW hit \in Lookup(prompt, m)
    PROVE  \/ hit[1] = NoSeq /\ hit[2] = 0
           \/ /\ hit[1] \in SeqIds
              /\ hit[2] \in 0 .. Len(prompt)
              /\ hit[2] = Len(prompt) => prompt = << >>
              /\ hit[2] <= Len(kv[hit[1]])
              /\ \A i \in 1 .. hit[2] : kv[hit[1]][i] = prompt[i]
<1> DEFINE cut   == Prefix(prompt, m)
           nodes == IF prefix_cache_enabled /\ m > 0 THEN CoveringNodes(tree, cut) ELSE {}
<1>1. CASE nodes = {}
  BY <1>1 DEF Lookup
<1>2. CASE nodes # {}
  <2>0. PICK p \in nodes : \E s \in FirstReady(tree[p]) :
            hit = <<s, BackOff(prompt, Least(m, CoveredLen(tree, p)))>>
    BY <1>2 DEF Lookup
  <2>1. PICK s \in FirstReady(tree[p]) :
            hit = <<s, BackOff(prompt, Least(m, CoveredLen(tree, p)))>>
    BY <2>0
  <2>2. /\ p \in DOMAIN tree /\ s \in tree[p].ready_seq_ids
        /\ p \sqsubseteq cut \/ cut \sqsubseteq p
    BY <2>1 DEF CoveringNodes, FirstReady
  <2>3. /\ p \in Seq(Token) /\ p \sqsubseteq kv[s] /\ s \in SeqIds
        /\ tree[p].canonical_len \in Nat
    BY <2>2 DEF ReadyCoversPath, TypeOK, Nodes
  <2>4. kv[s] \in Seq(Token)
    BY <2>3 DEF TypeOK
  <2>5. /\ Len(cut) = m /\ \A i \in 1 .. m : cut[i] = prompt[i]
    BY PrefixFacts
  <2>6. Len(p) \in Nat /\ Len(prompt) \in Nat /\ Len(kv[s]) \in Nat
    BY <2>3, <2>4, LenProperties
  <2>7. PICK n \in Nat : n = Least(m, CoveredLen(tree, p))
    BY <2>3, <2>6 DEF Least, CoveredLen
  <2>8. n <= m /\ n <= Len(p)
    BY <2>3, <2>6, <2>7 DEF Least, CoveredLen
  <2>9. PICK pos \in Nat : pos = BackOff(prompt, n)
    BY <2>6 DEF BackOff
  <2>10. pos <= n /\ (pos = Len(prompt) => Len(prompt) = 0)
    BY <2>6, <2>8, <2>9 DEF BackOff
  <2>11. hit[1] = s /\ hit[2] = pos
    BY <2>1, <2>7, <2>9
  <2>12. \A i \in 1 .. pos : /\ kv[s][i] = p[i] /\ p[i] = cut[i] /\ cut[i] = prompt[i]
    <3>1. \A i \in 1 .. pos : i \in 1 .. Len(p) /\ i \in 1 .. m
      BY <2>6, <2>8, <2>10
    <3>2. \A i \in 1 .. Len(p) : p[i] = kv[s][i]
      BY <2>3 DEF \sqsubseteq
    <3>3. \A i \in 1 .. pos : p[i] = cut[i]
      BY <2>2, <2>5, <3>1 DEF \sqsubseteq
    <3> QED
      BY <2>5, <3>1, <3>2, <3>3
  <2>13. pos <= Len(kv[s]) /\ pos \in 0 .. Len(prompt)
    BY <2>3, <2>6, <2>8, <2>10 DEF \sqsubseteq
  <2>14. Len(prompt) = 0 => prompt = << >>
    BY EmptySeq
  <2> QED
    BY <2>3, <2>10, <2>11, <2>12, <2>13, <2>14
<1> QED
  BY <1>1, <1>2

\* Taking the first id out of the pool.
LEMMA PoolHead ==
    ASSUME NEW f \in Seq(SeqIds), f # << >>, Distinct(f)
    PROVE  /\ Head(f) \in SeqIds /\ Head(f) \in Range(f)
           /\ Tail(f) \in Seq(SeqIds) /\ Distinct(Tail(f))
           /\ Range(Tail(f)) = Range(f) \ {Head(f)}
<1>1. /\ Len(f) \in Nat /\ Len(f) # 0 /\ DOMAIN f = 1 .. Len(f)
      /\ Head(f) = f[1] /\ Tail(f) \in Seq(SeqIds) /\ Len(Tail(f)) = Len(f) - 1
      /\ \A i \in 1 .. Len(f) - 1 : Tail(f)[i] = f[i + 1]
      /\ DOMAIN Tail(f) = 1 .. Len(f) - 1
  BY EmptySeq, LenProperties, HeadTailProperties
<1>2. \A i \in 1 .. Len(f) : f[i] \in SeqIds
  BY <1>1, ElementOfSeq
<1>3. Head(f) \in SeqIds /\ Head(f) \in Range(f)
  BY <1>1, <1>2 DEF Range
<1>4. \A i, j \in 1 .. Len(f) : f[i] = f[j] => i = j
  BY <1>1 DEF Distinct
<1>5. Distinct(Tail(f))
  <2> SUFFICES ASSUME NEW i \in 1 .. Len(f) - 1, NEW j \in 1 .. Len(f) - 1,
                      Tail(f)[i] = Tail(f)[j]
               PROVE  i = j
    BY <1>1 DEF Distinct
  <2>1. f[i + 1] = f[j + 1] /\ i + 1 \in 1 .. Len(f) /\ j + 1 \in 1 .. Len(f)
    BY <1>1
  <2>2. i + 1 = j + 1
    BY <1>4, <2>1
  <2> QED
    BY <2>2
<1>6. Range(Tail(f)) = Range(f) \ {Head(f)}
  <2>1. ASSUME NEW v \in Range(Tail(f)) PROVE v \in Range(f) \ {Head(f)}
    <3>1. PICK i \in 1 .. Len(f) - 1 : v = f[i + 1]
      BY <1>1 DEF Range
    <3>2. i + 1 \in 1 .. Len(f) /\ i + 1 # 1 /\ 1 \in 1 .. Len(f)
      BY <1>1
    <3> QED
      BY <1>1, <1>4, <3>1, <3>2 DEF Range
  <2>2. ASSUME NEW v \in Range(f) \ {Head(f)} PROVE v \in Range(Tail(f))
    <3>1. PICK i \in 1 .. Len(f) : v = f[i]
      BY <1>1 DEF Range
    <3>2. i - 1 \in 1 .. Len(f) - 1 /\ (i - 1) + 1 = i
      BY <1>1, <3>1
    <3>3. Tail(f)[i - 1] = v
      BY <1>1, <3>1, <3>2
    <3> QED
      BY <1>1, <3>2, <3>3 DEF Range
  <2> QED
    BY <2>1, <2>2
<1> QED
  BY <1>1, <1>3, <1>5, <1>6

\* The node of the new sequence: one pending id more.
LEMMA RegisterFacts ==
    ASSUME TypeOK, ReadyCoversPath, NEW p \in DOMAIN tree, NEW s \in SeqIds,
           NEW t, t = register_seq_id(tree, p, s, Len(p))
    PROVE  /\ DOMAIN t = DOMAIN tree
           /\ \A q \in DOMAIN tree : t[q] \in Nodes /\ t[q].ref_count = tree[q].ref_count
                                     /\ t[q].ready_seq_ids = tree[q].ready_seq_ids
           /\ \A q \in DOMAIN tree \ {p} : t[q] = tree[q]
           /\ t[p].seq_ids = tree[p].seq_ids \cup {s}
           /\ t[p].canonical_len >= Len(p)
<1>1. /\ DOMAIN t = DOMAIN tree
      /\ \A q \in DOMAIN tree \ {p} : t[q] = tree[q]
      /\ t[p] = [tree[p] EXCEPT !.seq_ids = @ \cup {s},
                                !.canonical_len = IF @ = 0 THEN Len(p) ELSE @]
  BY DEF register_seq_id, WithSeq
<1>2. /\ tree[p] = [ref_count |-> tree[p].ref_count, seq_ids |-> tree[p].seq_ids,
                    ready_seq_ids |-> tree[p].ready_seq_ids,
                    last_access_tick |-> tree[p].last_access_tick,
                    canonical_len |-> tree[p].canonical_len]
      /\ tree[p].seq_ids \in SUBSET SeqIds /\ tree[p].ready_seq_ids \in SUBSET SeqIds
      /\ tree[p].canonical_len \in Nat /\ tree[p].last_access_tick \in Nat
      /\ tree[p].ref_count \in Nat
  BY DEF TypeOK, Nodes
<1>3. Len(p) \in Nat
  BY LenProperties DEF TypeOK
<1>4. PICK n \in Nat : n = IF tree[p].canonical_len = 0 THEN Len(p)
                          ELSE tree[p].canonical_len
  BY <1>2, <1>3
<1>5. n >= Len(p)
  BY <1>2, <1>3, <1>4 DEF ReadyCoversPath
<1>6. t[p] = [ref_count |-> tree[p].ref_count, seq_ids |-> tree[p].seq_ids \cup {s},
              ready_seq_ids |-> tree[p].ready_seq_ids,
              last_access_tick |-> tree[p].last_access_tick, canonical_len |-> n]
  BY <1>1, <1>2, <1>4
<1>7. /\ t[p] \in Nodes /\ t[p].ref_count = tree[p].ref_count
      /\ t[p].ready_seq_ids = tree[p].ready_seq_ids
      /\ t[p].seq_ids = tree[p].seq_ids \cup {s} /\ t[p].canonical_len = n
  BY <1>2, <1>6 DEF Nodes
<1>8. \A q \in DOMAIN tree : tree[q] \in Nodes
  BY DEF TypeOK
<1> QED
  BY <1>1, <1>5, <1>7, <1>8

\* A sequence with the first n tokens of another one is its prefix of that length.
LEMMA PrefixEqual ==
    ASSUME NEW S, NEW u \in Seq(S), NEW v \in Seq(S), NEW n \in Nat,
           n <= Len(u), n <= Len(v), \A i \in 1 .. n : u[i] = v[i]
    PROVE  Prefix(u, n) = Prefix(v, n)
<1>1. n \in 0 .. Len(u) /\ n \in 0 .. Len(v)
  BY LenProperties
<1>2. /\ Prefix(u, n) \in Seq(S) /\ Len(Prefix(u, n)) = n
      /\ \A i \in 1 .. n : Prefix(u, n)[i] = u[i]
  BY <1>1, PrefixFacts
<1>3. /\ Prefix(v, n) \in Seq(S) /\ Len(Prefix(v, n)) = n
      /\ \A i \in 1 .. n : Prefix(v, n)[i] = v[i]
  BY <1>1, PrefixFacts
<1> QED
  BY <1>2, <1>3, SeqEqual

\* The copied cells are the prompt's first cached_pos tokens.
LEMMA RegisterKv ==
    ASSUME IInv, NEW prompt \in Seq(Token), NEW m \in 0 .. Len(prompt),
           NEW new \in Range(free_seq_ids), NEW hit \in Lookup(prompt, m), NEW pos,
           pos = hit[2],
           kv' = IF pos > 0 THEN [kv EXCEPT ![new] = Cells(hit[1], pos)] ELSE kv
    PROVE  /\ pos \in 0 .. Len(prompt)
           /\ pos = Len(prompt) => prompt = << >>
           /\ kv' \in [SeqIds -> Seq(Token)]
           /\ kv'[new] = Prefix(prompt, pos)
           /\ \A i \in SeqIds \ {new} : kv'[i] = kv[i]
<1> USE DEF IInv
<1>1. new \in SeqIds /\ kv[new] = << >> /\ Len(prompt) \in Nat
  <2>1. Range(free_seq_ids) \subseteq SeqIds
    BY RangeOfSeq DEF TypeOK
  <2> QED
    BY <2>1, LenProperties DEF PooledEmpty
<1>2. CASE pos = 0
  <2>1. Prefix(prompt, 0) = << >>
    <3>1. 0 \in 0 .. Len(prompt)
      BY <1>1
    <3>2. Prefix(prompt, 0) \in Seq(Token) /\ Len(Prefix(prompt, 0)) = 0
      BY <3>1, PrefixFacts
    <3> QED
      BY <3>2, EmptySeq
  <2>2. kv' = kv
    BY <1>2
  <2>3. Len(prompt) = 0 => prompt = << >>
    BY EmptySeq
  <2> QED
    BY <1>1, <1>2, <2>1, <2>2, <2>3 DEF TypeOK
<1>3. CASE pos # 0
  <2>1. PICK src : src = hit[1]
    OBVIOUS
  <2>2. /\ src \in SeqIds /\ pos \in 0 .. Len(prompt)
        /\ pos = Len(prompt) => prompt = << >>
        /\ pos <= Len(kv[src]) /\ \A i \in 1 .. pos : kv[src][i] = prompt[i]
    BY <1>3, <2>1, LookupFacts
  <2>3. kv[src] \in Seq(Token) /\ Len(kv[src]) \in Nat /\ pos \in Nat
        /\ pos > 0 /\ pos <= Len(prompt)
    BY <1>1, <1>3, <2>2, LenProperties DEF TypeOK
  <2>4. Cells(src, pos) = Prefix(kv[src], pos)
    BY <2>2, <2>3 DEF Cells, Least
  <2>5. Prefix(kv[src], pos) = Prefix(prompt, pos)
    BY <2>2, <2>3, PrefixEqual
  <2>6. Prefix(prompt, pos) \in Seq(Token)
    BY <2>2, PrefixFacts
  <2>7. kv' = [kv EXCEPT ![new] = Prefix(prompt, pos)]
    BY <2>1, <2>3, <2>4, <2>5
  <2> QED
    BY <1>1, <2>2, <2>6, <2>7 DEF TypeOK
<1> QED
  BY <1>2, <1>3

\* seq_cp and register_seq_id: the new sequence is pending at the leaf.
LEMMA RegisterInv ==
    ASSUME IInv, NEW r \in Requests, Register(r)
    PROVE  IInv'
<1> USE DEF IInv
<1>1. Phase(r) = "inserted" /\ r \in Holding /\ r \notin Owning /\ Busy(r)
      /\ free_seq_ids # << >>
  BY DEF Register, Holding, Owning, Busy
<1>2. PICK prompt \in Seq(Token), m \in Nat :
          /\ prompt = reqs[r].prompt /\ prompt = reqs[r].leaf /\ prompt = reqs[r].node
          /\ m = reqs[r].matched /\ m \in 0 .. Len(prompt)
  BY <1>1 DEF RequestInv, TypeOK, Slots
<1>3. PICK new : new = Head(free_seq_ids)
  OBVIOUS
<1>4. /\ new \in SeqIds /\ new \in Range(free_seq_ids)
      /\ free_seq_ids' \in Seq(SeqIds) /\ Distinct(free_seq_ids')
      /\ Range(free_seq_ids') = Range(free_seq_ids) \ {new}
  <2>1. free_seq_ids' = Tail(free_seq_ids)
    BY DEF Register
  <2>2. free_seq_ids \in Seq(SeqIds) /\ Distinct(free_seq_ids)
    BY DEF TypeOK, SeqIdConservation, Distinct
  <2> QED
    BY <1>1, <1>3, <2>1, <2>2, PoolHead
<1>5. PICK hit \in Lookup(prompt, m) :
          /\ kv' = IF hit[2] > 0 THEN [kv EXCEPT ![new] = Cells(hit[1], hit[2])] ELSE kv
          /\ seq_cell_counts' = [s \in DOMAIN seq_cell_counts \cup {new} |->
                                    IF s = new THEN hit[2] ELSE seq_cell_counts[s]]
          /\ reqs' = [reqs EXCEPT
                 ![r] = [@ EXCEPT !.phase = IF hit[2] = Len(prompt) THEN "retiring"
                                            ELSE "prefill",
                                  !.seq = new,
                                  !.tokens = Prefix(prompt, hit[2])]]
  BY <1>2, <1>3 DEF Register
<1>6. PICK pos : pos = hit[2]
  OBVIOUS
<1>7. /\ pos \in 0 .. Len(prompt) /\ (pos = Len(prompt) => prompt = << >>)
      /\ kv' \in [SeqIds -> Seq(Token)] /\ kv'[new] = Prefix(prompt, pos)
      /\ \A i \in SeqIds \ {new} : kv'[i] = kv[i]
  BY <1>2, <1>4, <1>5, <1>6, RegisterKv
<1>8. Prefix(prompt, pos) \in Seq(Token) /\ Len(Prefix(prompt, pos)) = pos
      /\ Len(prompt) \in Nat /\ pos \in Nat
  BY <1>2, <1>7, PrefixFacts, LenProperties
<1>9. PICK phase \in {"retiring", "prefill"} :
          phase = IF pos = Len(prompt) THEN "retiring" ELSE "prefill"
  OBVIOUS
<1>10. /\ \A o \in Requests \ {r} : reqs'[o] = reqs[o]
       /\ reqs'[r].phase = phase /\ reqs'[r].prompt = prompt /\ reqs'[r].leaf = prompt
       /\ reqs'[r].node = prompt /\ reqs'[r].seq = new
       /\ reqs'[r].tokens = Prefix(prompt, pos)
       /\ reqs' \in [Requests -> Slots]
  <2>1. reqs[r] \in Slots /\ reqs \in [Requests -> Slots]
    BY DEF TypeOK
  <2>2. reqs' = [reqs EXCEPT ![r] = [reqs[r] EXCEPT !.phase = phase, !.seq = new,
                                                    !.tokens = Prefix(prompt, pos)]]
    BY <1>5, <1>6, <1>9
  <2>3. PICK q : q = [reqs[r] EXCEPT !.phase = phase, !.seq = new,
                                     !.tokens = Prefix(prompt, pos)]
    OBVIOUS
  <2>4. reqs' = [reqs EXCEPT ![r] = q]
    BY <2>2, <2>3
  <2>5. /\ q \in Slots /\ q.phase = phase /\ q.prompt = reqs[r].prompt
        /\ q.leaf = reqs[r].leaf /\ q.node = reqs[r].node /\ q.seq = new
        /\ q.tokens = Prefix(prompt, pos)
    BY <1>4, <1>8, <1>9, <2>1, <2>3 DEF Slots
  <2> QED
    BY <1>2, <2>1, <2>4, <2>5
<1>11. /\ prompt \in DOMAIN tree
       /\ tree' = register_seq_id(tree, prompt, new, Len(prompt))
  BY <1>1, <1>2, <1>3 DEF Register, RefCountExact
<1>12. /\ DOMAIN tree' = DOMAIN tree
       /\ \A q \in DOMAIN tree :
             /\ tree'[q] \in Nodes /\ tree'[q].ref_count = tree[q].ref_count
             /\ tree'[q].ready_seq_ids = tree[q].ready_seq_ids
       /\ \A q \in DOMAIN tree \ {prompt} : tree'[q] = tree[q]
       /\ tree'[prompt].seq_ids = tree[prompt].seq_ids \cup {new}
       /\ tree'[prompt].canonical_len >= Len(prompt)
  BY <1>4, <1>11, RegisterFacts
<1>13. /\ Holding' = Holding /\ Owning' = Owning \cup {r}
       /\ \A q : Holders(q)' = Holders(q)
  <2>1. Holding' = Holding /\ Owning' = Owning \cup {r}
    BY <1>1, <1>9, <1>10 DEF Holding, Owning, Phase
  <2>2. \A o \in Requests : reqs'[o].leaf = reqs[o].leaf
    BY <1>2, <1>10
  <2> QED
    BY <2>1, <2>2 DEF Holders, Holding
<1>14. TypeOK'
  <2>1. /\ DOMAIN seq_cell_counts' \subseteq SeqIds
        /\ \A s \in DOMAIN seq_cell_counts' : seq_cell_counts'[s] \in Nat
    BY <1>4, <1>5, <1>6, <1>8 DEF TypeOK
  <2>2. retained_seq_ids' \subseteq SeqIds /\ tick' = tick
    BY DEF Register, TypeOK
  <2> QED
    BY <1>4, <1>7, <1>10, <1>12, <2>1, <2>2 DEF TypeOK
<1>15. \A o \in Requests \ {r} : ~ Busy(o)
  BY <1>1 DEF RequestInv
<1>16. RequestInv'
  <2>1. \A o \in Requests : Busy(o)' => o = r
    BY <1>10, <1>15 DEF Busy, Phase
  <2>2. prompt \sqsubseteq prompt
    BY <1>2, PrefixOrder
  <2>3. phase = "prefill" => /\ Len(Prefix(prompt, pos)) < Len(prompt)
                             /\ Prefix(prompt, pos)
                                    = Prefix(prompt, Len(Prefix(prompt, pos)))
    BY <1>7, <1>8, <1>9
  <2>4. \A o \in Holding' \ {r} : o \in Holding /\ reqs'[o] = reqs[o]
    BY <1>10, <1>13 DEF Holding
  <2> QED
    BY <1>9, <1>10, <2>1, <2>2, <2>3, <2>4 DEF RequestInv, Phase
<1>17. RefCountExact'
  <2>1. \A o \in Holding : reqs'[o].leaf = reqs[o].leaf
    BY <1>2, <1>10 DEF Holding
  <2> QED
    BY <1>12, <1>13, <2>1 DEF RefCountExact
<1>18. new \notin Registered
  BY <1>4 DEF SeqIdConservation
<1>19. \A q \in DOMAIN tree : tree[q].seq_ids \subseteq tree'[q].seq_ids
                               /\ new \notin tree[q].seq_ids
  BY <1>12, <1>18 DEF Registered
<1>20. OwnedRegistered'
  <2>1. \A o \in Owning : /\ reqs'[o] = reqs[o] /\ reqs[o].seq # new
                           /\ reqs[o].node \in DOMAIN tree
                           /\ reqs[o].seq \in tree[reqs[o].node].seq_ids
    BY <1>1, <1>10, <1>19 DEF OwnedRegistered, Owning
  <2>2. \A o, w \in Owning : reqs[o].seq = reqs[w].seq => o = w
    BY DEF OwnedRegistered
  <2>3. new \in tree'[prompt].seq_ids
    BY <1>12
  <2> QED
    BY <1>10, <1>11, <1>12, <1>13, <1>19, <2>1, <2>2, <2>3 DEF OwnedRegistered
<1>21. Registered' = Registered \cup {new}
  BY <1>11, <1>12 DEF Registered
<1>22. SeqIdConservation'
  <2>1. Registered' = SeqIds \ Range(free_seq_ids')
    BY <1>4, <1>21 DEF SeqIdConservation
  <2>2. \A v, w \in DOMAIN tree' : v # w => tree'[v].seq_ids \cap tree'[w].seq_ids = {}
    <3>1. \A v, w \in DOMAIN tree : v # w => tree[v].seq_ids \cap tree[w].seq_ids = {}
      BY DEF SeqIdConservation
    <3> QED
      BY <1>12, <1>19, <3>1
  <2>3. DOMAIN seq_cell_counts' = Registered'
    BY <1>5, <1>21 DEF SeqIdConservation
  <2> QED
    BY <1>4, <2>1, <2>2, <2>3 DEF SeqIdConservation, Distinct
<1>23. ReadyCoversPath'
  <2> SUFFICES ASSUME NEW q \in DOMAIN tree
               PROVE  /\ tree'[q].ready_seq_ids \subseteq tree'[q].seq_ids
                      /\ \A i \in tree'[q].ready_seq_ids : q \sqsubseteq kv'[i]
                      /\ IF tree'[q].seq_ids = {} THEN tree'[q].canonical_len = 0
                                                  ELSE tree'[q].canonical_len >= Len(q)
    BY <1>12 DEF ReadyCoversPath
  <2>1. tree[q].ready_seq_ids \subseteq tree[q].seq_ids /\ tree[q].seq_ids \subseteq SeqIds
        /\ new \notin tree[q].ready_seq_ids
    BY <1>19 DEF ReadyCoversPath, TypeOK, Nodes
  <2>2. \A i \in tree'[q].ready_seq_ids : q \sqsubseteq kv'[i]
    BY <1>7, <1>12, <2>1 DEF ReadyCoversPath
  <2>3. IF tree'[q].seq_ids = {} THEN tree'[q].canonical_len = 0
                                 ELSE tree'[q].canonical_len >= Len(q)
    <3>1. CASE q = prompt
      BY <1>12, <3>1
    <3>2. CASE q # prompt
      BY <1>12, <3>2 DEF ReadyCoversPath
    <3> QED
      BY <3>1, <3>2
  <2> QED
    BY <1>12, <1>19, <2>1, <2>2, <2>3
<1>24. RequestKvExact'
  <2>1. \A o \in Owning : /\ reqs'[o] = reqs[o] /\ reqs[o].seq # new
                           /\ reqs[o].seq \in SeqIds
    BY <1>1, <1>10, <1>19 DEF OwnedRegistered, Owning, TypeOK, Nodes
  <2> QED
    BY <1>7, <1>10, <1>13, <2>1 DEF RequestKvExact
<1>25. PooledEmpty'
  <2>1. Range(free_seq_ids) \subseteq SeqIds
    BY RangeOfSeq DEF TypeOK
  <2> QED
    BY <1>4, <1>7, <2>1 DEF PooledEmpty
<1>26. CacheNodeAlive'
  BY <1>9, <1>10, <1>15 DEF CacheNodeAlive, Phase, Busy
<1> QED
  BY <1>14, <1>16, <1>17, <1>20, <1>22, <1>23, <1>24, <1>25, <1>26

-----------------------------------------------------------------------------
(* Decoding *)

\* A chunk of the prompt decoded: the sequence holds a longer prefix of the prompt.
LEMMA DecodePromptInv ==
    ASSUME IInv, NEW r \in Requests, NEW k \in 1 .. Len(reqs[r].prompt), DecodePrompt(r, k)
    PROVE  IInv'
<1> USE DEF IInv
<1>1. PICK prompt \in Seq(Token), s \in SeqIds, leaf \in DOMAIN tree, pos \in Nat :
          /\ prompt = reqs[r].prompt /\ s = reqs[r].seq /\ leaf = reqs[r].leaf
          /\ leaf = reqs[r].node /\ leaf \sqsubseteq prompt
          /\ pos = Len(reqs[r].tokens) /\ pos < Len(prompt)
          /\ reqs[r].tokens = Prefix(prompt, pos)
          /\ kv[s] = Prefix(prompt, pos) /\ s \in tree[leaf].seq_ids
  <2>1. Phase(r) = "prefill" /\ r \in Owning /\ r \in Holding
    BY DEF DecodePrompt, Owning, Holding
  <2>2. reqs[r] \in Slots
    BY DEF TypeOK
  <2>3. Len(reqs[r].tokens) \in Nat /\ reqs[r].prompt \in Seq(Token)
    BY <2>2, LenProperties DEF Slots
  <2>4. /\ reqs[r].leaf = reqs[r].node /\ reqs[r].leaf \sqsubseteq reqs[r].prompt
        /\ Len(reqs[r].tokens) < Len(reqs[r].prompt)
        /\ reqs[r].tokens = Prefix(reqs[r].prompt, Len(reqs[r].tokens))
    BY <2>1 DEF RequestInv
  <2>5. reqs[r].leaf \in DOMAIN tree /\ reqs[r].seq \in tree[reqs[r].leaf].seq_ids
    BY <2>1, <2>4 DEF OwnedRegistered
  <2>6. reqs[r].seq \in SeqIds
    BY <2>5 DEF TypeOK, Nodes
  <2>7. kv[reqs[r].seq] = reqs[r].tokens
    BY <2>1 DEF RequestKvExact
  <2> QED
    BY <2>3, <2>4, <2>5, <2>6, <2>7
<1>2. Phase(r) = "prefill" /\ r \in Owning /\ r \in Holding /\ Quiet
  BY DEF DecodePrompt, Owning, Holding
<1>3. /\ pos + k <= Len(prompt)
      /\ kv' = [kv EXCEPT ![s] = @ \o SubSeq(prompt, pos + 1, pos + k)]
      /\ reqs' = [reqs EXCEPT
             ![r] = [@ EXCEPT !.tokens = Prefix(prompt, pos + k),
                              !.phase = IF pos + k = Len(prompt) THEN "active"
                                        ELSE "prefill"]]
      /\ tree' = IF pos + k = Len(prompt) THEN mark_seq_id_ready(tree, leaf, s) ELSE tree
      /\ seq_cell_counts' =
             IF pos + k = Len(prompt)
             THEN [seq_cell_counts EXCEPT ![s] = tree[leaf].canonical_len]
             ELSE seq_cell_counts
      /\ UNCHANGED <<tick, free_seq_ids, retained_seq_ids>>
  BY <1>1 DEF DecodePrompt
<1>4. PICK n \in Nat : n = pos + k /\ n \in 0 .. Len(prompt) /\ pos <= n
                       /\ pos \in 0 .. Len(prompt) /\ Len(prompt) \in Nat
  BY <1>1, <1>3, LenProperties
<1>5. /\ Prefix(prompt, n) \in Seq(Token) /\ Len(Prefix(prompt, n)) = n
      /\ \A i \in 1 .. n : Prefix(prompt, n)[i] = prompt[i]
  BY <1>4, PrefixFacts
<1>6. kv[s] \o SubSeq(prompt, pos + 1, pos + k) = Prefix(prompt, n)
  <2>1. 1 \in 1 .. Len(prompt) + 1 /\ pos \in 1 - 1 .. Len(prompt) /\ n \in pos .. Len(prompt)
    BY <1>1, <1>4
  <2>2. SubSeq(prompt, 1, pos) \o SubSeq(prompt, pos + 1, n) = SubSeq(prompt, 1, n)
    BY <2>1, ConcatAdjacentSubSeq
  <2> QED
    BY <1>1, <1>4, <2>2 DEF Prefix
<1>7. /\ kv' \in [SeqIds -> Seq(Token)] /\ kv'[s] = Prefix(prompt, n)
      /\ \A i \in SeqIds \ {s} : kv'[i] = kv[i]
  BY <1>1, <1>3, <1>5, <1>6 DEF TypeOK
<1>8. PICK phase \in {"prefill", "active"} :
          phase = IF n = Len(prompt) THEN "active" ELSE "prefill"
  OBVIOUS
<1>9. /\ \A o \in Requests \ {r} : reqs'[o] = reqs[o]
      /\ reqs'[r].phase = phase /\ reqs'[r].prompt = prompt /\ reqs'[r].leaf = leaf
      /\ reqs'[r].node = leaf /\ reqs'[r].seq = s /\ reqs'[r].tokens = Prefix(prompt, n)
      /\ reqs' \in [Requests -> Slots]
  <2>1. reqs[r] \in Slots /\ reqs \in [Requests -> Slots] /\ reqs[r].phase = "prefill"
    BY <1>2 DEF TypeOK, Phase
  <2>2. PICK q : q = [reqs[r] EXCEPT !.tokens = Prefix(prompt, n), !.phase = phase]
    OBVIOUS
  <2>3. reqs' = [reqs EXCEPT ![r] = q]
    BY <1>3, <1>4, <1>8, <2>1, <2>2
  <2>4. /\ q \in Slots /\ q.phase = phase /\ q.prompt = reqs[r].prompt
        /\ q.leaf = reqs[r].leaf /\ q.node = reqs[r].node /\ q.seq = reqs[r].seq
        /\ q.tokens = Prefix(prompt, n)
    BY <1>5, <1>8, <2>1, <2>2 DEF Slots
  <2> QED
    BY <1>1, <2>1, <2>3, <2>4
<1>10. /\ Holding' = Holding /\ Owning' = Owning
       /\ \A q : Holders(q)' = Holders(q)
  <2>1. Holding' = Holding /\ Owning' = Owning
    BY <1>2, <1>8, <1>9 DEF Holding, Owning, Phase
  <2>2. \A o \in Requests : reqs'[o].leaf = reqs[o].leaf
    BY <1>1, <1>9
  <2> QED
    BY <2>1, <2>2 DEF Holders, Holding
<1>11. /\ DOMAIN tree' = DOMAIN tree
       /\ \A q \in DOMAIN tree :
             /\ tree'[q] \in Nodes /\ tree'[q].ref_count = tree[q].ref_count
             /\ tree'[q].seq_ids = tree[q].seq_ids
             /\ tree'[q].canonical_len = tree[q].canonical_len
             /\ tree'[q].ready_seq_ids = tree[q].ready_seq_ids
                \/ /\ q = leaf /\ n = Len(prompt)
                   /\ tree'[q].ready_seq_ids = tree[q].ready_seq_ids \cup {s}
  <2>1. \A q \in DOMAIN tree : tree[q] \in Nodes
    BY DEF TypeOK
  <2>2. CASE n # Len(prompt)
    BY <1>3, <1>4, <2>1, <2>2
  <2>3. CASE n = Len(prompt)
    <3>1. tree' = [tree EXCEPT ![leaf].ready_seq_ids = tree[leaf].ready_seq_ids \cup {s}]
      BY <1>1, <1>3, <1>4, <2>3 DEF mark_seq_id_ready
    <3>2. PICK w : w = [tree[leaf] EXCEPT !.ready_seq_ids = tree[leaf].ready_seq_ids \cup {s}]
      OBVIOUS
    <3>3. tree' = [tree EXCEPT ![leaf] = w]
      BY <3>1, <3>2
    <3>4. /\ w \in Nodes /\ w.ref_count = tree[leaf].ref_count
          /\ w.seq_ids = tree[leaf].seq_ids /\ w.canonical_len = tree[leaf].canonical_len
          /\ w.ready_seq_ids = tree[leaf].ready_seq_ids \cup {s}
      BY <1>1, <2>1, <3>2 DEF Nodes
    <3>5. /\ DOMAIN tree' = DOMAIN tree /\ tree'[leaf] = w
          /\ \A q \in DOMAIN tree \ {leaf} : tree'[q] = tree[q]
      BY <1>1, <3>3
    <3> QED
      BY <2>1, <2>3, <3>4, <3>5
  <2> QED
    BY <2>2, <2>3
<1>12. /\ DOMAIN seq_cell_counts' = DOMAIN seq_cell_counts
       /\ \A i \in DOMAIN seq_cell_counts' : seq_cell_counts'[i] \in Nat
  BY <1>1, <1>3 DEF TypeOK, Nodes
<1>13. TypeOK'
  BY <1>3, <1>7, <1>9, <1>11, <1>12 DEF TypeOK
<1>14. \A o \in Requests : ~ Busy(o)'
  BY <1>2, <1>8, <1>9 DEF Quiet, Busy, Phase
<1>15. RequestInv'
  <2>1. \A o \in Holding' \ {r} : o \in Holding /\ reqs'[o] = reqs[o]
    BY <1>9, <1>10 DEF Holding
  <2>2. phase = "prefill" => n < Len(prompt)
    BY <1>4, <1>8
  <2>3. phase = "active" => prompt \sqsubseteq Prefix(prompt, n)
    BY <1>1, <1>4, <1>5, <1>8 DEF \sqsubseteq
  <2>4. /\ reqs'[r].leaf \sqsubseteq reqs'[r].prompt
        /\ reqs'[r].phase = "prefill" =>
               /\ Len(reqs'[r].tokens) < Len(reqs'[r].prompt)
               /\ reqs'[r].tokens = Prefix(reqs'[r].prompt, Len(reqs'[r].tokens))
        /\ reqs'[r].phase = "active" => reqs'[r].prompt \sqsubseteq reqs'[r].tokens
    BY <1>1, <1>5, <1>9, <2>2, <2>3
  <2> QED
    BY <1>8, <1>9, <1>14, <2>1, <2>4 DEF RequestInv, Phase
<1>16. RefCountExact'
  <2>1. \A o \in Holding : reqs'[o].leaf = reqs[o].leaf
    BY <1>1, <1>9 DEF Holding
  <2> QED
    BY <1>10, <1>11, <2>1 DEF RefCountExact
<1>17. \A o \in Owning : reqs'[o].seq = reqs[o].seq /\ reqs'[o].node = reqs[o].node
                          /\ (o # r => reqs[o].seq # s /\ reqs'[o] = reqs[o])
                          /\ reqs[o].seq \in SeqIds
  BY <1>1, <1>2, <1>9 DEF OwnedRegistered, Owning, TypeOK, Nodes
<1>18. OwnedRegistered'
  BY <1>10, <1>11, <1>17 DEF OwnedRegistered
<1>19. Registered' = Registered
  BY <1>11 DEF Registered
<1>20. SeqIdConservation'
  BY <1>3, <1>11, <1>12, <1>19 DEF SeqIdConservation
<1>21. \A i \in SeqIds : \A q \in DOMAIN tree : q \sqsubseteq kv[i] => q \sqsubseteq kv'[i]
  <2>1. kv[s] \sqsubseteq kv'[s] /\ kv[s] \in Seq(Token) /\ kv'[s] \in Seq(Token)
    <3>1. /\ Len(kv[s]) = pos /\ \A i \in 1 .. pos : kv[s][i] = prompt[i]
      BY <1>1, <1>4, PrefixFacts
    <3> QED
      <4>1. kv[s] \in Seq(Token) /\ kv'[s] \in Seq(Token)
        BY <1>7 DEF TypeOK
      <4>2. Len(kv'[s]) = n /\ \A i \in 1 .. n : kv'[s][i] = prompt[i]
        BY <1>5, <1>7
      <4>3. \A i \in 1 .. pos : kv[s][i] = kv'[s][i]
        BY <1>4, <3>1, <4>2
      <4> QED
        BY <1>4, <3>1, <4>1, <4>2, <4>3 DEF \sqsubseteq
  <2> QED
    BY <1>7, <2>1, PrefixOrder DEF TypeOK
<1>22. ReadyCoversPath'
  <2> SUFFICES ASSUME NEW q \in DOMAIN tree
               PROVE  /\ tree'[q].ready_seq_ids \subseteq tree'[q].seq_ids
                      /\ \A i \in tree'[q].ready_seq_ids : q \sqsubseteq kv'[i]
                      /\ IF tree'[q].seq_ids = {} THEN tree'[q].canonical_len = 0
                                                  ELSE tree'[q].canonical_len >= Len(q)
    BY <1>11 DEF ReadyCoversPath
  <2>1. \A i \in tree[q].ready_seq_ids : q \sqsubseteq kv'[i]
    BY <1>21 DEF ReadyCoversPath, TypeOK, Nodes
  <2>2. n = Len(prompt) => leaf \sqsubseteq kv'[s]
    <3> SUFFICES ASSUME n = Len(prompt) PROVE leaf \sqsubseteq kv'[s]
      OBVIOUS
    <3>1. prompt \sqsubseteq Prefix(prompt, n)
      BY <1>1, <1>4, <1>5 DEF \sqsubseteq
    <3>2. leaf \in Seq(Token)
      BY <1>1 DEF TypeOK
    <3> QED
      BY <1>1, <1>5, <1>7, <3>1, <3>2, PrefixOrder
  <2>3. /\ tree'[q].ready_seq_ids \subseteq tree'[q].seq_ids
        /\ \A i \in tree'[q].ready_seq_ids : q \sqsubseteq kv'[i]
    BY <1>1, <1>11, <2>1, <2>2 DEF ReadyCoversPath
  <2> QED
    BY <1>11, <2>3 DEF ReadyCoversPath
<1>23. RequestKvExact'
  BY <1>7, <1>9, <1>10, <1>17 DEF RequestKvExact
<1>24. PooledEmpty'
  <2>1. Range(free_seq_ids) \subseteq SeqIds
    BY RangeOfSeq DEF TypeOK
  <2>2. s \notin Range(free_seq_ids)
    BY <1>1 DEF SeqIdConservation, Registered
  <2> QED
    BY <1>3, <1>7, <2>1, <2>2 DEF PooledEmpty
<1>25. CacheNodeAlive'
  BY <1>14 DEF CacheNodeAlive, Busy
<1> QED
  BY <1>13, <1>15, <1>16, <1>18, <1>20, <1>22, <1>23, <1>24, <1>25

\* A generated token decoded.
LEMMA GenerateInv ==
    ASSUME IInv, NEW r \in Requests, NEW token \in Token, Generate(r, token)
    PROVE  IInv'
<1> USE DEF IInv
<1>1. Phase(r) = "active" /\ r \in Owning /\ r \in Holding /\ Quiet
  BY DEF Generate, Owning, Holding
<1>2. PICK tokens \in Seq(Token), s \in SeqIds :
          /\ tokens = reqs[r].tokens /\ s = reqs[r].seq /\ kv[s] = tokens
          /\ s \in Registered
  <2>1. reqs[r].node \in DOMAIN tree /\ reqs[r].seq \in tree[reqs[r].node].seq_ids
    BY <1>1 DEF OwnedRegistered
  <2>2. reqs[r].seq \in SeqIds /\ reqs[r].seq \in Registered
    BY <2>1 DEF TypeOK, Nodes, Registered
  <2>3. reqs[r].tokens \in Seq(Token)
    BY DEF TypeOK, Slots
  <2> QED
    BY <1>1, <2>2, <2>3 DEF RequestKvExact
<1>3. PICK more \in Seq(Token) :
          /\ more = Append(tokens, token) /\ tokens \sqsubseteq more
          /\ Len(tokens) \in Nat
  <2>1. /\ Append(tokens, token) \in Seq(Token)
        /\ Len(Append(tokens, token)) = Len(tokens) + 1
        /\ \A i \in 1 .. Len(tokens) : Append(tokens, token)[i] = tokens[i]
    BY <1>2, AppendProperties
  <2>2. Len(tokens) \in Nat
    BY <1>2, LenProperties
  <2>3. tokens \sqsubseteq Append(tokens, token)
    BY <2>1, <2>2 DEF \sqsubseteq
  <2> QED
    BY <2>1, <2>2, <2>3
<1>4. /\ kv' = [kv EXCEPT ![s] = more]
      /\ seq_cell_counts' = [seq_cell_counts EXCEPT ![s] = Len(tokens) + 1]
      /\ reqs' = [reqs EXCEPT ![r].tokens = more]
      /\ UNCHANGED <<tree, tick, free_seq_ids, retained_seq_ids>>
  BY <1>2, <1>3 DEF Generate
<1>5. /\ kv' \in [SeqIds -> Seq(Token)] /\ kv'[s] = more
      /\ \A i \in SeqIds \ {s} : kv'[i] = kv[i]
  BY <1>2, <1>3, <1>4 DEF TypeOK
<1>6. /\ \A o \in Requests \ {r} : reqs'[o] = reqs[o]
      /\ \A o \in Requests : /\ reqs'[o].phase = reqs[o].phase /\ reqs'[o].seq = reqs[o].seq
                              /\ reqs'[o].leaf = reqs[o].leaf /\ reqs'[o].node = reqs[o].node
                              /\ reqs'[o].prompt = reqs[o].prompt
      /\ reqs'[r].tokens = more
      /\ reqs' \in [Requests -> Slots]
  <2>1. reqs[r] \in Slots /\ reqs \in [Requests -> Slots]
    BY DEF TypeOK
  <2>2. PICK q : q = [reqs[r] EXCEPT !.tokens = more]
    OBVIOUS
  <2>3. reqs' = [reqs EXCEPT ![r] = q]
    BY <1>4, <2>1, <2>2
  <2>4. /\ q \in Slots /\ q.phase = reqs[r].phase /\ q.prompt = reqs[r].prompt
        /\ q.leaf = reqs[r].leaf /\ q.node = reqs[r].node /\ q.seq = reqs[r].seq
        /\ q.tokens = more
    BY <1>3, <2>1, <2>2 DEF Slots
  <2> QED
    BY <2>1, <2>3, <2>4
<1>7. /\ Holding' = Holding /\ Owning' = Owning
      /\ \A q : Holders(q)' = Holders(q)
      /\ \A o \in Requests : ~ Busy(o)'
  <2>1. Holding' = Holding /\ Owning' = Owning
    BY <1>6 DEF Holding, Owning, Phase
  <2>2. \A o \in Requests : ~ Busy(o)'
    BY <1>1, <1>6 DEF Quiet, Busy, Phase
  <2> QED
    BY <1>6, <2>1, <2>2 DEF Holders, Holding
<1>8. TypeOK'
  BY <1>2, <1>3, <1>4, <1>5, <1>6 DEF TypeOK
<1>9. RequestInv'
  <2>1. \A o \in Holding' \ {r} : o \in Holding /\ reqs'[o] = reqs[o]
    BY <1>6, <1>7 DEF Holding
  <2>2. reqs[r].prompt \sqsubseteq more
    <3>1. reqs[r].prompt \sqsubseteq tokens /\ reqs[r].prompt \in Seq(Token)
      BY <1>1, <1>2 DEF RequestInv, TypeOK, Slots
    <3> QED
      BY <1>2, <1>3, <3>1, PrefixOrder
  <2>3. /\ reqs'[r].leaf \sqsubseteq reqs'[r].prompt /\ reqs'[r].node = reqs'[r].leaf
        /\ reqs'[r].prompt \sqsubseteq reqs'[r].tokens /\ reqs'[r].phase = "active"
    BY <1>1, <1>6, <2>2 DEF RequestInv, Phase
  <2> QED
    BY <1>7, <2>1, <2>3 DEF RequestInv, Phase
<1>10. RefCountExact'
  BY <1>4, <1>6, <1>7 DEF RefCountExact, Holding
<1>11. OwnedRegistered'
  BY <1>4, <1>6, <1>7 DEF OwnedRegistered, Owning
<1>12. SeqIdConservation'
  BY <1>4 DEF SeqIdConservation, Registered
<1>13. ReadyCoversPath'
  <2>1. \A q \in DOMAIN tree : \A i \in tree[q].ready_seq_ids : q \sqsubseteq kv'[i]
    <3> SUFFICES ASSUME NEW q \in DOMAIN tree, NEW i \in tree[q].ready_seq_ids
                 PROVE  q \sqsubseteq kv'[i]
      OBVIOUS
    <3>1. i \in SeqIds /\ q \in Seq(Token) /\ q \sqsubseteq kv[i]
      BY DEF TypeOK, Nodes, ReadyCoversPath
    <3>2. CASE i = s
      <4>1. q \sqsubseteq tokens /\ tokens \sqsubseteq more /\ kv'[i] = more
        BY <1>2, <1>3, <1>5, <3>1, <3>2
      <4> QED
        BY <3>1, <4>1, PrefixOrder
    <3>3. CASE i # s
      BY <1>5, <3>1, <3>3
    <3> QED
      BY <3>2, <3>3
  <2> QED
    BY <1>4, <2>1 DEF ReadyCoversPath
<1>14. RequestKvExact'
  <2>1. \A o \in Owning \ {r} : reqs[o].seq # s /\ reqs[o].seq \in SeqIds
                                  /\ reqs'[o] = reqs[o]
    BY <1>1, <1>2, <1>6 DEF OwnedRegistered, Owning, TypeOK, Nodes
  <2> QED
    BY <1>2, <1>5, <1>6, <1>7, <2>1 DEF RequestKvExact, Owning
<1>15. PooledEmpty'
  <2>1. Range(free_seq_ids) \subseteq SeqIds
    BY RangeOfSeq DEF TypeOK
  <2>2. s \notin Range(free_seq_ids)
    BY <1>2 DEF SeqIdConservation
  <2> QED
    BY <1>4, <1>5, <2>1, <2>2 DEF PooledEmpty
<1>16. CacheNodeAlive'
  BY <1>7 DEF CacheNodeAlive, Busy
<1> QED
  BY <1>8, <1>9, <1>10, <1>11, <1>12, <1>13, <1>14, <1>15, <1>16

-----------------------------------------------------------------------------
(* Retirement *)

\* The walk along an extension of the path of a node passes that node.
LEMMA WalkPasses ==
    ASSUME TypeOK, NEW T \in Seq(Token), NEW m, Matches(tree, T, m),
           NEW p \in DOMAIN tree, p \sqsubseteq T, NEW x, EdgeNode(tree, Prefix(T, m), x)
    PROVE  Follow(p, x, Prefix(T, m)) = p
<1>1. /\ p \in Seq(Token) /\ Len(p) \in Nat /\ Len(T) \in Nat /\ m \in 0 .. Len(T)
      /\ Len(p) <= Len(T)
  BY LenProperties DEF TypeOK, Matches, \sqsubseteq
<1>2. Prefix(T, Len(p)) \sqsubseteq p
  <2>1. Len(p) \in 0 .. Len(T)
    BY <1>1
  <2>2. /\ Len(Prefix(T, Len(p))) = Len(p)
        /\ \A i \in 1 .. Len(p) : Prefix(T, Len(p))[i] = T[i]
    BY <2>1, PrefixFacts
  <2> QED
    BY <1>1, <2>2 DEF \sqsubseteq
<1>3. Len(p) <= m
  BY <1>1, <1>2 DEF Matches
<1>4. CASE p # x
  BY <1>4 DEF Follow
<1>5. CASE p = x
  <2>1. /\ Prefix(T, m) \in Seq(Token) /\ Len(Prefix(T, m)) = m
        /\ \A i \in 1 .. m : Prefix(T, m)[i] = T[i]
    BY <1>1, PrefixFacts
  <2>2. Prefix(T, m) \sqsubseteq p
    BY <1>5 DEF EdgeNode
  <2>3. p \sqsubseteq Prefix(T, m)
    BY <1>1, <1>3, <2>1 DEF \sqsubseteq
  <2>4. p = Prefix(T, m)
    BY <1>1, <2>1, <2>2, <2>3, PrefixAntisymmetric
  <2> QED
    BY <1>5, <2>4 DEF Follow
<1> QED
  BY <1>4, <1>5

\* A node that gives s up.
LEMMA GivesUp ==
    ASSUME NEW w \in Nodes, NEW s, NEW v, v = WithoutSeq(w, s)
    PROVE  /\ v \in Nodes /\ v.ref_count = w.ref_count
           /\ v.seq_ids = w.seq_ids \ {s} /\ v.ready_seq_ids = w.ready_seq_ids \ {s}
           /\ v.canonical_len = IF w.seq_ids = {s} THEN 0 ELSE w.canonical_len
<1>1. /\ w = [ref_count |-> w.ref_count, seq_ids |-> w.seq_ids,
              ready_seq_ids |-> w.ready_seq_ids,
              last_access_tick |-> w.last_access_tick, canonical_len |-> w.canonical_len]
      /\ w.seq_ids \in SUBSET SeqIds /\ w.ready_seq_ids \in SUBSET SeqIds
      /\ w.canonical_len \in Nat /\ w.last_access_tick \in Nat /\ w.ref_count \in Nat
  BY DEF Nodes
<1>2. PICK c \in Nat : c = IF w.seq_ids = {s} THEN 0 ELSE w.canonical_len
  BY <1>1
<1>3. v = [ref_count |-> w.ref_count, seq_ids |-> w.seq_ids \ {s},
           ready_seq_ids |-> w.ready_seq_ids \ {s},
           last_access_tick |-> w.last_access_tick, canonical_len |-> c]
  BY <1>1, <1>2 DEF WithoutSeq
<1> QED
  BY <1>1, <1>2, <1>3 DEF Nodes

\* A node that takes s.
TakesSeq(v, n, s, len) ==
    /\ v \in Nodes /\ v.ref_count = n.ref_count /\ v.seq_ids = n.seq_ids \cup {s}
    /\ v.ready_seq_ids = n.ready_seq_ids \cup {s} /\ v.canonical_len = len

\* What insertion into seq_ids and ready_seq_ids of extend_seq_id's target does to a node.
LEMMA Takes ==
    ASSUME NEW n \in Nodes, NEW s \in SeqIds, NEW k \in Nat, NEW len \in Nat
    PROVE  TakesSeq(WithReadySeq(n, s, len, k), n, s, len)
<1>1. /\ n = [ref_count |-> n.ref_count, seq_ids |-> n.seq_ids,
              ready_seq_ids |-> n.ready_seq_ids,
              last_access_tick |-> n.last_access_tick, canonical_len |-> n.canonical_len]
      /\ n.seq_ids \in SUBSET SeqIds /\ n.ready_seq_ids \in SUBSET SeqIds
      /\ n.ref_count \in Nat
  BY DEF Nodes
<1>2. PICK v : v = WithReadySeq(n, s, len, k)
  OBVIOUS
<1>3. v = [ref_count |-> n.ref_count, seq_ids |-> n.seq_ids \cup {s},
           ready_seq_ids |-> n.ready_seq_ids \cup {s},
           last_access_tick |-> k, canonical_len |-> len]
  BY <1>1, <1>2 DEF WithReadySeq
<1>4. TakesSeq(v, n, s, len)
  BY <1>1, <1>3 DEF Nodes, TakesSeq
<1> QED
  BY <1>2, <1>4

\* The two nodes that MoveSeq changes: p gives s up, T takes it.
Extended(d, p, s, T, k, t) ==
    /\ DOMAIN t = DOMAIN d \cup {T}
    /\ \A q \in DOMAIN d \ {p, T} : t[q] = d[q]
    /\ t[p] \in Nodes /\ t[p].ref_count = d[p].ref_count
    /\ t[p].seq_ids = d[p].seq_ids \ {s}
    /\ t[p].ready_seq_ids = d[p].ready_seq_ids \ {s}
    /\ t[p].canonical_len = IF d[p].seq_ids = {s} THEN 0 ELSE d[p].canonical_len
    /\ t[T] \in Nodes /\ t[T].ref_count = NodeAt(d, T, k).ref_count
    /\ t[T].seq_ids = NodeAt(d, T, k).seq_ids \cup {s}
    /\ t[T].ready_seq_ids = NodeAt(d, T, k).ready_seq_ids \cup {s}
    /\ t[T].canonical_len = Len(T)

\* extend_seq_id after the walk: every node of the tree, by its role in the move.
LEMMA ExtendFacts ==
    ASSUME NEW d, \A q \in DOMAIN d : d[q] \in Nodes,
           NEW p \in DOMAIN d, NEW T \in Seq(Token), p # T,
           NEW s \in SeqIds, NEW k \in Nat, NEW t,
           t = MoveSeq(d, p, s, T, k)
    PROVE  Extended(d, p, s, T, k, t)
<1>1. Len(T) \in Nat
  BY LenProperties
<1>2. PICK n \in Nodes : n = NodeAt(d, T, k)
  BY DEF NodeAt, NewNode, Nodes
<1>3. PICK w \in Nodes : w = d[p]
  OBVIOUS
<1>4. /\ DOMAIN t = DOMAIN d \cup {T}
      /\ \A q \in DOMAIN d \ {p, T} : t[q] = d[q]
      /\ t[p] = WithoutSeq(w, s)
      /\ t[T] = WithReadySeq(n, s, Len(T), k)
  BY <1>2, <1>3 DEF MoveSeq
<1>5. /\ t[p] \in Nodes /\ t[p].ref_count = w.ref_count
      /\ t[p].seq_ids = w.seq_ids \ {s} /\ t[p].ready_seq_ids = w.ready_seq_ids \ {s}
      /\ t[p].canonical_len = IF w.seq_ids = {s} THEN 0 ELSE w.canonical_len
  BY <1>3, <1>4, GivesUp
<1>6. /\ t[T] \in Nodes /\ t[T].ref_count = n.ref_count
      /\ t[T].seq_ids = n.seq_ids \cup {s}
      /\ t[T].ready_seq_ids = n.ready_seq_ids \cup {s} /\ t[T].canonical_len = Len(T)
  <2>1. t[T] = WithReadySeq(n, s, Len(T), k)
    BY <1>4
  <2>2. TakesSeq(WithReadySeq(n, s, Len(T), k), n, s, Len(T))
    BY <1>1, Takes
  <2> QED
    BY <2>1, <2>2 DEF TakesSeq
<1> QED
  BY <1>2, <1>3, <1>4, <1>5, <1>6 DEF Extended

\* A slot that starts to retire.
Retiring(q, T) == [q EXCEPT !.phase = "retiring", !.node = T]

\* The request that retire has moved to another node keeps its leaf, prompt, id and tokens.
LEMMA RetiringSlot ==
    ASSUME NEW q \in Slots, NEW T \in Seq(Token)
    PROVE  /\ Retiring(q, T) \in Slots
           /\ Retiring(q, T).phase = "retiring" /\ Retiring(q, T).node = T
           /\ Retiring(q, T).leaf = q.leaf /\ Retiring(q, T).prompt = q.prompt
           /\ Retiring(q, T).seq = q.seq /\ Retiring(q, T).tokens = q.tokens
<1>1. Retiring(q, T) \in Slots
  BY DEF Slots, Retiring
<1>2. /\ Retiring(q, T).phase = "retiring" /\ Retiring(q, T).node = T
      /\ Retiring(q, T).leaf = q.leaf /\ Retiring(q, T).prompt = q.prompt
      /\ Retiring(q, T).seq = q.seq /\ Retiring(q, T).tokens = q.tokens
  BY DEF Slots, Retiring
<1> QED
  BY <1>1, <1>2

\* The requests after the split at cut, with r retiring.
Relinked(r, T, x, cut) ==
    /\ reqs' \in [Requests -> Slots]
    /\ reqs'[r].phase = "retiring" /\ reqs'[r].node = T
    /\ reqs'[r].leaf = Follow(reqs[r].leaf, x, cut)
    /\ reqs'[r].prompt = reqs[r].prompt /\ reqs'[r].seq = reqs[r].seq
    /\ reqs'[r].tokens = reqs[r].tokens
    /\ \A o \in Requests \ {r} :
           /\ reqs'[o].phase = reqs[o].phase /\ reqs'[o].prompt = reqs[o].prompt
           /\ reqs'[o].seq = reqs[o].seq /\ reqs'[o].tokens = reqs[o].tokens
           /\ reqs'[o].matched = reqs[o].matched
           /\ reqs'[o].leaf = Follow(reqs[o].leaf, x, cut)
           /\ reqs'[o].node = Follow(reqs[o].node, x, cut)

\* The pointers of all requests after the split and the move of extend_seq_id.
LEMMA RelinkFacts ==
    ASSUME TypeOK, NEW r \in Requests, NEW T \in Seq(Token), NEW x \in Seq(Token),
           NEW cut \in Seq(Token),
           reqs' = [Relink(x, cut) EXCEPT ![r] = [@ EXCEPT !.phase = "retiring", !.node = T]]
    PROVE  Relinked(r, T, x, cut)
<1>1. \A o \in Requests : /\ Follow(reqs[o].leaf, x, cut) \in Seq(Token)
                          /\ Follow(reqs[o].node, x, cut) \in Seq(Token)
                          /\ reqs[o] \in Slots
  BY DEF Follow, TypeOK, Slots
<1>2. Relink(x, cut) \in [Requests -> Slots]
  BY <1>1 DEF Relink, Slots
<1>3. /\ reqs'[r] = [Relink(x, cut)[r] EXCEPT !.phase = "retiring", !.node = T]
      /\ \A o \in Requests \ {r} : reqs'[o] = Relink(x, cut)[o]
      /\ DOMAIN reqs' = Requests
      /\ reqs' = [o \in Requests |-> reqs'[o]]
  BY <1>2
<1>4. ASSUME NEW o \in Requests, NEW q, q = Relink(x, cut)[o]
      PROVE  /\ q \in Slots /\ q.phase = reqs[o].phase /\ q.prompt = reqs[o].prompt
             /\ q.seq = reqs[o].seq /\ q.tokens = reqs[o].tokens
             /\ q.matched = reqs[o].matched
             /\ q.leaf = Follow(reqs[o].leaf, x, cut)
             /\ q.node = Follow(reqs[o].node, x, cut)
  <2>1. q = [reqs[o] EXCEPT !.leaf = Follow(reqs[o].leaf, x, cut),
                            !.node = Follow(reqs[o].node, x, cut)]
    BY <1>4 DEF Relink
  <2>2. reqs[o] \in Slots /\ q \in Slots
    BY <1>1, <1>2, <1>4
  <2> QED
    BY <2>1, <2>2 DEF Slots
<1>5. PICK q : q = Relink(x, cut)[r]
  OBVIOUS
<1>6. /\ reqs'[r] \in Slots /\ reqs'[r].phase = "retiring" /\ reqs'[r].node = T
      /\ reqs'[r].leaf = q.leaf /\ reqs'[r].prompt = q.prompt /\ reqs'[r].seq = q.seq
      /\ reqs'[r].tokens = q.tokens
  <2>1. q \in Slots /\ reqs'[r] = Retiring(q, T)
    BY <1>2, <1>3, <1>5 DEF Retiring
  <2>2. /\ Retiring(q, T) \in Slots
        /\ Retiring(q, T).phase = "retiring" /\ Retiring(q, T).node = T
        /\ Retiring(q, T).leaf = q.leaf /\ Retiring(q, T).prompt = q.prompt
        /\ Retiring(q, T).seq = q.seq /\ Retiring(q, T).tokens = q.tokens
    BY <2>1, RetiringSlot
  <2> QED
    BY <2>1, <2>2
<1>7. reqs' \in [Requests -> Slots]
  BY <1>2, <1>3, <1>6
<1> QED
  BY <1>3, <1>4, <1>5, <1>6, <1>7 DEF Relinked

\* What every tree satisfies, whoever holds its nodes.
Sound(t) ==
    /\ DOMAIN t \subseteq Seq(Token) /\ Root \in DOMAIN t
    /\ \A q \in DOMAIN t : t[q] \in Nodes
    /\ \A q, w \in DOMAIN t : q # w => t[q].seq_ids \cap t[w].seq_ids = {}
    /\ \A q \in DOMAIN t :
           /\ t[q].ready_seq_ids \subseteq t[q].seq_ids
           /\ \A i \in t[q].ready_seq_ids : q \sqsubseteq kv[i]
           /\ IF t[q].seq_ids = {} THEN t[q].canonical_len = 0
                                   ELSE t[q].canonical_len >= Len(q)

\* t is d with the sequence s moved to the node at T.
Moved(d, t, s, T) ==
    /\ DOMAIN t = DOMAIN d \cup {T}
    /\ \A q \in DOMAIN d : t[q].ref_count = d[q].ref_count
    /\ T \notin DOMAIN d => t[T].ref_count = 0
    /\ \A q \in DOMAIN d : d[q].seq_ids \ {s} \subseteq t[q].seq_ids
    /\ s \in t[T].seq_ids
    /\ UNION {t[q].seq_ids : q \in DOMAIN t} = UNION {d[q].seq_ids : q \in DOMAIN d}

\* MoveSeq keeps a tree sound when the sequence holds the KV of its new path.
LEMMA MoveInv ==
    ASSUME TypeOK, NEW d, Sound(d), NEW p \in DOMAIN d, NEW T \in Seq(Token), p # T,
           NEW s \in SeqIds, s \in d[p].seq_ids, kv[s] = T,
           NEW k \in Nat, NEW t, t = MoveSeq(d, p, s, T, k)
    PROVE  Sound(t) /\ Moved(d, t, s, T)
<1>1. /\ DOMAIN d \subseteq Seq(Token) /\ Root \in DOMAIN d
      /\ \A q \in DOMAIN d : d[q] \in Nodes
      /\ \A q, w \in DOMAIN d : q # w => d[q].seq_ids \cap d[w].seq_ids = {}
      /\ \A q \in DOMAIN d : d[q].ready_seq_ids \subseteq d[q].seq_ids
  BY DEF Sound
<1>2. PICK n : n = NodeAt(d, T, k)
  OBVIOUS
<1>2a. Extended(d, p, s, T, k, t)
  BY <1>1, ExtendFacts
<1>3. DOMAIN t = DOMAIN d \cup {T} /\ \A q \in DOMAIN d \ {p, T} : t[q] = d[q]
  BY <1>2a DEF Extended
<1>4. /\ t[p] \in Nodes /\ t[p].ref_count = d[p].ref_count
      /\ t[p].seq_ids = d[p].seq_ids \ {s}
      /\ t[p].ready_seq_ids = d[p].ready_seq_ids \ {s}
  BY <1>2a DEF Extended
<1>5. t[p].canonical_len = IF d[p].seq_ids = {s} THEN 0 ELSE d[p].canonical_len
  BY <1>2a DEF Extended
<1>6. /\ t[T] \in Nodes /\ t[T].ref_count = n.ref_count
      /\ t[T].seq_ids = n.seq_ids \cup {s}
      /\ t[T].ready_seq_ids = n.ready_seq_ids \cup {s}
      /\ t[T].canonical_len = Len(T)
  BY <1>2, <1>2a DEF Extended
<1>7. /\ T \in DOMAIN d => n = d[T]
      /\ T \notin DOMAIN d => n.seq_ids = {} /\ n.ready_seq_ids = {} /\ n.ref_count = 0
  BY <1>2 DEF NodeAt, NewNode
<1>8. \A q \in DOMAIN d \ {p} : s \notin d[q].seq_ids /\ s \notin d[q].ready_seq_ids
  BY <1>1
<1>9. \A q \in DOMAIN d \ {T} : /\ t[q].seq_ids = d[q].seq_ids \ {s}
                                 /\ t[q].ready_seq_ids = d[q].ready_seq_ids \ {s}
                                 /\ t[q].ref_count = d[q].ref_count /\ t[q] \in Nodes
  BY <1>1, <1>3, <1>4, <1>8
<1>10. /\ \A q \in DOMAIN d : t[q].ref_count = d[q].ref_count
       /\ T \notin DOMAIN d => t[T].ref_count = 0
  BY <1>6, <1>7, <1>9
<1>11. /\ \A q \in DOMAIN d : d[q].seq_ids \ {s} \subseteq t[q].seq_ids
       /\ s \in t[T].seq_ids
  BY <1>6, <1>7, <1>9
<1>12. \A q \in DOMAIN d \ {T} : n.seq_ids \cap d[q].seq_ids = {}
  BY <1>1, <1>7
<1>13. UNION {t[q].seq_ids : q \in DOMAIN t} = UNION {d[q].seq_ids : q \in DOMAIN d}
  <2>1. ASSUME NEW q \in DOMAIN t, NEW i \in t[q].seq_ids
        PROVE  \E w \in DOMAIN d : i \in d[w].seq_ids
    <3>1. CASE q # T
      BY <1>3, <1>9, <3>1
    <3>2. CASE q = T /\ i = s
      BY <3>2
    <3>3. CASE q = T /\ i # s
      BY <1>6, <1>7, <3>3
    <3> QED
      BY <3>1, <3>2, <3>3
  <2>2. ASSUME NEW q \in DOMAIN d, NEW i \in d[q].seq_ids
        PROVE  \E w \in DOMAIN t : i \in t[w].seq_ids
    <3>1. T \in DOMAIN t /\ q \in DOMAIN t
      BY <1>3
    <3>2. i \in t[T].seq_ids \/ i \in t[q].seq_ids
      BY <1>11
    <3> QED
      BY <3>1, <3>2
  <2> QED
    BY <2>1, <2>2
<1>14. ASSUME NEW q \in DOMAIN t, NEW w \in DOMAIN t, q # w
       PROVE  t[q].seq_ids \cap t[w].seq_ids = {}
  <2>1. CASE q # T /\ w # T
    BY <1>1, <1>3, <1>9, <1>14, <2>1
  <2>2. CASE q = T
    BY <1>3, <1>6, <1>9, <1>12, <1>14, <2>2
  <2>3. CASE w = T
    BY <1>3, <1>6, <1>9, <1>12, <1>14, <2>3
  <2> QED
    BY <2>1, <2>2, <2>3
<1>15. ASSUME NEW q \in DOMAIN t
       PROVE  /\ t[q].ready_seq_ids \subseteq t[q].seq_ids
              /\ \A i \in t[q].ready_seq_ids : q \sqsubseteq kv[i]
              /\ IF t[q].seq_ids = {} THEN t[q].canonical_len = 0
                                      ELSE t[q].canonical_len >= Len(q)
  <2>1. CASE q = T
    <3>1. n.ready_seq_ids \subseteq n.seq_ids /\ \A i \in n.ready_seq_ids : T \sqsubseteq kv[i]
      BY <1>7 DEF Sound
    <3>2. T \sqsubseteq kv[s] /\ Len(T) \in Nat
      BY PrefixOrder, LenProperties
    <3>3. t[q].ready_seq_ids \subseteq t[q].seq_ids /\ s \in t[q].seq_ids
      BY <1>6, <2>1, <3>1
    <3>4. \A i \in t[q].ready_seq_ids : q \sqsubseteq kv[i]
      BY <1>6, <2>1, <3>1, <3>2
    <3>5. t[q].canonical_len >= Len(q)
      BY <1>6, <2>1, <3>2
    <3> QED
      BY <3>3, <3>4, <3>5
  <2>2. CASE q # T
    <3>1. q \in DOMAIN d
      BY <1>3, <2>2
    <3>2. /\ t[q].ready_seq_ids \subseteq t[q].seq_ids
          /\ \A i \in t[q].ready_seq_ids : q \sqsubseteq kv[i]
      BY <1>9, <2>2, <3>1 DEF Sound
    <3>3. CASE q = p
      <4>1. d[p].seq_ids = {s} <=> t[p].seq_ids = {}
        BY <1>4
      <4>2. d[p].canonical_len >= Len(p)
        BY DEF Sound
      <4> QED
        BY <1>5, <3>2, <3>3, <4>1, <4>2
    <3>4. CASE q # p
      BY <1>3, <2>2, <3>1, <3>2, <3>4 DEF Sound
    <3> QED
      BY <3>3, <3>4
  <2> QED
    BY <2>1, <2>2
<1>16. Sound(t)
  <2>1. DOMAIN t \subseteq Seq(Token) /\ Root \in DOMAIN t
    BY <1>1, <1>3
  <2>2. \A q \in DOMAIN t : t[q] \in Nodes
    BY <1>3, <1>6, <1>9
  <2> QED
    BY <1>14, <1>15, <2>1, <2>2 DEF Sound
<1> QED
  BY <1>3, <1>10, <1>11, <1>13, <1>16 DEF Moved

\* extend_sequence moved the sequence to the node of all its tokens.
LEMMA RetireExtendInv ==
    ASSUME IInv, NEW r \in Requests, Quiet, Phase(r) = "active",
           NEW T \in Seq(Token), T = reqs[r].tokens, NEW s, s = reqs[r].seq,
           NEW x, NEW cut \in Seq(Token), EdgeNode(tree, cut, x),
           NEW d, d = split_node(tree, x, cut), Sound(tree'), Moved(d, tree', s, T),
           tick' \in Nat, Relinked(r, T, x, cut),
           DOMAIN seq_cell_counts' = DOMAIN seq_cell_counts,
           \A i \in DOMAIN seq_cell_counts' : seq_cell_counts'[i] \in Nat,
           UNCHANGED <<free_seq_ids, retained_seq_ids, kv>>
    PROVE  IInv'
<1> USE DEF IInv
<1>1. r \in Owning /\ r \in Holding
  BY DEF Owning, Holding
<1>2. /\ Root \in DOMAIN d
      /\ UNION {d[q].seq_ids : q \in DOMAIN d} = Registered
  BY SplitInv
<1>3. \A q \in DOMAIN tree : /\ Follow(q, x, cut) \in DOMAIN d
                             /\ d[Follow(q, x, cut)] = tree[q]
  BY SplitInv
<1>4. /\ \A q \in DOMAIN d :
              d[q].ref_count = Cardinality(HoldersAfter(q, x, cut))
                                   + (IF q = Root THEN 1 ELSE 0)
      /\ \A q : q \notin DOMAIN d => HoldersAfter(q, x, cut) = {}
  BY SplitInv
<1>5. /\ Holding' = Holding /\ Owning' = Owning
      /\ \A q : Holders(q)' = HoldersAfter(q, x, cut)
      /\ \A o \in Requests : reqs'[o].leaf = Follow(reqs[o].leaf, x, cut)
  <2>1. \A o \in Requests : reqs'[o].leaf = Follow(reqs[o].leaf, x, cut)
    BY DEF Relinked
  <2>2. Holding' = Holding /\ Owning' = Owning
    BY <1>1 DEF Relinked, Holding, Owning, Phase
  <2> QED
    BY <2>1, <2>2 DEF Holders, HoldersAfter, Holding
<1>6. TypeOK'
  <2>1. /\ DOMAIN tree' \subseteq Seq(Token) /\ Root \in DOMAIN tree'
        /\ \A q \in DOMAIN tree' : tree'[q] \in Nodes
    BY DEF Sound
  <2>2. reqs' \in [Requests -> Slots]
    BY DEF Relinked
  <2> QED
    BY <2>1, <2>2 DEF TypeOK
<1>7. RequestInv'
  <2>1. \A o \in Requests : Busy(o)' => o = r
    BY DEF Quiet, Relinked, Busy, Phase
  <2>2. \A o \in Holding : Follow(reqs[o].leaf, x, cut) \sqsubseteq reqs[o].prompt
    <3>1. \A o \in Holding : /\ reqs[o].leaf \in Seq(Token) /\ reqs[o].prompt \in Seq(Token)
                             /\ reqs[o].leaf \sqsubseteq reqs[o].prompt
      BY DEF Holding, TypeOK, Slots, RequestInv
    <3>2. cut \sqsubseteq x
      BY DEF EdgeNode
    <3> QED
      BY <3>1, <3>2, PrefixOrder DEF Follow
  <2>3. \A o \in Holding \ {r} :
            /\ Phase(o) # "retiring" /\ Phase(o) # "inserted" /\ Phase(o)' = Phase(o)
            /\ reqs'[o].node = reqs'[o].leaf
            /\ reqs'[o].leaf \sqsubseteq reqs'[o].prompt
    BY <2>2 DEF Relinked, Holding, Phase, RequestInv, Quiet, Busy
  <2>4. \A o \in Holding \ {r} :
            /\ Phase(o)' = "prefill" =>
                   /\ Len(reqs'[o].tokens) < Len(reqs'[o].prompt)
                   /\ reqs'[o].tokens = Prefix(reqs'[o].prompt, Len(reqs'[o].tokens))
            /\ Phase(o)' = "active" => reqs'[o].prompt \sqsubseteq reqs'[o].tokens
    BY DEF Relinked, Holding, Phase, RequestInv
  <2>5. reqs'[r].leaf \sqsubseteq reqs'[r].prompt /\ reqs'[r].phase = "retiring"
    BY <1>1, <2>2 DEF Relinked
  <2> QED
    BY <1>5, <2>1, <2>3, <2>4, <2>5 DEF RequestInv, Phase
<1>8. RefCountExact'
  <2>1. ASSUME NEW q \in DOMAIN tree'
        PROVE  tree'[q].ref_count = Cardinality(HoldersAfter(q, x, cut))
                                        + (IF q = Root THEN 1 ELSE 0)
    <3>1. CASE q \in DOMAIN d
      BY <1>4, <3>1 DEF Moved
    <3>2. CASE q \notin DOMAIN d
      <4>1. q # Root /\ HoldersAfter(q, x, cut) = {}
        BY <1>2, <1>4, <3>2
      <4>2. tree'[q].ref_count = 0
        BY <3>2 DEF Moved
      <4> QED
        BY <4>1, <4>2, FS_EmptySet
    <3> QED
      BY <3>1, <3>2
  <2>2. \A o \in Holding : reqs'[o].leaf \in DOMAIN tree'
    <3>1. \A o \in Holding : Follow(reqs[o].leaf, x, cut) \in DOMAIN d
      BY <1>3 DEF RefCountExact
    <3> QED
      BY <1>5, <3>1 DEF Holding, Moved
  <2> QED
    BY <1>5, <2>1, <2>2 DEF RefCountExact
<1>9. OwnedRegistered'
  <2>1. \A o \in Owning \ {r} : /\ reqs'[o].seq = reqs[o].seq /\ reqs[o].seq # s
                                 /\ reqs'[o].node = Follow(reqs[o].node, x, cut)
                                 /\ reqs[o].node \in DOMAIN tree
                                 /\ reqs[o].seq \in tree[reqs[o].node].seq_ids
    BY <1>1 DEF Relinked, OwnedRegistered, Owning
  <2>2. reqs'[r].seq = s /\ reqs'[r].node = T
    BY DEF Relinked
  <2>3. \A o \in Owning \ {r} : /\ reqs'[o].node \in DOMAIN d
                                 /\ reqs'[o].seq \in d[reqs'[o].node].seq_ids \ {s}
    BY <1>3, <2>1
  <2>4. \A o \in Owning : /\ reqs'[o].node \in DOMAIN tree'
                           /\ reqs'[o].seq \in tree'[reqs'[o].node].seq_ids
    BY <2>2, <2>3 DEF Moved
  <2>5. \A o, w \in Owning : reqs'[o].seq = reqs'[w].seq => o = w
    <3>1. \A o, w \in Owning : reqs[o].seq = reqs[w].seq => o = w
      BY DEF OwnedRegistered
    <3> QED
      BY <2>1, <2>2, <3>1
  <2> QED
    BY <1>5, <2>4, <2>5 DEF OwnedRegistered
<1>10. Registered' = Registered
  BY <1>2 DEF Registered, Moved
<1>11. SeqIdConservation'
  BY <1>10 DEF SeqIdConservation, Sound
<1>12. ReadyCoversPath'
  BY DEF ReadyCoversPath, Sound
<1>13. RequestKvExact' /\ PooledEmpty'
  BY <1>5 DEF RequestKvExact, PooledEmpty, Relinked, Owning
<1>14. CacheNodeAlive'
  BY DEF CacheNodeAlive, Relinked, Quiet, Busy, Phase
<1> QED
  BY <1>6, <1>7, <1>8, <1>9, <1>11, <1>12, <1>13, <1>14

\* retire of a request that ended with an end-of-generation token.
LEMMA RetireInv ==
    ASSUME IInv, NEW r \in Requests, Retire(r)
    PROVE  IInv'
<1> USE DEF IInv
<1>1. /\ Quiet /\ Phase(r) = "active" /\ r \in Owning /\ r \in Holding
      /\ Len(reqs[r].tokens) > Len(reqs[r].prompt)
      /\ UNCHANGED <<free_seq_ids, retained_seq_ids, kv>>
  BY DEF Retire, Owning, Holding
<1>2. PICK T \in Seq(Token), p \in DOMAIN tree, s \in SeqIds :
          /\ T = reqs[r].tokens /\ p = reqs[r].leaf /\ s = reqs[r].seq
          /\ p = reqs[r].node /\ s \in tree[p].seq_ids /\ kv[s] = T
  <2>1. reqs[r].leaf = reqs[r].node
    BY <1>1 DEF RequestInv
  <2>2. reqs[r].leaf \in DOMAIN tree /\ reqs[r].seq \in tree[reqs[r].leaf].seq_ids
    BY <1>1, <2>1 DEF OwnedRegistered
  <2>3. reqs[r].seq \in SeqIds /\ reqs[r].tokens \in Seq(Token)
    BY <2>2 DEF TypeOK, Nodes, Slots
  <2> QED
    BY <1>1, <2>1, <2>2, <2>3 DEF RequestKvExact
<1>3. /\ DOMAIN seq_cell_counts' = DOMAIN seq_cell_counts
      /\ \A i \in DOMAIN seq_cell_counts' : seq_cell_counts'[i] \in Nat
  <2>1. Len(T) \in Nat
    BY <1>2, LenProperties
  <2>2. seq_cell_counts' = seq_cell_counts
            \/ seq_cell_counts' = [seq_cell_counts EXCEPT ![s] = Len(T)]
    BY <1>2 DEF Retire
  <2> QED
    BY <2>1, <2>2 DEF TypeOK
<1>4. CASE prefix_cache_enabled /\ s \in tree[p].ready_seq_ids
  <2>1. PICK m \in 0 .. Len(T), x \in DOMAIN tree :
            /\ Matches(tree, T, m)
            /\ EdgeNode(tree, Prefix(T, m), x)
            /\ tick' = tick + 1
            /\ tree' = extend_seq_id(tree, p, s, T, x, Prefix(T, m), tick')
            /\ reqs' = [Relink(x, Prefix(T, m)) EXCEPT
                           ![r] = [@ EXCEPT !.phase = "retiring", !.node = T]]
    BY <1>2, <1>4 DEF Retire
  <2>2. PICK cut \in Seq(Token) : cut = Prefix(T, m)
    BY <1>2, <2>1, PrefixFacts
  <2>3. EdgeNode(tree, cut, x) /\ x \in Seq(Token) /\ tick' \in Nat
    BY <2>1, <2>2 DEF TypeOK
  <2>4. PICK d : d = split_node(tree, x, cut)
    OBVIOUS
  <2>5. Relinked(r, T, x, cut)
    BY <1>2, <2>1, <2>2, <2>3, RelinkFacts
  <2>6. p \sqsubseteq T /\ p # T
    <3>1. /\ p \in Seq(Token) /\ reqs[r].prompt \in Seq(Token)
          /\ p \sqsubseteq reqs[r].prompt /\ reqs[r].prompt \sqsubseteq T
      BY <1>1, <1>2 DEF RequestInv, TypeOK, Slots
    <3>2. p \sqsubseteq T
      BY <1>2, <3>1, PrefixOrder
    <3>3. Len(p) <= Len(reqs[r].prompt) /\ Len(p) \in Nat /\ Len(reqs[r].prompt) \in Nat
          /\ Len(T) \in Nat /\ Len(T) > Len(reqs[r].prompt)
      BY <1>1, <1>2, <3>1, LenProperties DEF \sqsubseteq
    <3> QED
      BY <3>2, <3>3
  <2>7. Follow(p, x, cut) = p
    BY <1>2, <2>1, <2>2, <2>6, WalkPasses
  <2>8. Sound(d) /\ p \in DOMAIN d /\ d[p] = tree[p]
    <3>1. /\ DOMAIN d \subseteq Seq(Token) /\ Root \in DOMAIN d
          /\ \A q \in DOMAIN d : d[q] \in Nodes
          /\ \A q, w \in DOMAIN d : q # w => d[q].seq_ids \cap d[w].seq_ids = {}
      BY <2>3, <2>4, SplitInv
    <3>2. \A q \in DOMAIN d :
              /\ d[q].ready_seq_ids \subseteq d[q].seq_ids
              /\ \A i \in d[q].ready_seq_ids : q \sqsubseteq kv[i]
              /\ IF d[q].seq_ids = {} THEN d[q].canonical_len = 0
                                      ELSE d[q].canonical_len >= Len(q)
      BY <2>3, <2>4, SplitInv
    <3>3. \A q \in DOMAIN tree : /\ Follow(q, x, cut) \in DOMAIN d
                                 /\ d[Follow(q, x, cut)] = tree[q]
      BY <2>3, <2>4, SplitInv
    <3> QED
      BY <1>2, <2>7, <3>1, <3>2, <3>3 DEF Sound
  <2>9. tree' = MoveSeq(d, p, s, T, tick')
    BY <2>1, <2>2, <2>4 DEF extend_seq_id
  <2>10. PICK t, k : t = tree' /\ k = tick'
    OBVIOUS
  <2>11. Sound(t) /\ Moved(d, t, s, T)
    BY <1>2, <2>3, <2>6, <2>8, <2>9, <2>10, MoveInv
  <2>12. Sound(tree') /\ Moved(d, tree', s, T)
    BY <2>10, <2>11
  <2> HIDE DEF IInv
  <2> QED
    BY <1>1, <1>2, <1>3, <2>3, <2>4, <2>5, <2>12, RetireExtendInv
<1>5. CASE ~ (prefix_cache_enabled /\ s \in tree[p].ready_seq_ids)
  <2>1. reqs' = [reqs EXCEPT ![r].phase = "retiring"] /\ UNCHANGED <<tree, tick>>
    BY <1>2, <1>5 DEF Retire
  <2>2. /\ \A o \in Requests \ {r} : reqs'[o] = reqs[o]
        /\ reqs'[r].phase = "retiring"
        /\ \A o \in Requests : /\ reqs'[o].leaf = reqs[o].leaf /\ reqs'[o].seq = reqs[o].seq
                                /\ reqs'[o].node = reqs[o].node
                                /\ reqs'[o].prompt = reqs[o].prompt
                                /\ reqs'[o].tokens = reqs[o].tokens
        /\ reqs' \in [Requests -> Slots]
    BY <2>1 DEF TypeOK, Slots
  <2>3. /\ Holding' = Holding /\ Owning' = Owning
        /\ \A q : Holders(q)' = Holders(q)
        /\ \A o \in Requests : Busy(o)' => o = r
    <3>1. Holding' = Holding /\ Owning' = Owning
      BY <1>1, <2>2 DEF Holding, Owning, Phase
    <3>2. \A o \in Requests : Busy(o)' => o = r
      BY <1>1, <2>2 DEF Quiet, Busy, Phase
    <3> QED
      BY <2>2, <3>1, <3>2 DEF Holders, Holding
  <2>4. TypeOK'
    BY <1>1, <1>3, <2>1, <2>2 DEF TypeOK
  <2>5. RequestInv'
    <3>1. \A o \in Holding' \ {r} : o \in Holding /\ reqs'[o] = reqs[o]
      BY <2>2, <2>3 DEF Holding
    <3>2. reqs'[r].leaf \sqsubseteq reqs'[r].prompt
      BY <1>1, <2>2 DEF RequestInv
    <3> QED
      BY <2>2, <2>3, <3>1, <3>2 DEF RequestInv, Phase
  <2>6. RefCountExact'
    BY <2>1, <2>2, <2>3 DEF RefCountExact, Holding
  <2>7. OwnedRegistered'
    BY <2>1, <2>2, <2>3 DEF OwnedRegistered, Owning
  <2>8. SeqIdConservation' /\ ReadyCoversPath' /\ PooledEmpty'
    BY <1>1, <1>3, <2>1 DEF SeqIdConservation, Registered, ReadyCoversPath, PooledEmpty
  <2>9. RequestKvExact'
    BY <1>1, <2>2, <2>3 DEF RequestKvExact, Owning
  <2>10. CacheNodeAlive'
    BY <2>2, <2>3 DEF CacheNodeAlive, Busy, Phase
  <2> QED
    BY <2>4, <2>5, <2>6, <2>7, <2>8, <2>9, <2>10
<1> QED
  BY <1>4, <1>5

-----------------------------------------------------------------------------
(* The invariant *)

\* A step that changes nothing preserves the invariant.
LEMMA StutterInv == IInv /\ UNCHANGED vars => IInv'
<1> SUFFICES ASSUME IInv, UNCHANGED vars PROVE IInv'
  OBVIOUS
<1> USE DEF IInv, vars
<1>1. TypeOK'
  BY DEF TypeOK
<1>2. /\ Holding' = Holding /\ Owning' = Owning /\ \A p : Holders(p)' = Holders(p)
  BY DEF Holding, Owning, Holders, Phase
<1>3. RequestInv' /\ CacheNodeAlive'
  BY <1>2 DEF RequestInv, CacheNodeAlive, Busy, Phase
<1>4. RefCountExact' /\ OwnedRegistered' /\ RequestKvExact'
  BY <1>2 DEF RefCountExact, OwnedRegistered, RequestKvExact
<1>5. SeqIdConservation' /\ ReadyCoversPath' /\ PooledEmpty'
  BY DEF SeqIdConservation, Registered, ReadyCoversPath, PooledEmpty
<1> QED
  BY <1>1, <1>3, <1>4, <1>5

\* Every call of the worker preserves the invariant: one step per action.
LEMMA NextInv == IInv /\ [Next]_vars => IInv'
<1> SUFFICES ASSUME IInv, [Next]_vars PROVE IInv'
  OBVIOUS
<1>1. ASSUME NEW r \in Requests, Busy(r), Phase(r) # "retiring"
      PROVE  \A o \in Requests : Phase(o) # "retiring"
  BY <1>1 DEF IInv, RequestInv, Busy
<1>2. ASSUME NEW r \in Requests, NEW prompt \in Prompts, BeginPrepare(r, prompt)
      PROVE  IInv'
  BY <1>2, BeginPrepareInv
<1>3. ASSUME NEW r \in Requests, EvictPressure(r) PROVE IInv'
  BY <1>1, <1>3, EvictOneInv DEF EvictPressure, Busy
<1>4. ASSUME NEW r \in Requests, Insert(r) PROVE IInv'
  BY <1>4, InsertInv
<1>5. ASSUME NEW r \in Requests, AllocateEvict(r) PROVE IInv'
  BY <1>1, <1>5, EvictOneInv DEF AllocateEvict, Busy
<1>6. ASSUME NEW r \in Requests, Exhausted(r) PROVE IInv'
  BY <1>6, ExhaustedInv
<1>7. ASSUME NEW r \in Requests, Register(r) PROVE IInv'
  BY <1>7, RegisterInv
<1>8. ASSUME NEW r \in Requests, NEW k \in 1 .. Len(reqs[r].prompt), DecodePrompt(r, k)
      PROVE  IInv'
  BY <1>8, DecodePromptInv
<1>9. ASSUME NEW r \in Requests, NEW token \in Token, Generate(r, token)
      PROVE  IInv'
  BY <1>9, GenerateInv
<1>10. ASSUME NEW r \in Requests, Retire(r) PROVE IInv'
  BY <1>10, RetireInv
<1>11. ASSUME NEW r \in Requests, FinishRetire(r) PROVE IInv'
  <2>1. r \in Owning /\ Busy(r) /\ ReleaseAll(r)
    BY <1>11 DEF FinishRetire, Owning, Busy
  <2> QED
    BY <2>1, ReleaseAllInv
<1>12. ASSUME NEW r \in Requests, Abandon(r) PROVE IInv'
  <2>1. r \in Owning /\ Quiet /\ ReleaseAll(r)
    BY <1>12 DEF Abandon, Owning
  <2> QED
    BY <2>1, ReleaseAllInv
<1>13. ASSUME EvictIdle PROVE IInv'
  <2>1. \A o \in Requests : Phase(o) # "retiring"
    BY <1>13 DEF EvictIdle, Quiet, Busy
  <2> QED
    BY <1>13, <2>1, EvictOneInv DEF EvictIdle
<1>14. CASE UNCHANGED vars
  BY <1>14, StutterInv
<1> QED
  BY <1>2, <1>3, <1>4, <1>5, <1>6, <1>7, <1>8, <1>9, <1>10, <1>11, <1>12, <1>13, <1>14
     DEF Next

\* The invariant holds in every reachable state, for every value of the constants.
THEOREM Invariance == Spec => []IInv
<1>1. Init => IInv
  BY InitInv
<1>2. IInv /\ [Next]_vars => IInv'
  BY NextInv
<1> QED
  BY <1>1, <1>2, PTL DEF Spec

\* Every variable of the mapper keeps its type.
THEOREM TypeCorrect == Spec => []TypeOK
<1>1. IInv => TypeOK
  BY DEF IInv
<1> QED
  BY <1>1, Invariance, PTL

\* No seq_id of the pool is lost, handed out twice or registered twice, whatever requests
\* fail, retire or evict one another (prepare_sequence, release_sequence, evict_one_locked).
THEOREM SeqIdsConserved == Spec => []SeqIdConservation
<1>1. IInv => SeqIdConservation
  BY DEF IInv
<1> QED
  BY <1>1, Invariance, PTL

\* insert, split_node, release and the error paths keep every ref_count exact.
THEOREM RefCountsExact == Spec => []RefCountExact
<1>1. IInv => RefCountExact
  BY DEF IInv
<1> QED
  BY <1>1, Invariance, PTL

\* A ready sequence always holds the KV of the whole path of its node.
THEOREM ReadySequencesCover == Spec => []ReadyCoversPath
<1>1. IInv => ReadyCoversPath
  BY DEF IInv
<1> QED
  BY <1>1, Invariance, PTL

\* The cells that a request attends to are exactly its own tokens: prefix sharing is
\* transparent to the request.
THEOREM RequestCellsExact == Spec => []RequestKvExact
<1>1. IInv => RequestKvExact
  BY DEF IInv
<1> QED
  BY <1>1, Invariance, PTL

\* Eviction and release never take the sequence of a request in flight.
THEOREM OwnedStayRegistered == Spec => []OwnedRegistered
<1>1. IInv => OwnedRegistered
  BY DEF IInv
<1> QED
  BY <1>1, Invariance, PTL

\* The cache_node of prepare_sequence is alive when the lookup dereferences it.
THEOREM CacheNodeStaysAlive == Spec => []CacheNodeAlive
<1>1. IInv => CacheNodeAlive
  BY DEF IInv
<1> QED
  BY <1>1, Invariance, PTL
=============================================================================
