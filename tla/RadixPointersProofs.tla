-------------------------- MODULE RadixPointersProofs --------------------------
(***************************************************************************)
(* Proofs about RadixPointers: the nodes and pointers of the class         *)
(* RadixTree always form a tree, no caller holds a pointer to a deleted    *)
(* node, every call does what module RadixIndex says of token paths, and   *)
(* the lookups answer what module RadixTree says of them.                  *)
(***************************************************************************)
EXTENDS RadixPointers, RecursionProofs, FiniteSetTheorems, SequenceTheorems

-----------------------------------------------------------------------------
(* Token sequences *)

p \sqsubseteq q == Index!\sqsubseteq(p, q)

\* The token behind the first n of a sequence.
TokenAfter(s, n) == s[n + 1]

\* A prefix of a longer sequence, as split_node and the walks cut it.
LEMMA PrefixFacts ==
    ASSUME NEW S, NEW s \in Seq(S), NEW n \in 0 .. Len(s)
    PROVE  /\ SubSeq(s, 1, n) \in Seq(S)
           /\ Len(SubSeq(s, 1, n)) = n
           /\ \A i \in 1 .. n : SubSeq(s, 1, n)[i] = s[i]
           /\ SubSeq(s, 1, n) \sqsubseteq s
<1>1. \A i \in 1 .. n : s[i] \in S
  BY ElementOfSeq, LenProperties
<1>2. /\ SubSeq(s, 1, n) \in Seq(S)
      /\ Len(SubSeq(s, 1, n)) = IF 1 <= n THEN n - 1 + 1 ELSE 0
      /\ \A i \in 1 .. n - 1 + 1 : SubSeq(s, 1, n)[i] = s[1 + i - 1]
  BY <1>1, SubSeqProperties, LenProperties
<1>3. Len(s) \in Nat
  BY LenProperties
<1> QED
  BY <1>2, <1>3 DEF \sqsubseteq, Index!\sqsubseteq

\* The rest of a sequence behind its first n elements.
LEMMA SuffixFacts ==
    ASSUME NEW S, NEW s \in Seq(S), NEW n \in 0 .. Len(s)
    PROVE  /\ SubSeq(s, n + 1, Len(s)) \in Seq(S)
           /\ Len(SubSeq(s, n + 1, Len(s))) = Len(s) - n
           /\ \A i \in 1 .. Len(s) - n : SubSeq(s, n + 1, Len(s))[i] = s[n + i]
           /\ SubSeq(s, 1, n) \o SubSeq(s, n + 1, Len(s)) = s
<1>0. Len(s) \in Nat
  BY LenProperties
<1>1. \A i \in n + 1 .. Len(s) : s[i] \in S
  BY <1>0, ElementOfSeq
<1>2. /\ SubSeq(s, n + 1, Len(s)) \in Seq(S)
      /\ Len(SubSeq(s, n + 1, Len(s))) = IF n + 1 <= Len(s) THEN Len(s) - (n + 1) + 1 ELSE 0
      /\ \A i \in 1 .. Len(s) - (n + 1) + 1 : SubSeq(s, n + 1, Len(s))[i] = s[n + 1 + i - 1]
  BY <1>0, <1>1, SubSeqProperties
<1>3. /\ Len(SubSeq(s, n + 1, Len(s))) = Len(s) - n
      /\ \A i \in 1 .. Len(s) - n : SubSeq(s, n + 1, Len(s))[i] = s[n + i]
  <2>1. Len(SubSeq(s, n + 1, Len(s))) = Len(s) - n
    BY <1>0, <1>2
  <2>2. ASSUME NEW i \in 1 .. Len(s) - n PROVE SubSeq(s, n + 1, Len(s))[i] = s[n + i]
    <3>1. i \in 1 .. Len(s) - (n + 1) + 1 /\ n + 1 + i - 1 = n + i
      BY <1>0
    <3> QED BY <1>2, <3>1
  <2> QED BY <2>1, <2>2
<1>4. /\ SubSeq(s, 1, n) \in Seq(S) /\ Len(SubSeq(s, 1, n)) = n
      /\ \A i \in 1 .. n : SubSeq(s, 1, n)[i] = s[i]
  BY PrefixFacts
<1>5. SubSeq(s, 1, n) \o SubSeq(s, n + 1, Len(s)) = s
  <2> DEFINE a == SubSeq(s, 1, n)
             b == SubSeq(s, n + 1, Len(s))
  <2>1. /\ a \o b \in Seq(S) /\ Len(a \o b) = Len(a) + Len(b)
        /\ \A i \in 1 .. Len(a) + Len(b) : (a \o b)[i] = IF i <= Len(a) THEN a[i] ELSE b[i - Len(a)]
    BY <1>2, <1>4, ConcatProperties
  <2>2. /\ Len(a) = n /\ Len(b) = Len(s) - n
        /\ \A i \in 1 .. n : a[i] = s[i]
        /\ \A i \in 1 .. Len(s) - n : b[i] = s[n + i]
    BY <1>3, <1>4
  <2> HIDE DEF a, b
  <2>3. \A i \in 1 .. Len(s) : (a \o b)[i] = s[i]
    <3> SUFFICES ASSUME NEW i \in 1 .. Len(s) PROVE (a \o b)[i] = s[i]
      OBVIOUS
    <3>1. (a \o b)[i] = IF i <= n THEN a[i] ELSE b[i - n]
      BY <1>0, <2>1, <2>2
    <3>2. CASE i <= n
      BY <2>2, <3>1, <3>2
    <3>3. CASE ~ (i <= n)
      <4>1. i - n \in 1 .. Len(s) - n /\ n + (i - n) = i
        BY <1>0, <3>3
      <4> QED BY <2>2, <3>1, <3>3, <4>1
    <3> QED BY <3>2, <3>3
  <2>4. Len(a \o b) = Len(s)
    BY <1>0, <2>1, <2>2
  <2>5. a \o b = s
    BY <2>1, <2>3, <2>4, SeqEqual
  <2> QED BY <2>5 DEF a, b
<1> QED
  BY <1>2, <1>3, <1>5

\* The prefix relation is an order.
LEMMA PrefixOrder ==
    ASSUME NEW S, NEW p \in Seq(S), NEW q \in Seq(S)
    PROVE  /\ p \sqsubseteq p /\ << >> \sqsubseteq p
           /\ p \sqsubseteq q => Len(p) <= Len(q)
           /\ p \sqsubseteq q /\ Len(q) <= Len(p) => p = q
<1> Len(p) \in Nat /\ Len(q) \in Nat
  BY LenProperties
<1>1. p \sqsubseteq q /\ Len(q) <= Len(p) => p = q
  BY SeqEqual DEF \sqsubseteq, Index!\sqsubseteq
<1> QED
  BY <1>1 DEF \sqsubseteq, Index!\sqsubseteq

\* Prefixes of prefixes are prefixes, and of two prefixes the shorter one is a prefix
\* of the longer one.
LEMMA PrefixChain ==
    ASSUME NEW S, NEW p \in Seq(S), NEW q \in Seq(S), NEW w \in Seq(S)
    PROVE  /\ p \sqsubseteq q /\ q \sqsubseteq w => p \sqsubseteq w
           /\ p \sqsubseteq w /\ q \sqsubseteq w /\ Len(p) <= Len(q) => p \sqsubseteq q
<1> Len(p) \in Nat /\ Len(q) \in Nat /\ Len(w) \in Nat
  BY LenProperties
<1>1. ASSUME p \sqsubseteq q, q \sqsubseteq w PROVE p \sqsubseteq w
  <2>1. /\ Len(p) <= Len(q) /\ \A i \in 1 .. Len(p) : p[i] = q[i]
        /\ Len(q) <= Len(w) /\ \A i \in 1 .. Len(q) : q[i] = w[i]
    BY <1>1 DEF \sqsubseteq, Index!\sqsubseteq
  <2>2. \A i \in 1 .. Len(p) : p[i] = w[i]
    BY <2>1
  <2> QED
    BY <2>1, <2>2 DEF \sqsubseteq, Index!\sqsubseteq
<1>2. ASSUME p \sqsubseteq w, q \sqsubseteq w, Len(p) <= Len(q) PROVE p \sqsubseteq q
  <2>1. /\ \A i \in 1 .. Len(p) : p[i] = w[i]
        /\ \A i \in 1 .. Len(q) : q[i] = w[i]
    BY <1>2 DEF \sqsubseteq, Index!\sqsubseteq
  <2>2. \A i \in 1 .. Len(p) : p[i] = q[i]
    BY <1>2, <2>1
  <2> QED
    BY <1>2, <2>2 DEF \sqsubseteq, Index!\sqsubseteq
<1> QED
  BY <1>1, <1>2

\* A sequence is a prefix of what is appended to it.
LEMMA ConcatPrefix ==
    ASSUME NEW S, NEW p \in Seq(S), NEW q \in Seq(S)
    PROVE  /\ p \o q \in Seq(S) /\ p \sqsubseteq p \o q /\ Len(p \o q) = Len(p) + Len(q)
           /\ Len(p) \in Nat /\ Len(q) \in Nat
           /\ \A i \in 1 .. Len(p) : (p \o q)[i] = p[i]
           /\ \A i \in 1 .. Len(q) : (p \o q)[Len(p) + i] = q[i]
<1>0. Len(p) \in Nat /\ Len(q) \in Nat
  BY LenProperties
<1>1. /\ p \o q \in Seq(S) /\ Len(p \o q) = Len(p) + Len(q)
      /\ \A i \in 1 .. Len(p) + Len(q) : (p \o q)[i] = IF i <= Len(p) THEN p[i] ELSE q[i - Len(p)]
  BY ConcatProperties
<1>2. \A i \in 1 .. Len(p) : (p \o q)[i] = p[i]
  BY <1>0, <1>1
<1>3. ASSUME NEW i \in 1 .. Len(q) PROVE (p \o q)[Len(p) + i] = q[i]
  <2>1. Len(p) + i \in 1 .. Len(p) + Len(q) /\ ~ (Len(p) + i <= Len(p)) /\ (Len(p) + i) - Len(p) = i
    BY <1>0
  <2> QED BY <1>1, <2>1
<1> QED
  BY <1>0, <1>1, <1>2, <1>3 DEF \sqsubseteq, Index!\sqsubseteq

-----------------------------------------------------------------------------
(* The shape of the tree *)

\* A node has the fields of RadixNode, its tokens come from the vocabulary, and what is
\* ready is also registered.
Fields(n) ==
    /\ n = [tokens |-> n.tokens, parent |-> n.parent, children |-> n.children,
            ref_count |-> n.ref_count, seq_ids |-> n.seq_ids, ready_seq_ids |-> n.ready_seq_ids,
            last_access_tick |-> n.last_access_tick, canonical_len |-> n.canonical_len]
    /\ n.tokens \in Seq(Token) /\ n.ref_count \in Nat
    /\ n.ready_seq_ids \subseteq n.seq_ids /\ IsFiniteSet(n.seq_ids)
    /\ n.last_access_tick \in Nat /\ n.canonical_len \in Nat

\* The addresses in use.
Addresses(h) ==
    /\ DOMAIN h \subseteq Nat /\ IsFiniteSet(DOMAIN h) /\ root_ \in DOMAIN h
    /\ h = [n \in DOMAIN h |-> h[n]] /\ h[root_].tokens = << >>
    /\ \A n \in DOMAIN h : Fields(h[n])

\* Every node but the root is the child of its parent under its first token.
Hangs(h) ==
    \A n \in DOMAIN h \ {root_} :
        /\ h[n].parent \in DOMAIN h /\ h[n].tokens # << >>
        /\ h[n].tokens[1] \in DOMAIN h[h[n].parent].children
        /\ h[h[n].parent].children[h[n].tokens[1]] = n

\* Every child is a node that knows its parent and its key.
Files(h) ==
    \A n \in DOMAIN h : \A t \in DOMAIN h[n].children :
        /\ h[n].children[t] \in DOMAIN h \ {root_}
        /\ h[h[n].children[t]].parent = n /\ h[h[n].children[t]].tokens[1] = t

\* The paths of the nodes: the tokens of the parent's path and those of the edge.
IsPaths(h, P) ==
    /\ P \in [DOMAIN h -> Seq(Token)] /\ P[root_] = << >>
    /\ \A n \in DOMAIN h \ {root_} : P[n] = P[h[n].parent] \o h[n].tokens

Tree(h, P) == Addresses(h) /\ Hangs(h) /\ Files(h) /\ IsPaths(h, P)

\* What an edge adds to the path of the parent.
Edge(h, P, n) ==
    /\ h[n].parent \in DOMAIN h /\ h[n].tokens \in Seq(Token)
    /\ Len(h[n].tokens) \in Nat /\ Len(h[n].tokens) >= 1
    /\ P[h[n].parent] \in Seq(Token) /\ P[n] \in Seq(Token)
    /\ Len(P[h[n].parent]) \in Nat /\ Len(P[n]) \in Nat /\ Len(P[n]) >= 1
    /\ Len(P[n]) = Len(P[h[n].parent]) + Len(h[n].tokens)
    /\ Len(P[h[n].parent]) < Len(P[n])
    /\ P[n] = P[h[n].parent] \o h[n].tokens
    /\ P[h[n].parent] \sqsubseteq P[n]
    /\ \A i \in 1 .. Len(h[n].tokens) : P[n][Len(P[h[n].parent]) + i] = h[n].tokens[i]
    /\ h[n].tokens[1] = TokenAfter(P[n], Len(P[h[n].parent]))
    /\ h[n].parent # n

\* An edge holds at least one token, and the path of a node goes on behind its parent's.
LEMMA EdgeFacts ==
    ASSUME NEW h, NEW P, Tree(h, P), NEW n \in DOMAIN h, n # root_
    PROVE  Edge(h, P, n)
<1>1. /\ h[n].parent \in DOMAIN h /\ h[n].tokens # << >> /\ h[n].tokens \in Seq(Token)
      /\ P[n] = P[h[n].parent] \o h[n].tokens
      /\ P[h[n].parent] \in Seq(Token)
  BY DEF Tree, Addresses, Hangs, IsPaths, Fields
<1>2. Len(h[n].tokens) \in Nat /\ Len(h[n].tokens) >= 1
  BY <1>1, EmptySeq
<1> DEFINE p == P[h[n].parent]
           e == h[n].tokens
<1> HIDE DEF p, e
<1>3. p \in Seq(Token) /\ e \in Seq(Token) /\ P[n] = p \o e /\ Len(e) >= 1
  BY <1>1, <1>2 DEF p, e
<1>4. /\ p \o e \in Seq(Token) /\ p \sqsubseteq p \o e /\ Len(p \o e) = Len(p) + Len(e)
      /\ Len(p) \in Nat /\ Len(e) \in Nat
      /\ \A i \in 1 .. Len(e) : (p \o e)[Len(p) + i] = e[i]
  BY <1>3, ConcatPrefix
<1>5. /\ P[n] \in Seq(Token) /\ p \sqsubseteq P[n] /\ Len(P[n]) = Len(p) + Len(e)
      /\ Len(P[n]) \in Nat /\ Len(P[n]) >= 1 /\ Len(p) < Len(P[n])
      /\ \A i \in 1 .. Len(e) : P[n][Len(p) + i] = e[i]
  BY <1>3, <1>4
<1>6. h[n].parent # n
  BY <1>5 DEF p
<1>7. 1 \in 1 .. Len(e)
  BY <1>3, <1>4
<1>8. e[1] = TokenAfter(P[n], Len(p))
  BY <1>5, <1>7 DEF TokenAfter
<1> QED
  BY <1>1, <1>2, <1>3, <1>4, <1>5, <1>6, <1>8 DEF p, e, Edge

\* The paths are token sequences, and only the root has the empty one.
LEMMA PathType ==
    ASSUME NEW h, NEW P, Tree(h, P), NEW n \in DOMAIN h
    PROVE  /\ P[n] \in Seq(Token) /\ Len(P[n]) \in Nat
           /\ n = root_ <=> Len(P[n]) = 0
           /\ n = root_ <=> P[n] = << >>
<1>1. P[n] \in Seq(Token) /\ Len(P[n]) \in Nat /\ P[root_] = << >>
  BY LenProperties DEF Tree, IsPaths
<1>2. n # root_ => Len(P[n]) >= 1
  BY EdgeFacts DEF Edge
<1> QED
  BY <1>1, <1>2, EmptySeq

\* If the path of one node is a prefix of that of another, it is a prefix of the path of
\* the other one's parent: the children of a node differ in their first tokens.
LEMMA PrefixOfParent ==
    ASSUME NEW h, NEW P, Tree(h, P), NEW n \in DOMAIN h, NEW m \in DOMAIN h,
           n # m, P[n] \sqsubseteq P[m]
    PROVE  m # root_ /\ P[n] \sqsubseteq P[h[m].parent]
<1> DEFINE Bad(x, y) == /\ x \in DOMAIN h /\ y \in DOMAIN h /\ x # y /\ P[x] \sqsubseteq P[y]
                        /\ ~ (y # root_ /\ P[x] \sqsubseteq P[h[y].parent])
           T == {k \in Nat : \E x, y \in DOMAIN h : Bad(x, y) /\ k = Len(P[x])}
<1>1. SUFFICES ASSUME Bad(n, m) PROVE FALSE
  OBVIOUS
<1>2. T \in SUBSET Nat /\ T # {}
  BY <1>1, PathType
<1>3. PICK k \in T : \A j \in T : k <= j
  BY <1>2, LeastElement
<1>4. PICK x \in DOMAIN h, y \in DOMAIN h : Bad(x, y) /\ k = Len(P[x])
  BY <1>3
<1>5. \A u, v \in DOMAIN h : Bad(u, v) => Len(P[x]) <= Len(P[u])
  BY <1>3, <1>4, PathType
<1> HIDE DEF T
<1>6. /\ P[x] \in Seq(Token) /\ Len(P[x]) \in Nat /\ P[y] \in Seq(Token) /\ Len(P[y]) \in Nat
      /\ Len(P[x]) <= Len(P[y])
  BY <1>4, PathType, PrefixOrder
<1>7. x # root_
  <2>1. ASSUME x = root_ PROVE FALSE
    <3>1. P[x] = << >> /\ y # root_
      BY <1>4, <2>1, PathType
    <3>2. P[h[y].parent] \in Seq(Token)
      BY <1>4, <3>1, EdgeFacts DEF Edge
    <3> QED BY <1>4, <3>1, <3>2, PrefixOrder
  <2> QED BY <2>1
<1>8. y # root_
  <2>1. y = root_ => Len(P[y]) = 0
    BY <1>4, PathType
  <2>2. Len(P[x]) # 0
    BY <1>4, <1>7, PathType
  <2> QED BY <1>6, <2>1, <2>2
<1> DEFINE a == h[x].parent
           b == h[y].parent
<1>9. /\ a \in DOMAIN h /\ P[a] \in Seq(Token) /\ Len(P[a]) \in Nat /\ Len(P[a]) < Len(P[x])
      /\ P[a] \sqsubseteq P[x]
  BY <1>7, EdgeFacts DEF Edge
<1>10. /\ b \in DOMAIN h /\ P[b] \in Seq(Token) /\ Len(P[b]) \in Nat /\ Len(P[b]) < Len(P[y])
       /\ P[b] \sqsubseteq P[y]
  BY <1>8, EdgeFacts DEF Edge
<1>11. ~ (P[x] \sqsubseteq P[b])
  BY <1>4, <1>8
<1>12. Len(P[b]) < Len(P[x])
  BY <1>4, <1>6, <1>10, <1>11, PrefixChain
<1>13. P[b] \sqsubseteq P[x] /\ P[a] \sqsubseteq P[y]
  BY <1>4, <1>6, <1>9, <1>10, <1>12, PrefixChain
<1>14. P[a] \sqsubseteq P[b]
  <2>1. a # y
    BY <1>6, <1>9
  <2>2. ~ Bad(a, y)
    BY <1>4, <1>5, <1>6, <1>9
  <2> QED BY <1>4, <1>9, <1>13, <2>1, <2>2
<1>15. P[b] \sqsubseteq P[a]
  <2>1. b # x
    BY <1>12
  <2>2. ~ Bad(b, x)
    BY <1>4, <1>5, <1>6, <1>10, <1>12
  <2> QED BY <1>4, <1>10, <1>13, <2>1, <2>2
<1>16. P[a] = P[b]
  BY <1>9, <1>10, <1>14, <1>15, PrefixOrder
<1>17. a = b
  <2>1. ASSUME a # b PROVE FALSE
    <3>1. ~ Bad(a, b)
      BY <1>5, <1>6, <1>9, <1>10
    <3>2. b # root_ /\ P[a] \sqsubseteq P[h[b].parent]
      BY <1>9, <1>10, <1>14, <2>1, <3>1
    <3>3. /\ Len(P[h[b].parent]) < Len(P[b]) /\ P[h[b].parent] \in Seq(Token)
          /\ Len(P[h[b].parent]) \in Nat
      BY <1>10, <3>2, EdgeFacts DEF Edge
    <3>4. Len(P[a]) <= Len(P[h[b].parent])
      BY <1>9, <3>2, <3>3, PrefixOrder
    <3> QED BY <1>9, <1>10, <1>16, <3>3, <3>4
  <2> QED BY <2>1
<1>18. TokenAfter(P[x], Len(P[a])) = TokenAfter(P[y], Len(P[a]))
  <2>1. Len(P[a]) + 1 \in 1 .. Len(P[x])
    BY <1>6, <1>9
  <2>2. \A i \in 1 .. Len(P[x]) : P[x][i] = P[y][i]
    BY <1>4 DEF \sqsubseteq, Index!\sqsubseteq
  <2> QED BY <2>1, <2>2 DEF TokenAfter
<1>19. h[x].tokens[1] = h[y].tokens[1]
  <2>1. h[x].tokens[1] = TokenAfter(P[x], Len(P[a]))
    <3>1. Edge(h, P, x)
      BY <1>7, EdgeFacts
    <3> QED BY <3>1 DEF Edge
  <2>2. h[y].tokens[1] = TokenAfter(P[y], Len(P[b]))
    <3>1. Edge(h, P, y)
      BY <1>8, EdgeFacts
    <3> QED BY <3>1 DEF Edge
  <2> QED BY Zenon, <1>16, <1>18, <2>1, <2>2
<1>20. h[a].children[h[x].tokens[1]] = x /\ h[b].children[h[y].tokens[1]] = y
  BY <1>4, <1>7, <1>8 DEF Tree, Hangs
<1> QED
  BY <1>4, <1>17, <1>19, <1>20

\* Two nodes have different paths.
LEMMA PathsInjective ==
    ASSUME NEW h, NEW P, Tree(h, P), NEW n \in DOMAIN h, NEW m \in DOMAIN h, P[n] = P[m]
    PROVE  n = m
<1>1. SUFFICES ASSUME n # m PROVE FALSE
  OBVIOUS
<1>2. P[n] \in Seq(Token) /\ P[n] \sqsubseteq P[m]
  BY PathType, PrefixOrder
<1>3. m # root_ /\ P[n] \sqsubseteq P[h[m].parent]
  BY <1>1, <1>2, PrefixOfParent
<1>4. /\ P[h[m].parent] \in Seq(Token) /\ Len(P[h[m].parent]) \in Nat
      /\ Len(P[h[m].parent]) < Len(P[m])
  BY <1>3, EdgeFacts DEF Edge
<1>5. Len(P[n]) <= Len(P[h[m].parent])
  BY <1>2, <1>3, <1>4, PrefixOrder
<1> QED
  BY <1>4, <1>5

\* The recursive definition of the paths has one solution.
LEMMA PathsUnique ==
    ASSUME NEW h, NEW P, Tree(h, P)
    PROVE  Paths(h) = P
<1> DEFINE R(f) == [n \in DOMAIN h |-> IF n = root_ THEN << >> ELSE f[h[n].parent] \o h[n].tokens]
           f == CHOOSE g : g = R(g)
<1>1. P = R(P)
  BY DEF Tree, IsPaths
<1>2. f = R(f)
  BY <1>1
<1>3. Paths(h) = f
  BY DEF Paths
<1> HIDE DEF f
<1> DEFINE T == {k \in Nat : \E n \in DOMAIN h : f[n] # P[n] /\ k = Len(P[n])}
<1>4. T = {}
  <2>1. SUFFICES ASSUME T # {} PROVE FALSE
    OBVIOUS
  <2>2. PICK k \in T : \A j \in T : k <= j
    BY <2>1, LeastElement
  <2>3. PICK n \in DOMAIN h : f[n] # P[n] /\ k = Len(P[n])
    BY <2>2
  <2>4. n # root_
    BY <1>1, <1>2, <2>3
  <2>5. h[n].parent \in DOMAIN h /\ Len(P[h[n].parent]) \in Nat /\ Len(P[h[n].parent]) < Len(P[n])
    BY <2>3, <2>4, EdgeFacts DEF Edge
  <2>6. f[h[n].parent] = P[h[n].parent]
    BY <2>2, <2>3, <2>5
  <2>7. f[n] = f[h[n].parent] \o h[n].tokens /\ P[n] = P[h[n].parent] \o h[n].tokens
    BY <1>1, <1>2, <2>3, <2>4
  <2> QED BY <2>3, <2>6, <2>7
<1>5. \A n \in DOMAIN h : f[n] = P[n]
  BY <1>4, PathType
<1> QED
  BY <1>1, <1>2, <1>3, <1>5

\* A node has a child on the way to a node below it.
Towards(h, P, n, m) ==
    /\ TokenAfter(P[m], Len(P[n])) \in DOMAIN h[n].children
    /\ h[n].children[TokenAfter(P[m], Len(P[n]))] \in DOMAIN h
    /\ P[h[n].children[TokenAfter(P[m], Len(P[n]))]] \sqsubseteq P[m]

\* The child of a node towards a node below it is filed under the next token of the path.
LEMMA ChildOnPath ==
    ASSUME NEW h, NEW P, Tree(h, P), NEW n \in DOMAIN h, NEW m \in DOMAIN h,
           n # m, P[n] \sqsubseteq P[m]
    PROVE  Towards(h, P, n, m)
<1> DEFINE Between(x) == x \in DOMAIN h /\ x # n /\ P[n] \sqsubseteq P[x] /\ P[x] \sqsubseteq P[m]
           T == {k \in Nat : \E x \in DOMAIN h : Between(x) /\ k = Len(P[x])}
<1>1. Between(m)
  BY PathType, PrefixOrder
<1>2. T \in SUBSET Nat /\ T # {}
  BY <1>1, PathType
<1>3. PICK k \in T : \A j \in T : k <= j
  BY <1>2, LeastElement
<1>4. PICK x \in DOMAIN h : Between(x) /\ k = Len(P[x])
  BY <1>3
<1>5. \A u \in DOMAIN h : Between(u) => Len(P[x]) <= Len(P[u])
  BY <1>3, <1>4, PathType
<1> HIDE DEF T
<1>6. /\ P[n] \in Seq(Token) /\ Len(P[n]) \in Nat
      /\ P[m] \in Seq(Token) /\ Len(P[m]) \in Nat
      /\ P[x] \in Seq(Token) /\ Len(P[x]) \in Nat
  BY PathType
<1>7. x # root_ /\ P[n] \sqsubseteq P[h[x].parent]
  BY <1>4, PrefixOfParent
<1>8. Edge(h, P, x)
  BY <1>7, EdgeFacts
<1> DEFINE a == h[x].parent
<1>9. /\ a \in DOMAIN h /\ P[a] \in Seq(Token) /\ Len(P[a]) \in Nat /\ Len(P[a]) < Len(P[x])
      /\ P[a] \sqsubseteq P[x] /\ h[x].tokens[1] = TokenAfter(P[x], Len(P[a]))
  BY <1>8 DEF Edge
<1>10. a = n
  <2>1. P[a] \sqsubseteq P[m]
    BY <1>4, <1>6, <1>9, PrefixChain
  <2>2. ~ Between(a)
    BY <1>5, <1>6, <1>9
  <2> QED BY <1>7, <1>9, <2>1, <2>2
<1>11. h[x].tokens[1] \in DOMAIN h[a].children /\ h[a].children[h[x].tokens[1]] = x
  BY <1>7 DEF Tree, Hangs
<1>12. TokenAfter(P[x], Len(P[n])) = TokenAfter(P[m], Len(P[n]))
  <2>1. Len(P[n]) + 1 \in 1 .. Len(P[x])
    BY <1>6, <1>9, <1>10
  <2>2. \A i \in 1 .. Len(P[x]) : P[x][i] = P[m][i]
    BY <1>4 DEF \sqsubseteq, Index!\sqsubseteq
  <2> QED BY <2>1, <2>2 DEF TokenAfter
<1>13. h[x].tokens[1] = TokenAfter(P[m], Len(P[n]))
  BY <1>9, <1>10, <1>12
<1> QED
  BY <1>4, <1>10, <1>11, <1>13 DEF Towards

\* A child is a node, and its parent and edge are those it is filed under.
LEMMA ChildFacts ==
    ASSUME NEW h, NEW P, Tree(h, P), NEW n \in DOMAIN h, NEW t \in DOMAIN h[n].children,
           NEW c, c = h[n].children[t]
    PROVE  c \in DOMAIN h /\ c # root_ /\ h[c].parent = n /\ h[c].tokens[1] = t
BY DEF Tree, Files

\* The address of a new node is not in use.
LEMMA NewFacts ==
    ASSUME NEW h, Addresses(h)
    PROVE  New(h) \in Nat /\ New(h) \notin DOMAIN h /\ New(h) # root_
<1> DEFINE k == Cardinality(DOMAIN h)
           S == (0 .. k) \ DOMAIN h
<1>1. /\ IsFiniteSet(DOMAIN h) /\ k \in Nat /\ root_ \in DOMAIN h
  BY FS_CardinalityType DEF Addresses
<1>2. S # {}
  <2>1. SUFFICES ASSUME S = {} PROVE FALSE
    OBVIOUS
  <2>2. 0 .. k \in SUBSET (DOMAIN h)
    BY <2>1
  <2>3. Cardinality(0 .. k) <= k
    BY <1>1, <2>2, FS_Subset
  <2>4. Cardinality(0 .. k) = k + 1
    BY <1>1, FS_Interval
  <2> QED BY <1>1, <2>3, <2>4
<1>3. S \in SUBSET Nat
  BY <1>1
<1> HIDE DEF S
<1>4. PICK x \in S : \A y \in S : x <= y
  BY <1>2, <1>3, LeastElement
<1>5. New(h) \in S
  BY <1>4 DEF New, Min, S
<1> QED
  BY <1>1, <1>3, <1>5 DEF S

-----------------------------------------------------------------------------
(* The tree of paths *)

\* t is the path-keyed tree that the nodes and pointers stand for.
IsBar(t, h, P) ==
    /\ t = [p \in DOMAIN t |-> t[p]] /\ DOMAIN t = {P[n] : n \in DOMAIN h}
    /\ \A n \in DOMAIN h : t[P[n]] = Record(h[n])

\* The refinement mapping, for a heap with these paths.
Bar(h, P) ==
    [p \in {P[n] : n \in DOMAIN h} |-> Record(h[CHOOSE n \in DOMAIN h : P[n] = p])]

\* The refinement mapping makes a tree of paths of the nodes and pointers.
LEMMA BarFacts ==
    ASSUME NEW h, NEW P, Tree(h, P)
    PROVE  IsBar(Bar(h, P), h, P)
<1>1. ASSUME NEW n \in DOMAIN h PROVE Bar(h, P)[P[n]] = Record(h[n])
  <2>1. (CHOOSE x \in DOMAIN h : P[x] = P[n]) \in DOMAIN h
        /\ P[CHOOSE x \in DOMAIN h : P[x] = P[n]] = P[n]
    OBVIOUS
  <2>2. (CHOOSE x \in DOMAIN h : P[x] = P[n]) = n
    BY <2>1, PathsInjective
  <2> QED BY <2>2 DEF Bar
<1> QED
  BY <1>1 DEF Bar, IsBar

\* Only one tree of paths belongs to a heap.
LEMMA BarUnique ==
    ASSUME NEW h, NEW P, NEW t, NEW u, IsBar(t, h, P), IsBar(u, h, P)
    PROVE  t = u
<1>1. DOMAIN t = DOMAIN u /\ \A p \in DOMAIN t : t[p] = u[p]
  BY DEF IsBar
<1> QED
  BY <1>1 DEF IsBar

-----------------------------------------------------------------------------
(* What the operations do to the tree *)

\* A node with other counters and sequences on the same edge.
SameEdge(v, n) ==
    Fields(v) /\ v.tokens = n.tokens /\ v.parent = n.parent /\ v.children = n.children

\* The heap with the node.
Updated(h, P, n, v, g) ==
    /\ Tree(g, P) /\ DOMAIN g = DOMAIN h
    /\ g[n] = v /\ \A m \in DOMAIN h : m # n => g[m] = h[m]
    /\ \A t : IsBar(t, h, P) => IsBar([t EXCEPT ![P[n]] = Record(v)], g, P)

\* Counters and sequences change nothing of the shape, and one node of the tree of paths.
LEMMA UpdateTree ==
    ASSUME NEW h, NEW P, Tree(h, P), NEW n \in DOMAIN h, NEW v, SameEdge(v, h[n]),
           NEW g, g = [h EXCEPT ![n] = v]
    PROVE  Updated(h, P, n, v, g)
<1>0. Addresses(h) /\ Hangs(h) /\ Files(h) /\ IsPaths(h, P)
  BY DEF Tree
<1>1. /\ DOMAIN g = DOMAIN h /\ g[n] = v /\ \A m \in DOMAIN h : m # n => g[m] = h[m]
      /\ g = [m \in DOMAIN g |-> g[m]]
  OBVIOUS
<1>2. \A m \in DOMAIN h : /\ g[m].tokens = h[m].tokens /\ g[m].parent = h[m].parent
                          /\ g[m].children = h[m].children /\ Fields(g[m])
  BY <1>0, <1>1 DEF SameEdge, Addresses
<1>3. Addresses(g)
  BY <1>0, <1>1, <1>2 DEF Addresses
<1>4. Hangs(g)
  BY <1>0, <1>1, <1>2 DEF Hangs
<1>5. Files(g)
  BY <1>0, <1>1, <1>2 DEF Files
<1>6. IsPaths(g, P)
  BY <1>0, <1>1, <1>2 DEF IsPaths, Addresses
<1>7. ASSUME NEW t, IsBar(t, h, P)
      PROVE  IsBar([t EXCEPT ![P[n]] = Record(v)], g, P)
  <2>1. /\ DOMAIN t = {P[m] : m \in DOMAIN h} /\ \A m \in DOMAIN h : t[P[m]] = Record(h[m])
    BY <1>7 DEF IsBar
  <2>2. \A m \in DOMAIN h : m # n => P[m] # P[n]
    BY PathsInjective
  <2> DEFINE u == [t EXCEPT ![P[n]] = Record(v)]
  <2>3. /\ DOMAIN u = DOMAIN t /\ u = [p \in DOMAIN u |-> u[p]]
        /\ u[P[n]] = Record(v) /\ \A p \in DOMAIN t : p # P[n] => u[p] = t[p]
    BY <2>1
  <2> HIDE DEF u
  <2>4. ASSUME NEW m \in DOMAIN g PROVE u[P[m]] = Record(g[m])
    BY <1>1, <2>1, <2>2, <2>3
  <2>5. DOMAIN u = {P[m] : m \in DOMAIN g}
    BY <1>1, <2>1, <2>3
  <2>6. IsBar(u, g, P)
    BY <2>3, <2>4, <2>5 DEF IsBar
  <2> QED BY <2>6 DEF u
<1> QED
  BY <1>1, <1>3, <1>4, <1>5, <1>6, <1>7 DEF Tree, Updated

\* A new leaf below a node that has no child for its first token.
LeafHeap(h, node, rest, tick) ==
    With([h EXCEPT ![node].children = With(@, rest[1], New(h))],
         New(h), RadixNode(rest, node, tick))

LeafPaths(h, P, node, rest) ==
    [n \in DOMAIN h \cup {New(h)} |-> IF n = New(h) THEN P[node] \o rest ELSE P[n]]

\* The heap and the paths with the leaf.
Leafed(h, P, node, rest, tick, g, Q, leaf) ==
    /\ Tree(g, Q) /\ DOMAIN g = DOMAIN h \cup {leaf} /\ leaf \notin DOMAIN h
    /\ \A n \in DOMAIN h : Q[n] = P[n] /\ Record(g[n]) = Record(h[n])
    /\ Q[leaf] = P[node] \o rest
    /\ Record(g[leaf]) = Index!NewNode(tick)

\* A leaf that is filed under a free token keeps the tree a tree.
LEMMA LeafTree ==
    ASSUME NEW h, NEW P, Tree(h, P), NEW node \in DOMAIN h,
           NEW rest \in Seq(Token), rest # << >>, rest[1] \notin DOMAIN h[node].children,
           NEW tick \in Nat,
           NEW g, g = LeafHeap(h, node, rest, tick),
           NEW Q, Q = LeafPaths(h, P, node, rest), NEW leaf, leaf = New(h)
    PROVE  Leafed(h, P, node, rest, tick, g, Q, leaf)
<1>0. Addresses(h) /\ Hangs(h) /\ Files(h) /\ IsPaths(h, P)
  BY DEF Tree
<1>1. leaf \in Nat /\ leaf \notin DOMAIN h /\ leaf # root_
  BY <1>0, NewFacts
<1> DEFINE v == [h[node] EXCEPT !.children = With(@, rest[1], leaf)]
           w == RadixNode(rest, node, tick)
<1>2. g = With([h EXCEPT ![node] = v], leaf, w)
  BY DEF LeafHeap
<1>3. /\ DOMAIN g = DOMAIN h \cup {leaf} /\ g = [n \in DOMAIN g |-> g[n]]
      /\ g[leaf] = w /\ g[node] = v
      /\ \A n \in DOMAIN h : n # node => g[n] = h[n]
  BY <1>1, <1>2 DEF With
<1>4. /\ v.tokens = h[node].tokens /\ v.parent = h[node].parent /\ Record(v) = Record(h[node])
      /\ v.children = With(h[node].children, rest[1], leaf) /\ Fields(v)
  <2>1. Fields(h[node]) /\ h[node].tokens \in Seq(Token)
    BY <1>0 DEF Addresses, Fields
  <2> DEFINE c == With(h[node].children, rest[1], leaf)
  <2>2. v = [h[node] EXCEPT !.children = c]
    OBVIOUS
  <2> HIDE DEF v, c
  <2>3. /\ v.tokens = h[node].tokens /\ v.parent = h[node].parent /\ Record(v) = Record(h[node])
        /\ v.children = c /\ Fields(v)
    BY <2>1, <2>2 DEF Fields, Record
  <2> QED BY <2>3 DEF c
<1>5. /\ DOMAIN v.children = DOMAIN h[node].children \cup {rest[1]}
      /\ v.children[rest[1]] = leaf
      /\ \A t \in DOMAIN h[node].children : v.children[t] = h[node].children[t]
  BY <1>4 DEF With
<1>6. /\ w.tokens = rest /\ w.parent = node /\ DOMAIN w.children = {} /\ Fields(w)
      /\ Record(w) = Index!NewNode(tick)
  BY FS_EmptySet DEF RadixNode, Fields, Record, Index!NewNode
<1> HIDE DEF v, w
<1>7. \A n \in DOMAIN h : /\ g[n].tokens = h[n].tokens /\ g[n].parent = h[n].parent
                          /\ Record(g[n]) = Record(h[n]) /\ Fields(g[n])
  BY <1>0, <1>3, <1>4 DEF Addresses
<1>8. Addresses(g)
  <2>1. IsFiniteSet(DOMAIN h \cup {leaf})
    BY <1>0, FS_AddElement DEF Addresses
  <2> QED BY <1>0, <1>1, <1>3, <1>6, <1>7, <2>1 DEF Addresses
<1>9. \A n \in DOMAIN h : /\ DOMAIN h[n].children \subseteq DOMAIN g[n].children
                          /\ \A t \in DOMAIN h[n].children : g[n].children[t] = h[n].children[t]
  BY <1>3, <1>5
<1>10. Hangs(g)
  <2> SUFFICES ASSUME NEW n \in DOMAIN g \ {root_}
               PROVE  /\ g[n].parent \in DOMAIN g /\ g[n].tokens # << >>
                      /\ g[n].tokens[1] \in DOMAIN g[g[n].parent].children
                      /\ g[g[n].parent].children[g[n].tokens[1]] = n
    BY DEF Hangs
  <2>1. CASE n = leaf
    BY <1>3, <1>5, <1>6, <2>1
  <2>2. CASE n # leaf
    <3>1. /\ h[n].parent \in DOMAIN h /\ h[n].tokens # << >>
          /\ h[n].tokens[1] \in DOMAIN h[h[n].parent].children
          /\ h[h[n].parent].children[h[n].tokens[1]] = n
      BY <1>0, <1>3, <2>2 DEF Hangs
    <3> QED BY <1>3, <1>7, <1>9, <2>2, <3>1
  <2> QED BY <2>1, <2>2
<1>11. Files(g)
  <2> SUFFICES ASSUME NEW n \in DOMAIN g, NEW t \in DOMAIN g[n].children
               PROVE  /\ g[n].children[t] \in DOMAIN g \ {root_}
                      /\ g[g[n].children[t]].parent = n /\ g[g[n].children[t]].tokens[1] = t
    BY DEF Files
  <2>1. CASE n = node /\ t = rest[1]
    BY <1>1, <1>3, <1>5, <1>6, <2>1
  <2>2. CASE ~ (n = node /\ t = rest[1])
    <3>1. n \in DOMAIN h /\ t \in DOMAIN h[n].children
      BY <1>3, <1>5, <1>6, <2>2
    <3>2. /\ h[n].children[t] \in DOMAIN h \ {root_}
          /\ h[h[n].children[t]].parent = n /\ h[h[n].children[t]].tokens[1] = t
      BY <1>0, <3>1 DEF Files
    <3>3. g[n].children[t] = h[n].children[t]
      BY <1>9, <3>1
    <3> QED BY <1>3, <1>7, <3>2, <3>3
  <2> QED BY <2>1, <2>2
<1>12. /\ \A n \in DOMAIN h : Q[n] = P[n]
       /\ Q[leaf] = P[node] \o rest /\ Q \in [DOMAIN g -> Seq(Token)]
  <2>1. P[node] \o rest \in Seq(Token) /\ P \in [DOMAIN h -> Seq(Token)]
    BY <1>0, ConcatProperties DEF IsPaths
  <2>2. Q = [n \in DOMAIN h \cup {leaf} |-> IF n = leaf THEN P[node] \o rest ELSE P[n]]
    BY DEF LeafPaths
  <2> QED BY <1>1, <1>3, <2>1, <2>2
<1>13. IsPaths(g, Q)
  <2>1. Q[root_] = << >>
    BY <1>0, <1>12 DEF Addresses, IsPaths
  <2>2. ASSUME NEW n \in DOMAIN g \ {root_} PROVE Q[n] = Q[g[n].parent] \o g[n].tokens
    <3>1. CASE n = leaf
      BY <1>3, <1>6, <1>12, <3>1
    <3>2. CASE n # leaf
      <4>1. n \in DOMAIN h \ {root_} /\ h[n].parent \in DOMAIN h
        BY <1>0, <1>3, <3>2 DEF Hangs
      <4>2. P[n] = P[h[n].parent] \o h[n].tokens
        BY <1>0, <4>1 DEF IsPaths
      <4> QED BY <1>7, <1>12, <4>1, <4>2
    <3> QED BY <3>1, <3>2
  <2> QED BY <1>12, <2>1, <2>2 DEF IsPaths
<1> QED
  BY <1>1, <1>3, <1>6, <1>7, <1>8, <1>10, <1>11, <1>12, <1>13 DEF Tree, Leafed

\* The children of a node are the nodes that have it as their parent.
LEMMA KidsFacts ==
    ASSUME NEW h, NEW P, Tree(h, P), NEW c \in DOMAIN h, NEW n
    PROVE  n \in Range(h[c].children) <=> n \in DOMAIN h /\ n # root_ /\ h[n].parent = c
<1>1. ASSUME n \in Range(h[c].children)
      PROVE  n \in DOMAIN h /\ n # root_ /\ h[n].parent = c
  <2>1. PICK t \in DOMAIN h[c].children : n = h[c].children[t]
    BY <1>1 DEF Range
  <2> QED BY <2>1, ChildFacts
<1>2. ASSUME n \in DOMAIN h, n # root_, h[n].parent = c
      PROVE  n \in Range(h[c].children)
  <2>1. h[n].tokens[1] \in DOMAIN h[c].children /\ h[c].children[h[n].tokens[1]] = n
    BY <1>2 DEF Tree, Hangs
  <2> QED BY <2>1 DEF Range
<1> QED
  BY <1>1, <1>2

\* Tokens that are appended in two parts.
LEMMA RegroupPath ==
    ASSUME NEW p \in Seq(Token), NEW a \in Seq(Token), NEW b \in Seq(Token)
    PROVE  (p \o a) \o b = p \o (a \o b)
BY ConcatAssociative

\* What split_node makes of the paths: the node keeps its address and loses the rest of
\* its edge to the suffix node, which takes its children and its path.
SplitPaths(h, P, c, cut) ==
    [n \in DOMAIN h \cup {New(h)} |-> IF n = New(h) THEN P[c] ELSE IF n = c THEN cut ELSE P[n]]

\* The heap and the paths after a split.
Split(h, P, c, cut, g, Q, suffix) ==
    /\ Tree(g, Q) /\ DOMAIN g = DOMAIN h \cup {suffix} /\ suffix \notin DOMAIN h
    /\ \A n \in DOMAIN h : Record(g[n]) = Record(h[n]) /\ (n # c => Q[n] = P[n])
    /\ Q[c] = cut /\ Q[suffix] = P[c]
    /\ cut \in Seq(Token) /\ cut \sqsubseteq P[c] /\ Len(cut) < Len(P[c])
    /\ Record(g[suffix]) = Index!NewNode(h[c].last_access_tick)
    /\ DOMAIN g[c].children = {TokenAfter(P[c], Len(cut))}

\* A split inside an edge keeps the tree a tree.
LEMMA SplitTree ==
    ASSUME NEW h, NEW P, Tree(h, P), NEW c \in DOMAIN h, c # root_,
           NEW pos \in Nat, 0 < pos, pos < Len(h[c].tokens),
           NEW cut, cut = P[h[c].parent] \o SubSeq(h[c].tokens, 1, pos),
           NEW g, g = split_node(h, c, pos),
           NEW Q, Q = SplitPaths(h, P, c, cut), NEW suffix, suffix = New(h)
    PROVE  Split(h, P, c, cut, g, Q, suffix)
<1>0. Addresses(h) /\ Hangs(h) /\ Files(h) /\ IsPaths(h, P)
  BY DEF Tree
<1>1. suffix \in Nat /\ suffix \notin DOMAIN h /\ suffix # root_ /\ suffix # c
  BY <1>0, NewFacts
<1>2. Edge(h, P, c)
  BY EdgeFacts
<1> DEFINE e == h[c].tokens
           rest == SubSeq(e, pos + 1, Len(e))
           head == SubSeq(e, 1, pos)
           Kids == Range(h[c].children)
<1>3. e \in Seq(Token) /\ Len(e) \in Nat /\ pos \in 0 .. Len(e)
  BY <1>2 DEF Edge
<1>4. /\ rest \in Seq(Token) /\ Len(rest) = Len(e) - pos /\ rest # << >> /\ rest[1] = e[pos + 1]
      /\ head \in Seq(Token) /\ Len(head) = pos /\ head # << >> /\ head[1] = e[1]
      /\ head \o rest = e
  <2>1. /\ rest \in Seq(Token) /\ Len(rest) = Len(e) - pos /\ head \o rest = e
        /\ \A i \in 1 .. Len(e) - pos : rest[i] = e[pos + i]
    BY <1>3, SuffixFacts
  <2>2. /\ head \in Seq(Token) /\ Len(head) = pos
        /\ \A i \in 1 .. pos : head[i] = e[i]
    BY <1>3, PrefixFacts
  <2>3. 1 \in 1 .. Len(e) - pos /\ 1 \in 1 .. pos
    BY <1>3
  <2>4. rest[1] = e[pos + 1] /\ head[1] = e[1]
    BY <2>1, <2>2, <2>3
  <2>5. Len(rest) # 0 /\ Len(head) # 0
    BY <1>3, <2>1, <2>2
  <2>6. rest # << >> /\ head # << >>
    <3> HIDE DEF rest, head
    <3> QED BY <2>5, EmptySeq
  <2> QED BY <2>1, <2>2, <2>4, <2>6
<1> DEFINE v == [h[c] EXCEPT !.tokens = head, !.children = With(<< >>, rest[1], suffix)]
           w == [RadixNode(rest, c, h[c].last_access_tick) EXCEPT !.children = h[c].children]
           A == Adopted(h, c, suffix)
<1>5. g = With([A EXCEPT ![c] = v], suffix, w)
  BY DEF split_node
<1>6. /\ DOMAIN A = DOMAIN h
      /\ \A n \in DOMAIN h : A[n] = IF n \in Kids THEN [h[n] EXCEPT !.parent = suffix] ELSE h[n]
  BY DEF Adopted
<1> HIDE DEF A
<1>7. /\ v.tokens = head /\ v.parent = h[c].parent /\ Record(v) = Record(h[c])
      /\ v.children = With(<< >>, rest[1], suffix) /\ Fields(v)
  <2>1. Fields(h[c])
    BY <1>0 DEF Addresses
  <2> DEFINE k == With(<< >>, rest[1], suffix)
  <2>2. v = [h[c] EXCEPT !.tokens = head, !.children = k]
    OBVIOUS
  <2> HIDE DEF v, k, head
  <2>3. /\ v.tokens = head /\ v.parent = h[c].parent /\ Record(v) = Record(h[c])
        /\ v.children = k /\ Fields(v)
    BY <1>4, <2>1, <2>2 DEF Fields, Record
  <2> QED BY <2>3 DEF k
<1>8. DOMAIN v.children = {rest[1]} /\ v.children[rest[1]] = suffix
  <2>1. DOMAIN << >> = {}
    OBVIOUS
  <2> QED BY <1>7, <2>1 DEF With
<1>9. /\ w.tokens = rest /\ w.parent = c /\ w.children = h[c].children /\ Fields(w)
      /\ Record(w) = Index!NewNode(h[c].last_access_tick)
  <2>1. h[c].last_access_tick \in Nat
    BY <1>0 DEF Addresses, Fields
  <2>2. w = [RadixNode(rest, c, h[c].last_access_tick) EXCEPT !.children = h[c].children]
    OBVIOUS
  <2> HIDE DEF rest, w
  <2> QED BY <1>4, <2>1, <2>2, FS_EmptySet DEF RadixNode, Fields, Record, Index!NewNode
<1> HIDE DEF v, w
<1>10. /\ DOMAIN g = DOMAIN h \cup {suffix} /\ g = [n \in DOMAIN g |-> g[n]]
       /\ g[suffix] = w /\ g[c] = v
       /\ \A n \in DOMAIN h : n # c => g[n] = A[n]
  BY <1>1, <1>5, <1>6 DEF With
<1>11. \A n : n \in Kids <=> n \in DOMAIN h /\ n # root_ /\ h[n].parent = c
  BY KidsFacts
<1>12. c \notin Kids /\ root_ \notin Kids
  BY <1>2, <1>11 DEF Edge
<1> HIDE DEF Kids
<1>13. \A n \in DOMAIN h : n # c =>
          /\ g[n].tokens = h[n].tokens /\ g[n].children = h[n].children
          /\ g[n].parent = IF n \in Kids THEN suffix ELSE h[n].parent
          /\ Record(g[n]) = Record(h[n]) /\ Fields(g[n])
  <2> SUFFICES ASSUME NEW n \in DOMAIN h, n # c
               PROVE  /\ g[n].tokens = h[n].tokens /\ g[n].children = h[n].children
                      /\ g[n].parent = IF n \in Kids THEN suffix ELSE h[n].parent
                      /\ Record(g[n]) = Record(h[n]) /\ Fields(g[n])
    OBVIOUS
  <2>1. Fields(h[n]) /\ g[n] = IF n \in Kids THEN [h[n] EXCEPT !.parent = suffix] ELSE h[n]
    BY <1>0, <1>6, <1>10 DEF Addresses
  <2> QED BY <2>1 DEF Fields, Record
<1>14. \A n \in DOMAIN h : Record(g[n]) = Record(h[n])
  BY <1>7, <1>10, <1>13
<1>15. Addresses(g)
  <2>1. IsFiniteSet(DOMAIN h \cup {suffix})
    BY <1>0, FS_AddElement DEF Addresses
  <2>2. \A n \in DOMAIN g : Fields(g[n])
    BY <1>7, <1>9, <1>10, <1>13
  <2>3. g[root_].tokens = << >>
    BY <1>0, <1>13 DEF Addresses
  <2> QED BY <1>0, <1>1, <1>10, <2>1, <2>2, <2>3 DEF Addresses
<1>16. Hangs(g)
  <2> SUFFICES ASSUME NEW n \in DOMAIN g \ {root_}
               PROVE  /\ g[n].parent \in DOMAIN g /\ g[n].tokens # << >>
                      /\ g[n].tokens[1] \in DOMAIN g[g[n].parent].children
                      /\ g[g[n].parent].children[g[n].tokens[1]] = n
    BY DEF Hangs
  <2>1. CASE n = suffix
    BY <1>4, <1>8, <1>9, <1>10, <2>1
  <2>2. ASSUME n # suffix
        PROVE  /\ n \in DOMAIN h /\ h[n].parent \in DOMAIN h /\ h[n].tokens # << >>
               /\ h[n].tokens[1] \in DOMAIN h[h[n].parent].children
               /\ h[h[n].parent].children[h[n].tokens[1]] = n
    BY <1>0, <1>10, <2>2 DEF Hangs
  <2>3. CASE n = c
    <3>1. h[c].parent # c /\ h[c].parent \in DOMAIN h
      BY <1>2 DEF Edge
    <3>2. g[h[c].parent].children = h[h[c].parent].children
      BY <1>13, <3>1
    <3> QED BY <1>1, <1>4, <1>7, <1>10, <2>2, <2>3, <3>1, <3>2
  <2>4. CASE n # suffix /\ n # c /\ n \in Kids
    <3>1. g[n].parent = suffix /\ g[n].tokens = h[n].tokens /\ h[n].parent = c
      BY <1>11, <1>13, <2>2, <2>4
    <3>2. g[suffix].children = h[c].children
      BY <1>9, <1>10
    <3> QED BY <1>10, <2>2, <2>4, <3>1, <3>2
  <2>5. CASE n # suffix /\ n # c /\ n \notin Kids
    <3>1. g[n].parent = h[n].parent /\ g[n].tokens = h[n].tokens /\ h[n].parent # c
      BY <1>11, <1>13, <2>2, <2>5
    <3>2. g[h[n].parent].children = h[h[n].parent].children
      BY <1>13, <2>2, <2>5, <3>1
    <3> QED BY <1>10, <2>2, <2>5, <3>1, <3>2
  <2> QED BY <2>1, <2>3, <2>4, <2>5
<1>17. Files(g)
  <2> SUFFICES ASSUME NEW n \in DOMAIN g, NEW t \in DOMAIN g[n].children
               PROVE  /\ g[n].children[t] \in DOMAIN g \ {root_}
                      /\ g[g[n].children[t]].parent = n /\ g[g[n].children[t]].tokens[1] = t
    BY DEF Files
  <2>1. CASE n = c
    <3>1. t = rest[1] /\ g[c].children[t] = suffix
      BY <1>8, <1>10, <2>1
    <3>2. g[suffix].parent = c /\ g[suffix].tokens = rest
      BY <1>9, <1>10
    <3> HIDE DEF rest
    <3> QED BY <1>1, <1>10, <2>1, <3>1, <3>2
  <2>2. CASE n = suffix
    <3> DEFINE m == h[c].children[t]
    <3>1. t \in DOMAIN h[c].children /\ g[n].children[t] = m
      BY <1>9, <1>10, <2>2
    <3>2. m \in DOMAIN h /\ m # root_ /\ h[m].parent = c /\ h[m].tokens[1] = t
      BY <3>1, ChildFacts
    <3>3. m \in Kids /\ m # c
      BY <1>11, <1>12, <3>2
    <3>4. g[m].parent = suffix /\ g[m].tokens = h[m].tokens
      BY <1>13, <3>2, <3>3
    <3> QED BY <1>10, <2>2, <3>1, <3>2, <3>4
  <2>3. CASE n # c /\ n # suffix
    <3> DEFINE m == h[n].children[t]
    <3>1. n \in DOMAIN h /\ t \in DOMAIN h[n].children /\ g[n].children[t] = m
      BY <1>10, <1>13, <2>3
    <3>2. m \in DOMAIN h /\ m # root_ /\ h[m].parent = n /\ h[m].tokens[1] = t
      BY <3>1, ChildFacts
    <3>3. m \notin Kids
      BY <1>11, <2>3, <3>2
    <3>4. CASE m = c
      BY <1>4, <1>7, <1>10, <3>1, <3>2, <3>4
    <3>5. CASE m # c
      <4>1. g[m].parent = n /\ g[m].tokens = h[m].tokens
        BY <1>13, <3>2, <3>3, <3>5
      <4> QED BY <1>10, <3>1, <3>2, <4>1
    <3> QED BY <3>4, <3>5
  <2> QED BY <2>1, <2>2, <2>3
<1>18. cut \in Seq(Token) /\ cut \o rest = P[c] /\ Len(cut) = Len(P[h[c].parent]) + pos
  <2>1. P[h[c].parent] \in Seq(Token) /\ P[c] = P[h[c].parent] \o e
    BY <1>2 DEF Edge
  <2> DEFINE q == P[h[c].parent]
  <2>2. cut = q \o head /\ q \in Seq(Token) /\ P[c] = q \o e
    BY Zenon, <2>1
  <2>3. head \in Seq(Token) /\ rest \in Seq(Token) /\ head \o rest = e /\ Len(head) = pos
    BY <1>4
  <2> HIDE DEF rest, head, e, q
  <2>4. (q \o head) \o rest = q \o (head \o rest)
    BY <2>2, <2>3, RegroupPath
  <2>5. q \o head \in Seq(Token) /\ Len(q \o head) = Len(q) + Len(head)
    BY <2>2, <2>3, ConcatProperties
  <2>6. cut \in Seq(Token) /\ cut \o rest = P[c] /\ Len(cut) = Len(q) + pos
    BY <2>2, <2>3, <2>4, <2>5
  <2> QED BY <2>6 DEF q
<1>19. /\ \A n \in DOMAIN h : n # c => Q[n] = P[n]
       /\ Q[c] = cut /\ Q[suffix] = P[c] /\ Q \in [DOMAIN g -> Seq(Token)]
  <2>1. P \in [DOMAIN h -> Seq(Token)]
    BY <1>0 DEF IsPaths
  <2>2. Q = [n \in DOMAIN h \cup {suffix} |->
                IF n = suffix THEN P[c] ELSE IF n = c THEN cut ELSE P[n]]
    BY DEF SplitPaths
  <2> QED BY <1>1, <1>10, <1>18, <2>1, <2>2
<1>20. IsPaths(g, Q)
  <2>1. Q[root_] = << >>
    BY <1>0, <1>19 DEF Addresses, IsPaths
  <2>2. ASSUME NEW n \in DOMAIN g \ {root_} PROVE Q[n] = Q[g[n].parent] \o g[n].tokens
    <3>1. CASE n = suffix
      BY <1>9, <1>10, <1>18, <1>19, <3>1
    <3>2. CASE n = c
      <4>1. h[c].parent # c /\ h[c].parent \in DOMAIN h
        BY <1>2 DEF Edge
      <4> QED BY <1>7, <1>10, <1>19, <3>2, <4>1
    <3>3. CASE n # suffix /\ n # c
      <4>1. n \in DOMAIN h \ {root_} /\ h[n].parent \in DOMAIN h
        BY <1>0, <1>10, <3>3 DEF Hangs
      <4>2. P[n] = P[h[n].parent] \o h[n].tokens
        BY <1>0, <4>1 DEF IsPaths
      <4>3. g[n].tokens = h[n].tokens /\ g[n].parent = IF n \in Kids THEN suffix ELSE h[n].parent
        BY <1>13, <3>3, <4>1
      <4>4. Q[g[n].parent] = P[h[n].parent]
        <5>1. CASE n \in Kids
          BY <1>11, <1>19, <4>3, <5>1
        <5>2. CASE n \notin Kids
          BY <1>11, <1>19, <4>1, <4>3, <5>2
        <5> QED BY <5>1, <5>2
      <4> QED BY <1>19, <3>3, <4>1, <4>2, <4>3, <4>4
    <3> QED BY <3>1, <3>2, <3>3
  <2> QED BY <1>19, <2>1, <2>2 DEF IsPaths
<1>21. rest[1] = TokenAfter(P[c], Len(cut))
  <2>1. \A i \in 1 .. Len(e) : P[c][Len(P[h[c].parent]) + i] = e[i]
    BY <1>2 DEF Edge
  <2>2. pos + 1 \in 1 .. Len(e)
    BY <1>3
  <2>3. P[c][Len(P[h[c].parent]) + (pos + 1)] = e[pos + 1]
    BY <2>1, <2>2
  <2>4. Len(cut) + 1 = Len(P[h[c].parent]) + (pos + 1)
    <3>1. Len(P[h[c].parent]) \in Nat
      BY <1>2 DEF Edge
    <3>2. \A a \in Nat : \A b : b = a + pos => b + 1 = a + (pos + 1)
      OBVIOUS
    <3> QED BY <1>18, <3>1, <3>2
  <2> QED BY <1>4, <2>3, <2>4 DEF TokenAfter
<1>22. cut \sqsubseteq P[c] /\ Len(cut) < Len(P[c])
  <2> HIDE DEF rest, e
  <2>1. rest \in Seq(Token) /\ Len(rest) > 0
    BY <1>3, <1>4 DEF e
  <2>2. /\ cut \sqsubseteq cut \o rest /\ Len(cut \o rest) = Len(cut) + Len(rest)
        /\ Len(cut) \in Nat /\ Len(rest) \in Nat
    <3>1. cut \in Seq(Token)
      BY <1>18
    <3> QED BY <2>1, <3>1, ConcatPrefix
  <2>3. cut \o rest = P[c]
    BY <1>18
  <2>4. Len(cut) < Len(cut \o rest)
    <3>1. \A i, j \in Nat : \A l : j > 0 /\ l = i + j => i < l
      OBVIOUS
    <3>2. Len(rest) > 0
      BY <2>1
    <3> QED BY ONLY <2>2, <3>1, <3>2
  <2> QED BY Zenon, <2>2, <2>3, <2>4
<1> QED
  BY <1>1, <1>8, <1>9, <1>10, <1>14, <1>15, <1>16, <1>17, <1>18, <1>19, <1>20, <1>21, <1>22
  DEF Tree, Split

\* A leaf is erased from its parent's map and deleted; all other paths stay.
LEMMA UnlinkTree ==
    ASSUME NEW h, NEW P, Tree(h, P), NEW n \in DOMAIN h, n # root_, DOMAIN h[n].children = {},
           NEW g, g = Unlinked(h, n), NEW Q, Q = [m \in DOMAIN h \ {n} |-> P[m]]
    PROVE  /\ Tree(g, Q) /\ DOMAIN g = DOMAIN h \ {n}
           /\ \A m \in DOMAIN g : Record(g[m]) = Record(h[m])
           /\ h[n].parent \in DOMAIN g
           /\ \A m \in DOMAIN g : DOMAIN g[m].children \subseteq DOMAIN h[m].children
<1>0. Addresses(h) /\ Hangs(h) /\ Files(h) /\ IsPaths(h, P)
  BY DEF Tree
<1>1. Edge(h, P, n)
  BY EdgeFacts
<1> DEFINE a == h[n].parent
           t == h[n].tokens[1]
           v == [h[a] EXCEPT !.children = Restrict(@, DOMAIN @ \ {t})]
<1>2. a \in DOMAIN h /\ a # n /\ t \in DOMAIN h[a].children /\ h[a].children[t] = n
  BY <1>0, <1>1 DEF Edge, Hangs
<1>3. /\ DOMAIN g = DOMAIN h \ {n} /\ g = [m \in DOMAIN g |-> g[m]] /\ g[a] = v
      /\ \A m \in DOMAIN g : m # a => g[m] = h[m]
  BY <1>2 DEF Unlinked
<1>4. /\ v.tokens = h[a].tokens /\ v.parent = h[a].parent /\ Record(v) = Record(h[a])
      /\ v.children = Restrict(h[a].children, DOMAIN h[a].children \ {t}) /\ Fields(v)
  <2>1. Fields(h[a])
    BY <1>0, <1>2 DEF Addresses
  <2> DEFINE c == Restrict(h[a].children, DOMAIN h[a].children \ {t})
  <2>2. v = [h[a] EXCEPT !.children = c]
    OBVIOUS
  <2> HIDE DEF v, c
  <2>3. /\ v.tokens = h[a].tokens /\ v.parent = h[a].parent /\ Record(v) = Record(h[a])
        /\ v.children = c /\ Fields(v)
    BY <2>1, <2>2 DEF Fields, Record
  <2> QED BY <2>3 DEF c
<1>5. /\ DOMAIN v.children = DOMAIN h[a].children \ {t}
      /\ \A u \in DOMAIN h[a].children \ {t} : v.children[u] = h[a].children[u]
  BY <1>4 DEF Restrict
<1> HIDE DEF v
<1>6. \A m \in DOMAIN g : /\ g[m].tokens = h[m].tokens /\ g[m].parent = h[m].parent
                          /\ Record(g[m]) = Record(h[m]) /\ Fields(g[m])
  BY <1>0, <1>3, <1>4 DEF Addresses
<1>7. \A m \in DOMAIN g :
          /\ DOMAIN g[m].children = DOMAIN h[m].children \ (IF m = a THEN {t} ELSE {})
          /\ \A u \in DOMAIN g[m].children : g[m].children[u] = h[m].children[u]
  BY <1>3, <1>5
<1>8. Addresses(g)
  <2>1. IsFiniteSet(DOMAIN h \ {n})
    BY <1>0, FS_RemoveElement DEF Addresses
  <2> QED BY <1>0, <1>3, <1>6, <2>1 DEF Addresses
<1>9. ASSUME NEW m \in DOMAIN h, m # n, m # root_
      PROVE  /\ h[m].parent \in DOMAIN g
             /\ h[m].tokens[1] \in DOMAIN g[h[m].parent].children
             /\ g[h[m].parent].children[h[m].tokens[1]] = m
  <2>1. /\ h[m].parent \in DOMAIN h
        /\ h[m].tokens[1] \in DOMAIN h[h[m].parent].children
        /\ h[h[m].parent].children[h[m].tokens[1]] = m
    BY <1>0, <1>9 DEF Hangs
  <2>2. h[m].parent # n
    BY <2>1
  <2>3. ~ (h[m].parent = a /\ h[m].tokens[1] = t)
    BY <1>2, <1>9, <2>1
  <2> QED BY <1>3, <1>7, <2>1, <2>2, <2>3
<1>10. Hangs(g)
  <2> SUFFICES ASSUME NEW m \in DOMAIN g \ {root_}
               PROVE  /\ g[m].parent \in DOMAIN g /\ g[m].tokens # << >>
                      /\ g[m].tokens[1] \in DOMAIN g[g[m].parent].children
                      /\ g[g[m].parent].children[g[m].tokens[1]] = m
    BY DEF Hangs
  <2>1. m \in DOMAIN h /\ m # n /\ m # root_ /\ h[m].tokens # << >>
    BY <1>0, <1>3 DEF Hangs
  <2> QED BY <1>6, <1>9, <2>1
<1>11. Files(g)
  <2> SUFFICES ASSUME NEW m \in DOMAIN g, NEW u \in DOMAIN g[m].children
               PROVE  /\ g[m].children[u] \in DOMAIN g \ {root_}
                      /\ g[g[m].children[u]].parent = m /\ g[g[m].children[u]].tokens[1] = u
    BY DEF Files
  <2> DEFINE c == h[m].children[u]
  <2>1. m \in DOMAIN h /\ u \in DOMAIN h[m].children /\ g[m].children[u] = c
    BY <1>3, <1>7
  <2>2. c \in DOMAIN h /\ c # root_ /\ h[c].parent = m /\ h[c].tokens[1] = u
    BY <2>1, ChildFacts
  <2>3. c # n
    BY <1>7, <2>2
  <2> QED BY <1>3, <1>6, <2>1, <2>2, <2>3
<1>12. IsPaths(g, Q)
  <2>1. /\ Q \in [DOMAIN g -> Seq(Token)] /\ \A m \in DOMAIN g : Q[m] = P[m]
        /\ Q[root_] = << >>
    BY <1>0, <1>3 DEF IsPaths, Addresses
  <2>2. ASSUME NEW m \in DOMAIN g \ {root_} PROVE Q[m] = Q[g[m].parent] \o g[m].tokens
    <3>1. m \in DOMAIN h \ {root_} /\ m # n /\ h[m].parent \in DOMAIN g
      BY <1>3, <1>9
    <3>2. P[m] = P[h[m].parent] \o h[m].tokens
      BY <1>0, <3>1 DEF IsPaths
    <3> QED BY <1>6, <2>1, <3>1, <3>2
  <2> QED BY <2>1, <2>2 DEF IsPaths
<1> QED
  BY <1>2, <1>3, <1>6, <1>7, <1>8, <1>10, <1>11, <1>12 DEF Tree

-----------------------------------------------------------------------------
(* The walks *)

\* A bounded set of naturals has a greatest element, and of two numbers one is the least.
LEMMA MaxFacts ==
    ASSUME NEW b \in Nat, NEW S \in SUBSET (0 .. b), S # {}
    PROVE  Max(S) \in S /\ \A y \in S : y <= Max(S)
<1> DEFINE T == {b - y : y \in S}
<1>1. T \in SUBSET Nat /\ T # {}
  <2>1. \A y \in S : b - y \in Nat
    OBVIOUS
  <2>2. PICK y \in S : TRUE
    OBVIOUS
  <2>3. b - y \in T
    BY <2>2
  <2>4. T \in SUBSET Nat
    BY <2>1
  <2> QED BY <2>3, <2>4
<1>2. PICK k \in T : \A j \in T : k <= j
  BY <1>1, LeastElement
<1>3. PICK x \in S : k = b - x
  BY <1>2
<1>4. \A y \in S : x >= y
  <2> SUFFICES ASSUME NEW y \in S PROVE x >= y
    OBVIOUS
  <2>1. b - x <= b - y
    BY <1>2, <1>3
  <2> QED BY <2>1
<1>5. Max(S) \in S /\ \A y \in S : Max(S) >= y
  BY <1>4 DEF Max
<1> QED BY <1>5

\* The smaller of two numbers, the limit of the loop of match_len.
LEMMA MinFacts ==
    ASSUME NEW a \in Nat, NEW b \in Nat
    PROVE  Min({a, b}) \in {a, b} /\ Min({a, b}) <= a /\ Min({a, b}) <= b
<1>1. \E x \in {a, b} : \A y \in {a, b} : x <= y
  OBVIOUS
<1>2. Min({a, b}) \in {a, b} /\ \A y \in {a, b} : Min({a, b}) <= y
  BY <1>1 DEF Min
<1> QED BY <1>2

\* The edge and the tokens behind idx agree on their next n tokens and on no more.
Agree(edge, tokens, idx, n) ==
    /\ n \in Nat /\ n <= Len(edge) /\ idx + n <= Len(tokens)
    /\ \A i \in 1 .. n : edge[i] = tokens[idx + i]
    /\ n < Len(edge) /\ idx + n < Len(tokens) =>
           TokenAfter(edge, n) # TokenAfter(tokens, idx + n)
    /\ idx < Len(tokens) /\ Len(edge) >= 1 /\ edge[1] = TokenAfter(tokens, idx) => n >= 1

\* match_len counts tokens that agree, and stops at the end of the edge, at the end of the
\* tokens or at two tokens that differ.
LEMMA MatchFacts ==
    ASSUME NEW edge \in Seq(Token), NEW tokens \in Seq(Token), NEW idx \in 0 .. Len(tokens)
    PROVE  Agree(edge, tokens, idx, match_len(edge, tokens, idx))
<1>1. Len(edge) \in Nat /\ Len(tokens) \in Nat /\ idx \in Nat /\ Len(tokens) - idx \in Nat
  BY LenProperties
<1> DEFINE b == Min({Len(edge), Len(tokens) - idx})
           S == {k \in 0 .. b : \A i \in 1 .. k : edge[i] = tokens[idx + i]}
           n == match_len(edge, tokens, idx)
<1>2. b \in {Len(edge), Len(tokens) - idx} /\ b <= Len(edge) /\ b <= Len(tokens) - idx /\ b \in Nat
  BY <1>1, MinFacts
<1>3. n = Max(S)
  BY DEF match_len
<1> HIDE DEF b, n
<1>4. 0 \in S /\ S \in SUBSET (0 .. b)
  BY <1>2
<1>5. n \in S /\ \A k \in S : k <= n
  <2> HIDE DEF S
  <2> QED BY <1>2, <1>3, <1>4, MaxFacts
<1>6. n \in 0 .. b /\ \A i \in 1 .. n : edge[i] = tokens[idx + i]
  BY <1>5
<1>7. n \in Nat /\ n <= Len(edge) /\ idx + n <= Len(tokens)
  BY <1>1, <1>2, <1>6
<1>8. ASSUME n < Len(edge), idx + n < Len(tokens)
      PROVE  TokenAfter(edge, n) # TokenAfter(tokens, idx + n)
  <2>1. SUFFICES ASSUME edge[n + 1] = tokens[idx + n + 1] PROVE FALSE
    BY DEF TokenAfter
  <2>2. n + 1 \in 0 .. b
    BY <1>1, <1>2, <1>7, <1>8
  <2>3. \A i \in 1 .. n + 1 : edge[i] = tokens[idx + i]
    <3> SUFFICES ASSUME NEW i \in 1 .. n + 1 PROVE edge[i] = tokens[idx + i]
      OBVIOUS
    <3>1. CASE i \in 1 .. n
      BY <1>6, <3>1
    <3>2. CASE i = n + 1
      <4>1. idx + i = idx + n + 1
        BY <1>1, <1>7, <3>2
      <4> QED BY <2>1, <3>2, <4>1
    <3> QED BY <1>7, <3>1, <3>2
  <2>4. n + 1 \in S
    BY <2>2, <2>3
  <2>5. n + 1 <= n
    BY <1>5, <2>4
  <2> QED BY <1>7, <2>5
<1>9. ASSUME idx < Len(tokens), Len(edge) >= 1, edge[1] = TokenAfter(tokens, idx)
      PROVE  n >= 1
  <2>1. 1 \in 0 .. b
    BY <1>1, <1>2, <1>9
  <2>2. \A i \in 1 .. 1 : edge[i] = tokens[idx + i]
    <3> SUFFICES ASSUME NEW i \in 1 .. 1 PROVE edge[i] = tokens[idx + i]
      OBVIOUS
    <3>1. i = 1
      OBVIOUS
    <3> QED BY <1>9, <3>1 DEF TokenAfter
  <2>3. 1 \in S
    BY <2>1, <2>2
  <2> QED BY <1>5, <1>7, <2>3
<1>10. Agree(edge, tokens, idx, n)
  BY <1>6, <1>7, <1>8, <1>9 DEF Agree
<1> QED BY <1>10 DEF n

\* A walk has matched the tokens up to the node it stands at.
OnPath(h, P, tokens, w) ==
    /\ w.node \in DOMAIN h /\ w.idx \in 0 .. Len(tokens)
    /\ P[w.node] = SubSeq(tokens, 1, w.idx)

\* A child that the walk meets: the tokens before it, the edge and what of it matches.
Meets(h, P, tokens, w, c, n) ==
    /\ c = Child(h, tokens, w) /\ n = Matched(h, tokens, w)
    /\ c \in DOMAIN h /\ c # root_ /\ h[c].parent = w.node /\ Edge(h, P, c)
    /\ n \in Nat /\ n >= 1 /\ n <= Len(h[c].tokens) /\ w.idx + n \in 0 .. Len(tokens)
    /\ Agree(h[c].tokens, tokens, w.idx, n)
    /\ SubSeq(tokens, 1, w.idx + n) = P[w.node] \o SubSeq(h[c].tokens, 1, n)

\* A child under the next token is met on the edge's first token at least.
LEMMA MeetsChild ==
    ASSUME NEW h, NEW P, Tree(h, P), NEW tokens \in Seq(Token), NEW w,
           OnPath(h, P, tokens, w), Leads(h, tokens, w),
           NEW c, c = Child(h, tokens, w), NEW n, n = Matched(h, tokens, w)
    PROVE  Meets(h, P, tokens, w, c, n)
<1>1. /\ w.node \in DOMAIN h /\ w.idx \in 0 .. Len(tokens) /\ Len(tokens) \in Nat
      /\ w.idx \in Nat /\ P[w.node] = SubSeq(tokens, 1, w.idx)
  BY LenProperties DEF OnPath
<1>2. /\ c \in DOMAIN h /\ c # root_ /\ h[c].parent = w.node
      /\ h[c].tokens[1] = TokenAfter(tokens, w.idx) /\ w.idx < Len(tokens)
  <2> DEFINE k == w.idx + 1
             t == tokens[k]
  <2>1. t \in DOMAIN h[w.node].children /\ c = h[w.node].children[t] /\ w.idx < Len(tokens)
    BY Zenon DEF Leads, Child
  <2> HIDE DEF t
  <2>2. c \in DOMAIN h /\ c # root_ /\ h[c].parent = w.node /\ h[c].tokens[1] = t
    <3>1. w.node \in DOMAIN h
      BY <1>1
    <3> QED BY <2>1, <3>1 DEF Tree, Files
  <2>3. t = TokenAfter(tokens, w.idx)
    BY DEF t, TokenAfter
  <2> QED BY <2>1, <2>2, <2>3
<1>3. Edge(h, P, c)
  BY <1>2, EdgeFacts
<1> DEFINE e == h[c].tokens
           idx == w.idx
           q == P[w.node]
<1>4. e \in Seq(Token) /\ Len(e) \in Nat /\ Len(e) >= 1 /\ e[1] = TokenAfter(tokens, idx)
  BY <1>2, <1>3 DEF Edge
<1>5. Agree(e, tokens, idx, n)
  BY <1>1, <1>4, MatchFacts DEF Matched
<1> HIDE DEF e
<1>6. /\ n \in Nat /\ n >= 1 /\ n <= Len(e) /\ idx + n <= Len(tokens)
      /\ \A i \in 1 .. n : e[i] = tokens[idx + i]
  BY <1>2, <1>4, <1>5 DEF Agree
<1>7. idx + n \in 0 .. Len(tokens) /\ n \in 0 .. Len(e)
  BY <1>1, <1>4, <1>6
<1>8. SubSeq(tokens, 1, idx + n) = q \o SubSeq(e, 1, n)
  <2> DEFINE a == SubSeq(tokens, 1, idx + n)
             d == SubSeq(e, 1, n)
  <2>1. a \in Seq(Token) /\ Len(a) = idx + n /\ \A i \in 1 .. idx + n : a[i] = tokens[i]
    BY <1>7, PrefixFacts
  <2>2. d \in Seq(Token) /\ Len(d) = n /\ \A i \in 1 .. n : d[i] = e[i]
    BY <1>4, <1>7, PrefixFacts
  <2>3. q \in Seq(Token) /\ Len(q) = idx /\ \A i \in 1 .. idx : q[i] = tokens[i]
    BY <1>1, PrefixFacts
  <2> HIDE DEF a, d, q, idx
  <2>4. /\ q \o d \in Seq(Token) /\ Len(q \o d) = Len(q) + Len(d)
        /\ \A i \in 1 .. Len(q) : (q \o d)[i] = q[i]
        /\ \A i \in 1 .. Len(d) : (q \o d)[Len(q) + i] = d[i]
    <3>1. q \in Seq(Token) /\ d \in Seq(Token)
      BY <2>2, <2>3
    <3> QED BY <3>1, ConcatPrefix
  <2>5. idx \in Nat
    BY <1>1 DEF idx
  <2>6. ASSUME NEW i \in 1 .. idx + n PROVE a[i] = (q \o d)[i]
    <3>1. CASE i <= idx
      <4>1. i \in 1 .. idx
        BY <2>5, <3>1
      <4> QED BY <2>1, <2>3, <2>4, <4>1
    <3>2. CASE ~ (i <= idx)
      <4>1. PICK j \in 1 .. n : i = idx + j
        <5>1. i - idx \in 1 .. n /\ i = idx + (i - idx)
          BY <1>6, <2>5, <3>2
        <5> QED BY <5>1
      <4>2. (q \o d)[idx + j] = d[j] /\ d[j] = e[j] /\ e[j] = tokens[idx + j]
        BY <1>6, <2>2, <2>3, <2>4
      <4> QED BY <2>1, <4>1, <4>2
    <3> QED BY <3>1, <3>2
  <2>7. a = q \o d
    BY <2>1, <2>2, <2>3, <2>4, <2>6, SeqEqual
  <2> QED BY <2>7 DEF a, d, idx
<1> QED
  BY <1>2, <1>3, <1>5, <1>6, <1>7, <1>8 DEF Meets, e

\* The places at which a walk along tokens can stand.
Places(h, P, tokens) ==
    {w \in [node : DOMAIN h, idx : 0 .. Len(tokens)] : OnPath(h, P, tokens, w)}

\* An iteration of the walk goes to such a place, and further along if it is a full match.
LEMMA DescendFacts ==
    ASSUME NEW h, NEW P, Tree(h, P), NEW tokens \in Seq(Token),
           NEW w \in Places(h, P, tokens), NEW v, v = Descend(h, tokens, w)
    PROVE  /\ v \in Places(h, P, tokens)
           /\ FullMatch(h, tokens, w) => v.idx \in Nat /\ v.idx >= w.idx + 1
           /\ ~ FullMatch(h, tokens, w) => v = w
<1>1. OnPath(h, P, tokens, w) /\ w.idx \in Nat
  BY LenProperties DEF Places
<1>2. CASE ~ FullMatch(h, tokens, w)
  BY <1>2 DEF Descend
<1>3. CASE FullMatch(h, tokens, w)
  <2> DEFINE c == Child(h, tokens, w)
             n == Matched(h, tokens, w)
  <2>1. Leads(h, tokens, w) /\ n = Len(h[c].tokens)
    BY <1>3 DEF FullMatch
  <2>2. v = [node |-> c, idx |-> w.idx + n]
    BY <1>3 DEF Descend
  <2> HIDE DEF c, n
  <2>3. Meets(h, P, tokens, w, c, n)
    BY <1>1, <2>1, MeetsChild DEF c, n
  <2>4. /\ c \in DOMAIN h /\ h[c].parent = w.node /\ Edge(h, P, c)
        /\ n \in Nat /\ n >= 1 /\ w.idx + n \in 0 .. Len(tokens)
        /\ SubSeq(tokens, 1, w.idx + n) = P[w.node] \o SubSeq(h[c].tokens, 1, n)
    BY <2>3 DEF Meets
  <2>5. SubSeq(h[c].tokens, 1, n) = h[c].tokens
    <3>1. h[c].tokens \in Seq(Token)
      BY <2>4 DEF Edge
    <3> QED BY <2>1, <3>1
  <2>6. P[c] = P[w.node] \o h[c].tokens
    BY <2>4 DEF Edge
  <2>7. v.node = c /\ v.idx = w.idx + n /\ v \in [node : DOMAIN h, idx : 0 .. Len(tokens)]
    BY <2>2, <2>4
  <2>8. OnPath(h, P, tokens, v)
    BY <2>4, <2>5, <2>6, <2>7 DEF OnPath
  <2>9. v.idx \in Nat /\ v.idx >= w.idx + 1
    BY <1>1, <2>4, <2>7
  <2> QED BY <1>3, <2>7, <2>8, <2>9 DEF Places
<1> QED BY <1>2, <1>3

\* The walk of find_prefix_locked ends at a node with no full match to go on with.
LEMMA WalkFacts ==
    ASSUME NEW h, NEW P, Tree(h, P), NEW tokens \in Seq(Token), NEW w, w = Walk(h, tokens)
    PROVE  w \in Places(h, P, tokens) /\ OnPath(h, P, tokens, w) /\ ~ FullMatch(h, tokens, w)
<1> DEFINE N == Len(tokens)
           V == Places(h, P, tokens)
           z == [node |-> root_, idx |-> 0]
           R(g) == [k \in 0 .. N |-> IF k = 0 THEN z ELSE Descend(h, tokens, g[k - 1])]
           f == CHOOSE g : g = R(g)
           D == [v \in V |-> Descend(h, tokens, v)]
           G == [i \in 1 .. N |-> D]
<1>1. N \in Nat
  BY LenProperties
<1>2. z \in V
  <2>1. P[root_] = << >> /\ root_ \in DOMAIN h
    BY DEF Tree, IsPaths, Addresses
  <2>2. SubSeq(tokens, 1, 0) = << >>
    OBVIOUS
  <2>3. z \in [node : DOMAIN h, idx : 0 .. N] /\ z.node = root_ /\ z.idx = 0
    BY <1>1, <2>1
  <2> QED BY <2>1, <2>2, <2>3 DEF Places, OnPath
<1>3. \A v \in V : Descend(h, tokens, v) \in V
  BY DescendFacts
<1>4. G \in [1 .. N -> [V -> V]]
  BY <1>3
<1>5. \E g \in [0 .. N -> V] : g[0] = z /\ \A i \in 1 .. N : g[i] = G[i][g[i - 1]]
  <2> HIDE DEF V, G, N, z
  <2> QED BY <1>1, <1>2, <1>4, PrimitiveRecursion
<1>6. f = R(f)
  <2>1. PICK g \in [0 .. N -> V] : g[0] = z /\ \A i \in 1 .. N : g[i] = G[i][g[i - 1]]
    BY <1>5
  <2>2. \A i \in 1 .. N : g[i - 1] \in V
    BY <1>1, <2>1
  <2>3. \A i \in 1 .. N : g[i] = Descend(h, tokens, g[i - 1])
    BY <2>1, <2>2
  <2>4. g = R(g)
    <3> HIDE DEF V, z, N, G
    <3>1. ASSUME NEW i \in 0 .. N
          PROVE  g[i] = IF i = 0 THEN z ELSE Descend(h, tokens, g[i - 1])
      <4>1. i = 0 \/ i \in 1 .. N
        BY <1>1
      <4> QED BY <2>1, <2>3, <4>1
    <3> QED BY <2>1, <3>1
  <2> HIDE DEF R
  <2> QED BY <2>4
<1>7. w = f[N]
  BY DEF Walk
<1> HIDE DEF f, z, V, N
<1> DEFINE S == {i \in 0 .. N : f[i] \in V /\ (f[i].idx >= i \/ ~ FullMatch(h, tokens, f[i]))}
<1>8. f[0] = z /\ \A i \in 1 .. N : f[i] = Descend(h, tokens, f[i - 1])
  <2>1. /\ DOMAIN f = 0 .. N
        /\ \A i \in 0 .. N : f[i] = IF i = 0 THEN z ELSE Descend(h, tokens, f[i - 1])
    BY <1>6
  <2> QED BY <1>1, <2>1
<1>9. 0 \in S
  <2>1. z.idx >= 0
    BY DEF z
  <2> HIDE DEF z
  <2> QED BY <1>1, <1>2, <1>8, <2>1
<1>10. ASSUME NEW i \in 1 .. N, i - 1 \in S PROVE i \in S
  <2> DEFINE u == f[i - 1]
             v == f[i]
  <2>1. u \in V /\ (u.idx >= i - 1 \/ ~ FullMatch(h, tokens, u))
    BY <1>10
  <2>2. v = Descend(h, tokens, u)
    BY <1>8
  <2> HIDE DEF u, v
  <2>3. /\ v \in V
        /\ FullMatch(h, tokens, u) => v.idx \in Nat /\ v.idx >= u.idx + 1
        /\ ~ FullMatch(h, tokens, u) => v = u
    BY <2>1, <2>2, DescendFacts DEF V
  <2>4. u.idx \in Nat
    BY <2>1, <1>1 DEF V, Places
  <2>5. v.idx >= i \/ ~ FullMatch(h, tokens, v)
    BY <2>1, <2>3, <2>4
  <2> QED BY <2>3, <2>5 DEF v
<1> HIDE DEF S
<1>11. N \in S
  <2>1. \A i \in 1 .. N : i - 1 \in S => i \in S
    BY <1>10
  <2>2. \A i \in 0 .. N : i \in S
    BY <1>1, <1>9, <2>1, Induction
  <2> QED BY <1>1, <2>2
<1>12. w \in V /\ (w.idx >= N \/ ~ FullMatch(h, tokens, w))
  BY <1>7, <1>11 DEF S
<1>13. w.idx >= N => ~ FullMatch(h, tokens, w)
  <2>1. w.idx \in 0 .. N
    BY <1>12 DEF V, Places, N
  <2> QED BY <1>1, <2>1 DEF FullMatch, Leads, N
<1> QED BY <1>12, <1>13 DEF V, Places

\* A node whose path goes on along the tokens, behind the place of the walk, lies below
\* the child that the walk reads.
LEMMA BelowChild ==
    ASSUME NEW h, NEW P, Tree(h, P), NEW tokens \in Seq(Token), NEW w, OnPath(h, P, tokens, w),
           NEW n \in DOMAIN h, NEW k \in w.idx + 1 .. Len(tokens),
           SubSeq(tokens, 1, k) \sqsubseteq P[n]
    PROVE  Leads(h, tokens, w) /\ P[Child(h, tokens, w)] \sqsubseteq P[n]
<1> DEFINE s == SubSeq(tokens, 1, k)
           a == w.node
           i == w.idx
<1>1. /\ a \in DOMAIN h /\ i \in 0 .. Len(tokens) /\ Len(tokens) \in Nat
      /\ P[a] = SubSeq(tokens, 1, i)
  BY LenProperties DEF OnPath
<1>2. k \in 0 .. Len(tokens) /\ i < k /\ i \in Nat /\ k \in i + 1 .. Len(tokens)
  BY <1>1
<1>3. s \in Seq(Token) /\ Len(s) = k /\ s \sqsubseteq tokens /\ s \sqsubseteq P[n]
      /\ \A j \in 1 .. k : s[j] = tokens[j]
  BY <1>2, PrefixFacts
<1>4. P[a] \in Seq(Token) /\ Len(P[a]) = i /\ P[a] \sqsubseteq tokens
  BY <1>1, PrefixFacts
<1>5. P[n] \in Seq(Token)
  BY PathType
<1> HIDE DEF s, i
<1>6. P[a] \sqsubseteq s
  <2>1. Len(P[a]) <= Len(s)
    BY <1>2, <1>3, <1>4
  <2> QED BY <1>3, <1>4, <2>1, PrefixChain
<1>7. P[a] \sqsubseteq P[n]
  BY <1>3, <1>4, <1>5, <1>6, PrefixChain
<1>8. a # n
  <2>1. Len(s) <= Len(P[n])
    BY <1>3, <1>5, PrefixOrder
  <2> QED BY <1>2, <1>3, <1>4, <2>1
<1>9. Towards(h, P, a, n)
  BY <1>1, <1>7, <1>8, ChildOnPath
<1>10. TokenAfter(P[n], Len(P[a])) = TokenAfter(tokens, i)
  <2>1. i + 1 \in 1 .. k
    BY <1>2
  <2>2. s[i + 1] = tokens[i + 1] /\ s[i + 1] = P[n][i + 1]
    BY <1>3, <2>1 DEF \sqsubseteq, Index!\sqsubseteq
  <2> QED BY <1>4, <2>2 DEF TokenAfter
<1>11. i < Len(tokens)
  BY <1>1, <1>2
<1> DEFINE t == TokenAfter(tokens, i)
<1>12. t \in DOMAIN h[a].children /\ P[h[a].children[t]] \sqsubseteq P[n]
  BY <1>9, <1>10 DEF Towards
<1>13. t = tokens[w.idx + 1]
  BY DEF TokenAfter, i
<1>14. tokens[w.idx + 1] \in DOMAIN h[w.node].children
       /\ P[h[w.node].children[tokens[w.idx + 1]]] \sqsubseteq P[n]
  BY Zenon, <1>12, <1>13
<1> QED BY Zenon, <1>11, <1>14 DEF Leads, Child, i

\* The nodes that an operation adds are not referenced and hold no sequences.
Fresh(h, g) == \A n \in DOMAIN g \ DOMAIN h : g[n].ref_count = 0 /\ g[n].seq_ids = {}

\* What find_prefix_locked leaves: the heap g with the paths Q, in which node stands for
\* the first m tokens, after a split at cut of the node at x if the walk ended in its edge.
Found(h, P, tokens, g, Q, node, m, x) ==
    /\ Tree(g, Q) /\ DOMAIN h \subseteq DOMAIN g /\ Fresh(h, g) /\ node \in DOMAIN h
    /\ m \in 0 .. Len(tokens) /\ Q[node] = SubSeq(tokens, 1, m)
    /\ m < Len(tokens) => TokenAfter(tokens, m) \notin DOMAIN g[node].children
    /\ \A n \in DOMAIN h : /\ Record(g[n]) = Record(h[n])
                           /\ Q[n] = Index!Follow(P[n], x, SubSeq(tokens, 1, m))
    /\ \A t : IsBar(t, h, P) =>
           /\ Index!Matches(t, tokens, m) /\ Index!EdgeNode(t, SubSeq(tokens, 1, m), x)
           /\ IsBar(Index!split_node(t, x, SubSeq(tokens, 1, m)), g, Q)

\* A walk that ends at a node: no path goes on along the tokens.
LEMMA FoundNode ==
    ASSUME NEW h, NEW P, Tree(h, P), NEW tokens \in Seq(Token),
           NEW w, OnPath(h, P, tokens, w), ~ Leads(h, tokens, w)
    PROVE  Found(h, P, tokens, h, P, w.node, w.idx, P[w.node])
<1> DEFINE a == w.node
           m == w.idx
           cut == SubSeq(tokens, 1, m)
<1>1. /\ a \in DOMAIN h /\ m \in 0 .. Len(tokens) /\ Len(tokens) \in Nat /\ P[a] = cut
  BY LenProperties DEF OnPath
<1>2. m < Len(tokens) => TokenAfter(tokens, m) \notin DOMAIN h[a].children
  BY Zenon DEF Leads, TokenAfter
<1>3. \A k \in m + 1 .. Len(tokens) : \A n \in DOMAIN h : ~ (SubSeq(tokens, 1, k) \sqsubseteq P[n])
  BY BelowChild
<1>4. cut \sqsubseteq cut
  BY <1>1, PathType, PrefixOrder
<1> HIDE DEF a, m, cut
<1>5. ASSUME NEW t, IsBar(t, h, P)
      PROVE  /\ Index!Matches(t, tokens, m) /\ Index!EdgeNode(t, cut, cut)
             /\ IsBar(Index!split_node(t, cut, cut), h, P)
  <2>1. DOMAIN t = {P[n] : n \in DOMAIN h} /\ t = [p \in DOMAIN t |-> t[p]]
    BY <1>5 DEF IsBar
  <2>2. cut \in DOMAIN t
    BY <1>1, <2>1
  <2>3. Index!Matches(t, tokens, m)
    <3>1. \A k \in m + 1 .. Len(tokens) : \A p \in DOMAIN t : ~ (SubSeq(tokens, 1, k) \sqsubseteq p)
      BY <1>3, <2>1 DEF m
    <3>2. Index!Prefix(tokens, m) = cut
      BY DEF cut, m, Index!Prefix
    <3>3. \A k : Index!Prefix(tokens, k) = SubSeq(tokens, 1, k)
      BY DEF Index!Prefix
    <3> QED BY <1>1, <1>4, <2>2, <3>1, <3>2, <3>3 DEF Index!Matches, \sqsubseteq
  <2>4. Index!EdgeNode(t, cut, cut)
    BY <1>4, <2>2 DEF Index!EdgeNode, \sqsubseteq
  <2>5. Index!split_node(t, cut, cut) = t
    BY <2>1, <2>2 DEF Index!split_node
  <2> QED BY <1>5, <2>3, <2>4, <2>5
<1>6. \A n \in DOMAIN h : P[n] = Index!Follow(P[n], cut, cut)
  BY DEF Index!Follow
<1>7. Found(h, P, tokens, h, P, a, m, cut)
  BY <1>1, <1>2, <1>5, <1>6 DEF Found, Fresh, cut
<1> QED BY <1>1, <1>7 DEF a, m

\* A walk that ends in the edge of a child, which is split there.
LEMMA FoundEdge ==
    ASSUME NEW h, NEW P, Tree(h, P), NEW tokens \in Seq(Token),
           NEW w, OnPath(h, P, tokens, w), Leads(h, tokens, w), ~ FullMatch(h, tokens, w),
           NEW c, c = Child(h, tokens, w), NEW n, n = Matched(h, tokens, w),
           NEW m, m = w.idx + n, NEW cut, cut = SubSeq(tokens, 1, m)
    PROVE  Found(h, P, tokens, split_node(h, c, n), SplitPaths(h, P, c, cut), c, m, P[c])
<1> DEFINE a == w.node
           e == h[c].tokens
           g == split_node(h, c, n)
           Q == SplitPaths(h, P, c, cut)
           suffix == New(h)
<1>1. /\ c \in DOMAIN h /\ c # root_ /\ h[c].parent = a /\ Edge(h, P, c)
      /\ n \in Nat /\ n >= 1 /\ n <= Len(e) /\ m \in 0 .. Len(tokens)
      /\ Agree(e, tokens, w.idx, n) /\ cut = P[a] \o SubSeq(e, 1, n)
  <2>1. Meets(h, P, tokens, w, c, n)
    BY MeetsChild
  <2> QED BY Zenon, <2>1 DEF Meets
<1>2. /\ w.idx \in 0 .. Len(tokens) /\ w.idx \in Nat /\ Len(tokens) \in Nat /\ a \in DOMAIN h
      /\ P[a] = SubSeq(tokens, 1, w.idx)
  BY LenProperties DEF OnPath
<1>3. n < Len(e)
  <2>1. n # Len(e)
    BY Zenon DEF FullMatch
  <2>2. Len(e) \in Nat
    BY <1>1 DEF Edge
  <2> QED BY <1>1, <2>1, <2>2
<1>4. cut = P[h[c].parent] \o SubSeq(h[c].tokens, 1, n)
  BY Zenon, <1>1
<1> HIDE DEF g, Q, suffix
<1>5. /\ Tree(g, Q) /\ DOMAIN g = DOMAIN h \cup {suffix} /\ suffix \notin DOMAIN h
      /\ \A i \in DOMAIN h : Record(g[i]) = Record(h[i]) /\ (i # c => Q[i] = P[i])
      /\ Q[c] = cut /\ Q[suffix] = P[c]
      /\ cut \in Seq(Token) /\ cut \sqsubseteq P[c] /\ Len(cut) < Len(P[c])
      /\ Record(g[suffix]) = Index!NewNode(h[c].last_access_tick)
      /\ DOMAIN g[c].children = {TokenAfter(P[c], Len(cut))}
  <2>1. n \in Nat /\ 0 < n /\ n < Len(h[c].tokens)
    BY <1>1, <1>3
  <2>2. c \in DOMAIN h /\ c # root_
    BY <1>1
  <2>3. g = split_node(h, c, n) /\ Q = SplitPaths(h, P, c, cut) /\ suffix = New(h)
    BY DEF g, Q, suffix
  <2>4. Split(h, P, c, cut, g, Q, suffix)
    BY <1>4, <2>1, <2>2, <2>3, SplitTree
  <2> QED BY <2>4 DEF Split
<1>6. Len(cut) = m /\ Len(P[a]) = w.idx
  BY <1>1, <1>2, PrefixFacts
<1>7. TokenAfter(P[c], m) = TokenAfter(e, n)
  <2>1. \A i \in 1 .. Len(e) : P[c][Len(P[a]) + i] = e[i]
    BY <1>1 DEF Edge
  <2>2. n + 1 \in 1 .. Len(e)
    BY <1>1, <1>3
  <2>3. P[c][w.idx + (n + 1)] = e[n + 1]
    BY <1>6, <2>1, <2>2
  <2>4. m + 1 = w.idx + (n + 1)
    <3>1. \A i, j \in Nat : i + j + 1 = i + (j + 1)
      OBVIOUS
    <3>2. w.idx \in Nat /\ n \in Nat
      BY <1>1, <1>2
    <3> QED BY <3>1, <3>2
  <2> QED BY <2>3, <2>4 DEF TokenAfter
<1>8. m < Len(tokens) => TokenAfter(tokens, m) # TokenAfter(P[c], m)
  BY <1>1, <1>3, <1>7 DEF Agree
<1>9. m < Len(tokens) => TokenAfter(tokens, m) \notin DOMAIN g[c].children
  BY <1>5, <1>6, <1>8
<1>10. \A i \in DOMAIN h : i # c => P[i] # P[c]
  BY <1>1, PathsInjective
<1>11. \A i \in DOMAIN h : Q[i] = Index!Follow(P[i], P[c], cut)
  BY <1>5, <1>10 DEF Index!Follow
<1>12. ASSUME NEW i \in DOMAIN h, cut \sqsubseteq P[i] PROVE P[c] \sqsubseteq P[i]
  <2>1. m \in w.idx + 1 .. Len(tokens)
    BY <1>1, <1>2
  <2> QED BY <1>12, <2>1, BelowChild
<1>13. \A i \in DOMAIN h : P[i] # cut
  <2> SUFFICES ASSUME NEW i \in DOMAIN h, P[i] = cut PROVE FALSE
    OBVIOUS
  <2>1. P[c] \sqsubseteq P[i]
    BY <1>5, <1>12, PrefixOrder
  <2>2. P[c] \in Seq(Token) /\ Len(P[c]) \in Nat /\ Len(P[i]) \in Nat /\ P[i] \in Seq(Token)
    BY <1>1, PathType
  <2>3. Len(P[c]) <= Len(P[i])
    BY <2>1, <2>2, PrefixOrder
  <2> QED BY <1>5, <2>2, <2>3
<1>14. \A k \in m + 1 .. Len(tokens) : \A i \in DOMAIN h : ~ (SubSeq(tokens, 1, k) \sqsubseteq P[i])
  <2> SUFFICES ASSUME NEW k \in m + 1 .. Len(tokens), NEW i \in DOMAIN h,
                      SubSeq(tokens, 1, k) \sqsubseteq P[i]
               PROVE  FALSE
    OBVIOUS
  <2>1. /\ k \in w.idx + 1 .. Len(tokens) /\ m + 1 \in 1 .. k
        /\ k \in 0 .. Len(tokens) /\ m < Len(tokens)
    <3>1. /\ w.idx \in Nat /\ n \in Nat /\ n >= 1 /\ m = w.idx + n
          /\ Len(tokens) \in Nat /\ k \in m + 1 .. Len(tokens)
      BY <1>1, <1>2
    <3> QED BY ONLY <3>1
  <2>2. P[c] \sqsubseteq P[i]
    BY <2>1, BelowChild
  <2>3. m + 1 \in 1 .. Len(P[c])
    <3>1. Len(P[c]) \in Nat
      BY <1>1, PathType
    <3> QED BY <1>1, <1>5, <1>6, <3>1
  <2>4. TokenAfter(P[c], m) = TokenAfter(P[i], m)
    BY <2>2, <2>3 DEF TokenAfter, \sqsubseteq, Index!\sqsubseteq
  <2> DEFINE s == SubSeq(tokens, 1, k)
  <2>5. Len(s) = k /\ \A j \in 1 .. k : s[j] = tokens[j]
    BY <2>1, PrefixFacts
  <2>6. s \sqsubseteq P[i]
    OBVIOUS
  <2> HIDE DEF s
  <2>7. TokenAfter(tokens, m) = TokenAfter(P[i], m)
    BY <2>1, <2>5, <2>6 DEF TokenAfter, \sqsubseteq, Index!\sqsubseteq
  <2> QED BY <1>8, <2>1, <2>4, <2>7
<1>15. ASSUME NEW t, IsBar(t, h, P)
       PROVE  /\ Index!Matches(t, tokens, m) /\ Index!EdgeNode(t, cut, P[c])
              /\ IsBar(Index!split_node(t, P[c], cut), g, Q)
  <2>1. /\ DOMAIN t = {P[i] : i \in DOMAIN h} /\ \A i \in DOMAIN h : t[P[i]] = Record(h[i])
    BY <1>15 DEF IsBar
  <2>2. Index!Matches(t, tokens, m)
    <3>1. \A k \in m + 1 .. Len(tokens) : \A p \in DOMAIN t : ~ (SubSeq(tokens, 1, k) \sqsubseteq p)
      BY <1>14, <2>1
    <3>2. \A k : Index!Prefix(tokens, k) = SubSeq(tokens, 1, k)
      BY DEF Index!Prefix
    <3>3. Index!Prefix(tokens, m) = cut
      BY <3>2
    <3>4. \E p \in DOMAIN t : cut \sqsubseteq p
      BY <1>1, <1>5, <2>1
    <3> QED BY <1>1, <3>1, <3>2, <3>3, <3>4 DEF Index!Matches, \sqsubseteq
  <2>3. Index!EdgeNode(t, cut, P[c])
    <3>1. \A p \in DOMAIN t : cut \sqsubseteq p => P[c] \sqsubseteq p
      BY <1>12, <2>1
    <3> QED BY <1>1, <1>5, <2>1, <3>1 DEF Index!EdgeNode, \sqsubseteq
  <2> DEFINE u == Index!split_node(t, P[c], cut)
  <2>4. /\ DOMAIN u = DOMAIN t \cup {cut} /\ u = [p \in DOMAIN u |-> u[p]]
        /\ u[cut] = t[P[c]]
        /\ P[c] # cut => u[P[c]] = Index!NewNode(t[P[c]].last_access_tick)
        /\ \A p \in DOMAIN t : p # cut /\ p # P[c] => u[p] = t[p]
    BY <1>1, <2>1 DEF Index!split_node
  <2> HIDE DEF u
  <2>5. DOMAIN u = {Q[i] : i \in DOMAIN g}
    <3>1. ASSUME NEW p \in DOMAIN u PROVE \E i \in DOMAIN g : p = Q[i]
      <4>1. CASE p = cut
        BY <1>1, <1>5, <4>1
      <4>2. CASE p # cut
        <5>1. PICK j \in DOMAIN h : p = P[j]
          BY <2>1, <2>4, <4>2
        <5>2. CASE j = c
          BY <1>5, <5>1, <5>2
        <5>3. CASE j # c
          BY <1>5, <5>1, <5>3
        <5> QED BY <5>2, <5>3
      <4> QED BY <4>1, <4>2
    <3>2. \A i \in DOMAIN g : Q[i] \in DOMAIN u
      BY <1>1, <1>5, <2>1, <2>4
    <3> QED BY <3>1, <3>2
  <2>6. ASSUME NEW i \in DOMAIN g PROVE u[Q[i]] = Record(g[i])
    <3>1. CASE i = suffix
      <4>1. t[P[c]].last_access_tick = h[c].last_access_tick
        <5>1. t[P[c]] = Record(h[c])
          BY <1>1, <2>1
        <5>2. Record(h[c]).last_access_tick = h[c].last_access_tick
          BY DEF Record
        <5> QED BY <5>1, <5>2
      <4> QED BY <1>1, <1>5, <1>13, <2>4, <3>1, <4>1
    <3>2. CASE i = c
      BY <1>1, <1>5, <2>1, <2>4, <3>2
    <3>3. CASE i # suffix /\ i # c
      <4>1. i \in DOMAIN h /\ Q[i] = P[i] /\ Record(g[i]) = Record(h[i])
        BY <1>5, <3>3
      <4>2. P[i] \in DOMAIN t /\ P[i] # cut /\ P[i] # P[c] /\ t[P[i]] = Record(h[i])
        BY <1>10, <1>13, <2>1, <3>3, <4>1
      <4>3. u[P[i]] = t[P[i]]
        BY <2>4, <4>2
      <4> QED BY <4>1, <4>2, <4>3
    <3> QED BY <3>1, <3>2, <3>3
  <2>7. IsBar(u, g, Q)
    BY <2>4, <2>5, <2>6 DEF IsBar
  <2> QED BY <2>2, <2>3, <2>7 DEF u
<1>16. Fresh(h, g)
  <2>1. g[suffix].ref_count = 0 /\ g[suffix].seq_ids = {}
    BY <1>5 DEF Record, Index!NewNode
  <2> QED BY <1>5, <2>1 DEF Fresh
<1>17. Found(h, P, tokens, g, Q, c, m, P[c])
  BY <1>1, <1>5, <1>9, <1>11, <1>15, <1>16 DEF Found
<1> QED BY <1>17 DEF g, Q

\* The walk of find_prefix_locked matches as much as it can, and splits a node at most.
LEMMA FindTree ==
    ASSUME NEW h, NEW P, Tree(h, P), NEW tokens \in Seq(Token),
           NEW f, f = find_prefix_locked(h, tokens)
    PROVE  /\ f = [heap |-> f.heap, node |-> f.node, matched_tokens |-> f.matched_tokens]
           /\ \E Q, x : Found(h, P, tokens, f.heap, Q, f.node, f.matched_tokens, x)
<1> DEFINE w == Walk(h, tokens)
<1>1. OnPath(h, P, tokens, w) /\ ~ FullMatch(h, tokens, w)
  BY WalkFacts
<1>2. CASE ~ Leads(h, tokens, w)
  <2>1. f = [heap |-> h, node |-> w.node, matched_tokens |-> w.idx]
    BY <1>2 DEF find_prefix_locked
  <2> HIDE DEF w
  <2>2. Found(h, P, tokens, h, P, w.node, w.idx, P[w.node])
    BY <1>1, <1>2, FoundNode
  <2> QED BY <2>1, <2>2
<1>3. CASE Leads(h, tokens, w)
  <2> DEFINE c == Child(h, tokens, w)
             n == Matched(h, tokens, w)
             m == w.idx + n
             cut == SubSeq(tokens, 1, m)
  <2>1. f = [heap |-> split_node(h, c, n), node |-> c, matched_tokens |-> m]
    BY <1>3 DEF find_prefix_locked
  <2> HIDE DEF w
  <2>2. Found(h, P, tokens, split_node(h, c, n), SplitPaths(h, P, c, cut), c, m, P[c])
    BY <1>1, <1>3, FoundEdge
  <2> HIDE DEF c, n, m, cut
  <2> QED BY <2>1, <2>2
<1> QED BY <1>2, <1>3

\* The tree of paths with a node for the tokens, a new one unless there is one.
LeafBar(s, tokens, tick) ==
    [p \in DOMAIN s \cup {tokens} |-> IF p = tokens THEN Index!NodeAt(s, p, tick) ELSE s[p]]

\* What a walk with its leaf leaves: node stands for all the tokens.
Placed(h, P, tokens, tick, g, Q, node, m, x) ==
    /\ Tree(g, Q) /\ DOMAIN h \subseteq DOMAIN g /\ Fresh(h, g) /\ node \in DOMAIN g
    /\ m \in 0 .. Len(tokens) /\ Q[node] = tokens
    /\ \A n \in DOMAIN h : /\ Record(g[n]) = Record(h[n])
                           /\ Q[n] = Index!Follow(P[n], x, SubSeq(tokens, 1, m))
    /\ \A t : IsBar(t, h, P) =>
           /\ Index!Matches(t, tokens, m) /\ Index!EdgeNode(t, SubSeq(tokens, 1, m), x)
           /\ IsBar(LeafBar(Index!split_node(t, x, SubSeq(tokens, 1, m)), tokens, tick), g, Q)

\* A tree of paths that has a node for the tokens already.
LEMMA LeafBarNone ==
    ASSUME NEW s, NEW tokens \in DOMAIN s, NEW tick, s = [p \in DOMAIN s |-> s[p]]
    PROVE  LeafBar(s, tokens, tick) = s
BY DEF LeafBar, Index!NodeAt

\* A new leaf, as in the tree of paths.
LEMMA LeafBarNew ==
    ASSUME NEW h, NEW P, Tree(h, P), NEW g, NEW Q, NEW s, IsBar(s, h, P),
           NEW leaf, leaf \notin DOMAIN h, DOMAIN g = DOMAIN h \cup {leaf}, Tree(g, Q),
           \A n \in DOMAIN h : Q[n] = P[n] /\ Record(g[n]) = Record(h[n]),
           NEW tokens, Q[leaf] = tokens, NEW tick, Record(g[leaf]) = Index!NewNode(tick)
    PROVE  IsBar(LeafBar(s, tokens, tick), g, Q)
<1>1. DOMAIN s = {P[n] : n \in DOMAIN h} /\ \A n \in DOMAIN h : s[P[n]] = Record(h[n])
  BY DEF IsBar
<1>2. \A n \in DOMAIN h : P[n] # tokens
  BY PathsInjective
<1> DEFINE u == LeafBar(s, tokens, tick)
<1>3. /\ DOMAIN u = DOMAIN s \cup {tokens} /\ u = [p \in DOMAIN u |-> u[p]]
      /\ u[tokens] = Index!NodeAt(s, tokens, tick)
      /\ \A p \in DOMAIN s : p # tokens => u[p] = s[p]
  BY DEF LeafBar
<1> HIDE DEF u
<1>4. u[tokens] = Index!NewNode(tick)
  <2>1. tokens \notin DOMAIN s
    BY <1>1, <1>2
  <2> QED BY <1>3, <2>1 DEF Index!NodeAt
<1>5. \A n \in DOMAIN g : u[Q[n]] = Record(g[n])
  <2> SUFFICES ASSUME NEW n \in DOMAIN g PROVE u[Q[n]] = Record(g[n])
    OBVIOUS
  <2>1. CASE n = leaf
    BY <1>4, <2>1
  <2>2. CASE n # leaf
    BY <1>1, <1>2, <1>3, <2>2
  <2> QED BY <2>1, <2>2
<1>6. DOMAIN u = {Q[n] : n \in DOMAIN g}
  <2>1. ASSUME NEW p \in DOMAIN u PROVE \E n \in DOMAIN g : p = Q[n]
    <3>1. CASE p = tokens
      BY <3>1
    <3>2. CASE p # tokens
      <4>1. PICK n \in DOMAIN h : p = P[n]
        BY <1>1, <1>3, <3>2
      <4> QED BY <4>1
    <3> QED BY <3>1, <3>2
  <2>2. \A n \in DOMAIN g : Q[n] \in DOMAIN u
    BY <1>1, <1>3
  <2> QED BY <2>1, <2>2
<1>7. IsBar(u, g, Q)
  BY <1>3, <1>5, <1>6 DEF IsBar
<1> QED BY <1>7 DEF u

\* The walk of insert and extend_seq_id with the leaf for the remaining tokens.
LEMMA PlaceTree ==
    ASSUME NEW h, NEW P, Tree(h, P), NEW tokens \in Seq(Token), NEW tick \in Nat,
           NEW f, f = WithLeaf(find_prefix_locked(h, tokens), tokens, tick)
    PROVE  /\ \E Q, x : Placed(h, P, tokens, tick, f.heap, Q, f.node, f.matched_tokens, x)
           /\ f.matched_tokens = find_prefix_locked(h, tokens).matched_tokens
<1> DEFINE d == find_prefix_locked(h, tokens)
           g == d.heap
           m == d.matched_tokens
           rest == SubSeq(tokens, m + 1, Len(tokens))
<1>0. d = [heap |-> d.heap, node |-> d.node, matched_tokens |-> d.matched_tokens]
  BY FindTree
<1>1. PICK Q, x : Found(h, P, tokens, g, Q, d.node, m, x)
  BY FindTree
<1> DEFINE cut == SubSeq(tokens, 1, m)
<1>2. /\ Tree(g, Q) /\ DOMAIN h \subseteq DOMAIN g /\ Fresh(h, g) /\ d.node \in DOMAIN g
      /\ m \in 0 .. Len(tokens) /\ Q[d.node] = cut
      /\ m < Len(tokens) => TokenAfter(tokens, m) \notin DOMAIN g[d.node].children
      /\ \A n \in DOMAIN h : Record(g[n]) = Record(h[n]) /\ Q[n] = Index!Follow(P[n], x, cut)
      /\ \A t : IsBar(t, h, P) =>
             /\ Index!Matches(t, tokens, m) /\ Index!EdgeNode(t, cut, x)
             /\ IsBar(Index!split_node(t, x, cut), g, Q)
  BY <1>1 DEF Found
<1>3. Len(tokens) \in Nat
  BY LenProperties
<1>4. CASE m = Len(tokens)
  <2>1. f = d
    BY <1>4 DEF WithLeaf
  <2>2. Q[d.node] = tokens
    BY <1>2, <1>4
  <2> HIDE DEF d
  <2>3. ASSUME NEW t, IsBar(t, h, P)
        PROVE  IsBar(LeafBar(Index!split_node(t, x, cut), tokens, tick), g, Q)
    <3> DEFINE s == Index!split_node(t, x, cut)
    <3>1. IsBar(s, g, Q)
      BY <1>2, <2>3
    <3> HIDE DEF s
    <3>2. tokens \in DOMAIN s /\ s = [p \in DOMAIN s |-> s[p]]
      BY <1>2, <2>2, <3>1 DEF IsBar
    <3>3. LeafBar(s, tokens, tick) = s
      BY <3>2, LeafBarNone
    <3>4. IsBar(LeafBar(s, tokens, tick), g, Q)
      BY <3>1, <3>3
    <3> QED BY <3>4 DEF s
  <2>4. Placed(h, P, tokens, tick, g, Q, d.node, m, x)
    <3> HIDE DEF g, m, cut
    <3>1. \A t : IsBar(t, h, P) =>
             /\ Index!Matches(t, tokens, m) /\ Index!EdgeNode(t, cut, x)
             /\ IsBar(LeafBar(Index!split_node(t, x, cut), tokens, tick), g, Q)
      BY Zenon, <1>2, <2>3
    <3>2. \A n \in DOMAIN h : Record(g[n]) = Record(h[n]) /\ Q[n] = Index!Follow(P[n], x, cut)
      BY <1>2
    <3>3. /\ Tree(g, Q) /\ DOMAIN h \subseteq DOMAIN g /\ Fresh(h, g) /\ d.node \in DOMAIN g
          /\ m \in 0 .. Len(tokens)
      BY <1>2
    <3> QED BY <2>2, <3>1, <3>2, <3>3 DEF Placed, cut
  <2>5. f.heap = g /\ f.node = d.node /\ f.matched_tokens = m
    BY <2>1
  <2>6. m = find_prefix_locked(h, tokens).matched_tokens
    BY DEF d
  <2> HIDE DEF g, m
  <2> QED BY Zenon, <2>4, <2>5, <2>6
<1>5. CASE m # Len(tokens)
  <2> DEFINE leaf == New(g)
             k == LeafHeap(g, d.node, rest, tick)
             U == LeafPaths(g, Q, d.node, rest)
  <2>1. f = [d EXCEPT !.node = leaf, !.heap = k]
    BY <1>5 DEF WithLeaf, LeafHeap
  <2>2. /\ rest \in Seq(Token) /\ rest # << >> /\ rest[1] = TokenAfter(tokens, m)
        /\ cut \o rest = tokens /\ m < Len(tokens)
    <3>1. /\ rest \in Seq(Token) /\ Len(rest) = Len(tokens) - m /\ cut \o rest = tokens
          /\ \A i \in 1 .. Len(tokens) - m : rest[i] = tokens[m + i]
      BY <1>2, SuffixFacts
    <3>2. m < Len(tokens) /\ 1 \in 1 .. Len(tokens) - m /\ Len(tokens) - m # 0
      BY <1>2, <1>3, <1>5
    <3>3. rest[1] = TokenAfter(tokens, m)
      BY <3>1, <3>2 DEF TokenAfter
    <3>4. rest # << >>
      <4> HIDE DEF rest, m
      <4> QED BY <3>1, <3>2, EmptySeq
    <3> QED BY <3>1, <3>2, <3>3, <3>4
  <2> HIDE DEF rest, g, cut, k, U, leaf
  <2>3. f.heap = k /\ f.node = leaf /\ f.matched_tokens = m
    <3> HIDE DEF d
    <3> QED BY <1>0, <2>1 DEF m
  <2>4. rest[1] \notin DOMAIN g[d.node].children
    BY <1>2, <2>2
  <2>5. /\ Tree(k, U) /\ DOMAIN k = DOMAIN g \cup {leaf} /\ leaf \notin DOMAIN g
        /\ \A n \in DOMAIN g : U[n] = Q[n] /\ Record(k[n]) = Record(g[n])
        /\ U[leaf] = Q[d.node] \o rest
        /\ Record(k[leaf]) = Index!NewNode(tick)
    <3> HIDE DEF d
    <3>1. Tree(g, Q) /\ d.node \in DOMAIN g
      BY <1>2
    <3>2. Leafed(g, Q, d.node, rest, tick, k, U, leaf)
      BY <2>2, <2>4, <3>1, LeafTree DEF k, U, leaf
    <3> QED BY <3>2 DEF Leafed
  <2>6. U[leaf] = tokens
    BY <1>2, <2>2, <2>5
  <2> HIDE DEF d, m
  <2>7. Fresh(h, k)
    <3>1. k[leaf].ref_count = 0 /\ k[leaf].seq_ids = {}
      BY <2>5 DEF Record, Index!NewNode
    <3>2. \A n \in DOMAIN g \ DOMAIN h : k[n].ref_count = 0 /\ k[n].seq_ids = {}
      BY <1>2, <2>5 DEF Fresh, Record
    <3> QED BY <2>5, <3>1, <3>2 DEF Fresh
  <2>8. ASSUME NEW t, IsBar(t, h, P)
        PROVE  IsBar(LeafBar(Index!split_node(t, x, cut), tokens, tick), k, U)
    <3> DEFINE s == Index!split_node(t, x, cut)
    <3>1. IsBar(s, g, Q)
      BY <1>2, <2>8
    <3> HIDE DEF s
    <3>2. IsBar(LeafBar(s, tokens, tick), k, U)
      <4>1. Tree(g, Q)
        BY <1>2
      <4> QED BY <2>5, <2>6, <3>1, <4>1, LeafBarNew
    <3> QED BY <3>2 DEF s
  <2>9. \A n \in DOMAIN h : Record(k[n]) = Record(h[n]) /\ U[n] = Index!Follow(P[n], x, cut)
    BY <1>2, <2>5
  <2>10. Placed(h, P, tokens, tick, k, U, leaf, m, x)
    BY <1>2, <2>5, <2>6, <2>7, <2>8, <2>9 DEF Placed, cut
  <2> QED BY <2>3, <2>10 DEF m, d
<1> QED BY <1>4, <1>5

-----------------------------------------------------------------------------
(* Pruning *)

\* The paths of the nodes that are left.
Left(P, g) == [n \in DOMAIN g |-> P[n]]

\* Where the loop of prune_empty_leaves_locked stands, on its way up from the node e: what
\* it has removed was on this way and needed by nothing, and nothing is left below it.
Climbed(h, P, e, g, n) ==
    /\ Tree(g, Left(P, g)) /\ DOMAIN g \subseteq DOMAIN h
    /\ \A m \in DOMAIN g : Record(g[m]) = Record(h[m])
    /\ n \in DOMAIN g /\ P[n] \sqsubseteq P[e]
    /\ \A m \in DOMAIN g : P[m] \sqsubseteq P[e] => P[m] \sqsubseteq P[n]
    /\ \A m \in DOMAIN h \ DOMAIN g :
           /\ m # root_ /\ h[m].ref_count = 0 /\ h[m].seq_ids = {} /\ P[m] \sqsubseteq P[e]
           /\ \A q \in DOMAIN g : ~ (P[m] \sqsubseteq P[q])

\* An iteration removes a leaf and goes on with its parent.
LEMMA ClimbFacts ==
    ASSUME NEW h, NEW P, Tree(h, P), NEW e \in DOMAIN h, NEW g, NEW n, Climbed(h, P, e, g, n),
           Prunable(g, n)
    PROVE  /\ Climbed(h, P, e, Unlinked(g, n), g[n].parent)
           /\ DOMAIN Unlinked(g, n) = DOMAIN g \ {n}
<1>1. /\ Tree(g, Left(P, g)) /\ DOMAIN g \subseteq DOMAIN h
      /\ \A m \in DOMAIN g : Record(g[m]) = Record(h[m])
      /\ n \in DOMAIN g /\ P[n] \sqsubseteq P[e]
      /\ \A m \in DOMAIN g : P[m] \sqsubseteq P[e] => P[m] \sqsubseteq P[n]
      /\ \A m \in DOMAIN h \ DOMAIN g :
             /\ m # root_ /\ h[m].ref_count = 0 /\ h[m].seq_ids = {} /\ P[m] \sqsubseteq P[e]
             /\ \A q \in DOMAIN g : ~ (P[m] \sqsubseteq P[q])
  BY DEF Climbed
<1>2. n # root_ /\ g[n].ref_count = 0 /\ g[n].seq_ids = {} /\ DOMAIN g[n].children = {}
  BY DEF Prunable
<1> DEFINE a == g[n].parent
           k == Unlinked(g, n)
           L == Left(P, g)
<1>3. \A m \in DOMAIN g : L[m] = P[m]
  BY DEF Left
<1>4. /\ Tree(k, [m \in DOMAIN g \ {n} |-> L[m]]) /\ DOMAIN k = DOMAIN g \ {n}
      /\ \A m \in DOMAIN k : Record(k[m]) = Record(g[m])
      /\ a \in DOMAIN k
  <2> HIDE DEF L
  <2>1. Tree(g, L)
    BY <1>1 DEF L
  <2> QED BY <1>1, <1>2, <2>1, UnlinkTree
<1>5. [m \in DOMAIN g \ {n} |-> L[m]] = Left(P, k)
  <2> HIDE DEF L, k
  <2> QED BY <1>3, <1>4 DEF Left
<1> HIDE DEF L, k
<1>6. Tree(g, L)
  BY <1>1 DEF L
<1>7. Edge(g, L, n)
  BY <1>1, <1>2, <1>6, EdgeFacts
<1>8. a \in DOMAIN g /\ P[a] \sqsubseteq P[n]
  BY <1>1, <1>3, <1>7 DEF Edge
<1>9. \A m \in DOMAIN h : P[m] \in Seq(Token)
  BY PathType
<1>10. P[a] \sqsubseteq P[e]
  <2> HIDE DEF a
  <2>1. P[a] \in Seq(Token) /\ P[n] \in Seq(Token) /\ P[e] \in Seq(Token)
    BY <1>1, <1>8, <1>9
  <2> QED BY <1>1, <1>8, <2>1, PrefixChain
<1>11. ASSUME NEW m \in DOMAIN k, P[m] \sqsubseteq P[e] PROVE P[m] \sqsubseteq P[a]
  <2>1. m \in DOMAIN g /\ m # n /\ P[m] \sqsubseteq P[n]
    BY <1>1, <1>4, <1>11
  <2>2. L[m] \sqsubseteq L[n]
    BY <1>1, <1>3, <2>1
  <2>3. L[m] \sqsubseteq L[a]
    BY <1>1, <1>6, <2>1, <2>2, PrefixOfParent
  <2> QED BY <1>3, <1>8, <2>1, <2>3
<1>12. ASSUME NEW q \in DOMAIN k PROVE ~ (P[n] \sqsubseteq P[q])
  <2>1. SUFFICES ASSUME P[n] \sqsubseteq P[q] PROVE FALSE
    OBVIOUS
  <2>2. q \in DOMAIN g /\ q # n /\ L[n] \sqsubseteq L[q]
    BY <1>1, <1>3, <1>4, <2>1
  <2>3. Towards(g, L, n, q)
    BY <1>1, <1>6, <2>2, ChildOnPath
  <2> QED BY <1>2, <2>3 DEF Towards
<1>13. h[n].ref_count = 0 /\ h[n].seq_ids = {}
  <2>1. Record(g[n]) = Record(h[n])
    BY <1>1
  <2> QED BY <1>2, <2>1 DEF Record
<1>14. ASSUME NEW m \in DOMAIN h \ DOMAIN k
       PROVE  /\ m # root_ /\ h[m].ref_count = 0 /\ h[m].seq_ids = {} /\ P[m] \sqsubseteq P[e]
              /\ \A q \in DOMAIN k : ~ (P[m] \sqsubseteq P[q])
  <2>1. CASE m = n
    BY <1>1, <1>2, <1>12, <1>13, <2>1
  <2>2. CASE m # n
    BY <1>1, <1>4, <2>2
  <2> QED BY <2>1, <2>2
<1>15. \A m \in DOMAIN k : Record(k[m]) = Record(h[m])
  BY <1>1, <1>4
<1>16. Tree(k, Left(P, k)) /\ DOMAIN k \subseteq DOMAIN h
  BY <1>1, <1>4, <1>5
<1>17. Climbed(h, P, e, k, a)
  BY <1>4, <1>10, <1>11, <1>14, <1>15, <1>16 DEF Climbed
<1> QED BY <1>4, <1>17 DEF k

\* The loop ends when its node is needed, and then it has removed what the tree of paths
\* says: every node on the way below which nothing is left.
LEMMA ClimbEnds ==
    ASSUME NEW h, NEW P, Tree(h, P), NEW e \in DOMAIN h, NEW g, NEW n, Climbed(h, P, e, g, n),
           ~ Prunable(g, n), NEW t, IsBar(t, h, P)
    PROVE  IsBar(Index!prune_empty_leaves(t, P[e]), g, Left(P, g))
<1>1. /\ Tree(g, Left(P, g)) /\ DOMAIN g \subseteq DOMAIN h
      /\ \A m \in DOMAIN g : Record(g[m]) = Record(h[m])
      /\ n \in DOMAIN g /\ P[n] \sqsubseteq P[e]
      /\ \A m \in DOMAIN g : P[m] \sqsubseteq P[e] => P[m] \sqsubseteq P[n]
      /\ \A m \in DOMAIN h \ DOMAIN g :
             /\ m # root_ /\ h[m].ref_count = 0 /\ h[m].seq_ids = {} /\ P[m] \sqsubseteq P[e]
             /\ \A q \in DOMAIN g : ~ (P[m] \sqsubseteq P[q])
  BY DEF Climbed
<1>2. DOMAIN t = {P[m] : m \in DOMAIN h} /\ \A m \in DOMAIN h : t[P[m]] = Record(h[m])
  BY DEF IsBar
<1>3. \A m \in DOMAIN h : /\ P[m] \in Seq(Token) /\ Len(P[m]) \in Nat
                          /\ m = root_ <=> P[m] = << >>
  BY PathType
<1>4. ASSUME NEW m \in DOMAIN h
      PROVE  Index!Dead(t[P[m]]) <=> h[m].ref_count = 0 /\ h[m].seq_ids = {}
  <2>1. t[P[m]] = Record(h[m])
    BY <1>2
  <2>2. Record(h[m]).ref_count = h[m].ref_count /\ Record(h[m]).seq_ids = h[m].seq_ids
    BY DEF Record
  <2> QED BY <2>1, <2>2 DEF Index!Dead
<1> DEFINE Gone == Index!Prunable(t, P[e])
<1>5. \A p : p \in Gone <=>
          /\ p \in DOMAIN t /\ p # << >> /\ p \sqsubseteq P[e]
          /\ \A q \in DOMAIN t : p \sqsubseteq q => Index!Dead(t[q]) /\ q \sqsubseteq P[e]
  BY DEF Index!Prunable, \sqsubseteq, Index!Root
<1> HIDE DEF Gone
<1>6. ASSUME NEW m \in DOMAIN h \ DOMAIN g PROVE P[m] \in Gone
  <2>1. P[m] \in DOMAIN t /\ P[m] # << >> /\ P[m] \sqsubseteq P[e]
    BY <1>1, <1>2, <1>3
  <2>2. ASSUME NEW q \in DOMAIN t, P[m] \sqsubseteq q
        PROVE  Index!Dead(t[q]) /\ q \sqsubseteq P[e]
    <3>1. PICK i \in DOMAIN h : q = P[i]
      BY <1>2
    <3>2. i \notin DOMAIN g
      BY <1>1, <2>2, <3>1
    <3> QED BY <1>1, <1>4, <3>1, <3>2
  <2> QED BY <1>5, <2>1, <2>2
<1>7. ASSUME NEW m \in DOMAIN g, P[m] \in Gone PROVE FALSE
  <2>1. /\ m \in DOMAIN h /\ P[m] # << >> /\ P[m] \sqsubseteq P[e]
        /\ \A q \in DOMAIN h : P[m] \sqsubseteq P[q] =>
               h[q].ref_count = 0 /\ h[q].seq_ids = {} /\ P[q] \sqsubseteq P[e]
    BY <1>1, <1>2, <1>4, <1>5, <1>7
  <2>2. P[m] \sqsubseteq P[n] /\ n \in DOMAIN h
    BY <1>1, <2>1
  <2>3. n # root_
    <3>1. SUFFICES ASSUME n = root_ PROVE FALSE
      OBVIOUS
    <3>2. P[n] = << >> /\ P[m] \in Seq(Token)
      BY <1>3, <2>1, <2>2, <3>1
    <3>3. Len(P[m]) <= Len(P[n]) /\ Len(P[n]) = 0
      BY <1>3, <2>2, <3>2, PrefixOrder
    <3>4. Len(P[m]) = 0
      BY <1>3, <2>1, <3>3
    <3> QED BY <2>1, <3>2, <3>4, EmptySeq
  <2>4. g[n].ref_count = 0 /\ g[n].seq_ids = {}
    <3>1. h[n].ref_count = 0 /\ h[n].seq_ids = {} /\ Record(g[n]) = Record(h[n])
      BY <1>1, <2>1, <2>2
    <3> QED BY <3>1 DEF Record
  <2>5. PICK key \in DOMAIN g[n].children : TRUE
    BY <2>3, <2>4 DEF Prunable
  <2> DEFINE c == g[n].children[key]
  <2>6. c \in DOMAIN g /\ c # root_ /\ g[c].parent = n
    BY <1>1, ChildFacts
  <2> HIDE DEF c
  <2>7. Edge(g, Left(P, g), c)
    BY <1>1, <2>6, EdgeFacts
  <2>8. P[n] \sqsubseteq P[c] /\ Len(P[n]) < Len(P[c]) /\ c \in DOMAIN h
    BY <1>1, <2>6, <2>7 DEF Edge, Left
  <2>9. P[m] \sqsubseteq P[c]
    <3>1. P[m] \in Seq(Token) /\ P[n] \in Seq(Token) /\ P[c] \in Seq(Token)
      BY <1>3, <2>1, <2>2, <2>8
    <3> QED BY <2>2, <2>8, <3>1, PrefixChain
  <2>10. P[c] \sqsubseteq P[n]
    BY <1>1, <2>1, <2>6, <2>8, <2>9
  <2>11. P[n] \in Seq(Token) /\ P[c] \in Seq(Token) /\ Len(P[n]) \in Nat /\ Len(P[c]) \in Nat
    BY <1>3, <2>2, <2>8
  <2>12. Len(P[c]) <= Len(P[n])
    BY <2>10, <2>11, PrefixOrder
  <2> QED BY <2>8, <2>11, <2>12
<1> DEFINE u == Index!prune_empty_leaves(t, P[e])
<1>8. DOMAIN u = DOMAIN t \ Gone /\ u = [p \in DOMAIN u |-> u[p]] /\ \A p \in DOMAIN u : u[p] = t[p]
  BY DEF Index!prune_empty_leaves, Gone
<1> HIDE DEF u
<1>9. DOMAIN u = {P[m] : m \in DOMAIN g}
  <2>1. ASSUME NEW p \in DOMAIN u PROVE \E m \in DOMAIN g : p = P[m]
    <3>1. PICK m \in DOMAIN h : p = P[m]
      BY <1>2, <1>8
    <3> QED BY <1>6, <1>8, <3>1
  <2>2. ASSUME NEW m \in DOMAIN g PROVE P[m] \in DOMAIN u
    BY <1>1, <1>2, <1>7, <1>8
  <2> QED BY <2>1, <2>2
<1>10. ASSUME NEW m \in DOMAIN g PROVE u[P[m]] = Record(g[m])
  BY <1>1, <1>2, <1>8, <1>9
<1>11. \A m \in DOMAIN g : Left(P, g)[m] = P[m]
  BY DEF Left
<1>12. IsBar(u, g, Left(P, g))
  BY <1>8, <1>9, <1>10, <1>11 DEF IsBar
<1> QED BY <1>12 DEF u

\* The first iterations of the loop of prune_empty_leaves_locked, as a function.
LEMMA ClimbRecursion ==
    ASSUME NEW s, NEW N \in Nat
    PROVE  \E f : f = [k \in 0 .. N |-> IF k = 0 THEN s ELSE Climb(f[k - 1])]
<1> DEFINE Good(f, n) == f[0] = s /\ \A i \in 1 .. n : f[i] = Climb(f[i - 1])
           T == {n \in 0 .. N : \E f : Good(f, n)}
<1>1. 0 \in T
  <2>1. PICK f : f = [i \in 0 .. 0 |-> s]
    OBVIOUS
  <2>2. f[0] = s
    BY <2>1
  <2>3. Good(f, 0)
    BY <2>2
  <2> QED BY <2>3
<1>2. ASSUME NEW n \in 1 .. N, n - 1 \in T PROVE n \in T
  <2>1. PICK f : Good(f, n - 1)
    BY <1>2
  <2>2. PICK g : g = [i \in 0 .. n |-> IF i = n THEN Climb(f[n - 1]) ELSE f[i]]
    OBVIOUS
  <2>3. g[n] = Climb(f[n - 1]) /\ \A i \in 0 .. n - 1 : g[i] = f[i]
    BY <2>2
  <2>4. g[0] = s
    BY <2>1, <2>3
  <2>5. ASSUME NEW i \in 1 .. n PROVE g[i] = Climb(g[i - 1])
    <3>1. i - 1 \in 0 .. n - 1
      OBVIOUS
    <3>2. g[i - 1] = f[i - 1]
      BY <2>3, <3>1
    <3>3. CASE i = n
      BY <2>3, <3>2, <3>3
    <3>4. CASE i # n
      <4>1. i \in 1 .. n - 1 /\ i \in 0 .. n - 1
        BY <3>4
      <4>2. g[i] = f[i] /\ f[i] = Climb(f[i - 1])
        BY <2>1, <2>3, <4>1
      <4> QED BY <3>2, <4>2
    <3> QED BY <3>3, <3>4
  <2>6. Good(g, n)
    BY <2>4, <2>5
  <2>7. n \in 0 .. N
    OBVIOUS
  <2> HIDE DEF Good
  <2> QED BY <2>6, <2>7
<1> HIDE DEF T
<1>3. N \in T
  <2>1. \A n \in 1 .. N : n - 1 \in T => n \in T
    BY <1>2
  <2>2. \A n \in 0 .. N : n \in T
    BY <1>1, <2>1, Induction
  <2> QED BY <2>2
<1>4. PICK f : Good(f, N)
  BY <1>3 DEF T
<1>5. PICK g : g = [k \in 0 .. N |-> f[k]]
  OBVIOUS
<1>6. ASSUME NEW k \in 0 .. N PROVE g[k] = IF k = 0 THEN s ELSE Climb(g[k - 1])
  <2>1. CASE k = 0
    BY <1>4, <1>5, <2>1
  <2>2. CASE k # 0
    <3>1. k \in 1 .. N /\ k - 1 \in 0 .. N
      BY <2>2
    <3>2. g[k] = f[k] /\ g[k - 1] = f[k - 1] /\ f[k] = Climb(f[k - 1])
      BY <1>4, <1>5, <3>1
    <3> QED BY <2>2, <3>2
  <2> QED BY <2>1, <2>2
<1>7. g = [k \in 0 .. N |-> IF k = 0 THEN s ELSE Climb(g[k - 1])]
  <2>1. g = [k \in 0 .. N |-> g[k]]
    BY <1>5
  <2> QED BY <1>6, <2>1
<1> QED BY <1>7

\* What pruning leaves: a tree of nodes as they were, without some that nothing needs, and
\* the tree of paths that the operator of module RadixTree gives.
Pruned(h, P, e, g) ==
    /\ Tree(g, Left(P, g)) /\ DOMAIN g \subseteq DOMAIN h
    /\ \A m \in DOMAIN g : Record(g[m]) = Record(h[m])
    /\ \A m \in DOMAIN h \ DOMAIN g : m # root_ /\ h[m].ref_count = 0 /\ h[m].seq_ids = {}
    /\ \A t : IsBar(t, h, P) => IsBar(Index!prune_empty_leaves(t, P[e]), g, Left(P, g))

\* The loop of prune_empty_leaves_locked has ended after as many iterations as there are
\* nodes, for each removes one and the root stays.
LEMMA PruneTree ==
    ASSUME NEW h, NEW P, Tree(h, P), NEW e \in DOMAIN h,
           NEW g, g = prune_empty_leaves_locked(h, e)
    PROVE  Pruned(h, P, e, g)
<1> DEFINE N == Climbs(h)
           s == [heap |-> h, node |-> e]
           R(d) == [k \in 0 .. N |-> IF k = 0 THEN s ELSE Climb(d[k - 1])]
           f == CHOOSE d : d = R(d)
<1>1. IsFiniteSet(DOMAIN h) /\ N \in Nat
  BY FS_CardinalityType DEF Climbs, Tree, Addresses
<1>2. f = R(f)
  <2>1. \E d : d = R(d)
    <3> HIDE DEF N, s
    <3> QED BY <1>1, ClimbRecursion
  <2> HIDE DEF R
  <2> QED BY <2>1
<1>3. g = f[N].heap
  BY DEF prune_empty_leaves_locked
<1> HIDE DEF f, N
<1>4. f[0] = s /\ \A i \in 1 .. N : f[i] = Climb(f[i - 1])
  <2> HIDE DEF s
  <2>1. \A i \in 0 .. N : f[i] = IF i = 0 THEN s ELSE Climb(f[i - 1])
    BY <1>2
  <2> QED BY <1>1, <2>1
<1> DEFINE In(k) == /\ Climbed(h, P, e, f[k].heap, f[k].node)
                    /\ IsFiniteSet(DOMAIN f[k].heap)
                    /\ \/ Cardinality(DOMAIN f[k].heap) + k <= N
                       \/ ~ Prunable(f[k].heap, f[k].node)
           S == {k \in 0 .. N : In(k)}
<1>5. 0 \in S
  <2>1. f[0].heap = h /\ f[0].node = e
    BY <1>4
  <2>2. Left(P, h) = P
    BY DEF Left, Tree, IsPaths
  <2>3. P[e] \sqsubseteq P[e]
    BY PathType, PrefixOrder
  <2>4. Climbed(h, P, e, h, e)
    BY <2>2, <2>3 DEF Climbed
  <2>5. Cardinality(DOMAIN h) + 0 <= N
    BY <1>1 DEF N, Climbs
  <2>6. In(0)
    BY <1>1, <2>1, <2>4, <2>5
  <2> HIDE DEF In
  <2> QED BY <1>1, <2>6
<1>6. ASSUME NEW i \in 1 .. N, i - 1 \in S PROVE i \in S
  <2> DEFINE c == f[i - 1].heap
             n == f[i - 1].node
  <2>1. Climbed(h, P, e, c, n) /\ IsFiniteSet(DOMAIN c)
    BY <1>6
  <2>2. Cardinality(DOMAIN c) + (i - 1) <= N \/ ~ Prunable(c, n)
    BY <1>6
  <2>3. f[i] = Climb(f[i - 1])
    BY <1>4
  <2>4. CASE ~ Prunable(c, n)
    <3>1. f[i] = f[i - 1]
      BY <2>3, <2>4 DEF Climb
    <3>2. In(i)
      BY <2>1, <2>4, <3>1
    <3> HIDE DEF In
    <3> QED BY <3>2
  <2>5. CASE Prunable(c, n)
    <3>1. f[i].heap = Unlinked(c, n) /\ f[i].node = c[n].parent
      BY <2>3, <2>5 DEF Climb
    <3> HIDE DEF c, n
    <3>2. /\ Climbed(h, P, e, f[i].heap, f[i].node)
          /\ DOMAIN f[i].heap = DOMAIN c \ {n}
      BY <2>1, <2>5, <3>1, ClimbFacts
    <3>3. n \in DOMAIN c
      BY <2>1 DEF Climbed
    <3>4. /\ IsFiniteSet(DOMAIN f[i].heap)
          /\ Cardinality(DOMAIN f[i].heap) = Cardinality(DOMAIN c) - 1
      BY <2>1, <3>2, <3>3, FS_RemoveElement
    <3>5. Cardinality(DOMAIN c) \in Nat
      BY <2>1, FS_CardinalityType
    <3>6. Cardinality(DOMAIN f[i].heap) + i <= N
      <4>1. Cardinality(DOMAIN c) + (i - 1) <= N
        BY <2>2, <2>5
      <4>2. \A x \in Nat : \A y : x + (i - 1) <= N /\ y = x - 1 => y + i <= N
        BY <1>1
      <4> QED BY <3>4, <3>5, <4>1, <4>2
    <3>7. In(i)
      BY <3>2, <3>4, <3>6
    <3> HIDE DEF In
    <3> QED BY <3>7
  <2> QED BY <2>4, <2>5
<1> HIDE DEF S, In
<1>7. In(N)
  <2>1. \A i \in 1 .. N : i - 1 \in S => i \in S
    BY <1>6
  <2>2. \A i \in 0 .. N : i \in S
    BY <1>1, <1>5, <2>1, Induction
  <2> QED BY <1>1, <2>2 DEF S
<1> DEFINE n == f[N].node
<1>8. Climbed(h, P, e, g, n) /\ IsFiniteSet(DOMAIN g)
      /\ (Cardinality(DOMAIN g) + N <= N \/ ~ Prunable(g, n))
  BY <1>3, <1>7 DEF In
<1> HIDE DEF n
<1>9. ~ Prunable(g, n)
  <2>1. Cardinality(DOMAIN g) \in Nat /\ DOMAIN g # {}
    <3>1. n \in DOMAIN g
      BY <1>8 DEF Climbed
    <3> QED BY <1>8, <3>1, FS_CardinalityType
  <2>2. Cardinality(DOMAIN g) # 0
    BY <1>8, <2>1, FS_EmptySet
  <2>3. ~ (Cardinality(DOMAIN g) + N <= N)
    BY <1>1, <2>1, <2>2
  <2> QED BY <1>8, <2>3
<1>10. \A t : IsBar(t, h, P) => IsBar(Index!prune_empty_leaves(t, P[e]), g, Left(P, g))
  BY <1>8, <1>9, ClimbEnds
<1>11. /\ Tree(g, Left(P, g)) /\ DOMAIN g \subseteq DOMAIN h
       /\ \A m \in DOMAIN g : Record(g[m]) = Record(h[m])
       /\ \A m \in DOMAIN h \ DOMAIN g : m # root_ /\ h[m].ref_count = 0 /\ h[m].seq_ids = {}
  BY <1>8 DEF Climbed
<1> QED BY <1>10, <1>11 DEF Pruned

-----------------------------------------------------------------------------
(* Searching with a stack *)

\* The nodes at or below a node.
Under(h, P, n) == {m \in DOMAIN h : P[n] \sqsubseteq P[m]}

\* Below a node are the node and what is below its children, each of which has less below it.
LEMMA UnderFacts ==
    ASSUME NEW h, NEW P, Tree(h, P), NEW n \in DOMAIN h
    PROVE  /\ Under(h, P, n) = {n} \cup UNION {Under(h, P, c) : c \in Range(h[n].children)}
           /\ IsFiniteSet(Under(h, P, n)) /\ Cardinality(Under(h, P, n)) \in Nat
           /\ \A c \in Range(h[n].children) :
                  c \in DOMAIN h /\ Cardinality(Under(h, P, c)) < Cardinality(Under(h, P, n))
<1>1. IsFiniteSet(DOMAIN h)
  BY DEF Tree, Addresses
<1>2. \A m \in DOMAIN h : P[m] \in Seq(Token) /\ P[m] \sqsubseteq P[m]
  BY PathType, PrefixOrder
<1>3. \A m \in DOMAIN h : IsFiniteSet(Under(h, P, m)) /\ Cardinality(Under(h, P, m)) \in Nat
  <2> SUFFICES ASSUME NEW m \in DOMAIN h
               PROVE  IsFiniteSet(Under(h, P, m)) /\ Cardinality(Under(h, P, m)) \in Nat
    OBVIOUS
  <2>1. Under(h, P, m) \subseteq DOMAIN h
    BY DEF Under
  <2>2. IsFiniteSet(Under(h, P, m))
    BY <1>1, <2>1, FS_Subset
  <2> QED BY <2>2, FS_CardinalityType
<1>4. ASSUME NEW c \in Range(h[n].children)
      PROVE  /\ c \in DOMAIN h /\ Under(h, P, c) \subseteq Under(h, P, n) /\ n \notin Under(h, P, c)
  <2>1. c \in DOMAIN h /\ c # root_ /\ h[c].parent = n
    BY KidsFacts
  <2>2. Edge(h, P, c)
    BY <2>1, EdgeFacts
  <2>3. P[n] \sqsubseteq P[c] /\ Len(P[n]) < Len(P[c]) /\ Len(P[n]) \in Nat /\ Len(P[c]) \in Nat
    BY <2>1, <2>2 DEF Edge
  <2>4. ASSUME NEW m \in DOMAIN h, P[c] \sqsubseteq P[m] PROVE P[n] \sqsubseteq P[m]
    <3>1. P[n] \in Seq(Token) /\ P[c] \in Seq(Token) /\ P[m] \in Seq(Token)
      BY <1>2, <2>1
    <3> QED BY <2>3, <2>4, <3>1, PrefixChain
  <2>5. ~ (P[c] \sqsubseteq P[n])
    <3>1. P[n] \in Seq(Token) /\ P[c] \in Seq(Token)
      BY <1>2, <2>1
    <3>2. P[c] \sqsubseteq P[n] => Len(P[c]) <= Len(P[n])
      BY <3>1, PrefixOrder
    <3> QED BY <2>3, <3>2
  <2> QED BY <2>1, <2>4, <2>5 DEF Under
<1>5. \A c \in Range(h[n].children) :
          c \in DOMAIN h /\ Cardinality(Under(h, P, c)) < Cardinality(Under(h, P, n))
  <2> SUFFICES ASSUME NEW c \in Range(h[n].children)
               PROVE  c \in DOMAIN h /\ Cardinality(Under(h, P, c)) < Cardinality(Under(h, P, n))
    OBVIOUS
  <2>1. n \in Under(h, P, n)
    BY <1>2 DEF Under
  <2> DEFINE A == Under(h, P, c)
             B == Under(h, P, n)
  <2>2. c \in DOMAIN h /\ A \subseteq B /\ A # B
    BY <1>4, <2>1
  <2>3. IsFiniteSet(B) /\ Cardinality(A) \in Nat /\ Cardinality(B) \in Nat
    BY <1>3, <2>2
  <2> HIDE DEF A, B
  <2>4. Cardinality(A) < Cardinality(B)
    <3>1. Cardinality(A) <= Cardinality(B) /\ (Cardinality(A) = Cardinality(B) => A = B)
      BY <2>2, <2>3, FS_Subset
    <3> QED BY <2>2, <2>3, <3>1
  <2> QED BY <2>2, <2>4 DEF A, B
<1>6. ASSUME NEW m \in Under(h, P, n), m # n
      PROVE  \E c \in Range(h[n].children) : m \in Under(h, P, c)
  <2>1. m \in DOMAIN h /\ P[n] \sqsubseteq P[m]
    BY DEF Under
  <2>2. Towards(h, P, n, m)
    BY <1>6, <2>1, ChildOnPath
  <2> DEFINE t == TokenAfter(P[m], Len(P[n]))
  <2>3. t \in DOMAIN h[n].children /\ P[h[n].children[t]] \sqsubseteq P[m]
    BY <2>2 DEF Towards
  <2> HIDE DEF t
  <2>4. h[n].children[t] \in Range(h[n].children)
    BY <2>3 DEF Range
  <2>5. m \in Under(h, P, h[n].children[t])
    BY <2>1, <2>3 DEF Under
  <2> QED BY <2>4, <2>5
<1>7. n \in Under(h, P, n)
  BY <1>2 DEF Under
<1>8. Under(h, P, n) = {n} \cup UNION {Under(h, P, c) : c \in Range(h[n].children)}
  <2>1. ASSUME NEW m \in Under(h, P, n)
        PROVE  m \in {n} \cup UNION {Under(h, P, c) : c \in Range(h[n].children)}
    BY <1>6
  <2>2. ASSUME NEW m \in {n} \cup UNION {Under(h, P, c) : c \in Range(h[n].children)}
        PROVE  m \in Under(h, P, n)
    BY <1>4, <1>7
  <2> QED BY <2>1, <2>2
<1> QED BY <1>3, <1>5, <1>8

\* A search with a stack from the root meets every node: nothing that is in the heap is
\* lost to eviction and to the counts.
LEMMA SearchedAll ==
    ASSUME NEW h, NEW P, Tree(h, P)
    PROVE  Searched(h, root_) = DOMAIN h
<1> DEFINE R(g) == [n \in DOMAIN h |-> {n} \cup UNION {g[c] : c \in Range(h[n].children)}]
           f == CHOOSE g : g = R(g)
<1>1. PICK D : D = [n \in DOMAIN h |-> Under(h, P, n)]
  OBVIOUS
<1>2. D = R(D)
  <2>1. ASSUME NEW n \in DOMAIN h
        PROVE  D[n] = {n} \cup UNION {D[c] : c \in Range(h[n].children)}
    <3>1. \A c \in Range(h[n].children) : D[c] = Under(h, P, c)
      BY <1>1, UnderFacts
    <3>2. UNION {D[c] : c \in Range(h[n].children)}
            = UNION {Under(h, P, c) : c \in Range(h[n].children)}
      BY <3>1
    <3>3. D[n] = Under(h, P, n)
      BY <1>1
    <3>4. Under(h, P, n) = {n} \cup UNION {Under(h, P, c) : c \in Range(h[n].children)}
      BY UnderFacts
    <3> QED BY <3>2, <3>3, <3>4
  <2> QED BY <1>1, <2>1
<1>3. f = R(f)
  <2>1. \E g : g = R(g)
    BY <1>2
  <2> HIDE DEF R
  <2> QED BY <2>1
<1>4. Searched(h, root_) = f[root_]
  BY DEF Searched
<1> HIDE DEF f
<1>5. \A n \in DOMAIN h : f[n] = {n} \cup UNION {f[c] : c \in Range(h[n].children)}
  BY <1>3
<1>6. root_ \in DOMAIN h
  BY DEF Tree, Addresses
<1>7. ASSUME NEW x \in f[root_], x \notin DOMAIN h PROVE FALSE
  <2> DEFINE T == {k \in Nat : \E n \in DOMAIN h : x \in f[n] /\ k = Cardinality(Under(h, P, n))}
  <2>1. T \in SUBSET Nat /\ T # {}
    BY <1>6, <1>7, UnderFacts
  <2>2. PICK k \in T : \A j \in T : k <= j
    BY <2>1, LeastElement
  <2>3. PICK n \in DOMAIN h : x \in f[n] /\ k = Cardinality(Under(h, P, n))
    BY <2>2
  <2>4. PICK c \in Range(h[n].children) : x \in f[c]
    BY <1>5, <1>7, <2>3
  <2>5. c \in DOMAIN h /\ Cardinality(Under(h, P, c)) < Cardinality(Under(h, P, n))
    BY UnderFacts
  <2>6. Cardinality(Under(h, P, c)) \in Nat /\ Cardinality(Under(h, P, n)) \in Nat
    BY <2>5, UnderFacts
  <2>7. Cardinality(Under(h, P, c)) \in T
    BY <2>4, <2>5, <2>6
  <2> QED BY <2>2, <2>3, <2>5, <2>6, <2>7
<1>8. ASSUME NEW x \in DOMAIN h PROVE x \in f[root_]
  <2> DEFINE T == {k \in Nat : \E n \in DOMAIN h : x \in f[n] /\ k = Len(P[n])}
  <2>1. x \in f[x] /\ Len(P[x]) \in Nat
    BY <1>5, PathType
  <2>2. T \in SUBSET Nat /\ T # {}
    BY <2>1
  <2>3. PICK k \in T : \A j \in T : k <= j
    BY <2>2, LeastElement
  <2>4. PICK n \in DOMAIN h : x \in f[n] /\ k = Len(P[n])
    BY <2>3
  <2>5. ASSUME n # root_ PROVE FALSE
    <3> DEFINE a == h[n].parent
    <3>1. Edge(h, P, n)
      BY <2>5, EdgeFacts
    <3>2. /\ a \in DOMAIN h /\ Len(P[a]) \in Nat /\ Len(P[n]) \in Nat /\ Len(P[a]) < Len(P[n])
      BY <3>1 DEF Edge
    <3>3. n \in Range(h[a].children)
      BY <2>5, <3>2, KidsFacts
    <3> HIDE DEF a
    <3>4. x \in f[a]
      BY <1>5, <2>4, <3>2, <3>3
    <3>5. Len(P[a]) \in T
      BY <3>2, <3>4
    <3> QED BY <2>3, <2>4, <3>2, <3>5
  <2> QED BY <2>4, <2>5
<1> QED BY <1>4, <1>7, <1>8

-----------------------------------------------------------------------------
(* The callers *)

IsCaller(c) ==
    /\ c = [phase |-> c.phase, tokens |-> c.tokens, node |-> c.node, matched |-> c.matched,
            seq |-> c.seq, owner |-> c.owner]
    /\ c.phase \in {"none", "inserted", "pending", "ready", "retiring", "released"}
    /\ c.tokens \in Seq(Token)

\* The callers' pointers lead to nodes.
Callers(h, d) ==
    /\ d = [r \in Requests |-> d[r]]
    /\ \A r \in Requests : IsCaller(d[r]) /\ d[r].node \in DOMAIN h /\ d[r].owner \in DOMAIN h

Having(d, S) == {r \in Requests : d[r].phase \in S}

Holders(d, n) == {r \in Requests : d[r].phase # "none" /\ d[r].node = n}

\* The references to a node are counted.
Counts(h, d) ==
    \A n \in DOMAIN h :
        /\ IsFiniteSet(Holders(d, n))
        /\ h[n].ref_count = Cardinality(Holders(d, n)) + IF n = root_ THEN 1 ELSE 0

\* One caller at most is between insert and register or between extend and release.
OneBusy(d) == \A r, q \in Having(d, {"inserted", "retiring", "released"}) : r = q

\* What a caller holds in each phase: its sequence is at its node, where the node is on the
\* way along its tokens, and only a caller that is retiring has another owner.
Owns(h, P, c) ==
    /\ c.phase \in {"pending", "ready"} => c.owner = c.node /\ c.seq \in h[c.owner].seq_ids
    /\ c.phase = "ready" => c.seq \in h[c.owner].ready_seq_ids
    /\ c.phase \in {"inserted", "pending", "ready"} => P[c.node] \sqsubseteq c.tokens
    /\ c.phase \in {"none", "inserted", "released"} => c.owner = root_
    /\ c.phase = "none" => c.node = root_

\* No two callers have the same sequence.
OwnSeqs(d) ==
    \A r, q \in Having(d, {"pending", "ready", "retiring"}) : d[r].seq = d[q].seq => r = q

HeapInv(h, P, d) ==
    /\ Tree(h, P) /\ Callers(h, d) /\ Counts(h, d) /\ OneBusy(d)
    /\ \A r \in Requests : Owns(h, P, d[r])
    /\ OwnSeqs(d)

\* A caller that holds a node keeps its reference count above zero.
LEMMA HeldNode ==
    ASSUME NEW h, NEW d, Counts(h, d), NEW r \in Requests, d[r].phase # "none",
           d[r].node \in DOMAIN h
    PROVE  h[d[r].node].ref_count > 0
<1> DEFINE n == d[r].node
           S == Holders(d, n)
<1>1. IsFiniteSet(S) /\ h[n].ref_count = Cardinality(S) + IF n = root_ THEN 1 ELSE 0
  BY DEF Counts
<1>2. r \in S
  BY DEF Holders
<1> HIDE DEF S, n
<1>3. Cardinality(S) \in Nat /\ Cardinality(S) # 0
  BY <1>1, <1>2, FS_CardinalityType, FS_EmptySet
<1>4. h[n].ref_count > 0
  <2>1. CASE n = root_
    BY <1>1, <1>3, <2>1
  <2>2. CASE n # root_
    BY <1>1, <1>3, <2>2
  <2> QED BY <2>1, <2>2
<1> QED BY <1>4 DEF n

\* What a walk with its leaf does disturbs no caller: a split keeps the node at its address
\* and only shortens its path.
LEMMA PlaceInv ==
    ASSUME NEW h, NEW P, NEW d, HeapInv(h, P, d), NEW tokens \in Seq(Token), NEW tick,
           NEW g, NEW Q, NEW node, NEW m, NEW x, Placed(h, P, tokens, tick, g, Q, node, m, x)
    PROVE  HeapInv(g, Q, d)
<1>1. /\ Tree(h, P) /\ Callers(h, d) /\ Counts(h, d) /\ OneBusy(d) /\ OwnSeqs(d)
      /\ \A r \in Requests : Owns(h, P, d[r])
  BY DEF HeapInv
<1> DEFINE cut == SubSeq(tokens, 1, m)
<1>2. /\ Tree(g, Q) /\ DOMAIN h \subseteq DOMAIN g /\ Fresh(h, g) /\ m \in 0 .. Len(tokens)
      /\ \A n \in DOMAIN h : Record(g[n]) = Record(h[n]) /\ Q[n] = Index!Follow(P[n], x, cut)
      /\ \A t : IsBar(t, h, P) => Index!EdgeNode(t, cut, x)
  BY DEF Placed
<1>3. cut \in Seq(Token)
  BY <1>2, PrefixFacts
<1> HIDE DEF cut
<1>4. cut \sqsubseteq x
  <2>1. Index!EdgeNode(Bar(h, P), cut, x)
    BY <1>1, <1>2, BarFacts
  <2> QED BY <2>1 DEF Index!EdgeNode, \sqsubseteq
<1>5. \A r \in Requests : IsCaller(d[r]) /\ d[r].node \in DOMAIN h /\ d[r].owner \in DOMAIN h
  BY <1>1 DEF Callers
<1>6. Callers(g, d)
  BY <1>1, <1>2 DEF Callers
<1>7. \A n \in DOMAIN h : /\ g[n].ref_count = h[n].ref_count /\ g[n].seq_ids = h[n].seq_ids
                          /\ g[n].ready_seq_ids = h[n].ready_seq_ids
  BY <1>2 DEF Record
<1>8. Counts(g, d)
  <2> SUFFICES ASSUME NEW n \in DOMAIN g
               PROVE  /\ IsFiniteSet(Holders(d, n))
                      /\ g[n].ref_count = Cardinality(Holders(d, n)) + IF n = root_ THEN 1 ELSE 0
    BY DEF Counts
  <2>1. CASE n \in DOMAIN h
    BY <1>1, <1>7, <2>1 DEF Counts
  <2>2. CASE n \notin DOMAIN h
    <3>1. Holders(d, n) = {} /\ g[n].ref_count = 0
      BY <1>2, <1>5, <2>2 DEF Holders, Fresh
    <3>2. n # root_
      BY <1>1, <2>2 DEF Tree, Addresses
    <3> QED BY <3>1, <3>2, FS_EmptySet
  <2> QED BY <2>1, <2>2
<1>9. ASSUME NEW r \in Requests PROVE Owns(g, Q, d[r])
  <2>1. /\ Owns(h, P, d[r]) /\ d[r].node \in DOMAIN h /\ d[r].owner \in DOMAIN h
        /\ d[r].tokens \in Seq(Token)
    BY <1>1, <1>5 DEF IsCaller
  <2>2. ASSUME P[d[r].node] \sqsubseteq d[r].tokens PROVE Q[d[r].node] \sqsubseteq d[r].tokens
    <3> DEFINE p == P[d[r].node]
    <3>1. Q[d[r].node] = Index!Follow(p, x, cut) /\ p \in Seq(Token)
      BY <1>1, <1>2, <2>1, PathType
    <3> HIDE DEF p
    <3>2. CASE p = x
      <4>1. cut \sqsubseteq p /\ p \sqsubseteq d[r].tokens
        BY <1>4, <2>2, <3>2 DEF p
      <4>2. cut \sqsubseteq d[r].tokens
        BY <1>3, <2>1, <3>1, <4>1, PrefixChain
      <4>3. Q[d[r].node] = cut
        BY <3>1, <3>2 DEF Index!Follow
      <4> QED BY <4>2, <4>3
    <3>3. CASE p # x
      BY <2>2, <3>1, <3>3 DEF Index!Follow, p
    <3> QED BY <3>2, <3>3
  <2> QED BY <1>7, <2>1, <2>2 DEF Owns
<1> QED BY <1>1, <1>2, <1>6, <1>8, <1>9 DEF HeapInv

\* Pruning removes no node that a caller holds, unless one is retiring.
LEMMA PruneInv ==
    ASSUME NEW h, NEW P, NEW d, HeapInv(h, P, d), Having(d, {"retiring"}) = {},
           NEW e \in DOMAIN h, NEW g, Pruned(h, P, e, g)
    PROVE  HeapInv(g, Left(P, g), d)
<1>1. /\ Tree(h, P) /\ Callers(h, d) /\ Counts(h, d) /\ OneBusy(d) /\ OwnSeqs(d)
      /\ \A r \in Requests : Owns(h, P, d[r])
  BY DEF HeapInv
<1>2. /\ Tree(g, Left(P, g)) /\ DOMAIN g \subseteq DOMAIN h
      /\ \A m \in DOMAIN g : Record(g[m]) = Record(h[m])
      /\ \A m \in DOMAIN h \ DOMAIN g : m # root_ /\ h[m].ref_count = 0 /\ h[m].seq_ids = {}
  BY DEF Pruned
<1>3. \A r \in Requests : IsCaller(d[r]) /\ d[r].node \in DOMAIN h /\ d[r].owner \in DOMAIN h
  BY <1>1 DEF Callers
<1>4. root_ \in DOMAIN g
  BY <1>2 DEF Tree, Addresses
<1>5. ASSUME NEW r \in Requests PROVE d[r].node \in DOMAIN g /\ d[r].owner \in DOMAIN g
  <2>1. Owns(h, P, d[r]) /\ IsCaller(d[r]) /\ d[r].phase # "retiring"
    BY <1>1, <1>3 DEF Having
  <2>2. d[r].node \in DOMAIN g
    <3>1. CASE d[r].phase = "none"
      BY <1>4, <2>1, <3>1 DEF Owns
    <3>2. CASE d[r].phase # "none"
      <4>1. h[d[r].node].ref_count > 0
        BY <1>1, <1>3, <3>2, HeldNode
      <4>2. h[d[r].node].ref_count # 0
        <5>1. h[d[r].node].ref_count \in Nat
          BY <1>1, <1>3 DEF Tree, Addresses, Fields
        <5> QED BY <4>1, <5>1
      <4> QED BY <1>2, <1>3, <4>2
    <3> QED BY <3>1, <3>2
  <2>3. d[r].owner = root_ \/ d[r].owner = d[r].node
    BY <2>1 DEF Owns, IsCaller
  <2> QED BY <1>4, <2>2, <2>3
<1>6. Callers(g, d)
  BY <1>1, <1>5 DEF Callers
<1>7. \A n \in DOMAIN g : /\ g[n].ref_count = h[n].ref_count /\ g[n].seq_ids = h[n].seq_ids
                          /\ g[n].ready_seq_ids = h[n].ready_seq_ids
  BY <1>2 DEF Record
<1>8. Counts(g, d)
  BY <1>1, <1>2, <1>7 DEF Counts
<1>9. ASSUME NEW r \in Requests PROVE Owns(g, Left(P, g), d[r])
  <2>1. Owns(h, P, d[r]) /\ d[r].node \in DOMAIN g /\ d[r].owner \in DOMAIN g
    BY <1>1, <1>5
  <2>2. Left(P, g)[d[r].node] = P[d[r].node]
    BY <2>1 DEF Left
  <2> QED BY <1>7, <2>1, <2>2 DEF Owns
<1> QED BY <1>1, <1>2, <1>6, <1>8, <1>9 DEF HeapInv

Busy == {"inserted", "retiring", "released"}

\* A step of one caller.
Becomes(d, r, c, e) == e = [d EXCEPT ![r] = c]

\* The heap g is h but for the sequence q.
Resequenced(h, P, g, q) ==
    /\ Tree(g, P) /\ DOMAIN g = DOMAIN h
    /\ \A n \in DOMAIN h : /\ g[n].ref_count = h[n].ref_count
                           /\ h[n].seq_ids \subseteq g[n].seq_ids \cup {q}
                           /\ h[n].ready_seq_ids \subseteq g[n].ready_seq_ids \cup {q}

\* What the caller r holds becomes c, in the heap g.
Goes(h, P, d, r, g, c) ==
    /\ IsCaller(c) /\ c.phase # "none" /\ c.node = d[r].node /\ c.owner \in DOMAIN h
    /\ Owns(g, P, c)
    /\ \A q \in Having(d, {"pending", "ready", "retiring"}) : q # r => d[q].seq # c.seq

\* A step of one caller that keeps its node: the others keep their sequences, because no
\* other caller has the one that the step is about.
LEMMA CallerInv ==
    ASSUME NEW h, NEW P, NEW d, HeapInv(h, P, d), NEW r \in Requests, d[r].phase # "none",
           d[r].phase \in Busy \/ Having(d, Busy) = {},
           NEW c, NEW g, Resequenced(h, P, g, c.seq), Goes(h, P, d, r, g, c),
           NEW e, Becomes(d, r, c, e)
    PROVE  HeapInv(g, P, e)
<1> e = [d EXCEPT ![r] = c]
  BY DEF Becomes
<1> /\ Tree(g, P) /\ DOMAIN g = DOMAIN h
    /\ IsCaller(c) /\ c.phase # "none" /\ c.node = d[r].node /\ c.owner \in DOMAIN h
    /\ Owns(g, P, c)
    /\ \A q \in Having(d, {"pending", "ready", "retiring"}) : q # r => d[q].seq # c.seq
    /\ \A n \in DOMAIN h : /\ g[n].ref_count = h[n].ref_count
                           /\ h[n].seq_ids \subseteq g[n].seq_ids \cup {c.seq}
                           /\ h[n].ready_seq_ids \subseteq g[n].ready_seq_ids \cup {c.seq}
  BY DEF Resequenced, Goes
<1>1. /\ Tree(h, P) /\ Callers(h, d) /\ Counts(h, d) /\ OneBusy(d) /\ OwnSeqs(d)
      /\ \A q \in Requests : Owns(h, P, d[q])
  BY DEF HeapInv
<1>2. d = [q \in Requests |-> d[q]]
      /\ \A q \in Requests : IsCaller(d[q]) /\ d[q].node \in DOMAIN h /\ d[q].owner \in DOMAIN h
  BY <1>1 DEF Callers
<1>3. e = [q \in Requests |-> e[q]] /\ e[r] = c /\ \A q \in Requests : q # r => e[q] = d[q]
  BY <1>2
<1>4. Callers(g, e)
  BY <1>2, <1>3 DEF Callers
<1>5. \A n : Holders(e, n) = Holders(d, n)
  BY <1>3 DEF Holders
<1>6. Counts(g, e)
  BY <1>1, <1>5 DEF Counts
<1>7. OneBusy(e)
  <2> SUFFICES ASSUME NEW a \in Having(e, Busy), NEW b \in Having(e, Busy), a # b PROVE FALSE
    BY DEF OneBusy, Busy
  <2>1. \A q \in Requests : q # r /\ q \in Having(e, Busy) => q \in Having(d, Busy)
    BY <1>3 DEF Having
  <2>2. a \in Requests /\ b \in Requests
    BY DEF Having
  <2>3. \E q \in Having(d, Busy) : q # r
    BY <2>1, <2>2
  <2>4. r \in Having(d, Busy)
    BY <2>3 DEF Having
  <2> QED BY <1>1, <2>3, <2>4 DEF OneBusy, Busy
<1>8. ASSUME NEW q \in Requests PROVE Owns(g, P, e[q])
  <2>1. CASE q = r
    BY <1>3, <2>1
  <2>2. CASE q # r
    <3>1. Owns(h, P, d[q]) /\ d[q].owner \in DOMAIN h /\ e[q] = d[q]
      BY <1>1, <1>2, <1>3, <2>2
    <3>2. d[q].phase \in {"pending", "ready"} => d[q].seq # c.seq
      BY <2>2 DEF Having
    <3> QED BY <3>1, <3>2 DEF Owns
  <2> QED BY <2>1, <2>2
<1>9. OwnSeqs(e)
  <2> SUFFICES ASSUME NEW a \in Having(e, {"pending", "ready", "retiring"}),
                      NEW b \in Having(e, {"pending", "ready", "retiring"}),
                      e[a].seq = e[b].seq, a # b
               PROVE  FALSE
    BY DEF OwnSeqs
  <2>1. a \in Requests /\ b \in Requests
    BY DEF Having
  <2>2. \A q \in {a, b} : q # r => q \in Having(d, {"pending", "ready", "retiring"}) /\ e[q] = d[q]
    BY <1>3, <2>1 DEF Having
  <2>3. CASE a = r
    BY <1>3, <2>2, <2>3
  <2>4. CASE b = r
    BY <1>3, <2>2, <2>4
  <2>5. CASE a # r /\ b # r
    BY <1>1, <2>2, <2>5 DEF OwnSeqs
  <2> QED BY <2>3, <2>4, <2>5
<1> QED BY <1>1, <1>4, <1>6, <1>7, <1>8, <1>9 DEF HeapInv

\* The heap g is h with another reference count at a node.
Recounted(h, P, g, node, count) ==
    /\ Tree(g, P) /\ DOMAIN g = DOMAIN h /\ node \in DOMAIN h /\ g[node].ref_count = count
    /\ \A n \in DOMAIN h : /\ n # node => g[n] = h[n]
                           /\ h[n].seq_ids = g[n].seq_ids
                           /\ h[n].ready_seq_ids = g[n].ready_seq_ids

\* What a caller holds after insert.
HasInserted(c, node, P) ==
    /\ IsCaller(c) /\ c.phase = "inserted" /\ c.node = node /\ c.owner = root_
    /\ P[node] \sqsubseteq c.tokens

\* Insert: a caller that had nothing gets a reference to the node of its tokens.
LEMMA InsertInv ==
    ASSUME NEW h, NEW P, NEW d, HeapInv(h, P, d), NEW r \in Requests, d[r].phase = "none",
           Having(d, Busy) = {}, NEW node, NEW c, HasInserted(c, node, P),
           NEW g, Recounted(h, P, g, node, h[node].ref_count + 1),
           NEW e, Becomes(d, r, c, e)
    PROVE  HeapInv(g, P, e)
<1> e = [d EXCEPT ![r] = c]
  BY DEF Becomes
<1> /\ IsCaller(c) /\ c.phase = "inserted" /\ c.node = node /\ c.owner = root_
      /\ P[node] \sqsubseteq c.tokens
      /\ node \in DOMAIN h /\ Tree(g, P) /\ DOMAIN g = DOMAIN h
      /\ g[node].ref_count = h[node].ref_count + 1
      /\ \A n \in DOMAIN h : /\ n # node => g[n] = h[n]
                             /\ h[n].seq_ids = g[n].seq_ids
                             /\ h[n].ready_seq_ids = g[n].ready_seq_ids
  BY DEF HasInserted, Recounted
<1>1. /\ Tree(h, P) /\ Callers(h, d) /\ Counts(h, d) /\ OneBusy(d) /\ OwnSeqs(d)
      /\ \A q \in Requests : Owns(h, P, d[q])
  BY DEF HeapInv
<1>2. d = [q \in Requests |-> d[q]]
      /\ \A q \in Requests : IsCaller(d[q]) /\ d[q].node \in DOMAIN h /\ d[q].owner \in DOMAIN h
  BY <1>1 DEF Callers
<1>3. e = [q \in Requests |-> e[q]] /\ e[r] = c /\ \A q \in Requests : q # r => e[q] = d[q]
  BY <1>2
<1>4. Callers(g, e)
  <2>1. root_ \in DOMAIN h
    BY <1>1 DEF Tree, Addresses
  <2> QED BY <1>2, <1>3, <2>1 DEF Callers
<1>5. /\ \A n : n # node => Holders(e, n) = Holders(d, n)
      /\ Holders(e, node) = Holders(d, node) \cup {r} /\ r \notin Holders(d, node)
  BY <1>3 DEF Holders
<1>6. Counts(g, e)
  <2> SUFFICES ASSUME NEW n \in DOMAIN g
               PROVE  /\ IsFiniteSet(Holders(e, n))
                      /\ g[n].ref_count = Cardinality(Holders(e, n)) + IF n = root_ THEN 1 ELSE 0
    BY DEF Counts
  <2>1. /\ IsFiniteSet(Holders(d, n))
        /\ h[n].ref_count = Cardinality(Holders(d, n)) + IF n = root_ THEN 1 ELSE 0
    BY <1>1 DEF Counts
  <2>2. CASE n # node
    BY <1>5, <2>1, <2>2
  <2>3. CASE n = node
    <3> DEFINE A == Holders(d, node)
               B == Holders(e, node)
    <3>1. IsFiniteSet(A) /\ B = A \cup {r} /\ r \notin A
      BY <1>5, <2>1, <2>3
    <3> HIDE DEF A, B
    <3>2. IsFiniteSet(B) /\ Cardinality(B) = Cardinality(A) + 1 /\ Cardinality(A) \in Nat
      BY <3>1, FS_AddElement, FS_CardinalityType
    <3>3. g[n].ref_count = Cardinality(B) + IF n = root_ THEN 1 ELSE 0
      <4>1. h[n].ref_count = Cardinality(A) + IF n = root_ THEN 1 ELSE 0
        BY <2>1, <2>3 DEF A
      <4> QED BY <2>3, <3>2, <4>1
    <3> QED BY <2>3, <3>2, <3>3 DEF B
  <2> QED BY <2>2, <2>3
<1>7. OneBusy(e)
  BY <1>3 DEF OneBusy, Having, Busy
<1>8. ASSUME NEW q \in Requests PROVE Owns(g, P, e[q])
  <2>1. CASE q = r
    BY <1>3, <2>1 DEF Owns
  <2>2. CASE q # r
    <3>1. Owns(h, P, d[q]) /\ d[q].owner \in DOMAIN h /\ e[q] = d[q]
      BY <1>1, <1>2, <1>3, <2>2
    <3> QED BY <3>1 DEF Owns
  <2> QED BY <2>1, <2>2
<1>9. OwnSeqs(e)
  <2>1. \A q \in Having(e, {"pending", "ready", "retiring"}) :
            q \in Having(d, {"pending", "ready", "retiring"}) /\ e[q] = d[q]
    BY <1>3 DEF Having
  <2> QED BY <1>1, <2>1 DEF OwnSeqs
<1> QED BY <1>1, <1>4, <1>6, <1>7, <1>8, <1>9 DEF HeapInv

\* Release: a caller gives its reference back and has nothing any more.
LEMMA ReleaseInv ==
    ASSUME NEW h, NEW P, NEW d, HeapInv(h, P, d), NEW r \in Requests,
           d[r].phase \in {"inserted", "released"},
           NEW g, Recounted(h, P, g, d[r].node, h[d[r].node].ref_count - 1),
           NEW e, Becomes(d, r, NoHandle, e)
    PROVE  HeapInv(g, P, e) /\ Having(e, {"retiring"}) = {}
<1> e = [d EXCEPT ![r] = NoHandle]
  BY DEF Becomes
<1> /\ Tree(g, P) /\ DOMAIN g = DOMAIN h
      /\ g[d[r].node].ref_count = h[d[r].node].ref_count - 1
      /\ \A n \in DOMAIN h : /\ n # d[r].node => g[n] = h[n]
                             /\ h[n].seq_ids = g[n].seq_ids
                             /\ h[n].ready_seq_ids = g[n].ready_seq_ids
  BY DEF Recounted
<1>1. /\ Tree(h, P) /\ Callers(h, d) /\ Counts(h, d) /\ OneBusy(d) /\ OwnSeqs(d)
      /\ \A q \in Requests : Owns(h, P, d[q])
  BY DEF HeapInv
<1>2. d = [q \in Requests |-> d[q]]
      /\ \A q \in Requests : IsCaller(d[q]) /\ d[q].node \in DOMAIN h /\ d[q].owner \in DOMAIN h
  BY <1>1 DEF Callers
<1>3. e = [q \in Requests |-> e[q]] /\ e[r] = NoHandle /\ \A q \in Requests : q # r => e[q] = d[q]
  BY <1>2
<1>4. /\ NoHandle.phase = "none" /\ NoHandle.node = root_ /\ NoHandle.owner = root_
      /\ IsCaller(NoHandle)
  BY DEF NoHandle, IsCaller
<1> HIDE DEF NoHandle
<1>5. Callers(g, e)
  <2>1. root_ \in DOMAIN h
    BY <1>1 DEF Tree, Addresses
  <2> QED BY <1>2, <1>3, <1>4, <2>1 DEF Callers
<1> DEFINE node == d[r].node
<1>6. /\ \A n : n # node => Holders(e, n) = Holders(d, n)
      /\ Holders(e, node) = Holders(d, node) \ {r} /\ r \in Holders(d, node)
  BY <1>3, <1>4 DEF Holders
<1>7. Counts(g, e)
  <2> SUFFICES ASSUME NEW n \in DOMAIN g
               PROVE  /\ IsFiniteSet(Holders(e, n))
                      /\ g[n].ref_count = Cardinality(Holders(e, n)) + IF n = root_ THEN 1 ELSE 0
    BY DEF Counts
  <2>1. /\ IsFiniteSet(Holders(d, n))
        /\ h[n].ref_count = Cardinality(Holders(d, n)) + IF n = root_ THEN 1 ELSE 0
    BY <1>1 DEF Counts
  <2>2. CASE n # node
    BY <1>6, <2>1, <2>2
  <2>3. CASE n = node
    <3> DEFINE A == Holders(d, node)
               B == Holders(e, node)
    <3>1. IsFiniteSet(A) /\ B = A \ {r} /\ r \in A
      BY <1>6, <2>1, <2>3
    <3> HIDE DEF A, B
    <3>2. IsFiniteSet(B) /\ Cardinality(B) = Cardinality(A) - 1 /\ Cardinality(A) \in Nat
      BY <3>1, FS_RemoveElement, FS_CardinalityType
    <3>3. g[n].ref_count = Cardinality(B) + IF n = root_ THEN 1 ELSE 0
      <4>1. h[n].ref_count = Cardinality(A) + IF n = root_ THEN 1 ELSE 0
        BY <2>1, <2>3 DEF A
      <4> QED BY <2>3, <3>2, <4>1
    <3> QED BY <2>3, <3>2, <3>3 DEF B
  <2> QED BY <2>2, <2>3
<1>8. r \in Having(d, Busy) /\ Having(e, Busy) = {}
  <2>1. r \in Having(d, Busy)
    BY DEF Having, Busy
  <2>2. \A q \in Requests : q # r => q \notin Having(d, Busy)
    BY <1>1, <2>1 DEF OneBusy, Busy
  <2> QED BY <1>3, <1>4, <2>1, <2>2 DEF Having, Busy
<1>9. OneBusy(e) /\ Having(e, {"retiring"}) = {}
  BY <1>8 DEF OneBusy, Having, Busy
<1>10. ASSUME NEW q \in Requests PROVE Owns(g, P, e[q])
  <2>1. CASE q = r
    BY <1>3, <1>4, <2>1 DEF Owns
  <2>2. CASE q # r
    <3>1. Owns(h, P, d[q]) /\ d[q].owner \in DOMAIN h /\ e[q] = d[q]
      BY <1>1, <1>2, <1>3, <2>2
    <3> QED BY <3>1 DEF Owns
  <2> QED BY <2>1, <2>2
<1>11. OwnSeqs(e)
  <2>1. \A q \in Having(e, {"pending", "ready", "retiring"}) :
            q \in Having(d, {"pending", "ready", "retiring"}) /\ e[q] = d[q]
    BY <1>3, <1>4 DEF Having
  <2> QED BY <1>1, <2>1 DEF OwnSeqs
<1> QED BY <1>1, <1>5, <1>7, <1>9, <1>10, <1>11 DEF HeapInv

\* What the tree of paths keeps of a node.
Data(rc, ss, rs, lt, cl) ==
    [ref_count |-> rc, seq_ids |-> ss, ready_seq_ids |-> rs, last_access_tick |-> lt,
     canonical_len |-> cl]

\* A node with other data.
Stepped(h, P, n, rc, ss, rs, lt, cl, g) ==
    /\ Tree(g, P) /\ DOMAIN g = DOMAIN h
    /\ g[n].ref_count = rc /\ g[n].seq_ids = ss /\ g[n].ready_seq_ids = rs
    /\ \A m \in DOMAIN h : m # n => g[m] = h[m]
    /\ \A t : IsBar(t, h, P) => IsBar([t EXCEPT ![P[n]] = Data(rc, ss, rs, lt, cl)], g, P)

\* Evict: an idle node loses its sequences, which no caller has.
LEMMA EvictInv ==
    ASSUME NEW h, NEW P, NEW d, HeapInv(h, P, d), NEW node \in DOMAIN h, h[node].ref_count = 0,
           NEW g, NEW ss, NEW rs, NEW lt, NEW cl, Stepped(h, P, node, 0, ss, rs, lt, cl, g)
    PROVE  HeapInv(g, P, d)
<1> /\ Tree(g, P) /\ DOMAIN g = DOMAIN h /\ g[node].ref_count = h[node].ref_count
    /\ \A n \in DOMAIN h : n # node => g[n] = h[n]
  BY DEF Stepped
<1>1. /\ Tree(h, P) /\ Callers(h, d) /\ Counts(h, d) /\ OneBusy(d) /\ OwnSeqs(d)
      /\ \A q \in Requests : Owns(h, P, d[q])
  BY DEF HeapInv
<1>2. Callers(g, d)
  BY <1>1 DEF Callers
<1>3. Counts(g, d)
  BY <1>1 DEF Counts
<1>4. ASSUME NEW q \in Requests PROVE Owns(g, P, d[q])
  <2>1. Owns(h, P, d[q]) /\ d[q].node \in DOMAIN h
    BY <1>1 DEF Callers
  <2>2. d[q].phase # "none" => d[q].node # node
    <3>1. d[q].phase # "none" => h[d[q].node].ref_count > 0
      BY <1>1, <2>1, HeldNode
    <3> QED BY <3>1
  <2> QED BY <2>1, <2>2 DEF Owns
<1> QED BY <1>1, <1>2, <1>3, <1>4 DEF HeapInv

-----------------------------------------------------------------------------
(* Nodes, their records and callers, field by field *)

\* The node on its edge with this data.
NodeOf(n, rc, ss, rs, lt, cl) ==
    [tokens |-> n.tokens, parent |-> n.parent, children |-> n.children, ref_count |-> rc,
     seq_ids |-> ss, ready_seq_ids |-> rs, last_access_tick |-> lt, canonical_len |-> cl]

Holding(phase, tokens, node, matched, seq, owner) ==
    [phase |-> phase, tokens |-> tokens, node |-> node, matched |-> matched, seq |-> seq,
     owner |-> owner]

\* The data of a node after the calls, field by field.
DataChanges(b, r, x, y, z, w) ==
    LET rc == b.ref_count
        ss == b.seq_ids
        rs == b.ready_seq_ids
        lt == b.last_access_tick
        cl == b.canonical_len
    IN  /\ [b EXCEPT !.ref_count = r] = Data(r, ss, rs, lt, cl)
        /\ [b EXCEPT !.ref_count = r, !.last_access_tick = z] = Data(r, ss, rs, z, cl)
        /\ [b EXCEPT !.ready_seq_ids = y] = Data(rc, ss, y, lt, cl)
        /\ [b EXCEPT !.seq_ids = x, !.canonical_len = w] = Data(rc, x, rs, lt, w)
        /\ [b EXCEPT !.seq_ids = x, !.ready_seq_ids = y, !.canonical_len = w]
             = Data(rc, x, y, lt, w)
        /\ [b EXCEPT !.seq_ids = x, !.ready_seq_ids = y, !.canonical_len = w,
                     !.last_access_tick = z] = Data(rc, x, y, z, w)

\* How the calls change the data of a node.
LEMMA DataExcept ==
    ASSUME NEW b, b = Data(b.ref_count, b.seq_ids, b.ready_seq_ids, b.last_access_tick,
                           b.canonical_len),
           NEW r, NEW x, NEW y, NEW z, NEW w
    PROVE  DataChanges(b, r, x, y, z, w)
<1>0. PICK rc, ss, rs, lt, cl : /\ rc = b.ref_count /\ ss = b.seq_ids /\ rs = b.ready_seq_ids
                                /\ lt = b.last_access_tick /\ cl = b.canonical_len
  OBVIOUS
<1> b = Data(rc, ss, rs, lt, cl)
  BY <1>0
<1> DEFINE D == {"ref_count", "seq_ids", "ready_seq_ids", "last_access_tick", "canonical_len"}
<1>1. DOMAIN b = D
  BY DEF Data
<1>2. [b EXCEPT !.ref_count = r] = Data(r, ss, rs, lt, cl)
  <2>1. [b EXCEPT !.ref_count = r] = [f \in D |-> CASE f = "ref_count" -> r [] OTHER -> b[f]]
    BY <1>1
  <2> QED BY <2>1 DEF Data
<1>3. [b EXCEPT !.ref_count = r, !.last_access_tick = z] = Data(r, ss, rs, z, cl)
  <2>1. [b EXCEPT !.ref_count = r, !.last_access_tick = z]
          = [f \in D |-> CASE f = "ref_count" -> r [] f = "last_access_tick" -> z
                           [] OTHER -> b[f]]
    BY <1>1
  <2> QED BY <2>1 DEF Data
<1>4. [b EXCEPT !.ready_seq_ids = y] = Data(rc, ss, y, lt, cl)
  <2>1. [b EXCEPT !.ready_seq_ids = y]
          = [f \in D |-> CASE f = "ready_seq_ids" -> y [] OTHER -> b[f]]
    BY <1>1
  <2> QED BY <2>1 DEF Data
<1>5. [b EXCEPT !.seq_ids = x, !.canonical_len = w] = Data(rc, x, rs, lt, w)
  <2>1. [b EXCEPT !.seq_ids = x, !.canonical_len = w]
          = [f \in D |-> CASE f = "seq_ids" -> x [] f = "canonical_len" -> w [] OTHER -> b[f]]
    BY <1>1
  <2> QED BY <2>1 DEF Data
<1>6. [b EXCEPT !.seq_ids = x, !.ready_seq_ids = y, !.canonical_len = w]
        = Data(rc, x, y, lt, w)
  <2>1. [b EXCEPT !.seq_ids = x, !.ready_seq_ids = y, !.canonical_len = w]
          = [f \in D |-> CASE f = "seq_ids" -> x [] f = "ready_seq_ids" -> y
                           [] f = "canonical_len" -> w [] OTHER -> b[f]]
    BY <1>1
  <2> QED BY <2>1 DEF Data
<1>7. [b EXCEPT !.seq_ids = x, !.ready_seq_ids = y, !.canonical_len = w,
                !.last_access_tick = z] = Data(rc, x, y, z, w)
  <2>1. [b EXCEPT !.seq_ids = x, !.ready_seq_ids = y, !.canonical_len = w,
                  !.last_access_tick = z]
          = [f \in D |-> CASE f = "seq_ids" -> x [] f = "ready_seq_ids" -> y
                           [] f = "canonical_len" -> w [] f = "last_access_tick" -> z
                           [] OTHER -> b[f]]
    BY <1>1
  <2> QED BY <2>1 DEF Data
<1> QED BY Zenon, <1>0, <1>2, <1>3, <1>4, <1>5, <1>6, <1>7 DEF DataChanges

\* A node after the calls, field by field.
NodeChanges(b, r, x, y, z, w) ==
    /\ [b EXCEPT !.ref_count = r]
         = NodeOf(b, r, b.seq_ids, b.ready_seq_ids, b.last_access_tick, b.canonical_len)
    /\ [b EXCEPT !.ref_count = r, !.last_access_tick = z]
         = NodeOf(b, r, b.seq_ids, b.ready_seq_ids, z, b.canonical_len)
    /\ [b EXCEPT !.ready_seq_ids = y]
         = NodeOf(b, b.ref_count, b.seq_ids, y, b.last_access_tick, b.canonical_len)
    /\ [b EXCEPT !.seq_ids = x, !.canonical_len = w]
         = NodeOf(b, b.ref_count, x, b.ready_seq_ids, b.last_access_tick, w)
    /\ [b EXCEPT !.seq_ids = x, !.ready_seq_ids = y, !.canonical_len = w]
         = NodeOf(b, b.ref_count, x, y, b.last_access_tick, w)
    /\ [b EXCEPT !.seq_ids = x, !.ready_seq_ids = y, !.canonical_len = w,
                 !.last_access_tick = z] = NodeOf(b, b.ref_count, x, y, z, w)

\* How the calls change a node.
LEMMA NodeExcept ==
    ASSUME NEW b, Fields(b), NEW r, NEW x, NEW y, NEW z, NEW w
    PROVE  NodeChanges(b, r, x, y, z, w)
<1> DEFINE D == {"tokens", "parent", "children", "ref_count", "seq_ids", "ready_seq_ids",
                 "last_access_tick", "canonical_len"}
<1>1. DOMAIN b = D
  BY DEF Fields
<1>2. [b EXCEPT !.ref_count = r]
        = NodeOf(b, r, b.seq_ids, b.ready_seq_ids, b.last_access_tick, b.canonical_len)
  <2>1. [b EXCEPT !.ref_count = r] = [f \in D |-> CASE f = "ref_count" -> r [] OTHER -> b[f]]
    BY <1>1
  <2> QED BY <2>1 DEF NodeOf
<1>3. [b EXCEPT !.ref_count = r, !.last_access_tick = z]
        = NodeOf(b, r, b.seq_ids, b.ready_seq_ids, z, b.canonical_len)
  <2>1. [b EXCEPT !.ref_count = r, !.last_access_tick = z]
          = [f \in D |-> CASE f = "ref_count" -> r [] f = "last_access_tick" -> z
                           [] OTHER -> b[f]]
    BY <1>1
  <2> QED BY <2>1 DEF NodeOf
<1>4. [b EXCEPT !.ready_seq_ids = y]
        = NodeOf(b, b.ref_count, b.seq_ids, y, b.last_access_tick, b.canonical_len)
  <2>1. [b EXCEPT !.ready_seq_ids = y]
          = [f \in D |-> CASE f = "ready_seq_ids" -> y [] OTHER -> b[f]]
    BY <1>1
  <2> QED BY <2>1 DEF NodeOf
<1>5. [b EXCEPT !.seq_ids = x, !.canonical_len = w]
        = NodeOf(b, b.ref_count, x, b.ready_seq_ids, b.last_access_tick, w)
  <2>1. [b EXCEPT !.seq_ids = x, !.canonical_len = w]
          = [f \in D |-> CASE f = "seq_ids" -> x [] f = "canonical_len" -> w [] OTHER -> b[f]]
    BY <1>1
  <2> QED BY <2>1 DEF NodeOf
<1>6. [b EXCEPT !.seq_ids = x, !.ready_seq_ids = y, !.canonical_len = w]
        = NodeOf(b, b.ref_count, x, y, b.last_access_tick, w)
  <2>1. [b EXCEPT !.seq_ids = x, !.ready_seq_ids = y, !.canonical_len = w]
          = [f \in D |-> CASE f = "seq_ids" -> x [] f = "ready_seq_ids" -> y
                           [] f = "canonical_len" -> w [] OTHER -> b[f]]
    BY <1>1
  <2> QED BY <2>1 DEF NodeOf
<1>7. [b EXCEPT !.seq_ids = x, !.ready_seq_ids = y, !.canonical_len = w,
                !.last_access_tick = z] = NodeOf(b, b.ref_count, x, y, z, w)
  <2>1. [b EXCEPT !.seq_ids = x, !.ready_seq_ids = y, !.canonical_len = w,
                  !.last_access_tick = z]
          = [f \in D |-> CASE f = "seq_ids" -> x [] f = "ready_seq_ids" -> y
                           [] f = "canonical_len" -> w [] f = "last_access_tick" -> z
                           [] OTHER -> b[f]]
    BY <1>1
  <2> QED BY <2>1 DEF NodeOf
<1> QED BY Zenon, <1>2, <1>3, <1>4, <1>5, <1>6, <1>7 DEF NodeChanges

\* A node with such data is a node on the same edge, and the data is its record.
LEMMA NodeOfFacts ==
    ASSUME NEW n, Fields(n), NEW rc \in Nat, NEW ss, IsFiniteSet(ss), NEW rs, rs \subseteq ss,
           NEW lt \in Nat, NEW cl \in Nat, NEW v, v = NodeOf(n, rc, ss, rs, lt, cl)
    PROVE  /\ SameEdge(v, n) /\ Record(v) = Data(rc, ss, rs, lt, cl)
           /\ v.ref_count = rc /\ v.seq_ids = ss /\ v.ready_seq_ids = rs
           /\ v.last_access_tick = lt /\ v.canonical_len = cl
<1>1. /\ v = [tokens |-> v.tokens, parent |-> v.parent, children |-> v.children,
              ref_count |-> v.ref_count, seq_ids |-> v.seq_ids, ready_seq_ids |-> v.ready_seq_ids,
              last_access_tick |-> v.last_access_tick, canonical_len |-> v.canonical_len]
      /\ v.tokens = n.tokens /\ v.parent = n.parent /\ v.children = n.children
      /\ v.ref_count = rc /\ v.seq_ids = ss /\ v.ready_seq_ids = rs
      /\ v.last_access_tick = lt /\ v.canonical_len = cl
  BY DEF NodeOf
<1>2. Fields(v)
  BY <1>1 DEF Fields
<1>3. Record(v) = Data(rc, ss, rs, lt, cl)
  BY <1>1 DEF Record, Data
<1> QED BY <1>1, <1>2, <1>3 DEF SameEdge

\* What a caller holds, with paths for pointers.
CallerBar(c, P) == [c EXCEPT !.node = P[@], !.owner = P[@]]

HeldBar(d, P) == [r \in Requests |-> CallerBar(d[r], P)]

\* What a caller holds after the calls, field by field.
HoldingChanges(b, x, y, z) ==
    LET ph == b.phase
        to == b.tokens
        no == b.node
        ma == b.matched
        se == b.seq
        ow == b.owner
    IN  /\ [b EXCEPT !.phase = x] = Holding(x, to, no, ma, se, ow)
        /\ [b EXCEPT !.phase = x, !.owner = z] = Holding(x, to, no, ma, se, z)
        /\ [b EXCEPT !.phase = x, !.seq = y, !.owner = z] = Holding(x, to, no, ma, y, z)
        /\ [b EXCEPT !.phase = x, !.tokens = y, !.owner = z] = Holding(x, y, no, ma, se, z)
        /\ [b EXCEPT !.node = y, !.owner = z] = Holding(ph, to, y, ma, se, z)

\* How the calls change what a caller holds.
LEMMA HoldingExcept ==
    ASSUME NEW b, b = Holding(b.phase, b.tokens, b.node, b.matched, b.seq, b.owner),
           NEW x, NEW y, NEW z
    PROVE  HoldingChanges(b, x, y, z)
<1>0. PICK ph, to, no, ma, se, ow :
          /\ ph = b.phase /\ to = b.tokens /\ no = b.node /\ ma = b.matched /\ se = b.seq
          /\ ow = b.owner
  OBVIOUS
<1> b = Holding(ph, to, no, ma, se, ow)
  BY <1>0
<1> DEFINE D == {"phase", "tokens", "node", "matched", "seq", "owner"}
<1>1. DOMAIN b = D
  BY DEF Holding
<1>2. [b EXCEPT !.phase = x] = Holding(x, to, no, ma, se, ow)
  <2>1. [b EXCEPT !.phase = x] = [f \in D |-> CASE f = "phase" -> x [] OTHER -> b[f]]
    BY <1>1
  <2> QED BY <2>1 DEF Holding
<1>3. [b EXCEPT !.phase = x, !.owner = z] = Holding(x, to, no, ma, se, z)
  <2>1. [b EXCEPT !.phase = x, !.owner = z]
          = [f \in D |-> CASE f = "phase" -> x [] f = "owner" -> z [] OTHER -> b[f]]
    BY <1>1
  <2> QED BY <2>1 DEF Holding
<1>4. [b EXCEPT !.phase = x, !.seq = y, !.owner = z] = Holding(x, to, no, ma, y, z)
  <2>1. [b EXCEPT !.phase = x, !.seq = y, !.owner = z]
          = [f \in D |-> CASE f = "phase" -> x [] f = "seq" -> y [] f = "owner" -> z
                           [] OTHER -> b[f]]
    BY <1>1
  <2> QED BY <2>1 DEF Holding
<1>5. [b EXCEPT !.phase = x, !.tokens = y, !.owner = z] = Holding(x, y, no, ma, se, z)
  <2>1. [b EXCEPT !.phase = x, !.tokens = y, !.owner = z]
          = [f \in D |-> CASE f = "phase" -> x [] f = "tokens" -> y [] f = "owner" -> z
                           [] OTHER -> b[f]]
    BY <1>1
  <2> QED BY <2>1 DEF Holding
<1>6. [b EXCEPT !.node = y, !.owner = z] = Holding(ph, to, y, ma, se, z)
  <2>1. [b EXCEPT !.node = y, !.owner = z]
          = [f \in D |-> CASE f = "node" -> y [] f = "owner" -> z [] OTHER -> b[f]]
    BY <1>1
  <2> QED BY <2>1 DEF Holding
<1> QED BY Zenon, <1>0, <1>2, <1>3, <1>4, <1>5, <1>6 DEF HoldingChanges

\* A caller, field by field, and with paths for pointers.
LEMMA CallerHolds ==
    ASSUME NEW c, NEW P, IsCaller(c)
    PROVE  /\ c = Holding(c.phase, c.tokens, c.node, c.matched, c.seq, c.owner)
           /\ CallerBar(c, P)
                = Holding(c.phase, c.tokens, P[c.node], c.matched, c.seq, P[c.owner])
<1>1. c = Holding(c.phase, c.tokens, c.node, c.matched, c.seq, c.owner)
  BY DEF IsCaller, Holding
<1>2. CallerBar(c, P) = [c EXCEPT !.node = P[c.node], !.owner = P[c.owner]]
  BY DEF CallerBar
<1>3. HoldingChanges(c, c, P[c.node], P[c.owner])
  BY <1>1, HoldingExcept
<1> QED BY Zenon, <1>1, <1>2, <1>3 DEF HoldingChanges

\* The fields of a caller.
LEMMA HoldingFacts ==
    ASSUME NEW ph \in {"none", "inserted", "pending", "ready", "retiring", "released"},
           NEW to \in Seq(Token), NEW no, NEW ma, NEW se, NEW ow,
           NEW c, c = Holding(ph, to, no, ma, se, ow), NEW P
    PROVE  /\ IsCaller(c) /\ c.phase = ph /\ c.tokens = to /\ c.node = no /\ c.matched = ma
           /\ c.seq = se /\ c.owner = ow
           /\ CallerBar(c, P) = Holding(ph, to, P[no], ma, se, P[ow])
<1>1. /\ IsCaller(c) /\ c.phase = ph /\ c.tokens = to /\ c.node = no /\ c.matched = ma
      /\ c.seq = se /\ c.owner = ow
  BY DEF Holding, IsCaller
<1>2. CallerBar(c, P) = Holding(c.phase, c.tokens, P[c.node], c.matched, c.seq, P[c.owner])
  BY <1>1, CallerHolds
<1> QED BY <1>1, <1>2

-----------------------------------------------------------------------------
(* The calls, as steps of the nodes and of the tree of paths *)

Relinked(b, x, cut) ==
    [r \in Requests |-> [b[r] EXCEPT !.node = Index!Follow(@, x, cut),
                                     !.owner = Index!Follow(@, x, cut)]]

\* The paths after a split.
Moved(h, P, Q, x, cut) == \A n \in DOMAIN h : Q[n] = Index!Follow(P[n], x, cut)

\* A pointer to a node that a split has moved leads to its new path.
LEMMA RelinkFacts ==
    ASSUME NEW h, NEW P, NEW Q, NEW d, NEW x, NEW cut, Callers(h, d), Moved(h, P, Q, x, cut)
    PROVE  HeldBar(d, Q) = Relinked(HeldBar(d, P), x, cut)
<1>1. ASSUME NEW r \in Requests
      PROVE  HeldBar(d, Q)[r] = Relinked(HeldBar(d, P), x, cut)[r]
  <2>1. IsCaller(d[r]) /\ d[r].node \in DOMAIN h /\ d[r].owner \in DOMAIN h
    BY DEF Callers
  <2>2. /\ Q[d[r].node] = Index!Follow(P[d[r].node], x, cut)
        /\ Q[d[r].owner] = Index!Follow(P[d[r].owner], x, cut)
    BY <2>1 DEF Moved
  <2> DEFINE c == d[r]
             n == P[c.node]
             o == P[c.owner]
             b == [c EXCEPT !.node = n, !.owner = o]
  <2>3. /\ HeldBar(d, Q)[r] = [c EXCEPT !.node = Q[c.node], !.owner = Q[c.owner]]
        /\ HeldBar(d, P)[r] = b
    BY DEF HeldBar, CallerBar
  <2>4. Relinked(HeldBar(d, P), x, cut)[r]
          = [HeldBar(d, P)[r] EXCEPT !.node = Index!Follow(@, x, cut),
                                     !.owner = Index!Follow(@, x, cut)]
    BY DEF Relinked
  <2>5. IsCaller(c) /\ Q[c.node] = Index!Follow(n, x, cut) /\ Q[c.owner] = Index!Follow(o, x, cut)
    BY <2>1, <2>2
  <2> HIDE DEF c, n, o
  <2>6. /\ b.node = n /\ b.owner = o
        /\ \A a, z : [b EXCEPT !.node = a, !.owner = z] = [c EXCEPT !.node = a, !.owner = z]
    BY <2>5 DEF IsCaller
  <2> HIDE DEF b
  <2> QED BY <2>3, <2>4, <2>5, <2>6
<1> QED BY <1>1 DEF HeldBar, Relinked

\* A step of one caller.
LEMMA HeldUpdate ==
    ASSUME NEW P, NEW h, NEW d, Callers(h, d), NEW r \in Requests, NEW c,
           NEW e, Becomes(d, r, c, e)
    PROVE  Becomes(HeldBar(d, P), r, CallerBar(c, P), HeldBar(e, P))
<1>1. e = [q \in Requests |-> IF q = r THEN c ELSE d[q]]
  BY DEF Callers, Becomes
<1> QED BY <1>1 DEF HeldBar, Becomes

\* The node of insert, with its new reference.
Referenced(n, tick) == [n EXCEPT !.ref_count = @ + 1, !.last_access_tick = tick]

Inserted(tokens, node, m) ==
    [NoHandle EXCEPT !.phase = "inserted", !.tokens = tokens, !.node = node, !.matched = m]

\* Updating the record of a node in the path tree is updating the node.
LEMMA ReferencedFacts ==
    ASSUME NEW n, Fields(n), NEW tick \in Nat, NEW v, v = Referenced(n, tick)
    PROVE  /\ SameEdge(v, n) /\ v.ref_count = n.ref_count + 1
           /\ v.seq_ids = n.seq_ids /\ v.ready_seq_ids = n.ready_seq_ids
           /\ Record(v) = [Record(n) EXCEPT !.ref_count = @ + 1, !.last_access_tick = tick]
<1>1. v = [n EXCEPT !.ref_count = n.ref_count + 1, !.last_access_tick = tick]
  BY DEF Referenced
<1>2. /\ v.tokens = n.tokens /\ v.parent = n.parent /\ v.children = n.children
      /\ v.ref_count = n.ref_count + 1 /\ v.seq_ids = n.seq_ids
      /\ v.ready_seq_ids = n.ready_seq_ids /\ v.last_access_tick = tick
      /\ v.canonical_len = n.canonical_len
      /\ v = [tokens |-> v.tokens, parent |-> v.parent, children |-> v.children,
              ref_count |-> v.ref_count, seq_ids |-> v.seq_ids, ready_seq_ids |-> v.ready_seq_ids,
              last_access_tick |-> v.last_access_tick, canonical_len |-> v.canonical_len]
  BY <1>1 DEF Fields
<1>3. Record(v) = [Record(n) EXCEPT !.ref_count = @ + 1, !.last_access_tick = tick]
  <2> DEFINE b == Record(n)
  <2>0. b = [ref_count |-> n.ref_count, seq_ids |-> n.seq_ids, ready_seq_ids |-> n.ready_seq_ids,
             last_access_tick |-> n.last_access_tick, canonical_len |-> n.canonical_len]
    BY DEF Record
  <2> HIDE DEF b
  <2>1. [b EXCEPT !.ref_count = @ + 1, !.last_access_tick = tick]
             = [ref_count |-> n.ref_count + 1, seq_ids |-> n.seq_ids,
                ready_seq_ids |-> n.ready_seq_ids, last_access_tick |-> tick,
                canonical_len |-> n.canonical_len]
    <3>1. DOMAIN b = {"ref_count", "seq_ids", "ready_seq_ids", "last_access_tick",
                      "canonical_len"}
      BY <2>0
    <3>2. [b EXCEPT !.ref_count = @ + 1, !.last_access_tick = tick]
            = [f \in {"ref_count", "seq_ids", "ready_seq_ids", "last_access_tick",
                      "canonical_len"} |->
                  CASE f = "ref_count" -> b.ref_count + 1 [] f = "last_access_tick" -> tick
                    [] OTHER -> b[f]]
      BY <3>1
    <3> QED BY <2>0, <3>2
  <2>2. Record(v) = [ref_count |-> n.ref_count + 1, seq_ids |-> n.seq_ids,
                     ready_seq_ids |-> n.ready_seq_ids, last_access_tick |-> tick,
                     canonical_len |-> n.canonical_len]
    BY <1>2 DEF Record
  <2> QED BY <2>1, <2>2 DEF b
<1>4. Fields(v)
  BY <1>2 DEF Fields
<1> QED BY <1>2, <1>3, <1>4 DEF SameEdge

\* insert in the tree of paths, and the invariant after it.
AsInsert(h, P, d, r, tokens, tick, m, g, e, Q, x) ==
    LET cut == SubSeq(tokens, 1, m)
    IN  /\ HeapInv(g, Q, e) /\ m \in 0 .. Len(tokens)
        /\ \A t : IsBar(t, h, P) =>
               /\ Index!Matches(t, tokens, m) /\ Index!EdgeNode(t, cut, x)
               /\ IsBar(Index!insert(t, tokens, x, cut, tick), g, Q)
        /\ HeldBar(e, Q) = [Relinked(HeldBar(d, P), x, cut) EXCEPT
               ![r] = [Index!NoHandle EXCEPT !.phase = "inserted", !.tokens = tokens,
                                             !.node = tokens, !.matched = m]]

\* insert, in the nodes and in the tree of paths.
LEMMA InsertStep ==
    ASSUME NEW h, NEW P, NEW d, HeapInv(h, P, d), NEW r \in Requests, d[r].phase = "none",
           Having(d, Busy) = {}, NEW tokens \in Seq(Token), NEW tick \in Nat,
           NEW f, f = WithLeaf(find_prefix_locked(h, tokens), tokens, tick),
           NEW g, g = [f.heap EXCEPT ![f.node] = Referenced(@, tick)],
           NEW e, e = [d EXCEPT ![r] = Inserted(tokens, f.node, f.matched_tokens)],
           NEW m, m = f.matched_tokens
    PROVE  \E Q, x : AsInsert(h, P, d, r, tokens, tick, m, g, e, Q, x)
<1> DEFINE cut == SubSeq(tokens, 1, m)
<1>1. Tree(h, P) /\ Callers(h, d)
  BY DEF HeapInv
<1> DEFINE k == f.heap
           node == f.node
<1>2. PICK Q, x : Placed(h, P, tokens, tick, k, Q, node, m, x)
  BY <1>1, PlaceTree
<1> HIDE DEF k, node
<1>3. HeapInv(k, Q, d)
  BY <1>2, PlaceInv
<1>4. /\ Tree(k, Q) /\ node \in DOMAIN k /\ m \in 0 .. Len(tokens) /\ Q[node] = tokens
      /\ \A n \in DOMAIN h : Q[n] = Index!Follow(P[n], x, cut)
      /\ \A t : IsBar(t, h, P) =>
             /\ Index!Matches(t, tokens, m) /\ Index!EdgeNode(t, cut, x)
             /\ IsBar(LeafBar(Index!split_node(t, x, cut), tokens, tick), k, Q)
  BY <1>2 DEF Placed
<1> HIDE DEF cut
<1> DEFINE v == Referenced(k[node], tick)
<1>5. Fields(k[node])
  BY <1>4 DEF Tree, Addresses
<1>6. /\ SameEdge(v, k[node]) /\ v.ref_count = k[node].ref_count + 1
      /\ v.seq_ids = k[node].seq_ids /\ v.ready_seq_ids = k[node].ready_seq_ids
      /\ Record(v) = [Record(k[node]) EXCEPT !.ref_count = @ + 1, !.last_access_tick = tick]
  BY <1>5, ReferencedFacts
<1>7. g = [k EXCEPT ![node] = v]
  BY DEF k, node
<1> HIDE DEF v
<1>8. /\ Tree(g, Q) /\ DOMAIN g = DOMAIN k
      /\ g[node] = v /\ \A n \in DOMAIN k : n # node => g[n] = k[n]
      /\ \A t : IsBar(t, k, Q) => IsBar([t EXCEPT ![Q[node]] = Record(v)], g, Q)
  <2>1. Tree(k, Q) /\ node \in DOMAIN k
    BY <1>4
  <2>2. Updated(k, Q, node, v, g)
    BY <1>6, <1>7, <2>1, UpdateTree
  <2> QED BY <2>2 DEF Updated
<1> DEFINE c == Inserted(tokens, node, m)
<1>9. /\ IsCaller(c) /\ c.phase = "inserted" /\ c.node = node /\ c.owner = root_
      /\ c.tokens = tokens
      /\ c = [phase |-> "inserted", tokens |-> tokens, node |-> node, matched |-> m,
              seq |-> 0, owner |-> root_]
  <2>1. c = [phase |-> "inserted", tokens |-> tokens, node |-> node, matched |-> m,
             seq |-> 0, owner |-> root_]
    <3> DEFINE a == NoHandle
    <3>1. a = [phase |-> "none", tokens |-> << >>, node |-> root_, matched |-> 0,
               seq |-> 0, owner |-> root_]
      BY DEF NoHandle
    <3>2. c = [a EXCEPT !.phase = "inserted", !.tokens = tokens, !.node = node, !.matched = m]
      BY DEF Inserted
    <3> HIDE DEF a, c
    <3> QED BY <3>1, <3>2
  <2> HIDE DEF c
  <2> QED BY <2>1 DEF IsCaller
<1>10. Becomes(d, r, c, e)
  BY DEF node, Becomes
<1> HIDE DEF c
<1>11. HeapInv(g, Q, e)
  <2>1. Q[node] \sqsubseteq c.tokens
    BY <1>4, <1>9, PrefixOrder
  <2>2. \A n \in DOMAIN k : /\ n # node => g[n] = k[n]
                            /\ k[n].seq_ids = g[n].seq_ids
                            /\ k[n].ready_seq_ids = g[n].ready_seq_ids
    BY <1>6, <1>8
  <2>3. g[node].ref_count = k[node].ref_count + 1
    BY <1>6, <1>8
  <2>4. Recounted(k, Q, g, node, k[node].ref_count + 1)
    BY <1>4, <1>8, <2>2, <2>3 DEF Recounted
  <2>5. HasInserted(c, node, Q)
    BY <1>9, <2>1 DEF HasInserted
  <2> QED BY <1>3, <1>10, <2>4, <2>5, InsertInv
<1>12. ASSUME NEW t, IsBar(t, h, P)
       PROVE  IsBar(Index!insert(t, tokens, x, cut, tick), g, Q)
  <2> DEFINE s == Index!split_node(t, x, cut)
             b == LeafBar(s, tokens, tick)
  <2>1. IsBar(b, k, Q)
    BY <1>4, <1>12
  <2>2. b[tokens] = Record(k[node]) /\ tokens \in DOMAIN b
    BY <1>4, <2>1 DEF IsBar
  <2>3. /\ DOMAIN b = DOMAIN s \cup {tokens} /\ b[tokens] = Index!NodeAt(s, tokens, tick)
        /\ \A p \in DOMAIN s : p # tokens => b[p] = s[p]
    BY DEF LeafBar
  <2> DEFINE u == Index!insert(t, tokens, x, cut, tick)
  <2>4. u = [p \in DOMAIN s \cup {tokens} |->
                IF p = tokens
                THEN [Index!NodeAt(s, p, tick) EXCEPT !.ref_count = @ + 1,
                                                      !.last_access_tick = tick]
                ELSE s[p]]
    BY DEF Index!insert
  <2> HIDE DEF b, s, u
  <2>5. [Index!NodeAt(s, tokens, tick) EXCEPT !.ref_count = @ + 1, !.last_access_tick = tick]
          = Record(v)
    BY <1>6, <2>2, <2>3
  <2>6. u = [b EXCEPT ![tokens] = Record(v)]
    <3>1. b = [p \in DOMAIN b |-> b[p]]
      BY <2>1 DEF IsBar
    <3> QED BY <2>3, <2>4, <2>5, <3>1
  <2>7. IsBar(u, g, Q)
    BY <1>4, <1>8, <2>1, <2>6
  <2> QED BY <2>7 DEF u
<1>13. HeldBar(e, Q) = [Relinked(HeldBar(d, P), x, cut) EXCEPT ![r] = CallerBar(c, Q)]
  <2>0. Moved(h, P, Q, x, cut)
    BY <1>4 DEF Moved
  <2>1. HeldBar(d, Q) = Relinked(HeldBar(d, P), x, cut)
    BY <1>1, <2>0, RelinkFacts
  <2>2. Callers(k, d)
    BY <1>3 DEF HeapInv
  <2>3. Becomes(HeldBar(d, Q), r, CallerBar(c, Q), HeldBar(e, Q))
    BY <1>10, <2>2, HeldUpdate
  <2> QED BY Zenon, <2>1, <2>3 DEF Becomes
<1>14. CallerBar(c, Q) = [Index!NoHandle EXCEPT !.phase = "inserted", !.tokens = tokens,
                                                !.node = tokens, !.matched = m]
  <2>1. Q[root_] = << >>
    BY <1>4 DEF Tree, IsPaths
  <2>2. CallerBar(c, Q) = [phase |-> "inserted", tokens |-> tokens, node |-> tokens,
                           matched |-> m, seq |-> 0, owner |-> << >>]
    BY <1>4, <1>9, <2>1, CallerHolds DEF Holding
  <2> DEFINE a == Index!NoHandle
  <2>3. a = [phase |-> "none", tokens |-> << >>, node |-> << >>, matched |-> 0, seq |-> 0,
             owner |-> << >>]
    BY DEF Index!NoHandle, Index!Root
  <2> HIDE DEF a
  <2>4. [a EXCEPT !.phase = "inserted", !.tokens = tokens, !.node = tokens, !.matched = m]
          = [phase |-> "inserted", tokens |-> tokens, node |-> tokens, matched |-> m,
             seq |-> 0, owner |-> << >>]
    <3>1. DOMAIN a = {"phase", "tokens", "node", "matched", "seq", "owner"}
      BY <2>3
    <3>2. [a EXCEPT !.phase = "inserted", !.tokens = tokens, !.node = tokens, !.matched = m]
            = [y \in {"phase", "tokens", "node", "matched", "seq", "owner"} |->
                  CASE y = "phase" -> "inserted" [] y = "tokens" -> tokens
                    [] y = "node" -> tokens [] y = "matched" -> m [] OTHER -> a[y]]
      BY <3>1
    <3> QED BY <2>3, <3>2
  <2> QED BY Zenon, <2>2, <2>4 DEF a
<1>15. HeldBar(e, Q) = [Relinked(HeldBar(d, P), x, cut) EXCEPT
           ![r] = [Index!NoHandle EXCEPT !.phase = "inserted", !.tokens = tokens,
                                         !.node = tokens, !.matched = m]]
  BY <1>13, <1>14
<1>16. \A t : IsBar(t, h, P) =>
           /\ Index!Matches(t, tokens, m) /\ Index!EdgeNode(t, cut, x)
           /\ IsBar(Index!insert(t, tokens, x, cut, tick), g, Q)
  BY <1>4, <1>12
<1>17. m \in 0 .. Len(tokens)
  BY <1>4
<1>18. AsInsert(h, P, d, r, tokens, tick, m, g, e, Q, x)
  BY Zenon, <1>11, <1>15, <1>16, <1>17 DEF AsInsert, cut
<1> QED BY Zenon, <1>18

\* A call that changes the data of a node changes this data in the tree of paths.
LEMMA DataStep ==
    ASSUME NEW h, NEW P, Tree(h, P), NEW n \in DOMAIN h, NEW rc \in Nat, NEW ss, IsFiniteSet(ss),
           NEW rs, rs \subseteq ss, NEW lt \in Nat, NEW cl \in Nat,
           NEW g, g = [h EXCEPT ![n] = NodeOf(@, rc, ss, rs, lt, cl)]
    PROVE  Stepped(h, P, n, rc, ss, rs, lt, cl, g)
<1>1. Fields(h[n])
  BY DEF Tree, Addresses
<1> DEFINE v == NodeOf(h[n], rc, ss, rs, lt, cl)
<1>2. /\ SameEdge(v, h[n]) /\ Record(v) = Data(rc, ss, rs, lt, cl)
      /\ v.ref_count = rc /\ v.seq_ids = ss /\ v.ready_seq_ids = rs
  BY <1>1, NodeOfFacts
<1>3. g = [h EXCEPT ![n] = v]
  OBVIOUS
<1> HIDE DEF v
<1>4. Updated(h, P, n, v, g)
  BY <1>2, <1>3, UpdateTree
<1> QED BY <1>2, <1>4 DEF Updated, Stepped

\* The data of a node in the tree of paths.
InBar(t, p, n) ==
    /\ p \in DOMAIN t /\ t[p].ref_count = n.ref_count /\ t[p].seq_ids = n.seq_ids
    /\ t[p].ready_seq_ids = n.ready_seq_ids /\ t[p].last_access_tick = n.last_access_tick
    /\ t[p].canonical_len = n.canonical_len
    /\ \A r, x, y, z, w : DataChanges(t[p], r, x, y, z, w)

\* A node and its record have the same data.
LEMMA BarData ==
    ASSUME NEW h, NEW P, NEW t, IsBar(t, h, P), NEW n \in DOMAIN h
    PROVE  InBar(t, P[n], h[n])
<1>1. P[n] \in DOMAIN t /\ t[P[n]] = Record(h[n])
  BY DEF IsBar
<1> DEFINE b == t[P[n]]
<1>2. /\ b.ref_count = h[n].ref_count /\ b.seq_ids = h[n].seq_ids
      /\ b.ready_seq_ids = h[n].ready_seq_ids /\ b.last_access_tick = h[n].last_access_tick
      /\ b.canonical_len = h[n].canonical_len
      /\ b = Data(b.ref_count, b.seq_ids, b.ready_seq_ids, b.last_access_tick, b.canonical_len)
  BY <1>1 DEF Record, Data
<1> HIDE DEF b
<1>3. \A r, x, y, z, w : DataChanges(b, r, x, y, z, w)
  BY <1>2, DataExcept
<1> QED BY <1>1, <1>2, <1>3 DEF InBar, b

\* register_seq_id in the tree of paths, and the invariant after it.
AsRegister(h, P, d, r, s, g, e) ==
    /\ HeapInv(g, P, e)
    /\ \A t : IsBar(t, h, P) =>
           IsBar(Index!register_seq_id(t, P[d[r].node], s, Len(d[r].tokens)), g, P)
    /\ Becomes(HeldBar(d, P), r, Holding("pending", d[r].tokens, P[d[r].node], d[r].matched, s,
                                         P[d[r].node]), HeldBar(e, P))

\* register_seq_id gives a pending sequence to the node that the caller has inserted.
LEMMA RegisterStep ==
    ASSUME NEW h, NEW P, NEW d, HeapInv(h, P, d), NEW r \in Requests, d[r].phase = "inserted",
           NEW s, \A n \in DOMAIN h : s \notin h[n].seq_ids,
           NEW node, node = d[r].node, NEW n, n = h[node],
           NEW cl, cl = IF n.canonical_len = 0 THEN Len(d[r].tokens) ELSE n.canonical_len,
           NEW g, g = [h EXCEPT ![node] = NodeOf(@, n.ref_count, n.seq_ids \cup {s},
                                                 n.ready_seq_ids, n.last_access_tick, cl)],
           NEW c, c = Holding("pending", d[r].tokens, node, d[r].matched, s, node),
           NEW e, Becomes(d, r, c, e)
    PROVE  AsRegister(h, P, d, r, s, g, e)
<1>1. /\ Tree(h, P) /\ Callers(h, d) /\ OneBusy(d) /\ \A q \in Requests : Owns(h, P, d[q])
  BY DEF HeapInv
<1>2. /\ IsCaller(d[r]) /\ d[r].tokens \in Seq(Token) /\ Len(d[r].tokens) \in Nat
      /\ node \in DOMAIN h /\ Fields(n)
  BY <1>1, LenProperties DEF Callers, IsCaller, Tree, Addresses
<1>3. /\ n.ref_count \in Nat /\ IsFiniteSet(n.seq_ids) /\ n.ready_seq_ids \subseteq n.seq_ids
      /\ n.last_access_tick \in Nat /\ cl \in Nat
  BY <1>2 DEF Fields
<1> DEFINE ss == n.seq_ids \cup {s}
<1>4. IsFiniteSet(ss) /\ n.ready_seq_ids \subseteq ss
  BY <1>3, FS_AddElement
<1>5. Stepped(h, P, node, n.ref_count, ss, n.ready_seq_ids, n.last_access_tick, cl, g)
  BY <1>1, <1>2, <1>3, <1>4, DataStep
<1>6. /\ c.phase = "pending" /\ c.tokens = d[r].tokens /\ c.node = node /\ c.seq = s
      /\ c.owner = node /\ IsCaller(c)
      /\ CallerBar(c, P) = Holding("pending", d[r].tokens, P[node], d[r].matched, s, P[node])
  BY <1>2, HoldingFacts
<1>7. HeapInv(g, P, e)
  <2>1. Resequenced(h, P, g, c.seq)
    BY <1>5, <1>6 DEF Stepped, Resequenced
  <2>2. Owns(g, P, c)
    <3>1. P[node] \sqsubseteq d[r].tokens
      BY <1>1 DEF Owns
    <3>2. s \in g[node].seq_ids
      BY <1>5 DEF Stepped
    <3> QED BY <1>6, <3>1, <3>2 DEF Owns
  <2>3. ASSUME NEW q \in Having(d, {"pending", "ready", "retiring"}), q # r
        PROVE  d[q].seq # c.seq
    <3>1. /\ q \in Requests /\ d[q].owner \in DOMAIN h
          /\ d[q].phase \in {"pending", "ready", "retiring"}
      BY <1>1 DEF Having, Callers
    <3>2. d[q].phase # "retiring"
      BY <1>1, <2>3, <3>1 DEF OneBusy, Having
    <3>3. d[q].seq \in h[d[q].owner].seq_ids
      BY <1>1, <3>1, <3>2 DEF Owns
    <3> QED BY <1>6, <3>1, <3>3
  <2>4. Goes(h, P, d, r, g, c)
    BY <1>2, <1>6, <2>2, <2>3 DEF Goes
  <2>5. d[r].phase # "none" /\ d[r].phase \in Busy
    BY DEF Busy
  <2> QED BY <2>1, <2>4, <2>5, CallerInv
<1>8. ASSUME NEW t, IsBar(t, h, P)
      PROVE  IsBar(Index!register_seq_id(t, P[node], s, Len(d[r].tokens)), g, P)
  <2>1. InBar(t, P[node], n)
    BY <1>2, <1>8, BarData
  <2> DEFINE b == t[P[node]]
  <2>2. Index!WithSeq(b, s, Len(d[r].tokens))
          = Data(n.ref_count, ss, n.ready_seq_ids, n.last_access_tick, cl)
    <3>1. /\ b.seq_ids = n.seq_ids /\ b.canonical_len = n.canonical_len
          /\ b.ref_count = n.ref_count /\ b.ready_seq_ids = n.ready_seq_ids
          /\ b.last_access_tick = n.last_access_tick
          /\ DataChanges(b, b, ss, b, b, cl)
      BY <2>1 DEF InBar
    <3>2. [b EXCEPT !.seq_ids = ss, !.canonical_len = cl]
            = Data(b.ref_count, ss, b.ready_seq_ids, b.last_access_tick, cl)
      BY <3>1 DEF DataChanges
    <3>3. Index!WithSeq(b, s, Len(d[r].tokens)) = [b EXCEPT !.seq_ids = ss, !.canonical_len = cl]
      BY <3>1 DEF Index!WithSeq
    <3> QED BY Zenon, <3>1, <3>2, <3>3
  <2>3. IsBar([t EXCEPT ![P[node]] = Data(n.ref_count, ss, n.ready_seq_ids,
                                          n.last_access_tick, cl)], g, P)
    BY <1>5, <1>8 DEF Stepped
  <2> QED BY Zenon, <2>2, <2>3 DEF Index!register_seq_id
<1>9. Becomes(HeldBar(d, P), r, CallerBar(c, P), HeldBar(e, P))
  BY <1>1, HeldUpdate
<1> QED BY <1>6, <1>7, <1>8, <1>9 DEF AsRegister

\* mark_seq_id_ready in the tree of paths, and the invariant after it.
AsMarkReady(h, P, d, r, g, e) ==
    /\ HeapInv(g, P, e)
    /\ \A t : IsBar(t, h, P) =>
           IsBar(Index!mark_seq_id_ready(t, P[d[r].owner], d[r].seq), g, P)
    /\ Becomes(HeldBar(d, P), r, Holding("ready", d[r].tokens, P[d[r].node], d[r].matched,
                                         d[r].seq, P[d[r].owner]), HeldBar(e, P))

\* mark_seq_id_ready: the pending sequence of the caller is at its node.
LEMMA MarkReadyStep ==
    ASSUME NEW h, NEW P, NEW d, HeapInv(h, P, d), NEW r \in Requests, d[r].phase = "pending",
           Having(d, Busy) = {},
           NEW node, node = d[r].owner, NEW n, n = h[node], NEW s, s = d[r].seq,
           NEW g, g = [h EXCEPT ![node] = NodeOf(@, n.ref_count, n.seq_ids,
                              n.ready_seq_ids \cup {s}, n.last_access_tick, n.canonical_len)],
           NEW c, c = Holding("ready", d[r].tokens, d[r].node, d[r].matched, s, node),
           NEW e, Becomes(d, r, c, e)
    PROVE  AsMarkReady(h, P, d, r, g, e) /\ s \in n.seq_ids
<1>1. /\ Tree(h, P) /\ Callers(h, d) /\ OwnSeqs(d) /\ Owns(h, P, d[r])
  BY DEF HeapInv
<1>2. /\ IsCaller(d[r]) /\ d[r].tokens \in Seq(Token) /\ node \in DOMAIN h /\ Fields(n)
  BY <1>1 DEF Callers, IsCaller, Tree, Addresses
<1>3. /\ n.ref_count \in Nat /\ IsFiniteSet(n.seq_ids) /\ n.ready_seq_ids \subseteq n.seq_ids
      /\ n.last_access_tick \in Nat /\ n.canonical_len \in Nat
  BY <1>2 DEF Fields
<1>4. /\ s \in n.seq_ids /\ node = d[r].node /\ P[d[r].node] \sqsubseteq d[r].tokens
  BY <1>1 DEF Owns
<1> DEFINE rs == n.ready_seq_ids \cup {s}
<1>5. rs \subseteq n.seq_ids
  BY <1>3, <1>4
<1>6. Stepped(h, P, node, n.ref_count, n.seq_ids, rs, n.last_access_tick, n.canonical_len, g)
  BY <1>1, <1>2, <1>3, <1>5, DataStep
<1>7. /\ c.phase = "ready" /\ c.tokens = d[r].tokens /\ c.node = d[r].node /\ c.seq = s
      /\ c.owner = node /\ IsCaller(c)
      /\ CallerBar(c, P) = Holding("ready", d[r].tokens, P[d[r].node], d[r].matched, s, P[node])
  BY <1>2, HoldingFacts
<1>8. HeapInv(g, P, e)
  <2>1. Resequenced(h, P, g, c.seq)
    BY <1>6, <1>7 DEF Stepped, Resequenced
  <2>2. Owns(g, P, c)
    <3>1. s \in g[node].seq_ids /\ s \in g[node].ready_seq_ids
      BY <1>4, <1>6 DEF Stepped
    <3> QED BY <1>4, <1>7, <3>1 DEF Owns
  <2>3. \A q \in Having(d, {"pending", "ready", "retiring"}) : q # r => d[q].seq # c.seq
    <3>1. r \in Having(d, {"pending", "ready", "retiring"})
      BY DEF Having
    <3> QED BY <1>1, <1>7, <3>1 DEF OwnSeqs
  <2>4. Goes(h, P, d, r, g, c)
    BY <1>2, <1>7, <2>2, <2>3 DEF Goes
  <2>5. d[r].phase # "none"
    OBVIOUS
  <2> QED BY <2>1, <2>4, <2>5, CallerInv
<1>9. ASSUME NEW t, IsBar(t, h, P)
      PROVE  IsBar(Index!mark_seq_id_ready(t, P[node], s), g, P)
  <2>1. InBar(t, P[node], n)
    BY <1>2, <1>9, BarData
  <2> DEFINE b == t[P[node]]
             u == Data(n.ref_count, n.seq_ids, rs, n.last_access_tick, n.canonical_len)
  <2>2. /\ b.seq_ids = n.seq_ids /\ b.canonical_len = n.canonical_len
        /\ b.ref_count = n.ref_count /\ b.ready_seq_ids = n.ready_seq_ids
        /\ b.last_access_tick = n.last_access_tick
        /\ DataChanges(b, b, b, rs, b, b)
    BY <2>1 DEF InBar
  <2>3. [b EXCEPT !.ready_seq_ids = rs] = u
    BY <2>2 DEF DataChanges
  <2>4. Index!mark_seq_id_ready(t, P[node], s)
          = [t EXCEPT ![P[node]] = [b EXCEPT !.ready_seq_ids = rs]]
    BY <1>4, <2>2 DEF Index!mark_seq_id_ready
  <2>5. IsBar([t EXCEPT ![P[node]] = u], g, P)
    BY <1>6, <1>9 DEF Stepped
  <2> QED BY Zenon, <2>3, <2>4, <2>5
<1>10. Becomes(HeldBar(d, P), r, CallerBar(c, P), HeldBar(e, P))
  BY <1>1, HeldUpdate
<1> QED BY <1>4, <1>7, <1>8, <1>9, <1>10 DEF AsMarkReady

\* release_seq_id in the tree of paths, and the invariant after it.
AsReleaseSeq(h, P, d, r, retain, g, e) ==
    /\ HeapInv(g, P, e)
    /\ \A t : IsBar(t, h, P) =>
           LET p == P[d[r].owner]
               s == d[r].seq
           IN  IsBar(IF Index!KeepsSeq(t[p], s, retain) THEN t
                     ELSE [t EXCEPT ![p] = Index!WithoutSeq(@, s)], g, P)
    /\ Becomes(HeldBar(d, P), r, Holding("released", d[r].tokens, P[d[r].node], d[r].matched,
                                         d[r].seq, << >>), HeldBar(e, P))

\* What a caller holds after release_seq_id, whatever has become of the sequence.
LEMMA ReleaseSeqHeld ==
    ASSUME NEW h, NEW P, NEW d, HeapInv(h, P, d), NEW r \in Requests,
           \/ d[r].phase \in {"pending", "ready"} /\ Having(d, Busy) = {}
           \/ d[r].phase = "retiring",
           NEW g, Resequenced(h, P, g, d[r].seq),
           NEW c, c = Holding("released", d[r].tokens, d[r].node, d[r].matched, d[r].seq, root_),
           NEW e, Becomes(d, r, c, e)
    PROVE  /\ HeapInv(g, P, e)
           /\ Becomes(HeldBar(d, P), r, Holding("released", d[r].tokens, P[d[r].node],
                                                d[r].matched, d[r].seq, << >>), HeldBar(e, P))
<1>1. Tree(h, P) /\ Callers(h, d) /\ OwnSeqs(d)
  BY DEF HeapInv
<1>2. /\ IsCaller(d[r]) /\ d[r].tokens \in Seq(Token) /\ root_ \in DOMAIN h /\ P[root_] = << >>
  BY <1>1 DEF Callers, IsCaller, Tree, Addresses, IsPaths
<1>3. /\ c.phase = "released" /\ c.tokens = d[r].tokens /\ c.node = d[r].node /\ c.seq = d[r].seq
      /\ c.owner = root_ /\ IsCaller(c)
      /\ CallerBar(c, P) = Holding("released", d[r].tokens, P[d[r].node], d[r].matched,
                                   d[r].seq, P[root_])
  <2>1. PICK o, q, m : o = root_ /\ q = d[r].seq /\ m = d[r].matched
    OBVIOUS
  <2>2. c = Holding("released", d[r].tokens, d[r].node, m, q, o)
    BY <2>1
  <2>3. d[r].tokens \in Seq(Token)
    BY <1>2
  <2>4. /\ c.phase = "released" /\ c.tokens = d[r].tokens /\ c.node = d[r].node
        /\ c.seq = q /\ c.owner = o /\ IsCaller(c)
        /\ CallerBar(c, P) = Holding("released", d[r].tokens, P[d[r].node], m, q, P[o])
    <3>1. "released" \in {"none", "inserted", "pending", "ready", "retiring", "released"}
      OBVIOUS
    <3>2. /\ IsCaller(c)
          /\ CallerBar(c, P) = Holding("released", d[r].tokens, P[d[r].node], m, q, P[o])
      BY ONLY <2>2, <2>3, <3>1, HoldingFacts
    <3>3. /\ c.phase = "released" /\ c.tokens = d[r].tokens /\ c.node = d[r].node
          /\ c.seq = q /\ c.owner = o
      BY <2>2 DEF Holding
    <3> QED BY <3>2, <3>3
  <2> QED BY <2>1, <2>4
<1>4. \A q \in Having(d, {"pending", "ready", "retiring"}) : q # r => d[q].seq # c.seq
  <2>1. r \in Having(d, {"pending", "ready", "retiring"})
    BY DEF Having
  <2> QED BY <1>1, <1>3, <2>1 DEF OwnSeqs
<1>5. Goes(h, P, d, r, g, c)
  BY <1>2, <1>3, <1>4 DEF Goes, Owns
<1>6. d[r].phase # "none" /\ (d[r].phase \in Busy \/ Having(d, Busy) = {})
  BY DEF Busy
<1>7. HeapInv(g, P, e)
  BY <1>3, <1>5, <1>6, CallerInv
<1>8. Becomes(HeldBar(d, P), r, CallerBar(c, P), HeldBar(e, P))
  BY <1>1, HeldUpdate
<1> QED BY <1>2, <1>3, <1>7, <1>8

\* The module RadixIndex counts the sequences of a node like this one.
LEMMA SameCardinality == \A S : Index!Cardinality(S) = Cardinality(S)
BY Zenon DEF Cardinality, Index!Cardinality

\* A sequence leaves a node, in the heap and in the tree of paths.
EraseDone(h, P, node, s, g) ==
    /\ Resequenced(h, P, g, s) /\ \A m \in DOMAIN h : m # node => g[m] = h[m]
    /\ \A t : IsBar(t, h, P) => IsBar([t EXCEPT ![P[node]] = Index!WithoutSeq(@, s)], g, P)

\* Erasing a sequence from a node that has it.
LEMMA EraseStep ==
    ASSUME NEW h, NEW P, Tree(h, P), NEW node \in DOMAIN h, NEW s, s \in h[node].seq_ids,
           NEW g, g = [h EXCEPT ![node] = Erased(@, s)]
    PROVE  EraseDone(h, P, node, s, g)
<1> DEFINE n == h[node]
<1>2. Fields(n) /\ s \in n.seq_ids
  BY DEF Tree, Addresses
<1> HIDE DEF n
<1>3. /\ n.ref_count \in Nat /\ IsFiniteSet(n.seq_ids) /\ n.ready_seq_ids \subseteq n.seq_ids
      /\ n.last_access_tick \in Nat /\ n.canonical_len \in Nat
  BY <1>2 DEF Fields
<1> DEFINE ss == n.seq_ids \ {s}
           rs == n.ready_seq_ids \ {s}
           cl == IF n.seq_ids \subseteq {s} THEN 0 ELSE n.canonical_len
           u == Data(n.ref_count, ss, rs, n.last_access_tick, cl)
<1>4. IsFiniteSet(ss) /\ rs \subseteq ss /\ cl \in Nat
  BY <1>3, FS_Subset
<1> HIDE DEF ss, rs, cl
<1>5. g = [h EXCEPT ![node] = NodeOf(@, n.ref_count, ss, rs, n.last_access_tick, cl)]
  <2>1. Erased(n, s) = [n EXCEPT !.seq_ids = ss, !.ready_seq_ids = rs, !.canonical_len = cl]
    BY DEF Erased, ss, rs, cl
  <2>2. NodeChanges(n, n, ss, rs, n, cl)
    BY <1>2, NodeExcept
  <2>3. Erased(n, s) = NodeOf(n, n.ref_count, ss, rs, n.last_access_tick, cl)
    BY <2>1, <2>2 DEF NodeChanges
  <2> QED BY <2>3 DEF n
<1>6. Stepped(h, P, node, n.ref_count, ss, rs, n.last_access_tick, cl, g)
  BY <1>3, <1>4, <1>5, DataStep
<1>7. Resequenced(h, P, g, s) /\ \A m \in DOMAIN h : m # node => g[m] = h[m]
  BY <1>6 DEF Stepped, Resequenced, ss, rs, n
<1>8. ASSUME NEW t, IsBar(t, h, P)
      PROVE  IsBar([t EXCEPT ![P[node]] = Index!WithoutSeq(@, s)], g, P)
  <2> DEFINE b == t[P[node]]
  <2>1. /\ b.seq_ids = n.seq_ids /\ b.ready_seq_ids = n.ready_seq_ids
        /\ b.canonical_len = n.canonical_len /\ b.ref_count = n.ref_count
        /\ b.last_access_tick = n.last_access_tick
        /\ DataChanges(b, b, ss, rs, b, cl)
    <3>1. InBar(t, P[node], n)
      BY <1>8, BarData DEF n
    <3> QED BY <3>1 DEF InBar
  <2> HIDE DEF b
  <2>2. Index!WithoutSeq(b, s)
          = [b EXCEPT !.seq_ids = ss, !.ready_seq_ids = rs, !.canonical_len = cl]
    <3>1. n.seq_ids = {s} <=> n.seq_ids \subseteq {s}
      BY <1>2
    <3> QED BY <2>1, <3>1 DEF Index!WithoutSeq, ss, rs, cl
  <2>3. Index!WithoutSeq(b, s) = u
    BY <2>1, <2>2 DEF DataChanges
  <2>4. IsBar([t EXCEPT ![P[node]] = u], g, P)
    BY <1>6, <1>8 DEF Stepped
  <2> QED BY <2>3, <2>4 DEF b
<1> QED BY <1>7, <1>8 DEF EraseDone

\* release_seq_id: the caller gives its sequence back, which the tree may keep.
LEMMA ReleaseSeqStep ==
    ASSUME NEW h, NEW P, NEW d, HeapInv(h, P, d), NEW r \in Requests,
           \/ d[r].phase \in {"pending", "ready"} /\ Having(d, Busy) = {}
           \/ d[r].phase = "retiring",
           NEW retain, NEW node, node = d[r].owner, NEW n, n = h[node], NEW s, s = d[r].seq,
           NEW kept, kept = (\/ s \notin n.seq_ids
                             \/ retain /\ s \in n.ready_seq_ids /\ Cardinality(n.seq_ids) <= 1),
           NEW g, g = IF kept THEN h ELSE [h EXCEPT ![node] = Erased(@, s)],
           NEW c, c = Holding("released", d[r].tokens, d[r].node, d[r].matched, s, root_),
           NEW e, Becomes(d, r, c, e)
    PROVE  AsReleaseSeq(h, P, d, r, retain, g, e)
<1>1. Tree(h, P) /\ Callers(h, d)
  BY DEF HeapInv
<1>2. node \in DOMAIN h /\ Fields(n)
  BY <1>1 DEF Callers, Tree, Addresses
<1>3. /\ n.ref_count \in Nat /\ IsFiniteSet(n.seq_ids) /\ n.ready_seq_ids \subseteq n.seq_ids
      /\ n.last_access_tick \in Nat /\ n.canonical_len \in Nat
  BY <1>2 DEF Fields
<1>5. CASE kept
  <2>1. g = h
    BY <1>5
  <2>2. Resequenced(h, P, g, s)
    BY <1>1, <2>1 DEF Resequenced
  <2>3. ASSUME NEW t, IsBar(t, h, P)
        PROVE  IsBar(IF Index!KeepsSeq(t[P[node]], s, retain) THEN t
                     ELSE [t EXCEPT ![P[node]] = Index!WithoutSeq(@, s)], g, P)
    <3> DEFINE b == t[P[node]]
    <3>1. /\ P[node] \in DOMAIN t /\ b.seq_ids = n.seq_ids /\ b.ready_seq_ids = n.ready_seq_ids
          /\ b.canonical_len = n.canonical_len /\ t = [p \in DOMAIN t |-> t[p]]
          /\ b = Record(n)
      <4>1. InBar(t, P[node], n)
        BY <1>2, <2>3, BarData
      <4>2. t = [p \in DOMAIN t |-> t[p]] /\ b = Record(n)
        BY <1>2, <2>3 DEF IsBar
      <4> QED BY <4>1, <4>2 DEF InBar
    <3> HIDE DEF b
    <3>2. CASE s \in n.seq_ids
      <4>1. Index!KeepsSeq(b, s, retain)
        BY Zenon, <1>5, <3>1, <3>2, SameCardinality DEF Index!KeepsSeq
      <4> QED BY <2>1, <2>3, <4>1 DEF b
    <3>3. CASE s \notin n.seq_ids
      <4>1. b.seq_ids \ {s} = b.seq_ids /\ b.ready_seq_ids \ {s} = b.ready_seq_ids
            /\ b.seq_ids # {s}
        BY <1>3, <3>1, <3>3
      <4>2. Index!WithoutSeq(b, s) = [b EXCEPT !.seq_ids = b.seq_ids,
                  !.ready_seq_ids = b.ready_seq_ids, !.canonical_len = b.canonical_len]
        BY <4>1 DEF Index!WithoutSeq
      <4>3. b = [ref_count |-> b.ref_count, seq_ids |-> b.seq_ids,
                 ready_seq_ids |-> b.ready_seq_ids, last_access_tick |-> b.last_access_tick,
                 canonical_len |-> b.canonical_len]
        BY <3>1 DEF Record
      <4>4. Index!WithoutSeq(b, s) = b
        BY <4>2, <4>3
      <4>5. [t EXCEPT ![P[node]] = b] = t
        BY <3>1 DEF b
      <4> QED BY <2>1, <2>3, <4>4, <4>5 DEF b
    <3> QED BY <3>2, <3>3
  <2> QED BY <2>2, <2>3, ReleaseSeqHeld DEF AsReleaseSeq
<1>6. CASE ~ kept
  <2>1. s \in h[node].seq_ids /\ g = [h EXCEPT ![node] = Erased(@, s)]
    BY <1>6
  <2>2. EraseDone(h, P, node, s, g)
    BY <1>1, <1>2, <2>1, EraseStep
  <2>3. Resequenced(h, P, g, s)
    BY <2>2 DEF EraseDone
  <2>4. ASSUME NEW t, IsBar(t, h, P)
        PROVE  IsBar(IF Index!KeepsSeq(t[P[node]], s, retain) THEN t
                     ELSE [t EXCEPT ![P[node]] = Index!WithoutSeq(@, s)], g, P)
    <3>1. InBar(t, P[node], n)
      BY <1>2, <2>4, BarData
    <3>2. ~ Index!KeepsSeq(t[P[node]], s, retain)
      BY Zenon, <1>6, <3>1, SameCardinality DEF Index!KeepsSeq, InBar
    <3>3. IsBar([t EXCEPT ![P[node]] = Index!WithoutSeq(@, s)], g, P)
      BY <2>2, <2>4 DEF EraseDone
    <3> QED BY Zenon, <3>2, <3>3
  <2> QED BY <2>3, <2>4, ReleaseSeqHeld DEF AsReleaseSeq
<1> QED BY <1>5, <1>6

\* Pruning moves no pointer of a caller.
LEMMA HeldLeft ==
    ASSUME NEW g, NEW P, NEW d, Callers(g, d)
    PROVE  HeldBar(d, Left(P, g)) = HeldBar(d, P)
<1>1. ASSUME NEW r \in Requests PROVE CallerBar(d[r], Left(P, g)) = CallerBar(d[r], P)
  <2>1. d[r].node \in DOMAIN g /\ d[r].owner \in DOMAIN g
    BY DEF Callers
  <2>2. Left(P, g)[d[r].node] = P[d[r].node] /\ Left(P, g)[d[r].owner] = P[d[r].owner]
    BY <2>1 DEF Left
  <2> QED BY Zenon, <2>2 DEF CallerBar
<1> QED BY <1>1 DEF HeldBar

\* A caller that has nothing has nothing in the tree of paths.
LEMMA NothingHeld ==
    ASSUME NEW P, P[root_] = << >>
    PROVE  CallerBar(NoHandle, P) = Index!NoHandle
<1>1. PICK c : c = NoHandle
  OBVIOUS
<1>2. /\ IsCaller(c) /\ c.phase = "none" /\ c.tokens = << >> /\ c.node = root_
      /\ c.matched = 0 /\ c.seq = 0 /\ c.owner = root_
  BY <1>1 DEF NoHandle, IsCaller
<1>3. CallerBar(c, P) = Holding(c.phase, c.tokens, P[c.node], c.matched, c.seq, P[c.owner])
  BY <1>2, CallerHolds
<1>4. CallerBar(c, P) = Holding("none", << >>, << >>, 0, 0, << >>)
  BY <1>2, <1>3
<1>5. Index!NoHandle = Holding("none", << >>, << >>, 0, 0, << >>)
  BY DEF Index!NoHandle, Index!Root, Holding
<1> QED BY <1>1, <1>4, <1>5

\* release in the tree of paths, and the invariant after it.
AsRelease(h, P, d, r, g, e) ==
    /\ HeapInv(g, Left(P, g), e)
    /\ \A t : IsBar(t, h, P) => IsBar(Index!release(t, P[d[r].node]), g, Left(P, g))
    /\ Becomes(HeldBar(d, P), r, Index!NoHandle, HeldBar(e, Left(P, g)))

\* release: the caller gives its node back, and what nothing needs any more is pruned.
LEMMA ReleaseStep ==
    ASSUME NEW h, NEW P, NEW d, HeapInv(h, P, d), NEW r \in Requests,
           d[r].phase \in {"inserted", "released"},
           NEW node, node = d[r].node, NEW n, n = h[node],
           NEW k, k = [h EXCEPT ![node] = NodeOf(@, n.ref_count - 1, n.seq_ids, n.ready_seq_ids,
                                                 n.last_access_tick, n.canonical_len)],
           NEW g, g = prune_empty_leaves_locked(k, node),
           NEW e, Becomes(d, r, NoHandle, e)
    PROVE  AsRelease(h, P, d, r, g, e) /\ n.ref_count > 0
<1>1. Tree(h, P) /\ Callers(h, d) /\ Counts(h, d)
  BY DEF HeapInv
<1>2. node \in DOMAIN h /\ Fields(n) /\ P[root_] = << >>
  BY <1>1 DEF Callers, Tree, Addresses, IsPaths
<1>3. n.ref_count > 0
  BY <1>1, <1>2, HeldNode
<1>4. /\ n.ref_count \in Nat /\ n.ref_count - 1 \in Nat
      /\ IsFiniteSet(n.seq_ids) /\ n.ready_seq_ids \subseteq n.seq_ids
      /\ n.last_access_tick \in Nat /\ n.canonical_len \in Nat
  BY <1>2, <1>3 DEF Fields
<1> DEFINE rc == n.ref_count - 1
           u == Data(rc, n.seq_ids, n.ready_seq_ids, n.last_access_tick, n.canonical_len)
<1>5. Stepped(h, P, node, rc, n.seq_ids, n.ready_seq_ids, n.last_access_tick,
              n.canonical_len, k)
  BY <1>1, <1>2, <1>4, DataStep
<1>6. Recounted(h, P, k, node, rc)
  BY <1>2, <1>5 DEF Stepped, Recounted
<1>7. HeapInv(k, P, e) /\ Having(e, {"retiring"}) = {}
  BY <1>6, ReleaseInv
<1>8. Tree(k, P) /\ node \in DOMAIN k
  BY <1>2, <1>5 DEF Stepped
<1>9. Pruned(k, P, node, g)
  BY <1>8, PruneTree
<1>10. HeapInv(g, Left(P, g), e)
  BY <1>7, <1>8, <1>9, PruneInv
<1>11. ASSUME NEW t, IsBar(t, h, P)
       PROVE  IsBar(Index!release(t, P[node]), g, Left(P, g))
  <2> DEFINE b == t[P[node]]
  <2>1. InBar(t, P[node], n)
    BY <1>2, <1>11, BarData
  <2>2. /\ b.seq_ids = n.seq_ids /\ b.ready_seq_ids = n.ready_seq_ids
        /\ b.canonical_len = n.canonical_len /\ b.ref_count = n.ref_count
        /\ b.last_access_tick = n.last_access_tick
        /\ DataChanges(b, rc, b, b, b, b)
    BY <2>1 DEF InBar
  <2>3. [b EXCEPT !.ref_count = rc] = u
    BY Zenon, <2>2 DEF DataChanges
  <2>4. IsBar([t EXCEPT ![P[node]] = u], k, P)
    BY Zenon, <1>5, <1>11 DEF Stepped
  <2>5. IsBar(Index!prune_empty_leaves([t EXCEPT ![P[node]] = u], P[node]), g, Left(P, g))
    BY <1>9, <2>4 DEF Pruned
  <2>6. [t EXCEPT ![P[node]].ref_count = @ - 1] = [t EXCEPT ![P[node]] = u]
    <3>1. [t EXCEPT ![P[node]].ref_count = @ - 1]
            = [t EXCEPT ![P[node]] = [b EXCEPT !.ref_count = b.ref_count - 1]]
      OBVIOUS
    <3>2. b.ref_count - 1 = rc
      BY <2>2
    <3> QED BY Zenon, <2>3, <3>1, <3>2
  <2>7. Index!release(t, P[node])
          = Index!prune_empty_leaves([t EXCEPT ![P[node]].ref_count = @ - 1], P[node])
    BY <1>3, <2>2 DEF Index!release
  <2> QED BY Zenon, <2>5, <2>6, <2>7
<1>12. Becomes(HeldBar(d, P), r, Index!NoHandle, HeldBar(e, Left(P, g)))
  <2>1. Becomes(HeldBar(d, P), r, CallerBar(NoHandle, P), HeldBar(e, P))
    BY <1>1, HeldUpdate
  <2>2. HeldBar(e, Left(P, g)) = HeldBar(e, P)
    <3>1. Callers(g, e)
      BY <1>10 DEF HeapInv
    <3> QED BY ONLY <3>1, HeldLeft
  <2>3. CallerBar(NoHandle, P) = Index!NoHandle
    BY <1>2, NothingHeld
  <2> QED BY <2>1, <2>2, <2>3
<1> QED BY <1>3, <1>10, <1>11, <1>12 DEF AsRelease

\* evict in the tree of paths, and the invariant after it.
AsEvict(h, P, d, node, g) ==
    /\ HeapInv(g, Left(P, g), d)
    /\ \A t : IsBar(t, h, P) =>
           /\ P[node] \in Index!find_eviction_candidates(t)
           /\ IsBar(Index!evict(t, P[node]), g, Left(P, g))
    /\ HeldBar(d, Left(P, g)) = HeldBar(d, P)

\* The search with a stack finds the same idle nodes in the heap as in the tree of paths.
LEMMA IdleNodes ==
    ASSUME NEW h, NEW P, Tree(h, P), NEW t, IsBar(t, h, P)
    PROVE  /\ Idle(h) \subseteq DOMAIN h
           /\ \A m \in DOMAIN h : m \in Idle(h) <=> P[m] \in Index!Candidates(t)
<1>1. Idle(h) = {m \in DOMAIN h \ {root_} : h[m].ref_count = 0 /\ h[m].seq_ids # {}}
  BY SearchedAll DEF Idle
<1>2. ASSUME NEW m \in DOMAIN h PROVE m \in Idle(h) <=> P[m] \in Index!Candidates(t)
  <2>1. InBar(t, P[m], h[m])
    BY BarData
  <2>2. m = root_ <=> P[m] = << >>
    <3>1. root_ \in DOMAIN h /\ P[root_] = << >>
      BY DEF Tree, Addresses, IsPaths
    <3> QED BY <3>1, PathsInjective
  <2> QED BY <1>1, <2>1, <2>2 DEF Index!Candidates, InBar, Index!Root
<1> QED BY <1>1, <1>2

\* evict: an idle node that is the least recently used gives its sequences up.
LEMMA EvictStep ==
    ASSUME NEW h, NEW P, NEW d, HeapInv(h, P, d), Having(d, {"retiring"}) = {},
           NEW node \in find_eviction_candidates(h), NEW n, n = h[node],
           NEW k, k = [h EXCEPT ![node] = NodeOf(@, n.ref_count, {}, {}, n.last_access_tick, 0)],
           NEW g, g = prune_empty_leaves_locked(k, node)
    PROVE  AsEvict(h, P, d, node, g)
<1>1. Tree(h, P) /\ Callers(h, d)
  BY DEF HeapInv
<1>2. node \in Idle(h)
  BY DEF find_eviction_candidates
<1>3. node \in DOMAIN h /\ n.ref_count = 0
  <2>1. Idle(h) = {m \in DOMAIN h \ {root_} : h[m].ref_count = 0 /\ h[m].seq_ids # {}}
    BY <1>1, SearchedAll DEF Idle
  <2> QED BY <1>2, <2>1
<1>4. n.last_access_tick \in Nat /\ n.ref_count \in Nat
  BY <1>1, <1>3 DEF Tree, Addresses, Fields
<1> DEFINE u == Data(0, {}, {}, n.last_access_tick, 0)
<1>5. Stepped(h, P, node, 0, {}, {}, n.last_access_tick, 0, k)
  <2>1. IsFiniteSet({}) /\ {} \subseteq {} /\ 0 \in Nat
    BY FS_EmptySet
  <2>2. PICK z, o : z = {} /\ o = 0
    OBVIOUS
  <2>3. k = [h EXCEPT ![node] = NodeOf(@, o, z, z, n.last_access_tick, o)]
    BY <1>3, <2>2
  <2>4. Stepped(h, P, node, o, z, z, n.last_access_tick, o, k)
    BY <1>1, <1>3, <1>4, <2>1, <2>2, <2>3, DataStep
  <2> QED BY <2>2, <2>4
<1>6. HeapInv(k, P, d)
  <2>1. PICK z, o : z = {} /\ o = 0
    OBVIOUS
  <2>2. Stepped(h, P, node, 0, z, z, n.last_access_tick, o, k)
    BY <1>5, <2>1
  <2> QED BY <1>3, <2>2, EvictInv
<1>7. Tree(k, P) /\ node \in DOMAIN k
  BY <1>3, <1>5 DEF Stepped
<1>8. Pruned(k, P, node, g)
  BY <1>7, PruneTree
<1>9. HeapInv(g, Left(P, g), d)
  BY <1>6, <1>7, <1>8, PruneInv
<1>10. ASSUME NEW t, IsBar(t, h, P)
       PROVE  P[node] \in Index!find_eviction_candidates(t)
  <2>1. /\ Idle(h) \subseteq DOMAIN h
        /\ \A m \in DOMAIN h : m \in Idle(h) <=> P[m] \in Index!Candidates(t)
    BY <1>1, <1>10, IdleNodes
  <2>2. P[node] \in Index!Candidates(t)
    BY <1>2, <1>3, <2>1
  <2>3. ASSUME NEW q \in Index!Candidates(t)
        PROVE  t[P[node]].last_access_tick <= t[q].last_access_tick
    <3>1. q \in DOMAIN t
      BY DEF Index!Candidates
    <3>2. PICK m \in DOMAIN h : q = P[m]
      BY <1>10, <3>1 DEF IsBar
    <3>3. m \in Idle(h)
      BY <2>1, <3>2
    <3>4. n.last_access_tick <= h[m].last_access_tick
      BY <3>3 DEF find_eviction_candidates
    <3>5. InBar(t, P[node], n) /\ InBar(t, P[m], h[m])
      BY <1>3, <1>10, BarData
    <3> QED BY <3>2, <3>4, <3>5 DEF InBar
  <2> QED BY <2>2, <2>3 DEF Index!find_eviction_candidates
<1>11. ASSUME NEW t, IsBar(t, h, P)
       PROVE  IsBar(Index!evict(t, P[node]), g, Left(P, g))
  <2> DEFINE b == t[P[node]]
  <2>1. InBar(t, P[node], n)
    BY <1>3, <1>11, BarData
  <2>2. /\ b.ref_count = 0 /\ b.last_access_tick = n.last_access_tick
        /\ DataChanges(b, b, {}, {}, b, 0)
    BY <1>3, <2>1 DEF InBar
  <2>3. [b EXCEPT !.seq_ids = {}, !.ready_seq_ids = {}, !.canonical_len = 0] = u
    BY Zenon, <2>2 DEF DataChanges
  <2>4. IsBar([t EXCEPT ![P[node]] = u], k, P)
    BY Zenon, <1>5, <1>11 DEF Stepped
  <2>5. IsBar(Index!prune_empty_leaves([t EXCEPT ![P[node]] = u], P[node]), g, Left(P, g))
    BY <1>8, <2>4 DEF Pruned
  <2> QED BY Zenon, <2>3, <2>5 DEF Index!evict
<1>12. HeldBar(d, Left(P, g)) = HeldBar(d, P)
  <2>1. Callers(g, d)
    BY <1>9 DEF HeapInv
  <2> QED BY ONLY <2>1, HeldLeft
<1> QED BY <1>9, <1>10, <1>11, <1>12 DEF AsEvict

\* A new node has the same data with whatever tick, once it is touched.
LEMMA NewTouched ==
    ASSUME NEW a, NEW z, NEW s, NEW len, NEW last
    PROVE  Index!WithReadySeq(Index!NewNode(a), s, len, last)
             = Index!WithReadySeq(Index!NewNode(z), s, len, last)
<1>1. ASSUME NEW i
      PROVE  Index!WithReadySeq(Index!NewNode(i), s, len, last)
               = Data(0, {} \cup {s}, {} \cup {s}, last, len)
  <2> DEFINE b == Index!NewNode(i)
             ss == {} \cup {s}
  <2>1. /\ b.ref_count = 0 /\ b.seq_ids = {} /\ b.ready_seq_ids = {}
        /\ b = Data(b.ref_count, b.seq_ids, b.ready_seq_ids, b.last_access_tick, b.canonical_len)
    BY DEF Index!NewNode, Data
  <2> HIDE DEF b
  <2>2. Index!WithReadySeq(b, s, len, last)
          = [b EXCEPT !.seq_ids = ss, !.ready_seq_ids = ss, !.canonical_len = len,
                      !.last_access_tick = last]
    BY Zenon, <2>1 DEF Index!WithReadySeq
  <2> HIDE DEF ss
  <2>3. DataChanges(b, b, ss, ss, last, len)
    BY ONLY <2>1, DataExcept
  <2>4. Index!WithReadySeq(b, s, len, last) = Data(0, ss, ss, last, len)
    BY Zenon, <2>1, <2>2, <2>3 DEF DataChanges
  <2> QED BY <2>4 DEF b, ss
<1> QED BY <1>1

\* Moving a sequence from a path to another one changes the data of both.
LEMMA MoveBar ==
    ASSUME NEW u, NEW tokens, NEW tick, NEW last, NEW s, NEW p,
           NEW b, b = LeafBar(u, tokens, tick), p \in DOMAIN b, p # tokens
    PROVE  Index!MoveSeq(u, p, s, tokens, last)
             = [[b EXCEPT ![p] = Index!WithoutSeq(@, s)]
                   EXCEPT ![tokens] = Index!WithReadySeq(b[tokens], s, Len(tokens), last)]
<1>1. /\ DOMAIN b = DOMAIN u \cup {tokens} /\ b[tokens] = Index!NodeAt(u, tokens, tick)
      /\ b = [q \in DOMAIN b |-> b[q]] /\ \A q \in DOMAIN u : q # tokens => b[q] = u[q]
  BY DEF LeafBar
<1> DEFINE v == Index!WithReadySeq(b[tokens], s, Len(tokens), last)
           w == Index!WithReadySeq(Index!NodeAt(u, tokens, last), s, Len(tokens), last)
<1>2. v = w
  <2>1. CASE tokens \in DOMAIN u
    BY Zenon, <1>1, <2>1 DEF Index!NodeAt
  <2>2. CASE tokens \notin DOMAIN u
    <3>1. b[tokens] = Index!NewNode(tick) /\ Index!NodeAt(u, tokens, last) = Index!NewNode(last)
      BY <1>1, <2>2 DEF Index!NodeAt
    <3> QED BY <3>1, NewTouched
  <2> QED BY <2>1, <2>2
<1> DEFINE a == Index!WithoutSeq(b[p], s)
           M == Index!MoveSeq(u, p, s, tokens, last)
<1>3. M = [q \in DOMAIN u \cup {tokens} |->
              IF q = tokens THEN w
              ELSE IF q = p THEN Index!WithoutSeq(u[q], s) ELSE u[q]]
  BY DEF Index!MoveSeq
<1>4. b[p] = u[p]
  BY <1>1
<1> HIDE DEF v, w, M
<1>5. M = [q \in DOMAIN b |-> IF q = tokens THEN v ELSE IF q = p THEN a ELSE b[q]]
  <2>1. \A q \in DOMAIN b : (IF q = tokens THEN w
                             ELSE IF q = p THEN Index!WithoutSeq(u[q], s) ELSE u[q])
                            = (IF q = tokens THEN v ELSE IF q = p THEN a ELSE b[q])
    BY Zenon, <1>1, <1>2, <1>4
  <2> QED BY <1>1, <1>3, <2>1
<1> HIDE DEF a
<1>6. [[b EXCEPT ![p] = a] EXCEPT ![tokens] = v]
        = [q \in DOMAIN b |-> IF q = tokens THEN v ELSE IF q = p THEN a ELSE b[q]]
  BY <1>1
<1> QED BY Zenon, <1>5, <1>6 DEF M, a, v

\* Where a walk that goes on behind a node ends, it leaves the node where it is: it splits
\* an edge below the node, or none.
LEMMA StaysPut ==
    ASSUME NEW h, NEW P, Tree(h, P), NEW node \in DOMAIN h, NEW tokens \in Seq(Token),
           P[node] \sqsubseteq tokens, NEW m \in 0 .. Len(tokens), NEW x,
           NEW t, IsBar(t, h, P), Index!Matches(t, tokens, m),
           Index!EdgeNode(t, SubSeq(tokens, 1, m), x)
    PROVE  Index!Follow(P[node], x, SubSeq(tokens, 1, m)) = P[node]
<1> DEFINE cut == SubSeq(tokens, 1, m)
           p == P[node]
<1>1. p \in Seq(Token) /\ Len(p) \in Nat /\ Len(tokens) \in Nat /\ Len(p) <= Len(tokens)
  BY PathType, LenProperties, PrefixOrder
<1>2. p \in DOMAIN t
  BY DEF IsBar
<1>3. cut \in Seq(Token) /\ Len(cut) = m /\ cut \sqsubseteq tokens
  BY PrefixFacts
<1>4. CASE x # p
  BY <1>4 DEF Index!Follow
<1>5. CASE x = p
  <2>1. cut \sqsubseteq p
    BY <1>5 DEF Index!EdgeNode, \sqsubseteq
  <2>2. m <= Len(p)
    <3>1. Len(cut) <= Len(p)
      BY ONLY <1>1, <1>3, <2>1, PrefixOrder
    <3> QED BY <1>3, <3>1
  <2>3. ~ (m < Len(p))
    <3>1. SUFFICES ASSUME m < Len(p) PROVE FALSE
      OBVIOUS
    <3>2. Len(p) \in m + 1 .. Len(tokens)
      BY <1>1, <3>1
    <3>3. SubSeq(tokens, 1, Len(p)) = p
      <4>1. Len(p) \in 0 .. Len(tokens)
        BY <1>1
      <4>2. /\ SubSeq(tokens, 1, Len(p)) \in Seq(Token)
            /\ Len(SubSeq(tokens, 1, Len(p))) = Len(p)
            /\ SubSeq(tokens, 1, Len(p)) \sqsubseteq tokens
        BY <4>1, PrefixFacts
      <4> DEFINE q == SubSeq(tokens, 1, Len(p))
      <4> HIDE DEF q
      <4>3. q \in Seq(Token) /\ Len(q) = Len(p) /\ q \sqsubseteq tokens
        BY <4>2 DEF q
      <4>4. tokens \in Seq(Token) /\ p \sqsubseteq tokens
        OBVIOUS
      <4>5. Len(q) <= Len(p) /\ Len(p) <= Len(q)
        BY <1>1, <4>3
      <4>6. q \sqsubseteq p
        BY ONLY <1>1, <4>3, <4>4, <4>5, PrefixChain
      <4>7. q = p
        BY ONLY <1>1, <4>3, <4>5, <4>6, PrefixOrder
      <4> QED BY <4>7 DEF q
    <3>4. ~ Index!\sqsubseteq(Index!Prefix(tokens, Len(p)), p)
      BY <1>2, <3>2 DEF Index!Matches
    <3>5. Index!\sqsubseteq(p, p)
      BY <1>1, PrefixOrder DEF \sqsubseteq
    <3> QED BY <3>3, <3>4, <3>5 DEF Index!Prefix
  <2>4. Len(p) <= Len(cut)
    BY <1>1, <1>3, <2>2, <2>3
  <2>5. cut = p
    BY <1>1, <1>3, <2>1, <2>4, PrefixOrder
  <2> QED BY <1>5, <2>5 DEF Index!Follow
<1> QED BY <1>4, <1>5

\* A ready sequence comes to a node, in the heap and in the tree of paths.
ReadyDone(h, P, node, s, len, last, g) ==
    /\ Resequenced(h, P, g, s)
    /\ \A t : IsBar(t, h, P) =>
           IsBar([t EXCEPT ![P[node]] = Index!WithReadySeq(@, s, len, last)], g, P)

\* Adding a ready sequence to a node.
LEMMA ReadyStep ==
    ASSUME NEW h, NEW P, Tree(h, P), NEW node \in DOMAIN h, NEW s, NEW len \in Nat,
           NEW last \in Nat, NEW g, g = [h EXCEPT ![node] = Readied(@, s, len, last)]
    PROVE  ReadyDone(h, P, node, s, len, last, g)
<1> DEFINE n == h[node]
<1>2. Fields(n)
  BY DEF Tree, Addresses
<1> HIDE DEF n
<1>3. /\ n.ref_count \in Nat /\ IsFiniteSet(n.seq_ids) /\ n.ready_seq_ids \subseteq n.seq_ids
  BY <1>2 DEF Fields
<1> DEFINE ss == n.seq_ids \cup {s}
           rs == n.ready_seq_ids \cup {s}
           u == Data(n.ref_count, ss, rs, last, len)
<1>4. IsFiniteSet(ss) /\ rs \subseteq ss
  BY <1>3, FS_AddElement
<1> HIDE DEF ss, rs
<1>5. g = [h EXCEPT ![node] = NodeOf(@, n.ref_count, ss, rs, last, len)]
  <2>1. Readied(n, s, len, last)
          = [n EXCEPT !.seq_ids = ss, !.ready_seq_ids = rs, !.canonical_len = len,
                      !.last_access_tick = last]
    BY DEF Readied, ss, rs
  <2>2. NodeChanges(n, n, ss, rs, last, len)
    BY <1>2, NodeExcept
  <2>3. Readied(n, s, len, last) = NodeOf(n, n.ref_count, ss, rs, last, len)
    BY <2>1, <2>2 DEF NodeChanges
  <2> QED BY <2>3 DEF n
<1>6. Stepped(h, P, node, n.ref_count, ss, rs, last, len, g)
  BY <1>3, <1>4, <1>5, DataStep
<1>7. Resequenced(h, P, g, s)
  BY <1>6 DEF Stepped, Resequenced, ss, rs, n
<1>8. ASSUME NEW t, IsBar(t, h, P)
      PROVE  IsBar([t EXCEPT ![P[node]] = Index!WithReadySeq(@, s, len, last)], g, P)
  <2> DEFINE b == t[P[node]]
  <2>1. /\ b.seq_ids = n.seq_ids /\ b.ready_seq_ids = n.ready_seq_ids
        /\ b.ref_count = n.ref_count /\ DataChanges(b, b, ss, rs, last, len)
    <3>1. InBar(t, P[node], n)
      BY <1>8, BarData DEF n
    <3> QED BY <3>1 DEF InBar
  <2> HIDE DEF b
  <2>2. Index!WithReadySeq(b, s, len, last)
          = [b EXCEPT !.seq_ids = ss, !.ready_seq_ids = rs, !.canonical_len = len,
                      !.last_access_tick = last]
    BY <2>1 DEF Index!WithReadySeq, ss, rs
  <2>3. Index!WithReadySeq(b, s, len, last) = u
    BY <2>1, <2>2 DEF DataChanges
  <2>4. IsBar([t EXCEPT ![P[node]] = u], g, P)
    BY <1>6, <1>8 DEF Stepped
  <2> QED BY <2>3, <2>4 DEF b
<1> QED BY <1>7, <1>8 DEF ReadyDone

\* extend_seq_id in the tree of paths, and the invariant after it.
AsExtend(h, P, d, r, tokens, last, m, g, e, Q, x) ==
    LET cut == SubSeq(tokens, 1, m)
        b == Relinked(HeldBar(d, P), x, cut)
    IN  /\ HeapInv(g, Q, e) /\ m \in 0 .. Len(tokens)
        /\ \A t : IsBar(t, h, P) =>
               /\ Index!Matches(t, tokens, m) /\ Index!EdgeNode(t, cut, x)
               /\ IsBar(Index!extend_seq_id(t, P[d[r].owner], d[r].seq, tokens, x, cut, last),
                        g, Q)
        /\ Becomes(b, r, Holding("retiring", tokens, b[r].node, b[r].matched, b[r].seq, tokens),
                   HeldBar(e, Q))

\* What extend_seq_id does to the heap h and the callers d: the node and the matched tokens f
\* that the walk returns, the heap j without the sequence, and then g and e.
Extending(h, d, r, more, tokens, tick, last, f, j, g, e) ==
    LET node == d[r].owner
        s == d[r].seq
    IN  /\ d[r].phase = "ready" /\ tokens = d[r].tokens \o more
        /\ f = WithLeaf(find_prefix_locked(h, tokens), tokens, tick)
        /\ j = [f.heap EXCEPT ![node] = Erased(@, s)]
        /\ g = [j EXCEPT ![f.node] = Readied(@, s, Len(tokens), last)]
        /\ Becomes(d, r, Holding("retiring", tokens, d[r].node, d[r].matched, s, f.node), e)

\* extend_seq_id: the walk goes on behind the node of the sequence, which stays where it is,
\* and the sequence moves to the node of all the tokens.
LEMMA ExtendStep ==
    ASSUME NEW h, NEW P, NEW d, HeapInv(h, P, d), Having(d, Busy) = {}, NEW r \in Requests,
           NEW more \in Extensions, NEW tokens, NEW tick \in Nat, NEW last \in Nat,
           NEW f, NEW j, NEW g, NEW e, Extending(h, d, r, more, tokens, tick, last, f, j, g, e),
           NEW k, k = f.heap, NEW target, target = f.node, NEW m, m = f.matched_tokens,
           NEW node, node = d[r].owner, NEW s, s = d[r].seq
    PROVE  /\ \E Q, x : AsExtend(h, P, d, r, tokens, last, m, g, e, Q, x)
           /\ s \in h[node].ready_seq_ids /\ node # target
<1>c. PICK c : c = Holding("retiring", tokens, d[r].node, d[r].matched, s, target)
  OBVIOUS
<1>d. d[r].phase = "ready" /\ tokens = d[r].tokens \o more
  BY Zenon DEF Extending
<1>f. f = WithLeaf(find_prefix_locked(h, tokens), tokens, tick)
  BY Zenon DEF Extending
<1>j. j = [k EXCEPT ![node] = Erased(@, s)]
  BY Zenon DEF Extending
<1>g. g = [j EXCEPT ![target] = Readied(@, s, Len(tokens), last)]
  BY Zenon DEF Extending
<1>e. Becomes(d, r, c, e)
  BY Zenon, <1>c DEF Extending
<1>1. /\ Tree(h, P) /\ Callers(h, d) /\ OwnSeqs(d) /\ Owns(h, P, d[r])
  BY DEF HeapInv
<1>2. /\ IsCaller(d[r]) /\ d[r].tokens \in Seq(Token) /\ node \in DOMAIN h
      /\ d[r].node \in DOMAIN h /\ Fields(h[node]) /\ P[node] \in Seq(Token)
  BY <1>1 DEF Callers, IsCaller, Tree, Addresses, IsPaths
<1>3. /\ tokens \in Seq(Token) /\ Len(tokens) \in Nat /\ Len(d[r].tokens) \in Nat
      /\ Len(tokens) > Len(d[r].tokens) /\ d[r].tokens \sqsubseteq tokens
  <2>1. /\ tokens \in Seq(Token) /\ Len(tokens) > Len(d[r].tokens)
        /\ \A i \in 1 .. Len(d[r].tokens) : tokens[i] = d[r].tokens[i]
        /\ Len(tokens) \in Nat /\ Len(d[r].tokens) \in Nat
    <3>1. PICK v : v = d[r].tokens
      OBVIOUS
    <3>2. v \in Seq(Token) /\ tokens = v \o more
      BY <1>2, <1>d, <3>1
    <3>3. more \in Seq(Token) /\ more # << >>
      BY ConstantsAssumption
    <3>4. Len(more) \in Nat /\ Len(more) # 0 /\ Len(v) \in Nat
      BY ONLY <3>2, <3>3, LenProperties, EmptySeq
    <3>5. /\ tokens \in Seq(Token) /\ Len(tokens) = Len(v) + Len(more)
          /\ \A i \in 1 .. Len(v) + Len(more) :
                 tokens[i] = IF i <= Len(v) THEN v[i] ELSE more[i - Len(v)]
      BY <3>2, <3>3, ConcatProperties
    <3>6. ASSUME NEW i \in 1 .. Len(v) PROVE tokens[i] = v[i]
      <4>1. i \in 1 .. Len(v) + Len(more) /\ i <= Len(v)
        BY ONLY <3>4, i \in 1 .. Len(v)
      <4> QED BY <3>5, <4>1
    <3>7. Len(tokens) \in Nat /\ Len(tokens) > Len(v)
      BY ONLY <3>4, <3>5
    <3> QED BY <3>1, <3>4, <3>5, <3>6, <3>7
  <2> QED BY <2>1 DEF \sqsubseteq, Index!\sqsubseteq
<1>4. /\ s \in h[node].ready_seq_ids /\ s \in h[node].seq_ids
      /\ P[node] \sqsubseteq d[r].tokens
  BY <1>1, <1>d DEF Owns
<1>5. P[node] \sqsubseteq tokens /\ P[node] # tokens
  <2>1. P[node] \sqsubseteq tokens
    BY ONLY <1>2, <1>3, <1>4, PrefixChain
  <2>2. Len(P[node]) <= Len(d[r].tokens)
    BY ONLY <1>2, <1>4, PrefixOrder
  <2>3. Len(P[node]) \in Nat
    BY ONLY <1>2, LenProperties
  <2>4. Len(P[node]) # Len(tokens)
    BY ONLY <1>3, <2>2, <2>3
  <2>5. P[node] # tokens
    BY <2>4
  <2> QED BY <2>1, <2>5
<1>6. PICK Q, x : Placed(h, P, tokens, tick, k, Q, target, m, x)
  <2>1. \E Q, x : Placed(h, P, tokens, tick, f.heap, Q, f.node, f.matched_tokens, x)
    BY ONLY <1>1, <1>3, <1>f, tick \in Nat, PlaceTree
  <2> QED BY <2>1
<1> DEFINE cut == SubSeq(tokens, 1, m)
<1>7. /\ Tree(k, Q) /\ target \in DOMAIN k /\ m \in 0 .. Len(tokens) /\ Q[target] = tokens
      /\ DOMAIN h \subseteq DOMAIN k
      /\ \A n \in DOMAIN h : Q[n] = Index!Follow(P[n], x, cut) /\ Record(k[n]) = Record(h[n])
      /\ \A t : IsBar(t, h, P) =>
             /\ Index!Matches(t, tokens, m) /\ Index!EdgeNode(t, cut, x)
             /\ IsBar(LeafBar(Index!split_node(t, x, cut), tokens, tick), k, Q)
  BY <1>6 DEF Placed
<1>8. HeapInv(k, Q, d)
  BY <1>3, <1>6, PlaceInv
<1> HIDE DEF cut
<1>9. Q[node] = P[node]
  <2>1. PICK t : IsBar(t, h, P)
    BY <1>1, BarFacts
  <2>2. Index!Matches(t, tokens, m) /\ Index!EdgeNode(t, SubSeq(tokens, 1, m), x)
    BY <1>7, <2>1 DEF cut
  <2>3. Index!Follow(P[node], x, SubSeq(tokens, 1, m)) = P[node]
    <3>1. /\ Tree(h, P) /\ node \in DOMAIN h /\ tokens \in Seq(Token) /\ P[node] \sqsubseteq tokens
          /\ m \in 0 .. Len(tokens)
      BY <1>1, <1>2, <1>3, <1>5, <1>7
    <3> QED BY ONLY <2>1, <2>2, <3>1, StaysPut
  <2> QED BY <1>2, <1>7, <2>3 DEF cut
<1>10. node # target /\ node \in DOMAIN k /\ s \in k[node].seq_ids
  BY <1>2, <1>4, <1>5, <1>7, <1>9 DEF Record
<1>11. EraseDone(k, Q, node, s, j)
  BY <1>7, <1>10, <1>j, EraseStep
<1>12. Tree(j, Q) /\ target \in DOMAIN j /\ DOMAIN j = DOMAIN k
  BY <1>7, <1>11 DEF EraseDone, Resequenced
<1>13. ReadyDone(j, Q, target, s, Len(tokens), last, g)
  BY <1>3, <1>12, <1>g, ReadyStep
<1>14. /\ c.phase = "retiring" /\ c.tokens = tokens /\ c.node = d[r].node /\ c.seq = s
       /\ c.owner = target /\ IsCaller(c)
       /\ CallerBar(c, Q) = Holding("retiring", tokens, Q[d[r].node], d[r].matched, s, Q[target])
  <2>1. c = Holding("retiring", tokens, d[r].node, d[r].matched, s, target)
    BY <1>c
  <2>2. "retiring" \in {"none", "inserted", "pending", "ready", "retiring", "released"}
    OBVIOUS
  <2>3. tokens \in Seq(Token)
    BY <1>3
  <2>4. /\ IsCaller(c)
        /\ CallerBar(c, Q)
             = Holding("retiring", tokens, Q[d[r].node], d[r].matched, s, Q[target])
    BY ONLY <2>1, <2>2, <2>3, HoldingFacts
  <2>5. /\ c.phase = "retiring" /\ c.tokens = tokens /\ c.node = d[r].node /\ c.seq = s
        /\ c.owner = target
    BY <2>1 DEF Holding
  <2> QED BY <2>4, <2>5
<1>15. HeapInv(g, Q, e)
  <2>1. Resequenced(k, Q, g, c.seq)
    <3>1. Resequenced(k, Q, j, s) /\ Resequenced(j, Q, g, s) /\ c.seq = s
      BY Zenon, <1>11, <1>13, <1>14 DEF EraseDone, ReadyDone
    <3>2. Resequenced(k, Q, g, s)
      BY ONLY <3>1 DEF Resequenced
    <3> QED BY Zenon, <3>1, <3>2
  <2>2. \A q \in Having(d, {"pending", "ready", "retiring"}) : q # r => d[q].seq # c.seq
    <3>1. r \in Having(d, {"pending", "ready", "retiring"})
      BY <1>d DEF Having
    <3> QED BY <1>1, <1>14, <3>1 DEF OwnSeqs
  <2>3. Goes(k, Q, d, r, g, c)
    BY <1>7, <1>14, <1>d, <2>2 DEF Goes, Owns
  <2>4. /\ r \in Requests /\ d[r].phase # "none" /\ Becomes(d, r, c, e)
        /\ d[r].phase \in Busy \/ Having(d, Busy) = {}
    BY <1>d, <1>e
  <2> QED BY ONLY <1>8, <2>1, <2>3, <2>4, CallerInv
<1>16. ASSUME NEW t, IsBar(t, h, P)
       PROVE  IsBar(Index!extend_seq_id(t, P[node], s, tokens, x, cut, last), g, Q)
  <2> DEFINE u == Index!split_node(t, x, cut)
  <2>0. PICK b, p : b = LeafBar(u, tokens, tick) /\ p = P[node]
    OBVIOUS
  <2> DEFINE a == [b EXCEPT ![p] = Index!WithoutSeq(@, s)]
  <2>1. IsBar(b, k, Q)
    BY <1>7, <1>16, <2>0
  <2> HIDE DEF u
  <2>2. p \in DOMAIN b /\ tokens \in DOMAIN b /\ p # tokens
    <3>1. DOMAIN b = {Q[n] : n \in DOMAIN k}
      BY <2>1 DEF IsBar
    <3>2. p # tokens
      BY <1>5, <2>0
    <3> QED BY <1>7, <1>9, <1>10, <2>0, <3>1, <3>2
  <2>3. Index!MoveSeq(u, p, s, tokens, last)
          = [a EXCEPT ![tokens] = Index!WithReadySeq(b[tokens], s, Len(tokens), last)]
    <3>1. b = LeafBar(u, tokens, tick)
      BY <2>0
    <3> QED BY ONLY <2>2, <3>1, MoveBar
  <2>4. IsBar(a, j, Q)
    <3>1. IsBar([b EXCEPT ![Q[node]] = Index!WithoutSeq(@, s)], j, Q)
      BY <1>11, <2>1 DEF EraseDone
    <3>2. Q[node] = p
      BY <1>9, <2>0
    <3> QED BY <3>1, <3>2
  <2>5. a[tokens] = b[tokens]
    BY ONLY <2>2
  <2> HIDE DEF a
  <2>6. IsBar([a EXCEPT ![Q[target]] = Index!WithReadySeq(@, s, Len(tokens), last)], g, Q)
    BY <1>13, <2>4 DEF ReadyDone
  <2>7. IsBar([a EXCEPT ![tokens] = Index!WithReadySeq(a[tokens], s, Len(tokens), last)], g, Q)
    BY <1>7, <2>6
  <2>8. IsBar(Index!MoveSeq(u, p, s, tokens, last), g, Q)
    BY Zenon, <2>3, <2>5, <2>7
  <2> QED BY Zenon, <2>0, <2>8 DEF Index!extend_seq_id, u
<1>17. Becomes(HeldBar(d, Q), r, CallerBar(c, Q), HeldBar(e, Q))
  <2>1. Callers(k, d)
    BY <1>8 DEF HeapInv
  <2> QED BY <1>e, <2>1, HeldUpdate
<1>18. HeldBar(d, Q) = Relinked(HeldBar(d, P), x, cut)
  <2>1. Moved(h, P, Q, x, cut)
    BY <1>7 DEF Moved
  <2> QED BY ONLY <1>1, <2>1, RelinkFacts
<1> DEFINE b == Relinked(HeldBar(d, P), x, cut)
<1>19. CallerBar(c, Q)
         = Holding("retiring", tokens, b[r].node, b[r].matched, b[r].seq, tokens)
  <2>1. CallerBar(d[r], Q) = Holding(d[r].phase, d[r].tokens, Q[d[r].node], d[r].matched, s,
                                     Q[node])
    BY <1>2, CallerHolds
  <2>2. b[r] = CallerBar(d[r], Q)
    BY <1>18 DEF HeldBar
  <2>3. b[r].node = Q[d[r].node] /\ b[r].matched = d[r].matched /\ b[r].seq = s
    BY ONLY <2>1, <2>2 DEF Holding
  <2> QED BY Zenon, <1>7, <1>14, <2>3
<1>20. AsExtend(h, P, d, r, tokens, last, m, g, e, Q, x)
  <2>1. Becomes(b, r, Holding("retiring", tokens, b[r].node, b[r].matched, b[r].seq, tokens),
                HeldBar(e, Q))
    BY Zenon, <1>17, <1>18, <1>19
  <2>2. \A t : IsBar(t, h, P) =>
            /\ Index!Matches(t, tokens, m) /\ Index!EdgeNode(t, cut, x)
            /\ IsBar(Index!extend_seq_id(t, P[d[r].owner], d[r].seq, tokens, x, cut, last), g, Q)
    BY Zenon, <1>7, <1>16
  <2> HIDE DEF b
  <2> QED BY <1>7, <1>15, <2>1, <2>2 DEF AsExtend, cut, b
<1> QED BY <1>4, <1>10, <1>20

-----------------------------------------------------------------------------
(* The invariant, and the refinement of module RadixIndex *)

\* The inductive invariant: the nodes form a tree whose paths are Paths(heap), and the callers
\* hold what HeapInv says.
IInv == tick_ \in Nat /\ HeapInv(heap, Paths(heap), held)

\* The state functions that the refinement gives to module RadixIndex.
LEMMA Bars ==
    /\ treeBar = Bar(heap, Paths(heap))
    /\ heldBar = HeldBar(held, Paths(heap))
<1>1. treeBar = Bar(heap, Paths(heap))
  BY DEF treeBar, Bar, Path, AtPath
<1>2. heldBar = HeldBar(held, Paths(heap))
  BY DEF heldBar, HeldBar, CallerBar, Path
<1> QED BY <1>1, <1>2

\* The same in the next state.
LEMMA BarsNext ==
    /\ treeBar' = Bar(heap', Paths(heap'))
    /\ heldBar' = HeldBar(held', Paths(heap'))
<1>1. treeBar' = Bar(heap', Paths(heap'))
  BY DEF treeBar, Bar, Path, AtPath
<1>2. heldBar' = HeldBar(held', Paths(heap'))
  BY DEF heldBar, HeldBar, CallerBar, Path
<1> QED BY <1>1, <1>2

\* A heap with its paths in the next state.
LEMMA NextState ==
    ASSUME NEW Q, HeapInv(heap', Q, held')
    PROVE  /\ Paths(heap') = Q /\ HeapInv(heap', Paths(heap'), held')
           /\ heldBar' = HeldBar(held', Q)
           /\ \A u : IsBar(u, heap', Q) => treeBar' = u
<1>1. Tree(heap', Q)
  BY DEF HeapInv
<1>2. Paths(heap') = Q
  BY <1>1, PathsUnique
<1>3. IsBar(treeBar', heap', Q)
  BY <1>1, <1>2, BarsNext, BarFacts
<1> QED BY <1>2, <1>3, BarsNext, BarUnique

\* A caller in the tree of paths.
InHeldBar(b, r, c, P) ==
    /\ b[r] = Holding(c.phase, c.tokens, P[c.node], c.matched, c.seq, P[c.owner])
    /\ b[r].phase = c.phase /\ b[r].tokens = c.tokens /\ b[r].node = P[c.node]
    /\ b[r].matched = c.matched /\ b[r].seq = c.seq /\ b[r].owner = P[c.owner]
    /\ \A x, y, z : HoldingChanges(b[r], x, y, z)

\* What the tree of paths holds of a state that has the invariant.
LEMMA ThisState ==
    ASSUME IInv
    PROVE  /\ HeapInv(heap, Paths(heap), held) /\ Tree(heap, Paths(heap)) /\ Callers(heap, held)
           /\ IsBar(treeBar, heap, Paths(heap))
           /\ heldBar = HeldBar(held, Paths(heap))
           /\ \A r \in Requests : InHeldBar(heldBar, r, held[r], Paths(heap))
<1>1. HeapInv(heap, Paths(heap), held) /\ Tree(heap, Paths(heap)) /\ Callers(heap, held)
  BY DEF IInv, HeapInv
<1>2. IsBar(treeBar, heap, Paths(heap))
  BY <1>1, Bars, BarFacts
<1>3. ASSUME NEW r \in Requests PROVE InHeldBar(heldBar, r, held[r], Paths(heap))
  <2> DEFINE P == Paths(heap)
             c == held[r]
             b == heldBar[r]
  <2>1. IsCaller(c)
    BY <1>1 DEF Callers
  <2>2. b = CallerBar(c, P)
    BY Bars DEF HeldBar
  <2> HIDE DEF b, c, P
  <2>3. b = Holding(c.phase, c.tokens, P[c.node], c.matched, c.seq, P[c.owner])
    BY <2>1, <2>2, CallerHolds
  <2>4. /\ b.phase = c.phase /\ b.tokens = c.tokens /\ b.node = P[c.node]
        /\ b.matched = c.matched /\ b.seq = c.seq /\ b.owner = P[c.owner]
    BY <2>3 DEF Holding
  <2>5. b = Holding(b.phase, b.tokens, b.node, b.matched, b.seq, b.owner)
    BY <2>3, <2>4
  <2>6. \A x, y, z : HoldingChanges(b, x, y, z)
    BY ONLY <2>5, HoldingExcept
  <2>7. /\ b = Holding(c.phase, c.tokens, P[c.node], c.matched, c.seq, P[c.owner])
        /\ b.phase = c.phase /\ b.tokens = c.tokens /\ b.node = P[c.node]
        /\ b.matched = c.matched /\ b.seq = c.seq /\ b.owner = P[c.owner]
        /\ \A x, y, z : HoldingChanges(b, x, y, z)
    BY ONLY <2>3, <2>4, <2>6
  <2> QED BY <2>7 DEF InHeldBar, b, c, P
<1> QED BY <1>1, <1>2, <1>3, Bars

\* The guards of the calls say the same of both.
LEMMA SameGuards ==
    ASSUME IInv
    PROVE  /\ \A S : Index!Phases(S) = Having(held, S) /\ Phases(S) = Having(held, S)
           /\ Quiet <=> Having(held, Busy) = {}
           /\ Index!Quiet <=> Having(held, Busy) = {}
<1>1. \A r \in Requests : heldBar[r].phase = held[r].phase
  BY ThisState DEF InHeldBar
<1>2. \A S : Index!Phases(S) = Having(held, S) /\ Phases(S) = Having(held, S)
  BY <1>1 DEF Index!Phases, Phases, Having
<1> QED BY Zenon, <1>2 DEF Quiet, Index!Quiet, Busy

\* Two fields of an element of a function that change.
LEMMA TwoFields ==
    ASSUME NEW k, NEW n
    PROVE  \A tick : [k EXCEPT ![n].ref_count = @ + 1, ![n].last_access_tick = tick]
                       = [k EXCEPT ![n] = Referenced(@, tick)]
<1>1. CASE n \in DOMAIN k
  BY <1>1 DEF Referenced
<1>2. CASE n \notin DOMAIN k
  BY <1>2 DEF Referenced
<1> QED BY <1>1, <1>2

\* insert.
LEMMA InsertCall ==
    ASSUME IInv, NEW r \in Requests, NEW tokens \in Prompts, insert(r, tokens)
    PROVE  IInv' /\ Index!Insert(r, tokens)
<1>1. /\ HeapInv(heap, Paths(heap), held) /\ IsBar(treeBar, heap, Paths(heap))
      /\ heldBar = HeldBar(held, Paths(heap)) /\ InHeldBar(heldBar, r, held[r], Paths(heap))
  BY ThisState
<1>2. /\ held[r].phase = "none" /\ Having(held, Busy) = {} /\ Index!Quiet
      /\ tick_ \in Nat /\ tick_ < MaxTick /\ tick_' = tick_ + 1 /\ tokens \in Seq(Token)
  BY SameGuards, ConstantsAssumption DEF insert, IInv
<1>3. tick_' \in Nat /\ tick_' > tick_
  BY <1>2, ConstantsAssumption
<1>4. PICK f : f = WithLeaf(find_prefix_locked(heap, tokens), tokens, tick_')
  OBVIOUS
<1>5. PICK m : m = f.matched_tokens
  OBVIOUS
<1>6. /\ heap' = [f.heap EXCEPT ![f.node] = Referenced(@, tick_')]
      /\ held' = [held EXCEPT ![r] = Inserted(tokens, f.node, f.matched_tokens)]
  <2>1. /\ heap' = [f.heap EXCEPT ![f.node].ref_count = @ + 1,
                                  ![f.node].last_access_tick = tick_']
        /\ held' = [held EXCEPT ![r] = Inserted(tokens, f.node, f.matched_tokens)]
    BY Zenon, <1>4 DEF insert, Inserted
  <2> QED BY <2>1, TwoFields
<1>7. PICK Q, x : AsInsert(heap, Paths(heap), held, r, tokens, tick_', m, heap', held', Q, x)
  BY <1>1, <1>2, <1>3, <1>4, <1>5, <1>6, InsertStep
<1> DEFINE cut == SubSeq(tokens, 1, m)
<1>8. /\ HeapInv(heap', Q, held') /\ m \in 0 .. Len(tokens)
      /\ Index!Matches(treeBar, tokens, m) /\ Index!EdgeNode(treeBar, cut, x)
      /\ IsBar(Index!insert(treeBar, tokens, x, cut, tick_'), heap', Q)
      /\ HeldBar(held', Q) = [Relinked(heldBar, x, cut) EXCEPT
             ![r] = [Index!NoHandle EXCEPT !.phase = "inserted", !.tokens = tokens,
                                           !.node = tokens, !.matched = m]]
  BY <1>1, <1>7 DEF AsInsert
<1> HIDE DEF cut
<1>9. /\ IInv' /\ treeBar' = Index!insert(treeBar, tokens, x, cut, tick_')
      /\ heldBar' = HeldBar(held', Q)
  BY <1>3, <1>8, NextState DEF IInv
<1>10. x \in DOMAIN treeBar
  BY <1>8 DEF Index!EdgeNode
<1>11. Index!Insert(r, tokens)
  <2>1. Index!Ends(tokens, m, x)
    BY <1>8 DEF Index!Ends, Index!Prefix, cut
  <2>2. Relinked(heldBar, x, cut) = Index!Relink(x, cut)
    BY DEF Relinked, Index!Relink
  <2>3. Index!Quiet /\ heldBar[r].phase = "none"
    BY <1>1, <1>2 DEF InHeldBar
  <2>4. cut = Index!Prefix(tokens, m)
    BY DEF cut, Index!Prefix
  <2>5. heldBar' = [Index!Relink(x, cut) EXCEPT
             ![r] = [Index!NoHandle EXCEPT !.phase = "inserted", !.tokens = tokens,
                                           !.node = tokens, !.matched = m]]
    BY Zenon, <1>8, <1>9, <2>2
  <2> QED BY Zenon, <1>3, <1>8, <1>9, <1>10, <2>1, <2>3, <2>4, <2>5 DEF Index!Insert
<1> QED BY <1>9, <1>11

\* A caller in the state before a call: it and its node, field by field.
LEMMA CallerNode ==
    ASSUME IInv, NEW r \in Requests, NEW node, node \in {held[r].node, held[r].owner}
    PROVE  /\ node \in DOMAIN heap /\ Fields(heap[node])
           /\ IsCaller(held[r]) /\ r \in DOMAIN held
           /\ \A x, y, z : HoldingChanges(held[r], x, y, z)
           /\ \A rc, x, y, z, w : NodeChanges(heap[node], rc, x, y, z, w)
<1>1. Tree(heap, Paths(heap)) /\ Callers(heap, held)
  BY ThisState
<1>2. node \in DOMAIN heap /\ Fields(heap[node])
  BY <1>1 DEF Callers, Tree, Addresses
<1>3. IsCaller(held[r]) /\ r \in DOMAIN held
  BY <1>1 DEF Callers
<1>4. PICK c : c = held[r]
  OBVIOUS
<1>5. IsCaller(c)
  BY <1>3, <1>4
<1>6. c = Holding(c.phase, c.tokens, c.node, c.matched, c.seq, c.owner)
  BY <1>5, CallerHolds
<1>7. \A x, y, z : HoldingChanges(c, x, y, z)
  BY <1>6, HoldingExcept
<1>8. PICK n : n = heap[node]
  OBVIOUS
<1>9. \A rc, x, y, z, w : NodeChanges(n, rc, x, y, z, w)
  BY ONLY <1>2, <1>8, NodeExcept
<1> QED BY <1>2, <1>3, <1>4, <1>7, <1>8, <1>9

\* register_seq_id.
LEMMA RegisterCall ==
    ASSUME IInv, NEW r \in Requests, NEW s \in SeqIds, register_seq_id(r, s)
    PROVE  IInv' /\ Index!Register(r, s)
<1>1. /\ HeapInv(heap, Paths(heap), held) /\ IsBar(treeBar, heap, Paths(heap))
      /\ heldBar = HeldBar(held, Paths(heap)) /\ InHeldBar(heldBar, r, held[r], Paths(heap))
      /\ tick_ \in Nat
  BY ThisState DEF IInv
<1>2. /\ held[r].phase = "inserted" /\ tick_' = tick_
      /\ \A n \in DOMAIN heap : s \notin heap[n].seq_ids
  BY DEF register_seq_id
<1>3. PICK node, n, c : node = held[r].node /\ n = heap[node] /\ c = held[r]
  OBVIOUS
<1>4. PICK cl, v : /\ cl = IF n.canonical_len = 0 THEN Len(c.tokens) ELSE n.canonical_len
                   /\ v = NodeOf(n, n.ref_count, n.seq_ids \cup {s}, n.ready_seq_ids,
                                 n.last_access_tick, cl)
  OBVIOUS
<1>5. PICK e : e = Holding("pending", c.tokens, node, c.matched, s, node)
  OBVIOUS
<1>6. /\ node \in DOMAIN heap /\ HoldingChanges(c, "pending", s, node)
      /\ NodeChanges(n, n, n.seq_ids \cup {s}, n, n, cl)
  BY <1>3, CallerNode
<1>7. heap' = [heap EXCEPT ![node] = v]
  <2>1. heap' = [heap EXCEPT ![node].seq_ids = @ \cup {s}, ![node].canonical_len =
                                 IF @ = 0 THEN Len(c.tokens) ELSE @]
    BY <1>3 DEF register_seq_id
  <2>2. heap' = [heap EXCEPT ![node] =
                     [n EXCEPT !.seq_ids = n.seq_ids \cup {s}, !.canonical_len = cl]]
    BY <1>3, <1>4, <1>6, <2>1
  <2>3. [n EXCEPT !.seq_ids = n.seq_ids \cup {s}, !.canonical_len = cl] = v
    BY <1>4, <1>6 DEF NodeChanges
  <2> QED BY <2>2, <2>3
<1>8. Becomes(held, r, e, held')
  <2>1. held' = [held EXCEPT ![r] = [c EXCEPT !.phase = "pending", !.seq = s, !.owner = node]]
    BY <1>3 DEF register_seq_id
  <2>2. [c EXCEPT !.phase = "pending", !.seq = s, !.owner = node] = e
    BY <1>3, <1>5, <1>6 DEF HoldingChanges
  <2> QED BY <2>1, <2>2 DEF Becomes
<1>9. AsRegister(heap, Paths(heap), held, r, s, heap', held')
  <2>1. heap' = [heap EXCEPT ![node] = NodeOf(@, n.ref_count, n.seq_ids \cup {s},
                                              n.ready_seq_ids, n.last_access_tick, cl)]
    BY <1>3, <1>4, <1>7
  <2> QED BY ONLY <1>1, <1>2, <1>3, <1>4, <1>5, <1>8, <2>1, RegisterStep
<1>10. /\ HeapInv(heap', Paths(heap), held')
       /\ IsBar(Index!register_seq_id(treeBar, Paths(heap)[node], s, Len(c.tokens)),
                heap', Paths(heap))
       /\ Becomes(heldBar, r, Holding("pending", c.tokens, Paths(heap)[node], c.matched, s,
                                      Paths(heap)[node]), HeldBar(held', Paths(heap)))
  BY Zenon, <1>1, <1>3, <1>9 DEF AsRegister
<1>11. /\ IInv' /\ heldBar' = HeldBar(held', Paths(heap))
       /\ treeBar' = Index!register_seq_id(treeBar, Paths(heap)[node], s, Len(c.tokens))
  BY <1>1, <1>2, <1>10, NextState DEF IInv
<1>12. Index!Register(r, s)
  <2> DEFINE b == heldBar[r]
             p == Paths(heap)[node]
  <2>1. /\ b.phase = "inserted" /\ b.node = p /\ b.tokens = c.tokens /\ b.matched = c.matched
        /\ HoldingChanges(b, "pending", s, p)
    BY <1>1, <1>2, <1>3 DEF InHeldBar
  <2>2. \A q \in DOMAIN treeBar : s \notin treeBar[q].seq_ids
    <3>1. SUFFICES ASSUME NEW q \in DOMAIN treeBar PROVE s \notin treeBar[q].seq_ids
      OBVIOUS
    <3>2. PICK i \in DOMAIN heap : q = Paths(heap)[i]
      BY <1>1 DEF IsBar
    <3>3. treeBar[q].seq_ids = heap[i].seq_ids
      <4>1. treeBar[q] = Record(heap[i])
        BY Zenon, <1>1, <3>2 DEF IsBar
      <4> QED BY <4>1 DEF Record
    <3> QED BY <1>2, <3>3
  <2> HIDE DEF b, p
  <2>3. [b EXCEPT !.phase = "pending", !.seq = s, !.owner = p]
          = Holding("pending", c.tokens, p, c.matched, s, p)
    BY <2>1 DEF HoldingChanges
  <2>4. heldBar' = [heldBar EXCEPT ![r] =
                        [b EXCEPT !.phase = "pending", !.seq = s, !.owner = p]]
    BY <1>10, <1>11, <2>3 DEF Becomes, p
  <2>5. heldBar' = [heldBar EXCEPT ![r] =
                        [@ EXCEPT !.phase = "pending", !.seq = s, !.owner = heldBar[r].node]]
    BY <2>1, <2>4 DEF b
  <2>6. treeBar' = Index!register_seq_id(treeBar, heldBar[r].node, s, Len(heldBar[r].tokens))
    BY <1>11, <2>1 DEF b, p
  <2> QED BY Zenon, <1>2, <2>1, <2>2, <2>5, <2>6 DEF Index!Register, b
<1> QED BY <1>11, <1>12

\* mark_seq_id_ready.
LEMMA MarkReadyCall ==
    ASSUME IInv, NEW r \in Requests, mark_seq_id_ready(r)
    PROVE  IInv' /\ Index!MarkReady(r)
<1>1. /\ HeapInv(heap, Paths(heap), held) /\ IsBar(treeBar, heap, Paths(heap))
      /\ heldBar = HeldBar(held, Paths(heap)) /\ InHeldBar(heldBar, r, held[r], Paths(heap))
      /\ tick_ \in Nat
  BY ThisState DEF IInv
<1>2. held[r].phase = "pending" /\ tick_' = tick_ /\ Having(held, Busy) = {} /\ Index!Quiet
  BY SameGuards DEF mark_seq_id_ready
<1>3. PICK node, n, c, s : node = c.owner /\ n = heap[node] /\ c = held[r] /\ s = c.seq
  OBVIOUS
<1>4. PICK v : v = NodeOf(n, n.ref_count, n.seq_ids, n.ready_seq_ids \cup {s},
                          n.last_access_tick, n.canonical_len)
  OBVIOUS
<1>5. PICK e : e = Holding("ready", c.tokens, c.node, c.matched, s, node)
  OBVIOUS
<1>6. /\ node \in DOMAIN heap /\ HoldingChanges(c, "ready", s, node)
      /\ NodeChanges(n, n, n, n.ready_seq_ids \cup {s}, n, n)
  BY <1>3, CallerNode
<1>7. Becomes(held, r, e, held')
  <2>1. held' = [held EXCEPT ![r] = [c EXCEPT !.phase = "ready"]]
    BY <1>3 DEF mark_seq_id_ready
  <2>2. [c EXCEPT !.phase = "ready"] = e
    BY <1>3, <1>5, <1>6 DEF HoldingChanges
  <2> QED BY <2>1, <2>2 DEF Becomes
<1>8. PICK g : g = [heap EXCEPT ![node] = v]
  OBVIOUS
<1>9. AsMarkReady(heap, Paths(heap), held, r, g, held') /\ s \in n.seq_ids
  <2>1. g = [heap EXCEPT ![node] = NodeOf(@, n.ref_count, n.seq_ids, n.ready_seq_ids \cup {s},
                                          n.last_access_tick, n.canonical_len)]
    BY <1>3, <1>4, <1>8
  <2>2. /\ node = held[r].owner /\ s = held[r].seq
        /\ e = Holding("ready", held[r].tokens, held[r].node, held[r].matched, s, node)
    BY <1>3, <1>5
  <2> QED BY ONLY <1>1, <1>2, <1>3, <1>7, <2>1, <2>2, MarkReadyStep
<1>10. heap' = g
  <2>1. heap' = [heap EXCEPT ![node].ready_seq_ids = @ \cup {s}]
    BY <1>3, <1>9 DEF mark_seq_id_ready
  <2>2. heap' = [heap EXCEPT ![node] = [n EXCEPT !.ready_seq_ids = n.ready_seq_ids \cup {s}]]
    BY <1>3, <1>6, <2>1
  <2>3. [n EXCEPT !.ready_seq_ids = n.ready_seq_ids \cup {s}] = v
    BY <1>4, <1>6 DEF NodeChanges
  <2> QED BY <1>8, <2>2, <2>3
<1>11. /\ HeapInv(heap', Paths(heap), held')
       /\ IsBar(Index!mark_seq_id_ready(treeBar, Paths(heap)[node], s), heap', Paths(heap))
       /\ Becomes(heldBar, r, Holding("ready", c.tokens, Paths(heap)[c.node], c.matched, s,
                                      Paths(heap)[node]), HeldBar(held', Paths(heap)))
  BY Zenon, <1>1, <1>3, <1>9, <1>10 DEF AsMarkReady
<1>12. /\ IInv' /\ heldBar' = HeldBar(held', Paths(heap))
       /\ treeBar' = Index!mark_seq_id_ready(treeBar, Paths(heap)[node], s)
  BY <1>1, <1>2, <1>11, NextState DEF IInv
<1>13. Index!MarkReady(r)
  <2> DEFINE b == heldBar[r]
             p == Paths(heap)[node]
  <2>1. /\ b.phase = "pending" /\ b.node = Paths(heap)[c.node] /\ b.tokens = c.tokens
        /\ b.matched = c.matched /\ b.seq = s /\ b.owner = p
        /\ HoldingChanges(b, "ready", s, p)
    BY <1>1, <1>2, <1>3 DEF InHeldBar
  <2> HIDE DEF b, p
  <2>2. [b EXCEPT !.phase = "ready"]
          = Holding("ready", c.tokens, Paths(heap)[c.node], c.matched, s, p)
    BY <2>1 DEF HoldingChanges
  <2>3. heldBar' = [heldBar EXCEPT ![r] = [b EXCEPT !.phase = "ready"]]
    BY <1>11, <1>12, <2>2 DEF Becomes, p
  <2>4. heldBar' = [heldBar EXCEPT ![r].phase = "ready"]
    BY <2>3 DEF b
  <2>5. treeBar' = Index!mark_seq_id_ready(treeBar, heldBar[r].owner, heldBar[r].seq)
    BY <1>12, <2>1 DEF b, p
  <2> QED BY Zenon, <1>2, <2>1, <2>4, <2>5 DEF Index!MarkReady, b
<1> QED BY <1>12, <1>13

\* release_seq_id.
LEMMA ReleaseSeqCall ==
    ASSUME IInv, NEW r \in Requests, NEW retain \in BOOLEAN, release_seq_id(r, retain)
    PROVE  IInv' /\ Index!ReleaseSeq(r, retain)
<1>1. /\ HeapInv(heap, Paths(heap), held) /\ IsBar(treeBar, heap, Paths(heap))
      /\ heldBar = HeldBar(held, Paths(heap)) /\ InHeldBar(heldBar, r, held[r], Paths(heap))
      /\ tick_ \in Nat
  BY ThisState DEF IInv
<1>2. /\ \/ held[r].phase \in {"pending", "ready"} /\ Having(held, Busy) = {} /\ Index!Quiet
         \/ held[r].phase = "retiring"
      /\ tick_' = tick_
  BY SameGuards DEF release_seq_id
<1>3. PICK node, n, c, s : node = c.owner /\ n = heap[node] /\ c = held[r] /\ s = c.seq
  OBVIOUS
<1>4. PICK kept : kept = (\/ s \notin n.seq_ids
                          \/ retain /\ s \in n.ready_seq_ids /\ Cardinality(n.seq_ids) <= 1)
  OBVIOUS
<1>5. PICK e : e = Holding("released", c.tokens, c.node, c.matched, s, root_)
  OBVIOUS
<1>6. /\ node \in DOMAIN heap /\ HoldingChanges(c, "released", s, root_)
  BY <1>3, CallerNode
<1>7. Becomes(held, r, e, held')
  <2>1. held' = [held EXCEPT ![r] = [c EXCEPT !.phase = "released", !.owner = root_]]
    BY <1>3 DEF release_seq_id
  <2>2. [c EXCEPT !.phase = "released", !.owner = root_] = e
    BY <1>3, <1>5, <1>6 DEF HoldingChanges
  <2> QED BY <2>1, <2>2 DEF Becomes
<1>8. heap' = IF kept THEN heap ELSE [heap EXCEPT ![node] = Erased(@, s)]
  BY <1>3, <1>4 DEF release_seq_id
<1>9. AsReleaseSeq(heap, Paths(heap), held, r, retain, heap', held')
  <2>1. /\ node = held[r].owner /\ s = held[r].seq
        /\ e = Holding("released", held[r].tokens, held[r].node, held[r].matched, s, root_)
    BY <1>3, <1>5
  <2>2. \/ held[r].phase \in {"pending", "ready"} /\ Having(held, Busy) = {}
        \/ held[r].phase = "retiring"
    BY <1>2
  <2> QED BY ONLY <1>1, <1>3, <1>4, <1>7, <1>8, <2>1, <2>2, ReleaseSeqStep
<1> DEFINE p == Paths(heap)[node]
           t == IF Index!KeepsSeq(treeBar[p], s, retain) THEN treeBar
                ELSE [treeBar EXCEPT ![p] = Index!WithoutSeq(@, s)]
<1>10. /\ HeapInv(heap', Paths(heap), held') /\ IsBar(t, heap', Paths(heap))
       /\ Becomes(heldBar, r, Holding("released", c.tokens, Paths(heap)[c.node], c.matched, s,
                                      << >>), HeldBar(held', Paths(heap)))
  BY Zenon, <1>1, <1>3, <1>9 DEF AsReleaseSeq
<1> HIDE DEF t
<1>11. IInv' /\ heldBar' = HeldBar(held', Paths(heap)) /\ treeBar' = t
  BY <1>1, <1>2, <1>10, NextState DEF IInv
<1>12. Index!ReleaseSeq(r, retain)
  <2> DEFINE b == heldBar[r]
  <2>1. /\ b.phase = c.phase /\ b.node = Paths(heap)[c.node] /\ b.tokens = c.tokens
        /\ b.matched = c.matched /\ b.seq = s /\ b.owner = p
        /\ HoldingChanges(b, "released", s, << >>)
    BY <1>1, <1>3 DEF InHeldBar
  <2> HIDE DEF b, p
  <2>2. [b EXCEPT !.phase = "released", !.owner = << >>]
          = Holding("released", c.tokens, Paths(heap)[c.node], c.matched, s, << >>)
    BY <2>1 DEF HoldingChanges
  <2>3. heldBar' = [heldBar EXCEPT ![r] = [b EXCEPT !.phase = "released", !.owner = << >>]]
    BY <1>10, <1>11, <2>2 DEF Becomes
  <2>4. heldBar' = [heldBar EXCEPT ![r] =
                        [@ EXCEPT !.phase = "released", !.owner = Index!Root]]
    BY <2>3 DEF b, Index!Root
  <2>5. treeBar' = IF Index!KeepsSeq(treeBar[heldBar[r].owner], heldBar[r].seq, retain)
                   THEN treeBar
                   ELSE [treeBar EXCEPT ![heldBar[r].owner] =
                             Index!WithoutSeq(@, heldBar[r].seq)]
    BY <1>11, <2>1 DEF b, t
  <2>6. \/ Index!Quiet /\ heldBar[r].phase \in {"pending", "ready"}
        \/ heldBar[r].phase = "retiring"
    BY <1>2, <1>3, <2>1 DEF b
  <2> QED BY Zenon, <1>2, <2>4, <2>5, <2>6
             DEF Index!ReleaseSeq, Index!MayReleaseSeq, Index!SeqReleased
<1> QED BY <1>11, <1>12

\* release.
LEMMA ReleaseCall ==
    ASSUME IInv, NEW r \in Requests, release(r)
    PROVE  IInv' /\ Index!Release(r)
<1>1. /\ HeapInv(heap, Paths(heap), held) /\ IsBar(treeBar, heap, Paths(heap))
      /\ heldBar = HeldBar(held, Paths(heap)) /\ InHeldBar(heldBar, r, held[r], Paths(heap))
      /\ tick_ \in Nat
  BY ThisState DEF IInv
<1>2. held[r].phase \in {"inserted", "released"} /\ tick_' = tick_
  BY DEF release
<1>3. PICK node, n : node = held[r].node /\ n = heap[node]
  OBVIOUS
<1>4. PICK v : v = NodeOf(n, n.ref_count - 1, n.seq_ids, n.ready_seq_ids, n.last_access_tick,
                          n.canonical_len)
  OBVIOUS
<1>5. node \in DOMAIN heap /\ NodeChanges(n, n.ref_count - 1, n, n, n, n)
  BY <1>3, CallerNode
<1>6. Becomes(held, r, NoHandle, held')
  BY DEF release, Becomes
<1>7. PICK k, g : k = [heap EXCEPT ![node] = v] /\ g = prune_empty_leaves_locked(k, node)
  OBVIOUS
<1>8. AsRelease(heap, Paths(heap), held, r, g, held') /\ n.ref_count > 0
  <2>1. k = [heap EXCEPT ![node] = NodeOf(@, n.ref_count - 1, n.seq_ids, n.ready_seq_ids,
                                          n.last_access_tick, n.canonical_len)]
    BY <1>3, <1>4, <1>7
  <2> QED BY ONLY <1>1, <1>2, <1>3, <1>6, <1>7, <2>1, ReleaseStep
<1>9. heap' = g
  <2>1. heap' = prune_empty_leaves_locked([heap EXCEPT ![node].ref_count = @ - 1], node)
    BY Zenon, <1>3, <1>8 DEF release
  <2>2. [heap EXCEPT ![node].ref_count = @ - 1]
          = [heap EXCEPT ![node] = [n EXCEPT !.ref_count = n.ref_count - 1]]
    BY <1>3, <1>5
  <2>3. [n EXCEPT !.ref_count = n.ref_count - 1] = v
    BY <1>4, <1>5 DEF NodeChanges
  <2> QED BY Zenon, <1>7, <2>1, <2>2, <2>3
<1> DEFINE Q == Left(Paths(heap), heap')
           p == Paths(heap)[node]
<1>10. /\ HeapInv(heap', Q, held') /\ IsBar(Index!release(treeBar, p), heap', Q)
       /\ Becomes(heldBar, r, Index!NoHandle, HeldBar(held', Q))
  BY Zenon, <1>1, <1>3, <1>8, <1>9 DEF AsRelease
<1> HIDE DEF Q
<1>11. IInv' /\ heldBar' = HeldBar(held', Q) /\ treeBar' = Index!release(treeBar, p)
  BY <1>1, <1>2, <1>10, NextState DEF IInv
<1>12. Index!Release(r)
  <2>1. heldBar[r].phase = held[r].phase /\ heldBar[r].node = p
    BY <1>1, <1>3 DEF InHeldBar
  <2>2. heldBar' = [heldBar EXCEPT ![r] = Index!NoHandle]
    BY <1>10, <1>11 DEF Becomes
  <2> QED BY Zenon, <1>2, <1>11, <2>1, <2>2 DEF Index!Release
<1> QED BY <1>11, <1>12

\* evict.
LEMMA EvictCall ==
    ASSUME IInv, evict
    PROVE  IInv' /\ Index!Evict
<1>1. /\ HeapInv(heap, Paths(heap), held) /\ IsBar(treeBar, heap, Paths(heap))
      /\ heldBar = HeldBar(held, Paths(heap)) /\ Tree(heap, Paths(heap)) /\ tick_ \in Nat
  BY ThisState DEF IInv
<1>2. /\ Having(held, {"retiring"}) = {} /\ Index!Phases({"retiring", "released"}) = {}
      /\ tick_' = tick_ /\ held' = held
  <2>1. Having(held, {"retiring", "released"}) = {}
    BY SameGuards DEF evict
  <2>2. Having(held, {"retiring"}) = {}
    BY <2>1 DEF Having
  <2> QED BY <2>1, <2>2, SameGuards DEF evict
<1>3. PICK node \in find_eviction_candidates(heap) :
          heap' = prune_empty_leaves_locked(
                      [heap EXCEPT ![node] = [@ EXCEPT !.seq_ids = {}, !.ready_seq_ids = {},
                                                       !.canonical_len = 0]], node)
  BY DEF evict
<1>4. PICK n, v : n = heap[node] /\ v = NodeOf(n, n.ref_count, {}, {}, n.last_access_tick, 0)
  OBVIOUS
<1>5. NodeChanges(n, n, {}, {}, n, 0)
  <2>1. node \in DOMAIN heap
    BY <1>1, <1>3, IdleNodes DEF find_eviction_candidates
  <2>2. Fields(n)
    BY <1>1, <1>4, <2>1 DEF Tree, Addresses
  <2> QED BY <2>2, NodeExcept
<1>6. PICK k : k = [heap EXCEPT ![node] = v]
  OBVIOUS
<1>7. heap' = prune_empty_leaves_locked(k, node)
  <2>1. [heap EXCEPT ![node] = [@ EXCEPT !.seq_ids = {}, !.ready_seq_ids = {},
                                         !.canonical_len = 0]]
          = [heap EXCEPT ![node] = [n EXCEPT !.seq_ids = {}, !.ready_seq_ids = {},
                                             !.canonical_len = 0]]
    BY <1>4
  <2>2. [n EXCEPT !.seq_ids = {}, !.ready_seq_ids = {}, !.canonical_len = 0] = v
    BY <1>4, <1>5 DEF NodeChanges
  <2> QED BY Zenon, <1>3, <1>6, <2>1, <2>2
<1>8. AsEvict(heap, Paths(heap), held, node, heap')
  <2>1. k = [heap EXCEPT ![node] = NodeOf(@, n.ref_count, {}, {}, n.last_access_tick, 0)]
    BY <1>4, <1>6
  <2> QED BY ONLY <1>1, <1>2, <1>3, <1>4, <1>7, <2>1, EvictStep
<1> DEFINE Q == Left(Paths(heap), heap')
           p == Paths(heap)[node]
<1>9. /\ HeapInv(heap', Q, held') /\ IsBar(Index!evict(treeBar, p), heap', Q)
      /\ p \in Index!find_eviction_candidates(treeBar) /\ HeldBar(held', Q) = heldBar
  <2>1. HeapInv(heap', Q, held) /\ HeldBar(held, Q) = heldBar
    BY Zenon, <1>1, <1>8 DEF AsEvict
  <2> QED BY <1>1, <1>2, <1>8, <2>1 DEF AsEvict
<1> HIDE DEF Q
<1>10. IInv' /\ heldBar' = heldBar /\ treeBar' = Index!evict(treeBar, p)
  BY <1>1, <1>2, <1>9, NextState DEF IInv
<1>11. Index!Evict
  BY Zenon, <1>2, <1>9, <1>10 DEF Index!Evict
<1> QED BY <1>10, <1>11

\* A caller in the tree of paths after a split, field by field.
LEMMA RelinkedCaller ==
    ASSUME NEW b, NEW r \in Requests, NEW x, NEW cut, NEW a, a = Relinked(b, x, cut)[r],
           \A i, j, k : HoldingChanges(b[r], i, j, k)
    PROVE  \A i, j, k : HoldingChanges(a, i, j, k)
<1>1. PICK c, p, q : c = b[r] /\ p = Index!Follow(c.node, x, cut)
                     /\ q = Index!Follow(c.owner, x, cut)
  OBVIOUS
<1>2. a = [c EXCEPT !.node = p, !.owner = q]
  BY <1>1 DEF Relinked
<1>3. HoldingChanges(c, c, p, q)
  BY <1>1
<1>4. a = Holding(c.phase, c.tokens, p, c.matched, c.seq, q)
  BY Zenon, <1>2, <1>3 DEF HoldingChanges
<1>5. /\ a.phase = c.phase /\ a.tokens = c.tokens /\ a.node = p /\ a.matched = c.matched
      /\ a.seq = c.seq /\ a.owner = q
  BY <1>4 DEF Holding
<1>6. a = Holding(a.phase, a.tokens, a.node, a.matched, a.seq, a.owner)
  BY <1>4, <1>5
<1> QED BY ONLY <1>6, HoldingExcept

\* extend_seq_id.
LEMMA ExtendCall ==
    ASSUME IInv, NEW r \in Requests, NEW more \in Extensions, extend_seq_id(r, more)
    PROVE  IInv' /\ Index!Extend(r, more)
<1>1. /\ HeapInv(heap, Paths(heap), held) /\ IsBar(treeBar, heap, Paths(heap))
      /\ heldBar = HeldBar(held, Paths(heap)) /\ InHeldBar(heldBar, r, held[r], Paths(heap))
      /\ tick_ \in Nat
  BY ThisState DEF IInv
<1>2. /\ held[r].phase = "ready" /\ Having(held, Busy) = {} /\ Index!Quiet
  BY SameGuards DEF extend_seq_id
<1>3. PICK node, c, s : node = c.owner /\ c = held[r] /\ s = c.seq
  OBVIOUS
<1>4. PICK tokens : tokens = c.tokens \o more
  OBVIOUS
<1>5. PICK found, f : /\ found = find_prefix_locked(heap, tokens)
                      /\ f = WithLeaf(found, tokens, tick_ + 1)
  OBVIOUS
<1> PICK tick : tick = tick_ + 1
  OBVIOUS
<1>6. PICK k, target, m : k = f.heap /\ target = f.node /\ m = f.matched_tokens
  OBVIOUS
<1>7. PICK last : last = IF found.matched_tokens = Len(tokens) THEN tick_ + 1 ELSE tick_ + 2
  OBVIOUS
<1>8. last \in Nat /\ last > tick_ /\ tick_ + 1 \in Nat
  BY <1>1, <1>2, <1>7, ConstantsAssumption
<1> tick \in Nat
  BY <1>8
<1>9. PICK j, g : /\ j = [k EXCEPT ![node] = Erased(@, s)]
                  /\ g = [j EXCEPT ![target] = Readied(@, s, Len(tokens), last)]
  OBVIOUS
<1>10. PICK e : e = Holding("retiring", tokens, c.node, c.matched, s, target)
  OBVIOUS
<1>11. PICK h : Becomes(held, r, e, h)
  BY DEF Becomes
<1>12. /\ \E Q, x : AsExtend(heap, Paths(heap), held, r, tokens, last, m, g, h, Q, x)
       /\ s \in heap[node].ready_seq_ids /\ node # target
  <2>1. node = held[r].owner /\ s = held[r].seq
    BY <1>3
  <2>2. Extending(heap, held, r, more, tokens, tick, last, f, j, g, h)
    BY <1>2, <1>3, <1>4, <1>5, <1>6, <1>9, <1>10, <1>11 DEF Extending
  <2> QED BY ONLY <1>1, <1>2, <1>6, <1>8, <2>1, <2>2, ExtendStep, tick \in Nat
<1>13. /\ heap' = [k EXCEPT ![node] = Erased(@, s),
                            ![target] = Readied(@, s, Len(tokens), last)]
       /\ tick_' = last
       /\ held' = [held EXCEPT ![r] = [@ EXCEPT !.phase = "retiring", !.tokens = tokens,
                                                !.owner = target]]
  BY Zenon, <1>3, <1>4, <1>5, <1>6, <1>7, <1>12 DEF extend_seq_id
<1>14. heap' = g
  <2>1. PICK v : v = Erased(k[node], s)
    OBVIOUS
  <2>2. PICK w : w = Readied(k[target], s, Len(tokens), last)
    OBVIOUS
  <2>3. heap' = [k EXCEPT ![node] = v, ![target] = w]
    BY <1>12, <1>13, <2>1, <2>2 DEF Readied
  <2>4. j[target] = k[target]
    BY <1>9, <1>12
  <2>5. j = [k EXCEPT ![node] = v] /\ g = [j EXCEPT ![target] = w]
    BY <1>9, <2>1, <2>2, <2>4
  <2> QED BY <2>3, <2>5
<1>15. held' = h
  <2>1. HoldingChanges(c, "retiring", tokens, target)
    BY <1>3, CallerNode
  <2>2. held' = [held EXCEPT ![r] = [c EXCEPT !.phase = "retiring", !.tokens = tokens,
                                              !.owner = target]]
    BY <1>3, <1>13
  <2>3. [c EXCEPT !.phase = "retiring", !.tokens = tokens, !.owner = target] = e
    BY <1>3, <1>10, <2>1 DEF HoldingChanges
  <2> QED BY <1>11, <2>2, <2>3 DEF Becomes
<1>16. PICK Q, x : AsExtend(heap, Paths(heap), held, r, tokens, last, m, heap', held', Q, x)
  BY Zenon, <1>12, <1>14, <1>15
<1> DEFINE cut == SubSeq(tokens, 1, m)
           p == Paths(heap)[node]
           b == Relinked(heldBar, x, cut)
<1>17. /\ HeapInv(heap', Q, held') /\ m \in 0 .. Len(tokens)
       /\ Index!Matches(treeBar, tokens, m) /\ Index!EdgeNode(treeBar, cut, x)
       /\ IsBar(Index!extend_seq_id(treeBar, p, s, tokens, x, cut, last), heap', Q)
       /\ Becomes(b, r, Holding("retiring", tokens, b[r].node, b[r].matched, b[r].seq, tokens),
                  HeldBar(held', Q))
  BY Zenon, <1>1, <1>3, <1>16 DEF AsExtend
<1> HIDE DEF cut, b
<1>18. /\ IInv' /\ treeBar' = Index!extend_seq_id(treeBar, p, s, tokens, x, cut, last)
       /\ heldBar' = HeldBar(held', Q)
  BY <1>8, <1>13, <1>17, NextState DEF IInv
<1>19. Index!Extend(r, more)
  <2>1. /\ heldBar[r].phase = "ready" /\ heldBar[r].tokens = c.tokens /\ heldBar[r].owner = p
        /\ heldBar[r].seq = s
    BY <1>1, <1>2, <1>3 DEF InHeldBar
  <2>2. x \in DOMAIN treeBar
    BY <1>17 DEF Index!EdgeNode
  <2>3. Index!Ends(tokens, m, x) /\ cut = Index!Prefix(tokens, m)
    BY <1>17 DEF Index!Ends, Index!Prefix, cut
  <2>4. b = Index!Relink(x, cut)
    BY DEF b, Relinked, Index!Relink
  <2>5. heldBar' = [b EXCEPT ![r] = [b[r] EXCEPT !.phase = "retiring", !.tokens = tokens,
                                                 !.owner = tokens]]
    <3>1. \A i, o, q : HoldingChanges(heldBar[r], i, o, q)
      BY <1>1 DEF InHeldBar
    <3>2. PICK a : a = b[r]
      OBVIOUS
    <3>3. HoldingChanges(a, "retiring", tokens, tokens)
      BY <3>1, <3>2, RelinkedCaller DEF b
    <3>4. [a EXCEPT !.phase = "retiring", !.tokens = tokens, !.owner = tokens]
            = Holding("retiring", tokens, a.node, a.matched, a.seq, tokens)
      BY <3>3 DEF HoldingChanges
    <3> QED BY Zenon, <1>17, <1>18, <3>2, <3>4 DEF Becomes
  <2>6. heldBar' = [Index!Relink(x, cut) EXCEPT
             ![r] = [@ EXCEPT !.phase = "retiring", !.tokens = tokens, !.owner = tokens]]
    BY <2>4, <2>5
  <2>7. tick_' \in Nat /\ tick_' > tick_
    BY Zenon, <1>8, <1>13
  <2>8. treeBar' = Index!extend_seq_id(treeBar, heldBar[r].owner, heldBar[r].seq, tokens, x, cut,
                                       tick_')
    BY Zenon, <1>13, <1>18, <2>1
  <2>9. tokens = heldBar[r].tokens \o more
    BY Zenon, <1>4, <2>1
  <2> QED BY Zenon, <1>2, <1>17, <2>1, <2>2, <2>3, <2>6, <2>7, <2>8, <2>9 DEF Index!Extend
<1> QED BY <1>18, <1>19

\* RadixTree(): the root alone, which its one reference keeps, and callers that hold nothing.
LEMMA InitInv ==
    ASSUME Init
    PROVE  IInv /\ Index!Init
<1>1. PICK v : v = [RadixNode(<< >>, root_, 0) EXCEPT !.ref_count = 1]
  OBVIOUS
<1>2. heap = [n \in {root_} |-> v] /\ tick_ = 0 /\ held = [r \in Requests |-> NoHandle]
  BY <1>1 DEF Init
<1>3. v = [tokens |-> << >>, parent |-> root_, children |-> << >>, ref_count |-> 1,
           seq_ids |-> {}, ready_seq_ids |-> {}, last_access_tick |-> 0, canonical_len |-> 0]
  BY <1>1 DEF RadixNode
<1>4. /\ v.tokens = << >> /\ v.parent = root_ /\ DOMAIN v.children = {} /\ v.ref_count = 1
      /\ v.seq_ids = {} /\ v.ready_seq_ids = {} /\ v.last_access_tick = 0 /\ v.canonical_len = 0
  BY <1>3
<1>5. Fields(v)
  BY <1>3, <1>4, FS_EmptySet DEF Fields
<1> DEFINE P == [n \in {root_} |-> << >>]
<1>6. Tree(heap, P)
  <2>1. Addresses(heap)
    BY <1>2, <1>4, <1>5, FS_Singleton DEF Addresses, root_
  <2>2. Hangs(heap)
    BY <1>2 DEF Hangs
  <2>3. Files(heap)
    BY <1>2, <1>4 DEF Files
  <2>4. IsPaths(heap, P)
    <3>1. DOMAIN heap = {root_}
      BY <1>2
    <3>2. << >> \in Seq(Token)
      OBVIOUS
    <3>3. P \in [{root_} -> Seq(Token)] /\ P[root_] = << >>
      BY <3>2
    <3> QED BY ONLY <3>1, <3>3 DEF IsPaths
  <2> QED BY <2>1, <2>2, <2>3, <2>4 DEF Tree
<1>7. \A r \in Requests : /\ held[r] = NoHandle /\ IsCaller(held[r]) /\ held[r].phase = "none"
                          /\ held[r].node = root_ /\ held[r].owner = root_
  <2>1. PICK c : c = NoHandle
    OBVIOUS
  <2>2. IsCaller(c) /\ c.phase = "none" /\ c.node = root_ /\ c.owner = root_
    BY <2>1 DEF NoHandle, IsCaller
  <2> QED BY <1>2, <2>1, <2>2
<1>8. Callers(heap, held)
  BY <1>2, <1>7 DEF Callers
<1>9. Counts(heap, held)
  <2>1. \A n : Holders(held, n) = {}
    BY <1>7 DEF Holders
  <2>2. DOMAIN heap = {root_} /\ heap[root_].ref_count = 1
    BY <1>2, <1>4
  <2>3. IsFiniteSet({}) /\ Cardinality({}) = 0
    BY FS_EmptySet
  <2> QED BY ONLY <2>1, <2>2, <2>3 DEF Counts
<1>10. OneBusy(held) /\ OwnSeqs(held) /\ \A r \in Requests : Owns(heap, P, held[r])
  BY <1>7 DEF OneBusy, OwnSeqs, Owns, Having
<1>11. HeapInv(heap, P, held)
  BY <1>6, <1>8, <1>9, <1>10 DEF HeapInv
<1>12. Paths(heap) = P
  BY <1>6, PathsUnique
<1>13. IInv
  BY <1>2, <1>11, <1>12 DEF IInv
<1>14. treeBar = Index!EmptyTree
  <2>1. IsBar(treeBar, heap, P)
    BY <1>12, <1>13, ThisState
  <2>2. Index!EmptyTree = [p \in {<< >>} |-> Record(v)]
    <3>1. PICK n : n = Index!NewNode(0)
      OBVIOUS
    <3>2. n = Data(0, {}, {}, 0, 0)
      BY <3>1 DEF Index!NewNode, Data
    <3>3. n = Data(n.ref_count, n.seq_ids, n.ready_seq_ids, n.last_access_tick, n.canonical_len)
      BY <3>2 DEF Data
    <3>4. DataChanges(n, 1, n, n, n, n)
      BY ONLY <3>3, DataExcept
    <3>5. [n EXCEPT !.ref_count = 1]
            = Data(1, n.seq_ids, n.ready_seq_ids, n.last_access_tick, n.canonical_len)
      BY Zenon, <3>4 DEF DataChanges
    <3>6. Record(v) = Data(1, {}, {}, 0, 0)
      BY <1>4 DEF Record, Data
    <3>7. [n EXCEPT !.ref_count = 1] = Record(v)
      BY <3>2, <3>5, <3>6 DEF Data
    <3> QED BY <3>1, <3>7 DEF Index!EmptyTree, Index!Root
  <2>3. IsBar(Index!EmptyTree, heap, P)
    <3>1. DOMAIN heap = {root_} /\ heap[root_] = v /\ P[root_] = << >>
      BY <1>2
    <3>2. PICK t : t = Index!EmptyTree
      OBVIOUS
    <3>3. /\ DOMAIN t = {<< >>} /\ t[<< >>] = Record(v) /\ t = [p \in DOMAIN t |-> t[p]]
      BY <2>2, <3>2
    <3> HIDE DEF P
    <3> QED BY ONLY <3>1, <3>2, <3>3 DEF IsBar
  <2> QED BY <2>1, <2>3, BarUnique
<1>15. heldBar = [r \in Requests |-> Index!NoHandle]
  <2>1. CallerBar(NoHandle, P) = Index!NoHandle
    <3>1. P[root_] = << >>
      OBVIOUS
    <3> HIDE DEF P
    <3> QED BY <3>1, NothingHeld
  <2>2. heldBar = HeldBar(held, P)
    BY <1>12, <1>13, ThisState
  <2> QED BY Zenon, <1>7, <2>1, <2>2 DEF HeldBar
<1> QED BY <1>2, <1>13, <1>14, <1>15 DEF Index!Init

\* Nothing changes.
LEMMA NothingCalled ==
    ASSUME IInv, UNCHANGED vars
    PROVE  IInv' /\ UNCHANGED <<treeBar, tick_, heldBar>>
<1>1. heap' = heap /\ tick_' = tick_ /\ held' = held
  BY DEF vars
<1>2. Paths(heap') = Paths(heap)
  BY <1>1
<1> QED BY Zenon, <1>1, <1>2, Bars, BarsNext DEF IInv

\* Every call keeps the invariant, and is the call of the same name on paths.
LEMMA NextCalls ==
    ASSUME IInv, [Next]_vars
    PROVE  IInv' /\ [Index!Next]_<<treeBar, tick_, heldBar>>
<1>1. ASSUME NEW r \in Requests, NEW tokens \in Prompts, insert(r, tokens)
      PROVE  IInv' /\ Index!Next
  BY <1>1, InsertCall DEF Index!Next
<1>2. ASSUME NEW r \in Requests, NEW s \in SeqIds, register_seq_id(r, s)
      PROVE  IInv' /\ Index!Next
  BY <1>2, RegisterCall DEF Index!Next
<1>3. ASSUME NEW r \in Requests, mark_seq_id_ready(r)
      PROVE  IInv' /\ Index!Next
  BY <1>3, MarkReadyCall DEF Index!Next
<1>4. ASSUME NEW r \in Requests, NEW more \in Extensions, extend_seq_id(r, more)
      PROVE  IInv' /\ Index!Next
  BY <1>4, ExtendCall DEF Index!Next
<1>5. ASSUME NEW r \in Requests, NEW retain \in BOOLEAN, release_seq_id(r, retain)
      PROVE  IInv' /\ Index!Next
  BY <1>5, ReleaseSeqCall DEF Index!Next
<1>6. ASSUME NEW r \in Requests, release(r)
      PROVE  IInv' /\ Index!Next
  BY <1>6, ReleaseCall DEF Index!Next
<1>7. ASSUME evict
      PROVE  IInv' /\ Index!Next
  BY <1>7, EvictCall DEF Index!Next
<1>8. CASE Next
  BY Zenon, <1>1, <1>2, <1>3, <1>4, <1>5, <1>6, <1>7, <1>8 DEF Next
<1>9. CASE UNCHANGED vars
  BY <1>9, NothingCalled
<1> QED BY <1>8, <1>9

\* The nodes and pointers of the class RadixTree always form a tree, and the callers hold
\* what the phases of their calls say.
THEOREM PointerInvariance == Spec => []IInv
<1>1. Init => IInv
  BY InitInv
<1>2. IInv /\ [Next]_vars => IInv'
  BY NextCalls
<1> QED BY <1>1, <1>2, PTL DEF Spec

\* Children and parents agree, every edge is filed under its first token, every node hangs
\* below the root, and no caller holds a pointer to a deleted node, whatever split_node has
\* moved and prune_empty_leaves_locked deleted.
THEOREM PointersAlwaysValid == Spec => []PointersValid
<1>1. ASSUME IInv PROVE PointersValid
  <2>1. Tree(heap, Paths(heap)) /\ Callers(heap, held)
    BY <1>1, ThisState
  <2>2. ASSUME NEW n \in DOMAIN heap, NEW t \in DOMAIN heap[n].children
        PROVE  LET c == heap[n].children[t]
               IN  /\ c \in DOMAIN heap /\ heap[c].parent = n
                   /\ heap[c].tokens # << >> /\ heap[c].tokens[1] = t
    BY <2>1 DEF Tree, Hangs, Files
  <2>3. Searched(heap, root_) = DOMAIN heap
    BY <2>1, SearchedAll
  <2>4. \A r \in Requests : {held[r].node, held[r].owner} \subseteq DOMAIN heap
    BY <2>1 DEF Callers
  <2> QED BY Zenon, <2>2, <2>3, <2>4 DEF PointersValid
<1>2. IInv => PointersValid
  BY <1>1
<1> QED BY <1>2, PointerInvariance, PTL

\* Every call of the class does to the nodes and pointers what module RadixIndex says of
\* token paths: the tree on which the mapper is modelled and proved is the one in radix_tree.cpp.
THEOREM PointersImplementIndex == Spec => ImplementsIndex
<1>1. Init => Index!Init
  BY InitInv
<1>2. IInv /\ [Next]_vars => [Index!Next]_<<treeBar, tick_, heldBar>>
  BY NextCalls
<1> QED BY <1>1, <1>2, PointerInvariance, PTL DEF Spec, ImplementsIndex, Index!Spec, Index!vars

-----------------------------------------------------------------------------
(* The lookups *)

\* The loop of cumulative_token_depth towards the root counts the tokens of the path.
LEMMA DepthFacts ==
    ASSUME NEW h, NEW P, Tree(h, P), NEW n \in DOMAIN h
    PROVE  cumulative_token_depth(h, n) = Len(P[n])
<1> DEFINE R(g) == [m \in DOMAIN h |->
                       Len(h[m].tokens) + IF m = root_ THEN 0 ELSE g[h[m].parent]]
           f == CHOOSE g : g = R(g)
<1>1. PICK D : D = [m \in DOMAIN h |-> Len(P[m])]
  OBVIOUS
<1>2. D = R(D)
  <2>1. ASSUME NEW m \in DOMAIN h
        PROVE  D[m] = Len(h[m].tokens) + IF m = root_ THEN 0 ELSE D[h[m].parent]
    <3>1. CASE m = root_
      <4>1. h[m].tokens = << >> /\ P[m] = << >>
        BY <3>1 DEF Tree, Addresses, IsPaths
      <4>2. Len(h[m].tokens) = 0 /\ Len(P[m]) = 0
        BY <4>1
      <4>3. D[m] = Len(P[m])
        BY <1>1
      <4> QED BY <3>1, <4>2, <4>3
    <3>2. CASE m # root_
      <4>1. Edge(h, P, m)
        BY <3>2, EdgeFacts
      <4>2. /\ h[m].parent \in DOMAIN h /\ Len(h[m].tokens) \in Nat /\ Len(P[h[m].parent]) \in Nat
            /\ Len(P[m]) = Len(P[h[m].parent]) + Len(h[m].tokens)
        BY <4>1 DEF Edge
      <4> DEFINE rest == IF m = root_ THEN 0 ELSE D[h[m].parent]
      <4>3. D[m] = Len(P[m]) /\ rest = Len(P[h[m].parent])
        BY <1>1, <3>2, <4>2
      <4> HIDE DEF rest
      <4> DEFINE x == Len(h[m].tokens)
                 y == Len(P[h[m].parent])
                 z == Len(P[m])
      <4>4. x \in Nat /\ y \in Nat /\ z = y + x /\ D[m] = z /\ rest = y
        BY <4>2, <4>3
      <4> HIDE DEF x, y, z
      <4>5. D[m] = x + rest
        BY <4>4
      <4> QED BY <4>5 DEF x, rest
    <3> QED BY <3>1, <3>2
  <2> QED BY <1>1, <2>1
<1>3. f = R(f)
  <2>1. \E g : g = R(g)
    BY <1>2
  <2> HIDE DEF R
  <2> QED BY <2>1
<1>4. cumulative_token_depth(h, n) = f[n]
  BY DEF cumulative_token_depth
<1> HIDE DEF f
<1>5. \A m \in DOMAIN h : /\ f[m] = Len(h[m].tokens) + IF m = root_ THEN 0 ELSE f[h[m].parent]
                          /\ D[m] = Len(h[m].tokens) + IF m = root_ THEN 0 ELSE D[h[m].parent]
  BY <1>2, <1>3
<1>6. f[n] = D[n]
  <2> DEFINE T == {k \in Nat : \E m \in DOMAIN h : f[m] # D[m] /\ k = Len(P[m])}
  <2>1. SUFFICES ASSUME T # {} PROVE FALSE
    BY PathType
  <2>2. PICK k \in T : \A j \in T : k <= j
    BY <2>1, LeastElement
  <2>3. PICK m \in DOMAIN h : f[m] # D[m] /\ k = Len(P[m])
    BY <2>2
  <2>4. m # root_
    BY <1>5, <2>3
  <2>5. /\ h[m].parent \in DOMAIN h /\ Len(P[h[m].parent]) \in Nat /\ Len(P[m]) \in Nat
        /\ Len(P[h[m].parent]) < Len(P[m])
    BY <2>3, <2>4, EdgeFacts DEF Edge
  <2>6. f[h[m].parent] = D[h[m].parent]
    BY <2>2, <2>3, <2>5
  <2> QED BY Zenon, <1>5, <2>3, <2>4, <2>6
<1> QED BY <1>1, <1>4, <1>6

\* The nodes on the way from the root to a node that hold a ready sequence.
ReadyAbove(h, P, n) == {m \in DOMAIN h : P[m] \sqsubseteq P[n] /\ h[m].ready_seq_ids # {}}

\* Those at or below it.
ReadyBelow(h, P, n) == {m \in DOMAIN h : P[n] \sqsubseteq P[m] /\ h[m].ready_seq_ids # {}}

\* The deepest and the topmost of such nodes.
Deepest(P, S) == {m \in S : \A q \in S : P[q] \sqsubseteq P[m]}
Topmost(P, S) == {m \in S : \A q \in S : P[q] \sqsubseteq P[m] => q = m}

\* What is ready above a node, from what is ready above its parent.
LEMMA ReadyAboveFacts ==
    ASSUME NEW h, NEW P, Tree(h, P), NEW n \in DOMAIN h
    PROVE  /\ h[n].ready_seq_ids # {} => Deepest(P, ReadyAbove(h, P, n)) = {n}
           /\ h[n].ready_seq_ids = {} =>
                  ReadyAbove(h, P, n) = IF n = root_ THEN {} ELSE ReadyAbove(h, P, h[n].parent)
           /\ ReadyAbove(h, P, n) # {} => Deepest(P, ReadyAbove(h, P, n)) # {}
<1> DEFINE U == ReadyAbove(h, P, n)
<1>1. \A m \in DOMAIN h : P[m] \in Seq(Token) /\ Len(P[m]) \in Nat /\ P[m] \sqsubseteq P[m]
  BY PathType, PrefixOrder
<1>2. ASSUME h[n].ready_seq_ids # {} PROVE Deepest(P, U) = {n}
  <2>1. n \in U /\ \A q \in U : q \in DOMAIN h /\ P[q] \sqsubseteq P[n]
    BY <1>1, <1>2 DEF ReadyAbove
  <2> HIDE DEF U
  <2>2. n \in Deepest(P, U)
    BY <2>1 DEF Deepest
  <2>3. ASSUME NEW m \in Deepest(P, U) PROVE m = n
    <3>1. m \in DOMAIN h /\ P[m] \sqsubseteq P[n] /\ P[n] \sqsubseteq P[m]
      BY <2>1 DEF Deepest
    <3>2. P[m] \in Seq(Token) /\ P[n] \in Seq(Token)
      BY <1>1, <3>1
    <3>3. P[m] = P[n]
      BY <3>1, <3>2, PrefixOrder
    <3> QED BY <3>1, <3>3, PathsInjective
  <2> QED BY <2>2, <2>3
<1>3. ASSUME h[n].ready_seq_ids = {}, n = root_ PROVE U = {}
  <2> SUFFICES ASSUME NEW m \in U PROVE FALSE
    OBVIOUS
  <2>1. m \in DOMAIN h /\ P[m] \sqsubseteq P[root_] /\ h[m].ready_seq_ids # {}
    BY <1>3 DEF ReadyAbove
  <2>2. m # root_
    BY <1>3, <2>1
  <2>3. root_ \in DOMAIN h
    BY <1>3
  <2> QED BY <2>1, <2>2, <2>3, PrefixOfParent
<1>4. ASSUME h[n].ready_seq_ids = {}, n # root_ PROVE U = ReadyAbove(h, P, h[n].parent)
  <2> DEFINE a == h[n].parent
  <2>1. a \in DOMAIN h /\ P[a] \sqsubseteq P[n]
    BY <1>4, EdgeFacts DEF Edge
  <2> HIDE DEF a
  <2>2. ASSUME NEW m \in DOMAIN h, P[m] \sqsubseteq P[a] PROVE P[m] \sqsubseteq P[n]
    <3>1. P[m] \in Seq(Token) /\ P[a] \in Seq(Token) /\ P[n] \in Seq(Token)
      BY <1>1, <2>1
    <3> QED BY <2>1, <2>2, <3>1, PrefixChain
  <2>3. ASSUME NEW m \in DOMAIN h, P[m] \sqsubseteq P[n], m # n PROVE P[m] \sqsubseteq P[a]
    BY <2>3, PrefixOfParent DEF a
  <2>4. U = ReadyAbove(h, P, a)
    BY <1>4, <2>2, <2>3 DEF ReadyAbove
  <2> QED BY <2>4 DEF a
<1>5. ASSUME U # {} PROVE Deepest(P, U) # {}
  <2>1. \A m \in U : m \in DOMAIN h /\ P[m] \sqsubseteq P[n]
    BY DEF ReadyAbove
  <2> HIDE DEF U
  <2>2. \A m \in U : P[m] \in Seq(Token) /\ Len(P[m]) \in Nat /\ Len(P[m]) <= Len(P[n])
    <3> SUFFICES ASSUME NEW m \in U
                 PROVE  P[m] \in Seq(Token) /\ Len(P[m]) \in Nat /\ Len(P[m]) <= Len(P[n])
      OBVIOUS
    <3>1. P[m] \in Seq(Token) /\ P[n] \in Seq(Token) /\ Len(P[m]) \in Nat /\ P[m] \sqsubseteq P[n]
      BY <1>1, <2>1
    <3>2. Len(P[m]) <= Len(P[n])
      BY <3>1, PrefixOrder
    <3> QED BY <3>1, <3>2
  <2> DEFINE T == {k \in Nat : \E m \in U : k = Len(P[n]) - Len(P[m])}
  <2>3. T \in SUBSET Nat /\ T # {}
    <3>1. PICK m \in U : TRUE
      BY <1>5
    <3>2. Len(P[n]) - Len(P[m]) \in Nat
      BY <1>1, <2>2
    <3> QED BY <3>2
  <2>4. PICK k \in T : \A j \in T : k <= j
    BY <2>3, LeastElement
  <2>5. PICK m \in U : k = Len(P[n]) - Len(P[m])
    BY <2>4
  <2>6. ASSUME NEW q \in U PROVE P[q] \sqsubseteq P[m]
    <3>1. Len(P[n]) \in Nat /\ Len(P[m]) \in Nat /\ Len(P[q]) \in Nat /\ Len(P[q]) <= Len(P[n])
      BY <1>1, <2>2
    <3>2. Len(P[q]) <= Len(P[m])
      <4>1. Len(P[n]) - Len(P[q]) \in Nat
        BY <3>1
      <4>2. Len(P[n]) - Len(P[m]) <= Len(P[n]) - Len(P[q])
        BY <2>4, <2>5, <4>1
      <4> QED BY <3>1, <4>2
    <3>3. /\ P[q] \in Seq(Token) /\ P[m] \in Seq(Token) /\ P[n] \in Seq(Token)
          /\ P[q] \sqsubseteq P[n] /\ P[m] \sqsubseteq P[n]
      BY <1>1, <2>1, <2>2
    <3> QED BY <3>2, <3>3, PrefixChain
  <2> QED BY <2>6 DEF Deepest
<1> QED BY Zenon, <1>2, <1>3, <1>4, <1>5

\* The search of find_covering_seq_id_locked towards the root ends at the deepest node that
\* holds a ready sequence.
LEMMA AboveFacts ==
    ASSUME NEW h, NEW P, Tree(h, P), NEW n \in DOMAIN h
    PROVE  Above(h, n) = Deepest(P, ReadyAbove(h, P, n))
<1> DEFINE R(g) == [m \in DOMAIN h |-> IF h[m].ready_seq_ids # {} THEN {m}
                                       ELSE IF m = root_ THEN {} ELSE g[h[m].parent]]
           f == CHOOSE g : g = R(g)
<1>1. PICK D : D = [m \in DOMAIN h |-> Deepest(P, ReadyAbove(h, P, m))]
  OBVIOUS
<1>2. D = R(D)
  <2>1. ASSUME NEW m \in DOMAIN h
        PROVE  D[m] = IF h[m].ready_seq_ids # {} THEN {m}
                      ELSE IF m = root_ THEN {} ELSE D[h[m].parent]
    <3>1. D[m] = Deepest(P, ReadyAbove(h, P, m))
      BY <1>1
    <3>2. CASE h[m].ready_seq_ids # {}
      BY <3>1, <3>2, ReadyAboveFacts
    <3>3. CASE h[m].ready_seq_ids = {} /\ m = root_
      <4>1. ReadyAbove(h, P, m) = {}
        BY <3>3, ReadyAboveFacts
      <4> QED BY <3>1, <3>3, <4>1 DEF Deepest
    <3>4. CASE h[m].ready_seq_ids = {} /\ m # root_
      <4>1. ReadyAbove(h, P, m) = ReadyAbove(h, P, h[m].parent)
        BY <3>4, ReadyAboveFacts
      <4>2. h[m].parent \in DOMAIN h
        BY <3>4, EdgeFacts DEF Edge
      <4>3. D[h[m].parent] = Deepest(P, ReadyAbove(h, P, h[m].parent))
        BY <1>1, <4>2
      <4> QED BY <3>1, <3>4, <4>1, <4>3
    <3> QED BY <3>2, <3>3, <3>4
  <2> QED BY <1>1, <2>1
<1>3. f = R(f)
  <2>1. \E g : g = R(g)
    BY <1>2
  <2> HIDE DEF R
  <2> QED BY <2>1
<1>4. Above(h, n) = f[n]
  BY DEF Above
<1> HIDE DEF f
<1>5. \A m \in DOMAIN h :
          /\ f[m] = IF h[m].ready_seq_ids # {} THEN {m}
                    ELSE IF m = root_ THEN {} ELSE f[h[m].parent]
          /\ D[m] = IF h[m].ready_seq_ids # {} THEN {m}
                    ELSE IF m = root_ THEN {} ELSE D[h[m].parent]
  BY <1>2, <1>3
<1>6. f[n] = D[n]
  <2> DEFINE T == {k \in Nat : \E m \in DOMAIN h : f[m] # D[m] /\ k = Len(P[m])}
  <2>1. SUFFICES ASSUME T # {} PROVE FALSE
    BY PathType
  <2>2. PICK k \in T : \A j \in T : k <= j
    BY <2>1, LeastElement
  <2>3. PICK m \in DOMAIN h : f[m] # D[m] /\ k = Len(P[m])
    BY <2>2
  <2>4. m # root_
    BY <1>5, <2>3
  <2>5. /\ h[m].parent \in DOMAIN h /\ Len(P[h[m].parent]) \in Nat /\ Len(P[m]) \in Nat
        /\ Len(P[h[m].parent]) < Len(P[m])
    BY <2>3, <2>4, EdgeFacts DEF Edge
  <2>6. f[h[m].parent] = D[h[m].parent]
    BY <2>2, <2>3, <2>5
  <2> QED BY Zenon, <1>5, <2>3, <2>4, <2>6
<1> QED BY <1>1, <1>4, <1>6

\* Where no node on the way to n is ready, what is ready below it lies below its children,
\* and nothing on the way to a child is ready but the child.
LEMMA ReadyBelowFacts ==
    ASSUME NEW h, NEW P, Tree(h, P), NEW n \in DOMAIN h, ReadyAbove(h, P, n) = {},
           NEW c \in Range(h[n].children)
    PROVE  /\ c \in DOMAIN h /\ ReadyBelow(h, P, c) \subseteq ReadyBelow(h, P, n)
           /\ h[c].ready_seq_ids = {} => ReadyAbove(h, P, c) = {}
           /\ \A m \in ReadyBelow(h, P, c), q \in ReadyBelow(h, P, n) :
                  P[q] \sqsubseteq P[m] => q \in ReadyBelow(h, P, c)
<1>1. \A m \in DOMAIN h : P[m] \in Seq(Token) /\ Len(P[m]) \in Nat /\ P[m] \sqsubseteq P[m]
  BY PathType, PrefixOrder
<1>2. c \in DOMAIN h /\ c # root_ /\ h[c].parent = n
  BY KidsFacts
<1>3. P[n] \sqsubseteq P[c]
  BY <1>2, EdgeFacts DEF Edge
<1>4. ASSUME NEW m \in ReadyBelow(h, P, c) PROVE m \in ReadyBelow(h, P, n)
  <2>1. m \in DOMAIN h /\ P[c] \sqsubseteq P[m] /\ h[m].ready_seq_ids # {}
    BY DEF ReadyBelow
  <2>2. P[n] \in Seq(Token) /\ P[c] \in Seq(Token) /\ P[m] \in Seq(Token)
    BY <1>1, <1>2, <2>1
  <2>3. P[n] \sqsubseteq P[m]
    BY <1>3, <2>1, <2>2, PrefixChain
  <2> QED BY <2>1, <2>3 DEF ReadyBelow
<1>5. ASSUME h[c].ready_seq_ids = {} PROVE ReadyAbove(h, P, c) = {}
  BY <1>2, <1>5, ReadyAboveFacts
<1>6. ASSUME NEW m \in ReadyBelow(h, P, c), NEW q \in ReadyBelow(h, P, n), P[q] \sqsubseteq P[m]
      PROVE  q \in ReadyBelow(h, P, c)
  <2>1. /\ m \in DOMAIN h /\ P[c] \sqsubseteq P[m]
        /\ q \in DOMAIN h /\ P[n] \sqsubseteq P[q] /\ h[q].ready_seq_ids # {}
    BY DEF ReadyBelow
  <2>2. /\ P[c] \in Seq(Token) /\ P[m] \in Seq(Token) /\ P[q] \in Seq(Token) /\ P[n] \in Seq(Token)
        /\ Len(P[c]) \in Nat /\ Len(P[q]) \in Nat
    BY <1>1, <1>2, <2>1
  <2>3. CASE Len(P[c]) <= Len(P[q])
    <3>1. P[c] \sqsubseteq P[q]
      BY <1>6, <2>1, <2>2, <2>3, PrefixChain
    <3> QED BY <2>1, <3>1 DEF ReadyBelow
  <2>4. CASE Len(P[q]) < Len(P[c])
    <3>1. P[q] \sqsubseteq P[c]
      BY <1>6, <2>1, <2>2, <2>4, PrefixChain
    <3>2. q # c
      BY <2>2, <2>4
    <3>3. P[q] \sqsubseteq P[n]
      BY <1>2, <2>1, <3>1, <3>2, PrefixOfParent
    <3>4. q \in ReadyAbove(h, P, n)
      BY <2>1, <3>3 DEF ReadyAbove
    <3> QED BY <3>4
  <2> QED BY <2>2, <2>3, <2>4
<1> QED BY <1>2, <1>4, <1>5, <1>6

\* The node whose sequence the search of find_covering_seq_id_locked answers.
Covering(h, P, n) ==
    IF ReadyAbove(h, P, n) # {} THEN Deepest(P, ReadyAbove(h, P, n))
                                ELSE Topmost(P, ReadyBelow(h, P, n))

\* The search below a node that nothing on the way covers is a search below its children.
LEMMA CoveringFacts ==
    ASSUME NEW h, NEW P, Tree(h, P), NEW n \in DOMAIN h, ReadyAbove(h, P, n) = {}
    PROVE  Covering(h, P, n) = UNION {Covering(h, P, c) : c \in Range(h[n].children)}
<1>1. \A m \in DOMAIN h : P[m] \in Seq(Token) /\ P[m] \sqsubseteq P[m]
  BY PathType, PrefixOrder
<1>2. Covering(h, P, n) = Topmost(P, ReadyBelow(h, P, n))
  BY DEF Covering
<1>3. ASSUME NEW c \in Range(h[n].children)
      PROVE  Covering(h, P, c) = Topmost(P, ReadyBelow(h, P, c))
  <2>1. c \in DOMAIN h
    BY ReadyBelowFacts
  <2>2. CASE h[c].ready_seq_ids = {}
    <3>1. ReadyAbove(h, P, c) = {}
      BY <2>2, ReadyBelowFacts
    <3> QED BY <3>1 DEF Covering
  <2>3. CASE h[c].ready_seq_ids # {}
    <3> DEFINE S == ReadyBelow(h, P, c)
    <3>1. Deepest(P, ReadyAbove(h, P, c)) = {c}
      BY <2>1, <2>3, ReadyAboveFacts
    <3>2. c \in ReadyAbove(h, P, c)
      BY <1>1, <2>1, <2>3 DEF ReadyAbove
    <3>3. Covering(h, P, c) = {c}
      BY <3>1, <3>2 DEF Covering
    <3>4. c \in S /\ \A q \in S : q \in DOMAIN h /\ P[c] \sqsubseteq P[q]
      BY <1>1, <2>1, <2>3 DEF ReadyBelow
    <3> HIDE DEF S
    <3>5. ASSUME NEW q \in S, P[q] \sqsubseteq P[c] PROVE q = c
      <4>1. q \in DOMAIN h /\ P[c] \sqsubseteq P[q] /\ P[c] \in Seq(Token) /\ P[q] \in Seq(Token)
        BY <1>1, <2>1, <3>4
      <4>2. P[c] = P[q]
        BY <3>5, <4>1, PrefixOrder
      <4> QED BY <2>1, <4>1, <4>2, PathsInjective
    <3>6. c \in Topmost(P, S)
      BY <3>4, <3>5 DEF Topmost
    <3>7. ASSUME NEW m \in Topmost(P, S) PROVE m = c
      BY <3>4 DEF Topmost
    <3>8. Topmost(P, S) = {c}
      BY <3>6, <3>7
    <3> QED BY <3>3, <3>8 DEF S
  <2> QED BY <2>2, <2>3
<1>4. ASSUME NEW m \in Topmost(P, ReadyBelow(h, P, n))
      PROVE  \E c \in Range(h[n].children) : m \in Topmost(P, ReadyBelow(h, P, c))
  <2>1. /\ m \in ReadyBelow(h, P, n) /\ m \in DOMAIN h /\ h[m].ready_seq_ids # {}
        /\ P[n] \sqsubseteq P[m]
        /\ \A q \in ReadyBelow(h, P, n) : P[q] \sqsubseteq P[m] => q = m
    BY DEF Topmost, ReadyBelow
  <2>2. m # n
    <3>1. m = n => m \in ReadyAbove(h, P, n)
      BY <1>1, <2>1 DEF ReadyAbove
    <3> QED BY <3>1
  <2>3. m \in Under(h, P, n)
    BY <2>1 DEF Under
  <2>4. PICK c \in Range(h[n].children) : m \in Under(h, P, c)
    BY <2>2, <2>3, UnderFacts
  <2>5. m \in ReadyBelow(h, P, c)
    BY <2>1, <2>4 DEF Under, ReadyBelow
  <2>6. ReadyBelow(h, P, c) \subseteq ReadyBelow(h, P, n)
    BY ReadyBelowFacts
  <2>7. m \in Topmost(P, ReadyBelow(h, P, c))
    BY <2>1, <2>5, <2>6 DEF Topmost
  <2> QED BY <2>7
<1>5. ASSUME NEW c \in Range(h[n].children), NEW m \in Topmost(P, ReadyBelow(h, P, c))
      PROVE  m \in Topmost(P, ReadyBelow(h, P, n))
  <2>1. m \in ReadyBelow(h, P, c) /\ \A q \in ReadyBelow(h, P, c) : P[q] \sqsubseteq P[m] => q = m
    BY DEF Topmost
  <2>2. /\ m \in ReadyBelow(h, P, n)
        /\ \A q \in ReadyBelow(h, P, n) : P[q] \sqsubseteq P[m] => q \in ReadyBelow(h, P, c)
    BY <2>1, ReadyBelowFacts
  <2> QED BY <2>1, <2>2 DEF Topmost
<1> DEFINE K == Range(h[n].children)
           A == Topmost(P, ReadyBelow(h, P, n))
           B == UNION {Covering(h, P, c) : c \in K}
<1>6. ASSUME NEW m \in A PROVE m \in B
  <2>1. PICK c \in K : m \in Topmost(P, ReadyBelow(h, P, c))
    BY <1>4
  <2>2. m \in Covering(h, P, c)
    BY <1>3, <2>1
  <2> QED BY <2>2
<1>7. ASSUME NEW m \in B PROVE m \in A
  <2>1. PICK c \in K : m \in Covering(h, P, c)
    BY <1>7
  <2>2. m \in Topmost(P, ReadyBelow(h, P, c))
    BY <1>3, <2>1
  <2> QED BY <1>5, <2>2
<1> HIDE DEF A, B
<1>8. A = B
  BY <1>6, <1>7
<1> QED BY <1>2, <1>8 DEF A, B

\* find_covering_seq_id_locked ends at the deepest node above that holds a ready sequence, or
\* else at any of the topmost ones below.
LEMMA BelowFacts ==
    ASSUME NEW h, NEW P, Tree(h, P), NEW n \in DOMAIN h
    PROVE  Below(h, n) = Covering(h, P, n)
<1> DEFINE R(g) == [m \in DOMAIN h |-> IF Above(h, m) # {} THEN Above(h, m)
                                       ELSE UNION {g[c] : c \in Range(h[m].children)}]
           f == CHOOSE g : g = R(g)
<1>1. PICK D : D = [m \in DOMAIN h |-> Covering(h, P, m)]
  OBVIOUS
<1>2. D = R(D)
  <2>1. ASSUME NEW m \in DOMAIN h
        PROVE  D[m] = IF Above(h, m) # {} THEN Above(h, m)
                      ELSE UNION {D[c] : c \in Range(h[m].children)}
    <3>1. D[m] = Covering(h, P, m) /\ Above(h, m) = Deepest(P, ReadyAbove(h, P, m))
      BY <1>1, AboveFacts
    <3>2. CASE ReadyAbove(h, P, m) # {}
      <4>1. Above(h, m) # {}
        BY <3>1, <3>2, ReadyAboveFacts
      <4> QED BY <3>1, <3>2, <4>1 DEF Covering
    <3>3. CASE ReadyAbove(h, P, m) = {}
      <4>1. Above(h, m) = {}
        BY <3>1, <3>3 DEF Deepest
      <4>2. Covering(h, P, m) = UNION {Covering(h, P, c) : c \in Range(h[m].children)}
        BY <3>3, CoveringFacts
      <4>3. \A c \in Range(h[m].children) : D[c] = Covering(h, P, c)
        BY <1>1, KidsFacts
      <4>4. UNION {D[c] : c \in Range(h[m].children)}
              = UNION {Covering(h, P, c) : c \in Range(h[m].children)}
        BY <4>3
      <4> QED BY <3>1, <4>1, <4>2, <4>4
    <3> QED BY <3>2, <3>3
  <2> QED BY <1>1, <2>1
<1>3. f = R(f)
  <2>1. \E g : g = R(g)
    BY <1>2
  <2> HIDE DEF R
  <2> QED BY <2>1
<1>4. Below(h, n) = f[n]
  BY DEF Below
<1> HIDE DEF f
<1>5. \A m \in DOMAIN h :
          /\ f[m] = IF Above(h, m) # {} THEN Above(h, m)
                    ELSE UNION {f[c] : c \in Range(h[m].children)}
          /\ D[m] = IF Above(h, m) # {} THEN Above(h, m)
                    ELSE UNION {D[c] : c \in Range(h[m].children)}
  BY <1>2, <1>3
<1>6. f[n] = D[n]
  <2> DEFINE T == {k \in Nat : \E m \in DOMAIN h : f[m] # D[m] /\ k = Cardinality(Under(h, P, m))}
  <2>1. SUFFICES ASSUME T # {} PROVE FALSE
    BY UnderFacts
  <2>2. PICK k \in T : \A j \in T : k <= j
    BY <2>1, LeastElement
  <2>3. PICK m \in DOMAIN h : f[m] # D[m] /\ k = Cardinality(Under(h, P, m))
    BY <2>2
  <2>4. ASSUME NEW c \in Range(h[m].children) PROVE f[c] = D[c]
    <3>1. c \in DOMAIN h /\ Cardinality(Under(h, P, c)) < Cardinality(Under(h, P, m))
      BY UnderFacts
    <3>2. Cardinality(Under(h, P, c)) \in Nat /\ Cardinality(Under(h, P, m)) \in Nat
      BY <3>1, UnderFacts
    <3>3. f[c] # D[c] => Cardinality(Under(h, P, c)) \in T
      BY <3>1, <3>2
    <3> HIDE DEF T
    <3> QED BY <2>2, <2>3, <3>1, <3>2, <3>3
  <2>5. UNION {f[c] : c \in Range(h[m].children)} = UNION {D[c] : c \in Range(h[m].children)}
    BY <2>4
  <2> QED BY Zenon, <1>5, <2>3, <2>5
<1> QED BY <1>1, <1>4, <1>6

\* The same in the tree of paths.
LEMMA CoveringBar ==
    ASSUME NEW h, NEW P, Tree(h, P), NEW t, IsBar(t, h, P), NEW n \in DOMAIN h
    PROVE  {P[m] : m \in Below(h, n)} = Index!CoveringNodes(t, P[n])
<1>1. /\ DOMAIN t = {P[m] : m \in DOMAIN h}
      /\ \A m \in DOMAIN h : t[P[m]].ready_seq_ids = h[m].ready_seq_ids
  <2>1. \A m \in DOMAIN h : t[P[m]] = Record(h[m])
    BY DEF IsBar
  <2>2. \A m : Record(h[m]).ready_seq_ids = h[m].ready_seq_ids
    BY DEF Record
  <2> QED BY <2>1, <2>2 DEF IsBar
<1> DEFINE U == ReadyAbove(h, P, n)
           L == ReadyBelow(h, P, n)
           up == {p \in DOMAIN t : p \sqsubseteq P[n] /\ t[p].ready_seq_ids # {}}
           down == {p \in DOMAIN t : P[n] \sqsubseteq p /\ t[p].ready_seq_ids # {}}
<1>2. up = {P[m] : m \in U} /\ down = {P[m] : m \in L}
  BY <1>1 DEF ReadyAbove, ReadyBelow
<1>3. U \subseteq DOMAIN h /\ L \subseteq DOMAIN h
  BY DEF ReadyAbove, ReadyBelow
<1>4. Index!CoveringNodes(t, P[n])
        = IF up # {} THEN {p \in up : \A q \in up : q \sqsubseteq p}
          ELSE {p \in down : \A q \in down : q \sqsubseteq p => q = p}
  BY DEF Index!CoveringNodes, \sqsubseteq
<1>5. Below(h, n) = IF U # {} THEN Deepest(P, U) ELSE Topmost(P, L)
  BY BelowFacts DEF Covering
<1> HIDE DEF U, L, up, down
<1>6. {P[m] : m \in Deepest(P, U)} = {p \in up : \A q \in up : q \sqsubseteq p}
  BY <1>2 DEF Deepest
<1>7. {P[m] : m \in Topmost(P, L)} = {p \in down : \A q \in down : q \sqsubseteq p => q = p}
  <2>1. \A q, m \in L : P[q] = P[m] <=> q = m
    BY <1>3, PathsInjective
  <2> QED BY <1>2, <2>1 DEF Topmost
<1>8. up # {} <=> U # {}
  BY <1>2
<1> QED BY Zenon, <1>4, <1>5, <1>6, <1>7, <1>8

\* Along the tokens lie the node at which a walk ends and those on the way to it.
LEMMA AlongTokens ==
    ASSUME NEW h, NEW P, Tree(h, P), NEW tokens \in Seq(Token),
           NEW w, OnPath(h, P, tokens, w), ~ FullMatch(h, tokens, w), NEW d \in DOMAIN h
    PROVE  P[d] \sqsubseteq tokens <=> P[d] \sqsubseteq P[w.node]
<1> DEFINE a == w.node
           i == w.idx
<1>1. /\ a \in DOMAIN h /\ i \in 0 .. Len(tokens) /\ i \in Nat /\ Len(tokens) \in Nat
      /\ P[a] = SubSeq(tokens, 1, i)
  BY LenProperties DEF OnPath
<1>2. P[a] \in Seq(Token) /\ Len(P[a]) = i /\ P[a] \sqsubseteq tokens
  BY <1>1, PrefixFacts
<1>3. P[d] \in Seq(Token) /\ Len(P[d]) \in Nat /\ P[d] \sqsubseteq P[d]
  BY PathType, PrefixOrder
<1>4. ASSUME P[d] \sqsubseteq P[a] PROVE P[d] \sqsubseteq tokens
  BY <1>2, <1>3, <1>4, PrefixChain
<1>5. ASSUME P[d] \sqsubseteq tokens, Len(P[d]) <= i PROVE P[d] \sqsubseteq P[a]
  BY <1>2, <1>3, <1>5, PrefixChain
<1>6. ASSUME P[d] \sqsubseteq tokens, i < Len(P[d]) PROVE FALSE
  <2> DEFINE k == Len(P[d])
             s == SubSeq(tokens, 1, k)
             c == Child(h, tokens, w)
             n == Matched(h, tokens, w)
             e == h[c].tokens
  <2>1. k \in i + 1 .. Len(tokens) /\ k \in 0 .. Len(tokens)
    <3>1. k <= Len(tokens)
      BY <1>3, <1>6, PrefixOrder
    <3> QED BY <1>1, <1>3, <1>6, <3>1
  <2>2. s = P[d]
    <3>1. s \in Seq(Token) /\ Len(s) = k /\ s \sqsubseteq tokens
      BY <2>1, PrefixFacts
    <3>2. s \sqsubseteq P[d]
      <4>1. Len(s) <= Len(P[d]) /\ P[d] \in Seq(Token) /\ P[d] \sqsubseteq tokens
        BY <1>3, <1>6, <3>1
      <4> HIDE DEF k, s
      <4> QED BY <3>1, <4>1, PrefixChain
    <3> QED BY <1>3, <3>1, <3>2, PrefixOrder
  <2>3. s \sqsubseteq P[d]
    BY <1>3, <2>2
  <2>4. k \in w.idx + 1 .. Len(tokens) /\ SubSeq(tokens, 1, k) \sqsubseteq P[d]
    BY Zenon, <2>1, <2>3
  <2> HIDE DEF k, s
  <2>5. Leads(h, tokens, w) /\ P[c] \sqsubseteq P[d]
    BY <2>4, BelowChild
  <2>6. Meets(h, P, tokens, w, c, n)
    BY <2>5, MeetsChild
  <2> HIDE DEF c, n
  <2>7. /\ c \in DOMAIN h /\ h[c].parent = a /\ Edge(h, P, c) /\ n \in Nat /\ n <= Len(e)
        /\ Agree(e, tokens, i, n)
    BY <2>6 DEF Meets
  <2>8. /\ Len(e) \in Nat /\ P[c] \in Seq(Token) /\ Len(P[c]) = i + Len(e) /\ Len(P[c]) \in Nat
        /\ \A j \in 1 .. Len(e) : P[c][i + j] = e[j]
    BY <1>2, <2>7 DEF Edge
  <2>9. n < Len(e)
    <3>1. n # Len(e)
      BY Zenon, <2>5 DEF FullMatch, c, n
    <3> QED BY <2>7, <2>8, <3>1
  <2>10. P[c] \sqsubseteq tokens
    BY <1>3, <1>6, <2>5, <2>8, PrefixChain
  <2>11. i + Len(e) <= Len(tokens) /\ \A j \in 1 .. i + Len(e) : P[c][j] = tokens[j]
    BY <2>8, <2>10 DEF \sqsubseteq, Index!\sqsubseteq
  <2> HIDE DEF e, i
  <2>12. i + n < Len(tokens)
    BY <1>1, <2>7, <2>8, <2>9, <2>11
  <2>13. TokenAfter(e, n) # TokenAfter(tokens, i + n)
    BY <2>7, <2>9, <2>12 DEF Agree
  <2>14. e[n + 1] = tokens[i + (n + 1)]
    <3>1. n + 1 \in 1 .. Len(e) /\ i + (n + 1) \in 1 .. i + Len(e)
      BY <1>1, <2>7, <2>8, <2>9
    <3> QED BY <2>8, <2>11, <3>1
  <2>15. i + (n + 1) = (i + n) + 1
    BY <1>1, <2>7
  <2> QED BY <2>13, <2>14, <2>15 DEF TokenAfter
<1> QED BY <1>1, <1>3, <1>4, <1>5, <1>6

\* v is the most that F says of a member of S, and 0 if there is none.
Most(v, S, F) ==
    /\ v \in Nat /\ (v = 0 \/ \E c \in S : v = F[c])
    /\ \A c \in S : F[c] <= v

\* The nodes with ready sequences, and those with others.
Offering(h, S) == {d \in S : h[d].ready_seq_ids # {}}
Awaiting(h, S) == {d \in S : h[d].seq_ids # h[d].ready_seq_ids}

\* The counts of inspect_prefix after the nodes of S, of which F says what they cover.
Tally(h, S, F, a) ==
    /\ a = [ready_tokens |-> a.ready_tokens, pending_tokens |-> a.pending_tokens]
    /\ Most(a.ready_tokens, Offering(h, S), F) /\ Most(a.pending_tokens, Awaiting(h, S), F)

\* One more number.
LEMMA MostFacts ==
    ASSUME NEW v, NEW S, NEW F, Most(v, S, F), \A d \in S : F[d] \in Nat, NEW c, F[c] \in Nat
    PROVE  Most(Max({v, F[c]}), S \cup {c}, F)
<1>1. v \in Nat /\ {v, F[c]} \in SUBSET (0 .. v + F[c]) /\ v + F[c] \in Nat /\ {v, F[c]} # {}
  BY DEF Most
<1> DEFINE M == Max({v, F[c]})
<1>2. M \in {v, F[c]} /\ \A y \in {v, F[c]} : y <= M
  BY ONLY <1>1, MaxFacts
<1> HIDE DEF M
<1>3. \A d \in S : F[d] <= v
  BY DEF Most
<1>4. M \in Nat /\ v <= M /\ F[c] <= M
  BY <1>1, <1>2
<1>5. \A d \in S \cup {c} : F[d] <= M
  <2> SUFFICES ASSUME NEW d \in S \cup {c} PROVE F[d] <= M
    OBVIOUS
  <2>1. CASE d = c
    BY <1>4, <2>1
  <2>2. CASE d \in S
    BY <1>1, <1>3, <1>4, <2>2
  <2> QED BY <2>1, <2>2
<1>6. M = 0 \/ \E d \in S \cup {c} : M = F[d]
  BY <1>2 DEF Most
<1>7. Most(M, S \cup {c}, F)
  BY <1>4, <1>5, <1>6 DEF Most
<1> QED BY <1>7 DEF M

\* consider_availability counts one more node.
LEMMA ConsiderFacts ==
    ASSUME NEW h, NEW c, Fields(h[c]), NEW S, NEW F, \A d \in S \cup {c} : F[d] \in Nat,
           NEW a, Tally(h, S, F, a),
           NEW covered \in Nat, F[c] = Index!Least(covered, h[c].canonical_len)
    PROVE  Tally(h, S \cup {c}, F, consider_availability(h[c], covered, a))
<1> DEFINE n == h[c]
           b == consider_availability(n, covered, a)
           coverage == Min({covered, n.canonical_len})
           ready == IF n.ready_seq_ids = {} THEN a.ready_tokens ELSE Max({a.ready_tokens, F[c]})
           pending == IF n.seq_ids # n.ready_seq_ids THEN Max({a.pending_tokens, F[c]})
                      ELSE a.pending_tokens
<1>1. /\ n.canonical_len \in Nat /\ n.ready_seq_ids \subseteq n.seq_ids /\ IsFiniteSet(n.seq_ids)
  BY DEF Fields
<1>2. coverage = F[c]
  <2>1. /\ coverage \in {covered, n.canonical_len} /\ coverage <= covered
        /\ coverage <= n.canonical_len
    BY <1>1, MinFacts
  <2> QED BY <1>1, <2>1 DEF Index!Least
<1>3. Cardinality(n.seq_ids) > Cardinality(n.ready_seq_ids) <=> n.seq_ids # n.ready_seq_ids
  <2> DEFINE A == n.ready_seq_ids
             B == n.seq_ids
  <2>1. /\ IsFiniteSet(A) /\ Cardinality(A) <= Cardinality(B)
        /\ (Cardinality(A) = Cardinality(B) => A = B)
    BY <1>1, FS_Subset
  <2>2. Cardinality(A) \in Nat /\ Cardinality(B) \in Nat
    BY <1>1, <2>1, FS_CardinalityType
  <2> HIDE DEF A, B
  <2>3. Cardinality(B) > Cardinality(A) <=> B # A
    BY <2>1, <2>2
  <2> QED BY <2>3 DEF A, B
<1>4. a = [ready_tokens |-> a.ready_tokens, pending_tokens |-> a.pending_tokens]
  BY DEF Tally
<1>5. b = [a EXCEPT !.ready_tokens = IF n.ready_seq_ids = {} THEN @ ELSE Max({@, F[c]}),
                    !.pending_tokens = IF n.seq_ids # n.ready_seq_ids THEN Max({@, F[c]}) ELSE @]
  BY Zenon, <1>2, <1>3 DEF consider_availability
<1> HIDE DEF b, n
<1>6. b = [ready_tokens |-> ready, pending_tokens |-> pending]
  BY <1>4, <1>5
<1>7. b.ready_tokens = ready /\ b.pending_tokens = pending
  BY <1>6
<1> HIDE DEF ready, pending
<1>8. Most(ready, Offering(h, S \cup {c}), F)
  <2>1. Most(a.ready_tokens, Offering(h, S), F) /\ \A d \in Offering(h, S) : F[d] \in Nat
    BY DEF Tally, Offering
  <2>2. CASE n.ready_seq_ids = {}
    <3>1. Offering(h, S \cup {c}) = Offering(h, S)
      BY <2>2 DEF Offering, n
    <3> QED BY <2>1, <2>2, <3>1 DEF ready
  <2>3. CASE n.ready_seq_ids # {}
    <3>1. Offering(h, S \cup {c}) = Offering(h, S) \cup {c}
      BY <2>3 DEF Offering, n
    <3>2. Most(Max({a.ready_tokens, F[c]}), Offering(h, S) \cup {c}, F)
      BY <2>1, MostFacts
    <3> QED BY <2>3, <3>1, <3>2 DEF ready
  <2> QED BY <2>2, <2>3
<1>9. Most(pending, Awaiting(h, S \cup {c}), F)
  <2>1. Most(a.pending_tokens, Awaiting(h, S), F) /\ \A d \in Awaiting(h, S) : F[d] \in Nat
    BY DEF Tally, Awaiting
  <2>2. CASE n.seq_ids = n.ready_seq_ids
    <3>1. Awaiting(h, S \cup {c}) = Awaiting(h, S)
      BY <2>2 DEF Awaiting, n
    <3> QED BY <2>1, <2>2, <3>1 DEF pending
  <2>3. CASE n.seq_ids # n.ready_seq_ids
    <3>1. Awaiting(h, S \cup {c}) = Awaiting(h, S) \cup {c}
      BY <2>3 DEF Awaiting, n
    <3>2. Most(Max({a.pending_tokens, F[c]}), Awaiting(h, S) \cup {c}, F)
      BY <2>1, MostFacts
    <3> QED BY <2>3, <3>1, <3>2 DEF pending
  <2> QED BY <2>2, <2>3
<1>10. Tally(h, S \cup {c}, F, b)
  BY Zenon, <1>6, <1>7, <1>8, <1>9 DEF Tally
<1> QED BY <1>10 DEF b, n

\* The nodes that a walk has met when it stands at a node.
Passed(h, P, n) == {m \in DOMAIN h \ {root_} : P[m] \sqsubseteq P[n]}

\* What the sequences of a node cover of tokens that agree with the node's path on m tokens.
Reach(h, P, m) ==
    [d \in DOMAIN h |-> Index!Least(Index!Least(Len(P[d]), m), h[d].canonical_len)]

\* These are numbers, and the same for all tokens that the path is a prefix of.
LEMMA ReachFacts ==
    ASSUME NEW h, NEW P, Tree(h, P), NEW d \in DOMAIN h, NEW m \in Nat, NEW k \in Nat
    PROVE  /\ Reach(h, P, m)[d] = Index!Least(Index!Least(Len(P[d]), m), h[d].canonical_len)
           /\ Reach(h, P, m)[d] \in Nat
           /\ Len(P[d]) <= m /\ Len(P[d]) <= k => Reach(h, P, m)[d] = Reach(h, P, k)[d]
           /\ m <= Len(P[d]) => Reach(h, P, m)[d] = Index!Least(m, h[d].canonical_len)
<1>1. Len(P[d]) \in Nat /\ h[d].canonical_len \in Nat
  BY PathType DEF Tree, Addresses, Fields
<1>2. \A j : Reach(h, P, j)[d] = Index!Least(Index!Least(Len(P[d]), j), h[d].canonical_len)
  BY DEF Reach
<1> DEFINE p == Len(P[d])
           l == h[d].canonical_len
<1> HIDE DEF p, l
<1>3. /\ Index!Least(Index!Least(p, m), l) \in Nat
      /\ p <= m /\ p <= k => Index!Least(Index!Least(p, m), l) = Index!Least(Index!Least(p, k), l)
      /\ m <= p => Index!Least(Index!Least(p, m), l) = Index!Least(m, l)
  BY <1>1 DEF Index!Least, p, l
<1> QED BY <1>2, <1>3 DEF p, l

\* Only what the function says of the nodes counts.
LEMMA TallySame ==
    ASSUME NEW h, NEW S, NEW F, NEW G, \A d \in S : F[d] = G[d], NEW a, Tally(h, S, F, a)
    PROVE  Tally(h, S, G, a)
<1>1. \A d \in Offering(h, S) \cup Awaiting(h, S) : F[d] = G[d]
  BY DEF Offering, Awaiting
<1> QED BY <1>1 DEF Tally, Most

\* The places at which inspect_prefix can stand, with what it has counted there.
Seen(h, P, tokens) ==
    {w \in [node : DOMAIN h, idx : 0 .. Len(tokens),
            avail : [ready_tokens : Nat, pending_tokens : Nat]] :
        /\ OnPath(h, P, tokens, w)
        /\ Tally(h, Passed(h, P, w.node), Reach(h, P, Len(tokens)), w.avail)}

\* Counts are numbers.
LEMMA TallyType ==
    ASSUME NEW h, NEW S, NEW F, NEW a, Tally(h, S, F, a)
    PROVE  a \in [ready_tokens : Nat, pending_tokens : Nat]
BY DEF Tally, Most

\* The counts when inspect_prefix has also considered the child that its walk meets.
Counted(h, P, tokens, w, c, m, a) ==
    /\ c \in DOMAIN h /\ c # root_ /\ h[c].parent = w.node
    /\ Tally(h, Passed(h, P, w.node) \cup {c}, Reach(h, P, m), a)

\* The child counts with the tokens of its edge that match.
LEMMA ConsideredFacts ==
    ASSUME NEW h, NEW P, Tree(h, P), NEW tokens \in Seq(Token), NEW w \in Seen(h, P, tokens),
           Leads(h, tokens, w), NEW c, c = Child(h, tokens, w),
           NEW m, m = w.idx + Matched(h, tokens, w)
    PROVE  /\ Counted(h, P, tokens, w, c, m, Considered(h, tokens, w))
           /\ m \in Nat /\ m \in 0 .. Len(tokens) /\ m <= Len(P[c])
<1> DEFINE n == Matched(h, tokens, w)
           S == Passed(h, P, w.node)
           F == Reach(h, P, m)
<1>1. OnPath(h, P, tokens, w) /\ Tally(h, S, Reach(h, P, Len(tokens)), w.avail)
  BY DEF Seen
<1>2. /\ c \in DOMAIN h /\ c # root_ /\ h[c].parent = w.node /\ Edge(h, P, c)
      /\ n \in Nat /\ n <= Len(h[c].tokens) /\ m \in 0 .. Len(tokens)
  <2>1. Meets(h, P, tokens, w, c, n)
    BY <1>1, MeetsChild
  <2> QED BY <2>1 DEF Meets
<1>3. /\ w.node \in DOMAIN h /\ w.idx \in Nat /\ Len(tokens) \in Nat /\ w.idx \in 0 .. Len(tokens)
      /\ P[w.node] = SubSeq(tokens, 1, w.idx)
  BY <1>1, LenProperties DEF OnPath
<1>4. Len(P[w.node]) = w.idx
  BY <1>3, PrefixFacts
<1>5. Len(P[c]) = w.idx + Len(h[c].tokens) /\ Len(h[c].tokens) \in Nat
  BY <1>2, <1>4 DEF Edge
<1>6. m \in Nat /\ m <= Len(P[c]) /\ w.idx <= m
  BY <1>2, <1>3, <1>5
<1> HIDE DEF n, S, F
<1>7. \A d \in S : d \in DOMAIN h /\ Len(P[d]) <= w.idx
  <2> SUFFICES ASSUME NEW d \in S PROVE d \in DOMAIN h /\ Len(P[d]) <= w.idx
    OBVIOUS
  <2>1. d \in DOMAIN h /\ P[d] \sqsubseteq P[w.node]
    BY DEF S, Passed
  <2> QED BY <1>4, <2>1 DEF \sqsubseteq, Index!\sqsubseteq
<1>8. Tally(h, S, F, w.avail)
  <2>1. ASSUME NEW d \in S PROVE Reach(h, P, Len(tokens))[d] = F[d]
    <3>1. Len(P[d]) \in Nat /\ Len(P[d]) <= m /\ Len(P[d]) <= Len(tokens)
      BY <1>3, <1>6, <1>7, PathType
    <3> QED BY <1>3, <1>6, <1>7, <3>1, ReachFacts DEF F
  <2> QED BY <1>1, <2>1, TallySame
<1>9. \A d \in S \cup {c} : F[d] \in Nat
  BY <1>2, <1>6, <1>7, ReachFacts DEF F
<1>10. F[c] = Index!Least(m, h[c].canonical_len)
  BY <1>2, <1>6, ReachFacts DEF F
<1>11. Fields(h[c])
  BY <1>2 DEF Tree, Addresses
<1>12. Tally(h, S \cup {c}, F, consider_availability(h[c], m, w.avail))
  BY <1>6, <1>8, <1>9, <1>10, <1>11, ConsiderFacts
<1>13. Considered(h, tokens, w) = consider_availability(h[c], m, w.avail)
  BY Zenon DEF Considered, Reached
<1>14. Counted(h, P, tokens, w, c, m, Considered(h, tokens, w))
  BY Zenon, <1>2, <1>12, <1>13 DEF Counted, S, F
<1> QED BY <1>2, <1>6, <1>14

\* An iteration of inspect_prefix goes to such a place.
LEMMA InspectChildFacts ==
    ASSUME NEW h, NEW P, Tree(h, P), NEW tokens \in Seq(Token),
           NEW w \in Seen(h, P, tokens), NEW v, v = InspectChild(h, tokens, w)
    PROVE  /\ v \in Seen(h, P, tokens)
           /\ FullMatch(h, tokens, w) => v.idx \in Nat /\ v.idx >= w.idx + 1
           /\ ~ FullMatch(h, tokens, w) => v = w
<1>1. CASE ~ FullMatch(h, tokens, w)
  BY <1>1 DEF InspectChild
<1>2. CASE FullMatch(h, tokens, w)
  <2> DEFINE c == Child(h, tokens, w)
             m == w.idx + Matched(h, tokens, w)
             a == Considered(h, tokens, w)
             u == [node |-> w.node, idx |-> w.idx]
             z == [node |-> c, idx |-> m]
  <2>1. OnPath(h, P, tokens, w) /\ w.node \in DOMAIN h /\ w.idx \in 0 .. Len(tokens)
    BY DEF Seen, OnPath
  <2>2. u \in Places(h, P, tokens)
    BY <2>1 DEF Places, OnPath
  <2>3. /\ Leads(h, tokens, u) <=> Leads(h, tokens, w)
        /\ Child(h, tokens, u) = c /\ Matched(h, tokens, u) = Matched(h, tokens, w)
        /\ FullMatch(h, tokens, u)
    BY <1>2 DEF Leads, Child, Matched, FullMatch
  <2>4. z = Descend(h, tokens, u)
    BY <2>3 DEF Descend
  <2>5. z \in Places(h, P, tokens) /\ z.idx \in Nat /\ z.idx >= u.idx + 1
    BY <2>2, <2>3, <2>4, DescendFacts
  <2>6. v = [node |-> c, idx |-> m, avail |-> a]
    BY <1>2 DEF InspectChild
  <2>7. Leads(h, tokens, w)
    BY <1>2 DEF FullMatch
  <2>8. Counted(h, P, tokens, w, c, m, a) /\ m \in Nat /\ m <= Len(P[c])
    BY <2>7, ConsideredFacts
  <2> HIDE DEF c, m, a
  <2>9. /\ c \in DOMAIN h /\ c # root_ /\ h[c].parent = w.node
        /\ Tally(h, Passed(h, P, w.node) \cup {c}, Reach(h, P, m), a)
    BY <2>8 DEF Counted
  <2>10. c \in DOMAIN h /\ m \in 0 .. Len(tokens) /\ P[c] = SubSeq(tokens, 1, m) /\ m >= w.idx + 1
    BY <2>5 DEF Places, OnPath
  <2>11. Passed(h, P, w.node) \cup {c} = Passed(h, P, c)
    <3>1. \A d \in DOMAIN h : P[d] \in Seq(Token) /\ P[d] \sqsubseteq P[d]
      BY PathType, PrefixOrder
    <3>2. P[w.node] \sqsubseteq P[c]
      BY <2>9, EdgeFacts DEF Edge
    <3>3. ASSUME NEW d \in DOMAIN h, P[d] \sqsubseteq P[w.node] PROVE P[d] \sqsubseteq P[c]
      <4>1. P[d] \in Seq(Token) /\ P[w.node] \in Seq(Token) /\ P[c] \in Seq(Token)
        BY <2>1, <2>9, <3>1
      <4> QED BY <3>2, <3>3, <4>1, PrefixChain
    <3>4. ASSUME NEW d \in DOMAIN h, P[d] \sqsubseteq P[c], d # c PROVE P[d] \sqsubseteq P[w.node]
      BY <2>9, <3>4, PrefixOfParent
    <3> QED BY <2>9, <3>1, <3>3, <3>4 DEF Passed
  <2>12. Tally(h, Passed(h, P, c), Reach(h, P, Len(tokens)), a)
    <3>1. Len(tokens) \in Nat /\ Len(P[c]) = m
      BY <2>10, PrefixFacts, LenProperties
    <3>2. ASSUME NEW d \in Passed(h, P, c)
          PROVE  Reach(h, P, m)[d] = Reach(h, P, Len(tokens))[d]
      <4>1. d \in DOMAIN h /\ P[d] \sqsubseteq P[c]
        BY DEF Passed
      <4>2. Len(P[d]) <= m /\ Len(P[d]) \in Nat
        BY <3>1, <4>1, PathType DEF \sqsubseteq, Index!\sqsubseteq
      <4>3. Len(P[d]) <= Len(tokens)
        BY <2>8, <2>10, <3>1, <4>2
      <4> QED BY <2>8, <3>1, <4>1, <4>2, <4>3, ReachFacts
    <3>3. Tally(h, Passed(h, P, c), Reach(h, P, m), a)
      BY <2>9, <2>11
    <3> QED BY <3>2, <3>3, TallySame
  <2>13. a \in [ready_tokens : Nat, pending_tokens : Nat]
    BY <2>12, TallyType
  <2>14. v.node = c /\ v.idx = m /\ v.avail = a
    BY <2>6
  <2>15. v \in Seen(h, P, tokens)
    <3>1. v \in [node : DOMAIN h, idx : 0 .. Len(tokens),
                 avail : [ready_tokens : Nat, pending_tokens : Nat]]
      BY <2>6, <2>10, <2>13
    <3>2. OnPath(h, P, tokens, v)
      BY <2>10, <2>14 DEF OnPath
    <3> QED BY <2>12, <2>14, <3>1, <3>2 DEF Seen
  <2> QED BY <1>2, <2>8, <2>10, <2>14, <2>15
<1> QED BY <1>1, <1>2

\* The walk of inspect_prefix ends like that of find_prefix_locked, and has counted what it met.
LEMMA InspectFacts ==
    ASSUME NEW h, NEW P, Tree(h, P), NEW tokens \in Seq(Token), NEW w, w = Inspect(h, tokens)
    PROVE  w \in Seen(h, P, tokens) /\ OnPath(h, P, tokens, w) /\ ~ FullMatch(h, tokens, w)
<1> DEFINE N == Len(tokens)
           V == Seen(h, P, tokens)
           none == [ready_tokens |-> 0, pending_tokens |-> 0]
           z == [node |-> root_, idx |-> 0, avail |-> none]
           R(g) == [k \in 0 .. N |-> IF k = 0 THEN z ELSE InspectChild(h, tokens, g[k - 1])]
           f == CHOOSE g : g = R(g)
           D == [v \in V |-> InspectChild(h, tokens, v)]
           G == [i \in 1 .. N |-> D]
<1>1. N \in Nat
  BY LenProperties
<1>2. z \in V
  <2>1. P[root_] = << >> /\ root_ \in DOMAIN h
    BY DEF Tree, IsPaths, Addresses
  <2>2. SubSeq(tokens, 1, 0) = << >>
    OBVIOUS
  <2>3. Passed(h, P, root_) = {}
    BY <2>1, PrefixOfParent DEF Passed
  <2>4. Tally(h, {}, Reach(h, P, N), none)
    BY DEF Tally, Most, Offering, Awaiting
  <2>5. none \in [ready_tokens : Nat, pending_tokens : Nat]
    OBVIOUS
  <2> HIDE DEF none
  <2>6. /\ z \in [node : DOMAIN h, idx : 0 .. N, avail : [ready_tokens : Nat, pending_tokens : Nat]]
        /\ z.node = root_ /\ z.idx = 0 /\ z.avail = none
    BY <1>1, <2>1, <2>5
  <2>7. OnPath(h, P, tokens, z)
    BY <1>1, <2>1, <2>2, <2>6 DEF OnPath
  <2> QED BY <2>3, <2>4, <2>6, <2>7 DEF Seen
<1>3. \A v \in V : InspectChild(h, tokens, v) \in V
  BY InspectChildFacts
<1>4. G \in [1 .. N -> [V -> V]]
  BY <1>3
<1>5. \E g \in [0 .. N -> V] : g[0] = z /\ \A i \in 1 .. N : g[i] = G[i][g[i - 1]]
  <2> HIDE DEF V, G, N, z
  <2> QED BY <1>1, <1>2, <1>4, PrimitiveRecursion
<1>6. f = R(f)
  <2>1. PICK g \in [0 .. N -> V] : g[0] = z /\ \A i \in 1 .. N : g[i] = G[i][g[i - 1]]
    BY <1>5
  <2>2. \A i \in 1 .. N : g[i - 1] \in V
    BY <1>1, <2>1
  <2>3. \A i \in 1 .. N : g[i] = InspectChild(h, tokens, g[i - 1])
    BY <2>1, <2>2
  <2>4. g = R(g)
    <3> HIDE DEF V, z, N, G
    <3>1. ASSUME NEW i \in 0 .. N
          PROVE  g[i] = IF i = 0 THEN z ELSE InspectChild(h, tokens, g[i - 1])
      <4>1. i = 0 \/ i \in 1 .. N
        BY <1>1
      <4> QED BY <2>1, <2>3, <4>1
    <3> QED BY <2>1, <3>1
  <2> HIDE DEF R
  <2> QED BY <2>4
<1>7. w = f[N]
  BY DEF Inspect
<1> HIDE DEF f, z, V, N
<1> DEFINE S == {i \in 0 .. N : f[i] \in V /\ (f[i].idx >= i \/ ~ FullMatch(h, tokens, f[i]))}
<1>8. f[0] = z /\ \A i \in 1 .. N : f[i] = InspectChild(h, tokens, f[i - 1])
  <2>1. /\ DOMAIN f = 0 .. N
        /\ \A i \in 0 .. N : f[i] = IF i = 0 THEN z ELSE InspectChild(h, tokens, f[i - 1])
    BY <1>6
  <2> QED BY <1>1, <2>1
<1>9. 0 \in S
  <2>1. z.idx >= 0
    BY DEF z
  <2> HIDE DEF z
  <2> QED BY <1>1, <1>2, <1>8, <2>1
<1>10. ASSUME NEW i \in 1 .. N, i - 1 \in S PROVE i \in S
  <2> DEFINE u == f[i - 1]
             v == f[i]
  <2>1. u \in V /\ (u.idx >= i - 1 \/ ~ FullMatch(h, tokens, u))
    BY <1>10
  <2>2. v = InspectChild(h, tokens, u)
    BY <1>8
  <2> HIDE DEF u, v
  <2>3. /\ v \in V
        /\ FullMatch(h, tokens, u) => v.idx \in Nat /\ v.idx >= u.idx + 1
        /\ ~ FullMatch(h, tokens, u) => v = u
    BY <2>1, <2>2, InspectChildFacts DEF V
  <2>4. u.idx \in Nat
    BY <2>1, <1>1 DEF V, Seen
  <2>5. v.idx >= i \/ ~ FullMatch(h, tokens, v)
    BY <2>1, <2>3, <2>4
  <2> QED BY <2>3, <2>5 DEF v
<1> HIDE DEF S
<1>11. N \in S
  <2>1. \A i \in 1 .. N : i - 1 \in S => i \in S
    BY <1>10
  <2>2. \A i \in 0 .. N : i \in S
    BY <1>1, <1>9, <2>1, Induction
  <2> QED BY <1>1, <2>2
<1>12. w \in V /\ (w.idx >= N \/ ~ FullMatch(h, tokens, w))
  BY <1>7, <1>11 DEF S
<1>13. w.idx >= N => ~ FullMatch(h, tokens, w)
  <2>1. w.idx \in 0 .. N
    BY <1>12 DEF V, Seen, N
  <2> QED BY <1>1, <2>1 DEF FullMatch, Leads, N
<1> QED BY <1>12, <1>13 DEF V, Seen

\* What inspect_prefix has counted says whether a pending sequence is ahead of the ready ones.
LEMMA Advantage ==
    ASSUME NEW h, NEW P, Tree(h, P), NEW t, IsBar(t, h, P),
           NEW tokens, NEW m \in Nat, NEW x, NEW S \in SUBSET (DOMAIN h),
           Index!Visited(t, tokens, x) = {P[d] : d \in S},
           NEW a, Tally(h, S, Reach(h, P, m), a)
    PROVE  a.pending_tokens > a.ready_tokens <=> Index!PendingAdvantage(t, tokens, m, x)
<1> DEFINE F == Reach(h, P, m)
           r == a.ready_tokens
           w == a.pending_tokens
<1>1. \A d \in S : F[d] \in Nat
  BY ReachFacts
<1>2. /\ r \in Nat /\ (r = 0 \/ \E c \in Offering(h, S) : r = F[c])
      /\ w \in Nat /\ (w = 0 \/ \E c \in Awaiting(h, S) : w = F[c])
      /\ \A c \in Offering(h, S) : F[c] <= r
      /\ \A c \in Awaiting(h, S) : F[c] <= w
  BY DEF Tally, Most
<1>3. ASSUME NEW d \in S
      PROVE  /\ Index!Coverage(t, P[d], m) = F[d]
             /\ Index!HasPending(t[P[d]]) <=> h[d].seq_ids # h[d].ready_seq_ids
             /\ t[P[d]].ready_seq_ids = h[d].ready_seq_ids
  <2>1. t[P[d]] = Record(h[d])
    BY DEF IsBar
  <2>2. /\ Record(h[d]).canonical_len = h[d].canonical_len /\ Record(h[d]).seq_ids = h[d].seq_ids
        /\ Record(h[d]).ready_seq_ids = h[d].ready_seq_ids
    BY DEF Record
  <2>3. F[d] = Index!Least(Index!Least(Len(P[d]), m), h[d].canonical_len)
    BY DEF Reach
  <2> QED BY Zenon, <2>1, <2>2, <2>3 DEF Index!Coverage, Index!HasPending
<1> DEFINE Ahead(d) == /\ h[d].seq_ids # h[d].ready_seq_ids /\ F[d] > 0
                       /\ \A q \in S : h[q].ready_seq_ids # {} => F[q] < F[d]
<1>4. Index!PendingAdvantage(t, tokens, m, x) <=> \E d \in S : Ahead(d)
  <2> DEFINE B(p) == /\ Index!HasPending(t[p]) /\ Index!Coverage(t, p, m) > 0
                     /\ \A q \in Index!Visited(t, tokens, x) :
                            t[q].ready_seq_ids # {} =>
                                Index!Coverage(t, q, m) < Index!Coverage(t, p, m)
  <2>1. Index!PendingAdvantage(t, tokens, m, x) <=> \E p \in Index!Visited(t, tokens, x) : B(p)
    BY DEF Index!PendingAdvantage
  <2>2. ASSUME NEW d \in S PROVE B(P[d]) <=> Ahead(d)
    <3> HIDE DEF F
    <3> QED BY <1>3
  <2> HIDE DEF B, Ahead
  <2> QED BY <2>1, <2>2
<1> HIDE DEF F, r, w
<1>5. ASSUME w > r PROVE \E d \in S : Ahead(d)
  <2>1. PICK d \in Awaiting(h, S) : w = F[d]
    BY <1>2, <1>5
  <2>2. d \in S /\ h[d].seq_ids # h[d].ready_seq_ids /\ F[d] > 0
    BY <1>2, <1>5, <2>1 DEF Awaiting
  <2>3. ASSUME NEW q \in S, h[q].ready_seq_ids # {} PROVE F[q] < F[d]
    <3>1. F[q] <= r
      BY <1>2, <2>3 DEF Offering
    <3> QED BY <1>1, <1>2, <1>5, <2>1, <2>3, <3>1
  <2> QED BY <2>2, <2>3
<1>6. ASSUME NEW d \in S, Ahead(d) PROVE w > r
  <2>1. F[d] <= w
    BY <1>2, <1>6 DEF Awaiting
  <2>2. r < F[d]
    <3>1. CASE r = 0
      BY <1>6, <3>1
    <3>2. CASE r # 0
      <4>1. PICK c \in Offering(h, S) : r = F[c]
        BY <1>2, <3>2
      <4> QED BY <1>6, <4>1 DEF Offering
    <3> QED BY <3>1, <3>2
  <2> QED BY <1>1, <1>2, <2>1, <2>2
<1> HIDE DEF Ahead
<1>7. w > r <=> Index!PendingAdvantage(t, tokens, m, x)
  BY <1>4, <1>5, <1>6
<1> QED BY <1>7 DEF w, r

\* A path ends in the edge of one node.
LEMMA OneEdgeNode ==
    ASSUME NEW h, NEW P, Tree(h, P), NEW t, IsBar(t, h, P), NEW cut, NEW x, NEW y,
           Index!EdgeNode(t, cut, x), Index!EdgeNode(t, cut, y)
    PROVE  x = y
<1>1. x \in DOMAIN t /\ y \in DOMAIN t /\ x \sqsubseteq y /\ y \sqsubseteq x
  BY DEF Index!EdgeNode, \sqsubseteq
<1>2. x \in Seq(Token) /\ y \in Seq(Token)
  BY <1>1, PathType DEF IsBar
<1>3. Len(x) <= Len(y)
  BY <1>1, <1>2, PrefixOrder
<1> QED BY <1>1, <1>2, <1>3, PrefixOrder

\* What inspect_prefix answers of the tokens.
Inspected(t, tokens, m, a) ==
    /\ Index!Matches(t, tokens, m)
    /\ \A x \in DOMAIN t : Index!EdgeNode(t, Index!Prefix(tokens, m), x) =>
           (a.pending_tokens > a.ready_tokens <=> Index!PendingAdvantage(t, tokens, m, x))

\* A lookup whose walk ends at a node.
LEMMA InspectNode ==
    ASSUME NEW h, NEW P, Tree(h, P), NEW t, IsBar(t, h, P), NEW tokens \in Seq(Token),
           NEW w \in Seen(h, P, tokens), ~ Leads(h, tokens, w)
    PROVE  Inspected(t, tokens, w.idx, w.avail)
<1> DEFINE m == w.idx
           S == Passed(h, P, w.node)
<1>1. /\ OnPath(h, P, tokens, w) /\ Tally(h, S, Reach(h, P, Len(tokens)), w.avail)
      /\ w.node \in DOMAIN h /\ m \in 0 .. Len(tokens) /\ m \in Nat /\ Len(tokens) \in Nat
      /\ P[w.node] = SubSeq(tokens, 1, m)
  BY LenProperties DEF Seen, OnPath
<1>2. Index!Matches(t, tokens, m) /\ Index!EdgeNode(t, SubSeq(tokens, 1, m), P[w.node])
  <2>1. Found(h, P, tokens, h, P, w.node, w.idx, P[w.node])
    BY <1>1, FoundNode
  <2> QED BY <2>1 DEF Found
<1>3. ~ FullMatch(h, tokens, w)
  BY DEF FullMatch
<1>4. Index!Visited(t, tokens, P[w.node]) = {P[d] : d \in S}
  <2>1. DOMAIN t = {P[d] : d \in DOMAIN h}
    BY DEF IsBar
  <2>2. \A d \in DOMAIN h : /\ P[d] \sqsubseteq tokens <=> P[d] \sqsubseteq P[w.node]
                            /\ P[d] \sqsubseteq P[d]
                            /\ d = root_ <=> P[d] = << >>
    BY <1>1, <1>3, AlongTokens, PathType, PrefixOrder
  <2>3. Index!Visited(t, tokens, P[w.node])
          = ({p \in DOMAIN t : p \sqsubseteq tokens} \cup {P[w.node]}) \ {<< >>}
    BY DEF Index!Visited, Index!Root, \sqsubseteq
  <2>4. ASSUME NEW p
        PROVE  p \in Index!Visited(t, tokens, P[w.node]) <=> \E d \in S : p = P[d]
    <3>1. ASSUME p \in Index!Visited(t, tokens, P[w.node]) PROVE \E d \in S : p = P[d]
      <4>1. PICK d \in DOMAIN h : p = P[d]
        BY <1>1, <2>1, <2>3, <3>1
      <4> QED BY <1>1, <2>2, <2>3, <3>1, <4>1 DEF Passed
    <3>2. ASSUME NEW d \in S, p = P[d] PROVE p \in Index!Visited(t, tokens, P[w.node])
      BY <2>1, <2>2, <2>3, <3>2 DEF Passed
    <3> QED BY <3>1, <3>2
  <2> QED BY <2>4
<1>5. Tally(h, S, Reach(h, P, m), w.avail)
  <2>1. Len(P[w.node]) = m
    BY <1>1, PrefixFacts
  <2>2. ASSUME NEW d \in S PROVE Reach(h, P, Len(tokens))[d] = Reach(h, P, m)[d]
    <3>1. d \in DOMAIN h /\ P[d] \sqsubseteq P[w.node]
      BY DEF Passed
    <3>2. Len(P[d]) \in Nat /\ Len(P[d]) <= m
      BY <2>1, <3>1, PathType DEF \sqsubseteq, Index!\sqsubseteq
    <3>3. Len(P[d]) <= Len(tokens)
      BY <1>1, <3>2
    <3> QED BY <1>1, <3>1, <3>2, <3>3, ReachFacts
  <2> HIDE DEF S, m
  <2> QED BY <1>1, <2>2, TallySame
<1>6. S \in SUBSET (DOMAIN h)
  BY DEF Passed
<1> DEFINE a == w.avail
<1> HIDE DEF S, m, a
<1>7. a.pending_tokens > a.ready_tokens <=> Index!PendingAdvantage(t, tokens, m, P[w.node])
  BY <1>1, <1>4, <1>5, <1>6, Advantage DEF a
<1>8. ASSUME NEW x, Index!EdgeNode(t, Index!Prefix(tokens, m), x) PROVE x = P[w.node]
  <2>1. Index!Prefix(tokens, m) = SubSeq(tokens, 1, m)
    BY DEF Index!Prefix
  <2> QED BY <1>2, <1>8, <2>1, OneEdgeNode
<1>9. Inspected(t, tokens, m, a)
  BY Zenon, <1>2, <1>7, <1>8 DEF Inspected
<1> QED BY <1>9 DEF m, a

\* A lookup whose walk ends in the edge of a child.
LEMMA InspectEdge ==
    ASSUME NEW h, NEW P, Tree(h, P), NEW t, IsBar(t, h, P), NEW tokens \in Seq(Token),
           NEW w \in Seen(h, P, tokens), Leads(h, tokens, w), ~ FullMatch(h, tokens, w),
           NEW m, m = w.idx + Matched(h, tokens, w)
    PROVE  Inspected(t, tokens, m, Considered(h, tokens, w))
<1> DEFINE c == Child(h, tokens, w)
           n == Matched(h, tokens, w)
           a == Considered(h, tokens, w)
           S == Passed(h, P, w.node) \cup {c}
           cut == SubSeq(tokens, 1, m)
<1>1. OnPath(h, P, tokens, w) /\ w.node \in DOMAIN h
  BY DEF Seen, OnPath
<1>2. Index!Matches(t, tokens, m) /\ Index!EdgeNode(t, cut, P[c])
  <2>1. Found(h, P, tokens, split_node(h, c, n), SplitPaths(h, P, c, cut), c, m, P[c])
    BY <1>1, FoundEdge
  <2> QED BY <2>1 DEF Found
<1>3. Counted(h, P, tokens, w, c, m, a) /\ m \in Nat
  BY ConsideredFacts
<1> HIDE DEF c, n, a
<1>4. /\ c \in DOMAIN h /\ c # root_ /\ h[c].parent = w.node /\ Tally(h, S, Reach(h, P, m), a)
  BY <1>3 DEF Counted
<1>5. S \in SUBSET (DOMAIN h)
  BY <1>4 DEF Passed
<1>6. Index!Visited(t, tokens, P[c]) = {P[d] : d \in S}
  <2>1. DOMAIN t = {P[d] : d \in DOMAIN h}
    BY DEF IsBar
  <2>2. \A d \in DOMAIN h : /\ P[d] \sqsubseteq tokens <=> P[d] \sqsubseteq P[w.node]
                            /\ d = root_ <=> P[d] = << >>
    BY <1>1, AlongTokens, PathType
  <2>3. Index!Visited(t, tokens, P[c])
          = ({p \in DOMAIN t : p \sqsubseteq tokens} \cup {P[c]}) \ {<< >>}
    BY DEF Index!Visited, Index!Root, \sqsubseteq
  <2>4. ASSUME NEW p
        PROVE  p \in Index!Visited(t, tokens, P[c]) <=> \E d \in S : p = P[d]
    <3>1. ASSUME p \in Index!Visited(t, tokens, P[c]) PROVE \E d \in S : p = P[d]
      <4>1. CASE p = P[c]
        BY <4>1
      <4>2. CASE p # P[c]
        <5>1. PICK d \in DOMAIN h : p = P[d]
          BY <2>1, <2>3, <3>1, <4>2
        <5> QED BY <2>2, <2>3, <3>1, <4>2, <5>1 DEF Passed
      <4> QED BY <4>1, <4>2
    <3>2. ASSUME NEW d \in S, p = P[d] PROVE p \in Index!Visited(t, tokens, P[c])
      BY <1>4, <2>1, <2>2, <2>3, <3>2 DEF Passed
    <3> QED BY <3>1, <3>2
  <2> QED BY <2>4
<1> HIDE DEF S
<1>7. a.pending_tokens > a.ready_tokens <=> Index!PendingAdvantage(t, tokens, m, P[c])
  BY <1>3, <1>4, <1>5, <1>6, Advantage
<1>8. ASSUME NEW x, Index!EdgeNode(t, Index!Prefix(tokens, m), x) PROVE x = P[c]
  <2>1. Index!Prefix(tokens, m) = SubSeq(tokens, 1, m)
    BY DEF Index!Prefix
  <2> QED BY <1>2, <1>8, <2>1, OneEdgeNode
<1>9. Inspected(t, tokens, m, a)
  BY Zenon, <1>2, <1>7, <1>8 DEF Inspected
<1> QED BY <1>9 DEF a

\* The walks that only read agree with the definitions on paths: inspect_prefix with how much
\* of a prompt is matched and whether a pending sequence is ahead of the ready ones,
\* find_covering_seq_id with the nodes that cover a prefix, cumulative_token_depth with its length.
THEOREM LookupsAlwaysAgree == Spec => []LookupsAgree
<1>1. ASSUME IInv PROVE LookupsAgree
  <2> DEFINE P == Paths(heap)
             t == treeBar
  <2>1. Tree(heap, P) /\ IsBar(t, heap, P)
    BY <1>1, ThisState
  <2> HIDE DEF t, P
  <2>2. ASSUME NEW tokens \in Prompts, NEW a, a = inspect_prefix(heap, tokens)
        PROVE  Inspected(t, tokens, a.matched_tokens, a.avail)
    <3> DEFINE w == Inspect(heap, tokens)
    <3>1. tokens \in Seq(Token)
      BY ConstantsAssumption
    <3>2. w \in Seen(heap, P, tokens) /\ ~ FullMatch(heap, tokens, w)
      BY <2>1, <3>1, InspectFacts
    <3>3. a = IF Leads(heap, tokens, w)
              THEN [matched_tokens |-> w.idx + Matched(heap, tokens, w),
                    avail |-> Considered(heap, tokens, w)]
              ELSE [matched_tokens |-> w.idx, avail |-> w.avail]
      BY <2>2 DEF inspect_prefix
    <3> HIDE DEF w
    <3>4. CASE Leads(heap, tokens, w)
      <4> DEFINE m == w.idx + Matched(heap, tokens, w)
                 b == Considered(heap, tokens, w)
      <4>1. Inspected(t, tokens, m, b)
        BY <2>1, <3>1, <3>2, <3>4, InspectEdge
      <4> HIDE DEF m, b
      <4>2. a = [matched_tokens |-> m, avail |-> b]
        BY Zenon, <3>3, <3>4 DEF m, b
      <4>3. a.matched_tokens = m /\ a.avail = b
        BY <4>2
      <4> QED BY <4>1, <4>3
    <3>5. CASE ~ Leads(heap, tokens, w)
      <4>1. Inspected(t, tokens, w.idx, w.avail)
        BY <2>1, <3>1, <3>2, <3>5, InspectNode
      <4>2. a.matched_tokens = w.idx /\ a.avail = w.avail
        BY <3>3, <3>5
      <4> QED BY <4>1, <4>2
    <3> QED BY <3>4, <3>5
  <2>3. ASSUME NEW tokens \in Prompts
        PROVE  LET a == inspect_prefix(heap, tokens)
               IN  /\ Index!Matches(t, tokens, a.matched_tokens)
                   /\ \A x \in DOMAIN t :
                          Index!EdgeNode(t, Index!Prefix(tokens, a.matched_tokens), x) =>
                              (a.avail.pending_tokens > a.avail.ready_tokens <=>
                                  Index!PendingAdvantage(t, tokens, a.matched_tokens, x))
    BY Zenon, <2>2 DEF Inspected
  <2>4. ASSUME NEW n \in DOMAIN heap
        PROVE  /\ {Path(m) : m \in Below(heap, n)} = Index!CoveringNodes(t, Path(n))
               /\ cumulative_token_depth(heap, n) = Len(Path(n))
    <3>1. \A m : Path(m) = P[m]
      BY DEF Path, P
    <3>2. {P[m] : m \in Below(heap, n)} = Index!CoveringNodes(t, P[n])
      BY <2>1, CoveringBar
    <3>3. cumulative_token_depth(heap, n) = Len(P[n])
      BY <2>1, DepthFacts
    <3>4. {Path(m) : m \in Below(heap, n)} = {P[m] : m \in Below(heap, n)}
      BY <3>1
    <3> QED BY <3>1, <3>2, <3>3, <3>4
  <2> QED BY Zenon, <2>3, <2>4 DEF LookupsAgree, t
<1>2. IInv => LookupsAgree
  BY <1>1
<1> QED BY <1>2, PointerInvariance, PTL
=============================================================================
