--------------------------- MODULE ChunkSpikeProofs ---------------------------
(***************************************************************************)
(* The safety properties of module ChunkSpike, for every number and size   *)
(* of chunks, every set of variants and every length of an answer.         *)
(*                                                                         *)
(* The first part is about llama.cpp's memory: what a sequence holds (its  *)
(* row) after each of the calls of the tool.  The second part states what  *)
(* is in memory at each place of the program.                              *)
(***************************************************************************)
EXTENDS ChunkSpike, RecursionProofs, FiniteSetTheorems, SequenceTheorems

-----------------------------------------------------------------------------
(* The memory *)

Token == ({"prefix", "suffix", "answer"} \cup Nat) \X Nat

Sequences == {kPrefixSeq, kTargetSeq, kTemporarySeq, kScratchSeq}

Cell == [pos : Nat, tok : Token, seqs : (SUBSET Sequences) \ {{}}, of : Seq(Token)]

Bounded(c, n) == \A i \in DOMAIN c : i \in 1 .. n /\ c[i].pos <= n

Memory(c) == c \in [DOMAIN c -> Cell] /\ \E n \in Nat : Bounded(c, n)

\* A function is given by its domain and its values.
IsFcn(f) == f = [x \in DOMAIN f |-> f[x]]

\* The cells of a sequence are those of the row, one for each position from 0.
Holds(c, s, row) ==
    /\ row \in Seq(Cell)
    /\ \A i \in Of(c, s) : c[i].pos < Len(row) /\ c[i] = row[c[i].pos + 1]
    /\ \A k \in 1 .. Len(row) : \E i \in Of(c, s) : c[i].pos = k - 1
    /\ \A i, j \in Of(c, s) : c[i].pos = c[j].pos => i = j

\* The cells g are those of f without the positions a .. b, for the sequences S instead of
\* theirs, or moved by delta.
Without(f, g, a, b) ==
    /\ IsFcn(g) /\ \A k \in DOMAIN g : g[k] = f[k]
    /\ \A k : k \in DOMAIN g <=> k \in DOMAIN f /\ f[k].pos \notin a .. b

Given(f, g, S) ==
    IsFcn(g) /\ DOMAIN g = DOMAIN f /\ \A k \in DOMAIN f : g[k] = [f[k] EXCEPT !.seqs = S]

Forward(f, g, delta) ==
    IsFcn(g) /\ DOMAIN g = DOMAIN f /\ \A k \in DOMAIN f : g[k] = [f[k] EXCEPT !.pos = @ + delta]

\* A function on 1 .. n is a sequence.
LEMMA OneToN ==
    ASSUME NEW S, NEW n \in Nat, NEW f, IsFcn(f), DOMAIN f = 1 .. n, \A k \in 1 .. n : f[k] \in S
    PROVE  f \in Seq(S) /\ Len(f) = n
<1>1. f \in [1 .. n -> S]
  BY DEF IsFcn
<1>2. f \in Seq(S)
  BY Zenon, <1>1, SeqDef
<1> QED
  BY <1>1, <1>2, LenProperties

\* A bounded set of numbers that is not empty has a maximum.
LEMMA MaxOf ==
    ASSUME NEW S \in SUBSET Nat, S # {}, NEW n \in Nat, \A x \in S : x <= n
    PROVE  Max(S) \in S /\ \A x \in S : x <= Max(S)
<1> DEFINE U == {b \in Nat : \A x \in S : x <= b}
<1>1. U \in SUBSET Nat /\ U # {}
  OBVIOUS
<1> HIDE DEF U
<1>2. PICK b \in U : \A y \in U : b <= y
  BY <1>1, LeastElement
<1>3. b \in Nat /\ \A x \in S : x <= b
  BY <1>2 DEF U
<1>4. b \in S
  <2>1. SUFFICES ASSUME b \notin S PROVE FALSE
    OBVIOUS
  <2>2. PICK y \in S : y \in Nat
    OBVIOUS
  <2>3. y < b
    BY <1>3, <2>1, <2>2
  <2>4. b - 1 \in Nat
    BY <1>3, <2>2, <2>3
  <2>5. \A x \in S : x <= b - 1
    <3>1. TAKE x \in S
    <3>2. x \in Nat /\ x <= b /\ x # b
      BY <1>3, <2>1
    <3> QED
      BY <1>3, <3>2
  <2>6. b - 1 \in U
    BY <2>4, <2>5 DEF U
  <2> QED
    BY <1>2, <1>3, <2>6
<1>5. \E x \in S : \A y \in S : x >= y
  <2>1. \A y \in S : b >= y
    BY <1>3
  <2> QED
    BY <1>4, <2>1
<1>6. PICK m : m = Max(S)
  OBVIOUS
<1>7. m \in S /\ \A y \in S : m >= y
  BY <1>5, <1>6 DEF Max
<1>8. \A y \in S : y <= m
  BY <1>7
<1> QED
  BY <1>6, <1>7, <1>8

\* The numbers of the cells are bounded by the largest one.
LEMMA Top ==
    ASSUME NEW c, Memory(c)
    PROVE  Max(DOMAIN c \cup {0}) \in Nat /\ DOMAIN c \subseteq 1 .. Max(DOMAIN c \cup {0})
<1> DEFINE S == DOMAIN c \cup {0}
<1>1. PICK n \in Nat : Bounded(c, n)
  BY DEF Memory
<1>2. S \in SUBSET Nat /\ S # {} /\ \A x \in S : x <= n
  BY <1>1 DEF Bounded
<1>3. Max(S) \in S /\ \A x \in S : x <= Max(S)
  BY <1>2, MaxOf
<1>4. \A i \in DOMAIN c : i \in Nat /\ i >= 1
  BY <1>1 DEF Bounded
<1> QED
  BY <1>2, <1>3, <1>4

\* The positions of the cells are bounded by the largest one, which remove_sequence takes.
LEMMA Highest ==
    ASSUME NEW c, Memory(c)
    PROVE  /\ Max({0} \cup {c[i].pos : i \in DOMAIN c}) \in Nat
           /\ \A i \in DOMAIN c : c[i].pos \in 0 .. Max({0} \cup {c[j].pos : j \in DOMAIN c})
<1> DEFINE S == {0} \cup {c[i].pos : i \in DOMAIN c}
<1>1. PICK n \in Nat : Bounded(c, n)
  BY DEF Memory
<1>2. \A i \in DOMAIN c : c[i].pos \in Nat /\ c[i].pos <= n
  BY <1>1 DEF Bounded, Memory, Cell
<1>3. S \in SUBSET Nat /\ S # {} /\ \A x \in S : x <= n
  BY <1>2
<1>4. Max(S) \in S /\ \A x \in S : x <= Max(S)
  BY <1>3, MaxOf
<1>5. Max(S) \in Nat /\ \A i \in DOMAIN c : c[i].pos \in S
  BY <1>3, <1>4
<1> HIDE DEF S
<1>6. \A i \in DOMAIN c : c[i].pos \in 0 .. Max(S)
  BY <1>2, <1>4, <1>5
<1> QED
  BY <1>5, <1>6 DEF S

\* A row numbers its cells: as many lie before a position as the position says.
LEMMA RowCount ==
    ASSUME NEW c, Memory(c), NEW s, NEW row, Holds(c, s, row), NEW p \in 0 .. Len(row)
    PROVE  /\ IsFiniteSet({j \in Of(c, s) : c[j].pos < p})
           /\ Cardinality({j \in Of(c, s) : c[j].pos < p}) = p
<1> DEFINE S == {j \in Of(c, s) : c[j].pos < p}
           f == [k \in 1 .. p |-> CHOOSE i \in Of(c, s) : c[i].pos = k - 1]
<1>1. p \in Nat /\ Len(row) \in Nat
  BY DEF Holds
<1>2. \A i \in Of(c, s) : c[i].pos \in Nat
  BY DEF Of, Memory, Cell
<1>3. \A k \in 1 .. p : f[k] \in Of(c, s) /\ c[f[k]].pos = k - 1
  <2>1. TAKE k \in 1 .. p
  <2>2. k \in 1 .. Len(row)
    BY <1>1
  <2>3. \E i \in Of(c, s) : c[i].pos = k - 1
    BY <2>2 DEF Holds
  <2> QED
    BY <2>3
<1>4. f \in [1 .. p -> S]
  <2>1. \A k \in 1 .. p : f[k] \in S
    BY <1>1, <1>3
  <2> QED
    BY <2>1
<1>5. \A k, l \in 1 .. p : f[k] = f[l] => k = l
  <2>1. TAKE k, l \in 1 .. p
  <2>2. c[f[k]].pos = k - 1 /\ c[f[l]].pos = l - 1
    BY <1>3
  <2> HIDE DEF f
  <2> QED
    BY <1>1, <2>2
<1>6. \A j \in S : \E k \in 1 .. p : f[k] = j
  <2>1. TAKE j \in S
  <2>2. c[j].pos + 1 \in 1 .. p /\ j \in Of(c, s)
    BY <1>1, <1>2
  <2>3. PICK k \in 1 .. p : k = c[j].pos + 1
    BY <2>2
  <2>4. f[k] \in Of(c, s) /\ c[f[k]].pos = c[j].pos
    BY <1>2, <1>3, <2>2, <2>3
  <2>5. f[k] = j
    BY <2>2, <2>4 DEF Holds
  <2> QED
    BY <2>3, <2>5
<1> HIDE DEF f, S
<1>7. f \in Bijection(1 .. p, S)
  BY <1>4, <1>5, <1>6 DEF Bijection, Injection, Surjection, IsInjective
<1>8. ExistsBijection(1 .. p, S)
  BY <1>7 DEF ExistsBijection
<1>9. IsFiniteSet(S) /\ Cardinality(S) = p
  BY <1>1, <1>8, FS_NatBijection, FS_CountingElements
<1> QED
  BY <1>9 DEF S

\* What a sequence holds is its row.
LEMMA RowIs ==
    ASSUME NEW c, Memory(c), NEW s, NEW row, Holds(c, s, row)
    PROVE  Row(c, s) = row
<1> DEFINE ids == Of(c, s)
           rank(i) == Cardinality({j \in ids : \/ c[j].pos < c[i].pos
                                               \/ c[j].pos = c[i].pos /\ j < i})
<1>1. PICK N \in Nat : N = Len(row)
  BY DEF Holds
<1>2. \A i \in ids : c[i].pos \in Nat /\ c[i].pos < N /\ i \in Nat
  BY <1>1 DEF Of, Memory, Cell, Bounded, Holds
<1>3. Cardinality(ids) = N
  <2>1. {j \in ids : c[j].pos < N} = ids
    BY <1>2
  <2> QED
    BY <1>1, <2>1, RowCount
<1>4. \A i \in ids : rank(i) = c[i].pos
  <2>1. TAKE i \in ids
  <2>2. {j \in ids : c[j].pos < c[i].pos \/ (c[j].pos = c[i].pos /\ j < i)}
            = {j \in ids : c[j].pos < c[i].pos}
    <3>1. \A j \in ids : ~ (c[j].pos = c[i].pos /\ j < i)
      BY <1>2 DEF Holds
    <3> QED
      BY <3>1
  <2>3. c[i].pos \in 0 .. Len(row)
    BY <1>1, <1>2
  <2>4. Cardinality({j \in ids : c[j].pos < c[i].pos}) = c[i].pos
    BY <2>3, RowCount
  <2> QED
    BY <2>2, <2>4
<1>5. \A n \in 1 .. N : c[CHOOSE i \in ids : rank(i) = n - 1] = row[n]
  <2> HIDE DEF rank
  <2>1. TAKE n \in 1 .. N
  <2>2. \E i \in ids : c[i].pos = n - 1
    BY <1>1 DEF Holds
  <2>3. \E i \in ids : rank(i) = n - 1
    BY <1>4, <2>2
  <2>4. PICK i : i = CHOOSE j \in ids : rank(j) = n - 1
    OBVIOUS
  <2>5. i \in ids /\ rank(i) = n - 1
    BY <2>3, <2>4
  <2>6. c[i].pos + 1 = n
    BY <1>2, <1>4, <2>5
  <2>7. c[i] = row[n]
    BY <2>5, <2>6 DEF Holds
  <2> QED
    BY <2>4, <2>7
<1>6. row = [n \in 1 .. N |-> row[n]]
  BY <1>1 DEF Holds
<1>7. Row(c, s) = [n \in 1 .. N |-> c[CHOOSE i \in ids : rank(i) = n - 1]]
  BY <1>3 DEF Row
<1> HIDE DEF rank
<1> QED
  BY <1>5, <1>6, <1>7

-----------------------------------------------------------------------------
(* The calls on the memory *)

\* The memory c with the cells of f after those up to top.
With(c, top, f) ==
    [i \in DOMAIN c \cup {top + k : k \in DOMAIN f} |-> IF i \in DOMAIN c THEN c[i] ELSE f[i - top]]

\* The cells of c and f are apart, and stay what they are.
LEMMA WithFacts ==
    ASSUME NEW c, Memory(c), NEW f, Memory(f), NEW top \in Nat, DOMAIN c \subseteq 1 .. top
    PROVE  /\ Memory(With(c, top, f))
           /\ \A i \in DOMAIN c : i \in DOMAIN With(c, top, f) /\ With(c, top, f)[i] = c[i]
           /\ \A k \in DOMAIN f : /\ k \in Nat /\ top + k \notin DOMAIN c
                                  /\ top + k \in DOMAIN With(c, top, f)
                                  /\ With(c, top, f)[top + k] = f[k]
           /\ \A i \in DOMAIN With(c, top, f) :
                  i \in DOMAIN c \/ \E k \in DOMAIN f : i = top + k
<1> DEFINE d == With(c, top, f)
<1>1. PICK m \in Nat : Bounded(c, m)
  BY DEF Memory
<1>2. PICK n \in Nat : Bounded(f, n)
  BY DEF Memory
<1>3. \A i \in DOMAIN c : i \in DOMAIN d /\ d[i] = c[i] /\ i \in 1 .. top /\ i <= m /\ c[i].pos <= m
  BY <1>1 DEF With, Bounded
<1>4. \A k \in DOMAIN f : k \in Nat /\ k >= 1 /\ k <= n /\ f[k].pos <= n
  BY <1>2 DEF Bounded
<1>5. ASSUME NEW k \in DOMAIN f
      PROVE  top + k \notin DOMAIN c /\ top + k \in DOMAIN d /\ d[top + k] = f[k]
  <2>1. k \in Nat /\ k >= 1
    BY <1>4
  <2>2. top + k \notin DOMAIN c
    <3>1. top + k \notin 1 .. top
      BY <2>1
    <3> QED
      BY <3>1
  <2>3. PICK i \in Nat : i = top + k
    BY <2>1
  <2>4. i - top = k
    BY <2>1, <2>3
  <2>5. i \in {top + j : j \in DOMAIN f} /\ i \notin DOMAIN c
    BY <2>2, <2>3
  <2>6. i \in DOMAIN d /\ d[i] = f[k]
    BY <2>4, <2>5 DEF With
  <2> HIDE DEF d
  <2> QED
    BY <2>2, <2>3, <2>6
<1>6. \A i \in DOMAIN d : i \in DOMAIN c \/ \E k \in DOMAIN f : i = top + k
  BY DEF With
<1>7. IsFcn(d)
  BY DEF With, IsFcn
<1> HIDE DEF d
<1>8. \A i \in DOMAIN d : d[i] \in Cell
  <2>1. TAKE i \in DOMAIN d
  <2>2. CASE i \in DOMAIN c
    BY <1>3, <2>2 DEF Memory
  <2>3. CASE \E k \in DOMAIN f : i = top + k
    BY <1>5, <2>3 DEF Memory
  <2> QED
    BY <1>6, <2>2, <2>3
<1>9. \E b \in Nat : Bounded(d, b)
  <2>1. PICK b \in Nat : b = top + m + n
    OBVIOUS
  <2>2. ASSUME NEW i \in DOMAIN d
        PROVE  i \in 1 .. b /\ d[i].pos <= b
    <3>1. CASE i \in DOMAIN c
      <4>1. i \in 1 .. top /\ d[i].pos = c[i].pos /\ c[i].pos <= m /\ c[i].pos \in Nat
        BY <1>3, <3>1 DEF Memory, Cell
      <4> QED
        BY <2>1, <4>1
    <3>2. CASE \E k \in DOMAIN f : i = top + k
      <4>1. PICK k \in DOMAIN f : i = top + k
        BY <3>2
      <4>2. k \in Nat /\ k >= 1 /\ k <= n /\ d[i].pos = f[k].pos /\ f[k].pos <= n /\ f[k].pos \in Nat
        BY <1>4, <1>5, <4>1 DEF Memory, Cell
      <4> QED
        BY <2>1, <4>1, <4>2
    <3> QED
      BY <1>6, <3>1, <3>2
  <2> QED
    BY <2>2 DEF Bounded
<1>10. d \in [DOMAIN d -> Cell]
  BY <1>7, <1>8 DEF IsFcn
<1>11. Memory(d)
  BY <1>9, <1>10 DEF Memory
<1> QED
  BY <1>3, <1>4, <1>5, <1>6, <1>11 DEF d

\* Some cells of a memory are a memory.
LEMMA SomeMemory ==
    ASSUME NEW c, Memory(c), NEW d, IsFcn(d), DOMAIN d \in SUBSET DOMAIN c,
           \A i \in DOMAIN d : d[i] \in Cell /\ d[i].pos = c[i].pos
    PROVE  Memory(d)
<1>1. PICK m \in Nat : Bounded(c, m)
  BY DEF Memory
<1>2. d \in [DOMAIN d -> Cell]
  BY DEF IsFcn
<1>3. Bounded(d, m)
  BY <1>1, <1>2 DEF Bounded
<1> QED
  BY <1>2, <1>3 DEF Memory

\* AddCells puts the new cells behind the others.
LEMMA AddCellsIs ==
    ASSUME NEW c, Memory(c), NEW new, new \in Seq(Cell), Memory(new)
    PROVE  \E top \in Nat : DOMAIN c \subseteq 1 .. top /\ AddCells(c, new) = With(c, top, new)
<1>1. PICK top : top = Max(DOMAIN c \cup {0})
  OBVIOUS
<1>2. top \in Nat /\ DOMAIN c \subseteq 1 .. top
  BY <1>1, Top
<1>3. PICK n \in Nat : n = Len(new) /\ DOMAIN new = 1 .. n
  OBVIOUS
<1>4. top + 1 .. top + n = {top + k : k \in 1 .. n}
  <2>1. ASSUME NEW i \in top + 1 .. top + n
        PROVE  i \in {top + k : k \in 1 .. n}
    <3>1. i - top \in 1 .. n /\ i = top + (i - top)
      BY <1>2, <1>3
    <3> QED
      BY <3>1
  <2>2. ASSUME NEW k \in 1 .. n
        PROVE  top + k \in top + 1 .. top + n
    BY <1>2, <1>3
  <2> QED
    BY <2>1, <2>2
<1>5. AddCells(c, new) = With(c, top, new)
  BY <1>1, <1>3, <1>4 DEF AddCells, With
<1> QED
  BY <1>2, <1>5

\* A memory that has the cells of c and those of g behind them is With(c, top, g).
LEMMA WithIs ==
    ASSUME NEW c, Memory(c), NEW g, Memory(g), NEW top \in Nat, DOMAIN c \subseteq 1 .. top,
           NEW d, IsFcn(d),
           \A i \in DOMAIN d : i \in DOMAIN c \/ \E k \in DOMAIN g : i = top + k,
           \A i \in DOMAIN c : i \in DOMAIN d /\ d[i] = c[i],
           \A k \in DOMAIN g : top + k \in DOMAIN d /\ d[top + k] = g[k]
    PROVE  d = With(c, top, g)
<1>1. PICK e : e = With(c, top, g)
  OBVIOUS
<1>2. /\ \A i \in DOMAIN c : i \in DOMAIN e /\ e[i] = c[i]
      /\ \A k \in DOMAIN g : top + k \in DOMAIN e /\ e[top + k] = g[k]
      /\ \A i \in DOMAIN e : i \in DOMAIN c \/ \E k \in DOMAIN g : i = top + k
  BY <1>1, WithFacts
<1>3. IsFcn(e)
  BY <1>1 DEF With, IsFcn
<1>4. DOMAIN d = DOMAIN e
  <2>1. \A i \in DOMAIN d : i \in DOMAIN e
    BY <1>2
  <2>2. \A i \in DOMAIN e : i \in DOMAIN d
    BY <1>2
  <2> QED
    BY <2>1, <2>2
<1>5. \A i \in DOMAIN d : d[i] = e[i]
  BY <1>2
<1> QED
  BY <1>1, <1>3, <1>4, <1>5 DEF IsFcn

\* The cells of f are those of the sequence s, and c has none of them.
Attached(c, top, f, S, s) ==
    /\ Memory(c) /\ Memory(f) /\ top \in Nat /\ DOMAIN c \subseteq 1 .. top
    /\ Of(c, s) = {} /\ s \in S /\ S \in SUBSET Sequences /\ \A k \in DOMAIN f : f[k].seqs = S

\* Only attached cells are of the sequence.
LEMMA AttachedOf ==
    ASSUME NEW c, NEW top, NEW f, NEW S, NEW s, Attached(c, top, f, S, s)
    PROVE  /\ \A i \in DOMAIN c : i \notin Of(With(c, top, f), s)
           /\ \A k \in DOMAIN f : top + k \in Of(With(c, top, f), s)
<1>1. PICK e : e = With(c, top, f)
  OBVIOUS
<1>2. /\ \A i \in DOMAIN c : i \in DOMAIN e /\ e[i] = c[i]
      /\ \A k \in DOMAIN f : top + k \in DOMAIN e /\ e[top + k] = f[k]
  BY <1>1, WithFacts DEF Attached
<1>3. \A i \in DOMAIN c : i \notin Of(e, s)
  BY <1>2 DEF Attached, Of
<1>4. \A k \in DOMAIN f : top + k \in Of(e, s)
  BY <1>2 DEF Attached, Of
<1> QED
  BY <1>1, <1>3, <1>4

\* seq_rm takes attached cells away.
LEMMA RmAttached ==
    ASSUME NEW c, NEW top, NEW f, NEW s, Attached(c, top, f, {s}, s), NEW a, NEW b,
           NEW g, Without(f, g, a, b)
    PROVE  seq_rm(With(c, top, f), s, a, b) = With(c, top, g) /\ Attached(c, top, g, {s}, s)
<1>1. PICK e : e = With(c, top, f)
  OBVIOUS
<1>2. /\ Memory(e)
      /\ \A i \in DOMAIN c : i \in DOMAIN e /\ e[i] = c[i]
      /\ \A k \in DOMAIN f : top + k \in DOMAIN e /\ e[top + k] = f[k]
      /\ \A i \in DOMAIN e : i \in DOMAIN c \/ \E k \in DOMAIN f : i = top + k
  BY <1>1, WithFacts DEF Attached
<1>3. /\ \A i \in DOMAIN c : i \notin Of(e, s)
      /\ \A k \in DOMAIN f : top + k \in Of(e, s)
  BY <1>1, AttachedOf
<1>4. /\ IsFcn(g) /\ \A k \in DOMAIN g : g[k] = f[k]
      /\ \A k : k \in DOMAIN g <=> k \in DOMAIN f /\ f[k].pos \notin a .. b
  BY DEF Without
<1>5. Memory(g)
  <2>1. DOMAIN g \subseteq DOMAIN f /\ IsFcn(g)
    BY <1>4 DEF IsFcn
  <2>2. \A k \in DOMAIN g : g[k] \in Cell /\ g[k].pos = f[k].pos
    BY <1>4 DEF Attached, Memory
  <2> QED
    BY <2>1, <2>2, SomeMemory DEF Attached
<1>6. Attached(c, top, g, {s}, s)
  BY <1>4, <1>5 DEF Attached
<1> DEFINE hit == {i \in Of(e, s) : e[i].pos \in a .. b}
           out(i) == IF i \in hit THEN [e[i] EXCEPT !.seqs = @ \ {s}] ELSE e[i]
<1>7. PICK d : d = [i \in {j \in DOMAIN e : out(j).seqs # {}} |-> out(i)]
  OBVIOUS
<1>8. \A i \in DOMAIN c : out(i) = c[i] /\ out(i).seqs # {}
  <2>1. \A i \in DOMAIN c : c[i].seqs # {}
    BY DEF Attached, Memory, Cell
  <2> QED
    BY <1>2, <1>3, <2>1
<1>9. \A k \in DOMAIN g : out(top + k) = g[k] /\ g[k].seqs # {}
  <2>1. TAKE k \in DOMAIN g
  <2>2. top + k \notin hit /\ e[top + k] = g[k]
    BY <1>2, <1>4
  <2> QED
    BY <1>6, <2>2 DEF Attached
<1>10. \A k \in DOMAIN f \ DOMAIN g : out(top + k).seqs = {}
  <2>1. TAKE k \in DOMAIN f \ DOMAIN g
  <2>2. top + k \in hit /\ e[top + k] = f[k] /\ f[k].seqs = {s} /\ f[k] \in Cell
    BY <1>2, <1>3, <1>4 DEF Attached, Memory
  <2>3. [f[k] EXCEPT !.seqs = @ \ {s}].seqs = f[k].seqs \ {s}
    BY <2>2 DEF Cell
  <2> HIDE DEF hit
  <2> QED
    BY <2>2, <2>3
<1> HIDE DEF out, hit
<1>11. d = With(c, top, g)
  <2>1. IsFcn(d)
    BY <1>7 DEF IsFcn
  <2>2. \A i \in DOMAIN c : i \in DOMAIN d /\ d[i] = c[i]
    BY <1>2, <1>7, <1>8
  <2>3. \A k \in DOMAIN g : top + k \in DOMAIN d /\ d[top + k] = g[k]
    BY <1>2, <1>4, <1>7, <1>9
  <2>4. \A i \in DOMAIN d : i \in DOMAIN c \/ \E k \in DOMAIN g : i = top + k
    BY <1>2, <1>7, <1>10
  <2>5. Memory(c) /\ top \in Nat /\ DOMAIN c \subseteq 1 .. top
    BY DEF Attached
  <2> QED
    BY <1>5, <2>1, <2>2, <2>3, <2>4, <2>5, WithIs
<1>12. seq_rm(e, s, a, b) = d
  BY <1>7 DEF seq_rm, out, hit
<1> QED
  BY <1>1, <1>6, <1>11, <1>12

\* seq_add moves attached cells.
LEMMA AddAttached ==
    ASSUME NEW c, NEW top, NEW f, NEW s, Attached(c, top, f, {s}, s), NEW first, NEW delta \in Nat,
           \A k \in DOMAIN f : f[k].pos >= first,
           NEW g, Forward(f, g, delta)
    PROVE  seq_add(With(c, top, f), s, first, delta) = With(c, top, g)
           /\ Attached(c, top, g, {s}, s)
<1>0. /\ IsFcn(g) /\ DOMAIN g = DOMAIN f
      /\ \A k \in DOMAIN f : g[k] = [f[k] EXCEPT !.pos = @ + delta]
  BY DEF Forward
<1> USE <1>0
<1>1. PICK e : e = With(c, top, f)
  OBVIOUS
<1>2. /\ Memory(e)
      /\ \A i \in DOMAIN c : i \in DOMAIN e /\ e[i] = c[i]
      /\ \A k \in DOMAIN f : top + k \in DOMAIN e /\ e[top + k] = f[k]
      /\ \A i \in DOMAIN e : i \in DOMAIN c \/ \E k \in DOMAIN f : i = top + k
  BY <1>1, WithFacts DEF Attached
<1>3. /\ \A i \in DOMAIN c : i \notin Of(e, s)
      /\ \A k \in DOMAIN f : top + k \in Of(e, s)
  BY <1>1, AttachedOf
<1>4. \A k \in DOMAIN f : /\ g[k] \in Cell /\ g[k].seqs = f[k].seqs
                          /\ f[k].pos \in Nat /\ g[k].pos = f[k].pos + delta
  <2>1. TAKE k \in DOMAIN f
  <2>2. f[k] \in Cell
    BY DEF Attached, Memory
  <2> QED
    BY <2>2 DEF Cell
<1>5. Memory(g)
  <2>1. PICK m \in Nat : Bounded(f, m)
    BY DEF Attached, Memory
  <2>2. Bounded(g, m + delta)
    <3>1. ASSUME NEW k \in DOMAIN g
          PROVE  k \in 1 .. m + delta /\ g[k].pos <= m + delta
      <4>1. k \in 1 .. m /\ f[k].pos <= m /\ k \in DOMAIN f
        BY <2>1 DEF Bounded
      <4>2. f[k].pos \in Nat /\ g[k].pos = f[k].pos + delta
        BY <1>4, <4>1
      <4> QED
        BY <4>1, <4>2
    <3> QED
      BY <3>1 DEF Bounded
  <2>3. g \in [DOMAIN g -> Cell]
    BY <1>4 DEF IsFcn
  <2> QED
    BY <2>2, <2>3 DEF Memory
<1>6. Attached(c, top, g, {s}, s)
  BY <1>4, <1>5 DEF Attached
<1>7. PICK d : d = seq_add(e, s, first, delta)
  OBVIOUS
<1>8. DOMAIN d = DOMAIN e /\ IsFcn(d)
  BY <1>7 DEF seq_add, IsFcn
<1>9. \A i \in DOMAIN c : d[i] = c[i]
  BY <1>2, <1>3, <1>7 DEF seq_add
<1>10. \A k \in DOMAIN f : d[top + k] = g[k]
  <2>1. TAKE k \in DOMAIN f
  <2>2. PICK i : i = top + k
    OBVIOUS
  <2>3. i \in DOMAIN e /\ e[i] = f[k] /\ i \in Of(e, s) /\ e[i].pos >= first
    BY <1>2, <1>3, <2>2
  <2>4. d[i] = [e[i] EXCEPT !.pos = @ + delta]
    BY <1>7, <2>3 DEF seq_add
  <2> QED
    BY <2>2, <2>3, <2>4
<1>11. d = With(c, top, g)
  <2>1. \A i \in DOMAIN c : i \in DOMAIN d /\ d[i] = c[i]
    BY <1>2, <1>8, <1>9
  <2>2. \A k \in DOMAIN g : top + k \in DOMAIN d /\ d[top + k] = g[k]
    BY <1>2, <1>8, <1>10
  <2>3. \A i \in DOMAIN d : i \in DOMAIN c \/ \E k \in DOMAIN g : i = top + k
    BY <1>2, <1>8
  <2>4. Memory(c) /\ top \in Nat /\ DOMAIN c \subseteq 1 .. top
    BY DEF Attached
  <2> QED
    BY <1>5, <1>8, <2>1, <2>2, <2>3, <2>4, WithIs
<1> QED
  BY <1>1, <1>6, <1>7, <1>11

\* remove_sequence leaves every cell to the other sequences that it belongs to.
LEMMA RemoveIs ==
    ASSUME NEW c, Memory(c), NEW s, NEW d, d = remove_sequence(c, s)
    PROVE  /\ Memory(d) /\ IsFcn(d)
           /\ \A i : i \in DOMAIN d <=> i \in DOMAIN c /\ c[i].seqs # {s}
           /\ \A i \in DOMAIN d : d[i] = [c[i] EXCEPT !.seqs = @ \ {s}]
           /\ \A i \in DOMAIN d : s \notin c[i].seqs => d[i] = c[i]
<1> DEFINE hit == {i \in Of(c, s) : c[i].pos \in 0 .. Max({0} \cup {c[j].pos : j \in DOMAIN c})}
           out(i) == IF i \in hit THEN [c[i] EXCEPT !.seqs = @ \ {s}] ELSE c[i]
<1>1. d = [i \in {j \in DOMAIN c : out(j).seqs # {}} |-> out(i)]
  BY DEF remove_sequence, seq_rm
<1>2. hit = Of(c, s)
  BY Highest DEF Of
<1>3. \A i \in DOMAIN c : c[i] \in Cell
  BY DEF Memory
<1>4. \A i \in DOMAIN c : /\ out(i) = [c[i] EXCEPT !.seqs = @ \ {s}]
                          /\ out(i).seqs = c[i].seqs \ {s}
                          /\ out(i).pos = c[i].pos
                          /\ s \notin c[i].seqs => out(i) = c[i]
  <2>1. TAKE i \in DOMAIN c
  <2>2. PICK r \in Cell : r = c[i]
    BY <1>3
  <2>3. [r EXCEPT !.seqs = @ \ {s}].seqs = r.seqs \ {s}
        /\ [r EXCEPT !.seqs = @ \ {s}].pos = r.pos
    BY <2>2 DEF Cell
  <2>4. CASE s \in r.seqs
    BY <1>2, <2>2, <2>3, <2>4 DEF Of
  <2>5. CASE s \notin r.seqs
    <3>1. r.seqs \ {s} = r.seqs
      BY <2>5
    <3>2. [r EXCEPT !.seqs = @ \ {s}] = r
      BY <2>2, <3>1 DEF Cell
    <3>3. out(i) = r
      BY <1>2, <2>2, <2>5 DEF Of
    <3> QED
      BY <2>2, <2>3, <3>1, <3>2, <3>3
  <2> QED
    BY <2>4, <2>5
<1> HIDE DEF out
<1>5. \A i : i \in DOMAIN d <=> i \in DOMAIN c /\ c[i].seqs # {s}
  <2>1. \A i \in DOMAIN c : out(i).seqs # {} <=> c[i].seqs # {s}
    <3>1. TAKE i \in DOMAIN c
    <3>2. c[i].seqs # {}
      BY <1>3 DEF Cell
    <3> QED
      BY <1>4, <3>2
  <2> QED
    BY <1>1, <2>1
<1>6. \A i \in DOMAIN d : d[i] = out(i) /\ i \in DOMAIN c
  BY <1>1
<1>7. IsFcn(d)
  BY <1>1 DEF IsFcn
<1>8. \A i \in DOMAIN d : d[i] \in Cell /\ d[i].pos = c[i].pos
  <2>1. TAKE i \in DOMAIN d
  <2>2. PICK r \in Cell : r = c[i]
    BY <1>3, <1>6
  <2>3. d[i] = [r EXCEPT !.seqs = @ \ {s}]
    BY <1>4, <1>6, <2>2
  <2>4. r.seqs # {} /\ r.seqs # {s} /\ r.seqs \subseteq Sequences
    BY <1>5, <2>2 DEF Cell
  <2>5. r.seqs \ {s} \in (SUBSET Sequences) \ {{}}
    BY <2>4
  <2> QED
    BY <2>2, <2>3, <2>5 DEF Cell
<1>9. DOMAIN d \in SUBSET DOMAIN c
  BY <1>6
<1>10. Memory(d)
  BY <1>7, <1>8, <1>9, SomeMemory
<1> QED
  BY <1>4, <1>5, <1>6, <1>7, <1>10

\* seq_cp shares attached cells with another sequence.
LEMMA CpAttached ==
    ASSUME NEW c, NEW top, NEW f, NEW s, Attached(c, top, f, {s}, s), NEW t \in Sequences,
           NEW g, Given(f, g, {s, t})
    PROVE  seq_cp(With(c, top, f), s, t) = With(c, top, g) /\ Attached(c, top, g, {s, t}, s)
<1>0. /\ IsFcn(g) /\ DOMAIN g = DOMAIN f
      /\ \A k \in DOMAIN f : g[k] = [f[k] EXCEPT !.seqs = {s, t}]
  BY DEF Given
<1> USE <1>0
<1>1. PICK e : e = With(c, top, f)
  OBVIOUS
<1>2. /\ Memory(e)
      /\ \A i \in DOMAIN c : i \in DOMAIN e /\ e[i] = c[i]
      /\ \A k \in DOMAIN f : top + k \in DOMAIN e /\ e[top + k] = f[k]
      /\ \A i \in DOMAIN e : i \in DOMAIN c \/ \E k \in DOMAIN f : i = top + k
  BY <1>1, WithFacts DEF Attached
<1>3. /\ \A i \in DOMAIN c : i \notin Of(e, s)
      /\ \A k \in DOMAIN f : top + k \in Of(e, s)
  BY <1>1, AttachedOf
<1>4. s \in Sequences /\ \A k \in DOMAIN f : f[k] \in Cell /\ f[k].seqs = {s}
  BY DEF Attached, Memory
<1>5. \A k \in DOMAIN f : /\ g[k] \in Cell /\ g[k].seqs = {s, t} /\ g[k].pos = f[k].pos
                          /\ g[k] = [f[k] EXCEPT !.seqs = @ \cup {t}]
  <2>1. TAKE k \in DOMAIN f
  <2>2. PICK r \in Cell : r = f[k] /\ r.seqs = {s}
    BY <1>4
  <2>3. {s, t} \in (SUBSET Sequences) \ {{}} /\ {s} \cup {t} = {s, t}
    BY <1>4
  <2>4. g[k] = [r EXCEPT !.seqs = {s, t}]
    BY <2>2
  <2> QED
    BY <2>2, <2>3, <2>4 DEF Cell
<1>6. Memory(g)
  BY <1>5, SomeMemory DEF Attached
<1>7. Attached(c, top, g, {s, t}, s)
  BY <1>4, <1>5, <1>6 DEF Attached
<1>8. PICK d : d = seq_cp(e, s, t)
  OBVIOUS
<1>9. DOMAIN d = DOMAIN e /\ IsFcn(d)
  BY <1>8 DEF seq_cp, IsFcn
<1>10. \A i \in DOMAIN c : d[i] = c[i]
  BY <1>2, <1>3, <1>8 DEF seq_cp
<1>11. \A k \in DOMAIN f : d[top + k] = g[k]
  <2>1. TAKE k \in DOMAIN f
  <2>2. PICK i : i = top + k
    OBVIOUS
  <2>3. i \in DOMAIN e /\ e[i] = f[k] /\ i \in Of(e, s)
    BY <1>2, <1>3, <2>2
  <2>4. d[i] = [e[i] EXCEPT !.seqs = @ \cup {t}]
    BY <1>8, <2>3 DEF seq_cp
  <2> QED
    BY <1>5, <2>2, <2>3, <2>4
<1>12. d = With(c, top, g)
  <2>1. \A i \in DOMAIN c : i \in DOMAIN d /\ d[i] = c[i]
    BY <1>2, <1>9, <1>10
  <2>2. \A k \in DOMAIN g : top + k \in DOMAIN d /\ d[top + k] = g[k]
    BY <1>2, <1>9, <1>11
  <2>3. \A i \in DOMAIN d : i \in DOMAIN c \/ \E k \in DOMAIN g : i = top + k
    BY <1>2, <1>9
  <2>4. Memory(c) /\ top \in Nat /\ DOMAIN c \subseteq 1 .. top
    BY DEF Attached
  <2> QED
    BY <1>6, <1>9, <2>1, <2>2, <2>3, <2>4, WithIs
<1> QED
  BY <1>1, <1>7, <1>8, <1>12

\* remove_sequence leaves shared attached cells to the other sequence.
LEMMA RemoveAttached ==
    ASSUME NEW c, NEW top, NEW f, NEW s, NEW t, s # t, Attached(c, top, f, {s, t}, s),
           NEW g, Given(f, g, {t})
    PROVE  remove_sequence(With(c, top, f), s) = With(c, top, g) /\ Memory(g)
<1>0. /\ IsFcn(g) /\ DOMAIN g = DOMAIN f
      /\ \A k \in DOMAIN f : g[k] = [f[k] EXCEPT !.seqs = {t}]
  BY DEF Given
<1> USE <1>0
<1>1. PICK e : e = With(c, top, f)
  OBVIOUS
<1>2. /\ Memory(e)
      /\ \A i \in DOMAIN c : i \in DOMAIN e /\ e[i] = c[i]
      /\ \A k \in DOMAIN f : top + k \in DOMAIN e /\ e[top + k] = f[k]
      /\ \A i \in DOMAIN e : i \in DOMAIN c \/ \E k \in DOMAIN f : i = top + k
  BY <1>1, WithFacts DEF Attached
<1>3. /\ t \in Sequences
      /\ \A k \in DOMAIN f : f[k] \in Cell /\ f[k].seqs = {s, t}
      /\ \A i \in DOMAIN c : s \notin c[i].seqs /\ c[i].seqs # {s}
  BY DEF Attached, Memory, Of
<1>4. \A k \in DOMAIN f : /\ g[k] \in Cell /\ g[k].pos = f[k].pos
                          /\ g[k] = [f[k] EXCEPT !.seqs = @ \ {s}]
  <2>1. TAKE k \in DOMAIN f
  <2>2. PICK r \in Cell : r = f[k] /\ r.seqs = {s, t}
    BY <1>3
  <2>3. {t} \in (SUBSET Sequences) \ {{}} /\ {s, t} \ {s} = {t}
    BY <1>3
  <2>4. g[k] = [r EXCEPT !.seqs = {t}]
    BY <2>2
  <2> QED
    BY <2>2, <2>3, <2>4 DEF Cell
<1>5. Memory(g)
  BY <1>4, SomeMemory DEF Attached
<1>6. PICK d : d = remove_sequence(e, s)
  OBVIOUS
<1>7. /\ Memory(d) /\ IsFcn(d)
      /\ \A i : i \in DOMAIN d <=> i \in DOMAIN e /\ e[i].seqs # {s}
      /\ \A i \in DOMAIN d : d[i] = [e[i] EXCEPT !.seqs = @ \ {s}]
      /\ \A i \in DOMAIN d : s \notin e[i].seqs => d[i] = e[i]
  BY <1>2, <1>6, RemoveIs
<1>8. \A i \in DOMAIN c : i \in DOMAIN d /\ d[i] = c[i]
  BY <1>2, <1>3, <1>7
<1>9. \A k \in DOMAIN g : top + k \in DOMAIN d /\ d[top + k] = g[k]
  <2>1. TAKE k \in DOMAIN g
  <2>2. PICK i : i = top + k
    OBVIOUS
  <2>3. i \in DOMAIN e /\ e[i] = f[k] /\ f[k].seqs = {s, t}
    BY <1>2, <1>3, <2>2
  <2>4. i \in DOMAIN d
    <3>1. e[i].seqs # {s}
      BY <2>3
    <3> QED
      BY <1>7, <2>3, <3>1
  <2>5. d[i] = [e[i] EXCEPT !.seqs = @ \ {s}]
    BY <1>7, <2>4
  <2> QED
    BY <1>4, <2>2, <2>3, <2>4, <2>5
<1>10. \A i \in DOMAIN d : i \in DOMAIN c \/ \E k \in DOMAIN g : i = top + k
  BY <1>2, <1>7
<1>11. Memory(c) /\ top \in Nat /\ DOMAIN c \subseteq 1 .. top
  BY DEF Attached
<1>12. d = With(c, top, g)
  BY <1>5, <1>7, <1>8, <1>9, <1>10, <1>11, WithIs
<1> QED
  BY <1>1, <1>5, <1>6, <1>12

\* remove_sequence does nothing to a memory without the sequence.
LEMMA RemoveNothing ==
    ASSUME NEW c, Memory(c), NEW s, Of(c, s) = {}
    PROVE  remove_sequence(c, s) = c
<1>1. PICK d : d = remove_sequence(c, s)
  OBVIOUS
<1>2. /\ IsFcn(d)
      /\ \A i : i \in DOMAIN d <=> i \in DOMAIN c /\ c[i].seqs # {s}
      /\ \A i \in DOMAIN d : s \notin c[i].seqs => d[i] = c[i]
  BY <1>1, RemoveIs
<1>3. \A i \in DOMAIN c : s \notin c[i].seqs
  BY DEF Of
<1>4. \A i \in DOMAIN c : c[i].seqs # {s}
  BY <1>3
<1>5. DOMAIN d = DOMAIN c
  BY <1>2, <1>4
<1>6. \A i \in DOMAIN c : d[i] = c[i]
  BY <1>2, <1>3, <1>5
<1>7. IsFcn(c)
  BY DEF Memory, IsFcn
<1> QED
  BY <1>1, <1>2, <1>5, <1>6, <1>7 DEF IsFcn

\* restore puts a copy of a row behind the other cells.
LEMMA RestoreIs ==
    ASSUME NEW c, Memory(c), NEW s \in Sequences, Of(c, s) = {},
           NEW blob, blob.data \in Seq(Cell), Memory(blob.data),
           NEW f, Given(blob.data, f, {s})
    PROVE  \E top : restore(c, blob, s) = With(c, top, f) /\ Attached(c, top, f, {s}, s)
<1>0. /\ IsFcn(f) /\ DOMAIN f = DOMAIN blob.data
      /\ \A k \in DOMAIN f : f[k] = [blob.data[k] EXCEPT !.seqs = {s}]
  BY DEF Given
<1> USE <1>0
<1>1. PICK row \in Seq(Cell) : row = blob.data
  OBVIOUS
<1>2. DOMAIN row = 1 .. Len(row) /\ Len(row) \in Nat /\ Memory(row)
  BY <1>1
<1>3. \A k \in DOMAIN row : f[k] \in Cell /\ f[k].pos = row[k].pos /\ f[k].seqs = {s}
  <2>1. TAKE k \in DOMAIN row
  <2>2. PICK r \in Cell : r = row[k]
    BY <1>2 DEF Memory
  <2>3. f[k] = [r EXCEPT !.seqs = {s}] /\ {s} \in (SUBSET Sequences) \ {{}}
    BY <1>1, <2>2
  <2> QED
    BY <2>2, <2>3 DEF Cell
<1>4. DOMAIN f \in SUBSET DOMAIN row /\ DOMAIN f = DOMAIN row
  BY <1>1
<1>5. Memory(f)
  <2>1. \A k \in DOMAIN f : f[k] \in Cell /\ f[k].pos = row[k].pos
    BY <1>3, <1>4
  <2>2. IsFcn(f)
    OBVIOUS
  <2> QED
    BY Zenon, <1>2, <1>4, <2>1, <2>2, SomeMemory
<1>6. f \in Seq(Cell)
  <2>1. PICK n \in Nat : DOMAIN row = 1 .. n
    BY <1>2
  <2>2. DOMAIN f = 1 .. n /\ \A k \in 1 .. n : f[k] \in Cell
    BY <1>3, <1>4, <2>1
  <2> QED
    BY Zenon, <1>0, <2>1, <2>2, OneToN
<1>7. PICK top \in Nat : DOMAIN c \subseteq 1 .. top /\ AddCells(c, f) = With(c, top, f)
  BY <1>5, <1>6, AddCellsIs
<1>8. restore(c, blob, s) = With(c, top, f)
  <2>1. f = [k \in DOMAIN blob.data |-> [blob.data[k] EXCEPT !.seqs = {s}]]
    BY <1>0 DEF IsFcn
  <2>2. remove_sequence(c, s) = c
    BY RemoveNothing
  <2> QED
    BY <1>7, <2>1, <2>2 DEF restore
<1>9. Attached(c, top, f, {s}, s)
  BY <1>3, <1>4, <1>5, <1>7 DEF Attached
<1> QED
  BY <1>8, <1>9

\* Where the chunk of a blob begins.
Start(has) == IF has THEN PrefixLen ELSE 0

\* The blob of a chunk: the row from position 0 on, with the prefix or without it.
IsBlob(blob, has, size) ==
    /\ blob.data \in Seq(Cell) /\ size \in Nat /\ blob.token_count = size
    /\ Len(blob.data) = Start(has) + size
    /\ \A k \in 1 .. Len(blob.data) : blob.data[k].pos = k - 1

\* A row is a memory.
LEMMA RowMemory ==
    ASSUME NEW row \in Seq(Cell), \A k \in 1 .. Len(row) : row[k].pos = k - 1
    PROVE  Memory(row)
<1>1. PICK n \in Nat : n = Len(row) /\ DOMAIN row = 1 .. n
  BY LenProperties
<1>2. \A k \in 1 .. n : k \in 1 .. n /\ row[k].pos <= n
  <2>1. \A k \in 1 .. n : row[k].pos = k - 1
    BY <1>1
  <2> QED
    BY <1>1, <2>1
<1>3. Bounded(row, n)
  BY <1>1, <1>2 DEF Bounded
<1>4. row \in [DOMAIN row -> Cell]
  BY <1>1, LenProperties
<1> QED
  BY <1>1, <1>3, <1>4 DEF Memory

\* The cells f behind the number top are those of the chunk from its n-th on, for the target.
TailOf(blob, has, n, size, final, c, top, f) ==
    /\ top \in Nat /\ DOMAIN c \subseteq 1 .. top /\ Memory(f)
    /\ DOMAIN f = Start(has) + n + 1 .. Start(has) + size
    /\ \A k \in DOMAIN f : f[k] = [pos |-> final + (k - 1 - Start(has)),
                                   tok |-> blob.data[k].tok, seqs |-> {kTargetSeq},
                                   of |-> blob.data[k].of]

\* attach_tail gives the target the cells of a chunk from the n-th on, at the places
\* behind final, and leaves everything else alone.
LEMMA AttachIs ==
    ASSUME NEW c, Memory(c), Of(c, kTemporarySeq) = {}, NEW has \in BOOLEAN, NEW blob,
           NEW size, IsBlob(blob, has, size), NEW n \in 0 .. size - 1, NEW final \in Nat, final >= Start(has)
    PROVE  \E top, f : /\ TailOf(blob, has, n, size, final, c, top, f)
                      /\ attach_tail(c, blob, has, n, final) = With(c, top, f)
<1>0. /\ blob.data \in Seq(Cell) /\ size \in Nat /\ blob.token_count = size
      /\ Len(blob.data) = Start(has) + size
      /\ DOMAIN blob.data = 1 .. Len(blob.data)
      /\ \A k \in DOMAIN blob.data : blob.data[k].pos = k - 1
      /\ Memory(blob.data)
  BY RowMemory, LenProperties DEF IsBlob
<1> USE <1>0
<1> DEFINE t == kTemporarySeq
<1>1. PICK start \in Nat : start = Start(has) /\ start <= final
  BY ItemsAssumption DEF Start
<1>2. PICK row \in Seq(Cell) : row = blob.data
  OBVIOUS
<1>3. DOMAIN row = 1 .. start + size /\ \A k \in DOMAIN row : row[k].pos = k - 1
  BY <1>1, <1>2
<1>4. t \in Sequences /\ kTargetSeq \in Sequences /\ t # kTargetSeq
  BY DEF Sequences, kTargetSeq, kTemporarySeq, kPrefixSeq, kScratchSeq
<1> HIDE DEF t
<1>5. \A k \in DOMAIN row : row[k] \in Cell
  BY <1>2, <1>3
<1>6. PICK f0 : f0 = [k \in DOMAIN blob.data |-> [blob.data[k] EXCEPT !.seqs = {t}]]
  OBVIOUS
<1>6a. /\ Given(blob.data, f0, {t}) /\ DOMAIN f0 = DOMAIN blob.data
       /\ \A k \in DOMAIN blob.data : f0[k] = [blob.data[k] EXCEPT !.seqs = {t}]
  BY <1>6 DEF IsFcn, Given
<1>7. PICK top : restore(c, blob, t) = With(c, top, f0) /\ Attached(c, top, f0, {t}, t)
  BY <1>4, <1>6a, RestoreIs DEF t
<1>8. DOMAIN f0 = 1 .. start + size
      /\ \A k \in DOMAIN f0 : f0[k] = [row[k] EXCEPT !.seqs = {t}] /\ f0[k].pos = k - 1
  <2>1. DOMAIN f0 = 1 .. start + size
    BY <1>2, <1>3, <1>6a
  <2>2. \A k \in DOMAIN f0 : f0[k] = [row[k] EXCEPT !.seqs = {t}]
    BY <1>2, <1>3, <1>6a, <2>1
  <2>3. \A k \in DOMAIN f0 : [row[k] EXCEPT !.seqs = {t}].pos = row[k].pos
    BY <1>3, <1>5, <2>1 DEF Cell
  <2> QED
    BY <1>3, <2>1, <2>2, <2>3
<1>9. PICK f1 : f1 = [k \in {j \in DOMAIN f0 : f0[j].pos \notin start .. start + n - 1} |-> f0[k]]
  OBVIOUS
<1>10. /\ Without(f0, f1, start, start + n - 1) /\ IsFcn(f1) /\ \A k \in DOMAIN f1 : f1[k] = f0[k]
       /\ \A k : k \in DOMAIN f1 <=> k \in DOMAIN f0 /\ f0[k].pos \notin start .. start + n - 1
  BY <1>9 DEF IsFcn, Without
<1>11. /\ WithoutHead(With(c, top, f0), start, n) = With(c, top, f1)
       /\ Attached(c, top, f1, {t}, t)
  BY <1>7, <1>10, RmAttached DEF WithoutHead, t
<1>12. PICK f2 : f2 = [k \in start + n + 1 .. start + size |-> f0[k]]
  OBVIOUS
<1>13. DOMAIN f2 = start + n + 1 .. start + size /\ \A k \in DOMAIN f2 : k \in DOMAIN f0 /\ f2[k] = f0[k]
  BY <1>8, <1>12
<1>14. PICK c2 : c2 = IF has THEN seq_rm(With(c, top, f1), t, 0, PrefixLen - 1) ELSE With(c, top, f1)
  OBVIOUS
<1>15. c2 = With(c, top, f2) /\ Attached(c, top, f2, {t}, t)
  <2>1. CASE has
    <3>1. start = PrefixLen /\ PrefixLen \in Nat
      BY <1>1, <2>1 DEF Start
    <3>2. \A k : k \in DOMAIN f2 <=> k \in DOMAIN f1 /\ f1[k].pos \notin 0 .. PrefixLen - 1
      <4>1. \A k \in DOMAIN f1 : f1[k].pos = k - 1
        BY <1>8, <1>10
      <4>2. \A k : k \in DOMAIN f1 <=> k \in 1 .. start + size /\ k - 1 \notin start .. start + n - 1
        BY <1>8, <1>10
      <4>3. TAKE k
      <4>4. ASSUME k \in DOMAIN f1, f1[k].pos \notin 0 .. PrefixLen - 1
            PROVE  k \in start + n + 1 .. start + size
        <5>1. k \in 1 .. start + size /\ k - 1 \notin start .. start + n - 1 /\ k - 1 \notin 0 .. start - 1
          BY <3>1, <4>1, <4>2, <4>4
        <5> QED
          BY <5>1
      <4>5. ASSUME k \in start + n + 1 .. start + size
            PROVE  k \in DOMAIN f1 /\ f1[k].pos \notin 0 .. PrefixLen - 1
        <5>1. k \in 1 .. start + size /\ k - 1 \notin start .. start + n - 1 /\ k - 1 \notin 0 .. start - 1
          BY <4>5
        <5>2. k \in DOMAIN f1
          BY <4>2, <5>1
        <5> QED
          BY <3>1, <4>1, <5>1, <5>2
      <4> QED
        BY <1>13, <4>4, <4>5
    <3>3. IsFcn(f2) /\ \A k \in DOMAIN f2 : f2[k] = f1[k]
      BY <1>10, <1>12, <1>13, <3>2 DEF IsFcn
    <3> QED
      <4>1. /\ seq_rm(With(c, top, f1), t, 0, PrefixLen - 1) = With(c, top, f2)
            /\ Attached(c, top, f2, {t}, t)
        <5>1. Without(f1, f2, 0, PrefixLen - 1)
          BY Zenon, <3>2, <3>3 DEF Without
        <5> QED
          BY Zenon, <1>11, <5>1, RmAttached
      <4> QED
        BY Zenon, <1>14, <2>1, <4>1
  <2>2. CASE ~ has
    <3>1. start = 0
      BY <1>1, <2>2 DEF Start
    <3>2. DOMAIN f1 = DOMAIN f2
      <4>0. DOMAIN f0 = 1 .. size /\ start .. start + n - 1 = 0 .. n - 1
        <5>1. start + size = size /\ start + n - 1 = n - 1
          BY <3>1
        <5> QED
          BY Zenon, <1>8, <3>1, <5>1
      <4>1. \A k : k \in DOMAIN f1 <=> k \in 1 .. size /\ k - 1 \notin 0 .. n - 1
        <5>1. \A k \in 1 .. size : f0[k].pos = k - 1
          BY Zenon, <1>8, <4>0
        <5>2. \A k : k \in DOMAIN f1 <=> k \in 1 .. size /\ f0[k].pos \notin 0 .. n - 1
          BY Zenon, <1>10, <4>0
        <5> QED
          BY Zenon, <5>1, <5>2
      <4>2. 0 + n + 1 = n + 1 /\ 0 + size = size
        OBVIOUS
      <4>3. \A k : k \in 1 .. size /\ k - 1 \notin 0 .. n - 1 <=> k \in 0 + n + 1 .. 0 + size
        BY <4>2
      <4> QED
        BY <1>13, <3>1, <4>1, <4>3
    <3>3. f1 = f2
      BY <1>10, <1>12, <1>13, <3>2 DEF IsFcn
    <3> QED
      BY <1>11, <1>14, <2>2, <3>3
  <2> QED
    BY <2>1, <2>2
<1>16. PICK delta \in Nat : delta = Shift(final, n, start + n) /\ delta = final - start
  BY <1>1 DEF Shift
<1>17. PICK f3 : f3 = [k \in DOMAIN f2 |-> [f2[k] EXCEPT !.pos = @ + delta]]
  OBVIOUS
<1>17a. /\ Forward(f2, f3, delta) /\ DOMAIN f3 = DOMAIN f2
        /\ \A k \in DOMAIN f2 : f3[k] = [f2[k] EXCEPT !.pos = @ + delta]
  BY <1>17 DEF IsFcn, Forward
<1>18. /\ seq_add(c2, t, start + n, delta) = With(c, top, f3)
       /\ Attached(c, top, f3, {t}, t)
  <2>1. \A k \in DOMAIN f2 : f2[k].pos >= start + n
    BY <1>8, <1>13
  <2> QED
    <3>1. /\ seq_add(With(c, top, f2), t, start + n, delta) = With(c, top, f3)
          /\ Attached(c, top, f3, {t}, t)
      BY Zenon, <1>15, <1>16, <1>17a, <2>1, AddAttached
    <3> QED
      BY Zenon, <1>15, <3>1
<1>19. PICK f4 : f4 = [k \in DOMAIN f3 |-> [f3[k] EXCEPT !.seqs = {t, kTargetSeq}]]
  OBVIOUS
<1>19a. /\ Given(f3, f4, {t, kTargetSeq}) /\ DOMAIN f4 = DOMAIN f3
        /\ \A k \in DOMAIN f3 : f4[k] = [f3[k] EXCEPT !.seqs = {t, kTargetSeq}]
  BY <1>19 DEF IsFcn, Given
<1>20. /\ seq_cp(With(c, top, f3), t, kTargetSeq) = With(c, top, f4)
       /\ Attached(c, top, f4, {t, kTargetSeq}, t)
  BY <1>4, <1>18, <1>19a, CpAttached
<1>21. PICK f5 : f5 = [k \in DOMAIN f4 |-> [f4[k] EXCEPT !.seqs = {kTargetSeq}]]
  OBVIOUS
<1>21a. /\ Given(f4, f5, {kTargetSeq}) /\ DOMAIN f5 = DOMAIN f4
        /\ \A k \in DOMAIN f4 : f5[k] = [f4[k] EXCEPT !.seqs = {kTargetSeq}]
  BY <1>21 DEF IsFcn, Given
<1>22. remove_sequence(With(c, top, f4), t) = With(c, top, f5) /\ Memory(f5)
  BY Zenon, <1>4, <1>20, <1>21a, RemoveAttached
<1>23. Moved(c, blob, has, n, final) = With(c, top, f4)
  <2>1. n < blob.token_count
    OBVIOUS
  <2>2. Moved(c, blob, has, n, final)
            = seq_cp(seq_add(c2, t, start + n, delta), t, kTargetSeq)
    BY <1>1, <1>7, <1>11, <1>14, <1>16, <2>1 DEF Moved, Start, t
  <2> QED
    BY <1>18, <1>20, <2>2
<1>24. attach_tail(c, blob, has, n, final) = With(c, top, f5)
  BY <1>22, <1>23 DEF attach_tail, t
<1>25. DOMAIN f5 = start + n + 1 .. start + size
  BY <1>13, <1>17a, <1>19a, <1>21a
<1>26. \A k \in DOMAIN f5 : f5[k] = [pos |-> final + (k - 1 - start), tok |-> row[k].tok,
                                     seqs |-> {kTargetSeq}, of |-> row[k].of]
  <2>1. TAKE k \in DOMAIN f5
  <2>2. k \in DOMAIN f2 /\ k \in DOMAIN row
    BY <1>3, <1>8, <1>13, <1>25
  <2>3. PICK r \in Cell : r = row[k] /\ r.pos = k - 1
    BY <1>3, <1>5, <2>2
  <2>4. f2[k] = [r EXCEPT !.seqs = {t}]
    BY <1>8, <1>13, <2>2, <2>3
  <2>6. k \in DOMAIN f3 /\ k \in DOMAIN f4
    BY <1>17a, <1>19a, <2>2
  <2>7. f5[k] = [pos |-> r.pos + delta, tok |-> r.tok, seqs |-> {kTargetSeq}, of |-> r.of]
    <3>1. PICK p, q, u, o : p \in Nat /\ r = [pos |-> p, tok |-> q, seqs |-> u, of |-> o]
      BY DEF Cell
    <3>2. PICK x2, x3, x4, x5 : x2 = f2[k] /\ x3 = f3[k] /\ x4 = f4[k] /\ x5 = f5[k]
      OBVIOUS
    <3>3. x2 = [pos |-> p, tok |-> q, seqs |-> {t}, of |-> o]
      BY <2>4, <3>1, <3>2
    <3>4. x3 = [x2 EXCEPT !.pos = @ + delta]
      BY Zenon, <1>17a, <2>2, <3>2
    <3>5. x3 = [pos |-> p + delta, tok |-> q, seqs |-> {t}, of |-> o]
      BY <3>3, <3>4
    <3>6. x4 = [x3 EXCEPT !.seqs = {t, kTargetSeq}]
      BY Zenon, <1>19a, <2>6, <3>2
    <3>7. x4 = [pos |-> p + delta, tok |-> q, seqs |-> {t, kTargetSeq}, of |-> o]
      BY <3>5, <3>6
    <3>8. x5 = [x4 EXCEPT !.seqs = {kTargetSeq}]
      BY Zenon, <1>21a, <2>6, <3>2
    <3>9. x5 = [pos |-> p + delta, tok |-> q, seqs |-> {kTargetSeq}, of |-> o]
      BY <3>7, <3>8
    <3> QED
      BY <3>1, <3>2, <3>9
  <2>8. r.pos + delta = final + (k - 1 - start)
    BY <1>1, <1>16, <1>25, <2>3
  <2> QED
    BY <2>3, <2>7, <2>8
<1>27. top \in Nat /\ DOMAIN c \subseteq 1 .. top
  BY <1>7 DEF Attached
<1>28. DOMAIN f5 = Start(has) + n + 1 .. Start(has) + size
  BY <1>1, <1>25
<1>29. \A k \in DOMAIN f5 : f5[k] = [pos |-> final + (k - 1 - Start(has)),
                                     tok |-> blob.data[k].tok, seqs |-> {kTargetSeq},
                                     of |-> blob.data[k].of]
  BY <1>1, <1>2, <1>26
<1>30. TailOf(blob, has, n, size, final, c, top, f5)
  BY Zenon, <1>22, <1>27, <1>28, <1>29 DEF TailOf
<1> QED
  BY Zenon, <1>24, <1>30

-----------------------------------------------------------------------------
(* The prefix and one more sequence *)

\* The row of the prefix while its cells belong to the sequences S.
PrefixRow(S) ==
    [k \in 1 .. PrefixLen |->
        [pos |-> k - 1, tok |-> prefix[k], seqs |-> S, of |-> SubSeq(prefix, 1, k)]]

Others == Sequences \ {kPrefixSeq}

\* In memory there is the prefix, as it was loaded, and cells of the sequence s only.
Near(c, S, s) ==
    /\ Memory(c) /\ s \in Others /\ S \in {{kPrefixSeq}, {kPrefixSeq, s}}
    /\ Holds(c, kPrefixSeq, PrefixRow(S))
    /\ \A i \in DOMAIN c : c[i].seqs = S \/ c[i].seqs = {s}

\* The sequence s holds the row.
Layout(c, S, s, row) == Near(c, S, s) /\ Holds(c, s, row)

\* In memory there is only the prefix.
Rests(c) ==
    /\ Memory(c) /\ Holds(c, kPrefixSeq, PrefixRow({kPrefixSeq}))
    /\ \A i \in DOMAIN c : c[i].seqs = {kPrefixSeq}

\* The tokens of a kind.
LEMMA TokensIs ==
    ASSUME NEW kind, kind \in {"prefix", "suffix", "answer"} \cup Nat, NEW n \in Nat
    PROVE  /\ Tokens(kind, n) \in Seq(Token) /\ Len(Tokens(kind, n)) = n
           /\ DOMAIN Tokens(kind, n) = 1 .. n /\ \A k \in 1 .. n : Tokens(kind, n)[k] = <<kind, k>>
<1>1. PICK f : f = Tokens(kind, n)
  OBVIOUS
<1>2. /\ IsFcn(f) /\ DOMAIN f = 1 .. n /\ \A k \in 1 .. n : f[k] = <<kind, k>>
  BY <1>1 DEF Tokens, IsFcn
<1>3. \A k \in 1 .. n : f[k] \in Token
  <2>1. TAKE k \in 1 .. n
  <2>2. k \in Nat
    OBVIOUS
  <2>3. <<kind, k>> \in Token
    BY <2>2 DEF Token
  <2> QED
    BY <1>2, <2>3
<1>4. f \in Seq(Token) /\ Len(f) = n
  BY Zenon, <1>2, <1>3, OneToN
<1> QED
  BY <1>1, <1>2, <1>4

\* The beginning of a sequence.
LEMMA Beginning ==
    ASSUME NEW S, NEW q \in Seq(S), NEW n \in 0 .. Len(q)
    PROVE  /\ SubSeq(q, 1, n) \in Seq(S) /\ Len(SubSeq(q, 1, n)) = n
           /\ DOMAIN SubSeq(q, 1, n) = 1 .. n /\ \A k \in 1 .. n : SubSeq(q, 1, n)[k] = q[k]
<1>1. PICK m \in Nat : m = Len(q)
  OBVIOUS
<1>2. \A k \in 1 .. n : k \in 1 .. Len(q)
  BY <1>1
<1>3. /\ SubSeq(q, 1, n) \in Seq(S)
      /\ Len(SubSeq(q, 1, n)) = IF 1 <= n THEN n - 1 + 1 ELSE 0
      /\ \A i \in 1 .. n - 1 + 1 : SubSeq(q, 1, n)[i] = q[1 + i - 1]
  <2>1. \A i \in 1 .. n : q[i] \in S
    BY <1>2, ElementOfSeq
  <2> QED
    BY <1>1, <2>1, SubSeqProperties
<1> QED
  BY <1>1, <1>3

\* A cell is a record of these fields.
LEMMA CellIs ==
    ASSUME NEW p \in Nat, NEW q \in Token, NEW S \in (SUBSET Sequences) \ {{}}, NEW o \in Seq(Token)
    PROVE  [pos |-> p, tok |-> q, seqs |-> S, of |-> o] \in Cell
BY DEF Cell

\* One sequence after another.
LEMMA ConcatIs ==
    ASSUME NEW S, NEW q1 \in Seq(S), NEW q2 \in Seq(S)
    PROVE  /\ q1 \o q2 \in Seq(S) /\ Len(q1 \o q2) = Len(q1) + Len(q2)
           /\ \A k \in 1 .. Len(q1) : (q1 \o q2)[k] = q1[k]
           /\ \A j \in 1 .. Len(q2) : (q1 \o q2)[Len(q1) + j] = q2[j]
<1>1. PICK q, n, m : n \in Nat /\ m \in Nat /\ n = Len(q1) /\ m = Len(q2) /\ q = q1 \o q2
  BY LenProperties
<1>2. /\ q \in Seq(S) /\ Len(q) = n + m
      /\ \A i \in 1 .. n + m : q[i] = IF i <= n THEN q1[i] ELSE q2[i - n]
  BY <1>1, ConcatProperties
<1>3. \A k \in 1 .. n : q[k] = q1[k]
  BY <1>1, <1>2
<1>4. \A j \in 1 .. m : q[n + j] = q2[j]
  <2>1. TAKE j \in 1 .. m
  <2>2. PICK i : i = n + j
    OBVIOUS
  <2>3. i \in 1 .. n + m /\ ~ (i <= n) /\ i - n = j
    BY <1>1, <2>2
  <2>4. q[i] = q2[i - n]
    BY <1>2, <2>3
  <2> QED
    BY <2>2, <2>3, <2>4
<1> QED
  BY <1>1, <1>2, <1>3, <1>4

\* The prefix is a sequence of cells, each computed for the tokens up to its own.
LEMMA PrefixIs ==
    ASSUME NEW S, S \in (SUBSET Sequences) \ {{}}
    PROVE  /\ PrefixRow(S) \in Seq(Cell) /\ Len(PrefixRow(S)) = PrefixLen
           /\ Toks(PrefixRow(S)) = prefix /\ Pure(PrefixRow(S))
           /\ prefix \in Seq(Token) /\ Len(prefix) = PrefixLen /\ PrefixLen \in Nat
           /\ \A k \in 1 .. PrefixLen : /\ PrefixRow(S)[k] = [pos |-> k - 1, tok |-> prefix[k], seqs |-> S,
                                                           of |-> SubSeq(prefix, 1, k)]
                                        /\ prefix[k] = <<"prefix", k>>
<1>1. PICK P \in Nat : P = PrefixLen
  BY ItemsAssumption
<1>2. /\ prefix \in Seq(Token) /\ Len(prefix) = P
      /\ DOMAIN prefix = 1 .. P /\ \A k \in 1 .. P : prefix[k] = <<"prefix", k>>
  BY <1>1, TokensIs DEF prefix
<1>3. PICK row : row = PrefixRow(S)
  OBVIOUS
<1>4. /\ IsFcn(row) /\ DOMAIN row = 1 .. P
      /\ \A k \in 1 .. P : row[k] = [pos |-> k - 1, tok |-> prefix[k], seqs |-> S,
                                     of |-> SubSeq(prefix, 1, k)]
  BY <1>1, <1>3 DEF PrefixRow, IsFcn
<1>5. \A k \in 1 .. P : row[k] \in Cell
  <2>1. TAKE k \in 1 .. P
  <2>2. k - 1 \in Nat
    BY <1>1
  <2>3. prefix[k] \in Token
    BY <1>2, ElementOfSeq
  <2>4. SubSeq(prefix, 1, k) \in Seq(Token)
    BY <1>1, <1>2, Beginning
  <2> QED
    BY Zenon, <1>4, <2>2, <2>3, <2>4, CellIs
<1>6. row \in Seq(Cell) /\ Len(row) = P
  BY Zenon, <1>1, <1>4, <1>5, OneToN
<1>7. Toks(row) = prefix
  <2>1. Toks(row) = [k \in 1 .. P |-> prefix[k]]
    BY <1>4 DEF Toks
  <2>2. prefix = [k \in 1 .. P |-> prefix[k]]
    BY <1>2
  <2> QED
    BY <2>1, <2>2
<1>8. Pure(row)
  BY <1>4, <1>7 DEF Pure
<1> QED
  BY <1>1, <1>2, <1>3, <1>4, <1>6, <1>7, <1>8

\* remove_sequence(s) leaves the prefix alone.
LEMMA RemoveNear ==
    ASSUME NEW c, NEW S, NEW s, Near(c, S, s)
    PROVE  Rests(remove_sequence(c, s))
<1>1. PICK d : d = remove_sequence(c, s)
  OBVIOUS
<1>2. /\ Memory(d) /\ IsFcn(d)
      /\ \A i : i \in DOMAIN d <=> i \in DOMAIN c /\ c[i].seqs # {s}
      /\ \A i \in DOMAIN d : d[i] = [c[i] EXCEPT !.seqs = @ \ {s}]
  BY <1>1, RemoveIs DEF Near
<1>3. /\ s \in Sequences /\ s # kPrefixSeq /\ kPrefixSeq \in Sequences
      /\ S \ {s} = {kPrefixSeq} /\ S # {s} /\ kPrefixSeq \in S
      /\ S \in (SUBSET Sequences) \ {{}} /\ {kPrefixSeq} \in (SUBSET Sequences) \ {{}}
  BY DEF Near, Others, Sequences
<1>4. PICK N \in Nat : N = PrefixLen
  BY ItemsAssumption
<1>5. PICK row, rest : row = PrefixRow(S) /\ rest = PrefixRow({kPrefixSeq})
  OBVIOUS
<1>6. /\ row \in Seq(Cell) /\ Len(row) = N /\ rest \in Seq(Cell) /\ Len(rest) = N
      /\ \A k \in 1 .. N : rest[k] = [row[k] EXCEPT !.seqs = {kPrefixSeq}] /\ row[k].seqs = S
  <2>1. row \in Seq(Cell) /\ Len(row) = N /\ rest \in Seq(Cell) /\ Len(rest) = N
    BY Zenon, <1>3, <1>4, <1>5, PrefixIs
  <2>2. ASSUME NEW k \in 1 .. N
        PROVE  rest[k] = [row[k] EXCEPT !.seqs = {kPrefixSeq}] /\ row[k].seqs = S
    <3>0. PICK q, o : q = prefix[k] /\ o = SubSeq(prefix, 1, k)
      OBVIOUS
    <3>1. /\ row[k] = [pos |-> k - 1, tok |-> q, seqs |-> S, of |-> o]
          /\ rest[k] = [pos |-> k - 1, tok |-> q, seqs |-> {kPrefixSeq}, of |-> o]
      <4>1. k \in 1 .. PrefixLen
        BY <1>4
      <4>2. row[k] = [pos |-> k - 1, tok |-> prefix[k], seqs |-> S, of |-> SubSeq(prefix, 1, k)]
        BY Zenon, <1>3, <1>5, <4>1, PrefixIs
      <4>3. rest[k] = [pos |-> k - 1, tok |-> prefix[k], seqs |-> {kPrefixSeq},
                       of |-> SubSeq(prefix, 1, k)]
        BY Zenon, <1>3, <1>5, <4>1, PrefixIs
      <4> QED
        BY Zenon, <3>0, <4>2, <4>3
    <3>2. PICK x : x = row[k]
      OBVIOUS
    <3>3. [x EXCEPT !.seqs = {kPrefixSeq}]
              = [pos |-> k - 1, tok |-> q, seqs |-> {kPrefixSeq}, of |-> o] /\ x.seqs = S
      BY <3>1, <3>2
    <3> QED
      BY <3>1, <3>2, <3>3
  <2> QED
    BY <2>1, <2>2
<1>7. ASSUME NEW i \in DOMAIN d
      PROVE  /\ c[i].seqs = S /\ i \in Of(c, kPrefixSeq) /\ d[i] = [c[i] EXCEPT !.seqs = {kPrefixSeq}]
             /\ d[i].pos = c[i].pos /\ d[i].seqs = {kPrefixSeq}
  <2>1. i \in DOMAIN c /\ c[i].seqs = S
    BY <1>2 DEF Near
  <2>2. PICK x \in Cell : x = c[i]
    BY <2>1 DEF Near, Memory
  <2>3. d[i] = [x EXCEPT !.seqs = @ \ {s}]
    BY <1>2, <2>2
  <2>4. d[i] = [x EXCEPT !.seqs = {kPrefixSeq}]
    BY <1>3, <2>1, <2>2, <2>3
  <2>5. [x EXCEPT !.seqs = {kPrefixSeq}].pos = x.pos /\ [x EXCEPT !.seqs = {kPrefixSeq}].seqs = {kPrefixSeq}
    BY <2>2 DEF Cell
  <2> QED
    BY <1>3, <2>1, <2>2, <2>4, <2>5 DEF Of
<1>8. \A i \in DOMAIN d : d[i].seqs = {kPrefixSeq}
  BY <1>7
<1>9. Of(d, kPrefixSeq) = DOMAIN d
  BY <1>8 DEF Of
<1>10. Of(c, kPrefixSeq) = DOMAIN d
  <2>1. \A i \in Of(c, kPrefixSeq) : c[i].seqs # {s}
    BY <1>3 DEF Of
  <2> QED
    BY <1>2, <1>7, <2>1 DEF Of
<1>11. Holds(c, kPrefixSeq, row)
  BY <1>5 DEF Near
<1>12. Holds(d, kPrefixSeq, rest)
  <2>1. \A i \in Of(d, kPrefixSeq) : d[i].pos < Len(rest) /\ d[i] = rest[d[i].pos + 1]
    <3>1. TAKE i \in Of(d, kPrefixSeq)
    <3>2. i \in DOMAIN d /\ i \in Of(c, kPrefixSeq)
      BY <1>9, <1>10
    <3>3. PICK p \in Nat : p = c[i].pos
      BY <3>2 DEF Of, Near, Memory, Cell
    <3>4. p < N /\ c[i] = row[p + 1]
      BY <1>6, <1>11, <3>2, <3>3 DEF Holds
    <3>5. p + 1 \in 1 .. N
      BY <3>3, <3>4
    <3>6. d[i] = rest[p + 1] /\ d[i].pos = p
      <4>1. d[i] = [c[i] EXCEPT !.seqs = {kPrefixSeq}] /\ d[i].pos = c[i].pos
        BY Zenon, <1>7, <3>2
      <4>2. rest[p + 1] = [row[p + 1] EXCEPT !.seqs = {kPrefixSeq}]
        BY Zenon, <1>6, <3>5
      <4> QED
        BY Zenon, <3>3, <3>4, <4>1, <4>2
    <3> QED
      BY <1>6, <3>4, <3>6
  <2>2. \A k \in 1 .. Len(rest) : \E i \in Of(d, kPrefixSeq) : d[i].pos = k - 1
    BY <1>6, <1>7, <1>9, <1>10, <1>11 DEF Holds
  <2>3. \A i, j \in Of(d, kPrefixSeq) : d[i].pos = d[j].pos => i = j
    BY <1>7, <1>9, <1>10, <1>11 DEF Holds
  <2> QED
    BY <1>6, <2>1, <2>2, <2>3 DEF Holds
<1> QED
  BY <1>1, <1>2, <1>5, <1>8, <1>12 DEF Rests

\* seq_cp gives a sequence the cells of the prefix.
LEMMA CopyRests ==
    ASSUME NEW c, Rests(c), NEW s \in Others
    PROVE  LET S == {kPrefixSeq, s} IN Layout(seq_cp(c, kPrefixSeq, s), S, s, PrefixRow(S))
<1>1. PICK d : d = seq_cp(c, kPrefixSeq, s)
  OBVIOUS
<1>2. PICK S : S = {kPrefixSeq, s}
  OBVIOUS
<1>3. /\ s \in Sequences /\ s # kPrefixSeq /\ kPrefixSeq \in Sequences
      /\ S \in (SUBSET Sequences) \ {{}} /\ {kPrefixSeq} \in (SUBSET Sequences) \ {{}}
      /\ {kPrefixSeq} \cup {s} = S
  BY <1>2 DEF Others, Sequences
<1>4. PICK N \in Nat : N = PrefixLen
  BY ItemsAssumption
<1>5. PICK row, rest : row = PrefixRow(S) /\ rest = PrefixRow({kPrefixSeq})
  OBVIOUS
<1>6. /\ row \in Seq(Cell) /\ Len(row) = N /\ rest \in Seq(Cell) /\ Len(rest) = N
      /\ \A k \in 1 .. N : row[k] = [rest[k] EXCEPT !.seqs = S]
  <2>1. row \in Seq(Cell) /\ Len(row) = N /\ rest \in Seq(Cell) /\ Len(rest) = N
    BY Zenon, <1>3, <1>4, <1>5, PrefixIs
  <2>2. ASSUME NEW k \in 1 .. N
        PROVE  row[k] = [rest[k] EXCEPT !.seqs = S]
    <3>1. PICK q, o : q = prefix[k] /\ o = SubSeq(prefix, 1, k)
      OBVIOUS
    <3>2. /\ row[k] = [pos |-> k - 1, tok |-> q, seqs |-> S, of |-> o]
          /\ rest[k] = [pos |-> k - 1, tok |-> q, seqs |-> {kPrefixSeq}, of |-> o]
      <4>1. k \in 1 .. PrefixLen
        BY <1>4
      <4>2. row[k] = [pos |-> k - 1, tok |-> prefix[k], seqs |-> S, of |-> SubSeq(prefix, 1, k)]
        BY Zenon, <1>3, <1>5, <4>1, PrefixIs
      <4>3. rest[k] = [pos |-> k - 1, tok |-> prefix[k], seqs |-> {kPrefixSeq},
                       of |-> SubSeq(prefix, 1, k)]
        BY Zenon, <1>3, <1>5, <4>1, PrefixIs
      <4> QED
        BY Zenon, <3>1, <4>2, <4>3
    <3>3. PICK x : x = rest[k]
      OBVIOUS
    <3>4. [x EXCEPT !.seqs = S] = [pos |-> k - 1, tok |-> q, seqs |-> S, of |-> o]
      BY <3>2, <3>3
    <3> QED
      BY <3>2, <3>3, <3>4
  <2> QED
    BY <2>1, <2>2
<1>7. DOMAIN d = DOMAIN c /\ IsFcn(d) /\ Of(c, kPrefixSeq) = DOMAIN c
  BY <1>1 DEF seq_cp, IsFcn, Rests, Of
<1>8. ASSUME NEW i \in DOMAIN c
      PROVE  /\ c[i] \in Cell /\ d[i] = [c[i] EXCEPT !.seqs = S]
             /\ d[i].pos = c[i].pos /\ d[i].seqs = S /\ d[i] \in Cell
  <2>1. PICK x \in Cell : x = c[i] /\ x.seqs = {kPrefixSeq}
    BY DEF Rests, Memory
  <2>2. d[i] = [x EXCEPT !.seqs = @ \cup {s}]
    BY <1>1, <1>7, <2>1 DEF seq_cp
  <2>3. d[i] = [x EXCEPT !.seqs = S]
    BY <1>3, <2>1, <2>2
  <2> QED
    BY <1>3, <2>1, <2>3 DEF Cell
<1>9. Memory(d)
  BY <1>7, <1>8, SomeMemory DEF Rests
<1>10. Of(d, kPrefixSeq) = DOMAIN c /\ Of(d, s) = DOMAIN c
  BY <1>2, <1>7, <1>8 DEF Of
<1>11. Holds(c, kPrefixSeq, rest)
  BY <1>5 DEF Rests
<1>12. \A i \in DOMAIN c : d[i].pos < N /\ d[i] = row[d[i].pos + 1]
  <2>1. TAKE i \in DOMAIN c
  <2>2. PICK p \in Nat : p = c[i].pos
    BY <1>8 DEF Cell
  <2>3. p < N /\ c[i] = rest[p + 1]
    BY <1>6, <1>7, <1>11, <2>2 DEF Holds
  <2>4. p + 1 \in 1 .. N
    BY <2>2, <2>3
  <2>5. d[i] = [c[i] EXCEPT !.seqs = S] /\ d[i].pos = c[i].pos
    BY Zenon, <1>8
  <2>6. row[p + 1] = [rest[p + 1] EXCEPT !.seqs = S]
    BY Zenon, <1>6, <2>4
  <2> QED
    BY Zenon, <2>2, <2>3, <2>5, <2>6
<1>13. \A k \in 1 .. N : \E i \in DOMAIN c : d[i].pos = k - 1
  BY <1>6, <1>7, <1>8, <1>11 DEF Holds
<1>14. \A i, j \in DOMAIN c : d[i].pos = d[j].pos => i = j
  BY <1>7, <1>8, <1>11 DEF Holds
<1>15. Holds(d, kPrefixSeq, row) /\ Holds(d, s, row)
  BY <1>6, <1>10, <1>12, <1>13, <1>14 DEF Holds
<1>16. Near(d, S, s)
  BY <1>2, <1>5, <1>7, <1>8, <1>9, <1>15 DEF Near
<1> QED
  BY <1>1, <1>2, <1>5, <1>15, <1>16 DEF Layout

\* At rest, every other sequence is empty.
LEMMA RestsIs ==
    ASSUME NEW c, Rests(c), NEW s \in Others
    PROVE  Layout(c, {kPrefixSeq}, s, << >>)
<1>1. Of(c, s) = {}
  BY DEF Of, Rests, Others
<1>2. << >> \in Seq(Cell) /\ Len(<< >>) = 0
  BY EmptySeq
<1>3. Holds(c, s, << >>)
  BY <1>1, <1>2 DEF Holds
<1>4. Near(c, {kPrefixSeq}, s)
  BY DEF Near, Rests
<1> QED
  BY <1>3, <1>4 DEF Layout

\* Cells of the sequence s do not change the prefix.
LEMMA NearWith ==
    ASSUME NEW c, NEW S, NEW s, Near(c, S, s), NEW f, Memory(f), NEW top \in Nat,
           DOMAIN c \subseteq 1 .. top, \A k \in DOMAIN f : f[k].seqs = {s}
    PROVE  Near(With(c, top, f), S, s)
<1>1. PICK e : e = With(c, top, f)
  OBVIOUS
<1>2. /\ Memory(e)
      /\ \A i \in DOMAIN c : i \in DOMAIN e /\ e[i] = c[i]
      /\ \A k \in DOMAIN f : top + k \in DOMAIN e /\ e[top + k] = f[k]
      /\ \A i \in DOMAIN e : i \in DOMAIN c \/ \E k \in DOMAIN f : i = top + k
  BY <1>1, WithFacts DEF Near
<1>3. s # kPrefixSeq /\ kPrefixSeq \in S
  BY DEF Near, Others
<1>4. \A i \in DOMAIN e : e[i].seqs = S \/ e[i].seqs = {s}
  BY <1>2 DEF Near
<1>5. Of(e, kPrefixSeq) = Of(c, kPrefixSeq)
  BY <1>2, <1>3 DEF Of
<1>6. \A i \in Of(c, kPrefixSeq) : e[i] = c[i]
  BY <1>2 DEF Of
<1>7. Holds(e, kPrefixSeq, PrefixRow(S))
  <2>1. PICK row : row = PrefixRow(S)
    OBVIOUS
  <2>2. Holds(c, kPrefixSeq, row)
    BY <2>1 DEF Near
  <2> QED
    BY <1>5, <1>6, <2>1, <2>2 DEF Holds
<1> QED
  BY <1>1, <1>2, <1>4, <1>7 DEF Near

\* The cells of f continue a row of length n by the cells ext.
Continues(f, ext, s, n) ==
    /\ Memory(f) /\ ext \in Seq(Cell)
    /\ \A j \in 1 .. Len(ext) : ext[j].pos = n + j - 1 /\ ext[j].seqs = {s}
    /\ \E a \in Nat : /\ \A k : k \in DOMAIN f <=> k \in a + 1 .. a + Len(ext)
                      /\ \A j \in 1 .. Len(ext) : f[a + j] = ext[j]

\* Such cells are put behind the row of the sequence.
LEMMA ExtendLayout ==
    ASSUME NEW c, NEW S, NEW s, NEW row, Layout(c, S, s, row), NEW f, NEW ext,
           Continues(f, ext, s, Len(row)), NEW top \in Nat, DOMAIN c \subseteq 1 .. top
    PROVE  Layout(With(c, top, f), S, s, row \o ext)
<1>1. PICK e : e = With(c, top, f)
  OBVIOUS
<1>2. Memory(c) /\ Memory(f) /\ Holds(c, s, row) /\ row \in Seq(Cell) /\ ext \in Seq(Cell)
  BY DEF Layout, Near, Holds, Continues
<1>3. /\ \A i \in DOMAIN c : i \in DOMAIN e /\ e[i] = c[i]
      /\ \A k \in DOMAIN f : top + k \in DOMAIN e /\ e[top + k] = f[k]
      /\ \A i \in DOMAIN e : i \in DOMAIN c \/ \E k \in DOMAIN f : i = top + k
  BY <1>1, <1>2, WithFacts
<1>4. PICK n, m : n \in Nat /\ m \in Nat /\ n = Len(row) /\ m = Len(ext)
  BY <1>2, LenProperties
<1>5. PICK a \in Nat : /\ \A k : k \in DOMAIN f <=> k \in a + 1 .. a + m
                       /\ \A j \in 1 .. m : f[a + j] = ext[j]
  BY <1>4 DEF Continues
<1>6. PICK q : q = row \o ext
  OBVIOUS
<1>7. /\ q \in Seq(Cell) /\ Len(q) = n + m
      /\ \A k \in 1 .. n : q[k] = row[k]
      /\ \A j \in 1 .. m : q[n + j] = ext[j]
  <2>1. /\ row \o ext \in Seq(Cell) /\ Len(row \o ext) = Len(row) + Len(ext)
        /\ \A k \in 1 .. Len(row) : (row \o ext)[k] = row[k]
        /\ \A j \in 1 .. Len(ext) : (row \o ext)[Len(row) + j] = ext[j]
    <3>1. row \in Seq(Cell) /\ ext \in Seq(Cell)
      BY <1>2
    <3> HIDE DEF Cell
    <3> QED
      BY <3>1, ConcatIs
  <2> QED
    BY <1>4, <1>6, <2>1
<1>8. ASSUME NEW i \in Of(e, s)
      PROVE  \/ i \in Of(c, s) /\ e[i] = c[i]
             \/ \E j \in 1 .. m : i = top + (a + j) /\ e[i] = ext[j]
  <2>1. i \in DOMAIN e /\ s \in e[i].seqs
    BY DEF Of
  <2>2. CASE i \in DOMAIN c
    BY <1>3, <2>1, <2>2 DEF Of
  <2>3. CASE \E k \in DOMAIN f : i = top + k
    <3>1. PICK k \in DOMAIN f : i = top + k
      BY <2>3
    <3>2. k \in a + 1 .. a + m
      BY <1>5, <3>1
    <3>3. k - a \in 1 .. m /\ a + (k - a) = k
      BY <1>4, <1>5, <3>2
    <3>4. PICK j \in 1 .. m : a + j = k
      BY <3>3
    <3>5. f[a + j] = ext[j] /\ i = top + (a + j)
      BY <1>5, <3>1, <3>4
    <3> QED
      BY <1>3, <3>1, <3>4, <3>5
  <2> QED
    BY <1>3, <2>1, <2>2, <2>3
<1>9. \A i \in Of(c, s) : i \in Of(e, s) /\ e[i] = c[i]
  BY <1>3 DEF Of
<1>10. \A j \in 1 .. m : ext[j].pos = n + j - 1 /\ ext[j].seqs = {s} /\ ext[j] \in Cell
  <2>1. TAKE j \in 1 .. m
  <2>2. ext[j] \in Cell
    BY <1>2, <1>4, ElementOfSeq
  <2> QED
    BY <1>4, <2>2 DEF Continues
<1>11. \A j \in 1 .. m : top + (a + j) \in Of(e, s) /\ e[top + (a + j)] = ext[j]
  <2>1. TAKE j \in 1 .. m
  <2>2. a + j \in DOMAIN f /\ f[a + j] = ext[j]
    <3>1. a + j \in a + 1 .. a + m
      BY <1>4, <1>5
    <3> QED
      BY <1>5, <3>1
  <2>3. top + (a + j) \in DOMAIN e /\ e[top + (a + j)] = ext[j]
    BY <1>3, <2>2
  <2> QED
    BY <1>10, <2>3 DEF Of
<1>12. \A i \in Of(c, s) : c[i].pos \in Nat /\ c[i].pos < n /\ c[i] = row[c[i].pos + 1]
  <2>1. \A i \in Of(c, s) : c[i].pos \in Nat
    BY <1>2 DEF Of, Memory, Cell
  <2> QED
    BY <1>2, <1>4, <2>1 DEF Holds
<1>13. \A i \in Of(e, s) : e[i].pos < Len(q) /\ e[i] = q[e[i].pos + 1]
  <2>1. TAKE i \in Of(e, s)
  <2>2. CASE i \in Of(c, s) /\ e[i] = c[i]
    <3>1. PICK p \in Nat : p = c[i].pos /\ p < n /\ c[i] = row[p + 1]
      BY <1>12, <2>2
    <3>2. p + 1 \in 1 .. n /\ p < n + m
      BY <1>4, <3>1
    <3>3. q[p + 1] = c[i]
      BY <1>7, <3>1, <3>2
    <3> QED
      BY <1>7, <2>2, <3>1, <3>2, <3>3
  <2>3. CASE \E j \in 1 .. m : i = top + (a + j) /\ e[i] = ext[j]
    <3>1. PICK j \in 1 .. m : e[i] = ext[j]
      BY <2>3
    <3>2. e[i].pos = n + j - 1
      BY <1>10, <3>1
    <3>3. n + j - 1 < n + m /\ (n + j - 1) + 1 = n + j
      BY <1>4
    <3> QED
      BY <1>7, <3>1, <3>2, <3>3
  <2> QED
    BY <1>8, <2>2, <2>3
<1>14. \A k \in 1 .. Len(q) : \E i \in Of(e, s) : e[i].pos = k - 1
  <2>1. TAKE k \in 1 .. Len(q)
  <2>2. k \in 1 .. n + m
    BY <1>7
  <2>3. CASE k <= n
    <3>1. k \in 1 .. Len(row)
      BY <1>4, <2>2, <2>3
    <3>2. PICK i \in Of(c, s) : c[i].pos = k - 1
      BY <1>2, <3>1 DEF Holds
    <3> QED
      BY <1>9, <3>2
  <2>4. CASE ~ (k <= n)
    <3>1. k - n \in 1 .. m /\ n + (k - n) - 1 = k - 1
      BY <1>4, <2>2, <2>4
    <3>2. PICK j \in 1 .. m : j = k - n /\ n + j - 1 = k - 1
      BY <3>1
    <3>3. top + (a + j) \in Of(e, s) /\ e[top + (a + j)].pos = k - 1
      BY <1>10, <1>11, <3>2
    <3> QED
      BY <3>3
  <2> QED
    BY <2>3, <2>4
<1>15. \A i, k \in Of(e, s) : e[i].pos = e[k].pos => i = k
  <2>1. TAKE i, k \in Of(e, s)
  <2>2. HAVE e[i].pos = e[k].pos
  <2>3. CASE (i \in Of(c, s) /\ e[i] = c[i]) /\ (k \in Of(c, s) /\ e[k] = c[k])
    BY <1>2, <2>2, <2>3 DEF Holds
  <2>4. CASE (i \in Of(c, s) /\ e[i] = c[i]) /\ \E j \in 1 .. m : e[k] = ext[j]
    <3>1. PICK j \in 1 .. m : e[k].pos = n + j - 1
      BY <1>10, <2>4
    <3>2. e[i].pos \in Nat /\ e[i].pos < n
      BY <1>12, <2>4
    <3> QED
      BY <1>4, <2>2, <3>1, <3>2
  <2>5. CASE (k \in Of(c, s) /\ e[k] = c[k]) /\ \E j \in 1 .. m : e[i] = ext[j]
    <3>1. PICK j \in 1 .. m : e[i].pos = n + j - 1
      BY <1>10, <2>5
    <3>2. e[k].pos \in Nat /\ e[k].pos < n
      BY <1>12, <2>5
    <3> QED
      BY <1>4, <2>2, <3>1, <3>2
  <2>6. CASE /\ \E j \in 1 .. m : i = top + (a + j) /\ e[i] = ext[j]
             /\ \E j \in 1 .. m : k = top + (a + j) /\ e[k] = ext[j]
    <3>1. PICK j \in 1 .. m : i = top + (a + j) /\ e[i].pos = n + j - 1
      BY <1>10, <2>6
    <3>2. PICK l \in 1 .. m : k = top + (a + l) /\ e[k].pos = n + l - 1
      BY <1>10, <2>6
    <3>3. j = l
      BY <1>4, <2>2, <3>1, <3>2
    <3> QED
      BY <3>1, <3>2, <3>3
  <2> QED
    BY <1>8, <2>3, <2>4, <2>5, <2>6
<1>16. Holds(e, s, q)
  BY <1>7, <1>13, <1>14, <1>15 DEF Holds
<1>17. Near(e, S, s)
  <2>1. ASSUME NEW k \in DOMAIN f
        PROVE  f[k].seqs = {s}
    <3>1. k \in a + 1 .. a + m
      BY <1>5
    <3>2. k - a \in 1 .. m /\ a + (k - a) = k
      BY <1>4, <1>5, <3>1
    <3>3. PICK j \in 1 .. m : a + j = k
      BY <3>2
    <3> QED
      BY <1>5, <1>10, <3>3
  <2>2. Near(c, S, s)
    BY DEF Layout
  <2> QED
    BY <1>1, <1>2, <2>1, <2>2, NearWith
<1> QED
  BY <1>1, <1>6, <1>16, <1>17 DEF Layout

\* The cells that llama_decode computes for tokens after a row.
Decoded(row, tokens, s) ==
    [n \in DOMAIN tokens |->
        [pos |-> Len(row) + n - 1, tok |-> tokens[n], seqs |-> {s},
         of |-> IF Pure(row) THEN Toks(row) \o SubSeq(tokens, 1, n) ELSE << >>]]

\* The tokens of a row.
LEMMA ToksIs ==
    ASSUME NEW row \in Seq(Cell)
    PROVE  /\ Toks(row) \in Seq(Token) /\ Len(Toks(row)) = Len(row)
           /\ \A k \in 1 .. Len(row) : Toks(row)[k] = row[k].tok
<1>1. PICK n \in Nat : n = Len(row) /\ DOMAIN row = 1 .. n
  BY LenProperties
<1>2. PICK f : f = Toks(row)
  OBVIOUS
<1>3. IsFcn(f) /\ DOMAIN f = 1 .. n /\ \A k \in 1 .. n : f[k] = row[k].tok
  BY <1>1, <1>2 DEF Toks, IsFcn
<1>4. \A k \in 1 .. n : row[k] \in Cell
  BY <1>1, ElementOfSeq
<1>5. \A k \in 1 .. n : f[k] \in Token
  BY <1>3, <1>4 DEF Cell
<1>6. f \in Seq(Token) /\ Len(f) = n
  BY Zenon, <1>3, <1>5, OneToN
<1> QED
  BY <1>1, <1>2, <1>3, <1>6

\* Decoded cells continue the row that they are computed after.
LEMMA DecodedIs ==
    ASSUME NEW row \in Seq(Cell), NEW tokens \in Seq(Token), NEW s \in Sequences
    PROVE  /\ Decoded(row, tokens, s) \in Seq(Cell) /\ Len(Decoded(row, tokens, s)) = Len(tokens)
           /\ \A n \in 1 .. Len(tokens) :
                  Decoded(row, tokens, s)[n] =
                      [pos |-> Len(row) + n - 1, tok |-> tokens[n], seqs |-> {s},
                       of |-> IF Pure(row) THEN Toks(row) \o SubSeq(tokens, 1, n) ELSE << >>]
           /\ Continues(Decoded(row, tokens, s), Decoded(row, tokens, s), s, Len(row))
<1>1. PICK l, m : l \in Nat /\ m \in Nat /\ l = Len(row) /\ m = Len(tokens) /\ DOMAIN tokens = 1 .. m
  BY LenProperties
<1>2. PICK f : f = Decoded(row, tokens, s)
  OBVIOUS
<1>3. /\ IsFcn(f) /\ DOMAIN f = 1 .. m
      /\ \A n \in 1 .. m : f[n] = [pos |-> l + n - 1, tok |-> tokens[n], seqs |-> {s},
             of |-> IF Pure(row) THEN Toks(row) \o SubSeq(tokens, 1, n) ELSE << >>]
  BY <1>1, <1>2 DEF Decoded, IsFcn
<1>4. ASSUME NEW n \in 1 .. m
      PROVE  f[n] \in Cell /\ f[n].pos = l + n - 1 /\ f[n].seqs = {s}
  <2>1. PICK o : o = IF Pure(row) THEN Toks(row) \o SubSeq(tokens, 1, n) ELSE << >>
    OBVIOUS
  <2>2. o \in Seq(Token)
    <3>1. << >> \in Seq(Token)
      BY EmptySeq
    <3>2. SubSeq(tokens, 1, n) \in Seq(Token)
      <4>1. n \in 0 .. Len(tokens)
        BY <1>1
      <4> QED
        BY <4>1, Beginning
    <3>3. Toks(row) \o SubSeq(tokens, 1, n) \in Seq(Token)
      BY <3>2, ToksIs, ConcatProperties
    <3> QED
      BY <2>1, <3>1, <3>3
  <2>3. l + n - 1 \in Nat
    BY <1>1
  <2>4. tokens[n] \in Token
    BY <1>1, ElementOfSeq
  <2>5. {s} \in (SUBSET Sequences) \ {{}}
    OBVIOUS
  <2>6. f[n] = [pos |-> l + n - 1, tok |-> tokens[n], seqs |-> {s}, of |-> o]
    BY Zenon, <1>3, <2>1
  <2>7. f[n] \in Cell
    BY Zenon, <2>2, <2>3, <2>4, <2>5, <2>6, CellIs
  <2> QED
    BY <2>6, <2>7
<1>5. f \in Seq(Cell) /\ Len(f) = m
  BY Zenon, <1>1, <1>3, <1>4, OneToN
<1>6. Memory(f)
  <2>1. PICK b \in Nat : b = l + m
    BY <1>1
  <2>2. \A n \in 1 .. m : n \in 1 .. b /\ f[n].pos <= b
    <3>1. TAKE n \in 1 .. m
    <3>2. f[n].pos = l + n - 1
      BY <1>4
    <3> QED
      BY <1>1, <2>1, <3>2
  <2>3. Bounded(f, b)
    BY <1>3, <2>2 DEF Bounded
  <2>4. f \in [DOMAIN f -> Cell]
    BY <1>3, <1>4 DEF IsFcn
  <2> QED
    BY <2>1, <2>3, <2>4 DEF Memory
<1>7. Continues(f, f, s, l)
  <2>1. /\ \A k : k \in DOMAIN f <=> k \in 0 + 1 .. 0 + m
        /\ \A j \in 1 .. m : f[0 + j] = f[j]
    BY <1>1, <1>3
  <2>2. \A j \in 1 .. m : f[j].pos = l + j - 1 /\ f[j].seqs = {s}
    BY <1>4
  <2>3. m = Len(f) /\ 0 \in Nat
    BY <1>5
  <2> QED
    BY Zenon, <1>5, <1>6, <2>1, <2>2, <2>3 DEF Continues
<1> QED
  BY Zenon, <1>1, <1>2, <1>3, <1>5, <1>7

\* llama_decode takes a batch that goes on where the row ends, and appends its cells.
LEMMA DecodeLayout ==
    ASSUME NEW c, NEW S, NEW s, NEW row, Layout(c, S, s, row), NEW tokens \in Seq(Token)
    PROVE  /\ Accepts(c, s, Len(row))
           /\ Layout(decode(c, tokens, s, Len(row)), S, s, row \o Decoded(row, tokens, s))
<1>1. Memory(c) /\ Holds(c, s, row) /\ row \in Seq(Cell) /\ s \in Sequences
  BY DEF Layout, Near, Holds, Others
<1>2. PICK l \in Nat : l = Len(row)
  BY <1>1, LenProperties
<1>3. Accepts(c, s, l)
  <2>1. CASE Of(c, s) = {}
    BY <2>1 DEF Accepts
  <2>2. CASE Of(c, s) # {}
    <3> DEFINE T == {c[i].pos : i \in Of(c, s)}
    <3>1. \A i \in Of(c, s) : c[i].pos \in Nat /\ c[i].pos < l
      BY <1>1, <1>2 DEF Of, Memory, Cell, Holds
    <3>2. T \in SUBSET Nat /\ T # {} /\ \A x \in T : x <= l
      BY <1>2, <2>2, <3>1
    <3>3. Max(T) \in T /\ \A x \in T : x <= Max(T)
      BY <1>2, <3>2, MaxOf
    <3>4. l >= 1 /\ l - 1 \in T
      <4>1. l >= 1
        BY <1>2, <2>2, <3>1
      <4>2. l \in 1 .. Len(row)
        BY <1>2, <4>1
      <4>3. PICK i \in Of(c, s) : c[i].pos = l - 1
        BY <1>1, <4>2 DEF Holds
      <4> QED
        BY <4>1, <4>3
    <3>5. \A x \in T : x \in Nat /\ x < l
      BY <3>1
    <3> HIDE DEF T
    <3>6. Max(T) = l - 1
      BY <1>2, <3>3, <3>4, <3>5
    <3>7. l = Max(T) + 1
      BY <1>2, <3>6
    <3> QED
      BY <3>7 DEF Accepts, T
  <2> QED
    BY <2>1, <2>2
<1>4. PICK new : new = Decoded(row, tokens, s)
  OBVIOUS
<1>5. new \in Seq(Cell) /\ Continues(new, new, s, l)
  BY <1>1, <1>2, <1>4, DecodedIs
<1>6. decode(c, tokens, s, l) = AddCells(c, new)
  <2>1. Row(c, s) = row
    BY <1>1, RowIs
  <2> QED
    BY <1>2, <1>4, <2>1 DEF decode, Decoded
<1>7. PICK top \in Nat : DOMAIN c \subseteq 1 .. top /\ AddCells(c, new) = With(c, top, new)
  BY <1>1, <1>5, AddCellsIs DEF Continues
<1>8. Layout(With(c, top, new), S, s, row \o new)
  BY <1>2, <1>5, <1>7, ExtendLayout
<1> QED
  BY <1>2, <1>3, <1>4, <1>6, <1>7, <1>8

\* The cells of a chunk from its n-th on, at the places behind final.
AttachedRow(blob, has, n, size, final) ==
    [j \in 1 .. size - n |->
        [pos |-> final + n + j - 1, tok |-> blob.data[Start(has) + n + j].tok,
         seqs |-> {kTargetSeq}, of |-> blob.data[Start(has) + n + j].of]]

\* Attached cells are those of the target only.
LEMMA AttachNear ==
    ASSUME NEW c, NEW S, Near(c, S, kTargetSeq), NEW has \in BOOLEAN, NEW blob, NEW size,
           IsBlob(blob, has, size), NEW n \in 0 .. size - 1, NEW final \in Nat, final >= Start(has)
    PROVE  \E top, f : /\ TailOf(blob, has, n, size, final, c, top, f)
                       /\ attach_tail(c, blob, has, n, final) = With(c, top, f)
                       /\ Near(attach_tail(c, blob, has, n, final), S, kTargetSeq)
<1>1. Memory(c) /\ Of(c, kTemporarySeq) = {}
  <2>1. \A i \in DOMAIN c : kTemporarySeq \notin c[i].seqs
    BY DEF Near, kTemporarySeq, kTargetSeq, kPrefixSeq
  <2> QED
    BY <2>1 DEF Near, Of
<1>4. PICK top, f : /\ TailOf(blob, has, n, size, final, c, top, f)
                    /\ attach_tail(c, blob, has, n, final) = With(c, top, f)
  BY <1>1, AttachIs
<1>5. top \in Nat /\ DOMAIN c \subseteq 1 .. top /\ Memory(f) /\ \A k \in DOMAIN f : f[k].seqs = {kTargetSeq}
  BY <1>4 DEF TailOf
<1>6. Near(With(c, top, f), S, kTargetSeq)
  BY <1>5, NearWith
<1> QED
  BY Zenon, <1>4, <1>6

\* Attached where the row ends, they continue it.
LEMMA AttachLayout ==
    ASSUME NEW c, NEW S, NEW row, Layout(c, S, kTargetSeq, row), NEW has \in BOOLEAN, NEW blob,
           NEW size, IsBlob(blob, has, size), NEW n \in 0 .. size - 1,
           NEW final \in Nat, final >= Start(has), Len(row) = final + n
    PROVE  LET ext == AttachedRow(blob, has, n, size, final)
           IN  /\ Layout(attach_tail(c, blob, has, n, final), S, kTargetSeq, row \o ext)
               /\ ext \in Seq(Cell) /\ Len(ext) = size - n
               /\ \A j \in 1 .. size - n :
                      ext[j] = [pos |-> final + n + j - 1, tok |-> blob.data[Start(has) + n + j].tok,
                                seqs |-> {kTargetSeq}, of |-> blob.data[Start(has) + n + j].of]
<1>1. PICK ext : ext = AttachedRow(blob, has, n, size, final)
  OBVIOUS
<1>2. PICK start \in Nat : start = Start(has) /\ size \in Nat
  BY ItemsAssumption DEF Start, IsBlob
<1>3. PICK m \in Nat : m = size - n
  BY <1>2
<1>4. /\ IsFcn(ext) /\ DOMAIN ext = 1 .. m
      /\ \A j \in 1 .. m : ext[j] = [pos |-> final + n + j - 1, tok |-> blob.data[start + n + j].tok,
                                     seqs |-> {kTargetSeq}, of |-> blob.data[start + n + j].of]
  BY <1>1, <1>2, <1>3 DEF AttachedRow, IsFcn
<1>5. PICK top, f : /\ TailOf(blob, has, n, size, final, c, top, f)
                    /\ attach_tail(c, blob, has, n, final) = With(c, top, f)
  <2>1. Near(c, S, kTargetSeq)
    BY DEF Layout
  <2> QED
    BY <2>1, AttachNear
<1>6. /\ top \in Nat /\ DOMAIN c \subseteq 1 .. top /\ Memory(f)
      /\ DOMAIN f = start + n + 1 .. start + size
      /\ \A k \in DOMAIN f : f[k] = [pos |-> final + (k - 1 - start), tok |-> blob.data[k].tok,
                                     seqs |-> {kTargetSeq}, of |-> blob.data[k].of]
  BY Zenon, <1>2, <1>5 DEF TailOf
<1>7. PICK a \in Nat : a = start + n
  BY <1>2
<1>8. \A j \in 1 .. m : a + j \in DOMAIN f /\ f[a + j] = ext[j]
  <2>1. TAKE j \in 1 .. m
  <2>2. PICK k : k = a + j
    OBVIOUS
  <2>3. k \in start + n + 1 .. start + size /\ final + (k - 1 - start) = final + n + j - 1
    <3>1. /\ start \in Nat /\ n \in Nat /\ size \in Nat /\ j \in Nat /\ final \in Nat
          /\ 1 <= j /\ j <= size - n
      BY <1>2, <1>3
    <3>2. k = start + n + j
      BY <1>7, <2>2
    <3> QED
      BY <3>1, <3>2
  <2>4. start + n + j = k
    BY <1>7, <2>2
  <2>5. f[k] = [pos |-> final + n + j - 1, tok |-> blob.data[k].tok,
                seqs |-> {kTargetSeq}, of |-> blob.data[k].of]
    BY <1>6, <2>3
  <2>6. ext[j] = [pos |-> final + n + j - 1, tok |-> blob.data[k].tok,
                  seqs |-> {kTargetSeq}, of |-> blob.data[k].of]
    BY <1>4, <2>4
  <2> QED
    BY <1>6, <2>2, <2>3, <2>5, <2>6
<1>9. \A j \in 1 .. m : ext[j] \in Cell
  BY <1>6, <1>8 DEF Memory
<1>10. ext \in Seq(Cell) /\ Len(ext) = m
  BY Zenon, <1>3, <1>4, <1>9, OneToN
<1>11. Continues(f, ext, kTargetSeq, Len(row))
  <2>1. \A k : k \in DOMAIN f <=> k \in a + 1 .. a + m
    <3>1. a + 1 = start + n + 1 /\ a + m = start + size
      BY <1>2, <1>3, <1>7
    <3> QED
      BY <1>6, <3>1
  <2>2. \A j \in 1 .. m : ext[j].pos = Len(row) + j - 1 /\ ext[j].seqs = {kTargetSeq}
    <3>1. TAKE j \in 1 .. m
    <3>2. PICK x, o : x = blob.data[start + n + j].tok /\ o = blob.data[start + n + j].of
      OBVIOUS
    <3>3. ext[j] = [pos |-> final + n + j - 1, tok |-> x, seqs |-> {kTargetSeq}, of |-> o]
      BY Zenon, <1>4, <3>2
    <3> QED
      BY <3>3
  <2> QED
    BY Zenon, <1>6, <1>7, <1>8, <1>10, <2>1, <2>2 DEF Continues
<1>12. Layout(With(c, top, f), S, kTargetSeq, row \o ext)
  BY <1>6, <1>11, ExtendLayout
<1>13. Layout(attach_tail(c, blob, has, n, final), S, kTargetSeq, row \o ext)
  BY <1>5, <1>12
<1> QED
  BY Zenon, <1>1, <1>2, <1>3, <1>4, <1>10, <1>13

Restored(c, s, n) == \E row : Layout(c, {kPrefixSeq}, s, row) /\ Len(row) = n

\* A restored blob is all that its sequence holds.
LEMMA RestoreLayout ==
    ASSUME NEW c, Rests(c), NEW s \in Others, NEW has \in BOOLEAN, NEW blob, NEW size,
           IsBlob(blob, has, size)
    PROVE  Restored(restore(c, blob, s), s, Start(has) + size)
<1>1. Layout(c, {kPrefixSeq}, s, << >>)
  BY RestsIs
<1>2. Memory(c) /\ Of(c, s) = {} /\ s \in Sequences
  BY DEF Rests, Of, Others
<1>3. /\ blob.data \in Seq(Cell) /\ Memory(blob.data)
      /\ \A k \in 1 .. Len(blob.data) : blob.data[k].pos = k - 1
  BY RowMemory DEF IsBlob
<1>4. PICK old \in Seq(Cell) : old = blob.data
  BY <1>3
<1>5. PICK n \in Nat : n = Len(old) /\ DOMAIN old = 1 .. n
  BY LenProperties
<1>6. PICK f : f = [k \in DOMAIN old |-> [old[k] EXCEPT !.seqs = {s}]]
  OBVIOUS
<1>7. Given(blob.data, f, {s}) /\ DOMAIN f = 1 .. n /\ IsFcn(f)
  BY <1>4, <1>5, <1>6 DEF Given, IsFcn
<1>8. PICK top : restore(c, blob, s) = With(c, top, f) /\ Attached(c, top, f, {s}, s)
  BY <1>2, <1>3, <1>7, RestoreIs
<1>9. /\ top \in Nat /\ DOMAIN c \subseteq 1 .. top /\ Memory(f)
      /\ \A k \in 1 .. n : f[k] \in Cell /\ f[k].seqs = {s}
  BY <1>7, <1>8 DEF Attached, Memory
<1>10. f \in Seq(Cell) /\ Len(f) = n
  BY Zenon, <1>5, <1>7, <1>9, OneToN
<1>11. \A k \in 1 .. n : f[k].pos = k - 1
  <2>1. TAKE k \in 1 .. n
  <2>2. PICK r \in Cell : r = old[k] /\ r.pos = k - 1
    BY <1>3, <1>4, <1>5, ElementOfSeq
  <2>3. f[k] = [r EXCEPT !.seqs = {s}]
    BY <1>5, <1>6, <2>2
  <2> QED
    BY <2>2, <2>3 DEF Cell
<1>12. Len(<< >>) = 0 /\ << >> \o f = f
  BY <1>10, EmptySeq, ConcatEmptySeq
<1>13. Continues(f, f, s, Len(<< >>))
  <2>1. /\ \A k : k \in DOMAIN f <=> k \in 0 + 1 .. 0 + n
        /\ \A j \in 1 .. n : f[0 + j] = f[j]
    BY <1>5, <1>7
  <2>2. \A j \in 1 .. n : f[j].pos = Len(<< >>) + j - 1 /\ f[j].seqs = {s}
    BY <1>9, <1>11, <1>12
  <2>3. 0 \in Nat
    OBVIOUS
  <2> QED
    BY Zenon, <1>9, <1>10, <2>1, <2>2, <2>3 DEF Continues
<1>14. Layout(With(c, top, f), {kPrefixSeq}, s, << >> \o f)
  BY <1>1, <1>9, <1>13, ExtendLayout
<1>15. Len(f) = Start(has) + size
  BY <1>4, <1>5, <1>10 DEF IsBlob
<1>16. Layout(restore(c, blob, s), {kPrefixSeq}, s, f)
  BY <1>8, <1>12, <1>14
<1> QED
  BY <1>15, <1>16 DEF Restored

-----------------------------------------------------------------------------
(* The prompt of an item *)

Piece(it, i) == Tokens(i, it.size[i])

Pieces(it) == [i \in DOMAIN it.size |-> Piece(it, i)]

PromptOf(it) == prefix \o FlattenSeq(Pieces(it)) \o suffix

BeforeOf(it) ==
    CHOOSE f : f = [i \in 1 .. Len(it.size) + 1 |->
                       IF i = 1 THEN PrefixLen ELSE f[i - 1] + it.size[i - 1]]

\* An item has at least one chunk, and its chunks are not empty.
LEMMA SizesOf ==
    ASSUME NEW it \in Items
    PROVE  /\ Len(it.size) \in Nat /\ Len(it.size) >= 1 /\ DOMAIN it.size = 1 .. Len(it.size)
           /\ \A i \in 1 .. Len(it.size) : it.size[i] \in Nat /\ it.size[i] >= 1
           /\ PrefixLen \in Nat /\ PrefixLen >= 1 /\ SuffixLen \in Nat /\ SuffixLen >= 1
<1>1. PICK q \in Seq(Nat \ {0}) : q = it.size /\ q # << >>
  BY ItemsAssumption
<1>2. Len(q) \in Nat \ {0} /\ DOMAIN q = 1 .. Len(q)
  BY <1>1, EmptySeq, LenProperties
<1>3. \A i \in 1 .. Len(q) : q[i] \in Nat \ {0}
  BY <1>1, ElementOfSeq
<1> QED
  BY <1>1, <1>2, <1>3, ItemsAssumption

\* The places of the chunks.
LEMMA BeforeIs ==
    ASSUME NEW it \in Items
    PROVE  LET B == BeforeOf(it) N == Len(it.size)
           IN  /\ B[1] = PrefixLen
               /\ \A i \in 1 .. N : B[i + 1] = B[i] + it.size[i]
               /\ \A i \in 1 .. N + 1 : B[i] \in Nat /\ B[i] >= PrefixLen
<1>1. PICK N \in Nat : N = Len(it.size)
  BY SizesOf
<1>2. PICK z, P : z = it.size /\ P = PrefixLen
  OBVIOUS
<1>3. P \in Nat /\ \A i \in 1 .. N : z[i] \in Nat
  BY <1>1, <1>2, SizesOf
<1>4. PICK G : G = [i \in 1 .. N |-> [x \in Nat |-> x + z[i]]]
  OBVIOUS
<1>5. G \in [1 .. N -> [Nat -> Nat]]
  <2>1. ASSUME NEW i \in 1 .. N
        PROVE  [x \in Nat |-> x + z[i]] \in [Nat -> Nat]
    <3>1. \A x \in Nat : x + z[i] \in Nat
      BY <1>3
    <3> QED
      BY <3>1
  <2> QED
    BY <1>4, <2>1
<1>6. PICK f \in [0 .. N -> Nat] : f[0] = P /\ \A i \in 1 .. N : f[i] = G[i][f[i - 1]]
  <2>1. PICK V : V = Nat
    OBVIOUS
  <2>2. P \in V /\ N \in Nat /\ G \in [1 .. N -> [V -> V]]
    BY <1>1, <1>3, <1>5, <2>1
  <2>3. \E f \in [0 .. N -> V] : f[0] = P /\ \A i \in 1 .. N : f[i] = G[i][f[i - 1]]
    BY <2>2, PrimitiveRecursion
  <2> QED
    BY <2>1, <2>3
<1>7. PICK g : g = [i \in 1 .. N + 1 |-> f[i - 1]]
  OBVIOUS
<1>8. g = [i \in 1 .. N + 1 |-> IF i = 1 THEN P ELSE g[i - 1] + z[i - 1]]
  <2>1. ASSUME NEW i \in 1 .. N + 1
        PROVE  g[i] = IF i = 1 THEN P ELSE g[i - 1] + z[i - 1]
    <3>1. CASE i = 1
      BY <1>6, <1>7, <3>1
    <3>2. CASE i # 1
      <4>1. i - 1 \in 1 .. N /\ i - 1 \in 1 .. N + 1
        BY <1>1, <3>2
      <4>2. PICK j : j = i - 1 /\ j \in 1 .. N /\ j - 1 \in 0 .. N
        BY <4>1
      <4>3. f[j] = G[j][f[j - 1]] /\ f[j - 1] \in Nat
        BY <1>6, <4>2
      <4>4. G[j][f[j - 1]] = f[j - 1] + z[j]
        BY <1>4, <4>2, <4>3
      <4>5. g[i] = f[j] /\ g[i - 1] = f[j - 1]
        BY <1>7, <4>1, <4>2
      <4> QED
        BY <3>2, <4>2, <4>3, <4>4, <4>5
    <3> QED
      BY <3>1, <3>2
  <2> QED
    BY <1>7, <2>1
<1>9. PICK B : B = BeforeOf(it)
  OBVIOUS
<1>10. B = [i \in 1 .. N + 1 |-> IF i = 1 THEN P ELSE B[i - 1] + z[i - 1]]
  <2>1. B = CHOOSE h : h = [i \in 1 .. N + 1 |-> IF i = 1 THEN P ELSE h[i - 1] + z[i - 1]]
    BY <1>1, <1>2, <1>9 DEF BeforeOf
  <2>2. \E h : h = [i \in 1 .. N + 1 |-> IF i = 1 THEN P ELSE h[i - 1] + z[i - 1]]
    BY <1>8
  <2> QED
    BY <2>1, <2>2
<1>11. \A i \in 1 .. N + 1 : B[i] = IF i = 1 THEN P ELSE B[i - 1] + z[i - 1]
  BY <1>10
<1>12. B[1] = P
  <2>1. 1 \in 1 .. N + 1
    BY <1>1
  <2> QED
    BY <1>11, <2>1
<1>13. \A i \in 1 .. N : B[i + 1] = B[i] + z[i]
  <2>1. TAKE i \in 1 .. N
  <2>2. PICK j : j = i + 1 /\ j \in 1 .. N + 1 /\ j # 1 /\ j - 1 = i
    BY <1>1
  <2> QED
    BY <1>11, <2>2
<1>14. \A i \in 1 .. N + 1 : B[i] \in Nat /\ B[i] >= P
  <2> DEFINE H == {i \in 0 .. N : B[i + 1] \in Nat /\ B[i + 1] >= P}
  <2>1. 0 \in H
    BY <1>1, <1>3, <1>12
  <2>2. ASSUME NEW i \in 1 .. N, i - 1 \in H
        PROVE  i \in H
    <3>1. i - 1 + 1 = i /\ i \in 0 .. N
      BY <1>1
    <3>2. B[i] \in Nat /\ B[i] >= P
      BY <2>2, <3>1
    <3>3. B[i + 1] = B[i] + z[i] /\ z[i] \in Nat
      BY <1>3, <1>13
    <3>4. B[i + 1] \in Nat /\ B[i + 1] >= P
      BY <1>3, <3>2, <3>3
    <3> QED
      BY <3>1, <3>4
  <2> HIDE DEF H
  <2>3. \A i \in 1 .. N : i - 1 \in H => i \in H
    BY <2>2
  <2>4. \A i \in 0 .. N : i \in H
    BY <1>1, <2>1, <2>3, Induction
  <2>5. TAKE i \in 1 .. N + 1
  <2>6. i - 1 \in 0 .. N /\ i - 1 + 1 = i
    BY <1>1
  <2>7. i - 1 \in H
    BY <2>4, <2>6
  <2> QED
    BY <2>6, <2>7 DEF H
<1> QED
  BY <1>1, <1>2, <1>9, <1>12, <1>13, <1>14

\* The chunks of an item are sequences of tokens.
LEMMA PiecesAre ==
    ASSUME NEW it \in Items
    PROVE  /\ Pieces(it) \in Seq(Seq(Token)) /\ Len(Pieces(it)) = Len(it.size)
           /\ \A i \in 1 .. Len(it.size) :
                  /\ Pieces(it)[i] = Piece(it, i) /\ Piece(it, i) \in Seq(Token)
                  /\ Len(Piece(it, i)) = it.size[i] /\ DOMAIN Piece(it, i) = 1 .. it.size[i]
<1>1. PICK N \in Nat : N = Len(it.size) /\ DOMAIN it.size = 1 .. N
  BY SizesOf
<1>2. PICK s : s = Pieces(it)
  OBVIOUS
<1>3. IsFcn(s) /\ DOMAIN s = 1 .. N /\ \A i \in 1 .. N : s[i] = Piece(it, i)
  BY <1>1, <1>2 DEF Pieces, IsFcn
<1>4. ASSUME NEW i \in 1 .. N
      PROVE  /\ Piece(it, i) \in Seq(Token) /\ Len(Piece(it, i)) = it.size[i]
             /\ DOMAIN Piece(it, i) = 1 .. it.size[i]
  <2>1. PICK n \in Nat : n = it.size[i]
    BY <1>1, SizesOf
  <2>2. i \in {"prefix", "suffix", "answer"} \cup Nat
    OBVIOUS
  <2> QED
    BY <2>1, <2>2, TokensIs DEF Piece
<1>5. PICK T : T = Seq(Token)
  OBVIOUS
<1>6. \A i \in 1 .. N : s[i] \in T
  BY <1>3, <1>4, <1>5
<1>7. s \in Seq(T) /\ Len(s) = N
  BY Zenon, <1>3, <1>6, OneToN
<1> QED
  BY <1>1, <1>2, <1>3, <1>4, <1>5, <1>7

\* The function by which FlattenSeq is defined.
Flattens(s, n, h) == h = [i \in 1 .. n |-> IF i = 1 THEN s[i] ELSE h[i - 1] \o s[i]]

\* The values of s can be joined within V.
Joins(V, e, N, s) ==
    /\ \A i \in 1 .. N : s[i] \in V
    /\ \A x, y \in V : x \o y \in V
    /\ \A x \in V : e \o x = x

\* There is such a function.
LEMMA ConcatRecursion ==
    ASSUME NEW V, NEW e \in V, NEW N \in Nat, NEW s, Joins(V, e, N, s)
    PROVE  \E g : Flattens(s, N, g)
<1>1. PICK G : G = [i \in 1 .. N |-> [x \in V |-> x \o s[i]]]
  OBVIOUS
<1>2. G \in [1 .. N -> [V -> V]]
  <2>1. ASSUME NEW i \in 1 .. N
        PROVE  [x \in V |-> x \o s[i]] \in [V -> V]
    BY DEF Joins
  <2> QED
    BY <1>1, <2>1
<1>3. PICK f \in [0 .. N -> V] : f[0] = e /\ \A i \in 1 .. N : f[i] = G[i][f[i - 1]]
  BY <1>2, PrimitiveRecursion
<1>4. PICK g : g = [i \in 1 .. N |-> f[i]]
  OBVIOUS
<1>5. ASSUME NEW i \in 1 .. N
      PROVE  g[i] = IF i = 1 THEN s[i] ELSE g[i - 1] \o s[i]
  <2>1. i - 1 \in 0 .. N
    OBVIOUS
  <2>2. f[i] = G[i][f[i - 1]] /\ f[i - 1] \in V
    BY <1>3, <2>1
  <2>3. G[i][f[i - 1]] = f[i - 1] \o s[i]
    BY <1>1, <2>2
  <2>4. CASE i = 1
    <3>1. f[i - 1] = e
      BY <1>3, <2>4
    <3>2. e \o s[i] = s[i]
      BY DEF Joins
    <3> QED
      BY <1>4, <2>2, <2>3, <2>4, <3>1, <3>2
  <2>5. CASE i # 1
    <3>1. i - 1 \in 1 .. N
      BY <2>5
    <3>2. g[i - 1] = f[i - 1]
      BY <1>4, <3>1
    <3> QED
      BY <1>4, <2>2, <2>3, <2>5, <3>2
  <2> QED
    BY <2>4, <2>5
<1>6. g = [i \in 1 .. N |-> g[i]]
  BY <1>4
<1>7. Flattens(s, N, g)
  BY <1>5, <1>6 DEF Flattens
<1> QED
  BY <1>7

\* FlattenSeq yields the last value of such a function.
LEMMA FlattenChosen ==
    ASSUME NEW s, s \in Seq(Seq(Token)), Len(s) # 0
    PROVE  \E h : Flattens(s, Len(s), h) /\ FlattenSeq(s) = h[Len(s)]
<1>1. PICK N \in Nat : N = Len(s)
  BY LenProperties
<1>2. \E g : Flattens(s, N, g)
  <2>1. << >> \in Seq(Token)
    BY EmptySeq
  <2>2. \A i \in 1 .. N : s[i] \in Seq(Token)
    BY <1>1, ElementOfSeq
  <2>3. \A x, y \in Seq(Token) : x \o y \in Seq(Token)
    BY ConcatProperties
  <2>4. \A x \in Seq(Token) : << >> \o x = x
    BY ConcatEmptySeq
  <2>5. PICK V, e : V = Seq(Token) /\ e = << >>
    OBVIOUS
  <2>6. e \in V /\ \A i \in 1 .. N : s[i] \in V
    BY <2>1, <2>2, <2>5
  <2>7. (\A x, y \in V : x \o y \in V) /\ \A x \in V : e \o x = x
    BY <2>3, <2>4, <2>5
  <2>8. Joins(V, e, N, s)
    BY <2>6, <2>7 DEF Joins
  <2> QED
    BY <2>6, <2>8, ConcatRecursion
<1>3. PICK h : h = CHOOSE u : u = [i \in 1 .. N |-> IF i = 1 THEN s[i] ELSE u[i - 1] \o s[i]]
  OBVIOUS
<1>4. Flattens(s, N, h)
  BY <1>2, <1>3 DEF Flattens
<1>5. FlattenSeq(s) = h[N]
  BY <1>1, <1>3 DEF FlattenSeq
<1> QED
  BY <1>1, <1>4, <1>5

\* A chunk ends before the later ones begin.
LEMMA BeforeOrder ==
    ASSUME NEW it \in Items, NEW j \in 1 .. Len(it.size), NEW i \in j + 1 .. Len(it.size) + 1
    PROVE  BeforeOf(it)[j] + it.size[j] <= BeforeOf(it)[i]
<1>1. PICK N : N \in Nat /\ N = Len(it.size)
  BY SizesOf
<1>2. PICK z, B : z = it.size /\ B = BeforeOf(it)
  OBVIOUS
<1>3. \A k \in 1 .. N : B[k + 1] = B[k] + z[k] /\ z[k] \in Nat /\ B[k] \in Nat
  <2>1. TAKE k \in 1 .. N
  <2>2. k \in 1 .. N + 1
    BY <1>1
  <2>3. B[k + 1] = B[k] + z[k]
    BY <1>1, <1>2, BeforeIs
  <2>4. B[k] \in Nat
    BY <1>1, <1>2, <2>2, BeforeIs
  <2>5. z[k] \in Nat
    BY <1>1, <1>2, SizesOf
  <2> QED
    BY <2>3, <2>4, <2>5
<1>4. PICK b, m : b = j + 1 /\ m = i - b /\ b \in Nat /\ m \in Nat /\ b >= 2 /\ b + m = i /\ b + m <= N + 1
  BY <1>1
<1> DEFINE K == {x \in 0 .. m : B[b] <= B[b + x]}
<1>5. B[b] = B[j] + z[j] /\ B[b] \in Nat
  <2>1. j \in 1 .. N
    BY <1>1
  <2>2. B[j + 1] = B[j] + z[j] /\ z[j] \in Nat /\ B[j] \in Nat
    BY <1>3, <2>1
  <2> QED
    BY <1>4, <2>2
<1>6. 0 \in K
  <2>1. b + 0 = b /\ 0 \in 0 .. m
    BY <1>4
  <2> QED
    BY <1>5, <2>1
<1>7. ASSUME NEW x \in 1 .. m, x - 1 \in K
      PROVE  x \in K
  <2>1. PICK y : y = b + (x - 1) /\ y \in 1 .. N /\ y + 1 = b + x
    BY <1>1, <1>4
  <2>2. B[b] <= B[y]
    BY <1>7, <2>1
  <2>3. B[y + 1] = B[y] + z[y] /\ z[y] \in Nat /\ B[y] \in Nat
    BY <1>3, <2>1
  <2>4. B[b] <= B[y + 1]
    BY <1>5, <2>2, <2>3
  <2>5. x \in 0 .. m
    BY <1>4
  <2> QED
    BY <2>1, <2>4, <2>5
<1> HIDE DEF K
<1>8. \A x \in 1 .. m : x - 1 \in K => x \in K
  BY <1>7
<1>9. m \in K
  <2>1. m \in Nat /\ m \in 0 .. m
    BY <1>4
  <2>2. \A x \in 0 .. m : x \in K
    BY <1>6, <1>8, <2>1, Induction
  <2> QED
    BY <2>1, <2>2
<1>10. B[b] <= B[i]
  BY <1>4, <1>9 DEF K
<1> QED
  BY <1>2, <1>5, <1>10

\* The chunks up to the i-th, in the order of their places.
Joined(it, i, w) ==
    /\ w \in Seq(Token) /\ PrefixLen + Len(w) = BeforeOf(it)[i + 1]
    /\ \A j \in 1 .. i : \A k \in 1 .. it.size[j] :
           w[BeforeOf(it)[j] - PrefixLen + k] = Piece(it, j)[k]

\* One chunk is at its place.
LEMMA JoinedOne ==
    ASSUME NEW it \in Items
    PROVE  Joined(it, 1, Piece(it, 1))
<1>1. PICK P, B, n : P \in Nat /\ P = PrefixLen /\ B = BeforeOf(it) /\ n = it.size[1] /\ n \in Nat
                     /\ 1 \in 1 .. Len(it.size)
  BY SizesOf
<1>2. B[1] = P /\ B[1 + 1] = P + n
  BY <1>1, BeforeIs
<1>3. PICK w : w = Piece(it, 1) /\ w \in Seq(Token) /\ Len(w) = n
  BY <1>1, PiecesAre
<1>4. \A k \in 1 .. n : w[B[1] - P + k] = w[k]
  <2>1. TAKE k \in 1 .. n
  <2>2. B[1] - P + k = k
    BY <1>1, <1>2
  <2> QED
    BY <2>2
<1>5. \A j \in 1 .. 1 : j = 1
  OBVIOUS
<1>6. P + Len(w) = B[1 + 1]
  BY <1>2, <1>3
<1> QED
  BY <1>1, <1>3, <1>4, <1>5, <1>6 DEF Joined

\* The next chunk comes behind the others.
LEMMA JoinedNext ==
    ASSUME NEW it \in Items, NEW i \in 2 .. Len(it.size), NEW u, Joined(it, i - 1, u)
    PROVE  Joined(it, i, u \o Piece(it, i))
<1>1. PICK N, P : N \in Nat /\ N = Len(it.size) /\ P \in Nat /\ P = PrefixLen
  BY SizesOf
<1>2. PICK z, B : z = it.size /\ B = BeforeOf(it)
  OBVIOUS
<1>3. PICK l : l \in 1 .. N /\ l + 1 = i /\ l = i - 1
  BY <1>1
<1>4. i \in 1 .. N
  BY <1>1
<1>5. PICK v : v = Piece(it, i) /\ v \in Seq(Token) /\ Len(v) = z[i]
  BY <1>1, <1>2, <1>4, PiecesAre
<1>6. \A j \in 1 .. N : z[j] \in Nat /\ B[j] \in Nat /\ B[j] >= P
  <2>1. TAKE j \in 1 .. N
  <2>2. j \in 1 .. N + 1
    BY <1>1
  <2> QED
    BY <1>1, <1>2, <2>2, SizesOf, BeforeIs
<1>7. B[i + 1] = B[i] + z[i]
  BY <1>1, <1>2, <1>4, BeforeIs
<1>8. /\ u \in Seq(Token) /\ P + Len(u) = B[i]
      /\ \A j \in 1 .. l : \A k \in 1 .. z[j] : u[B[j] - P + k] = Piece(it, j)[k]
  BY <1>1, <1>2, <1>3 DEF Joined
<1>9. PICK m : m \in Nat /\ m = Len(u)
  BY <1>8, LenProperties
<1>10. PICK w : w = u \o v
  OBVIOUS
<1>11. /\ w \in Seq(Token) /\ Len(w) = m + z[i]
       /\ \A k \in 1 .. m : w[k] = u[k]
       /\ \A k \in 1 .. z[i] : w[m + k] = v[k]
  <2>1. /\ u \o v \in Seq(Token) /\ Len(u \o v) = Len(u) + Len(v)
        /\ \A k \in 1 .. Len(u) : (u \o v)[k] = u[k]
        /\ \A k \in 1 .. Len(v) : (u \o v)[Len(u) + k] = v[k]
    <3>1. u \in Seq(Token) /\ v \in Seq(Token)
      BY <1>5, <1>8
    <3> QED
      BY <3>1, ConcatIs
  <2> QED
    BY Zenon, <1>5, <1>9, <1>10, <2>1
<1>12. B[i] = P + m /\ z[i] \in Nat
  BY <1>4, <1>6, <1>8, <1>9
<1>13. P + Len(w) = B[i + 1]
  <2>1. PICK n, b : n = z[i] /\ b = B[i] /\ n \in Nat /\ b = P + m
    BY <1>12
  <2>2. P \in Nat /\ m \in Nat /\ n \in Nat
    BY <1>1, <1>9, <2>1
  <2>3. P + (m + n) = (P + m) + n
    BY <2>2
  <2> QED
    BY Zenon, <1>7, <1>11, <2>1, <2>3
<1>14. ASSUME NEW j \in 1 .. i, NEW k \in 1 .. z[j]
       PROVE  w[B[j] - P + k] = Piece(it, j)[k]
  <2>1. CASE j = i
    <3>1. B[j] - P + k = m + k
      <4>1. k \in Nat /\ P \in Nat /\ m \in Nat
        BY <1>1, <1>9, <1>12, <2>1
      <4>2. (P + m) - P + k = m + k
        BY <4>1
      <4> QED
        BY Zenon, <1>12, <2>1, <4>2
    <3>2. w[m + k] = v[k]
      BY <1>11, <2>1
    <3> QED
      BY <1>5, <2>1, <3>1, <3>2
  <2>2. CASE j # i
    <3>1. j \in 1 .. l /\ j \in 1 .. N /\ i \in j + 1 .. N + 1
      BY <1>1, <1>3, <2>2
    <3>2. B[j] + z[j] <= B[i]
      BY <1>1, <1>2, <3>1, BeforeOrder
    <3>3. z[j] \in Nat /\ B[j] \in Nat /\ B[j] >= P
      BY <1>6, <3>1
    <3>4. B[j] - P + k \in 1 .. m
      <4>1. PICK b, n : b = B[j] /\ n = z[j] /\ b \in Nat /\ n \in Nat /\ b >= P /\ b + n <= P + m
                        /\ k \in 1 .. n
        BY <1>12, <3>2, <3>3
      <4>2. P \in Nat /\ m \in Nat /\ b \in Nat /\ n \in Nat /\ b >= P /\ b + n <= P + m /\ k \in 1 .. n
        BY <1>1, <1>9, <4>1
      <4>3. b - P + k \in 1 .. m
        BY <4>2
      <4> QED
        BY Zenon, <4>1, <4>3
    <3>5. u[B[j] - P + k] = Piece(it, j)[k]
      BY <1>8, <3>1
    <3> QED
      BY <1>11, <3>4, <3>5
  <2> QED
    BY <2>1, <2>2
<1> QED
  BY <1>1, <1>2, <1>5, <1>10, <1>11, <1>13, <1>14 DEF Joined

\* What FlattenSeq makes of the chunks: each one stands at its place behind the prefix.
LEMMA FlattenIs ==
    ASSUME NEW it \in Items
    PROVE  Joined(it, Len(it.size), FlattenSeq(Pieces(it)))
<1>1. PICK N : N \in Nat /\ N >= 1 /\ N = Len(it.size)
  BY SizesOf
<1>2. PICK s : s = Pieces(it)
  OBVIOUS
<1>3. /\ s \in Seq(Seq(Token)) /\ Len(s) = N /\ \A i \in 1 .. N : s[i] = Piece(it, i)
  BY <1>1, <1>2, PiecesAre
<1>4. PICK h : Flattens(s, N, h) /\ FlattenSeq(s) = h[N]
  <2>1. Len(s) # 0
    BY <1>1, <1>3
  <2> QED
    BY <1>3, <2>1, FlattenChosen
<1>5. \A i \in 1 .. N : h[i] = IF i = 1 THEN s[i] ELSE h[i - 1] \o s[i]
  BY <1>4 DEF Flattens
<1> DEFINE H == {i \in 0 .. N : i = 0 \/ Joined(it, i, h[i])}
<1>6. ASSUME NEW i \in 1 .. N, i - 1 \in H
      PROVE  i \in H
  <2>1. CASE i = 1
    <3>1. h[1] = Piece(it, 1)
      BY <1>3, <1>5, <2>1
    <3>2. Joined(it, 1, h[1])
      BY <3>1, JoinedOne
    <3> QED
      BY <1>1, <2>1, <3>2
  <2>2. CASE i # 1
    <3>1. Joined(it, i - 1, h[i - 1])
      BY <1>6, <2>2
    <3>2. i \in 2 .. Len(it.size)
      BY <1>1, <2>2
    <3>3. h[i] = h[i - 1] \o Piece(it, i)
      BY <1>3, <1>5, <2>2
    <3>4. Joined(it, i, h[i])
      BY <3>1, <3>2, <3>3, JoinedNext
    <3> QED
      BY <1>1, <3>4
  <2> QED
    BY <2>1, <2>2
<1>7. 0 \in H
  BY <1>1
<1> HIDE DEF H
<1>8. \A i \in 1 .. N : i - 1 \in H => i \in H
  BY <1>6
<1>9. N \in H
  <2>1. N \in Nat /\ N \in 0 .. N
    BY <1>1
  <2>2. \A i \in 0 .. N : i \in H
    BY <1>7, <1>8, <2>1, Induction
  <2> QED
    BY <2>1, <2>2
<1>10. Joined(it, N, h[N])
  BY <1>1, <1>9 DEF H
<1> QED
  BY <1>1, <1>2, <1>4, <1>10

\* ConcatIs, for sequences with names.
LEMMA JoinIs ==
    ASSUME NEW S, NEW q1 \in Seq(S), NEW q2 \in Seq(S), NEW m, m = Len(q1), NEW n, n = Len(q2),
           NEW q, q = q1 \o q2
    PROVE  /\ q \in Seq(S) /\ Len(q) = m + n
           /\ \A k \in 1 .. m : q[k] = q1[k]
           /\ \A j \in 1 .. n : q[m + j] = q2[j]
<1>1. /\ q1 \o q2 \in Seq(S) /\ Len(q1 \o q2) = Len(q1) + Len(q2)
      /\ \A k \in 1 .. Len(q1) : (q1 \o q2)[k] = q1[k]
      /\ \A j \in 1 .. Len(q2) : (q1 \o q2)[Len(q1) + j] = q2[j]
  BY ConcatIs
<1> QED
  BY Zenon, <1>1

\* The prompt: the prefix, the chunks at their places and the suffix.
LEMMA PromptIs ==
    ASSUME NEW it \in Items
    PROVE  LET t == PromptOf(it) B == BeforeOf(it) N == Len(it.size)
           IN  /\ t \in Seq(Token) /\ Len(t) = B[N + 1] + SuffixLen
               /\ \A k \in 1 .. PrefixLen : t[k] = prefix[k]
               /\ \A i \in 1 .. N : \A k \in 1 .. it.size[i] : t[B[i] + k] = Piece(it, i)[k]
               /\ \A k \in 1 .. SuffixLen : t[B[N + 1] + k] = suffix[k]
<1>1. PICK N, P, Q : /\ N \in Nat /\ N = Len(it.size) /\ P \in Nat /\ P = PrefixLen
                     /\ Q \in Nat /\ Q = SuffixLen
  BY SizesOf
<1>2. PICK p : p = prefix /\ p \in Seq(Token) /\ Len(p) = P
  <2>1. "prefix" \in {"prefix", "suffix", "answer"} \cup Nat
    OBVIOUS
  <2> QED
    BY <1>1, <2>1, TokensIs DEF prefix
<1>3. PICK v : v = suffix /\ v \in Seq(Token) /\ Len(v) = Q
  <2>1. "suffix" \in {"prefix", "suffix", "answer"} \cup Nat
    OBVIOUS
  <2> QED
    BY <1>1, <2>1, TokensIs DEF suffix
<1>4. PICK w : w = FlattenSeq(Pieces(it)) /\ Joined(it, N, w)
  BY <1>1, FlattenIs
<1>5. PICK z, B : z = it.size /\ B = BeforeOf(it)
  OBVIOUS
<1>6. /\ w \in Seq(Token) /\ P + Len(w) = B[N + 1]
      /\ \A i \in 1 .. N : \A k \in 1 .. z[i] : w[B[i] - P + k] = Piece(it, i)[k]
  BY <1>1, <1>4, <1>5 DEF Joined
<1>7. PICK m : m \in Nat /\ m = Len(w)
  BY <1>6, LenProperties
<1>8. PICK b : b = B[N + 1] /\ b = P + m
  BY <1>6, <1>7
<1>9. PICK a : /\ a = p \o w /\ a \in Seq(Token) /\ Len(a) = P + m
               /\ \A k \in 1 .. P : a[k] = p[k]
               /\ \A k \in 1 .. m : a[P + k] = w[k]
  <2>1. PICK a : a = p \o w
    OBVIOUS
  <2>2. p \in Seq(Token) /\ w \in Seq(Token) /\ P = Len(p) /\ m = Len(w)
    BY <1>2, <1>6, <1>7
  <2>3. /\ a \in Seq(Token) /\ Len(a) = P + m
        /\ \A k \in 1 .. P : a[k] = p[k]
        /\ \A k \in 1 .. m : a[P + k] = w[k]
    BY <2>1, <2>2, JoinIs
  <2> QED
    BY <2>1, <2>3
<1>10. PICK t : /\ t = a \o v /\ t \in Seq(Token) /\ Len(t) = b + Q
                /\ \A k \in 1 .. b : t[k] = a[k]
                /\ \A k \in 1 .. Q : t[b + k] = v[k]
  <2>1. PICK t : t = a \o v
    OBVIOUS
  <2>2. a \in Seq(Token) /\ v \in Seq(Token) /\ b = Len(a) /\ Q = Len(v)
    BY <1>3, <1>8, <1>9
  <2>3. /\ t \in Seq(Token) /\ Len(t) = b + Q
        /\ \A k \in 1 .. b : t[k] = a[k]
        /\ \A k \in 1 .. Q : t[b + k] = v[k]
    BY <2>1, <2>2, JoinIs
  <2> QED
    BY <2>1, <2>3
<1>11. \A k \in 1 .. P : t[k] = p[k]
  <2>1. TAKE k \in 1 .. P
  <2>2. k \in 1 .. b
    BY <1>1, <1>7, <1>8
  <2> QED
    BY <1>9, <1>10, <2>2
<1>12. ASSUME NEW i \in 1 .. N, NEW k \in 1 .. z[i]
       PROVE  t[B[i] + k] = Piece(it, i)[k]
  <2>1. PICK x, y, n : /\ x = B[i] /\ y = B[i] - P + k /\ n = z[i] /\ x \in Nat /\ x >= P /\ n \in Nat
                       /\ x + n <= b /\ k \in 1 .. n /\ y = x - P + k
    <3>0. PICK x, y, n : x = B[i] /\ y = x - P + k /\ n = z[i] /\ k \in 1 .. n
      OBVIOUS
    <3>1. i \in 1 .. Len(it.size) /\ i \in 1 .. N + 1 /\ N + 1 \in i + 1 .. Len(it.size) + 1
      <4>1. i \in 1 .. N + 1 /\ N + 1 \in i + 1 .. N + 1
        BY <1>1
      <4> QED
        BY <1>1, <4>1
    <3>2. B[i] \in Nat /\ B[i] >= P
      BY <1>1, <1>5, <3>1, BeforeIs
    <3>3. z[i] \in Nat
      BY <1>5, <3>1, SizesOf
    <3>4. B[i] + z[i] <= B[N + 1]
      BY <1>5, <3>1, BeforeOrder
    <3> QED
      BY <1>8, <3>0, <3>2, <3>3, <3>4
  <2>2. y \in 1 .. m /\ P + y = x + k /\ x + k \in 1 .. b
    <3>1. /\ P \in Nat /\ m \in Nat /\ b = P + m /\ x \in Nat /\ x >= P /\ n \in Nat
          /\ x + n <= b /\ k \in 1 .. n /\ y = x - P + k
      BY <1>1, <1>7, <1>8, <2>1
    <3> QED
      BY <3>1
  <2>3. w[y] = Piece(it, i)[k]
    BY <1>6, <2>1
  <2>4. t[x + k] = a[P + y] /\ a[P + y] = w[y]
    BY <1>9, <1>10, <2>2
  <2> QED
    BY <2>1, <2>3, <2>4
<1>13. t = PromptOf(it)
  BY <1>2, <1>3, <1>4, <1>9, <1>10 DEF PromptOf
<1>14. \A k \in 1 .. Q : t[B[N + 1] + k] = v[k]
  BY <1>8, <1>10
<1>15. \A i \in 1 .. N : \A k \in 1 .. z[i] : t[B[i] + k] = Piece(it, i)[k]
  BY <1>12
<1>16. t \in Seq(Token) /\ Len(t) = B[N + 1] + Q
  BY <1>8, <1>10
<1> QED
  BY Zenon, <1>1, <1>2, <1>3, <1>5, <1>11, <1>13, <1>14, <1>15, <1>16

-----------------------------------------------------------------------------
(* What the target holds of a prompt *)

\* Foreign, for the lengths h of the recomputed heads.
ForeignOf(it, pre, h) ==
    UNION {BeforeOf(it)[i] + h[i] + 1 .. BeforeOf(it)[i] + it.size[i] :
               i \in {j \in DOMAIN it.size : ~ (pre /\ j = 1)}}

\* No chunk was attached out of context up to k.
Clean(it, pre, h, k) == \A m \in ForeignOf(it, pre, h) : m > k

\* The row holds the beginning of the prompt, as TargetExact requires it.
Exact(it, pre, h, row) ==
    /\ row \in Seq(Cell) /\ Len(row) \in PrefixLen .. Len(PromptOf(it))
    /\ \A k \in 1 .. Len(row) :
           /\ row[k].pos = k - 1 /\ row[k].tok = PromptOf(it)[k]
           /\ row[k].seqs = IF k <= PrefixLen THEN {kPrefixSeq, kTargetSeq} ELSE {kTargetSeq}
           /\ row[k].of = SubSeq(PromptOf(it), 1, k) <=> Clean(it, pre, h, k)

\* The buffer q holds the tokens from the end of the row up to p.
Waiting(it, pre, h, row, p, q, at) ==
    /\ q \in Seq(Token) /\ Len(row) + Len(q) = p
    /\ \A k \in 1 .. Len(q) : q[k] = PromptOf(it)[Len(row) + k]
    /\ q # << >> => at = Len(row)
    /\ \A m \in ForeignOf(it, pre, h) : m \notin Len(row) + 1 .. p

\* The lengths of the heads, at most those of the chunks.
Heads(it, h) == \A i \in 1 .. Len(it.size) : h[i] \in 0 .. it.size[i]

\* What a run without foreign cells leaves in the target.
FullRow(it) ==
    [k \in 1 .. Len(PromptOf(it)) |->
        [pos |-> k - 1, tok |-> PromptOf(it)[k],
         seqs |-> IF k <= PrefixLen THEN {kPrefixSeq, kTargetSeq} ELSE {kTargetSeq},
         of |-> SubSeq(PromptOf(it), 1, k)]]

\* The tokens up to the k-th of a chunk, with the prefix or alone.
UpTo(it, i, has, k, o) == o = (IF has THEN prefix ELSE << >>) \o SubSeq(Piece(it, i), 1, k)

\* The snapshot of a chunk that was computed behind the prefix, or alone.
BlobOf(blob, has, it, j) ==
    /\ IsBlob(blob, has, it.size[j])
    /\ \A k \in 1 .. it.size[j] :
           /\ blob.data[Start(has) + k].tok = Piece(it, j)[k]
           /\ UpTo(it, j, has, k, blob.data[Start(has) + k].of)

\* The cells ext go on with the prompt behind n others.
More(it, pre, h, n, ext) ==
    /\ ext \in Seq(Cell) /\ n + Len(ext) <= Len(PromptOf(it))
    /\ \A j \in 1 .. Len(ext) :
           /\ ext[j].pos = n + j - 1 /\ ext[j].tok = PromptOf(it)[n + j]
           /\ ext[j].seqs = {kTargetSeq}
           /\ ext[j].of = SubSeq(PromptOf(it), 1, n + j) <=> Clean(it, pre, h, n + j)

\* Sequences of tokens with the same elements are the same.
LEMMA SameTokens ==
    ASSUME NEW q \in Seq(Token), NEW r \in Seq(Token), NEW n, Len(q) = n, Len(r) = n,
           \A k \in 1 .. n : q[k] = r[k]
    PROVE  q = r
BY SeqEqual

\* Cells that go on with the prompt keep the row exact.
LEMMA ExactMore ==
    ASSUME NEW it \in Items, NEW pre, NEW h, NEW row, NEW ext,
           Exact(it, pre, h, row), More(it, pre, h, Len(row), ext)
    PROVE  Exact(it, pre, h, row \o ext)
<1>1. PICK n, m, P : /\ n \in Nat /\ n = Len(row) /\ m \in Nat /\ m = Len(ext)
                     /\ P \in Nat /\ P = PrefixLen /\ n >= P
  <2>1. row \in Seq(Cell) /\ ext \in Seq(Cell)
    BY DEF Exact, More
  <2>2. Len(row) \in Nat /\ Len(ext) \in Nat
    BY <2>1, LenProperties
  <2>3. PrefixLen \in Nat
    BY SizesOf
  <2>4. Len(row) \in PrefixLen .. Len(PromptOf(it))
    BY DEF Exact
  <2>5. Len(row) >= PrefixLen
    BY <2>2, <2>3, <2>4
  <2> QED
    BY <2>2, <2>3, <2>5
<1>2. PICK all : all = row \o ext
  OBVIOUS
<1>3. /\ all \in Seq(Cell) /\ Len(all) = n + m
      /\ \A k \in 1 .. n : all[k] = row[k]
      /\ \A j \in 1 .. m : all[n + j] = ext[j]
  <2>1. row \in Seq(Cell) /\ ext \in Seq(Cell)
    BY DEF Exact, More
  <2> QED
    BY <1>1, <1>2, <2>1, JoinIs
<1>4. PICK t, l : t = PromptOf(it) /\ l = Len(t) /\ l \in Nat
  <2>1. PromptOf(it) \in Seq(Token)
    BY PromptIs
  <2> QED
    BY <2>1, LenProperties
<1>5. n + m <= l
  BY <1>1, <1>4 DEF More
<1>6. ASSUME NEW k \in 1 .. n + m
      PROVE  /\ all[k].pos = k - 1 /\ all[k].tok = t[k]
             /\ all[k].seqs = IF k <= P THEN {kPrefixSeq, kTargetSeq} ELSE {kTargetSeq}
             /\ all[k].of = SubSeq(t, 1, k) <=> Clean(it, pre, h, k)
  <2>1. CASE k <= n
    <3>1. k \in 1 .. n
      BY <1>1, <2>1
    <3> QED
      BY <1>1, <1>3, <1>4, <3>1 DEF Exact
  <2>2. CASE ~ (k <= n)
    <3>1. PICK j : j \in 1 .. m /\ k = n + j /\ ~ (k <= P)
      <4>1. k - n \in 1 .. m /\ k = n + (k - n) /\ ~ (k <= P)
        BY <1>1, <2>2
      <4> QED
        BY <4>1
    <3>2. all[k] = ext[j]
      BY <1>3, <3>1
    <3>3. /\ ext[j].pos = n + j - 1 /\ ext[j].tok = t[n + j]
          /\ ext[j].seqs = {kTargetSeq}
          /\ ext[j].of = SubSeq(t, 1, n + j) <=> Clean(it, pre, h, n + j)
      BY <1>1, <1>4, <3>1 DEF More
    <3>4. /\ all[k].pos = k - 1 /\ all[k].tok = t[k] /\ all[k].seqs = {kTargetSeq}
          /\ all[k].of = SubSeq(t, 1, k) <=> Clean(it, pre, h, k)
      <4>1. k = n + j /\ ext[j] = all[k]
        BY <3>1, <3>2
      <4>0. n + j - 1 = k - 1
        <5>1. n \in Nat /\ j \in 1 .. m /\ k = n + j
          BY <1>1, <3>1
        <5> QED
          BY <5>1
      <4>2. all[k].pos = k - 1 /\ all[k].tok = t[k] /\ all[k].seqs = {kTargetSeq}
        BY Zenon, <3>3, <4>0, <4>1
      <4>3. all[k].of = SubSeq(t, 1, k) <=> Clean(it, pre, h, k)
        BY Zenon, <3>3, <4>1
      <4> QED
        BY Zenon, <4>2, <4>3
    <3>5. {kTargetSeq} = IF k <= P THEN {kPrefixSeq, kTargetSeq} ELSE {kTargetSeq}
      BY <3>1
    <3> QED
      BY Zenon, <3>4, <3>5
  <2> QED
    BY <2>1, <2>2
<1>7. n + m \in P .. l
  BY <1>1, <1>4, <1>5
<1> QED
  BY Zenon, <1>1, <1>2, <1>3, <1>4, <1>6, <1>7 DEF Exact

\* A chunk's foreign places are those behind its head, and only if it is foreign at all.
LEMMA ForeignPlaces ==
    ASSUME NEW it \in Items, NEW pre, NEW h, Heads(it, h), NEW i \in 1 .. Len(it.size)
    PROVE  LET B == BeforeOf(it)
           IN  /\ \A m \in ForeignOf(it, pre, h) :
                      m \in B[i] + 1 .. B[i + 1] => m > B[i] + h[i] /\ ~ (pre /\ i = 1)
               /\ ~ (pre /\ i = 1) =>
                      \A m \in B[i] + h[i] + 1 .. B[i + 1] : m \in ForeignOf(it, pre, h)
<1>1. PICK N, P : N \in Nat /\ N = Len(it.size) /\ DOMAIN it.size = 1 .. N /\ P \in Nat /\ P = PrefixLen
  BY SizesOf
<1>2. PICK z, B : z = it.size /\ B = BeforeOf(it)
  OBVIOUS
<1>3. ASSUME NEW j \in 1 .. N
      PROVE  /\ B[j] \in Nat /\ z[j] \in Nat /\ B[j + 1] = B[j] + z[j] /\ h[j] \in Nat /\ h[j] <= z[j]
  <2>1. j \in 1 .. Len(it.size) /\ j \in 1 .. N + 1
    BY <1>1
  <2>2. B[j] \in Nat /\ B[j + 1] = B[j] + z[j]
    BY <1>1, <1>2, <2>1, BeforeIs
  <2>3. z[j] \in Nat /\ h[j] \in 0 .. z[j]
    BY <1>2, <2>1, SizesOf DEF Heads
  <2> QED
    BY <2>2, <2>3
<1>4. i \in 1 .. N
  BY <1>1
<1>5. ASSUME NEW m \in ForeignOf(it, pre, h), m \in B[i] + 1 .. B[i + 1]
      PROVE  m > B[i] + h[i] /\ ~ (pre /\ i = 1)
  <2>1. PICK j : j \in 1 .. N /\ ~ (pre /\ j = 1) /\ m \in B[j] + h[j] + 1 .. B[j] + z[j]
    BY <1>1, <1>2 DEF ForeignOf
  <2>2. PICK b, n, g, c, d : /\ b = B[j] /\ n = z[j] /\ g = h[j] /\ c = B[i] /\ d = z[i]
                             /\ b \in Nat /\ n \in Nat /\ g \in Nat /\ c \in Nat /\ d \in Nat
                             /\ m \in b + g + 1 .. b + n /\ m \in c + 1 .. c + d
    <3>1. PICK b, n, g, c, d : b = B[j] /\ n = z[j] /\ g = h[j] /\ c = B[i] /\ d = z[i]
      OBVIOUS
    <3>2. b \in Nat /\ n \in Nat /\ g \in 0 .. n /\ c \in Nat /\ d \in Nat /\ B[i + 1] = c + d
      BY <1>3, <1>4, <2>1, <3>1
    <3>3. g \in Nat
      BY <3>2
    <3>4. m \in b + g + 1 .. b + n /\ m \in c + 1 .. c + d
      BY Zenon, <1>5, <2>1, <3>1, <3>2
    <3> QED
      BY <3>1, <3>2, <3>3, <3>4
  <2>0. /\ b \in Nat /\ n \in Nat /\ g \in Nat /\ c \in Nat /\ d \in Nat
        /\ m \in b + g + 1 .. b + n /\ m \in c + 1 .. c + d
    BY <2>2
  <2>3. i = j
    <3>1. CASE j < i
      <4>1. j \in 1 .. Len(it.size) /\ i \in j + 1 .. Len(it.size) + 1
        BY <1>1, <2>1, <3>1
      <4>2. b + n <= c
        BY <1>2, <2>2, <4>1, BeforeOrder
      <4> QED
        BY <2>0, <4>2
    <3>2. CASE i < j
      <4>1. i \in 1 .. Len(it.size) /\ j \in i + 1 .. Len(it.size) + 1
        BY <1>1, <2>1, <3>2
      <4>2. c + d <= b
        BY <1>2, <2>2, <4>1, BeforeOrder
      <4> QED
        BY <2>0, <4>2
    <3> QED
      BY <1>4, <2>1, <3>1, <3>2
  <2>4. m > c + h[i]
    BY <2>2, <2>3
  <2> QED
    BY <2>1, <2>2, <2>3, <2>4
<1>6. ASSUME ~ (pre /\ i = 1), NEW m \in B[i] + h[i] + 1 .. B[i + 1]
      PROVE  m \in ForeignOf(it, pre, h)
  <2>1. m \in B[i] + h[i] + 1 .. B[i] + z[i]
    BY <1>3, <1>4
  <2> QED
    BY <1>1, <1>2, <1>4, <1>6, <2>1 DEF ForeignOf
<1> QED
  BY <1>2, <1>5, <1>6

\* All of them are behind the prefix.
LEMMA ForeignBehind ==
    ASSUME NEW it \in Items, NEW pre, NEW h, Heads(it, h), NEW m \in ForeignOf(it, pre, h)
    PROVE  m \in Nat /\ m > PrefixLen /\ m <= BeforeOf(it)[Len(it.size) + 1]
<1>1. PICK N, P : N \in Nat /\ N = Len(it.size) /\ DOMAIN it.size = 1 .. N /\ P \in Nat /\ P = PrefixLen
  BY SizesOf
<1>2. PICK z, B : z = it.size /\ B = BeforeOf(it)
  OBVIOUS
<1>3. PICK j : j \in 1 .. N /\ m \in B[j] + h[j] + 1 .. B[j] + z[j]
  BY <1>1, <1>2 DEF ForeignOf
<1>4. j \in 1 .. Len(it.size) /\ j \in 1 .. N + 1 /\ N + 1 \in j + 1 .. Len(it.size) + 1
  <2>1. j \in 1 .. N + 1 /\ N + 1 \in j + 1 .. N + 1
    BY <1>1, <1>3
  <2> QED
    BY <1>1, <1>3, <2>1
<1>5. B[j] \in Nat /\ B[j] >= P /\ z[j] \in Nat /\ h[j] \in 0 .. z[j]
  BY <1>1, <1>2, <1>4, SizesOf, BeforeIs DEF Heads
<1>6. B[j] + z[j] <= B[N + 1] /\ B[N + 1] \in Nat
  <2>1. N + 1 \in 1 .. Len(it.size) + 1
    BY <1>1
  <2> QED
    BY <1>1, <1>2, <1>4, <2>1, BeforeOrder, BeforeIs
<1>7. PICK b, n, g, e : /\ b = B[j] /\ n = z[j] /\ g = h[j] /\ e = B[N + 1] /\ b \in Nat /\ n \in Nat
                        /\ g \in Nat /\ e \in Nat /\ m \in b + g + 1 .. b + n /\ b >= P /\ b + n <= e
  BY <1>3, <1>5, <1>6
<1>8. m \in Nat /\ m > P /\ m <= e
  <2>1. /\ b \in Nat /\ n \in Nat /\ g \in Nat /\ e \in Nat /\ P \in Nat
        /\ m \in b + g + 1 .. b + n /\ b >= P /\ b + n <= e
    BY <1>1, <1>7
  <2> QED
    BY <2>1
<1> QED
  BY <1>1, <1>2, <1>7, <1>8

\* Beginning, for a sequence with a name.
LEMMA FirstOf ==
    ASSUME NEW q \in Seq(Token), NEW n, n \in 0 .. Len(q), NEW v, v = SubSeq(q, 1, n)
    PROVE  v \in Seq(Token) /\ Len(v) = n /\ \A j \in 1 .. n : v[j] = q[j]
<1>1. /\ SubSeq(q, 1, n) \in Seq(Token) /\ Len(SubSeq(q, 1, n)) = n
      /\ \A k \in 1 .. n : SubSeq(q, 1, n)[k] = q[k]
  BY Beginning
<1> QED
  BY Zenon, <1>1

\* A beginning of the row is a beginning of the prompt.
LEMMA ExactTokens ==
    ASSUME NEW it \in Items, NEW pre, NEW h, NEW row, Exact(it, pre, h, row), NEW k \in 0 .. Len(row)
    PROVE  SubSeq(Toks(row), 1, k) = SubSeq(PromptOf(it), 1, k)
<1>1. PICK t : t = PromptOf(it) /\ t \in Seq(Token)
  BY PromptIs
<1>2. row \in Seq(Cell) /\ Len(row) <= Len(t) /\ \A j \in 1 .. Len(row) : row[j].tok = t[j]
  <2>1. row \in Seq(Cell) /\ Len(row) \in PrefixLen .. Len(t)
        /\ \A j \in 1 .. Len(row) : row[j].tok = t[j]
    BY <1>1 DEF Exact
  <2>2. Len(row) <= Len(t)
    BY <2>1
  <2> QED
    BY <2>1, <2>2
<1>3. PICK u, n : /\ u = Toks(row) /\ u \in Seq(Token) /\ n = Len(row) /\ n \in Nat /\ Len(u) = n
                  /\ \A j \in 1 .. n : u[j] = row[j].tok
  <2>1. Len(row) \in Nat
    BY <1>2, LenProperties
  <2> QED
    BY <1>2, <2>1, ToksIs
<1>4. \A j \in 1 .. n : u[j] = t[j]
  BY <1>2, <1>3
<1>5. k \in 0 .. n /\ k \in 0 .. Len(t)
  <2>1. Len(t) \in Nat
    BY <1>1, LenProperties
  <2>2. k \in 0 .. n /\ n <= Len(t)
    BY <1>2, <1>3
  <2> QED
    BY <1>3, <2>1, <2>2
<1>6. PICK a : /\ a = SubSeq(u, 1, k) /\ a \in Seq(Token) /\ Len(a) = k
               /\ \A j \in 1 .. k : a[j] = u[j]
  <2>1. k \in 0 .. Len(u)
    BY <1>3, <1>5
  <2>2. PICK a : a = SubSeq(u, 1, k)
    OBVIOUS
  <2>3. u \in Seq(Token)
    BY <1>3
  <2>4. a \in Seq(Token) /\ Len(a) = k /\ \A j \in 1 .. k : a[j] = u[j]
    BY <2>1, <2>2, <2>3, FirstOf
  <2> QED
    BY <2>2, <2>4
<1>7. PICK b : /\ b = SubSeq(t, 1, k) /\ b \in Seq(Token) /\ Len(b) = k
               /\ \A j \in 1 .. k : b[j] = t[j]
  BY <1>1, <1>5, Beginning
<1>8. \A j \in 1 .. k : a[j] = b[j]
  <2>1. TAKE j \in 1 .. k
  <2>2. j \in 1 .. n
    BY <1>3, <1>5
  <2> QED
    BY <1>4, <1>6, <1>7, <2>2
<1>9. a = b
  BY <1>6, <1>7, <1>8, SameTokens
<1> QED
  BY <1>1, <1>3, <1>6, <1>7, <1>9

\* The row was computed for its tokens exactly if nothing foreign is in it.
LEMMA PureClean ==
    ASSUME NEW it \in Items, NEW pre, NEW h, Heads(it, h), NEW row, Exact(it, pre, h, row)
    PROVE  Pure(row) <=> Clean(it, pre, h, Len(row))
<1>1. PICK n : n = Len(row) /\ n \in Nat /\ n >= 1 /\ DOMAIN row = 1 .. n
  <2>1. row \in Seq(Cell) /\ Len(row) \in PrefixLen .. Len(PromptOf(it))
    BY DEF Exact
  <2>2. Len(row) \in Nat /\ DOMAIN row = 1 .. Len(row)
    BY <2>1, LenProperties
  <2>3. PrefixLen \in Nat /\ PrefixLen >= 1
    BY SizesOf
  <2>4. Len(row) >= 1
    BY <2>1, <2>2, <2>3
  <2> QED
    BY <2>2, <2>4
<1>2. \A k \in 1 .. n : row[k].of = SubSeq(Toks(row), 1, k) <=> Clean(it, pre, h, k)
  <2>1. TAKE k \in 1 .. n
  <2>2. k \in 0 .. Len(row)
    BY <1>1
  <2>3. SubSeq(Toks(row), 1, k) = SubSeq(PromptOf(it), 1, k)
    BY <2>2, ExactTokens
  <2>4. row[k].of = SubSeq(PromptOf(it), 1, k) <=> Clean(it, pre, h, k)
    BY <1>1 DEF Exact
  <2> QED
    BY <2>3, <2>4
<1>3. ASSUME Clean(it, pre, h, n), NEW k \in 1 .. n
      PROVE  Clean(it, pre, h, k)
  <2>1. SUFFICES ASSUME NEW m \in ForeignOf(it, pre, h)
                 PROVE  m > k
    BY DEF Clean
  <2>2. m > n /\ m \in Nat
    BY <1>3, ForeignBehind DEF Clean
  <2> QED
    BY <1>1, <2>2
<1>4. Pure(row) <=> \A k \in 1 .. n : Clean(it, pre, h, k)
  BY <1>1, <1>2 DEF Pure
<1>5. n \in 1 .. n
  BY <1>1
<1> QED
  BY <1>1, <1>3, <1>4, <1>5

\* The m tokens of q are those of the prompt behind the n tokens of the row, none of them foreign.
Ahead(it, pre, h, row, q, n, m) ==
    /\ q \in Seq(Token) /\ n = Len(row) /\ m = Len(q) /\ n + m <= Len(PromptOf(it))
    /\ \A k \in 1 .. m : q[k] = PromptOf(it)[n + k]
    /\ \A x \in ForeignOf(it, pre, h) : x \notin n + 1 .. n + m

\* Decoding the next tokens of the prompt.
LEMMA ExactDecode ==
    ASSUME NEW it \in Items, NEW pre, NEW h, Heads(it, h), NEW row, Exact(it, pre, h, row),
           NEW q, NEW n, NEW m, Ahead(it, pre, h, row, q, n, m)
    PROVE  /\ Exact(it, pre, h, row \o Decoded(row, q, kTargetSeq))
           /\ Len(row \o Decoded(row, q, kTargetSeq)) = n + m
<1>0. /\ q \in Seq(Token) /\ n = Len(row) /\ m = Len(q) /\ n + m <= Len(PromptOf(it))
      /\ \A k \in 1 .. m : q[k] = PromptOf(it)[n + k]
      /\ \A x \in ForeignOf(it, pre, h) : x \notin n + 1 .. n + m
  BY DEF Ahead
<1> USE <1>0
<1>1. PICK t : t = PromptOf(it) /\ t \in Seq(Token)
  BY PromptIs
<1>2. row \in Seq(Cell) /\ n \in Nat /\ m \in Nat /\ kTargetSeq \in Sequences
  <2>1. row \in Seq(Cell)
    BY DEF Exact
  <2> QED
    BY <2>1, LenProperties DEF Sequences
<1>3. PICK ext : ext = Decoded(row, q, kTargetSeq)
  OBVIOUS
<1>4. /\ ext \in Seq(Cell) /\ Len(ext) = m
      /\ \A k \in 1 .. m :
             ext[k] = [pos |-> n + k - 1, tok |-> q[k], seqs |-> {kTargetSeq},
                       of |-> IF Pure(row) THEN Toks(row) \o SubSeq(q, 1, k) ELSE << >>]
  BY <1>2, <1>3, DecodedIs
<1>5. PICK l : l = Len(t) /\ l \in Nat /\ n + m <= l
  BY <1>1, LenProperties
<1>6. PICK u : u = Toks(row) /\ u \in Seq(Token) /\ Len(u) = n /\ \A j \in 1 .. n : u[j] = t[j]
  <2>1. \A j \in 1 .. n : row[j].tok = t[j]
    BY <1>1 DEF Exact
  <2> QED
    BY <1>2, <2>1, ToksIs
<1>7. ASSUME NEW k \in 1 .. m
      PROVE  u \o SubSeq(q, 1, k) = SubSeq(t, 1, n + k)
  <2>1. PICK v : v = SubSeq(q, 1, k) /\ v \in Seq(Token) /\ Len(v) = k /\ \A j \in 1 .. k : v[j] = q[j]
    <3>1. k \in 0 .. Len(q)
      BY <1>2
    <3>2. PICK v : v = SubSeq(q, 1, k)
      OBVIOUS
    <3>3. v \in Seq(Token) /\ Len(v) = k /\ \A j \in 1 .. k : v[j] = q[j]
      BY <3>1, <3>2, FirstOf
    <3> QED
      BY <3>2, <3>3
  <2>2. PICK a : /\ a = u \o v /\ a \in Seq(Token) /\ Len(a) = n + k
                 /\ \A j \in 1 .. n : a[j] = u[j]
                 /\ \A j \in 1 .. k : a[n + j] = v[j]
    <3>1. PICK a : a = u \o v
      OBVIOUS
    <3>2. u \in Seq(Token) /\ v \in Seq(Token) /\ n = Len(u) /\ k = Len(v)
      BY <1>6, <2>1
    <3>3. /\ a \in Seq(Token) /\ Len(a) = n + k
          /\ \A j \in 1 .. n : a[j] = u[j]
          /\ \A j \in 1 .. k : a[n + j] = v[j]
      BY <3>1, <3>2, JoinIs
    <3> QED
      BY <3>1, <3>3
  <2>3. PICK b : /\ b = SubSeq(t, 1, n + k) /\ b \in Seq(Token) /\ Len(b) = n + k
                 /\ \A j \in 1 .. n + k : b[j] = t[j]
    <3>1. n + k \in 0 .. l
      BY <1>2, <1>5
    <3>2. PICK b, e : b = SubSeq(t, 1, e) /\ e = n + k
      OBVIOUS
    <3>3. t \in Seq(Token) /\ e \in 0 .. Len(t)
      BY <1>1, <1>5, <3>1, <3>2
    <3>4. b \in Seq(Token) /\ Len(b) = e /\ \A j \in 1 .. e : b[j] = t[j]
      BY <3>2, <3>3, FirstOf
    <3>5. b = SubSeq(t, 1, n + k)
      BY Zenon, <3>2
    <3>6. Len(b) = n + k /\ \A j \in 1 .. n + k : b[j] = t[j]
      BY Zenon, <3>2, <3>4
    <3> QED
      BY Zenon, <3>4, <3>5, <3>6
  <2>4. ASSUME NEW j \in 1 .. n + k
        PROVE  a[j] = b[j]
    <3>1. CASE j <= n
      <4>1. j \in 1 .. n
        BY <1>2, <3>1
      <4> QED
        BY <1>6, <2>2, <2>3, <4>1
    <3>2. CASE ~ (j <= n)
      <4>1. PICK i : i \in 1 .. k /\ i \in 1 .. m /\ n + i = j
        <5>1. j - n \in 1 .. k /\ j - n \in 1 .. m /\ n + (j - n) = j
          BY <1>2, <3>2
        <5> QED
          BY <5>1
      <4>2. a[n + i] = v[i] /\ v[i] = q[i] /\ q[i] = t[n + i]
        BY <1>1, <2>1, <2>2, <4>1
      <4> QED
        BY <2>3, <4>1, <4>2
    <3> QED
      BY <3>1, <3>2
  <2>5. a = b
    BY <2>2, <2>3, <2>4, SameTokens
  <2> QED
    BY <2>1, <2>2, <2>3, <2>5
<1>8. Pure(row) <=> Clean(it, pre, h, n)
  BY PureClean
<1>9. ASSUME NEW k \in 1 .. m
      PROVE  Clean(it, pre, h, n + k) <=> Clean(it, pre, h, n)
  <2>1. ASSUME NEW x \in ForeignOf(it, pre, h)
        PROVE  x > n + k <=> x > n
    <3>1. x \in Nat /\ x \notin n + 1 .. n + m
      BY ForeignBehind
    <3> QED
      BY <1>2, <3>1
  <2> QED
    BY <2>1 DEF Clean
<1>10. ASSUME NEW k \in 1 .. m
       PROVE  ext[k].of = SubSeq(t, 1, n + k) <=> Clean(it, pre, h, n + k)
  <2>0. ext[k].of = IF Pure(row) THEN Toks(row) \o SubSeq(q, 1, k) ELSE << >>
    <3>1. PICK o : o = IF Pure(row) THEN Toks(row) \o SubSeq(q, 1, k) ELSE << >>
      OBVIOUS
    <3>2. ext[k] = [pos |-> n + k - 1, tok |-> q[k], seqs |-> {kTargetSeq}, of |-> o]
      BY Zenon, <1>4, <3>1
    <3> QED
      BY <3>1, <3>2
  <2>1. CASE Pure(row)
    <3>1. ext[k].of = u \o SubSeq(q, 1, k)
      BY <1>6, <2>0, <2>1
    <3> QED
      BY <1>7, <1>8, <1>9, <2>1, <3>1
  <2>2. CASE ~ Pure(row)
    <3>1. ext[k].of = << >>
      BY <2>0, <2>2
    <3>2. Len(SubSeq(t, 1, n + k)) = n + k
      <4>1. n + k \in 0 .. l
        BY <1>2, <1>5
      <4> QED
        BY <1>1, <1>5, <4>1, Beginning
    <3>3. n + k # 0 /\ Len(<< >>) = 0
      BY <1>2, EmptySeq
    <3>4. ext[k].of # SubSeq(t, 1, n + k)
      BY <3>1, <3>2, <3>3
    <3> QED
      BY <1>8, <1>9, <2>2, <3>4
  <2> QED
    BY <2>1, <2>2
<1>11. ASSUME NEW k \in 1 .. m
       PROVE  ext[k].pos = n + k - 1 /\ ext[k].tok = t[n + k] /\ ext[k].seqs = {kTargetSeq}
  <2>1. PICK o : o = IF Pure(row) THEN Toks(row) \o SubSeq(q, 1, k) ELSE << >>
    OBVIOUS
  <2>2. ext[k] = [pos |-> n + k - 1, tok |-> q[k], seqs |-> {kTargetSeq}, of |-> o]
    BY Zenon, <1>4, <2>1
  <2>3. q[k] = t[n + k]
    BY <1>1
  <2> QED
    BY <2>2, <2>3
<1>12. More(it, pre, h, n, ext)
  BY Zenon, <1>1, <1>4, <1>5, <1>10, <1>11 DEF More
<1>13. Exact(it, pre, h, row \o ext)
  BY <1>12, ExactMore
<1>14. Len(row \o ext) = n + m
  <2>1. row \in Seq(Cell) /\ ext \in Seq(Cell) /\ n = Len(row) /\ m = Len(ext)
    BY <1>2, <1>4
  <2> QED
    BY <2>1, JoinIs
<1> QED
  BY <1>3, <1>13, <1>14

\* What the cell of a chunk's token was computed for: the first chunk's, behind the prefix,
\* for the beginning of the prompt.
LEMMA ComputedFor ==
    ASSUME NEW it \in Items, NEW i \in 1 .. Len(it.size), NEW has \in BOOLEAN,
           NEW k \in 1 .. it.size[i], NEW o, UpTo(it, i, has, k, o)
    PROVE  /\ Len(o) = Start(has) + k
           /\ has /\ i = 1 => o = SubSeq(PromptOf(it), 1, PrefixLen + k)
<1>1. PICK P : P = PrefixLen /\ P \in Nat /\ P >= 1
  BY SizesOf
<1>2. PICK z : z = it.size[i] /\ z \in Nat
  BY SizesOf
<1>3. PICK v : v = SubSeq(Piece(it, i), 1, k)
  OBVIOUS
<1>4. v \in Seq(Token) /\ Len(v) = k /\ \A j \in 1 .. k : v[j] = Piece(it, i)[j]
  <2>1. Piece(it, i) \in Seq(Token) /\ k \in 0 .. Len(Piece(it, i))
    BY <1>2, PiecesAre
  <2> QED
    BY <1>3, <2>1, FirstOf
<1>5. PICK p, s : /\ p = (IF has THEN prefix ELSE << >>) /\ s = Start(has)
                  /\ p \in Seq(Token) /\ s = Len(p) /\ s \in Nat
  <2>1. {kPrefixSeq} \in (SUBSET Sequences) \ {{}}
    BY DEF Sequences
  <2>2. prefix \in Seq(Token) /\ Len(prefix) = P
    BY <1>1, <2>1, PrefixIs
  <2>3. << >> \in Seq(Token) /\ Len(<< >>) = 0
    BY EmptySeq
  <2>4. CASE has
    BY <1>1, <2>2, <2>4 DEF Start
  <2>5. CASE ~ has
    <3>1. 0 = Len(<< >>) /\ 0 \in Nat /\ << >> \in Seq(Token)
      BY <2>3
    <3>2. (IF has THEN prefix ELSE << >>) = << >> /\ Start(has) = 0
      BY <2>5 DEF Start
    <3> QED
      BY Zenon, <3>1, <3>2
  <2> QED
    BY <2>4, <2>5
<1>6. /\ o \in Seq(Token) /\ Len(o) = s + k
      /\ \A j \in 1 .. s : o[j] = p[j]
      /\ \A j \in 1 .. k : o[s + j] = v[j]
  <2>1. o = p \o v
    BY Zenon, <1>3, <1>5 DEF UpTo
  <2>2. p \in Seq(Token) /\ v \in Seq(Token) /\ s = Len(p) /\ k = Len(v)
    BY <1>4, <1>5
  <2> QED
    BY <2>1, <2>2, JoinIs
<1>7. ASSUME has, i = 1
      PROVE  o = SubSeq(PromptOf(it), 1, P + k)
  <2>1. PICK t, B, N : /\ t = PromptOf(it) /\ t \in Seq(Token) /\ B = BeforeOf(it)
                       /\ N = Len(it.size) /\ N \in Nat /\ N >= 1
    BY SizesOf, PromptIs
  <2>2. B[1] = P
    BY <1>1, <2>1, BeforeIs
  <2>3. p = prefix /\ s = P
    BY <1>1, <1>5, <1>7 DEF Start
  <2>4. \A j \in 1 .. P : t[j] = p[j]
    BY <1>1, <2>1, <2>3, PromptIs
  <2>5. \A j \in 1 .. k : t[P + j] = v[j]
    <3>1. TAKE j \in 1 .. k
    <3>2. j \in 1 .. it.size[1] /\ 1 \in 1 .. N
      BY <1>2, <1>7, <2>1
    <3>3. t[B[1] + j] = Piece(it, 1)[j]
      BY <2>1, <3>2, PromptIs
    <3> QED
      BY <1>4, <1>7, <2>2, <3>3
  <2>6. PICK e : e = P + k /\ e \in 0 .. Len(t)
    <3>1. Len(t) = B[N + 1] + SuffixLen /\ SuffixLen \in Nat
      BY <2>1, PromptIs, SizesOf
    <3>2. B[1] + z <= B[N + 1] /\ B[N + 1] \in Nat
      <4>1. 1 \in 1 .. Len(it.size) /\ N + 1 \in 1 + 1 .. Len(it.size) + 1
            /\ N + 1 \in 1 .. Len(it.size) + 1
        BY <2>1
      <4> QED
        BY <1>2, <1>7, <2>1, <4>1, BeforeOrder, BeforeIs
    <3>3. PICK b, l, f : /\ b = B[N + 1] /\ l = Len(t) /\ f = SuffixLen /\ b \in Nat /\ f \in Nat
                         /\ l = b + f /\ P + z <= b /\ k \in 1 .. z
      BY <1>2, <2>2, <3>1, <3>2
    <3>4. P + k \in 0 .. l
      <4>1. /\ b \in Nat /\ f \in Nat /\ l = b + f /\ P + z <= b /\ k \in 1 .. z /\ z \in Nat /\ P \in Nat
        BY <1>1, <1>2, <3>3
      <4> QED
        BY <4>1
    <3> QED
      BY <3>3, <3>4
  <2>7. PICK b : b = SubSeq(t, 1, e)
    OBVIOUS
  <2>8. b \in Seq(Token) /\ Len(b) = e /\ \A j \in 1 .. e : b[j] = t[j]
    BY <2>1, <2>6, <2>7, FirstOf
  <2>9. ASSUME NEW j \in 1 .. e
        PROVE  o[j] = b[j]
    <3>1. CASE j <= P
      <4>1. j \in 1 .. P
        BY <1>1, <2>6, <3>1
      <4> QED
        BY <1>6, <2>3, <2>4, <2>8, <4>1
    <3>2. CASE ~ (j <= P)
      <4>1. PICK x : x \in 1 .. k /\ P + x = j
        <5>1. j - P \in 1 .. k /\ P + (j - P) = j
          BY <1>1, <1>2, <2>6, <3>2
        <5> QED
          BY <5>1
      <4>2. o[P + x] = v[x] /\ t[P + x] = v[x]
        BY <1>6, <2>3, <2>5, <4>1
      <4> QED
        BY <2>8, <4>1, <4>2
    <3> QED
      BY <3>1, <3>2
  <2>10. Len(o) = e
    BY <1>6, <2>3, <2>6
  <2>11. o = b
    BY <1>6, <2>8, <2>9, <2>10, SameTokens
  <2> QED
    BY <2>1, <2>6, <2>7, <2>11
<1> QED
  BY <1>1, <1>5, <1>6, <1>7

\* The row ends behind the head, n tokens, of the i-th chunk, z tokens, which begins after b.
AtTail(it, h, row, i, z, n, b) ==
    /\ i \in 1 .. Len(it.size) /\ z = it.size[i] /\ n = h[i] /\ n < z
    /\ b = BeforeOf(it)[i] /\ Len(row) = b + n

TailCells(blob, has, b, n, z, ext) ==
    /\ ext \in Seq(Cell) /\ Len(ext) = z - n
    /\ \A j \in 1 .. z - n :
           ext[j] = [pos |-> b + n + j - 1, tok |-> blob.data[Start(has) + n + j].tok,
                     seqs |-> {kTargetSeq}, of |-> blob.data[Start(has) + n + j].of]

\* AttachLayout, for cells with a name.
LEMMA AttachedTail ==
    ASSUME NEW c, NEW S, NEW row, Layout(c, S, kTargetSeq, row), NEW has \in BOOLEAN, NEW blob,
           NEW z, IsBlob(blob, has, z), NEW n \in 0 .. z - 1,
           NEW b \in Nat, b >= Start(has), Len(row) = b + n,
           NEW ext, ext = AttachedRow(blob, has, n, z, b)
    PROVE  /\ Layout(attach_tail(c, blob, has, n, b), S, kTargetSeq, row \o ext)
           /\ TailCells(blob, has, b, n, z, ext)
  BY AttachLayout DEF TailCells

\* The cached cells of a chunk, moved to its place behind the head.
LEMMA ExactAttach ==
    ASSUME NEW it \in Items, NEW pre \in BOOLEAN, NEW h, Heads(it, h), NEW row,
           Exact(it, pre, h, row), NEW i, NEW blob, BlobOf(blob, pre, it, i),
           NEW z, NEW n, NEW b, AtTail(it, h, row, i, z, n, b),
           NEW ext, TailCells(blob, pre, b, n, z, ext)
    PROVE  Exact(it, pre, h, row \o ext) /\ Len(row \o ext) = BeforeOf(it)[i + 1]
<1>1. PICK t, B, N, P : /\ t = PromptOf(it) /\ t \in Seq(Token) /\ B = BeforeOf(it)
                        /\ N = Len(it.size) /\ N \in Nat /\ P = PrefixLen /\ P \in Nat /\ P >= 1
                        /\ i \in 1 .. N
  BY SizesOf, PromptIs DEF AtTail
<1>2. z \in Nat /\ n \in Nat /\ b \in Nat /\ b >= P /\ n < z /\ B[i + 1] = b + z
  <2>1. i \in 1 .. N + 1
    BY <1>1
  <2>2. z \in Nat /\ n \in 0 .. z
    BY SizesOf DEF Heads, AtTail
  <2>3. b \in Nat /\ b >= P /\ B[i + 1] = b + z
    BY <1>1, <2>1, BeforeIs DEF AtTail
  <2> QED
    BY <2>2, <2>3 DEF AtTail
<1>0. i \in 1 .. Len(it.size) /\ b = B[i] /\ z = it.size[i] /\ n = h[i]
  BY <1>1 DEF AtTail
<1>3. b + z <= Len(t) /\ Len(t) \in Nat
  <2>1. Len(t) = B[N + 1] + SuffixLen /\ SuffixLen \in Nat
    BY <1>1, PromptIs, SizesOf
  <2>2. b + z <= B[N + 1] /\ B[N + 1] \in Nat
    <3>1. N + 1 \in i + 1 .. Len(it.size) + 1 /\ N + 1 \in 1 .. Len(it.size) + 1
      BY <1>1
    <3> QED
      BY <1>0, <1>1, <3>1, BeforeOrder, BeforeIs
  <2>3. PICK l, f, x : /\ l = Len(t) /\ f = SuffixLen /\ x = B[N + 1] /\ f \in Nat /\ x \in Nat
                       /\ l = x + f /\ b + z <= x
    BY <2>1, <2>2
  <2>4. l \in Nat /\ b + z <= l
    <3>1. f \in Nat /\ x \in Nat /\ l = x + f /\ b + z <= x /\ b \in Nat /\ z \in Nat
      BY <1>2, <2>3
    <3> QED
      BY <3>1
  <2> QED
    BY <2>3, <2>4
<1>4. Start(pre) < b \/ (pre /\ i = 1 /\ b = P /\ Start(pre) = P)
  <2>1. CASE ~ pre
    BY <1>1, <1>2, <2>1 DEF Start
  <2>2. CASE pre /\ i = 1
    BY <1>0, <1>1, <2>2, BeforeIs DEF Start
  <2>3. CASE pre /\ i # 1
    <3>1. PICK y : y = it.size[1] /\ y \in Nat /\ y >= 1
      BY <1>1, SizesOf
    <3>2. 1 \in 1 .. Len(it.size) /\ i \in 1 + 1 .. Len(it.size) + 1
      BY <1>1, <2>3
    <3>3. P + y <= b
      <4>1. B[1] = P
        BY <1>1, BeforeIs
      <4>2. B[1] + it.size[1] <= B[i]
        BY <1>1, <3>2, BeforeOrder
      <4> QED
        BY <1>0, <1>1, <3>1, <4>1, <4>2
    <3>4. P < b
      BY <1>1, <1>2, <3>1, <3>3
    <3> QED
      BY <1>1, <2>3, <3>4 DEF Start
  <2> QED
    BY <2>1, <2>2, <2>3
<1>5. ASSUME NEW j \in 1 .. z - n
      PROVE  /\ ext[j].pos = b + n + j - 1 /\ ext[j].tok = t[b + n + j]
             /\ ext[j].seqs = {kTargetSeq}
             /\ ext[j].of = SubSeq(t, 1, b + n + j) <=> Clean(it, pre, h, b + n + j)
  <2>1. PICK k : k = n + j /\ k \in 1 .. z
    BY <1>2
  <2>2. PICK x, o : x = blob.data[Start(pre) + n + j].tok /\ o = blob.data[Start(pre) + n + j].of
    OBVIOUS
  <2>3. ext[j] = [pos |-> b + n + j - 1, tok |-> x, seqs |-> {kTargetSeq}, of |-> o]
    BY Zenon, <2>2 DEF TailCells
  <2>4. /\ x = Piece(it, i)[k]
        /\ UpTo(it, i, pre, k, o)
    <3>1. PICK s : s = Start(pre) /\ s \in Nat
      BY <1>1 DEF Start
    <3>2. s + n + j = s + k
      <4>1. s \in Nat /\ n \in Nat /\ j \in 1 .. z - n /\ k = n + j
        BY <1>2, <2>1, <3>1
      <4> QED
        BY <4>1
    <3>3. k \in 1 .. it.size[i]
      BY <1>0, <2>1
    <3>4. /\ blob.data[s + k].tok = Piece(it, i)[k]
          /\ UpTo(it, i, pre, k, blob.data[s + k].of)
      BY <3>1, <3>3 DEF BlobOf
    <3> QED
      BY Zenon, <2>2, <3>1, <3>2, <3>4
  <2>5. PICK e : e = b + n + j /\ e = b + k
    BY <1>2, <2>1
  <2>6. x = t[e]
    <3>1. k \in 1 .. it.size[i]
      BY <1>0, <2>1
    <3>2. t[B[i] + k] = Piece(it, i)[k]
      BY <1>0, <1>1, <3>1, PromptIs
    <3>3. t[B[i] + k] = t[e]
      BY <1>0, <2>5
    <3> QED
      BY Zenon, <2>4, <3>2, <3>3
  <2>7. Len(o) = Start(pre) + k /\ (pre /\ i = 1 => o = SubSeq(t, 1, P + k))
    <3>1. i \in 1 .. Len(it.size) /\ k \in 1 .. it.size[i]
      BY <1>0, <2>1
    <3>2. pre \in BOOLEAN /\ UpTo(it, i, pre, k, o)
      BY <2>4
    <3>3. Len(o) = Start(pre) + k /\ (pre /\ i = 1 => o = SubSeq(PromptOf(it), 1, PrefixLen + k))
      BY <3>1, <3>2, ComputedFor
    <3> QED
      BY <1>1, <3>3
  <2>8. o = SubSeq(t, 1, e) <=> Clean(it, pre, h, e)
    <3>1. CASE pre /\ i = 1
      <4>1. o = SubSeq(t, 1, e)
        <5>1. b = P
          BY <1>0, <1>1, <3>1, BeforeIs
        <5>2. e = P + k
          BY <2>5, <5>1
        <5> QED
          BY <2>7, <3>1, <5>2
      <4>2. ASSUME NEW m \in ForeignOf(it, pre, h)
            PROVE  m > e
        <5>1. m \in Nat /\ m > P
          BY <1>1, ForeignBehind
        <5>2. m \notin B[i] + 1 .. B[i + 1]
          BY <1>0, <1>1, <3>1, ForeignPlaces
        <5>3. B[i] = P /\ B[i + 1] = b + z /\ b = P
          BY <1>0, <1>1, <1>2, <3>1, BeforeIs
        <5>4. m \notin P + 1 .. P + z
          BY <5>2, <5>3
        <5>5. e = P + k
          BY <2>5, <5>3
        <5>6. /\ m \in Nat /\ m > P /\ m \notin P + 1 .. P + z /\ P \in Nat /\ z \in Nat
              /\ k \in 1 .. z /\ e = P + k
          BY <1>1, <1>2, <2>1, <5>1, <5>4, <5>5
        <5> QED
          BY <5>6
      <4> QED
        BY <4>1, <4>2 DEF Clean
    <3>2. CASE ~ (pre /\ i = 1)
      <4>1. e \in ForeignOf(it, pre, h)
        <5>1. e \in B[i] + h[i] + 1 .. B[i + 1]
          <6>1. e \in b + n + 1 .. b + z
            <7>1. /\ b \in Nat /\ n \in Nat /\ z \in Nat /\ j \in 1 .. z - n /\ n < z
                  /\ e = b + n + j
              BY <1>2, <2>5
            <7> QED
              BY <7>1
          <6> QED
            BY <1>0, <1>2, <6>1
        <5> QED
          BY <1>0, <1>1, <3>2, <5>1, ForeignPlaces
      <4>2. ~ Clean(it, pre, h, e)
        <5>1. ~ (e > e)
          BY <1>2, <2>1, <2>5
        <5> QED
          BY <4>1, <5>1 DEF Clean
      <4>3. Len(SubSeq(t, 1, e)) = e
        <5>1. e \in 0 .. Len(t)
          <6>1. PICK l : l = Len(t) /\ l \in Nat /\ b + z <= l
            BY <1>3
          <6>2. /\ l \in Nat /\ b + z <= l /\ b \in Nat /\ z \in Nat /\ k \in 1 .. z
                /\ e = b + k
            BY <1>2, <2>1, <2>5, <6>1
          <6> QED
            BY <6>1, <6>2
        <5> QED
          BY <1>1, <5>1, FirstOf
      <4>4. Start(pre) + k # e
        <5>1. PICK s : s = Start(pre) /\ s \in Nat /\ s < b
          BY <1>1, <1>4, <3>2 DEF Start
        <5>2. s + k # b + k
          BY <1>2, <2>1, <5>1
        <5> QED
          BY <2>5, <5>1, <5>2
      <4> QED
        BY <2>7, <4>2, <4>3, <4>4
    <3> QED
      BY <3>1, <3>2
  <2>9. ext[j].pos = b + n + j - 1 /\ ext[j].tok = x /\ ext[j].seqs = {kTargetSeq} /\ ext[j].of = o
    BY <2>3
  <2> QED
    BY Zenon, <2>5, <2>6, <2>8, <2>9
<1>6. PICK c : c = b + n /\ c = Len(row) /\ c + (z - n) = b + z
  <2>1. b + n + (z - n) = b + z
    BY <1>2
  <2>2. b + n = Len(row)
    BY DEF AtTail
  <2> QED
    BY <2>1, <2>2
<1>10. ext \in Seq(Cell) /\ Len(ext) = z - n
  BY DEF TailCells
<1>7. More(it, pre, h, c, ext)
  <2>1. c + Len(ext) <= Len(PromptOf(it))
    BY <1>1, <1>3, <1>6, <1>10
  <2>2. ASSUME NEW j \in 1 .. Len(ext)
        PROVE  /\ ext[j].pos = c + j - 1 /\ ext[j].tok = PromptOf(it)[c + j]
               /\ ext[j].seqs = {kTargetSeq}
               /\ ext[j].of = SubSeq(PromptOf(it), 1, c + j) <=> Clean(it, pre, h, c + j)
    <3>1. j \in 1 .. z - n
      BY <1>10
    <3>2. c + j = b + n + j /\ c + j - 1 = b + n + j - 1
      BY <1>2, <1>6, <3>1
    <3> QED
      BY Zenon, <1>1, <1>5, <3>1, <3>2
  <2> QED
    BY <1>10, <2>1, <2>2 DEF More
<1>8. Exact(it, pre, h, row \o ext)
  BY <1>6, <1>7, ExactMore
<1>9. Len(row \o ext) = b + z
  <2>1. row \in Seq(Cell) /\ ext \in Seq(Cell) /\ c = Len(row) /\ z - n = Len(ext)
    BY <1>6, <1>10 DEF Exact
  <2>2. Len(row \o ext) = c + (z - n)
    BY <2>1, JoinIs
  <2> QED
    BY <1>6, <2>2
<1> QED
  BY <1>1, <1>2, <1>8, <1>9

\* At first the target shares the prefix.
LEMMA ExactPrefix ==
    ASSUME NEW it \in Items, NEW pre, NEW h, Heads(it, h)
    PROVE  /\ Exact(it, pre, h, PrefixRow({kPrefixSeq, kTargetSeq}))
           /\ Len(PrefixRow({kPrefixSeq, kTargetSeq})) = BeforeOf(it)[1]
<1>1. PICK t, B, N, P : /\ t = PromptOf(it) /\ t \in Seq(Token) /\ B = BeforeOf(it)
                        /\ N = Len(it.size) /\ N \in Nat /\ P = PrefixLen /\ P \in Nat /\ P >= 1
  BY SizesOf, PromptIs
<1>2. PICK S : S = {kPrefixSeq, kTargetSeq} /\ S \in (SUBSET Sequences) \ {{}}
  BY DEF Sequences
<1>3. PICK p, row : /\ p = prefix /\ row = PrefixRow(S) /\ row \in Seq(Cell) /\ Len(row) = P
                    /\ p \in Seq(Token) /\ Len(p) = P
                    /\ \A k \in 1 .. P : row[k] = [pos |-> k - 1, tok |-> p[k], seqs |-> S,
                                                   of |-> SubSeq(p, 1, k)]
  <2>1. PICK p, row : p = prefix /\ row = PrefixRow(S)
    OBVIOUS
  <2>2. S \in (SUBSET Sequences) \ {{}}
    BY <1>2
  <2>3. /\ PrefixRow(S) \in Seq(Cell) /\ Len(PrefixRow(S)) = PrefixLen
        /\ prefix \in Seq(Token) /\ Len(prefix) = PrefixLen
        /\ \A k \in 1 .. PrefixLen :
               PrefixRow(S)[k] = [pos |-> k - 1, tok |-> prefix[k], seqs |-> S,
                                  of |-> SubSeq(prefix, 1, k)]
    BY <2>2, PrefixIs
  <2> QED
    BY Zenon, <1>1, <2>1, <2>3
<1>4. \A k \in 1 .. P : t[k] = p[k]
  BY <1>1, <1>3, PromptIs
<1>5. P <= Len(t) /\ Len(t) \in Nat
  <2>1. Len(t) = B[N + 1] + SuffixLen /\ SuffixLen \in Nat
    BY <1>1, PromptIs, SizesOf
  <2>2. B[N + 1] \in Nat /\ B[N + 1] >= P
    <3>1. N + 1 \in 1 .. Len(it.size) + 1
      BY <1>1
    <3> QED
      BY <1>1, <3>1, BeforeIs
  <2> QED
    BY <1>1, <2>1, <2>2
<1>6. ASSUME NEW k \in 1 .. P
      PROVE  /\ row[k].pos = k - 1 /\ row[k].tok = t[k]
             /\ row[k].seqs = IF k <= P THEN S ELSE {kTargetSeq}
             /\ row[k].of = SubSeq(t, 1, k) <=> Clean(it, pre, h, k)
  <2>1. PICK a : a = SubSeq(p, 1, k)
    OBVIOUS
  <2>2. row[k] = [pos |-> k - 1, tok |-> p[k], seqs |-> S, of |-> a]
    BY Zenon, <1>3, <2>1
  <2>3. a = SubSeq(t, 1, k)
    <3>1. PICK b : b = SubSeq(t, 1, k)
      OBVIOUS
    <3>2. k \in 0 .. Len(p) /\ k \in 0 .. Len(t)
      BY <1>1, <1>3, <1>5
    <3>3. p \in Seq(Token) /\ t \in Seq(Token)
      BY <1>1, <1>3
    <3>4. a \in Seq(Token) /\ Len(a) = k /\ \A j \in 1 .. k : a[j] = p[j]
      BY <2>1, <3>2, <3>3, FirstOf
    <3>5. b \in Seq(Token) /\ Len(b) = k /\ \A j \in 1 .. k : b[j] = t[j]
      BY <3>1, <3>2, <3>3, FirstOf
    <3>6. \A j \in 1 .. k : a[j] = b[j]
      <4>1. TAKE j \in 1 .. k
      <4>2. j \in 1 .. P
        BY <1>1
      <4> QED
        BY <1>4, <3>4, <3>5, <4>2
    <3> QED
      BY <3>1, <3>4, <3>5, <3>6, SameTokens
  <2>4. Clean(it, pre, h, k)
    <3>1. ASSUME NEW m \in ForeignOf(it, pre, h)
          PROVE  m > k
      <4>1. m \in Nat /\ m > P
        BY <1>1, ForeignBehind
      <4> QED
        BY <1>1, <4>1
    <3> QED
      BY <3>1 DEF Clean
  <2>5. row[k].pos = k - 1 /\ row[k].tok = p[k] /\ row[k].seqs = S /\ row[k].of = a
    BY <2>2
  <2>6. k <= P
    BY <1>1
  <2>7. S = IF k <= P THEN S ELSE {kTargetSeq}
    BY <2>6
  <2>8. p[k] = t[k]
    BY <1>4
  <2>9. row[k].pos = k - 1 /\ row[k].tok = t[k] /\ row[k].seqs = IF k <= P THEN S ELSE {kTargetSeq}
    BY Zenon, <2>5, <2>7, <2>8
  <2>10. row[k].of = SubSeq(t, 1, k) <=> Clean(it, pre, h, k)
    BY Zenon, <2>3, <2>4, <2>5
  <2> QED
    BY Zenon, <2>9, <2>10
<1>7. Len(row) \in P .. Len(t)
  BY <1>1, <1>3, <1>5
<1>8. B[1] = P
  BY <1>1, BeforeIs
<1>9. Exact(it, pre, h, row)
  <2>1. ASSUME NEW k \in 1 .. Len(row)
        PROVE  /\ row[k].pos = k - 1 /\ row[k].tok = PromptOf(it)[k]
               /\ row[k].seqs = IF k <= PrefixLen THEN {kPrefixSeq, kTargetSeq} ELSE {kTargetSeq}
               /\ row[k].of = SubSeq(PromptOf(it), 1, k) <=> Clean(it, pre, h, k)
    <3>1. k \in 1 .. P
      BY <1>3
    <3>2. /\ row[k].pos = k - 1 /\ row[k].tok = t[k]
          /\ row[k].of = SubSeq(t, 1, k) <=> Clean(it, pre, h, k)
      BY Zenon, <1>6, <3>1
    <3>3. row[k].seqs = IF k <= P THEN S ELSE {kTargetSeq}
      BY Zenon, <1>6, <3>1
    <3>4. t = PromptOf(it) /\ P = PrefixLen /\ S = {kPrefixSeq, kTargetSeq}
      BY <1>1, <1>2
    <3>5. row[k].seqs = IF k <= PrefixLen THEN {kPrefixSeq, kTargetSeq} ELSE {kTargetSeq}
      BY Zenon, <3>3, <3>4
    <3> QED
      BY Zenon, <3>2, <3>4, <3>5
  <2>2. row \in Seq(Cell) /\ Len(row) \in PrefixLen .. Len(PromptOf(it))
    BY Zenon, <1>1, <1>3, <1>7
  <2> QED
    BY Zenon, <2>1, <2>2 DEF Exact
<1> QED
  BY <1>1, <1>2, <1>3, <1>8, <1>9

\* Nothing is foreign when every chunk is computed anew.
LEMMA ForeignNone ==
    ASSUME NEW it \in Items, NEW pre, NEW h, \A i \in 1 .. Len(it.size) : h[i] = it.size[i]
    PROVE  ForeignOf(it, pre, h) = {}
<1>1. SUFFICES ASSUME NEW m \in ForeignOf(it, pre, h)
               PROVE  FALSE
  OBVIOUS
<1>2. PICK N : N \in Nat /\ N = Len(it.size) /\ DOMAIN it.size = 1 .. N
  BY SizesOf
<1>3. PICK i : i \in 1 .. N /\ m \in BeforeOf(it)[i] + h[i] + 1 .. BeforeOf(it)[i] + it.size[i]
  BY <1>2 DEF ForeignOf
<1>4. PICK b, n : /\ b = BeforeOf(it)[i] /\ n = h[i] /\ n = it.size[i] /\ b \in Nat /\ n \in Nat
  <2>1. i \in 1 .. Len(it.size) /\ i \in 1 .. Len(it.size) + 1
    BY <1>2, <1>3
  <2> QED
    BY <2>1, SizesOf, BeforeIs
<1>5. m \in b + n + 1 .. b + n
  BY <1>3, <1>4
<1> QED
  BY <1>4, <1>5

\* Without foreign cells the target holds what a full computation yields.
LEMMA ExactFull ==
    ASSUME NEW it \in Items, NEW pre, NEW h, NEW row, Exact(it, pre, h, row),
           ForeignOf(it, pre, h) = {}, Len(row) = Len(PromptOf(it))
    PROVE  row = FullRow(it)
<1>1. PICK t, n : t = PromptOf(it) /\ t \in Seq(Token) /\ n = Len(t) /\ n = Len(row)
  BY PromptIs
<1>2. row \in Seq(Cell)
  BY DEF Exact
<1>3. PICK S : S = [k \in 1 .. n |-> IF k <= PrefixLen THEN {kPrefixSeq, kTargetSeq} ELSE {kTargetSeq}]
  OBVIOUS
<1>4. ASSUME NEW k \in 1 .. n
      PROVE  row[k] = [pos |-> k - 1, tok |-> t[k], seqs |-> S[k], of |-> SubSeq(t, 1, k)]
  <2>1. PICK c \in Cell : c = row[k]
    BY <1>1, <1>2, ElementOfSeq
  <2>2. Clean(it, pre, h, k)
    BY DEF Clean
  <2>3. /\ c.pos = k - 1 /\ c.tok = t[k] /\ c.of = SubSeq(t, 1, k)
        /\ c.seqs = IF k <= PrefixLen THEN {kPrefixSeq, kTargetSeq} ELSE {kTargetSeq}
    BY <1>1, <2>1, <2>2 DEF Exact
  <2>4. c.seqs = S[k]
    BY <1>3, <2>3
  <2>5. c = [pos |-> c.pos, tok |-> c.tok, seqs |-> c.seqs, of |-> c.of]
    BY <2>1 DEF Cell
  <2> QED
    BY Zenon, <2>1, <2>3, <2>4, <2>5
<1>5. row = [k \in 1 .. n |-> row[k]]
  BY <1>1, <1>2, LenProperties
<1>6. PICK F : F = FullRow(it)
  OBVIOUS
<1>7. F = [k \in 1 .. n |-> F[k]]
  BY <1>1, <1>6 DEF FullRow
<1>8. ASSUME NEW k \in 1 .. n
      PROVE  F[k] = [pos |-> k - 1, tok |-> t[k], seqs |-> S[k], of |-> SubSeq(t, 1, k)]
  <2>1. F[k] = [pos |-> k - 1, tok |-> t[k],
                seqs |-> IF k <= PrefixLen THEN {kPrefixSeq, kTargetSeq} ELSE {kTargetSeq},
                of |-> SubSeq(t, 1, k)]
    BY <1>1, <1>6 DEF FullRow
  <2>2. S[k] = IF k <= PrefixLen THEN {kPrefixSeq, kTargetSeq} ELSE {kTargetSeq}
    BY <1>3
  <2> QED
    BY Zenon, <2>1, <2>2
<1>9. \A k \in 1 .. n : row[k] = F[k]
  BY <1>4, <1>8
<1> QED
  BY Zenon, <1>5, <1>6, <1>7, <1>9

\* What the scratch sequence holds when a chunk is decoded: the prefix or nothing.
StartRow(has, row) ==
    /\ row \in Seq(Cell) /\ Len(row) = Start(has) /\ Pure(row)
    /\ Toks(row) = IF has THEN prefix ELSE << >>
    /\ \A k \in 1 .. Len(row) : row[k].pos = k - 1

\* The prefix that the scratch sequence shares, and no cells, are such rows.
LEMMA StartRows ==
    /\ StartRow(TRUE, PrefixRow({kPrefixSeq, kScratchSeq}))
    /\ StartRow(FALSE, << >>)
<1>1. StartRow(TRUE, PrefixRow({kPrefixSeq, kScratchSeq}))
  <2>1. PICK S : S = {kPrefixSeq, kScratchSeq} /\ S \in (SUBSET Sequences) \ {{}}
    BY DEF Sequences
  <2>2. PICK row, P : row = PrefixRow(S) /\ P = PrefixLen
    OBVIOUS
  <2>3. /\ row \in Seq(Cell) /\ Len(row) = P /\ Toks(row) = prefix /\ Pure(row)
        /\ \A k \in 1 .. P : row[k] = [pos |-> k - 1, tok |-> prefix[k], seqs |-> S,
                                       of |-> SubSeq(prefix, 1, k)]
    <3>1. S \in (SUBSET Sequences) \ {{}}
      BY <2>1
    <3>2. /\ PrefixRow(S) \in Seq(Cell) /\ Len(PrefixRow(S)) = PrefixLen
          /\ Toks(PrefixRow(S)) = prefix /\ Pure(PrefixRow(S))
          /\ \A k \in 1 .. PrefixLen :
                 PrefixRow(S)[k] = [pos |-> k - 1, tok |-> prefix[k], seqs |-> S,
                                    of |-> SubSeq(prefix, 1, k)]
      BY <3>1, PrefixIs
    <3> QED
      BY Zenon, <2>2, <3>2
  <2>4. \A k \in 1 .. P : row[k].pos = k - 1
    <3>1. TAKE k \in 1 .. P
    <3>2. PICK a, b : a = prefix[k] /\ b = SubSeq(prefix, 1, k)
      OBVIOUS
    <3>3. row[k] = [pos |-> k - 1, tok |-> a, seqs |-> S, of |-> b]
      BY Zenon, <2>3, <3>2
    <3> QED
      BY <3>3
  <2> QED
    BY <2>1, <2>2, <2>3, <2>4 DEF StartRow, Start
<1>2. StartRow(FALSE, << >>)
  <2>1. << >> \in Seq(Cell) /\ Len(<< >>) = 0
    BY EmptySeq
  <2>2. DOMAIN << >> = {}
    OBVIOUS
  <2>3. Toks(<< >>) = << >> /\ Pure(<< >>)
    BY <2>2 DEF Toks, Pure
  <2> QED
    BY <2>1, <2>3 DEF StartRow, Start
<1> QED
  BY <1>1, <1>2

\* The snapshot of a chunk decoded behind such a row.
LEMMA DecodedBlob ==
    ASSUME NEW it \in Items, NEW i \in 1 .. Len(it.size), NEW has \in BOOLEAN, NEW row,
           StartRow(has, row), NEW blob,
           blob = [data |-> row \o Decoded(row, Piece(it, i), kScratchSeq), token_count |-> it.size[i]]
    PROVE  BlobOf(blob, has, it, i)
<1>1. PICK q, m : /\ q = Piece(it, i) /\ m = it.size[i] /\ q \in Seq(Token) /\ Len(q) = m /\ m \in Nat
  BY SizesOf, PiecesAre
<1>2. PICK s : s = Start(has) /\ s \in Nat /\ Len(row) = s
  BY SizesOf DEF Start, StartRow
<1>3. PICK ext : ext = Decoded(row, q, kScratchSeq)
  OBVIOUS
<1>4. row \in Seq(Cell) /\ Pure(row) /\ \A k \in 1 .. s : row[k].pos = k - 1
  BY <1>2 DEF StartRow
<1>5. /\ ext \in Seq(Cell) /\ Len(ext) = m
      /\ \A k \in 1 .. m :
             ext[k] = [pos |-> s + k - 1, tok |-> q[k], seqs |-> {kScratchSeq},
                       of |-> IF Pure(row) THEN Toks(row) \o SubSeq(q, 1, k) ELSE << >>]
  <2>1. kScratchSeq \in Sequences
    BY DEF Sequences
  <2>2. row \in Seq(Cell) /\ q \in Seq(Token)
    BY <1>1, <1>4
  <2>3. /\ Decoded(row, q, kScratchSeq) \in Seq(Cell) /\ Len(Decoded(row, q, kScratchSeq)) = Len(q)
        /\ \A k \in 1 .. Len(q) :
             Decoded(row, q, kScratchSeq)[k] =
                      [pos |-> Len(row) + k - 1, tok |-> q[k], seqs |-> {kScratchSeq},
                       of |-> IF Pure(row) THEN Toks(row) \o SubSeq(q, 1, k) ELSE << >>]
    BY <2>1, <2>2, DecodedIs
  <2> QED
    BY Zenon, <1>1, <1>2, <1>3, <2>3
<1>6. ASSUME NEW k \in 1 .. m
      PROVE  ext[k].pos = s + k - 1 /\ ext[k].tok = q[k] /\ ext[k].of = Toks(row) \o SubSeq(q, 1, k)
  <2>1. PICK o : o = IF Pure(row) THEN Toks(row) \o SubSeq(q, 1, k) ELSE << >>
    OBVIOUS
  <2>2. ext[k] = [pos |-> s + k - 1, tok |-> q[k], seqs |-> {kScratchSeq}, of |-> o]
    BY Zenon, <1>5, <2>1
  <2>3. o = Toks(row) \o SubSeq(q, 1, k)
    BY <1>4, <2>1
  <2> QED
    BY <2>2, <2>3
<1>7. PICK all : all = row \o ext
  OBVIOUS
<1>8. /\ all \in Seq(Cell) /\ Len(all) = s + m
      /\ \A k \in 1 .. s : all[k] = row[k]
      /\ \A j \in 1 .. m : all[s + j] = ext[j]
  <2>1. row \in Seq(Cell) /\ ext \in Seq(Cell) /\ s = Len(row) /\ m = Len(ext)
    BY <1>2, <1>4, <1>5
  <2> QED
    BY <1>7, <2>1, JoinIs
<1>9. ASSUME NEW k \in 1 .. s + m
      PROVE  all[k].pos = k - 1
  <2>1. CASE k <= s
    <3>1. k \in 1 .. s
      BY <1>2, <2>1
    <3> QED
      BY <1>4, <1>8, <3>1
  <2>2. CASE ~ (k <= s)
    <3>1. PICK j : j \in 1 .. m /\ s + j = k /\ s + j - 1 = k - 1
      <4>1. m \in Nat /\ s \in Nat /\ k \in 1 .. s + m /\ ~ (k <= s)
        BY <1>1, <1>2, <2>2
      <4>2. k - s \in 1 .. m /\ s + (k - s) = k /\ s + (k - s) - 1 = k - 1
        BY <4>1
      <4> QED
        BY <4>2
    <3> QED
      BY Zenon, <1>6, <1>8, <3>1
  <2> QED
    BY <2>1, <2>2
<1>10. blob.data = all /\ blob.token_count = m
  <2>1. blob = [data |-> all, token_count |-> m]
    BY Zenon, <1>1, <1>3, <1>7
  <2> QED
    BY <2>1
<1>11. ASSUME NEW k \in 1 .. m
       PROVE  all[s + k].tok = q[k] /\ UpTo(it, i, has, k, all[s + k].of)
  <2>1. all[s + k] = ext[k]
    BY <1>8
  <2>2. Toks(row) = IF has THEN prefix ELSE << >>
    BY DEF StartRow
  <2> QED
    BY Zenon, <1>1, <1>6, <2>1, <2>2 DEF UpTo
<1>12. IsBlob(blob, has, m)
  <2>1. /\ all \in Seq(Cell) /\ m \in Nat /\ Len(all) = Start(has) + m
        /\ \A k \in 1 .. Len(all) : all[k].pos = k - 1
    BY Zenon, <1>1, <1>2, <1>8, <1>9
  <2> QED
    BY Zenon, <1>10, <2>1 DEF IsBlob
<1> QED
  BY Zenon, <1>1, <1>2, <1>10, <1>11, <1>12 DEF BlobOf

-----------------------------------------------------------------------------
(* The heads that are computed anew *)

\* recomputed, for all chunks of the item at hand.
HeadsNow == [i \in DOMAIN item.size |-> recomputed(i)]

\* A number that parse_variant reads.
LEMMA AmountIs ==
    ASSUME NEW v \in Variants \cup {Full}, NEW kind \in {"r", "top"}
    PROVE  Amount(v, kind) \in Nat
<1>1. PICK p : p = v.parts
  OBVIOUS
<1>2. CASE v = Full
  <2>1. p = << >>
    BY <1>1, <1>2 DEF Full
  <2>2. {i \in DOMAIN p : p[i][1] = kind} = {}
    BY <2>1
  <2> QED
    BY <1>1, <2>2 DEF Amount
<1>3. CASE v \in Variants
  <2>1. p \in Seq(Part)
    BY <1>1, <1>3, VariantsAssumption
  <2>2. PICK n \in Nat : n = Len(p) /\ DOMAIN p = 1 .. n
    BY <2>1, LenProperties
  <2>3. PICK given : given = {i \in DOMAIN p : p[i][1] = kind}
    OBVIOUS
  <2>4. CASE given = {}
    BY <1>1, <2>3, <2>4 DEF Amount
  <2>5. CASE given # {}
    <3>1. given \in SUBSET Nat /\ \A x \in given : x <= n
      BY <2>2, <2>3
    <3>2. Max(given) \in given
      BY <2>2, <2>5, <3>1, MaxOf
    <3>3. PICK i : i = Max(given) /\ i \in DOMAIN p /\ p[i][1] = kind
      <4>1. PICK i : i = Max(given)
        OBVIOUS
      <4>2. i \in {x \in DOMAIN p : p[x][1] = kind}
        BY <2>3, <3>2, <4>1
      <4> QED
        BY <4>1, <4>2
    <3>4. p[i] \in Part
      BY <2>1, <2>2, <3>3, ElementOfSeq
    <3>5. p[i] \in {"r", "top"} \X Nat
      BY <3>3, <3>4 DEF Part
    <3>6. p[i][2] \in Nat
      BY <3>5
    <3> QED
      BY <1>1, <2>3, <2>5, <3>3, <3>6 DEF Amount
  <2> QED
    BY <2>4, <2>5
<1> QED
  BY <1>2, <1>3

\* What parse_variant and selected_chunks make of a variant: heads within the chunks, and all
\* of every chunk for the full run and for prefixed+rALL.
LEMMA HeadsAre ==
    ASSUME item \in Items, variant \in Variants \cup {Full}
    PROVE  /\ Heads(item, HeadsNow)
           /\ \A i \in 1 .. Len(item.size) : HeadsNow[i] = recomputed(i)
           /\ variant \in {Full, Sanity} =>
                  \A i \in 1 .. Len(item.size) : HeadsNow[i] = item.size[i]
           /\ spec.prefixed \in BOOLEAN
           /\ spec.full <=> variant = Full
<1>1. PICK N : N \in Nat /\ N = Len(item.size) /\ DOMAIN item.size = 1 .. N
  BY SizesOf
<1>2. \A i \in 1 .. N : item.size[i] \in Nat
  BY <1>1, SizesOf
<1>3. PICK h : h = spec.head /\ h \in Nat
  <2>1. Amount(variant, "r") \in Nat
    BY AmountIs
  <2> QED
    BY <2>1 DEF spec, parse_variant
<1>4. ASSUME NEW a \in Nat, NEW b \in Nat
      PROVE  Min({a, b}) \in {a, b} /\ Min({a, b}) <= b
  <2>1. \E x \in {a, b} : \A y \in {a, b} : x <= y
    <3>1. CASE a <= b
      BY <3>1
    <3>2. CASE ~ (a <= b)
      BY <3>2
    <3> QED
      BY <3>1, <3>2
  <2>2. Min({a, b}) \in {a, b} /\ \A y \in {a, b} : Min({a, b}) <= y
    BY <2>1 DEF Min
  <2> QED
    BY <2>2
<1>5. ASSUME NEW i \in 1 .. N
      PROVE  recomputed(i) \in 0 .. item.size[i]
  <2>1. PICK z \in Nat : z = item.size[i]
    BY <1>2
  <2>2. CASE spec.full \/ spec.all \/ selected(i)
    <3>1. recomputed(i) = z
      BY <2>1, <2>2 DEF recomputed
    <3> QED
      BY <2>1, <3>1
  <2>3. CASE ~ (spec.full \/ spec.all \/ selected(i)) /\ i # 1
    <3>1. recomputed(i) = Min({h, z})
      BY <1>3, <2>1, <2>3 DEF recomputed
    <3>2. PICK x : x = Min({h, z}) /\ x \in {h, z} /\ x <= z
      BY <1>3, <1>4
    <3>3. x \in 0 .. z
      BY <1>3, <3>2
    <3> QED
      BY <2>1, <3>1, <3>2, <3>3
  <2>4. CASE ~ (spec.full \/ spec.all \/ selected(i)) /\ i = 1
    <3>1. recomputed(i) = 0
      BY <2>4 DEF recomputed
    <3> QED
      BY <2>1, <3>1
  <2> QED
    BY <2>2, <2>3, <2>4
<1>6. \A i \in 1 .. N : HeadsNow[i] = recomputed(i)
  BY <1>1 DEF HeadsNow
<1>7. Heads(item, HeadsNow)
  BY <1>1, <1>5, <1>6 DEF Heads
<1>8. ASSUME variant \in {Full, Sanity}, NEW i \in 1 .. N
      PROVE  HeadsNow[i] = item.size[i]
  <2>1. spec.full \/ spec.all
    <3>1. CASE variant = Full
      BY <3>1 DEF spec, parse_variant, Full
    <3>2. CASE variant = Sanity
      <4>1. PICK p, q : p = << q >> /\ q = << "rALL" >> /\ q[1] = "rALL" /\ p[1] = q /\ 1 \in DOMAIN p
        <5>1. PICK q : q = << "rALL" >>
          OBVIOUS
        <5>2. PICK p : p = << q >>
          OBVIOUS
        <5>3. q[1] = "rALL"
          BY <5>1
        <5>4. p[1] = q /\ 1 \in DOMAIN p
          BY <5>2
        <5> QED
          BY <5>1, <5>2, <5>3, <5>4
      <4>2. variant.parts = p
        BY <3>2, <4>1 DEF Sanity
      <4>3. Asked(variant, "rALL")
        BY <4>1, <4>2 DEF Asked
      <4> QED
        BY <4>3 DEF spec, parse_variant
    <3> QED
      BY <1>8, <3>1, <3>2
  <2> QED
    BY <1>6, <2>1 DEF recomputed
<1>9. spec.prefixed \in BOOLEAN
  BY DEF spec, parse_variant
<1>10. spec.full <=> variant = Full
  <2>1. spec.full <=> variant.base = "full"
    BY DEF spec, parse_variant
  <2>2. CASE variant = Full
    BY <2>1, <2>2 DEF Full
  <2>3. CASE variant \in Variants
    <3>1. variant.base \in {"naive", "prefixed"}
      BY <2>3, VariantsAssumption
    <3> QED
      BY <2>1, <3>1 DEF Full
  <2> QED
    BY <2>2, <2>3
<1> QED
  BY <1>1, <1>6, <1>7, <1>8, <1>9, <1>10

\* The properties' own words for the item at hand.
LEMMA ItemAtHand ==
    /\ prompt = PromptOf(item) /\ Foreign = ForeignOf(item, spec.prefixed, HeadsNow)
    /\ \A i \in DOMAIN item.size : chunk(i) = Piece(item, i)
<1>1. prompt = PromptOf(item)
  BY DEF prompt, PromptOf, Pieces, Piece, chunk, chunks
<1>2. \A i \in DOMAIN item.size : chunk(i) = Piece(item, i)
  BY DEF chunk, Piece
<1>3. Before = BeforeOf(item)
  BY DEF Before, BeforeOf
<1>4. \A i \in DOMAIN item.size : HeadsNow[i] = recomputed(i)
  BY DEF HeadsNow
<1>5. \A i \in DOMAIN item.size :
          Reused(i) = BeforeOf(item)[i] + HeadsNow[i] + 1 .. BeforeOf(item)[i] + item.size[i]
  BY <1>3, <1>4 DEF Reused
<1>6. PICK h, b : h = HeadsNow /\ b = spec.prefixed
  OBVIOUS
<1>7. Foreign = ForeignOf(item, b, h)
  BY <1>5, <1>6 DEF Foreign, ForeignOf, chunks
<1> QED
  BY <1>1, <1>2, <1>6, <1>7

\* The heads of the next variant are bounded as well.
LEMMA HeadsLater ==
    ((item \in Items /\ variant \in Variants \cup {Full}) => Heads(item, HeadsNow))'
<1>1. (item \in Items /\ variant \in Variants \cup {Full}) => Heads(item, HeadsNow)
  BY HeadsAre
<1> QED
  BY <1>1, PTL

-----------------------------------------------------------------------------
(* The inductive invariant *)

Both == {kPrefixSeq, kTargetSeq}

Blob == [data : Seq(Cell), token_count : Nat]

\* The snapshots of the first n chunks.
Cached(ch, it, n) ==
    /\ ch.naive \in Seq(Blob) /\ Len(ch.naive) = n
    /\ ch.prefixed \in Seq(Blob) /\ Len(ch.prefixed) = n
    /\ \A j \in 1 .. n : BlobOf(ch.naive[j], FALSE, it, j) /\ BlobOf(ch.prefixed[j], TRUE, it, j)

\* The target and the buffer before the i-th chunk.
Building(c, it, pre, h, i, p, q, at) ==
    \E row : /\ Layout(c, Both, kTargetSeq, row) /\ Exact(it, pre, h, row)
             /\ p = BeforeOf(it)[i] /\ Waiting(it, pre, h, row, p, q, at)

\* The target after a answers, when the logits l have been read.
Answering(c, it, pre, h, p, a, l) ==
    /\ p + SuffixLen = Len(PromptOf(it)) /\ a \in Nat
    /\ Exact(it, pre, h, l) /\ Len(l) = Len(PromptOf(it))
    /\ \E row : /\ Layout(c, Both, kTargetSeq, row) /\ Len(row) = Len(l) + a
                /\ \A k \in 1 .. Len(l) : row[k] = l[k]
                /\ \A k \in 1 .. a : row[Len(l) + k].tok = <<"answer", k>>

Places == Resting \cup {"load", "probe", "chunk", "suffix", "answer"}

Settled ==
    /\ item \in Items /\ variant \in Variants \cup {Full} /\ pc \in Places
    /\ pc = "load" => cells = << >>
    /\ pc \in Resting \cup {"probe"} => Rests(cells)

Snapshots ==
    /\ pc = "precompute" => index \in 1 .. Len(item.size) /\ Cached(cache, item, index - 1)
    /\ pc \notin {"load", "item", "precompute"} => Cached(cache, item, Len(item.size))

Composition ==
    /\ pc = "chunk" => index \in 1 .. Len(item.size)
    /\ pc = "suffix" => index = Len(item.size) + 1
    /\ pc \in {"chunk", "suffix"} => answer = 0
    /\ pc \in {"chunk", "suffix"} =>
           Building(cells, item, spec.prefixed, HeadsNow, index, position, pending, pending_position)
    /\ pc = "answer" =>
           Answering(cells, item, spec.prefixed, HeadsNow, position, answer, logits)

Reference ==
    pc = "variant" \/ (pc \in {"chunk", "suffix", "answer"} /\ variant # Full) =>
        full_logits = FullRow(item)

ChunkInv == Settled /\ Snapshots /\ Composition /\ Reference

\* Names of what a step leaves alone.
LEMMA SameHeads ==
    ASSUME item' = item, variant' = variant
    PROVE  HeadsNow' = HeadsNow /\ spec' = spec
BY DEF HeadsNow, recomputed, selected, spec, chunks

\* Memory is empty in the beginning; the prefix is the first that is decoded.
LEMMA LoadRests ==
    ASSUME NEW c, c = << >>
    PROVE  Accepts(c, kPrefixSeq, 0) /\ Rests(decode(c, prefix, kPrefixSeq, 0))
<1>1. DOMAIN c = {}
  OBVIOUS
<1>2. Of(c, kPrefixSeq) = {}
  BY <1>1 DEF Of
<1>3. Accepts(c, kPrefixSeq, 0)
  BY <1>2 DEF Accepts
<1>4. PICK S : S = {kPrefixSeq} /\ S \in (SUBSET Sequences) \ {{}}
  BY DEF Sequences
<1>5. PICK P, row : /\ P = PrefixLen /\ P \in Nat /\ row = PrefixRow(S) /\ row \in Seq(Cell) /\ Len(row) = P
                    /\ prefix \in Seq(Token) /\ Len(prefix) = P
                    /\ \A k \in 1 .. P : row[k] = [pos |-> k - 1, tok |-> prefix[k], seqs |-> S,
                                                   of |-> SubSeq(prefix, 1, k)]
  <2>1. PICK P, row : P = PrefixLen /\ row = PrefixRow(S)
    OBVIOUS
  <2>2. S \in (SUBSET Sequences) \ {{}}
    BY <1>4
  <2>3. /\ PrefixRow(S) \in Seq(Cell) /\ Len(PrefixRow(S)) = PrefixLen
        /\ prefix \in Seq(Token) /\ Len(prefix) = PrefixLen /\ PrefixLen \in Nat
        /\ \A k \in 1 .. PrefixLen :
               PrefixRow(S)[k] = [pos |-> k - 1, tok |-> prefix[k], seqs |-> S,
                                  of |-> SubSeq(prefix, 1, k)]
    BY <2>2, PrefixIs
  <2> QED
    BY Zenon, <2>1, <2>3
<1>6. ASSUME NEW k \in 1 .. P
      PROVE  row[k].pos = k - 1 /\ row[k].seqs = S
  <2>1. PICK a, b : a = prefix[k] /\ b = SubSeq(prefix, 1, k)
    OBVIOUS
  <2>2. row[k] = [pos |-> k - 1, tok |-> a, seqs |-> S, of |-> b]
    BY Zenon, <1>5, <2>1
  <2> QED
    BY <2>2
<1>7. Memory(row)
  BY <1>5, <1>6, RowMemory
<1>8. Memory(c)
  <2>1. c \in [DOMAIN c -> Cell]
    BY <1>1
  <2>2. 0 \in Nat /\ Bounded(c, 0)
    BY <1>1 DEF Bounded
  <2> QED
    BY <2>1, <2>2 DEF Memory
<1>9. decode(c, prefix, kPrefixSeq, 0) = AddCells(c, row)
  <2>1. Row(c, kPrefixSeq) = << >>
    <3>1. Holds(c, kPrefixSeq, << >>)
      <4>1. << >> \in Seq(Cell) /\ Len(<< >>) = 0
        BY EmptySeq
      <4> QED
        BY <1>2, <4>1 DEF Holds
    <3> QED
      BY <1>8, <3>1, RowIs
  <2>2. DOMAIN << >> = {} /\ Toks(<< >>) = << >> /\ Pure(<< >>)
    <3>1. DOMAIN << >> = {}
      OBVIOUS
    <3> QED
      BY <3>1 DEF Toks, Pure
  <2>3. DOMAIN prefix = 1 .. P
    BY <1>5, LenProperties
  <2>4. \A k \in 1 .. P : << >> \o SubSeq(prefix, 1, k) = SubSeq(prefix, 1, k)
    <3>1. TAKE k \in 1 .. P
    <3>2. k \in 0 .. Len(prefix)
      BY <1>5
    <3>3. SubSeq(prefix, 1, k) \in Seq(Token)
      BY <1>5, <3>2, FirstOf
    <3> QED
      BY <3>3, ConcatEmptySeq
  <2>5. PICK new : new = [n \in DOMAIN prefix |->
            [pos |-> 0 + n - 1, tok |-> prefix[n], seqs |-> {kPrefixSeq},
             of |-> IF Pure(<< >>) THEN << >> \o SubSeq(prefix, 1, n) ELSE << >>]]
    OBVIOUS
  <2>6. DOMAIN new = 1 .. P /\ IsFcn(new)
    BY <2>3, <2>5 DEF IsFcn
  <2>7. ASSUME NEW k \in 1 .. P
        PROVE  new[k] = row[k]
    <3>1. PICK o : o = IF Pure(<< >>) THEN << >> \o SubSeq(prefix, 1, k) ELSE << >>
      OBVIOUS
    <3>2. o = SubSeq(prefix, 1, k)
      BY <2>2, <2>4, <3>1
    <3>3. new[k] = [pos |-> 0 + k - 1, tok |-> prefix[k], seqs |-> {kPrefixSeq}, of |-> o]
      <4>1. new[k] = [pos |-> 0 + k - 1, tok |-> prefix[k], seqs |-> {kPrefixSeq},
                      of |-> IF Pure(<< >>) THEN << >> \o SubSeq(prefix, 1, k) ELSE << >>]
        BY Zenon, <2>3, <2>5
      <4> QED
        BY Zenon, <3>1, <4>1
    <3>4. 0 + k - 1 = k - 1
      BY <1>5
    <3> QED
      BY Zenon, <1>4, <1>5, <3>2, <3>3, <3>4
  <2>8. IsFcn(row) /\ DOMAIN row = 1 .. P
    BY <1>5, LenProperties DEF IsFcn
  <2>9. new = row
    BY Zenon, <2>6, <2>7, <2>8 DEF IsFcn
  <2>10. decode(c, prefix, kPrefixSeq, 0) = AddCells(c, new)
    BY Zenon, <2>1, <2>2, <2>5 DEF decode
  <2> QED
    BY <2>9, <2>10
<1>10. PICK top : top \in Nat /\ DOMAIN c \subseteq 1 .. top /\ AddCells(c, row) = With(c, top, row)
  BY <1>5, <1>7, <1>8, AddCellsIs
<1>11. PICK d : d = With(c, top, row)
  OBVIOUS
<1>12. DOMAIN row = 1 .. P
  BY <1>5, LenProperties
<1>13. /\ Memory(d)
       /\ \A k \in 1 .. P : top + k \in DOMAIN d /\ d[top + k] = row[k]
       /\ \A i \in DOMAIN d : \E k \in 1 .. P : i = top + k
  <2>1. /\ Memory(With(c, top, row))
        /\ \A k \in DOMAIN row : /\ top + k \in DOMAIN With(c, top, row)
                                 /\ With(c, top, row)[top + k] = row[k]
        /\ \A i \in DOMAIN With(c, top, row) :
               i \in DOMAIN c \/ \E k \in DOMAIN row : i = top + k
    BY <1>7, <1>8, <1>10, WithFacts
  <2> QED
    BY <1>1, <1>11, <1>12, <2>1
<1>14. \A i \in DOMAIN d : \E k \in 1 .. P : i = top + k /\ d[i] = row[k] /\ d[i].pos = k - 1 /\ d[i].seqs = S
  BY <1>6, <1>13
<1>15. Of(d, kPrefixSeq) = DOMAIN d
  <2>1. kPrefixSeq \in S
    BY <1>4
  <2> QED
    BY <1>14, <2>1 DEF Of
<1>16. Holds(d, kPrefixSeq, row)
  <2>1. ASSUME NEW i \in DOMAIN d
        PROVE  d[i].pos < Len(row) /\ d[i] = row[d[i].pos + 1]
    <3>1. PICK k : k \in 1 .. P /\ d[i] = row[k] /\ d[i].pos = k - 1
      BY <1>14
    <3>2. k - 1 < P /\ k - 1 + 1 = k
      <4>1. P \in Nat /\ k \in 1 .. P
        BY <1>5, <3>1
      <4> QED
        BY <4>1
    <3> QED
      BY Zenon, <1>5, <3>1, <3>2
  <2>2. ASSUME NEW k \in 1 .. Len(row)
        PROVE  \E i \in DOMAIN d : d[i].pos = k - 1
    <3>1. k \in 1 .. P
      BY <1>5
    <3> QED
      BY <1>6, <1>13, <3>1
  <2>3. ASSUME NEW i \in DOMAIN d, NEW j \in DOMAIN d, d[i].pos = d[j].pos
        PROVE  i = j
    <3>0. PICK k : k \in 1 .. P /\ i = top + k /\ d[i].pos = k - 1
      BY <1>14
    <3>4. PICK l : l \in 1 .. P /\ j = top + l /\ d[j].pos = l - 1
      BY <1>14
    <3>1. k \in 1 .. P /\ i = top + k /\ l \in 1 .. P /\ j = top + l
      BY <3>0, <3>4
    <3>2. k - 1 = l - 1
      BY <2>3, <3>0, <3>4
    <3>3. k = l
      BY <1>5, <3>1, <3>2
    <3> QED
      BY <3>1, <3>3
  <2> QED
    BY Zenon, <1>5, <1>15, <2>1, <2>2, <2>3 DEF Holds
<1>17. Rests(d)
  BY <1>4, <1>5, <1>13, <1>14, <1>16 DEF Rests
<1> QED
  BY <1>3, <1>9, <1>10, <1>11, <1>17

\* One iteration of precompute_chunks: both snapshots, and memory is as before.
LEMMA PrecomputeIs ==
    ASSUME NEW it \in Items, NEW i \in 1 .. Len(it.size), NEW c, Rests(c),
           NEW c1, c1 = decode(c, Piece(it, i), kScratchSeq, 0),
           NEW c2, c2 = seq_cp(remove_sequence(c1, kScratchSeq), kPrefixSeq, kScratchSeq),
           NEW c3, c3 = decode(c2, Piece(it, i), kScratchSeq, PrefixLen),
           NEW a, a = snapshot(c1, kScratchSeq, it.size[i]),
           NEW b, b = snapshot(c3, kScratchSeq, it.size[i])
    PROVE  /\ Accepts(c, kScratchSeq, 0) /\ Accepts(c2, kScratchSeq, PrefixLen)
           /\ Rests(remove_sequence(c3, kScratchSeq))
           /\ a \in Blob /\ b \in Blob /\ BlobOf(a, FALSE, it, i) /\ BlobOf(b, TRUE, it, i)
<1>1. PICK q, z : /\ q = Piece(it, i) /\ z = it.size[i] /\ q \in Seq(Token) /\ z \in Nat
  BY SizesOf, PiecesAre
<1>2. kScratchSeq \in Others
  BY DEF Others, Sequences, kScratchSeq, kPrefixSeq
<1>3. PICK S, T : S = {kPrefixSeq} /\ T = {kPrefixSeq, kScratchSeq}
  OBVIOUS
<1>4. Layout(c, S, kScratchSeq, << >>)
  BY <1>2, <1>3, RestsIs
<1>5. PICK r1 : r1 = << >> \o Decoded(<< >>, q, kScratchSeq)
  OBVIOUS
<1>6. Accepts(c, kScratchSeq, 0) /\ Layout(c1, S, kScratchSeq, r1)
  <2>1. Len(<< >>) = 0
    BY EmptySeq
  <2>2. /\ Accepts(c, kScratchSeq, Len(<< >>))
        /\ Layout(decode(c, q, kScratchSeq, Len(<< >>)), S, kScratchSeq, r1)
    BY <1>1, <1>4, <1>5, DecodeLayout
  <2> QED
    BY Zenon, <1>1, <2>1, <2>2
<1>7. Rests(remove_sequence(c1, kScratchSeq))
  BY <1>6, RemoveNear DEF Layout
<1>8. Layout(c2, T, kScratchSeq, PrefixRow(T))
  BY <1>2, <1>3, <1>7, CopyRests
<1>9. PICK r3 : r3 = PrefixRow(T) \o Decoded(PrefixRow(T), q, kScratchSeq)
  OBVIOUS
<1>10. Accepts(c2, kScratchSeq, PrefixLen) /\ Layout(c3, T, kScratchSeq, r3)
  <2>1. Len(PrefixRow(T)) = PrefixLen
    <3>1. T \in (SUBSET Sequences) \ {{}}
      BY <1>3 DEF Sequences
    <3> QED
      BY <3>1, PrefixIs
  <2>2. /\ Accepts(c2, kScratchSeq, Len(PrefixRow(T)))
        /\ Layout(decode(c2, q, kScratchSeq, Len(PrefixRow(T))), T, kScratchSeq, r3)
    BY <1>1, <1>8, <1>9, DecodeLayout
  <2> QED
    BY Zenon, <1>1, <2>1, <2>2
<1>11. Rests(remove_sequence(c3, kScratchSeq))
  BY <1>10, RemoveNear DEF Layout
<1>12. Row(c1, kScratchSeq) = r1 /\ r1 \in Seq(Cell)
  <2>1. Memory(c1) /\ Holds(c1, kScratchSeq, r1)
    BY <1>6 DEF Layout, Near
  <2> QED
    BY <2>1, RowIs DEF Holds
<1>13. Row(c3, kScratchSeq) = r3 /\ r3 \in Seq(Cell)
  <2>1. Memory(c3) /\ Holds(c3, kScratchSeq, r3)
    BY <1>10 DEF Layout, Near
  <2> QED
    BY <2>1, RowIs DEF Holds
<1>14. a = [data |-> r1, token_count |-> z] /\ b = [data |-> r3, token_count |-> z]
  BY <1>1, <1>12, <1>13 DEF snapshot
<1>15. a \in Blob /\ b \in Blob
  BY <1>1, <1>12, <1>13, <1>14 DEF Blob
<1>16. BlobOf(a, FALSE, it, i)
  <2>1. a = [data |-> << >> \o Decoded(<< >>, Piece(it, i), kScratchSeq), token_count |-> it.size[i]]
    BY Zenon, <1>1, <1>5, <1>14
  <2>2. FALSE \in BOOLEAN
    OBVIOUS
  <2> QED
    BY <2>1, <2>2, StartRows, DecodedBlob
<1>17. BlobOf(b, TRUE, it, i)
  <2>1. PICK row : row = PrefixRow(T) /\ StartRow(TRUE, row)
    BY <1>3, StartRows
  <2>2. b = [data |-> row \o Decoded(row, Piece(it, i), kScratchSeq), token_count |-> it.size[i]]
    BY Zenon, <1>1, <1>9, <1>14, <2>1
  <2>3. TRUE \in BOOLEAN
    OBVIOUS
  <2> QED
    BY <2>1, <2>2, <2>3, DecodedBlob
<1> QED
  BY <1>6, <1>10, <1>11, <1>15, <1>16, <1>17

\* A batch of one token.
LEMMA OneToken ==
    ASSUME NEW token, token \in Token, NEW q, q = <<token>>
    PROVE  q \in Seq(Token) /\ Len(q) = 1 /\ q[1] = token
<1>1. q[1] = token /\ Len(q) = 1 /\ DOMAIN q = 1 .. 1 /\ IsFcn(q)
  BY DEF IsFcn
<1>2. \A k \in 1 .. 1 : q[k] \in Token
  <2>1. TAKE k \in 1 .. 1
  <2>2. k = 1
    OBVIOUS
  <2> QED
    BY <1>1, <2>2
<1>3. 1 \in Nat
  OBVIOUS
<1> QED
  BY Zenon, <1>1, <1>2, <1>3, OneToN

\* A blob that is restored, followed by one token and taken away again.
LEMMA ProbeBlob ==
    ASSUME NEW c, Rests(c), NEW blob, NEW size, IsBlob(blob, TRUE, size), NEW token \in Token,
           NEW d, d = restore(c, blob, kTemporarySeq)
    PROVE  /\ Accepts(d, kTemporarySeq, PrefixLen + size)
           /\ Rests(remove_sequence(decode(d, <<token>>, kTemporarySeq, PrefixLen + size), kTemporarySeq))
<1>1. kTemporarySeq \in Others /\ TRUE \in BOOLEAN
  BY DEF Others, Sequences, kTemporarySeq, kPrefixSeq
<1>2. PICK row : Layout(d, {kPrefixSeq}, kTemporarySeq, row) /\ Len(row) = Start(TRUE) + size
  <2>1. Restored(d, kTemporarySeq, Start(TRUE) + size)
    BY <1>1, RestoreLayout
  <2> QED
    BY <2>1 DEF Restored
<1>3. Len(row) = PrefixLen + size
  BY <1>2 DEF Start
<1>4. PICK q : q = <<token>> /\ q \in Seq(Token)
  BY OneToken
<1>5. /\ Accepts(d, kTemporarySeq, Len(row))
      /\ Layout(decode(d, q, kTemporarySeq, Len(row)), {kPrefixSeq}, kTemporarySeq,
                row \o Decoded(row, q, kTemporarySeq))
  BY <1>2, <1>4, DecodeLayout
<1>6. Near(decode(d, q, kTemporarySeq, Len(row)), {kPrefixSeq}, kTemporarySeq)
  BY <1>5 DEF Layout
<1> QED
  BY <1>3, <1>4, <1>5, <1>6, RemoveNear

\* The shifted attachment between the two probes.
LEMMA ProbeAttach ==
    ASSUME NEW c, Rests(c), NEW blob, NEW size, IsBlob(blob, TRUE, size), size >= 1,
           NEW final \in Nat, final >= PrefixLen
    PROVE  Rests(remove_sequence(attach_tail(seq_cp(c, kPrefixSeq, kTargetSeq), blob, TRUE, 0, final),
                                 kTargetSeq))
<1>1. kTargetSeq \in Others /\ TRUE \in BOOLEAN
  BY DEF Others, Sequences, kTargetSeq, kPrefixSeq
<1>2. PICK d : d = seq_cp(c, kPrefixSeq, kTargetSeq)
  OBVIOUS
<1>3. Near(d, Both, kTargetSeq)
  BY <1>1, <1>2, CopyRests DEF Layout, Both
<1>4. 0 \in 0 .. size - 1
  <2>1. size \in Nat
    BY DEF IsBlob
  <2> QED
    BY <2>1
<1>5. final >= Start(TRUE)
  BY DEF Start
<1>6. Near(attach_tail(d, blob, TRUE, 0, final), Both, kTargetSeq)
  BY <1>1, <1>3, <1>4, <1>5, AttachNear
<1> QED
  BY <1>2, <1>6, RemoveNear

\* At first nothing is in memory.
LEMMA FirstInv ==
    ASSUME Init
    PROVE  ChunkInv
<1>1. /\ pc = "load" /\ cells = << >> /\ item \in Items /\ variant = Full
  BY DEF Init
<1>2. Settled
  BY <1>1 DEF Settled, Places, Resting
<1>3. Snapshots /\ Composition /\ Reference
  BY <1>1 DEF Snapshots, Composition, Reference
<1> QED
  BY <1>2, <1>3 DEF ChunkInv

\* The steps of main and of run_variant keep the invariant: the prefix is loaded, ...
LEMMA LoadStep ==
    ASSUME ChunkInv, Load
    PROVE  ChunkInv'
<1>1. pc = "load" /\ cells = << >> /\ item \in Items /\ variant \in Variants \cup {Full}
  BY DEF Load, ChunkInv, Settled
<1>2. /\ cells' = decode(cells, prefix, kPrefixSeq, 0) /\ item' = item /\ variant' = variant
      /\ Step(Accepts(cells, kPrefixSeq, 0), "item")
  BY DEF Load
<1>3. Accepts(cells, kPrefixSeq, 0) /\ Rests(cells')
  BY <1>1, <1>2, LoadRests
<1>4. pc' = "item"
  BY <1>2, <1>3 DEF Step
<1>5. Settled'
  BY <1>1, <1>2, <1>3, <1>4 DEF Settled, Places, Resting
<1>6. Snapshots' /\ Composition' /\ Reference'
  BY <1>4 DEF Snapshots, Composition, Reference
<1> QED
  BY <1>5, <1>6 DEF ChunkInv

\* ... the next item begins with an empty cache, ...
LEMMA NextItemStep ==
    ASSUME ChunkInv, NextItem
    PROVE  ChunkInv'
<1>1. pc = "item" /\ Rests(cells) /\ variant \in Variants \cup {Full}
  BY DEF NextItem, ChunkInv, Settled, Resting
<1>2. /\ item' \in Items /\ cache' = [naive |-> << >>, prefixed |-> << >>] /\ index' = 1
      /\ pc' = "precompute" /\ cells' = cells /\ variant' = variant
  BY DEF NextItem
<1>3. Settled'
  BY <1>1, <1>2 DEF Settled, Places, Resting
<1>4. index' \in 1 .. Len(item'.size)
  <2>1. PICK N : N = Len(item'.size) /\ N \in Nat /\ N >= 1
    BY <1>2, SizesOf
  <2>2. 1 \in 1 .. N
    BY <2>1
  <2> QED
    BY <1>2, <2>1, <2>2
<1>5. Cached(cache', item', index' - 1)
  <2>1. index' - 1 = 0
    BY <1>2
  <2>2. << >> \in Seq(Blob) /\ Len(<< >>) = 0
    BY EmptySeq
  <2>3. Cached(cache', item', 0)
    BY <1>2, <2>2 DEF Cached
  <2> QED
    BY <2>1, <2>3
<1>6. Snapshots'
  BY <1>2, <1>4, <1>5 DEF Snapshots
<1>7. Composition' /\ Reference'
  BY <1>2 DEF Composition, Reference
<1> QED
  BY <1>3, <1>6, <1>7 DEF ChunkInv

\* ... an item may end after any variant.
LEMMA ItemDoneStep ==
    ASSUME ChunkInv, ItemDone
    PROVE  ChunkInv'
<1>1. pc = "variant" /\ Rests(cells) /\ item \in Items /\ variant \in Variants \cup {Full}
  BY DEF ItemDone, ChunkInv, Settled, Resting
<1>2. pc' = "item" /\ cells' = cells /\ item' = item /\ variant' = variant
  BY DEF ItemDone
<1>3. Settled'
  BY <1>1, <1>2 DEF Settled, Places, Resting
<1>4. Snapshots' /\ Composition' /\ Reference'
  BY <1>2 DEF Snapshots, Composition, Reference
<1> QED
  BY <1>3, <1>4 DEF ChunkInv

\* AppendProperties, for sequences with names.
LEMMA AppendIs ==
    ASSUME NEW S, NEW q \in Seq(S), NEW e \in S, NEW n, n = Len(q), NEW u, u = Append(q, e)
    PROVE  u \in Seq(S) /\ Len(u) = n + 1 /\ u[n + 1] = e /\ \A j \in 1 .. n : u[j] = q[j]
<1>1. /\ Append(q, e) \in Seq(S) /\ Len(Append(q, e)) = Len(q) + 1
      /\ \A i \in 1 .. Len(q) : Append(q, e)[i] = q[i]
      /\ Append(q, e)[Len(q) + 1] = e
  BY AppendProperties
<1> QED
  BY Zenon, <1>1

\* One more snapshot of each kind.
LEMMA CachedMore ==
    ASSUME NEW it \in Items, NEW i \in 1 .. Len(it.size), NEW ch, Cached(ch, it, i - 1),
           NEW a \in Blob, NEW b \in Blob, BlobOf(a, FALSE, it, i), BlobOf(b, TRUE, it, i),
           NEW next, next = [naive |-> Append(ch.naive, a), prefixed |-> Append(ch.prefixed, b)]
    PROVE  Cached(next, it, i)
<1>1. PICK n : n = i - 1 /\ n \in Nat /\ n + 1 = i
  <2>1. Len(it.size) \in Nat
    BY SizesOf
  <2>2. i - 1 \in Nat /\ i - 1 + 1 = i
    BY <2>1
  <2> QED
    BY <2>2
<1>2. PICK p, q : p = ch.naive /\ q = ch.prefixed
  OBVIOUS
<1>3. /\ p \in Seq(Blob) /\ Len(p) = n /\ q \in Seq(Blob) /\ Len(q) = n
      /\ \A j \in 1 .. n : BlobOf(p[j], FALSE, it, j) /\ BlobOf(q[j], TRUE, it, j)
  BY <1>1, <1>2 DEF Cached
<1>4. PICK u : /\ u = Append(p, a) /\ u \in Seq(Blob) /\ Len(u) = i /\ u[i] = a
               /\ \A j \in 1 .. n : u[j] = p[j]
  <2>1. PICK u : u = Append(p, a)
    OBVIOUS
  <2>2. p \in Seq(Blob) /\ n = Len(p)
    BY <1>3
  <2>3. u \in Seq(Blob) /\ Len(u) = n + 1 /\ u[n + 1] = a /\ \A j \in 1 .. n : u[j] = p[j]
    BY <2>1, <2>2, AppendIs
  <2> QED
    BY <1>1, <2>1, <2>3
<1>5. PICK v : /\ v = Append(q, b) /\ v \in Seq(Blob) /\ Len(v) = i /\ v[i] = b
               /\ \A j \in 1 .. n : v[j] = q[j]
  <2>1. PICK v : v = Append(q, b)
    OBVIOUS
  <2>2. q \in Seq(Blob) /\ n = Len(q)
    BY <1>3
  <2>3. v \in Seq(Blob) /\ Len(v) = n + 1 /\ v[n + 1] = b /\ \A j \in 1 .. n : v[j] = q[j]
    BY <2>1, <2>2, AppendIs
  <2> QED
    BY <1>1, <2>1, <2>3
<1>6. next.naive = u /\ next.prefixed = v
  BY <1>2, <1>4, <1>5
<1>7. ASSUME NEW j \in 1 .. i
      PROVE  BlobOf(u[j], FALSE, it, j) /\ BlobOf(v[j], TRUE, it, j)
  <2>1. CASE j = i
    BY <1>4, <1>5, <2>1
  <2>2. CASE j # i
    <3>1. j \in 1 .. n
      BY <1>1, <2>2
    <3> QED
      BY <1>3, <1>4, <1>5, <3>1
  <2> QED
    BY <2>1, <2>2
<1> QED
  BY <1>4, <1>5, <1>6, <1>7 DEF Cached

\* An iteration of precompute_chunks leaves the snapshots of one more chunk.
LEMMA PrecomputeStep ==
    ASSUME ChunkInv, Precompute
    PROVE  ChunkInv'
<1>1. /\ pc = "precompute" /\ Rests(cells) /\ item \in Items /\ variant \in Variants \cup {Full}
      /\ index \in 1 .. Len(item.size) /\ Cached(cache, item, index - 1)
  BY DEF Precompute, ChunkInv, Settled, Snapshots, Resting
<1>2. PICK it, i, c : it = item /\ i = index /\ c = cells
  OBVIOUS
<1>3. PICK z, c1, c2, c3, a, b :
          /\ z = it.size[i]
          /\ c1 = decode(c, Piece(it, i), kScratchSeq, 0)
          /\ c2 = seq_cp(remove_sequence(c1, kScratchSeq), kPrefixSeq, kScratchSeq)
          /\ c3 = decode(c2, Piece(it, i), kScratchSeq, PrefixLen)
          /\ a = snapshot(c1, kScratchSeq, z) /\ b = snapshot(c3, kScratchSeq, z)
  OBVIOUS
<1>4. chunk(index) = Piece(it, i)
  BY <1>2 DEF chunk, Piece
<1>5. /\ cache' = [naive |-> Append(cache.naive, a), prefixed |-> Append(cache.prefixed, b)]
      /\ cells' = remove_sequence(c3, kScratchSeq)
      /\ Step(Accepts(c, kScratchSeq, 0) /\ Accepts(c2, kScratchSeq, PrefixLen),
              IF i = Len(it.size) THEN "probe" ELSE "precompute")
      /\ index' = i + 1 /\ item' = it /\ variant' = variant
  BY <1>2, <1>3, <1>4 DEF Precompute
<1>6. it \in Items /\ i \in 1 .. Len(it.size) /\ Rests(c) /\ Cached(cache, it, i - 1)
  BY <1>1, <1>2
<1>7. /\ Accepts(c, kScratchSeq, 0) /\ Accepts(c2, kScratchSeq, PrefixLen)
      /\ Rests(remove_sequence(c3, kScratchSeq))
      /\ a \in Blob /\ b \in Blob /\ BlobOf(a, FALSE, it, i) /\ BlobOf(b, TRUE, it, i)
  BY <1>3, <1>6, PrecomputeIs
<1>8. Cached(cache', it, i)
  BY <1>5, <1>6, <1>7, CachedMore
<1>9. Rests(cells')
  BY <1>5, <1>7
<1>10. pc' = IF i = Len(it.size) THEN "probe" ELSE "precompute"
  BY <1>5, <1>7 DEF Step
<1>11. Settled'
  BY <1>1, <1>2, <1>5, <1>9, <1>10 DEF Settled, Places, Resting
<1>12. Snapshots'
  <2>1. CASE i = Len(it.size)
    <3>1. pc' = "probe"
      BY <1>10, <2>1
    <3>2. Cached(cache', item', Len(item'.size))
      BY Zenon, <1>5, <1>8, <2>1
    <3> QED
      BY <3>1, <3>2 DEF Snapshots
  <2>2. CASE i # Len(it.size)
    <3>1. pc' = "precompute"
      BY <1>10, <2>2
    <3>2. i + 1 \in 1 .. Len(it.size) /\ i + 1 - 1 = i
      <4>1. PICK N : N = Len(it.size) /\ N \in Nat
        BY <1>6, SizesOf
      <4>2. i \in 1 .. N /\ i # N
        BY <1>6, <2>2, <4>1
      <4>3. i + 1 \in 1 .. N /\ i + 1 - 1 = i
        BY <4>1, <4>2
      <4> QED
        BY <4>1, <4>3
    <3>3. index' \in 1 .. Len(item'.size) /\ Cached(cache', item', index' - 1)
      <4>1. index' = i + 1 /\ item' = it
        BY <1>5
      <4>2. index' - 1 = i
        <5>1. i \in Nat
          BY <1>6, SizesOf
        <5> QED
          BY <4>1, <5>1
      <4>3. index' \in 1 .. Len(item'.size)
        BY Zenon, <3>2, <4>1
      <4>4. Cached(cache', item', index' - 1)
        BY Zenon, <1>8, <4>1, <4>2
      <4> QED
        BY <4>3, <4>4
    <3> QED
      BY <3>1, <3>3 DEF Snapshots
  <2> QED
    BY <2>1, <2>2
<1>13. Composition' /\ Reference'
  <2>1. pc' \in {"probe", "precompute"}
    BY <1>10
  <2> QED
    BY <2>1 DEF Composition, Reference
<1> QED
  BY <1>11, <1>12, <1>13 DEF ChunkInv

\* The independence probe leaves nothing behind.
LEMMA ProbeStep ==
    ASSUME ChunkInv, Probe
    PROVE  ChunkInv'
<1>1. /\ pc = "probe" /\ Rests(cells) /\ item \in Items /\ variant \in Variants \cup {Full}
      /\ Cached(cache, item, Len(item.size))
  BY DEF Probe, ChunkInv, Settled, Snapshots
<1>2. PICK it, c, blob, z, token :
          it = item /\ c = cells /\ blob = cache.prefixed[1] /\ z = it.size[1] /\ token = Head(suffix)
  OBVIOUS
<1>3. /\ it \in Items /\ Rests(c) /\ z \in Nat /\ z >= 1 /\ IsBlob(blob, TRUE, z)
  <2>1. 1 \in 1 .. Len(item.size)
    <3>1. PICK N : N = Len(item.size) /\ N \in Nat /\ N >= 1
      BY <1>1, SizesOf
    <3>2. 1 \in 1 .. N
      BY <3>1
    <3> QED
      BY <3>1, <3>2
  <2>2. BlobOf(blob, TRUE, it, 1)
    BY <1>1, <1>2, <2>1 DEF Cached
  <2>3. z \in Nat /\ z >= 1
    BY <1>1, <1>2, <2>1, SizesOf
  <2> QED
    BY <1>1, <1>2, <2>2, <2>3 DEF BlobOf
<1>4. token \in Token
  <2>1. "suffix" \in {"prefix", "suffix", "answer"} \cup Nat /\ SuffixLen \in Nat /\ SuffixLen >= 1
    BY <1>3, SizesOf
  <2>2. suffix \in Seq(Token) /\ Len(suffix) = SuffixLen
    BY <2>1, TokensIs DEF suffix
  <2>3. 1 \in 1 .. Len(suffix)
    BY <2>1, <2>2
  <2>4. suffix[1] \in Token
    BY <2>2, <2>3, ElementOfSeq
  <2>5. Head(suffix) = suffix[1]
    OBVIOUS
  <2> QED
    BY <1>2, <2>4, <2>5
<1>5. PICK c1, c2, c3, c4, c5, c6 :
          /\ c1 = restore(c, blob, kTemporarySeq)
          /\ c2 = remove_sequence(decode(c1, <<token>>, kTemporarySeq, PrefixLen + z), kTemporarySeq)
          /\ c3 = attach_tail(seq_cp(c2, kPrefixSeq, kTargetSeq), blob, TRUE, 0, PrefixLen + ProbeShift)
          /\ c4 = remove_sequence(c3, kTargetSeq)
          /\ c5 = restore(c4, blob, kTemporarySeq)
          /\ c6 = remove_sequence(decode(c5, <<token>>, kTemporarySeq, PrefixLen + z), kTemporarySeq)
  OBVIOUS
<1>6. /\ cells' = c6
      /\ Step(Accepts(c1, kTemporarySeq, PrefixLen + z) /\ Accepts(c5, kTemporarySeq, PrefixLen + z),
              "full")
      /\ item' = item /\ cache' = cache /\ variant' = variant
  BY Zenon, <1>2, <1>5 DEF Probe
<1>7. Accepts(c1, kTemporarySeq, PrefixLen + z) /\ Rests(c2)
  BY <1>3, <1>4, <1>5, ProbeBlob
<1>8. Rests(c4)
  <2>1. PrefixLen + ProbeShift \in Nat /\ PrefixLen + ProbeShift >= PrefixLen
    BY ItemsAssumption
  <2> QED
    BY <1>3, <1>5, <1>7, <2>1, ProbeAttach
<1>9. Accepts(c5, kTemporarySeq, PrefixLen + z) /\ Rests(c6)
  BY <1>3, <1>4, <1>5, <1>8, ProbeBlob
<1>10. pc' = "full"
  BY <1>6, <1>7, <1>9 DEF Step
<1>11. Settled'
  BY <1>1, <1>6, <1>9, <1>10 DEF Settled, Places, Resting
<1>12. Snapshots' /\ Composition' /\ Reference'
  BY <1>1, <1>6, <1>10 DEF Snapshots, Composition, Reference
<1> QED
  BY <1>11, <1>12 DEF ChunkInv


-----------------------------------------------------------------------------
(* A run *)

\* The target holds the first p tokens of the prompt, as TargetExact requires it.
Reached(c, it, pre, h, p) ==
    \E row : Layout(c, Both, kTargetSeq, row) /\ Exact(it, pre, h, row) /\ Len(row) = p

\* The buffered tokens are decoded behind the row.
LEMMA Flushed ==
    ASSUME NEW it \in Items, NEW pre, NEW h, Heads(it, h), NEW c, NEW row,
           Layout(c, Both, kTargetSeq, row), Exact(it, pre, h, row),
           NEW p, NEW q, NEW at, Waiting(it, pre, h, row, p, q, at), at = Len(row),
           p <= Len(PromptOf(it))
    PROVE  /\ Accepts(c, kTargetSeq, at)
           /\ Reached(decode(c, q, kTargetSeq, at), it, pre, h, p)
<1>1. PICK n, m, t : n = Len(row) /\ m = Len(q) /\ t = PromptOf(it)
  OBVIOUS
<1>2. /\ q \in Seq(Token) /\ n + m = p /\ n + m <= Len(PromptOf(it)) /\ at = n
      /\ \A k \in 1 .. m : q[k] = PromptOf(it)[n + k]
      /\ \A x \in ForeignOf(it, pre, h) : x \notin n + 1 .. n + m
  BY <1>1 DEF Waiting
<1>3. /\ Exact(it, pre, h, row \o Decoded(row, q, kTargetSeq))
      /\ Len(row \o Decoded(row, q, kTargetSeq)) = n + m
  <2>1. Ahead(it, pre, h, row, q, n, m)
    BY Zenon, <1>1, <1>2 DEF Ahead
  <2> QED
    BY <2>1, ExactDecode
<1>4. /\ Accepts(c, kTargetSeq, Len(row))
      /\ Layout(decode(c, q, kTargetSeq, Len(row)), Both, kTargetSeq, row \o Decoded(row, q, kTargetSeq))
  BY <1>2, DecodeLayout
<1> QED
  BY <1>1, <1>2, <1>3, <1>4 DEF Reached

\* The cached part of a chunk is attached behind its head.
LEMMA TailAttached ==
    ASSUME NEW it \in Items, NEW pre \in BOOLEAN, NEW h, Heads(it, h), NEW c,
           NEW i \in 1 .. Len(it.size), NEW n, n = h[i], NEW z, z = it.size[i], n < z,
           NEW b, b = BeforeOf(it)[i], Reached(c, it, pre, h, b + n),
           NEW blob, BlobOf(blob, pre, it, i)
    PROVE  Reached(attach_tail(c, blob, pre, n, b), it, pre, h, BeforeOf(it)[i + 1])
<1>1. PICK row : Layout(c, Both, kTargetSeq, row) /\ Exact(it, pre, h, row) /\ Len(row) = b + n
  BY DEF Reached
<1>2. z \in Nat /\ n \in 0 .. z - 1 /\ b \in Nat /\ b >= Start(pre)
  <2>1. z \in Nat /\ PrefixLen \in Nat
    BY SizesOf
  <2>2. n \in 0 .. z
    BY DEF Heads
  <2>3. b \in Nat /\ b >= PrefixLen
    <3>1. PICK N : N = Len(it.size) /\ N \in Nat
      BY SizesOf
    <3>2. i \in 1 .. N
      BY <3>1
    <3>3. i \in 1 .. N + 1
      BY <3>1, <3>2
    <3> QED
      BY <3>1, <3>3, BeforeIs
  <2>4. Start(pre) <= PrefixLen
    BY <2>1 DEF Start
  <2>5. Start(pre) \in Nat
    BY <2>1 DEF Start
  <2>6. n \in 0 .. z - 1 /\ b >= Start(pre)
    BY <2>1, <2>2, <2>3, <2>4, <2>5
  <2> QED
    BY <2>1, <2>3, <2>6
<1>3. IsBlob(blob, pre, z)
  BY DEF BlobOf
<1>4. PICK ext : ext = AttachedRow(blob, pre, n, z, b)
  OBVIOUS
<1>5. /\ Layout(attach_tail(c, blob, pre, n, b), Both, kTargetSeq, row \o ext)
      /\ TailCells(blob, pre, b, n, z, ext)
  <2>1. Layout(c, Both, kTargetSeq, row) /\ Len(row) = b + n
    BY <1>1
  <2>2. /\ Layout(c, Both, kTargetSeq, row) /\ Len(row) = b + n /\ IsBlob(blob, pre, z)
        /\ n \in 0 .. z - 1 /\ b \in Nat /\ b >= Start(pre)
        /\ ext = AttachedRow(blob, pre, n, z, b)
    BY <1>2, <1>3, <1>4, <2>1
  <2> QED
    BY <2>2, AttachedTail
<1>6. AtTail(it, h, row, i, z, n, b)
  BY <1>1 DEF AtTail
<1>7. Exact(it, pre, h, row \o ext) /\ Len(row \o ext) = BeforeOf(it)[i + 1]
  BY <1>1, <1>5, <1>6, ExactAttach
<1> QED
  BY <1>5, <1>7 DEF Reached

\* The buffer q, whose tokens begin at the place at, with the head of the i-th chunk.
Queue(it, h, i, p, q, at, n, buffer, next) ==
    /\ n = h[i] /\ buffer = q \o SubSeq(Piece(it, i), 1, n)
    /\ next = IF n > 0 THEN (IF q = << >> THEN p ELSE at) ELSE at

\* The head of a chunk is queued.
LEMMA HeadQueued ==
    ASSUME NEW it \in Items, NEW pre, NEW h, Heads(it, h), NEW row, NEW p, NEW q, NEW at,
           Waiting(it, pre, h, row, p, q, at), Exact(it, pre, h, row),
           NEW i \in 1 .. Len(it.size), p = BeforeOf(it)[i],
           NEW n, NEW buffer, NEW next, Queue(it, h, i, p, q, at, n, buffer, next)
    PROVE  Waiting(it, pre, h, row, p + n, buffer, next)
<1>0. /\ n = h[i] /\ buffer = q \o SubSeq(Piece(it, i), 1, n)
      /\ next = IF n > 0 THEN (IF q = << >> THEN p ELSE at) ELSE at
  BY DEF Queue
<1>1. PICK l, m, z, w, t : /\ l = Len(row) /\ m = Len(q) /\ z = it.size[i] /\ t = PromptOf(it)
                           /\ w = SubSeq(Piece(it, i), 1, n)
  OBVIOUS
<1>2. /\ l \in Nat /\ m \in Nat /\ z \in Nat /\ n \in 0 .. z /\ l + m = p /\ p \in Nat
  <2>1. q \in Seq(Token) /\ l + m = p /\ row \in Seq(Cell)
    BY <1>1 DEF Waiting, Exact
  <2>2. l \in Nat /\ m \in Nat
    BY <1>1, <2>1, LenProperties
  <2>3. z \in Nat /\ n \in 0 .. z
    BY <1>0, <1>1, SizesOf DEF Heads
  <2> QED
    BY <2>1, <2>2, <2>3
<1>3. /\ w \in Seq(Token) /\ Len(w) = n /\ \A j \in 1 .. n : w[j] = Piece(it, i)[j]
  <2>1. Piece(it, i) \in Seq(Token) /\ Len(Piece(it, i)) = z
    BY <1>1, PiecesAre
  <2>2. n \in 0 .. Len(Piece(it, i))
    BY <1>2, <2>1
  <2> QED
    BY <1>1, <2>1, <2>2, FirstOf
<1>4. /\ buffer \in Seq(Token) /\ Len(buffer) = m + n
      /\ \A k \in 1 .. m : buffer[k] = q[k]
      /\ \A j \in 1 .. n : buffer[m + j] = w[j]
  <2>1. q \in Seq(Token) /\ w \in Seq(Token) /\ m = Len(q) /\ n = Len(w) /\ buffer = q \o w
    BY <1>0, <1>1, <1>3 DEF Waiting
  <2>2. /\ buffer \in Seq(Token) /\ Len(buffer) = m + n
        /\ \A k \in 1 .. m : buffer[k] = q[k]
        /\ \A j \in 1 .. n : buffer[m + j] = w[j]
    BY <2>1, JoinIs
  <2> QED
    BY <2>2
<1>5. \A k \in 1 .. m + n : buffer[k] = t[l + k]
  <2> SUFFICES ASSUME NEW k \in 1 .. m + n PROVE buffer[k] = t[l + k]
    OBVIOUS
  <2>1. CASE k <= m
    <3>1. k \in 1 .. m
      BY <1>2, <2>1
    <3>2. q[k] = t[l + k]
      BY <1>1, <3>1 DEF Waiting
    <3> QED
      BY <1>4, <3>1, <3>2
  <2>2. CASE k > m
    <3>1. PICK j : j = k - m
      OBVIOUS
    <3>2. j \in 1 .. n /\ k = m + j /\ l + k = p + j /\ j \in 1 .. z
      BY <1>2, <2>2, <3>1
    <3>3. t[p + j] = Piece(it, i)[j]
      BY <1>1, <3>2, PromptIs
    <3>4. buffer[m + j] = w[j] /\ w[j] = Piece(it, i)[j]
      <4>1. buffer[m + j] = w[j]
        <5>1. \A x \in 1 .. n : buffer[m + x] = w[x]
          BY <1>4
        <5> QED
          BY <3>2, <5>1
      <4> QED
        BY <1>3, <3>2, <4>1
    <3> QED
      BY <3>2, <3>3, <3>4
  <2>3. k <= m \/ k > m
    BY <1>2
  <2> QED
    BY <2>1, <2>2, <2>3
<1>6. buffer # << >> => next = l
  <2>1. CASE q = << >>
    <3>1. m = 0
      BY <1>1, <2>1
    <3>2. CASE n > 0
      <4>1. next = p
        BY Zenon, <1>0, <2>1, <3>2
      <4> QED
        BY <1>2, <3>1, <4>1
    <3>3. CASE n = 0
      <4>1. Len(buffer) = 0 /\ buffer \in Seq(Token)
        BY <1>4, <3>1, <3>3
      <4> QED
        BY <4>1, EmptySeq
    <3> QED
      BY <1>2, <3>2, <3>3
  <2>2. CASE q # << >>
    BY <1>0, <1>1, <2>2 DEF Waiting
  <2> QED
    BY <2>1, <2>2
<1>7. \A x \in ForeignOf(it, pre, h) : x \notin l + 1 .. p + n
  <2> SUFFICES ASSUME NEW x \in ForeignOf(it, pre, h), x \in l + 1 .. p + n PROVE FALSE
    OBVIOUS
  <2>1. x \notin l + 1 .. p
    BY <1>1 DEF Waiting
  <2>2. x \in p + 1 .. p + n
    BY <1>2, <2>1
  <2>3. PICK e : e = BeforeOf(it)[i + 1]
    OBVIOUS
  <2>4. e = p + z
    BY <1>1, <2>3, BeforeIs
  <2>5. x \in p + 1 .. e
    BY <1>2, <2>2, <2>4
  <2>6. x > p + n
    BY <1>0, <2>3, <2>5, ForeignPlaces
  <2> QED
    BY <1>2, <2>2, <2>6
<1>8. l + (m + n) = p + n
  BY <1>2
<1> QED
  BY <1>1, <1>4, <1>5, <1>6, <1>7, <1>8 DEF Waiting

\* The places of the chunks, for a chunk with a name.
LEMMA PlaceOf ==
    ASSUME NEW it \in Items, NEW i \in 1 .. Len(it.size), NEW z, z = it.size[i],
           NEW b, b = BeforeOf(it)[i]
    PROVE  /\ z \in Nat /\ z >= 1 /\ b \in Nat /\ BeforeOf(it)[i + 1] = b + z
           /\ Len(PromptOf(it)) \in Nat /\ b + z <= Len(PromptOf(it))
<1>1. PICK N : N = Len(it.size) /\ N \in Nat
  BY SizesOf
<1>2. i \in 1 .. N /\ i \in 1 .. N + 1 /\ N + 1 \in i + 1 .. N + 1
  <2>1. i \in 1 .. N
    BY <1>1
  <2> QED
    BY <1>1, <2>1
<1>3. z \in Nat /\ z >= 1 /\ SuffixLen \in Nat
  BY SizesOf
<1>4. b \in Nat /\ BeforeOf(it)[i + 1] = b + z /\ BeforeOf(it)[N + 1] \in Nat
  <2>1. N + 1 \in 1 .. N + 1
    BY <1>1
  <2> QED
    BY <1>1, <1>2, <2>1, BeforeIs
<1>5. b + z <= BeforeOf(it)[N + 1]
  BY <1>1, <1>2, BeforeOrder
<1>6. PICK e : e = BeforeOf(it)[N + 1]
  OBVIOUS
<1>7. Len(PromptOf(it)) = e + SuffixLen
  BY <1>1, <1>6, PromptIs
<1>8. e \in Nat /\ b + z <= e
  BY <1>4, <1>5, <1>6
<1>9. e + SuffixLen \in Nat /\ b + z <= e + SuffixLen
  BY <1>3, <1>4, <1>8
<1> QED
  BY <1>3, <1>4, <1>7, <1>9

\* Without a buffer the row ends where the next chunk begins.
LEMMA NothingWaits ==
    ASSUME NEW it, NEW pre, NEW h, NEW c, NEW i, NEW p, p \in Nat, Reached(c, it, pre, h, p),
           p = BeforeOf(it)[i], NEW at
    PROVE  Building(c, it, pre, h, i, p, << >>, at)
<1>1. PICK row : Layout(c, Both, kTargetSeq, row) /\ Exact(it, pre, h, row) /\ Len(row) = p
  BY DEF Reached
<1>2. Waiting(it, pre, h, row, p, << >>, at)
  <2>1. \A x : x \notin Len(row) + 1 .. p
    <3>1. \A x : x \notin p + 1 .. p
      OBVIOUS
    <3> QED
      BY <1>1, <3>1
  <2>2. << >> \in Seq(Token) /\ Len(<< >>) = 0
    OBVIOUS
  <2>3. Len(row) + Len(<< >>) = p
    BY <1>1, <2>2
  <2>4. \A k : k \notin 1 .. Len(<< >>)
    BY <2>2
  <2> QED
    BY <2>1, <2>2, <2>3, <2>4 DEF Waiting
<1> QED
  BY <1>1, <1>2 DEF Building

\* Tokens in the buffer are decoded.
Flush(c, buffer, next, d) ==
    d = IF buffer # << >> THEN decode(c, buffer, kTargetSeq, next) ELSE c

Taken(c, buffer, next) == buffer # << >> => Accepts(c, kTargetSeq, next)

\* One iteration over the chunks: the head is queued; tokens in the buffer are decoded before
\* the rest is attached behind them.
LEMMA ChunkIs ==
    ASSUME NEW it \in Items, NEW pre \in BOOLEAN, NEW h, Heads(it, h), NEW c,
           NEW i \in 1 .. Len(it.size), NEW p, NEW q, NEW at, Building(c, it, pre, h, i, p, q, at),
           NEW n, NEW z, z = it.size[i], NEW buffer, NEW next, Queue(it, h, i, p, q, at, n, buffer, next),
           NEW d, Flush(c, buffer, next, d), NEW blob, BlobOf(blob, pre, it, i)
    PROVE  /\ n = z => Building(c, it, pre, h, i + 1, p + z, buffer, next)
           /\ n < z => /\ Taken(c, buffer, next)
                       /\ Building(attach_tail(d, blob, pre, n, p), it, pre, h, i + 1, p + z, << >>, next)
<1>1. PICK row : /\ Layout(c, Both, kTargetSeq, row) /\ Exact(it, pre, h, row)
                 /\ p = BeforeOf(it)[i] /\ Waiting(it, pre, h, row, p, q, at)
  BY DEF Building
<1>2. /\ z \in Nat /\ p \in Nat /\ BeforeOf(it)[i + 1] = p + z
      /\ Len(PromptOf(it)) \in Nat /\ p + z <= Len(PromptOf(it)) /\ n \in 0 .. z /\ n = h[i]
  <2>0. n = h[i]
    BY DEF Queue
  <2>1. n \in 0 .. z /\ n = h[i]
    BY <2>0 DEF Heads
  <2> QED
    BY <1>1, <2>1, PlaceOf
<1>3. Waiting(it, pre, h, row, p + n, buffer, next)
  BY <1>1, HeadQueued
<1>4. ASSUME n = z PROVE Building(c, it, pre, h, i + 1, p + z, buffer, next)
  BY <1>1, <1>2, <1>3, <1>4 DEF Building
<1>5. ASSUME n < z
      PROVE  /\ Taken(c, buffer, next)
             /\ Building(attach_tail(d, blob, pre, n, p), it, pre, h, i + 1, p + z, << >>, next)
  <2>1. p + n <= Len(PromptOf(it))
    BY <1>2, <1>5
  <2>2. Taken(c, buffer, next) /\ Reached(d, it, pre, h, p + n)
    <3>1. CASE buffer # << >>
      <4>1. next = Len(row)
        BY <1>3, <3>1 DEF Waiting
      <4>2. Accepts(c, kTargetSeq, next) /\ Reached(decode(c, buffer, kTargetSeq, next), it, pre, h, p + n)
        <5>1. /\ Layout(c, Both, kTargetSeq, row) /\ Exact(it, pre, h, row)
              /\ Waiting(it, pre, h, row, p + n, buffer, next) /\ next = Len(row)
              /\ p + n <= Len(PromptOf(it)) /\ Heads(it, h)
          BY <1>1, <1>3, <2>1, <4>1
        <5> QED
          BY Zenon, <5>1, Flushed
      <4>3. d = decode(c, buffer, kTargetSeq, next)
        BY Zenon, <3>1 DEF Flush
      <4> QED
        BY Zenon, <4>2, <4>3 DEF Taken
    <3>2. CASE buffer = << >>
      <4>1. Len(row) + Len(buffer) = p + n /\ row \in Seq(Cell)
        BY <1>1, <1>3 DEF Waiting, Exact
      <4>2. Len(buffer) = 0 /\ Len(row) \in Nat
        BY <3>2, <4>1, LenProperties
      <4>3. Len(row) = p + n
        <5>1. PICK x, y, s : x = Len(row) /\ y = Len(buffer) /\ s = p + n
          OBVIOUS
        <5>2. x + y = s /\ y = 0 /\ x \in Nat
          BY Zenon, <4>1, <4>2, <5>1
        <5>3. x = s
          BY <5>2
        <5> QED
          BY Zenon, <5>1, <5>3
      <4>4. d = c
        BY Zenon, <3>2 DEF Flush
      <4> QED
        BY Zenon, <1>1, <3>2, <4>3, <4>4 DEF Reached, Taken
    <3> QED
      BY <3>1, <3>2
  <2>3. Reached(attach_tail(d, blob, pre, n, p), it, pre, h, BeforeOf(it)[i + 1])
    BY <1>1, <1>2, <1>5, <2>2, TailAttached
  <2>4. p + z \in Nat
    BY <1>2
  <2>5. Building(attach_tail(d, blob, pre, n, p), it, pre, h, i + 1, p + z, << >>, next)
    BY <1>2, <2>3, <2>4, NothingWaits
  <2> QED
    BY <2>2, <2>5
<1> QED
  BY <1>4, <1>5

\* The question is decoded with what the buffer holds, and the logits are read.
LEMMA SuffixIs ==
    ASSUME NEW it \in Items, NEW pre, NEW h, Heads(it, h), NEW c, NEW p, NEW q, NEW at,
           Building(c, it, pre, h, Len(it.size) + 1, p, q, at),
           NEW b, b = IF q = << >> THEN p ELSE at,
           NEW d, d = decode(c, q \o suffix, kTargetSeq, b)
    PROVE  /\ Accepts(c, kTargetSeq, b)
           /\ Answering(d, it, pre, h, p, 0, Row(d, kTargetSeq))
<1>1. PICK row : /\ Layout(c, Both, kTargetSeq, row) /\ Exact(it, pre, h, row)
                 /\ p = BeforeOf(it)[Len(it.size) + 1] /\ Waiting(it, pre, h, row, p, q, at)
  BY DEF Building
<1>2. PICK l, m, t, w : l = Len(row) /\ m = Len(q) /\ t = PromptOf(it) /\ w = q \o suffix
  OBVIOUS
<1>3. /\ l \in Nat /\ m \in Nat /\ l + m = p /\ p \in Nat /\ SuffixLen \in Nat
      /\ Len(t) = p + SuffixLen
  <2>1. row \in Seq(Cell) /\ q \in Seq(Token) /\ l + m = p
    BY <1>1, <1>2 DEF Exact, Waiting
  <2>2. l \in Nat /\ m \in Nat
    BY <1>2, <2>1, LenProperties
  <2>3. Len(t) = p + SuffixLen /\ SuffixLen \in Nat
    BY <1>1, <1>2, PromptIs, SizesOf
  <2>4. p \in Nat
    BY <2>1, <2>2
  <2> QED
    BY <2>1, <2>2, <2>3, <2>4
<1>4. b = l
  <2>1. CASE q = << >>
    <3>1. m = 0
      BY <1>2, <2>1
    <3>2. b = p
      BY <2>1
    <3> QED
      BY <1>3, <3>1, <3>2
  <2>2. CASE q # << >>
    BY <1>1, <1>2, <2>2 DEF Waiting
  <2> QED
    BY <2>1, <2>2
<1>5. /\ w \in Seq(Token) /\ Len(w) = m + SuffixLen
      /\ \A k \in 1 .. m : w[k] = q[k]
      /\ \A j \in 1 .. SuffixLen : w[m + j] = suffix[j]
  <2>1. suffix \in Seq(Token) /\ Len(suffix) = SuffixLen
    BY <1>3, TokensIs DEF suffix
  <2>2. q \in Seq(Token)
    BY <1>1 DEF Waiting
  <2>3. /\ q \in Seq(Token) /\ suffix \in Seq(Token) /\ w = q \o suffix
        /\ m = Len(q) /\ SuffixLen = Len(suffix)
    BY <1>2, <2>1, <2>2
  <2>4. /\ w \in Seq(Token) /\ Len(w) = m + SuffixLen
        /\ \A k \in 1 .. m : w[k] = q[k]
        /\ \A j \in 1 .. SuffixLen : w[m + j] = suffix[j]
    BY <2>3, JoinIs
  <2> QED
    BY <2>4
<1>6. \A k \in 1 .. m + SuffixLen : w[k] = t[l + k]
  <2> SUFFICES ASSUME NEW k \in 1 .. m + SuffixLen PROVE w[k] = t[l + k]
    OBVIOUS
  <2>1. CASE k <= m
    <3>1. k \in 1 .. m
      BY <1>3, <2>1
    <3>2. q[k] = t[l + k]
      BY <1>1, <1>2, <3>1 DEF Waiting
    <3> QED
      BY <1>5, <3>1, <3>2
  <2>2. CASE k > m
    <3>1. PICK j : j = k - m
      OBVIOUS
    <3>2. j \in 1 .. SuffixLen /\ k = m + j /\ l + k = p + j
      BY <1>3, <2>2, <3>1
    <3>3. t[p + j] = suffix[j]
      BY <1>1, <1>2, <3>2, PromptIs
    <3>4. w[m + j] = suffix[j]
      <4>1. \A x \in 1 .. SuffixLen : w[m + x] = suffix[x]
        BY <1>5
      <4> QED
        BY <3>2, <4>1
    <3> QED
      BY <3>2, <3>3, <3>4
  <2>3. k <= m \/ k > m
    BY <1>3
  <2> QED
    BY <2>1, <2>2, <2>3
<1>7. \A x \in ForeignOf(it, pre, h) : x \notin l + 1 .. l + (m + SuffixLen)
  <2> SUFFICES ASSUME NEW x \in ForeignOf(it, pre, h), x \in l + 1 .. l + (m + SuffixLen) PROVE FALSE
    OBVIOUS
  <2>1. x \notin l + 1 .. p
    BY <1>1, <1>2 DEF Waiting
  <2>2. x \in Nat /\ x <= p
    BY <1>1, ForeignBehind
  <2> QED
    BY <1>3, <2>1, <2>2
<1>8. PICK r : r = row \o Decoded(row, w, kTargetSeq)
  OBVIOUS
<1>9. Exact(it, pre, h, r) /\ Len(r) = Len(t)
  <2>1. PICK s : s = Len(w)
    OBVIOUS
  <2>2. s = m + SuffixLen
    BY <1>5, <2>1
  <2>3. l + s <= Len(PromptOf(it)) /\ l + s = Len(t)
    <3>1. l + s = p + SuffixLen
      BY <1>3, <2>2
    <3>2. l + s = Len(t)
      BY <1>3, <3>1
    <3>3. l + s <= l + s
      BY <1>3, <2>2
    <3> QED
      BY <1>2, <3>2, <3>3
  <2>4. Ahead(it, pre, h, row, w, l, s) /\ Exact(it, pre, h, row)
    BY Zenon, <1>1, <1>2, <1>5, <1>6, <1>7, <2>1, <2>2, <2>3 DEF Ahead
  <2>5. /\ Exact(it, pre, h, row \o Decoded(row, w, kTargetSeq))
        /\ Len(row \o Decoded(row, w, kTargetSeq)) = l + s
    BY <2>4, ExactDecode
  <2> QED
    BY <1>8, <2>3, <2>5
<1>10. Accepts(c, kTargetSeq, b) /\ Layout(d, Both, kTargetSeq, r)
  <2>1. /\ Accepts(c, kTargetSeq, Len(row))
        /\ Layout(decode(c, w, kTargetSeq, Len(row)), Both, kTargetSeq, row \o Decoded(row, w, kTargetSeq))
    BY <1>1, <1>5, DecodeLayout
  <2> QED
    BY <1>2, <1>4, <1>8, <2>1
<1>11. Row(d, kTargetSeq) = r
  BY <1>10, RowIs DEF Layout, Near
<1>12. Answering(d, it, pre, h, p, 0, r)
  <2>1. p + SuffixLen = Len(PromptOf(it)) /\ Len(r) = Len(PromptOf(it)) /\ Len(r) = Len(r) + 0
    <3>1. Len(r) \in Nat
      BY <1>3, <1>9
    <3> QED
      BY <1>2, <1>3, <1>9, <3>1
  <2>2. \A k \in 1 .. 0 : r[Len(r) + k].tok = <<"answer", k>>
    OBVIOUS
  <2> QED
    BY <1>9, <1>10, <2>1, <2>2 DEF Answering
<1> QED
  BY <1>10, <1>11, <1>12

\* One more token of the answer.
LEMMA AnswerIs ==
    ASSUME NEW it \in Items, NEW pre, NEW h, NEW c, NEW p, NEW a, NEW l,
           Answering(c, it, pre, h, p, a, l),
           NEW at, at = p + SuffixLen + a,
           NEW d, d = decode(c, <<<<"answer", a + 1>>>>, kTargetSeq, at)
    PROVE  /\ Accepts(c, kTargetSeq, at)
           /\ Answering(d, it, pre, h, p, a + 1, l)
<1>1. PICK n : n = Len(l)
  OBVIOUS
<1>2. /\ p + SuffixLen = n /\ a \in Nat /\ n \in Nat
      /\ Exact(it, pre, h, l) /\ n = Len(PromptOf(it))
  <2>1. /\ p + SuffixLen = Len(PromptOf(it)) /\ a \in Nat /\ Exact(it, pre, h, l)
        /\ Len(l) = Len(PromptOf(it)) /\ l \in Seq(Cell)
    BY DEF Answering, Exact
  <2>2. n \in Nat
    BY <1>1, <2>1, LenProperties
  <2> QED
    BY <1>1, <2>1, <2>2
<1>3. PICK row : /\ Layout(c, Both, kTargetSeq, row) /\ Len(row) = n + a
                 /\ \A k \in 1 .. n : row[k] = l[k]
                 /\ \A k \in 1 .. a : row[n + k].tok = <<"answer", k>>
  BY <1>1 DEF Answering
<1>4. at = Len(row)
  BY <1>2, <1>3
<1>5. PICK token, q : token = <<"answer", a + 1>> /\ q = <<token>>
  OBVIOUS
<1>6. token \in Token
  BY <1>2, <1>5 DEF Token
<1>7. q \in Seq(Token) /\ Len(q) = 1 /\ q[1] = token
  BY <1>5, <1>6, OneToken
<1>8. PICK ext, r : ext = Decoded(row, q, kTargetSeq) /\ r = row \o ext
  OBVIOUS
<1>9. Accepts(c, kTargetSeq, at) /\ Layout(d, Both, kTargetSeq, r)
  <2>1. /\ Accepts(c, kTargetSeq, Len(row))
        /\ Layout(decode(c, q, kTargetSeq, Len(row)), Both, kTargetSeq, row \o Decoded(row, q, kTargetSeq))
    BY <1>3, <1>7, DecodeLayout
  <2> QED
    BY <1>4, <1>5, <1>8, <2>1
<1>10. row \in Seq(Cell)
  BY <1>3 DEF Layout, Holds
<1>11. ext \in Seq(Cell) /\ Len(ext) = 1 /\ ext[1].tok = token
  <2>1. kTargetSeq \in Sequences
    BY DEF Sequences
  <2>2. PICK o : /\ ext \in Seq(Cell) /\ Len(ext) = Len(q)
                 /\ ext[1] = [pos |-> Len(row) + 1 - 1, tok |-> q[1], seqs |-> {kTargetSeq}, of |-> o]
    <3>1. 1 \in 1 .. Len(q)
      BY <1>7
    <3>2. PICK o : o = IF Pure(row) THEN Toks(row) \o SubSeq(q, 1, 1) ELSE << >>
      OBVIOUS
    <3>3. /\ ext \in Seq(Cell) /\ Len(ext) = Len(q)
          /\ \A k \in 1 .. Len(q) :
                 ext[k] = [pos |-> Len(row) + k - 1, tok |-> q[k], seqs |-> {kTargetSeq},
                           of |-> IF Pure(row) THEN Toks(row) \o SubSeq(q, 1, k) ELSE << >>]
      BY Zenon, <1>7, <1>8, <1>10, <2>1, DecodedIs
    <3>4. ext[1] = [pos |-> Len(row) + 1 - 1, tok |-> q[1], seqs |-> {kTargetSeq}, of |-> o]
      BY Zenon, <3>1, <3>2, <3>3
    <3> QED
      BY Zenon, <3>3, <3>4
  <2>3. ext[1].tok = q[1]
    BY <2>2
  <2> QED
    BY <1>7, <2>2, <2>3
<1>12. PICK x : x = Len(row)
  OBVIOUS
<1>13. x = n + a /\ x \in Nat
  BY <1>2, <1>3, <1>12
<1>14. /\ Len(r) = x + 1
       /\ \A k \in 1 .. x : r[k] = row[k]
       /\ \A j \in 1 .. 1 : r[x + j] = ext[j]
  <2>1. PICK u : u = 1
    OBVIOUS
  <2>2. r = row \o ext /\ row \in Seq(Cell) /\ ext \in Seq(Cell) /\ x = Len(row) /\ u = Len(ext)
    BY Zenon, <1>8, <1>10, <1>11, <1>12, <2>1
  <2>3. /\ Len(r) = x + u
        /\ \A k \in 1 .. x : r[k] = row[k]
        /\ \A j \in 1 .. u : r[x + j] = ext[j]
    BY <2>2, JoinIs
  <2> QED
    BY Zenon, <2>1, <2>3
<1>15. Len(r) = n + (a + 1) /\ a + 1 \in Nat
  BY <1>2, <1>13, <1>14
<1>16. \A k \in 1 .. n : r[k] = l[k]
  <2>1. \A k \in 1 .. n : k \in 1 .. x
    BY <1>2, <1>13
  <2> QED
    BY <1>3, <1>14, <2>1
<1>17. \A k \in 1 .. a + 1 : r[n + k].tok = <<"answer", k>>
  <2> SUFFICES ASSUME NEW k \in 1 .. a + 1 PROVE r[n + k].tok = <<"answer", k>>
    OBVIOUS
  <2>1. CASE k = a + 1
    <3>1. n + k = x + 1 /\ 1 \in 1 .. 1
      BY <1>2, <1>13, <2>1
    <3>2. r[x + 1] = ext[1]
      BY <1>14, <3>1
    <3> QED
      BY <1>5, <1>11, <2>1, <3>1, <3>2
  <2>2. CASE k # a + 1
    <3>1. k \in 1 .. a /\ n + k \in 1 .. x
      BY <1>2, <1>13, <2>2
    <3> QED
      BY <1>3, <1>14, <3>1
  <2> QED
    BY <2>1, <2>2
<1>18. Answering(d, it, pre, h, p, a + 1, l)
  BY <1>1, <1>2, <1>9, <1>15, <1>16, <1>17 DEF Answering
<1> QED
  BY <1>9, <1>18

\* At the end the target is removed, and what was read is compared.
LEMMA FinishIs ==
    ASSUME NEW it \in Items, NEW pre, NEW h, NEW c, NEW p, NEW a, NEW l,
           Answering(c, it, pre, h, p, a, l)
    PROVE  /\ Rests(remove_sequence(c, kTargetSeq))
           /\ (\A i \in 1 .. Len(it.size) : h[i] = it.size[i]) => l = FullRow(it)
<1>1. Rests(remove_sequence(c, kTargetSeq))
  <2>1. PICK row : Layout(c, Both, kTargetSeq, row)
    BY DEF Answering
  <2>2. Near(c, Both, kTargetSeq)
    BY <2>1 DEF Layout
  <2> QED
    BY <2>2, RemoveNear
<1>2. ASSUME \A i \in 1 .. Len(it.size) : h[i] = it.size[i] PROVE l = FullRow(it)
  <2>1. ForeignOf(it, pre, h) = {}
    BY <1>2, ForeignNone
  <2>2. Exact(it, pre, h, l) /\ Len(l) = Len(PromptOf(it))
    BY DEF Answering
  <2> QED
    BY <2>1, <2>2, ExactFull
<1> QED
  BY <1>1, <1>2

\* A run begins with the prefix, which the target shares.
LEMMA BeginIs ==
    ASSUME NEW it \in Items, NEW pre, NEW h, Heads(it, h), NEW c, Rests(c), NEW at
    PROVE  Building(seq_cp(remove_sequence(c, kTargetSeq), kPrefixSeq, kTargetSeq), it, pre, h,
                    1, PrefixLen, << >>, at)
<1>1. remove_sequence(c, kTargetSeq) = c
  <2>1. Memory(c) /\ \A i \in DOMAIN c : c[i].seqs = {kPrefixSeq}
    BY DEF Rests
  <2>2. Of(c, kTargetSeq) = {}
    BY <2>1 DEF Of, kPrefixSeq, kTargetSeq
  <2> QED
    BY <2>1, <2>2, RemoveNothing
<1>2. kTargetSeq \in Others
  BY DEF Others, Sequences, kPrefixSeq, kTargetSeq
<1>3. Layout(seq_cp(c, kPrefixSeq, kTargetSeq), Both, kTargetSeq, PrefixRow(Both))
  BY <1>2, CopyRests DEF Both
<1>4. PrefixLen = BeforeOf(it)[1] /\ PrefixLen \in Nat
  BY BeforeIs, SizesOf
<1>5. Exact(it, pre, h, PrefixRow(Both)) /\ Len(PrefixRow(Both)) = PrefixLen
  BY <1>4, ExactPrefix DEF Both
<1>6. Reached(seq_cp(c, kPrefixSeq, kTargetSeq), it, pre, h, PrefixLen)
  BY <1>3, <1>5 DEF Reached
<1>7. Building(seq_cp(c, kPrefixSeq, kTargetSeq), it, pre, h, 1, PrefixLen, << >>, at)
  BY <1>4, <1>6, NothingWaits
<1> QED
  BY <1>1, <1>7

\* A run begins with the prefix in the target and an empty buffer.
LEMMA BeginStep ==
    ASSUME ChunkInv, NEW v \in Variants \cup {Full}, Begin(v)
    PROVE  ChunkInv'
<1>1. /\ pc \in {"full", "variant"} /\ Rests(cells) /\ item \in Items
      /\ Cached(cache, item, Len(item.size))
      /\ v # Full => pc = "variant"
  BY DEF Begin, ChunkInv, Settled, Snapshots, Resting
<1>2. /\ cells' = seq_cp(remove_sequence(cells, kTargetSeq), kPrefixSeq, kTargetSeq)
      /\ index' = 1 /\ position' = PrefixLen /\ pending' = << >> /\ pc' = "chunk" /\ answer' = 0
      /\ item' = item /\ cache' = cache /\ variant' = v /\ full_logits' = full_logits
  BY DEF Begin
<1>3. item' \in Items /\ variant' \in Variants \cup {Full}
  BY <1>1, <1>2
<1>4. Heads(item', HeadsNow')
  BY <1>3, HeadsLater
<1>5. PICK it, pre, h, c, at : /\ it = item /\ pre = (spec').prefixed /\ h = HeadsNow' /\ c = cells
                               /\ at = pending_position'
  OBVIOUS
<1>6. Building(seq_cp(remove_sequence(c, kTargetSeq), kPrefixSeq, kTargetSeq), it, pre, h,
               1, PrefixLen, << >>, at)
  <2>1. it \in Items /\ Heads(it, h) /\ Rests(c)
    BY Zenon, <1>1, <1>2, <1>4, <1>5
  <2> QED
    BY <2>1, BeginIs
<1>7. Building(cells', item', (spec').prefixed, HeadsNow', index', position', pending', pending_position')
  BY Zenon, <1>2, <1>5, <1>6
<1>8. index' \in 1 .. Len(item'.size)
  <2>1. PICK N : N = Len(item.size) /\ N \in Nat /\ N >= 1
    BY <1>1, SizesOf
  <2>2. 1 \in 1 .. N
    BY <2>1
  <2> QED
    BY Zenon, <1>2, <2>1, <2>2
<1>9. Composition'
  BY <1>2, <1>7, <1>8 DEF Composition
<1>10. Settled'
  BY <1>2, <1>3 DEF Settled, Places, Resting
<1>11. Snapshots'
  <2>1. Cached(cache', item', Len(item'.size))
    BY Zenon, <1>1, <1>2
  <2> QED
    BY <1>2, <2>1 DEF Snapshots
<1>12. Reference'
  <2>1. v # Full => full_logits' = FullRow(item')
    <3> SUFFICES ASSUME v # Full PROVE full_logits' = FullRow(item')
      OBVIOUS
    <3>1. full_logits = FullRow(item)
      BY <1>1 DEF ChunkInv, Reference
    <3> QED
      BY Zenon, <1>2, <3>1
  <2> QED
    BY <1>2, <2>1 DEF Reference
<1> QED
  BY <1>9, <1>10, <1>11, <1>12 DEF ChunkInv

\* An iteration over the chunks leads to the place of the next chunk.
LEMMA ChunkStep ==
    ASSUME ChunkInv, Chunk
    PROVE  ChunkInv'
<1>1. /\ pc = "chunk" /\ item \in Items /\ variant \in Variants \cup {Full}
      /\ index \in 1 .. Len(item.size) /\ Cached(cache, item, Len(item.size))
      /\ Building(cells, item, spec.prefixed, HeadsNow, index, position, pending, pending_position)
      /\ answer = 0 /\ (variant # Full => full_logits = FullRow(item))
  BY DEF Chunk, ChunkInv, Settled, Snapshots, Composition, Reference
<1>2. PICK it, i, c, h, pre, p, q, was :
          /\ it = item /\ i = index /\ c = cells /\ h = HeadsNow /\ pre = spec.prefixed
          /\ p = position /\ q = pending /\ was = pending_position
  OBVIOUS
<1>3. /\ it \in Items /\ i \in 1 .. Len(it.size) /\ Building(c, it, pre, h, i, p, q, was)
      /\ pre \in BOOLEAN /\ Heads(it, h) /\ recomputed(index) = h[i]
  BY Zenon, <1>1, <1>2, HeadsAre
<1>4. PICK n, z, buffer, next :
          /\ n = h[i] /\ z = it.size[i] /\ buffer = q \o SubSeq(Piece(it, i), 1, n)
          /\ next = IF n > 0 THEN (IF q = << >> THEN p ELSE was) ELSE was
  OBVIOUS
<1>5. PICK blob : blob = IF pre THEN cache.prefixed[i] ELSE cache.naive[i]
  OBVIOUS
<1>6. BlobOf(blob, pre, it, i)
  <2>1. BlobOf(cache.naive[i], FALSE, it, i) /\ BlobOf(cache.prefixed[i], TRUE, it, i)
    BY <1>1, <1>2, <1>3 DEF Cached
  <2> QED
    BY Zenon, <1>3, <1>5, <2>1
<1>7. PICK d : Flush(c, buffer, next, d)
  BY DEF Flush
<1>8. /\ n = z => Building(c, it, pre, h, i + 1, p + z, buffer, next)
      /\ n < z => /\ Taken(c, buffer, next)
                  /\ Building(attach_tail(d, blob, pre, n, p), it, pre, h, i + 1, p + z, << >>, next)
  <2>1. /\ Queue(it, h, i, p, q, was, n, buffer, next) /\ Flush(c, buffer, next, d) /\ z = it.size[i]
        /\ BlobOf(blob, pre, it, i) /\ Building(c, it, pre, h, i, p, q, was)
        /\ it \in Items /\ i \in 1 .. Len(it.size) /\ pre \in BOOLEAN /\ Heads(it, h)
    BY Zenon, <1>3, <1>4, <1>6, <1>7 DEF Queue
  <2>2. n = z => Building(c, it, pre, h, i + 1, p + z, buffer, next)
    BY <2>1, ChunkIs
  <2>3. n < z => Taken(c, buffer, next)
    BY <2>1, ChunkIs
  <2>4. n < z => Building(attach_tail(d, blob, pre, n, p), it, pre, h, i + 1, p + z, << >>, next)
    BY <2>1, ChunkIs
  <2> QED
    BY <2>2, <2>3, <2>4
<1>9. z \in Nat /\ n \in 0 .. z
  BY <1>3, <1>4, PlaceOf DEF Heads
<1>10. PICK flush : flush = (z - n > 0 /\ buffer # << >>)
  OBVIOUS
<1>11. /\ cells' = IF n < z THEN attach_tail(IF flush THEN decode(c, buffer, kTargetSeq, next) ELSE c,
                                             blob, pre, n, p)
                   ELSE (IF flush THEN decode(c, buffer, kTargetSeq, next) ELSE c)
       /\ pending' = (IF flush THEN << >> ELSE buffer)
       /\ pending_position' = next /\ position' = p + z /\ index' = i + 1
       /\ Step(flush => Accepts(c, kTargetSeq, next), IF i = Len(it.size) THEN "suffix" ELSE "chunk")
       /\ item' = item /\ cache' = cache /\ variant' = variant /\ full_logits' = full_logits
       /\ answer' = answer
  <2>1. chunk(index) = Piece(it, i) /\ item.size[index] = z
    BY <1>1, <1>2, <1>4 DEF chunk, Piece
  <2>2. recomputed(index) = n
    BY <1>3, <1>4
  <2> QED
    BY Zenon, <1>2, <1>4, <1>5, <1>10, <2>1, <2>2 DEF Chunk, Flushes, Buffered
<1>12. /\ flush => Accepts(c, kTargetSeq, next)
       /\ Building(cells', it, pre, h, i + 1, p + z, pending', next)
  <2>1. CASE n = z
    <3>1. ~ (n < z) /\ ~ (z - n > 0)
      BY <1>9, <2>1
    <3>2. ~ flush
      BY Zenon, <1>10, <3>1
    <3>3. cells' = c /\ pending' = buffer
      BY Zenon, <1>11, <3>1, <3>2
    <3> QED
      BY Zenon, <1>8, <2>1, <3>2, <3>3
  <2>2. CASE n # z
    <3>1. n < z /\ z - n > 0
      BY <1>9, <2>2
    <3>2. flush <=> buffer # << >>
      BY Zenon, <1>10, <3>1
    <3>3. cells' = attach_tail(d, blob, pre, n, p) /\ pending' = << >>
      BY Zenon, <1>7, <1>11, <3>1, <3>2 DEF Flush
    <3> QED
      BY Zenon, <1>8, <3>1, <3>2, <3>3 DEF Taken
  <2> QED
    BY <2>1, <2>2
<1>13. HeadsNow' = h /\ (spec').prefixed = pre
  BY Zenon, <1>2, <1>11, SameHeads
<1>14. Building(cells', item', (spec').prefixed, HeadsNow', index', position', pending', pending_position')
  BY Zenon, <1>2, <1>11, <1>12, <1>13
<1>15. pc' = IF i = Len(it.size) THEN "suffix" ELSE "chunk"
  BY Zenon, <1>11, <1>12 DEF Step
<1>16. pc' \in {"suffix", "chunk"}
  BY <1>15
<1>17. Composition'
  <2>1. pc' = "chunk" => index' \in 1 .. Len(item'.size)
    <3> SUFFICES ASSUME pc' = "chunk" PROVE index' \in 1 .. Len(item'.size)
      OBVIOUS
    <3>1. i # Len(it.size)
      BY <1>15
    <3>2. PICK N : N = Len(it.size) /\ N \in Nat
      BY <1>3, SizesOf
    <3>3. i + 1 \in 1 .. N
      <4>1. i \in 1 .. N /\ i # N
        BY <1>3, <3>1, <3>2
      <4> QED
        BY <3>2, <4>1
    <3> QED
      BY Zenon, <1>2, <1>11, <3>2, <3>3
  <2>2. pc' = "suffix" => index' = Len(item'.size) + 1
    <3> SUFFICES ASSUME pc' = "suffix" PROVE index' = Len(item'.size) + 1
      OBVIOUS
    <3>1. i = Len(it.size)
      BY <1>15
    <3> QED
      BY Zenon, <1>2, <1>11, <3>1
  <2>3. answer' = 0
    BY <1>1, <1>11
  <2> QED
    BY <1>14, <1>16, <2>1, <2>2, <2>3 DEF Composition
<1>18. Settled'
  BY <1>1, <1>11, <1>16 DEF Settled, Places, Resting
<1>19. Snapshots'
  <2>1. Cached(cache', item', Len(item'.size))
    BY Zenon, <1>1, <1>11
  <2> QED
    BY <1>16, <2>1 DEF Snapshots
<1>20. Reference'
  <2>1. variant' # Full => full_logits' = FullRow(item')
    BY Zenon, <1>1, <1>11
  <2> QED
    BY <1>16, <2>1 DEF Reference
<1> QED
  BY <1>17, <1>18, <1>19, <1>20 DEF ChunkInv

\* The logits are read when the target holds the whole prompt.
LEMMA SuffixStep ==
    ASSUME ChunkInv, Suffix
    PROVE  ChunkInv'
<1>1. /\ pc = "suffix" /\ item \in Items /\ variant \in Variants \cup {Full}
      /\ index = Len(item.size) + 1 /\ Cached(cache, item, Len(item.size))
      /\ Building(cells, item, spec.prefixed, HeadsNow, index, position, pending, pending_position)
      /\ answer = 0 /\ (variant # Full => full_logits = FullRow(item))
  BY DEF Suffix, ChunkInv, Settled, Snapshots, Composition, Reference
<1>2. PICK it, c, h, pre, p, q, was, b, d :
          /\ it = item /\ c = cells /\ h = HeadsNow /\ pre = spec.prefixed
          /\ p = position /\ q = pending /\ was = pending_position
          /\ b = IF q = << >> THEN p ELSE was
          /\ d = decode(c, q \o suffix, kTargetSeq, b)
  OBVIOUS
<1>3. it \in Items /\ Heads(it, h) /\ Building(c, it, pre, h, Len(it.size) + 1, p, q, was)
  BY Zenon, <1>1, <1>2, HeadsAre
<1>4. /\ Accepts(c, kTargetSeq, b)
      /\ Answering(d, it, pre, h, p, 0, Row(d, kTargetSeq))
  BY <1>2, <1>3, SuffixIs
<1>5. /\ cells' = d /\ logits' = Row(d, kTargetSeq)
      /\ Step(Accepts(c, kTargetSeq, b), "answer")
      /\ position' = position /\ answer' = answer
      /\ item' = item /\ cache' = cache /\ variant' = variant /\ full_logits' = full_logits
  BY Zenon, <1>2 DEF Suffix, Buffered
<1>6. pc' = "answer"
  BY Zenon, <1>4, <1>5 DEF Step
<1>7. HeadsNow' = h /\ (spec').prefixed = pre
  BY Zenon, <1>2, <1>5, SameHeads
<1>8. Composition'
  <2>1. answer' = 0
    BY <1>1, <1>5
  <2>2. Answering(cells', item', (spec').prefixed, HeadsNow', position', answer', logits')
    BY Zenon, <1>2, <1>4, <1>5, <1>7, <2>1
  <2> QED
    BY <1>6, <2>2 DEF Composition
<1>9. Settled'
  BY <1>1, <1>5, <1>6 DEF Settled, Places, Resting
<1>10. Snapshots'
  <2>1. Cached(cache', item', Len(item'.size))
    BY Zenon, <1>1, <1>5
  <2> QED
    BY <1>6, <2>1 DEF Snapshots
<1>11. Reference'
  <2>1. variant' # Full => full_logits' = FullRow(item')
    BY Zenon, <1>1, <1>5
  <2> QED
    BY <1>6, <2>1 DEF Reference
<1> QED
  BY <1>8, <1>9, <1>10, <1>11 DEF ChunkInv

\* Every token of the answer is one more cell.
LEMMA GreedyStep ==
    ASSUME ChunkInv, GreedyToken
    PROVE  ChunkInv'
<1>1. /\ pc = "answer" /\ item \in Items /\ variant \in Variants \cup {Full}
      /\ Cached(cache, item, Len(item.size))
      /\ Answering(cells, item, spec.prefixed, HeadsNow, position, answer, logits)
      /\ variant # Full => full_logits = FullRow(item)
  BY DEF GreedyToken, ChunkInv, Settled, Snapshots, Composition, Reference
<1>2. PICK it, c, h, pre, p, a, l, at, d :
          /\ it = item /\ c = cells /\ h = HeadsNow /\ pre = spec.prefixed
          /\ p = position /\ a = answer /\ l = logits /\ at = p + SuffixLen + a
          /\ d = decode(c, <<<<"answer", a + 1>>>>, kTargetSeq, at)
  OBVIOUS
<1>3. it \in Items /\ Answering(c, it, pre, h, p, a, l)
  BY Zenon, <1>1, <1>2
<1>4. Accepts(c, kTargetSeq, at) /\ Answering(d, it, pre, h, p, a + 1, l)
  BY <1>2, <1>3, AnswerIs
<1>5. /\ cells' = d /\ answer' = a + 1 /\ logits' = logits
      /\ Step(Accepts(c, kTargetSeq, at), "answer")
      /\ position' = position
      /\ item' = item /\ cache' = cache /\ variant' = variant /\ full_logits' = full_logits
  BY Zenon, <1>2 DEF GreedyToken
<1>6. pc' = "answer"
  BY Zenon, <1>4, <1>5 DEF Step
<1>7. HeadsNow' = h /\ (spec').prefixed = pre
  BY Zenon, <1>2, <1>5, SameHeads
<1>8. Composition'
  <2>1. Answering(cells', item', (spec').prefixed, HeadsNow', position', answer', logits')
    BY Zenon, <1>2, <1>4, <1>5, <1>7
  <2> QED
    BY <1>6, <2>1 DEF Composition
<1>9. Settled'
  BY <1>1, <1>5, <1>6 DEF Settled, Places, Resting
<1>10. Snapshots'
  <2>1. Cached(cache', item', Len(item'.size))
    BY Zenon, <1>1, <1>5
  <2> QED
    BY <1>6, <2>1 DEF Snapshots
<1>11. Reference'
  <2>1. variant' # Full => full_logits' = FullRow(item')
    BY Zenon, <1>1, <1>5
  <2> QED
    BY <1>6, <2>1 DEF Reference
<1> QED
  BY <1>8, <1>9, <1>10, <1>11 DEF ChunkInv

\* The end of a run: full_logits are those of a full computation, and the sanity check holds.
LEMMA FinishStep ==
    ASSUME ChunkInv, Finish
    PROVE  ChunkInv'
<1>1. /\ pc = "answer" /\ item \in Items /\ variant \in Variants \cup {Full}
      /\ Cached(cache, item, Len(item.size))
      /\ Answering(cells, item, spec.prefixed, HeadsNow, position, answer, logits)
      /\ variant # Full => full_logits = FullRow(item)
  BY DEF Finish, ChunkInv, Settled, Snapshots, Composition, Reference
<1>2. PICK it, c, h, pre, p, a, l :
          /\ it = item /\ c = cells /\ h = HeadsNow /\ pre = spec.prefixed
          /\ p = position /\ a = answer /\ l = logits
  OBVIOUS
<1>3. it \in Items /\ Answering(c, it, pre, h, p, a, l)
  BY Zenon, <1>1, <1>2
<1>4. /\ Rests(remove_sequence(c, kTargetSeq))
      /\ (\A i \in 1 .. Len(it.size) : h[i] = it.size[i]) => l = FullRow(it)
  BY <1>3, FinishIs
<1>5. /\ cells' = remove_sequence(c, kTargetSeq)
      /\ full_logits' = IF spec.full THEN logits ELSE full_logits
      /\ Step(variant = Sanity => logits = full_logits, "variant")
      /\ item' = item /\ cache' = cache /\ variant' = variant
  BY Zenon, <1>2 DEF Finish
<1>6. variant \in {Full, Sanity} => logits = FullRow(item)
  <2> SUFFICES ASSUME variant \in {Full, Sanity} PROVE logits = FullRow(item)
    OBVIOUS
  <2>1. \A i \in 1 .. Len(item.size) : HeadsNow[i] = item.size[i]
    BY <1>1, HeadsAre
  <2> QED
    BY Zenon, <1>2, <1>4, <2>1
<1>7. Sanity # Full
  <2>1. Sanity.base = "prefixed" /\ Full.base = "full"
    BY DEF Sanity, Full
  <2> QED
    BY <2>1
<1>8. pc' = "variant"
  <2>1. variant = Sanity => logits = full_logits
    BY Zenon, <1>1, <1>6, <1>7
  <2> QED
    BY Zenon, <1>5, <2>1 DEF Step
<1>9. full_logits' = FullRow(item')
  <2>1. spec.full <=> variant = Full
    BY <1>1, HeadsAre
  <2> QED
    BY Zenon, <1>1, <1>5, <1>6, <2>1
<1>10. Rests(cells')
  BY Zenon, <1>4, <1>5
<1>11. Settled'
  BY <1>1, <1>5, <1>8, <1>10 DEF Settled, Places, Resting
<1>12. Snapshots'
  <2>1. Cached(cache', item', Len(item'.size))
    BY Zenon, <1>1, <1>5
  <2> QED
    BY <1>8, <2>1 DEF Snapshots
<1>13. Composition' /\ Reference'
  BY <1>8, <1>9 DEF Composition, Reference
<1> QED
  BY <1>11, <1>12, <1>13 DEF ChunkInv

\* A stuttering step changes nothing.
LEMMA Unmoved ==
    ASSUME ChunkInv, UNCHANGED vars
    PROVE  ChunkInv'
<1>1. /\ pc' = pc /\ cells' = cells /\ item' = item /\ cache' = cache /\ variant' = variant
      /\ index' = index /\ position' = position /\ pending' = pending
      /\ pending_position' = pending_position /\ answer' = answer
      /\ logits' = logits /\ full_logits' = full_logits
  BY DEF vars, run
<1>2. HeadsNow' = HeadsNow /\ spec' = spec
  BY Zenon, <1>1, SameHeads
<1>3. Settled' /\ Snapshots' /\ Reference'
  BY Zenon, <1>1 DEF ChunkInv, Settled, Snapshots, Reference
<1>4. Composition'
  BY Zenon, <1>1, <1>2 DEF ChunkInv, Composition
<1> QED
  BY <1>3, <1>4 DEF ChunkInv

\* The prefix is still what was loaded.
LEMMA PrefixStays ==
    ASSUME NEW c, Memory(c), NEW S \in (SUBSET Sequences) \ {{}},
           Holds(c, kPrefixSeq, PrefixRow(S))
    PROVE  /\ Toks(Row(c, kPrefixSeq)) = prefix
           /\ \A i \in Of(c, kPrefixSeq) : c[i].pos = c[i].tok[2] - 1
<1>1. Row(c, kPrefixSeq) = PrefixRow(S)
  BY RowIs
<1>2. Toks(Row(c, kPrefixSeq)) = prefix
  BY <1>1, PrefixIs
<1>3. ASSUME NEW i \in Of(c, kPrefixSeq) PROVE c[i].pos = c[i].tok[2] - 1
  <2>1. PICK cell, n : cell = c[i] /\ n = cell.pos
    OBVIOUS
  <2>2. n \in Nat
    <3>1. i \in DOMAIN c
      BY DEF Of
    <3>2. cell \in Cell
      BY <2>1, <3>1 DEF Memory
    <3> QED
      BY <2>1, <3>2 DEF Cell
  <2>3. n < PrefixLen /\ PrefixLen \in Nat /\ cell = PrefixRow(S)[n + 1]
    BY <2>1, PrefixIs DEF Holds
  <2>4. n + 1 \in 1 .. PrefixLen
    BY <2>2, <2>3
  <2>5. PICK k : k = n + 1
    OBVIOUS
  <2>6. cell.tok = <<"prefix", k>>
    <3>1. \A j \in 1 .. PrefixLen :
              /\ PrefixRow(S)[j] = [pos |-> j - 1, tok |-> prefix[j], seqs |-> S,
                                    of |-> SubSeq(prefix, 1, j)]
              /\ prefix[j] = <<"prefix", j>>
      BY PrefixIs
    <3>2. /\ cell = [pos |-> k - 1, tok |-> prefix[k], seqs |-> S, of |-> SubSeq(prefix, 1, k)]
          /\ prefix[k] = <<"prefix", k>>
      BY Zenon, <2>3, <2>4, <2>5, <3>1
    <3>3. cell.tok = prefix[k]
      BY <3>2
    <3> QED
      BY <3>2, <3>3
  <2>7. cell.tok[2] = k
    BY <2>6
  <2>8. n = k - 1
    BY <2>2, <2>5
  <2> QED
    BY Zenon, <2>1, <2>7, <2>8
<1> QED
  BY <1>2, <1>3

\* What the target holds when the logits have been read.
LEMMA TargetIs ==
    ASSUME NEW it \in Items, NEW pre, NEW h, NEW c, NEW p, NEW a, NEW l,
           Answering(c, it, pre, h, p, a, l), NEW row, row = Row(c, kTargetSeq)
    PROVE  /\ Toks(row) = PromptOf(it) \o Tokens("answer", a)
           /\ \A n \in DOMAIN row : row[n].pos = n - 1
           /\ \A n \in DOMAIN PromptOf(it) :
                  row[n].of = SubSeq(PromptOf(it), 1, n) <=> \A m \in ForeignOf(it, pre, h) : m > n
<1>0. PICK t, n : t = PromptOf(it) /\ n = Len(l)
  OBVIOUS
<1>1. PICK r : /\ t = PromptOf(it) /\ n = Len(l)
               /\ Layout(c, Both, kTargetSeq, r) /\ Len(r) = n + a
               /\ \A k \in 1 .. n : r[k] = l[k]
               /\ \A k \in 1 .. a : r[n + k].tok = <<"answer", k>>
  <2>1. PICK r : /\ Layout(c, Both, kTargetSeq, r) /\ Len(r) = Len(l) + a
                 /\ \A k \in 1 .. Len(l) : r[k] = l[k]
                 /\ \A k \in 1 .. a : r[Len(l) + k].tok = <<"answer", k>>
    BY DEF Answering
  <2>2. /\ Layout(c, Both, kTargetSeq, r) /\ Len(r) = n + a
        /\ \A k \in 1 .. n : r[k] = l[k]
        /\ \A k \in 1 .. a : r[n + k].tok = <<"answer", k>>
    BY Zenon, <1>0, <2>1
  <2> QED
    BY <1>0, <2>2
<1>2. /\ a \in Nat /\ n = Len(t) /\ l \in Seq(Cell) /\ t \in Seq(Token) /\ n \in Nat
      /\ \A k \in 1 .. n : /\ l[k].tok = t[k]
                           /\ l[k].of = SubSeq(t, 1, k) <=> Clean(it, pre, h, k)
  <2>1. /\ a \in Nat /\ n = Len(t) /\ Exact(it, pre, h, l)
    BY <1>1 DEF Answering
  <2>2. l \in Seq(Cell) /\ t \in Seq(Token)
    BY <1>1, <2>1, PromptIs DEF Exact
  <2>3. n \in Nat
    BY <1>1, <2>2, LenProperties
  <2>4. \A k \in 1 .. n : l[k].tok = t[k] /\ (l[k].of = SubSeq(t, 1, k) <=> Clean(it, pre, h, k))
    BY <1>1, <2>1 DEF Exact
  <2> QED
    BY <2>1, <2>2, <2>3, <2>4
<1>3. r \in Seq(Cell) /\ Memory(c) /\ Holds(c, kTargetSeq, r) /\ row = r
  <2>1. r \in Seq(Cell) /\ Memory(c) /\ Holds(c, kTargetSeq, r)
    BY <1>1 DEF Layout, Near, Holds
  <2> QED
    BY <2>1, RowIs
<1>4. PICK x : x = n + a
  OBVIOUS
<1>5. x \in Nat /\ Len(r) = x /\ \A k \in 1 .. n : k \in 1 .. x
  BY <1>1, <1>2, <1>4
<1>6. Toks(r) = t \o Tokens("answer", a)
  <2>1. /\ Toks(r) \in Seq(Token) /\ Len(Toks(r)) = x
        /\ \A k \in 1 .. x : Toks(r)[k] = r[k].tok
    BY Zenon, <1>3, <1>5, ToksIs
  <2>2. PICK g, w : g = Tokens("answer", a) /\ w = t \o g
    OBVIOUS
  <2>3. g \in Seq(Token) /\ Len(g) = a /\ \A k \in 1 .. a : g[k] = <<"answer", k>>
    BY <1>2, <2>2, TokensIs
  <2>4. /\ w \in Seq(Token) /\ Len(w) = n + a
        /\ \A k \in 1 .. n : w[k] = t[k]
        /\ \A k \in 1 .. a : w[n + k] = g[k]
    <3>1. w = t \o g /\ t \in Seq(Token) /\ g \in Seq(Token) /\ n = Len(t) /\ a = Len(g)
      BY Zenon, <1>2, <2>2, <2>3
    <3> QED
      BY <3>1, JoinIs
  <2>5. ASSUME NEW k \in 1 .. x PROVE Toks(r)[k] = w[k]
    <3>1. CASE k <= n
      <4>1. k \in 1 .. n
        BY <1>2, <1>4, <3>1
      <4> QED
        BY <1>1, <1>2, <2>1, <2>4, <4>1
    <3>2. CASE k > n
      <4>1. PICK j : j = k - n
        OBVIOUS
      <4>2. j \in 1 .. a /\ k = n + j
        BY <1>2, <1>4, <3>2, <4>1
      <4>3. r[n + j].tok = <<"answer", j>>
        BY <1>1, <4>2
      <4>4. w[n + j] = <<"answer", j>>
        BY <2>3, <2>4, <4>2
      <4> QED
        BY <2>1, <4>2, <4>3, <4>4
    <3>3. k <= n \/ k > n
      BY <1>2, <1>4
    <3> QED
      BY <3>1, <3>2, <3>3
  <2>6. Len(w) = x
    BY <1>4, <2>4
  <2>7. Toks(r) = w
    BY <2>1, <2>4, <2>5, <2>6, SameTokens
  <2> QED
    BY <2>2, <2>7
<1>7. \A k \in DOMAIN r : r[k].pos = k - 1
  <2> SUFFICES ASSUME NEW k \in DOMAIN r PROVE r[k].pos = k - 1
    OBVIOUS
  <2>1. k \in 1 .. Len(r) /\ k \in Nat
    BY <1>3, <1>5, LenProperties
  <2>2. PICK i \in Of(c, kTargetSeq) : c[i].pos = k - 1
    BY <1>3, <2>1 DEF Holds
  <2>3. c[i] = r[c[i].pos + 1]
    BY <1>3 DEF Holds
  <2>4. k - 1 + 1 = k
    BY <2>1
  <2>5. c[i] = r[k]
    BY <2>2, <2>3, <2>4
  <2> QED
    BY <2>2, <2>5
<1>8. \A k \in DOMAIN t : r[k].of = SubSeq(t, 1, k) <=> \A m \in ForeignOf(it, pre, h) : m > k
  <2> SUFFICES ASSUME NEW k \in DOMAIN t
               PROVE  r[k].of = SubSeq(t, 1, k) <=> \A m \in ForeignOf(it, pre, h) : m > k
    OBVIOUS
  <2>1. k \in 1 .. n
    BY <1>2, LenProperties
  <2>2. r[k] = l[k]
    BY <1>1, <2>1
  <2>3. l[k].of = SubSeq(t, 1, k) <=> Clean(it, pre, h, k)
    BY <1>2, <2>1
  <2> QED
    BY <2>2, <2>3 DEF Clean
<1> QED
  BY <1>1, <1>3, <1>6, <1>7, <1>8

-----------------------------------------------------------------------------
(* The theorems *)

\* tools/chunk_spike.cpp: before and after every step of the tool, memory holds the prefix,
\* and besides it only what the sequence in use needs: nothing between the runs, a beginning
\* of the prompt in the target while a run composes it, the whole prompt and the answer when
\* the logits have been read; the snapshots are those of the item's chunks, and full_logits
\* are what a full computation of the prompt yields.
THEOREM ChunkInvariance == Spec => []ChunkInv
<1>1. Init => ChunkInv
  BY FirstInv
<1>2. ChunkInv /\ [Next]_vars => ChunkInv'
  BY LoadStep, NextItemStep, PrecomputeStep, ProbeStep, BeginStep, ChunkStep, SuffixStep, GreedyStep,
     FinishStep, ItemDoneStep, Unmoved DEF Next
<1> QED
  BY <1>1, <1>2, PTL DEF Spec

\* Every batch goes on where its sequence ends, since the buffer is flushed before cached
\* cells are attached, and prefixed+rALL agrees with the full run: the tool never fails.
THEOREM NoRunFails == Spec => []NeverFails
<1>1. ChunkInv => NeverFails
  BY DEF ChunkInv, Settled, Places, Resting, NeverFails
<1> QED
  BY <1>1, ChunkInvariance, PTL

\* attach_tail, remove_sequence and seq_add: nothing that is done to the other sequences moves
\* or removes the shared prefix, and no cell is left over between the runs, however many items
\* and variants have been run.
THEOREM MemoryAlwaysClean == Spec => []MemoryClean
<1>1. ASSUME ChunkInv PROVE MemoryClean
  <2>1. CASE pc = "load"
    <3>1. cells = << >>
      BY <1>1, <2>1 DEF ChunkInv, Settled
    <3>2. Of(cells, kPrefixSeq) = {}
      BY <3>1 DEF Of
    <3> QED
      BY <2>1, <3>2 DEF MemoryClean, Resting
  <2>2. CASE pc # "load"
    <3>1. PICK S \in (SUBSET Sequences) \ {{}} : Memory(cells) /\ Holds(cells, kPrefixSeq, PrefixRow(S))
      <4>1. CASE pc \in Resting \cup {"probe"}
        <5>1. Rests(cells)
          BY <1>1, <4>1 DEF ChunkInv, Settled
        <5>2. {kPrefixSeq} \in (SUBSET Sequences) \ {{}}
          BY DEF Sequences
        <5> QED
          BY <5>1, <5>2 DEF Rests
      <4>2. CASE pc \notin Resting \cup {"probe"}
        <5>1. pc \in {"chunk", "suffix", "answer"}
          BY <1>1, <2>2, <4>2 DEF ChunkInv, Settled, Places
        <5>2. PICK row : Layout(cells, Both, kTargetSeq, row)
          <6>1. CASE pc \in {"chunk", "suffix"}
            BY <1>1, <6>1 DEF ChunkInv, Composition, Building
          <6>2. CASE pc = "answer"
            BY <1>1, <6>2 DEF ChunkInv, Composition, Answering
          <6> QED
            BY <5>1, <6>1, <6>2
        <5>3. Both \in (SUBSET Sequences) \ {{}}
          BY DEF Both, Sequences
        <5> QED
          BY <5>2, <5>3 DEF Layout, Near
      <4> QED
        BY <4>1, <4>2
    <3>2. /\ Toks(Row(cells, kPrefixSeq)) = prefix
          /\ \A i \in Of(cells, kPrefixSeq) : cells[i].pos = cells[i].tok[2] - 1
      BY <3>1, PrefixStays
    <3>3. ASSUME pc \in Resting PROVE DOMAIN cells = Of(cells, kPrefixSeq)
      <4>1. \A i \in DOMAIN cells : cells[i].seqs = {kPrefixSeq}
        BY <1>1, <3>3 DEF ChunkInv, Settled, Rests
      <4> QED
        BY <4>1 DEF Of
    <3> QED
      BY <3>2, <3>3 DEF MemoryClean
  <2> QED
    BY <2>1, <2>2
<1> QED
  BY <1>1, ChunkInvariance, PTL

\* run_variant: for every variant the target holds the tokens of the prompt and the answer at
\* their positions when the logits are read, and a cell has the value of a full computation
\* exactly if no chunk was attached out of context before it.
THEOREM TargetAlwaysExact == Spec => []TargetExact
<1>1. ASSUME ChunkInv PROVE TargetExact
  <2> SUFFICES ASSUME pc = "answer"
               PROVE  LET row == Row(cells, kTargetSeq)
                      IN  /\ Toks(row) = prompt \o Tokens("answer", answer)
                          /\ \A n \in DOMAIN row : row[n].pos = n - 1
                          /\ \A n \in DOMAIN prompt :
                                 row[n].of = SubSeq(prompt, 1, n) <=> \A m \in Foreign : m > n
    BY DEF TargetExact
  <2>1. /\ item \in Items
        /\ Answering(cells, item, spec.prefixed, HeadsNow, position, answer, logits)
    BY <1>1 DEF ChunkInv, Settled, Composition
  <2>2. PICK row : row = Row(cells, kTargetSeq)
    OBVIOUS
  <2>3. /\ Toks(row) = PromptOf(item) \o Tokens("answer", answer)
        /\ \A n \in DOMAIN row : row[n].pos = n - 1
        /\ \A n \in DOMAIN PromptOf(item) :
               row[n].of = SubSeq(PromptOf(item), 1, n)
                   <=> \A m \in ForeignOf(item, spec.prefixed, HeadsNow) : m > n
    BY <2>1, <2>2, TargetIs
  <2>4. prompt = PromptOf(item) /\ Foreign = ForeignOf(item, spec.prefixed, HeadsNow)
    BY ItemAtHand
  <2> QED
    BY Zenon, <2>2, <2>3, <2>4
<1> QED
  BY <1>1, ChunkInvariance, PTL
=============================================================================
