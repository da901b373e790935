---------------------------- MODULE RecursionProofs ----------------------------
(***************************************************************************)
(* Induction and recursion over an interval of the naturals, stated about  *)
(* sets and functions instead of operators: the set of the numbers with a  *)
(* property takes the place of the property, and a function of functions   *)
(* that of the step of a recursion.                                        *)
(***************************************************************************)
EXTENDS Integers, WellFoundedInduction, TLAPS

Less == {p \in Nat \X Nat : p[1] < p[2]}

\* The order of the naturals has no infinite descending chain.
LEMMA LessWellFounded == IsWellFoundedOn(Less, Nat)
BY Zenon, NatLessThanWellFounded DEF OpToRel, Less

\* Every set of naturals that is not empty has a least element.
LEMMA LeastElement ==
    ASSUME NEW T \in SUBSET Nat, T # {}
    PROVE  \E x \in T : \A y \in T : x <= y
<1>1. PICK x \in T : \A y \in T : <<y, x>> \notin Less
  BY LessWellFounded, WFMin
<1>2. ASSUME NEW y \in T
      PROVE  x <= y
  <2>1. <<y, x>> \notin Less
    BY <1>1
  <2>2. <<y, x>> \in Nat \X Nat /\ <<y, x>>[1] = y /\ <<y, x>>[2] = x
    OBVIOUS
  <2>3. ~ (y < x)
    BY <2>1, <2>2 DEF Less
  <2> QED
    BY <2>3
<1> QED
  BY <1>2

\* A set that holds 0, and with every number below n its successor, holds 0 .. n.
LEMMA Induction ==
    ASSUME NEW n \in Nat, NEW G,
           0 \in G,
           \A i \in 1 .. n : i - 1 \in G => i \in G
    PROVE  \A i \in 0 .. n : i \in G
<1> DEFINE T == {i \in 0 .. n : i \notin G}
<1>1. SUFFICES ASSUME T # {} PROVE FALSE
  OBVIOUS
<1>2. T \in SUBSET Nat
  OBVIOUS
<1> HIDE DEF T
<1>3. PICK x \in T : \A y \in T : x <= y
  BY <1>1, <1>2, LeastElement
<1>4. x \in 0 .. n /\ x \notin G
  BY <1>3 DEF T
<1>5. x # 0 /\ x \in 1 .. n
  BY <1>4
<1>6. x - 1 \notin T
  BY <1>3, <1>5
<1>7. x - 1 \in G
  BY <1>5, <1>6 DEF T
<1> QED
  BY <1>4, <1>5, <1>7

\* A function on 0 .. N is defined by its first value and by the step to each next one.
LEMMA PrimitiveRecursion ==
    ASSUME NEW V, NEW c \in V, NEW N \in Nat, NEW G \in [1 .. N -> [V -> V]]
    PROVE  \E f \in [0 .. N -> V] :
               /\ f[0] = c
               /\ \A i \in 1 .. N : f[i] = G[i][f[i - 1]]
<1> DEFINE Good(f, n) == f[0] = c /\ \A i \in 1 .. n : f[i] = G[i][f[i - 1]]
           T == {n \in 0 .. N : \E f \in [0 .. n -> V] : Good(f, n)}
<1>1. 0 \in T
  <2>1. PICK f : f = [i \in 0 .. 0 |-> c]
    OBVIOUS
  <2>2. f \in [0 .. 0 -> V] /\ Good(f, 0)
    BY <2>1
  <2> QED
    BY <2>2
<1>2. ASSUME NEW n \in 1 .. N, n - 1 \in T
      PROVE  n \in T
  <2>1. PICK f \in [0 .. n - 1 -> V] : Good(f, n - 1)
    BY <1>2
  <2>2. f[n - 1] \in V /\ G[n] \in [V -> V]
    OBVIOUS
  <2>3. G[n][f[n - 1]] \in V
    BY <2>2
  <2> DEFINE g == [i \in 0 .. n |-> IF i = n THEN G[n][f[n - 1]] ELSE f[i]]
  <2>4. g \in [0 .. n -> V]
    BY <2>3
  <2>5. g[0] = c
    BY <2>1
  <2>6. ASSUME NEW i \in 1 .. n PROVE g[i] = G[i][g[i - 1]]
    <3>1. g[i - 1] = f[i - 1]
      OBVIOUS
    <3>2. CASE i = n
      BY <3>1, <3>2
    <3>3. CASE i # n
      <4>1. i \in 1 .. n - 1
        BY <3>3
      <4>2. g[i] = f[i] /\ f[i] = G[i][f[i - 1]]
        BY <4>1, <2>1
      <4> QED
        BY <4>2, <3>1
    <3> QED
      BY <3>2, <3>3
  <2> HIDE DEF g
  <2>7. Good(g, n)
    BY <2>5, <2>6
  <2> QED
    BY <2>4, <2>7
<1> HIDE DEF T
<1>3. \A n \in 0 .. N : n \in T
  <2>1. \A n \in 1 .. N : n - 1 \in T => n \in T
    BY <1>2
  <2> QED
    BY <1>1, <2>1, Induction
<1>4. N \in T
  BY <1>3
<1> QED
  BY <1>4 DEF T

=============================================================================
