----------------------------- MODULE WorkerProofs -----------------------------
(***************************************************************************)
(* The safety properties of module Worker, for every set of requests,      *)
(* every prompt length and token limit, and every size of the batch and of *)
(* the set of sequence ids.                                                *)
(*                                                                         *)
(* The inductive invariant WorkerInv has three layers, each proved on top  *)
(* of the ones before: Shape (every request is in one place at most, and   *)
(* what is in flight fits the ids), Replies (what each client was told,    *)
(* and who may still be told), Sizes (why the batch and the context are    *)
(* large enough).                                                          *)
(***************************************************************************)
EXTENDS Worker, RecursionProofs, FiniteSetTheorems, SequenceTheorems

\* The steps of the wait: the worker looks at the queue and sleeps, and what wakes it.
Waits == Look \/ Sleep \/ notify_one \/ Wake \/ notify_all

\* They only move the thread, from its lock to its sleep and back.
LEMMA WaitFacts ==
    ASSUME Waits
    PROVE  /\ UNCHANGED <<queue, running, places, steps, client, counted, out, generating>>
           /\ pc \in {"locked", "checked", "asleep"} /\ pc' \in {"locked", "checked", "asleep"}
BY DEF Waits, Look, Sleep, notify_one, Wake, notify_all, Woken

-----------------------------------------------------------------------------
(* The inductive invariant, in three layers *)

\* What the worker holds are sequences of requests, and the options are legal.
Kinds ==
    /\ options \in Limits /\ running \in BOOLEAN
    /\ pc \in {"top", "locked", "checked", "asleep", "prepare", "sweep", "decode", "complete",
               "promote", "exit"}
    /\ queue \in Seq(Requests) /\ admitted \in Seq(Requests) /\ deferred \in Seq(Requests)
    /\ queued \in Seq(Requests) /\ prefilling \in Seq(Requests) /\ active \in Seq(Requests)

\* No request is twice in one of them, or in two of them.
Apart ==
    /\ IsInjective(queue) /\ IsInjective(admitted) /\ IsInjective(deferred)
    /\ IsInjective(queued) /\ IsInjective(prefilling) /\ IsInjective(active)
    /\ \A r \in Range(queue) :
           r \notin Range(admitted) \cup Range(deferred) \cup Range(queued)
                        \cup Range(prefilling) \cup Range(active)
    /\ \A r \in Range(admitted) :
           r \notin Range(deferred) \cup Range(queued) \cup Range(prefilling) \cup Range(active)
    /\ \A r \in Range(deferred) :
           r \notin Range(queued) \cup Range(prefilling) \cup Range(active)
    /\ \A r \in Range(queued) : r \notin Range(prefilling) \cup Range(active)
    /\ \A r \in Range(prefilling) : r \notin Range(active)

\* Requests are only sent back from the end of a batch; a step decodes something; the
\* gauge is right between two steps.
Phases ==
    /\ pc # "prepare" => admitted = << >> /\ deferred = << >> /\ queued = << >>
    /\ queued # << >> => admitted = << >>
    /\ pc = "decode" => active # << >> \/ prefilling # << >>
    /\ generating \in Nat
    /\ pc \in {"top", "locked", "checked", "asleep"} => generating = Len(active)

\* A request that was not sent is nowhere in the worker.
Unsent ==
    /\ client \in [Requests -> {"new", "sent", "gone"}]
    /\ \A r \in Requests : client[r] = "new" =>
           r \notin Range(queue) \cup Range(admitted) \cup Range(deferred)
                        \cup Range(queued) \cup Range(prefilling) \cup Range(active)

Shape == Kinds /\ Apart /\ Phases /\ Unsent /\ SlotsBounded

\* No callback was made before the first token.
Waiting == Range(queue) \cup Range(admitted) \cup Range(deferred) \cup Range(queued)
               \cup Range(prefilling)

InOrder(s) == \A i \in 1 .. Len(s) : s[i] \in Terminal => i = Len(s)

Silent ==
    /\ out \in [Requests -> Seq(Callbacks)]
    /\ \A r \in Requests : client[r] = "new" => out[r] = << >>
    /\ \A r \in Waiting : out[r] = << >>
    /\ \A r \in Requests : InOrder(out[r])

\* Between DecodeOk and Complete some sequences are done: those that reached the end of
\* generation must still be told, the others were told or counted.
Retiring ==
    /\ counted \subseteq gone
    /\ pc # "complete" => done = {}
    /\ done \subseteq Range(active) /\ notify \subseteq done
    /\ \A r \in notify : ~ Answered(r)
    /\ \A r \in done \ notify : Answered(r) \/ r \in counted
    /\ \A r \in Range(active) \ done : ~ Answered(r)

\* Whoever was sent and is nowhere was answered or counted.
Kept ==
    \A r \in Requests :
        \/ client[r] = "new" \/ Answered(r) \/ r \in counted \/ pc = "exit"
        \/ r \in Waiting \cup Range(active)

Replies == Silent /\ Retiring /\ Kept

\* The prompts whose last token was submitted by this step.
Unfilled == {r \in Requests : left[r] # 0}

\* A prompt waits for tokens until it is complete, and when it is complete its sequence
\* has had an entry of the batch.
Prompts ==
    /\ left \in [Requests -> Nat]
    /\ \A r \in Range(prefilling) :
           available(r) > 0 /\ (pc \notin {"complete", "promote"} => left[r] > 0)
    /\ Len(active) <= n_batch
    /\ pc \in {"complete", "promote"} =>
           Len(active) + Len(Without(prefilling, Unfilled)) <= n_batch

\* What was generated and what may still be generated fit in the context.
Countdown ==
    /\ remaining \in [Requests -> Nat]
    /\ \A r \in Range(active) :
           Text(r) + remaining[r] <= available(r) /\ (r \notin done => remaining[r] > 0)
    /\ \A r \in Requests : Text(r) > 0 => Text(r) <= available(r)

Sizes == Prompts /\ Countdown

-----------------------------------------------------------------------------
(* What is left of a sequence when some requests leave it *)

\* The prefixes of the result, one for every prefix of the sequence.
IsKept(f, s, S) ==
    /\ f[0] = << >>
    /\ \A i \in 1 .. Len(s) :
           f[i] = IF s[i] \in S THEN f[i - 1] ELSE Append(f[i - 1], s[i])

\* Without filters its argument from left to right.
LEMMA WithoutDef ==
    ASSUME NEW R, NEW s \in Seq(R), NEW S
    PROVE  \E f \in [0 .. Len(s) -> Seq(R)] : IsKept(f, s, S) /\ Without(s, S) = f[Len(s)]
<1>1. PICK N \in Nat : N = Len(s)
  OBVIOUS
<1>2. PICK V : V = Seq(R)
  OBVIOUS
<1>3. /\ \A i \in 1 .. N : s[i] \in R
      /\ << >> \in V
      /\ \A i \in 1 .. N : \A t \in V : Append(t, s[i]) \in V
  BY <1>1, <1>2
<1> DEFINE Step(i, t) == IF s[i] \in S THEN t ELSE Append(t, s[i])
           G == [i \in 1 .. N |-> [t \in V |-> Step(i, t)]]
           Is(f) == f = [i \in 0 .. N |-> IF i = 0 THEN << >> ELSE Step(i, f[i - 1])]
<1>4. Without(s, S) = (CHOOSE f : Is(f))[N]
  BY <1>1 DEF Without
<1>5. \A i \in 1 .. N : \A t \in V : Step(i, t) \in V
  BY <1>3
<1>6. \A f : Is(f) <=> /\ f = [i \in 0 .. N |-> f[i]]
                       /\ f[0] = << >>
                       /\ \A i \in 1 .. N : f[i] = Step(i, f[i - 1])
  <2> HIDE DEF Step
  <2>1. TAKE f
  <2>2. ASSUME Is(f)
        PROVE  /\ f = [i \in 0 .. N |-> f[i]]
               /\ f[0] = << >>
               /\ \A i \in 1 .. N : f[i] = Step(i, f[i - 1])
    <3>1. DOMAIN f = 0 .. N
      BY <2>2
    <3>2. \A i \in 0 .. N : f[i] = IF i = 0 THEN << >> ELSE Step(i, f[i - 1])
      BY <2>2
    <3>3. f = [i \in 0 .. N |-> f[i]]
      BY <2>2
    <3> QED
      BY <3>2, <3>3
  <2>3. ASSUME /\ f = [i \in 0 .. N |-> f[i]]
               /\ f[0] = << >>
               /\ \A i \in 1 .. N : f[i] = Step(i, f[i - 1])
        PROVE  Is(f)
    <3>1. \A i \in 0 .. N : f[i] = IF i = 0 THEN << >> ELSE Step(i, f[i - 1])
      BY <2>3
    <3> QED
      BY <2>3, <3>1
  <2> QED
    BY <2>2, <2>3
<1> HIDE DEF Step, Is
<1>7. \E f : Is(f)
  <2>1. G \in [1 .. N -> [V -> V]]
    BY <1>5
  <2>2. \A i \in 1 .. N : \A t \in V : G[i][t] = Step(i, t)
    OBVIOUS
  <2> HIDE DEF G
  <2>3. PICK c \in V : c = << >>
    BY <1>3, Zenon
  <2>4. PICK f \in [0 .. N -> V] : f[0] = c /\ \A i \in 1 .. N : f[i] = G[i][f[i - 1]]
    <3> HIDE <2>3
    <3> QED
      BY <2>1, PrimitiveRecursion
  <2>5. \A i \in 1 .. N : f[i] = Step(i, f[i - 1])
    <3>1. TAKE i \in 1 .. N
    <3>2. f[i - 1] \in V
      OBVIOUS
    <3> QED
      BY <2>2, <2>4, <3>2
  <2> QED
    BY <1>6, <2>3, <2>4, <2>5
<1>8. PICK kept : kept = CHOOSE f : Is(f)
  OBVIOUS
<1>9. /\ kept = [i \in 0 .. N |-> kept[i]]
      /\ kept[0] = << >>
      /\ \A i \in 1 .. N : kept[i] = Step(i, kept[i - 1])
  BY <1>6, <1>7, <1>8
<1>10. \A i \in 0 .. N : kept[i] \in V
  <2> DEFINE T == {i \in 0 .. N : kept[i] \in V}
  <2>1. 0 \in T
    BY <1>3, <1>9
  <2>2. \A i \in 1 .. N : i - 1 \in T => i \in T
    BY <1>5, <1>9
  <2> HIDE DEF T
  <2>3. \A i \in 0 .. N : i \in T
    BY <2>1, <2>2, Induction
  <2> QED
    BY <2>3 DEF T
<1>11. kept \in [0 .. N -> V]
  BY <1>9, <1>10
<1>12. IsKept(kept, s, S)
  BY <1>1, <1>9 DEF IsKept, Step
<1> QED
  BY <1>1, <1>2, <1>4, <1>8, <1>11, <1>12

\* What stays, stays in its order: no request is added, doubled or forgotten.
LEMMA WithoutFacts ==
    ASSUME NEW R, NEW s \in Seq(R), NEW S
    PROVE  /\ Without(s, S) \in Seq(R)
           /\ Range(Without(s, S)) = Range(s) \ S
           /\ Len(Without(s, S)) <= Len(s)
           /\ IsInjective(s) => IsInjective(Without(s, S))
<1>1. PICK f \in [0 .. Len(s) -> Seq(R)] : IsKept(f, s, S) /\ Without(s, S) = f[Len(s)]
  BY WithoutDef
<1>2. PICK N \in Nat : N = Len(s)
  OBVIOUS
<1>3. \A i \in 0 .. N : f[i] \in Seq(R) /\ Len(f[i]) \in Nat /\ DOMAIN f[i] = 1 .. Len(f[i])
  <2>1. \A i \in 0 .. N : f[i] \in Seq(R)
    BY <1>2
  <2> QED
    BY <2>1, LenProperties
<1>4. \A i \in 1 .. N : s[i] \in R
  BY <1>2
<1>5. f[0] = << >> /\ Len(f[0]) = 0
  BY <1>1 DEF IsKept
<1>6. \A i \in 1 .. N :
          \/ s[i] \in S /\ f[i] = f[i - 1]
          \/ /\ s[i] \notin S
             /\ Len(f[i]) = Len(f[i - 1]) + 1
             /\ \A j \in 1 .. Len(f[i - 1]) : f[i][j] = f[i - 1][j]
             /\ f[i][Len(f[i])] = s[i]
  <2>1. TAKE i \in 1 .. N
  <2>2. f[i] = IF s[i] \in S THEN f[i - 1] ELSE Append(f[i - 1], s[i])
    BY <1>1, <1>2 DEF IsKept
  <2>3. f[i - 1] \in Seq(R) /\ s[i] \in R
    BY <1>3, <1>4
  <2> QED
    BY <2>2, <2>3, AppendProperties
<1> DEFINE Holds(t, x) == \E j \in 1 .. Len(t) : t[j] = x
           Early(i, x) == \E j \in 1 .. i : s[j] = x
<1>7. \A i \in 0 .. N : \A x : Holds(f[i], x) <=> Early(i, x) /\ x \notin S
  <2> DEFINE P(i) == \A x : Holds(f[i], x) <=> Early(i, x) /\ x \notin S
             T == {i \in 0 .. N : P(i)}
  <2>1. P(0)
    BY <1>5
  <2>2. ASSUME NEW i \in 1 .. N, P(i - 1) PROVE P(i)
    <3>1. TAKE x
    <3>2. Holds(f[i - 1], x) <=> Early(i - 1, x) /\ x \notin S
      BY <2>2
    <3>3. Early(i, x) <=> Early(i - 1, x) \/ s[i] = x
      OBVIOUS
    <3>4. CASE s[i] \in S /\ f[i] = f[i - 1]
      BY <3>2, <3>3, <3>4
    <3>5. CASE /\ s[i] \notin S
               /\ Len(f[i]) = Len(f[i - 1]) + 1
               /\ \A j \in 1 .. Len(f[i - 1]) : f[i][j] = f[i - 1][j]
               /\ f[i][Len(f[i])] = s[i]
      <4>1. PICK a, b : a = f[i - 1] /\ b = f[i]
        OBVIOUS
      <4>2. Len(a) \in Nat
        BY <1>3, <4>1
      <4>3. /\ Len(b) = Len(a) + 1 /\ b[Len(b)] = s[i]
            /\ \A j \in 1 .. Len(a) : b[j] = a[j]
        BY <4>1, <3>5
      <4>4. Holds(b, x) <=> Holds(a, x) \/ s[i] = x
        BY <4>2, <4>3
      <4> QED
        BY <4>1, <4>4, <3>2, <3>3, <3>5
    <3> QED
      BY <1>6, <3>4, <3>5
  <2> HIDE DEF P
  <2>3. 0 \in T /\ \A i \in 1 .. N : i - 1 \in T => i \in T
    BY <2>1, <2>2
  <2> HIDE DEF T
  <2>4. \A i \in 0 .. N : i \in T
    BY <2>3, Induction
  <2> QED
    BY <2>4 DEF T, P
<1>8. \A i \in 0 .. N : Len(f[i]) <= i
  <2> DEFINE T == {i \in 0 .. N : Len(f[i]) <= i}
  <2>1. 0 \in T
    BY <1>5
  <2>2. \A i \in 1 .. N : i - 1 \in T => i \in T
    <3>1. SUFFICES ASSUME NEW i \in 1 .. N, Len(f[i - 1]) <= i - 1
                   PROVE  Len(f[i]) <= i
      OBVIOUS
    <3>2. Len(f[i - 1]) \in Nat
      BY <1>3
    <3> QED
      BY <3>1, <3>2, <1>6
  <2> HIDE DEF T
  <2>3. \A i \in 0 .. N : i \in T
    BY <2>1, <2>2, Induction
  <2> QED
    BY <2>3 DEF T
<1>9. ASSUME IsInjective(s)
      PROVE  \A i \in 0 .. N : \A j, k \in 1 .. Len(f[i]) : f[i][j] = f[i][k] => j = k
  <2> DEFINE T == {i \in 0 .. N : \A j, k \in 1 .. Len(f[i]) : f[i][j] = f[i][k] => j = k}
  <2>1. 0 \in T
    BY <1>5
  <2>2. \A i \in 1 .. N : i - 1 \in T => i \in T
    <3>1. SUFFICES ASSUME NEW i \in 1 .. N, i - 1 \in T,
                          NEW j \in 1 .. Len(f[i]), NEW k \in 1 .. Len(f[i]),
                          f[i][j] = f[i][k]
                   PROVE  j = k
      OBVIOUS
    <3>2. \A a, b \in 1 .. Len(f[i - 1]) : f[i - 1][a] = f[i - 1][b] => a = b
      BY <3>1
    <3>3. ~ \E a \in 1 .. Len(f[i - 1]) : f[i - 1][a] = s[i]
      <4>1. ~ Early(i - 1, s[i])
        BY <1>9, <1>2 DEF IsInjective
      <4> QED
        BY <4>1, <1>7
    <3>4. CASE s[i] \in S /\ f[i] = f[i - 1]
      BY <3>1, <3>2, <3>4
    <3>5. CASE /\ s[i] \notin S
               /\ Len(f[i]) = Len(f[i - 1]) + 1
               /\ \A a \in 1 .. Len(f[i - 1]) : f[i][a] = f[i - 1][a]
               /\ f[i][Len(f[i])] = s[i]
      <4>1. PICK a, b : a = f[i - 1] /\ b = f[i]
        OBVIOUS
      <4>2. Len(a) \in Nat /\ Len(b) = Len(a) + 1
        BY <1>3, <4>1, <3>5
      <4>3. \A m \in 1 .. Len(a) : b[m] # s[i]
        BY <4>1, <3>3, <3>5
      <4>4. b[Len(b)] = s[i] /\ b[j] = b[k]
        BY <4>1, <3>1, <3>5
      <4>5. \A m, n \in 1 .. Len(a) : b[m] = b[n] => m = n
        BY <4>1, <3>2, <3>5
      <4>6. j \in 1 .. Len(b) /\ k \in 1 .. Len(b)
        BY <4>1
      <4> QED
        BY <4>2, <4>3, <4>4, <4>5, <4>6
    <3> QED
      BY <1>6, <3>4, <3>5
  <2> HIDE DEF T
  <2>3. \A i \in 0 .. N : i \in T
    BY <2>1, <2>2, Induction
  <2> QED
    BY <2>3 DEF T
<1>10. PICK w : w = Without(s, S)
  OBVIOUS
<1>11. w \in Seq(R) /\ Len(w) <= Len(s) /\ w = f[N] /\ DOMAIN w = 1 .. Len(w)
  BY <1>1, <1>2, <1>3, <1>8, <1>10
<1>12. Range(w) = Range(s) \ S
  <2>1. \A x : x \in Range(w) <=> \E j \in 1 .. Len(w) : w[j] = x
    BY <1>11 DEF Range
  <2>2. \A x : x \in Range(s) <=> \E j \in 1 .. N : s[j] = x
    <3>1. DOMAIN s = 1 .. N
      BY <1>2, LenProperties
    <3> QED
      BY <3>1 DEF Range
  <2>3. \A x : (\E j \in 1 .. Len(w) : w[j] = x) <=> (\E j \in 1 .. N : s[j] = x) /\ x \notin S
    <3>1. \A x : Holds(f[N], x) <=> Early(N, x) /\ x \notin S
      <4> HIDE DEF Holds, Early
      <4>1. N \in 0 .. N
        OBVIOUS
      <4> QED
        BY <1>7, <4>1
    <3> QED
      BY <3>1, <1>11
  <2> QED
    BY <2>1, <2>2, <2>3
<1>13. IsInjective(s) => IsInjective(w)
  BY <1>9, <1>11 DEF IsInjective
<1> QED
  BY <1>10, <1>11, <1>12, <1>13

\* The more requests leave, the fewer stay.
LEMMA WithoutMonotone ==
    ASSUME NEW R, NEW s \in Seq(R), NEW S, NEW T, T \subseteq S
    PROVE  Len(Without(s, S)) <= Len(Without(s, T))
<1>1. PICK f \in [0 .. Len(s) -> Seq(R)] : IsKept(f, s, S) /\ Without(s, S) = f[Len(s)]
  BY WithoutDef
<1>2. PICK g \in [0 .. Len(s) -> Seq(R)] : IsKept(g, s, T) /\ Without(s, T) = g[Len(s)]
  BY WithoutDef
<1>3. PICK N \in Nat : N = Len(s)
  OBVIOUS
<1> DEFINE G == {i \in 0 .. N : Len(f[i]) <= Len(g[i])}
<1>4. 0 \in G
  BY <1>1, <1>2, <1>3 DEF IsKept
<1>5. \A i \in 1 .. N : i - 1 \in G => i \in G
  <2>1. SUFFICES ASSUME NEW i \in 1 .. N, Len(f[i - 1]) <= Len(g[i - 1])
                 PROVE  Len(f[i]) <= Len(g[i])
    OBVIOUS
  <2>2. PICK a, b, x : a = f[i - 1] /\ b = g[i - 1] /\ x = s[i]
    OBVIOUS
  <2>3. a \in Seq(R) /\ b \in Seq(R)
    <3>1. i - 1 \in 0 .. Len(s)
      BY <1>3
    <3> QED
      BY <2>2, <3>1
  <2>4. x \in R
    BY <1>3, <2>2, ElementOfSeq
  <2>5. f[i] = (IF x \in S THEN a ELSE Append(a, x)) /\ g[i] = IF x \in T THEN b ELSE Append(b, x)
    BY <1>1, <1>2, <1>3, <2>2 DEF IsKept
  <2>6. Len(a) <= Len(b) /\ Len(a) \in Nat /\ Len(b) \in Nat
    BY <2>1, <2>2, <2>3
  <2>7. Len(Append(a, x)) = Len(a) + 1 /\ Len(Append(b, x)) = Len(b) + 1
    BY <2>3, <2>4, AppendProperties
  <2> QED
    BY <2>5, <2>6, <2>7
<1> HIDE DEF G
<1>6. \A i \in 0 .. N : i \in G
  BY <1>4, <1>5, Induction
<1> QED
  BY <1>1, <1>2, <1>3, <1>6 DEF G

\* What leaves for S and what leaves for T, when everything leaves for one of them, were
\* different entries of the sequence.
LEMMA WithoutSplits ==
    ASSUME NEW R, NEW s \in Seq(R), NEW S, NEW T, \A x \in R : x \in S \/ x \in T
    PROVE  Len(Without(s, S)) + Len(Without(s, T)) <= Len(s)
<1>1. PICK f \in [0 .. Len(s) -> Seq(R)] : IsKept(f, s, S) /\ Without(s, S) = f[Len(s)]
  BY WithoutDef
<1>2. PICK g \in [0 .. Len(s) -> Seq(R)] : IsKept(g, s, T) /\ Without(s, T) = g[Len(s)]
  BY WithoutDef
<1>3. PICK N \in Nat : N = Len(s)
  OBVIOUS
<1> DEFINE G == {i \in 0 .. N : Len(f[i]) + Len(g[i]) <= i}
<1>4. 0 \in G
  BY <1>1, <1>2, <1>3 DEF IsKept
<1>5. \A i \in 1 .. N : i - 1 \in G => i \in G
  <2>1. SUFFICES ASSUME NEW i \in 1 .. N, Len(f[i - 1]) + Len(g[i - 1]) <= i - 1
                 PROVE  Len(f[i]) + Len(g[i]) <= i
    OBVIOUS
  <2>2. PICK a, b, x : a = f[i - 1] /\ b = g[i - 1] /\ x = s[i]
    OBVIOUS
  <2>3. a \in Seq(R) /\ b \in Seq(R)
    <3>1. i - 1 \in 0 .. Len(s)
      BY <1>3
    <3> QED
      BY <2>2, <3>1
  <2>4. x \in R
    BY <1>3, <2>2, ElementOfSeq
  <2>5. f[i] = (IF x \in S THEN a ELSE Append(a, x)) /\ g[i] = IF x \in T THEN b ELSE Append(b, x)
    BY <1>1, <1>2, <1>3, <2>2 DEF IsKept
  <2>6. Len(a) + Len(b) <= i - 1 /\ Len(a) \in Nat /\ Len(b) \in Nat
    BY <2>1, <2>2, <2>3
  <2>7. Len(Append(a, x)) = Len(a) + 1 /\ Len(Append(b, x)) = Len(b) + 1
    BY <2>3, <2>4, AppendProperties
  <2>8. x \in S \/ x \in T
    BY <2>4
  <2>9. CASE x \in S
    <3>1. Len(f[i]) = Len(a) /\ (Len(g[i]) = Len(b) \/ Len(g[i]) = Len(b) + 1)
      BY <2>5, <2>7, <2>9
    <3> QED
      BY <3>1, <2>6
  <2>10. CASE x \notin S
    <3>1. Len(f[i]) = Len(a) + 1 /\ Len(g[i]) = Len(b)
      BY <2>5, <2>7, <2>8, <2>10
    <3> QED
      BY <3>1, <2>6
  <2> QED
    BY <2>9, <2>10
<1> HIDE DEF G
<1>6. \A i \in 0 .. N : i \in G
  BY <1>4, <1>5, Induction
<1> QED
  BY <1>1, <1>2, <1>3, <1>6 DEF G

-----------------------------------------------------------------------------
(* Ranges and repetitions of the other sequences *)

\* The empty sequence holds nothing.
LEMMA EmptyFacts ==
    Range(<< >>) = {} /\ IsInjective(<< >>) /\ Len(<< >>) = 0
BY DEF Range, IsInjective

\* A sequence of requests holds requests, and something if it is not empty.
LEMMA RangeFacts ==
    ASSUME NEW R, NEW s \in Seq(R)
    PROVE  /\ Range(s) \subseteq R
           /\ s = << >> <=> Range(s) = {}
           /\ s # << >> => Last(s) \in Range(s) /\ Head(s) \in Range(s)
           /\ s # << >> => Len(s) > 0
           /\ Len(s) \in Nat /\ (Len(s) = 0 => s = << >>)
<1>1. Range(s) = {s[i] : i \in 1 .. Len(s)} /\ Range(s) \subseteq R
  BY RangeEquality, RangeOfSeq
<1>2. Len(s) \in Nat /\ (s # << >> => Len(s) > 0) /\ (Len(s) = 0 => s = << >>)
  BY EmptySeq
<1>3. s # << >> => 1 \in 1 .. Len(s) /\ Len(s) \in 1 .. Len(s)
  BY <1>2
<1>4. s # << >> => s[Len(s)] \in Range(s) /\ s[1] \in Range(s)
  BY <1>1, <1>3
<1>5. s # << >> => Last(s) \in Range(s) /\ Head(s) \in Range(s)
  BY <1>4 DEF Last
<1>6. s = << >> => Range(s) = {}
  BY EmptyFacts
<1> QED
  BY <1>1, <1>2, <1>5, <1>6

\* A request at the end.
LEMMA AppendFacts ==
    ASSUME NEW R, NEW s \in Seq(R), NEW x \in R
    PROVE  /\ Append(s, x) \in Seq(R)
           /\ Range(Append(s, x)) = Range(s) \cup {x}
           /\ IsInjective(s) /\ x \notin Range(s) => IsInjective(Append(s, x))
           /\ Len(Append(s, x)) = Len(s) + 1
<1>1. PICK t : t = Append(s, x)
  OBVIOUS
<1>2. /\ t \in Seq(R) /\ Len(t) = Len(s) + 1 /\ t[Len(s) + 1] = x
      /\ \A i \in 1 .. Len(s) : t[i] = s[i]
  BY <1>1, AppendProperties
<1>3. PICK n \in Nat : n = Len(s)
  OBVIOUS
<1>4. DOMAIN s = 1 .. n /\ DOMAIN t = 1 .. n + 1
  BY <1>2, <1>3, LenProperties
<1>5. Range(t) = Range(s) \cup {x}
  BY <1>2, <1>3, <1>4 DEF Range
<1>6. IsInjective(s) /\ x \notin Range(s) => IsInjective(t)
  BY <1>2, <1>3, <1>4 DEF Range, IsInjective
<1> QED
  BY <1>1, <1>2, <1>5, <1>6

\* The front and the rest.
LEMMA TailFacts ==
    ASSUME NEW R, NEW s \in Seq(R), s # << >>
    PROVE  /\ Tail(s) \in Seq(R)
           /\ Range(s) = Range(Tail(s)) \cup {Head(s)}
           /\ IsInjective(s) => IsInjective(Tail(s)) /\ Head(s) \notin Range(Tail(s))
           /\ Len(Tail(s)) = Len(s) - 1
<1>1. PICK t : t = Tail(s)
  OBVIOUS
<1>2. /\ t \in Seq(R) /\ Len(t) = Len(s) - 1
      /\ \A i \in 1 .. Len(t) : t[i] = s[i + 1]
  BY <1>1, HeadTailProperties
<1>3. PICK n \in Nat : n = Len(s) /\ n > 0
  BY EmptySeq
<1>4. DOMAIN s = 1 .. n /\ DOMAIN t = 1 .. n - 1
  BY <1>2, <1>3, LenProperties
<1>5. Head(s) = s[1]
  OBVIOUS
<1>6. Range(s) = Range(t) \cup {s[1]}
  <2>1. \A x : (\E i \in 1 .. n : s[i] = x) <=> (\E i \in 1 .. n - 1 : s[i + 1] = x) \/ s[1] = x
    BY <1>3
  <2>2. \A x : x \in Range(s) <=> \E i \in 1 .. n : s[i] = x
    BY <1>4 DEF Range
  <2>3. \A x : x \in Range(t) <=> \E i \in 1 .. n - 1 : s[i + 1] = x
    BY <1>2, <1>3, <1>4 DEF Range
  <2> QED
    BY <2>1, <2>2, <2>3
<1>7. ASSUME IsInjective(s)
      PROVE  IsInjective(t) /\ s[1] \notin Range(t)
  <2>1. \A i, j \in 1 .. n : s[i] = s[j] => i = j
    BY <1>4, <1>7 DEF IsInjective
  <2>2. \A i \in 1 .. n - 1 : i + 1 \in 1 .. n /\ i + 1 # 1 /\ t[i] = s[i + 1]
    BY <1>2, <1>3
  <2>3. 1 \in 1 .. n
    BY <1>3
  <2>4. IsInjective(t)
    BY <2>1, <2>2, <1>4 DEF IsInjective
  <2>5. \A i \in 1 .. n - 1 : t[i] # s[1]
    BY <2>1, <2>2, <2>3
  <2> QED
    BY <2>4, <2>5, <1>4 DEF Range
<1> QED
  BY <1>1, <1>2, <1>5, <1>6, <1>7

\* Two sequences, one after the other.
LEMMA ConcatFacts ==
    ASSUME NEW R, NEW s \in Seq(R), NEW t \in Seq(R)
    PROVE  /\ s \o t \in Seq(R)
           /\ Range(s \o t) = Range(s) \cup Range(t)
           /\ IsInjective(s) /\ IsInjective(t) /\ Range(s) \cap Range(t) = {}
                  => IsInjective(s \o t)
           /\ Len(s \o t) = Len(s) + Len(t)
<1>1. PICK u : u = s \o t
  OBVIOUS
<1>2. PICK m \in Nat, n \in Nat : m = Len(s) /\ n = Len(t)
  OBVIOUS
<1>3. /\ u \in Seq(R) /\ Len(u) = m + n
      /\ \A i \in 1 .. m + n : u[i] = IF i <= m THEN s[i] ELSE t[i - m]
  BY <1>1, <1>2, ConcatProperties
<1>4. DOMAIN s = 1 .. m /\ DOMAIN t = 1 .. n /\ DOMAIN u = 1 .. m + n
  BY <1>2, <1>3, LenProperties
<1>5. ASSUME IsInjective(s), IsInjective(t), Range(s) \cap Range(t) = {}
      PROVE  IsInjective(u)
  <2>1. SUFFICES ASSUME NEW i \in 1 .. m + n, NEW j \in 1 .. m + n, u[i] = u[j]
                 PROVE  i = j
    BY <1>4 DEF IsInjective
  <2>2. \A k \in 1 .. m, l \in 1 .. n : s[k] # t[l]
    BY <1>4, <1>5 DEF Range
  <2>3. CASE i <= m /\ j <= m
    <3>1. u[i] = s[i] /\ u[j] = s[j] /\ i \in 1 .. m /\ j \in 1 .. m
      BY <1>3, <2>3
    <3>2. \A k, l \in 1 .. m : s[k] = s[l] => k = l
      BY <1>4, <1>5 DEF IsInjective
    <3> QED
      BY <2>1, <3>1, <3>2
  <2>4. CASE i > m /\ j > m
    <3>1. u[i] = t[i - m] /\ u[j] = t[j - m] /\ i - m \in 1 .. n /\ j - m \in 1 .. n
      BY <1>3, <2>4
    <3>2. i - m = j - m
      BY <3>1, <1>4, <1>5, <2>1 DEF IsInjective
    <3> QED
      BY <3>2
  <2>5. CASE i <= m /\ j > m
    <3>1. u[i] = s[i] /\ u[j] = t[j - m] /\ i \in 1 .. m /\ j - m \in 1 .. n
      BY <1>3, <2>5
    <3> QED
      BY <3>1, <2>1, <2>2
  <2>6. CASE i > m /\ j <= m
    <3>1. u[j] = s[j] /\ u[i] = t[i - m] /\ j \in 1 .. m /\ i - m \in 1 .. n
      BY <1>3, <2>6
    <3> QED
      BY <3>1, <2>1, <2>2
  <2> QED
    BY <2>3, <2>4, <2>5, <2>6
<1> QED
  BY <1>1, <1>2, <1>3, <1>5, RangeConcatenation

\* A sequence cut in two.
LEMMA SplitFacts ==
    ASSUME NEW R, NEW s \in Seq(R), NEW n \in 0 .. Len(s)
    PROVE  LET a == SubSeq(s, 1, n)
               b == SubSeq(s, n + 1, Len(s))
           IN  /\ a \in Seq(R) /\ b \in Seq(R)
               /\ Range(s) = Range(a) \cup Range(b)
               /\ IsInjective(s) =>
                      IsInjective(a) /\ IsInjective(b) /\ Range(a) \cap Range(b) = {}
               /\ Len(a) = n
<1>1. PICK a, b : a = SubSeq(s, 1, n) /\ b = SubSeq(s, n + 1, Len(s))
  OBVIOUS
<1>2. PICK m \in Nat : m = Len(s)
  OBVIOUS
<1>3. \A i \in 1 .. m : s[i] \in R
  BY <1>2
<1>4. a \in Seq(R) /\ Len(a) = n /\ \A i \in 1 .. n : a[i] = s[i]
  BY <1>1, <1>2, <1>3
<1>5. b \in Seq(R) /\ Len(b) = m - n /\ \A i \in 1 .. m - n : b[i] = s[n + i]
  BY <1>1, <1>2, <1>3
<1>6. DOMAIN s = 1 .. m /\ DOMAIN a = 1 .. n /\ DOMAIN b = 1 .. m - n
  BY <1>2, <1>4, <1>5, LenProperties
<1>7. Range(s) = Range(a) \cup Range(b)
  <2>1. \A x : x \in Range(s) <=> \E i \in 1 .. m : s[i] = x
    BY <1>6 DEF Range
  <2>2. \A x : x \in Range(a) <=> \E i \in 1 .. n : s[i] = x
    BY <1>4, <1>6 DEF Range
  <2>3. \A x : x \in Range(b) <=> \E i \in 1 .. m - n : s[n + i] = x
    BY <1>5, <1>6 DEF Range
  <2>4. \A i \in 1 .. m : i \in 1 .. n \/ i - n \in 1 .. m - n
    BY <1>2
  <2>5. \A x : x \in Range(s) => x \in Range(a) \/ x \in Range(b)
    <3>1. SUFFICES ASSUME NEW x, NEW i \in 1 .. m, s[i] = x PROVE x \in Range(a) \/ x \in Range(b)
      BY <2>1
    <3>2. s[n + (i - n)] = x
      BY <1>2, <3>1
    <3> QED
      BY <2>2, <2>3, <2>4, <3>1, <3>2
  <2>6. \A x : x \in Range(a) \/ x \in Range(b) => x \in Range(s)
    BY <1>2, <2>1, <2>2, <2>3
  <2> QED
    BY <2>5, <2>6
<1>8. ASSUME IsInjective(s)
      PROVE  IsInjective(a) /\ IsInjective(b) /\ Range(a) \cap Range(b) = {}
  <2>1. \A i, j \in 1 .. m : s[i] = s[j] => i = j
    BY <1>6, <1>8 DEF IsInjective
  <2>2. IsInjective(a)
    BY <2>1, <1>2, <1>4, <1>6 DEF IsInjective
  <2>3. IsInjective(b)
    <3>1. SUFFICES ASSUME NEW i \in 1 .. m - n, NEW j \in 1 .. m - n, s[n + i] = s[n + j]
                   PROVE  i = j
      BY <1>5, <1>6 DEF IsInjective
    <3>2. n + i \in 1 .. m /\ n + j \in 1 .. m
      BY <1>2
    <3> QED
      BY <2>1, <3>1, <3>2
  <2>4. \A i \in 1 .. n, j \in 1 .. m - n : a[i] # b[j]
    <3>1. TAKE i \in 1 .. n, j \in 1 .. m - n
    <3>2. i \in 1 .. m /\ n + j \in 1 .. m /\ i # n + j
      BY <1>2
    <3> QED
      BY <2>1, <3>2, <1>4, <1>5
  <2> QED
    BY <2>2, <2>3, <2>4, <1>6 DEF Range
<1> QED
  BY <1>1, <1>4, <1>5, <1>7, <1>8

-----------------------------------------------------------------------------
(* Layer one: where the requests are *)

\* The options are the numbers that the code takes them for.
LEMMA OptionFacts ==
    ASSUME options \in Limits
    PROVE  max_generating \in Nat \ {0} /\ n_batch \in Nat \ {0}
<1>1. <<max_generating, n_batch>> \in (Nat \ {0}) \X (Nat \ {0})
  BY LimitsAssumption DEF options
<1> QED
  BY <1>1

\* An idle worker holds nothing.
LEMMA ShapeInit == Init => Shape
<1> SUFFICES ASSUME Init PROVE Shape
  OBVIOUS
<1>1. Kinds
  <2>1. PICK l \in Limits : max_generating = l[1] /\ n_batch = l[2]
    BY DEF Init
  <2>2. l \in (Nat \ {0}) \X (Nat \ {0})
    BY <2>1, LimitsAssumption
  <2>3. options \in Limits
    BY <2>1, <2>2 DEF options
  <2> QED
    BY <2>3 DEF Init, Kinds
<1>2. Apart
  BY EmptyFacts DEF Init, Apart
<1>3. Phases
  BY DEF Init, Phases
<1>4. Unsent
  BY EmptyFacts DEF Init, Unsent
<1>5. SlotsBounded
  BY <1>1, OptionFacts DEF Init, SlotsBounded, Kinds
<1> QED
  BY <1>1, <1>2, <1>3, <1>4, <1>5 DEF Shape

\* enqueue puts a request where it was not.
LEMMA ShapeEnqueue ==
    ASSUME Shape, NEW r \in Requests, enqueue(r), UNCHANGED options
    PROVE  Shape'
<1> USE DEF Shape, enqueue, places, steps, options
<1>1. r \notin Range(queue) \cup Range(admitted) \cup Range(deferred)
                    \cup Range(queued) \cup Range(prefilling) \cup Range(active)
  BY DEF Unsent
<1>2. queue' \in Seq(Requests) /\ Range(queue') = Range(queue) \cup {r} /\ IsInjective(queue')
  BY <1>1, AppendFacts DEF Kinds, Apart
<1>3. Kinds'
  BY <1>2 DEF Kinds
<1>4. Apart'
  BY <1>1, <1>2 DEF Apart
<1>5. Phases'
  BY DEF Phases
<1>6. Unsent'
  BY <1>2 DEF Unsent
<1>7. SlotsBounded'
  BY DEF SlotsBounded
<1> QED
  BY <1>3, <1>4, <1>5, <1>6, <1>7

\* The front of the queue is admitted, as far as there are ids; the rest stays.
LEMMA AdmitFacts ==
    ASSUME Shape, Admit
    PROVE  /\ admitted = << >> /\ admitted' \in Seq(Requests) /\ queue' \in Seq(Requests)
           /\ Range(queue) = Range(admitted') \cup Range(queue')
           /\ IsInjective(admitted') /\ IsInjective(queue')
           /\ Range(admitted') \cap Range(queue') = {}
           /\ Len(admitted') <= Room
<1> USE DEF Shape, Admit, places, steps, options
<1>1. Len(queue) \in Nat /\ Room \in Nat /\ admitted = << >>
  <2>1. admitted = << >> /\ max_generating \in Nat
    BY OptionFacts DEF Kinds, Phases
  <2>2. Len(active) \in Nat /\ Len(prefilling) \in Nat /\ Len(queue) \in Nat /\ Len(admitted) = 0
    BY <2>1, EmptyFacts DEF Kinds
  <2> QED
    BY <2>1, <2>2 DEF SlotsBounded, Room
<1>2. PICK n : n = Least(Room, Len(queue))
  OBVIOUS
<1>3. n \in 0 .. Len(queue) /\ n <= Room
  BY <1>1, <1>2 DEF Least
<1>4. admitted' = SubSeq(queue, 1, n) /\ queue' = SubSeq(queue, n + 1, Len(queue))
  BY <1>2
<1>5. /\ admitted' \in Seq(Requests) /\ queue' \in Seq(Requests)
      /\ Range(queue) = Range(admitted') \cup Range(queue')
      /\ IsInjective(admitted') /\ IsInjective(queue')
      /\ Range(admitted') \cap Range(queue') = {}
      /\ Len(admitted') = n
  <2>1. queue \in Seq(Requests) /\ IsInjective(queue)
    BY DEF Kinds, Apart
  <2> HIDE DEF Shape, Admit, places, steps, options
  <2> QED
    BY <1>3, <1>4, <2>1, SplitFacts
<1> QED
  BY <1>1, <1>3, <1>5

\* Admission moves the front of the queue, and no more of it than there are ids.
LEMMA ShapeAdmit ==
    ASSUME Shape, Admit, UNCHANGED options
    PROVE  Shape'
<1>1. /\ admitted' \in Seq(Requests) /\ queue' \in Seq(Requests)
      /\ Range(queue) = Range(admitted') \cup Range(queue')
      /\ IsInjective(admitted') /\ IsInjective(queue')
      /\ Range(admitted') \cap Range(queue') = {}
      /\ Len(admitted') <= Room
  BY AdmitFacts
<1> USE DEF Shape, Admit, options
<1>2. Kinds'
  BY <1>1 DEF Kinds
<1>3. Apart'
  BY <1>1 DEF Apart
<1>4. Phases'
  BY DEF Phases
<1>5. Unsent'
  BY <1>1 DEF Unsent
<1>6. SlotsBounded'
  <2>1. /\ Len(active) \in Nat /\ Len(prefilling) \in Nat /\ max_generating \in Nat
        /\ max_generating' = max_generating /\ active' = active /\ prefilling' = prefilling
    BY OptionFacts DEF Kinds
  <2>2. Len(admitted') <= max_generating - Len(active) - Len(prefilling) /\ Len(admitted') \in Nat
    BY <1>1 DEF Room
  <2> HIDE DEF Shape, Admit, options
  <2> QED
    BY <2>1, <2>2 DEF SlotsBounded
<1> QED
  BY <1>2, <1>3, <1>4, <1>5, <1>6

\* Preparing the front of the batch: it leaves the batch, and goes to at most one place.
LEMMA PreparingFacts ==
    ASSUME Shape, NEW r \in Requests, Preparing(r)
    PROVE  /\ pc = "prepare" /\ queued = << >>
           /\ Tail(admitted) \in Seq(Requests)
           /\ Range(admitted) = Range(Tail(admitted)) \cup {r}
           /\ IsInjective(Tail(admitted)) /\ r \notin Range(Tail(admitted))
           /\ Len(Tail(admitted)) = Len(admitted) - 1
           /\ r \notin Range(queue) \cup Range(deferred) \cup Range(queued)
                        \cup Range(prefilling) \cup Range(active)
           /\ r \in Range(admitted) /\ client[r] # "new"
<1>1. admitted \in Seq(Requests) /\ admitted # << >> /\ r = Head(admitted) /\ IsInjective(admitted)
  BY DEF Shape, Kinds, Apart, Preparing
<1>2. /\ Tail(admitted) \in Seq(Requests)
      /\ Range(admitted) = Range(Tail(admitted)) \cup {r}
      /\ IsInjective(Tail(admitted)) /\ r \notin Range(Tail(admitted))
      /\ Len(Tail(admitted)) = Len(admitted) - 1
  BY <1>1, TailFacts
<1>3. pc = "prepare" /\ queued = << >>
  BY <1>1 DEF Shape, Phases, Preparing
<1>4. r \notin Range(queue) \cup Range(deferred) \cup Range(queued)
                        \cup Range(prefilling) \cup Range(active)
  BY <1>2 DEF Shape, Apart
<1>5. r \in Range(admitted)
  BY <1>2
<1>6. client[r] # "new"
  BY <1>5 DEF Shape, Unsent
<1> QED
  BY <1>2, <1>3, <1>4, <1>5, <1>6

\* A request that is cancelled or fails in prepare_all is let go.
LEMMA ShapeLeaves ==
    ASSUME Shape, NEW r \in Requests, UNCHANGED options,
           PrepareCancelled(r) \/ PrepareError(r)
    PROVE  Shape'
<1>1. /\ Preparing(r) /\ admitted' = Tail(admitted)
      /\ UNCHANGED <<queue, running, pc, deferred, queued, prefilling, active, client, generating>>
  BY DEF PrepareCancelled, PrepareError
<1>2. /\ pc = "prepare" /\ queued = << >> /\ admitted' \in Seq(Requests)
      /\ Range(admitted) = Range(admitted') \cup {r} /\ IsInjective(admitted')
      /\ Len(admitted') = Len(admitted) - 1
  BY <1>1, PreparingFacts
<1>3. Kinds'
  BY <1>1, <1>2 DEF Shape, Kinds, options
<1>4. Apart'
  BY <1>1, <1>2 DEF Shape, Apart
<1>5. Phases'
  BY <1>1, <1>2 DEF Shape, Phases
<1>6. Unsent'
  BY <1>1, <1>2 DEF Shape, Unsent
<1>7. SlotsBounded'
  BY <1>1, <1>2, <1>3, OptionFacts DEF Shape, SlotsBounded, Kinds, options
<1> QED
  BY <1>3, <1>4, <1>5, <1>6, <1>7 DEF Shape

\* A request that waits for the prefix of another one is put off.
LEMMA ShapeDefer ==
    ASSUME Shape, NEW r \in Requests, UNCHANGED options, PrepareDefer(r)
    PROVE  Shape'
<1>1. /\ Preparing(r) /\ admitted' = Tail(admitted) /\ deferred' = Append(deferred, r)
      /\ UNCHANGED <<queue, running, pc, queued, prefilling, active, client, generating>>
  BY DEF PrepareDefer
<1>2. /\ pc = "prepare" /\ queued = << >> /\ admitted' \in Seq(Requests)
      /\ Range(admitted) = Range(admitted') \cup {r} /\ IsInjective(admitted')
      /\ r \notin Range(admitted')
      /\ Len(admitted') = Len(admitted) - 1
      /\ r \notin Range(queue) \cup Range(deferred) \cup Range(queued)
                        \cup Range(prefilling) \cup Range(active)
  BY <1>1, PreparingFacts
<1>3. /\ deferred' \in Seq(Requests) /\ Range(deferred') = Range(deferred) \cup {r}
      /\ IsInjective(deferred')
  BY <1>1, <1>2, AppendFacts DEF Shape, Kinds, Apart
<1>4. Kinds'
  BY <1>1, <1>2, <1>3 DEF Shape, Kinds, options
<1>5. Apart'
  BY <1>1, <1>2, <1>3 DEF Shape, Apart
<1>6. Phases'
  BY <1>1, <1>2 DEF Shape, Phases
<1>7. Unsent'
  BY <1>1, <1>2, <1>3 DEF Shape, Unsent
<1>8. SlotsBounded'
  BY <1>1, <1>2, <1>4, OptionFacts DEF Shape, SlotsBounded, Kinds, options
<1> QED
  BY <1>4, <1>5, <1>6, <1>7, <1>8 DEF Shape

\* A prepared request becomes a PrefillCtx.
LEMMA ShapeReady ==
    ASSUME Shape, NEW r \in Requests, UNCHANGED options, PrepareReady(r)
    PROVE  Shape'
<1>1. /\ Preparing(r) /\ admitted' = Tail(admitted) /\ prefilling' = Append(prefilling, r)
      /\ UNCHANGED <<queue, running, pc, deferred, queued, active, client, generating>>
  BY DEF PrepareReady
<1>2. /\ pc = "prepare" /\ queued = << >> /\ admitted' \in Seq(Requests)
      /\ Range(admitted) = Range(admitted') \cup {r} /\ IsInjective(admitted')
      /\ r \notin Range(admitted')
      /\ Len(admitted') = Len(admitted) - 1
      /\ r \notin Range(queue) \cup Range(deferred) \cup Range(queued)
                        \cup Range(prefilling) \cup Range(active)
  BY <1>1, PreparingFacts
<1>3. /\ prefilling' \in Seq(Requests) /\ Range(prefilling') = Range(prefilling) \cup {r}
      /\ IsInjective(prefilling') /\ Len(prefilling') = Len(prefilling) + 1
  BY <1>1, <1>2, AppendFacts DEF Shape, Kinds, Apart
<1>4. Kinds'
  BY <1>1, <1>2, <1>3 DEF Shape, Kinds, options
<1>5. Apart'
  BY <1>1, <1>2, <1>3 DEF Shape, Apart
<1>6. Phases'
  BY <1>1, <1>2 DEF Shape, Phases
<1>7. Unsent'
  BY <1>1, <1>2, <1>3 DEF Shape, Unsent
<1>8. SlotsBounded'
  BY <1>1, <1>2, <1>3, <1>4, OptionFacts DEF Shape, SlotsBounded, Kinds, options
<1> QED
  BY <1>4, <1>5, <1>6, <1>7, <1>8 DEF Shape

\* What is sent back when the ids are exhausted: the request and the rest of its batch,
\* without those whose clients are gone.
LEMMA SentBackFacts ==
    ASSUME Shape, NEW r \in Requests, Preparing(r)
    PROVE  /\ SentBack(r) \in Seq(Requests)
           /\ Range(SentBack(r)) = {r} \cup (Range(Tail(admitted)) \ gone)
           /\ IsInjective(SentBack(r))
<1>1. /\ Tail(admitted) \in Seq(Requests)
      /\ IsInjective(Tail(admitted)) /\ r \notin Range(Tail(admitted))
  BY PreparingFacts
<1>2. PICK t : t = Without(Tail(admitted), gone)
  OBVIOUS
<1>3. /\ t \in Seq(Requests) /\ Range(t) = Range(Tail(admitted)) \ gone
      /\ IsInjective(t)
  BY <1>1, <1>2, WithoutFacts
<1>4. <<r>> \in Seq(Requests) /\ DOMAIN <<r>> = {1} /\ <<r>>[1] = r
  OBVIOUS
<1>5. <<r>> \in Seq(Requests) /\ Range(<<r>>) = {r} /\ IsInjective(<<r>>)
  BY <1>4 DEF Range, IsInjective
<1>6. Range(<<r>>) \cap Range(t) = {}
  BY <1>1, <1>3, <1>5
<1>7. /\ <<r>> \o t \in Seq(Requests) /\ Range(<<r>> \o t) = Range(<<r>>) \cup Range(t)
      /\ IsInjective(<<r>> \o t)
  BY <1>3, <1>5, <1>6, ConcatFacts
<1> QED
  BY <1>2, <1>3, <1>5, <1>7 DEF SentBack

\* Without an id the rest of the batch goes back.
LEMMA ShapeExhausted ==
    ASSUME Shape, NEW r \in Requests, UNCHANGED options, PrepareExhausted(r)
    PROVE  Shape'
<1>1. /\ Preparing(r) /\ admitted' = << >> /\ queued' = SentBack(r)
      /\ UNCHANGED <<queue, running, pc, deferred, prefilling, active, client, generating>>
  BY DEF PrepareExhausted
<1>2. /\ pc = "prepare" /\ Range(admitted) = Range(Tail(admitted)) \cup {r}
  BY <1>1, PreparingFacts
<1>3. /\ queued' \in Seq(Requests) /\ IsInjective(queued')
      /\ Range(queued') \subseteq Range(admitted)
  BY <1>1, <1>2, SentBackFacts
<1>4. /\ admitted' \in Seq(Requests) /\ Range(admitted') = {}
      /\ IsInjective(admitted') /\ Len(admitted') = 0
  BY <1>1, EmptyFacts
<1>5. Kinds'
  BY <1>1, <1>3, <1>4 DEF Shape, Kinds, options
<1>6. Apart'
  BY <1>1, <1>3, <1>4 DEF Shape, Apart
<1>7. Phases'
  BY <1>1, <1>2 DEF Shape, Phases
<1>8. Unsent'
  BY <1>1, <1>3, <1>4 DEF Shape, Unsent
<1>9. SlotsBounded'
  BY <1>1, <1>4, <1>5, OptionFacts DEF Shape, SlotsBounded, Kinds, options
<1> QED
  BY <1>5, <1>6, <1>7, <1>8, <1>9 DEF Shape

\* What was sent back goes to the front of the queue.
LEMMA FinishFacts ==
    ASSUME Shape, FinishPrepare
    PROVE  /\ queue' \in Seq(Requests)
           /\ Range(queue') = Range(queued) \cup Range(deferred) \cup Range(queue)
           /\ IsInjective(queue')
<1>1. /\ pc = "prepare" /\ admitted = << >> /\ queue' = (queued \o deferred) \o queue
      /\ deferred' = << >> /\ queued' = << >> /\ generating' = Len(active) /\ pc' = "sweep"
      /\ UNCHANGED <<running, admitted, prefilling, active, client>>
  BY DEF FinishPrepare
<1>2. PICK t : t = queued \o deferred
  OBVIOUS
<1>3. t \in Seq(Requests) /\ Range(t) = Range(queued) \cup Range(deferred) /\ IsInjective(t)
  <2>1. /\ queued \in Seq(Requests) /\ deferred \in Seq(Requests)
        /\ IsInjective(queued) /\ IsInjective(deferred)
        /\ Range(queued) \cap Range(deferred) = {}
    BY DEF Shape, Kinds, Apart
  <2> QED
    BY <1>2, <2>1, ConcatFacts
<1>4. /\ queue' \in Seq(Requests)
      /\ Range(queue') = Range(queued) \cup Range(deferred) \cup Range(queue)
      /\ IsInjective(queue')
  <2>1. queue \in Seq(Requests) /\ IsInjective(queue) /\ Range(t) \cap Range(queue) = {}
    BY <1>3 DEF Shape, Kinds, Apart
  <2>2. queue' = t \o queue
    BY <1>1, <1>2
  <2>3. /\ t \o queue \in Seq(Requests) /\ Range(t \o queue) = Range(t) \cup Range(queue)
        /\ IsInjective(t \o queue)
    BY <1>3, <2>1, ConcatFacts
  <2> QED
    BY <1>3, <2>2, <2>3
<1> QED
  BY <1>4

\* defer_to_front gives back what prepare_all has not used.
LEMMA ShapeFinish ==
    ASSUME Shape, UNCHANGED options, FinishPrepare
    PROVE  Shape'
<1>1. /\ pc = "prepare" /\ admitted = << >>
      /\ deferred' = << >> /\ queued' = << >> /\ generating' = Len(active) /\ pc' = "sweep"
      /\ UNCHANGED <<running, admitted, prefilling, active, client>>
  BY DEF FinishPrepare
<1>2. /\ queue' \in Seq(Requests)
      /\ Range(queue') = Range(queued) \cup Range(deferred) \cup Range(queue)
      /\ IsInjective(queue')
  BY FinishFacts
<1>3. /\ queued' \in Seq(Requests) /\ Range(queued') = {} /\ IsInjective(queued')
      /\ deferred' \in Seq(Requests) /\ Range(deferred') = {} /\ IsInjective(deferred')
  BY <1>1, EmptyFacts
<1>4. Kinds'
  BY <1>1, <1>2, <1>3 DEF Shape, Kinds, options
<1>5. Apart'
  BY <1>1, <1>2, <1>3 DEF Shape, Apart
<1>6. Phases'
  BY <1>1 DEF Shape, Phases, Kinds
<1>7. Unsent'
  BY <1>1, <1>2, <1>3 DEF Shape, Unsent
<1>8. SlotsBounded'
  BY <1>1 DEF Shape, SlotsBounded, options
<1> QED
  BY <1>4, <1>5, <1>6, <1>7, <1>8 DEF Shape

\* A step that only takes sequences out of flight.
Shrinks ==
    /\ UNCHANGED <<options, running, queue, admitted, deferred, queued>>
    /\ pc # "prepare" /\ pc' # "prepare"
    /\ pc' \in {"top", "locked", "sweep", "decode", "complete", "promote", "exit"}
    /\ active' \in Seq(Requests) /\ IsInjective(active')
    /\ Range(active') \subseteq Range(active) /\ Len(active') <= Len(active)
    /\ prefilling' \in Seq(Requests) /\ IsInjective(prefilling')
    /\ Range(prefilling') \subseteq Range(prefilling) /\ Len(prefilling') <= Len(prefilling)
    /\ client' \in [Requests -> {"new", "sent", "gone"}]
    /\ \A r \in Requests : client'[r] = "new" => client[r] = "new"

\* Letting sequences go disturbs nothing but the phases.
LEMMA ShapeShrinks ==
    ASSUME Shape, Shrinks
    PROVE  Kinds' /\ Apart' /\ Unsent' /\ SlotsBounded'
<1>1. Kinds'
  BY DEF Shape, Shrinks, Kinds, options
<1>2. Apart'
  BY DEF Shape, Shrinks, Apart
<1>3. Unsent'
  BY DEF Shape, Shrinks, Unsent
<1>4. SlotsBounded'
  <2>1. /\ Len(active) \in Nat /\ Len(prefilling) \in Nat /\ Len(admitted) \in Nat
        /\ Len(active') \in Nat /\ Len(prefilling') \in Nat /\ max_generating \in Nat
    BY <1>1, OptionFacts DEF Shape, Kinds
  <2> QED
    BY <2>1 DEF Shape, Shrinks, SlotsBounded, options
<1> QED
  BY <1>1, <1>2, <1>3, <1>4

\* The requests of S leave what is in flight.
LEMMA WithoutShrinks ==
    ASSUME Shape, NEW S, NEW T
    PROVE  /\ Without(active, S) \in Seq(Requests) /\ IsInjective(Without(active, S))
           /\ Range(Without(active, S)) = Range(active) \ S
           /\ Len(Without(active, S)) <= Len(active)
           /\ Without(prefilling, T) \in Seq(Requests) /\ IsInjective(Without(prefilling, T))
           /\ Range(Without(prefilling, T)) = Range(prefilling) \ T
           /\ Len(Without(prefilling, T)) <= Len(prefilling)
<1>1. /\ active \in Seq(Requests) /\ IsInjective(active)
      /\ prefilling \in Seq(Requests) /\ IsInjective(prefilling)
  BY DEF Shape, Kinds, Apart
<1> QED
  BY <1>1, WithoutFacts

\* The end of run releases everything in flight.
LEMMA ShapeLeaveLoop ==
    ASSUME Shape, UNCHANGED options, LeaveLoop
    PROVE  Shape'
<1>1. Shrinks
  <2>1. active' = << >> /\ prefilling' = << >>
    BY DEF LeaveLoop
  <2>2. Range(active') = {} /\ IsInjective(active') /\ Len(active') = 0
    BY <2>1, EmptyFacts
  <2>3. Range(prefilling') = {} /\ IsInjective(prefilling') /\ Len(prefilling') = 0
    BY <2>1, EmptyFacts
  <2> QED
    BY <2>1, <2>2, <2>3 DEF LeaveLoop, Leaves, Shrinks, Shape, Kinds, Unsent, options
<1>2. Phases'
  BY DEF Shape, Phases, LeaveLoop, Leaves
<1> QED
  BY <1>1, <1>2, ShapeShrinks DEF Shape

\* The cancelled sequences leave at the start of fused_step.
LEMMA ShapeSweep ==
    ASSUME Shape, UNCHANGED options, Sweep
    PROVE  Shape'
<1>1. Shrinks
  BY WithoutShrinks DEF Sweep, Shrinks, Shape, Unsent, options
<1>2. Phases'
  <2>1. generating' \in Nat
    BY DEF Sweep, GaugeAfter, Shape, Phases
  <2>2. pc' = "top" => active' = << >> /\ generating' = Len(active')
    BY EmptyFacts DEF Sweep, GaugeAfter
  <2>3. pc' # "top" => pc' = "decode" /\ (active' # << >> \/ prefilling' # << >>)
    BY DEF Sweep
  <2> QED
    BY <2>1, <2>2, <2>3 DEF Shape, Phases, Sweep
<1> QED
  BY <1>1, <1>2, ShapeShrinks DEF Shape

\* The newest sequence makes room for the others.
LEMMA ShapeDecodeFull ==
    ASSUME Shape, UNCHANGED options, DecodeFull
    PROVE  Shape'
<1>1. PICK x : active' = Without(active, {x}) /\ prefilling' = Without(prefilling, {x})
  BY DEF DecodeFull, Drop
<1>2. Shrinks
  BY <1>1, WithoutShrinks DEF DecodeFull, Shrinks, Shape, Unsent, options
<1>3. Phases'
  <2>1. active' \in Seq(Requests)
    BY <1>2 DEF Shrinks
  <2> QED
    BY <2>1 DEF Shape, Phases, DecodeFull
<1> QED
  BY <1>2, <1>3, ShapeShrinks DEF Shape

\* A failed decode lets everything in flight go.
LEMMA ShapeDecodeError ==
    ASSUME Shape, UNCHANGED options, DecodeError
    PROVE  Shape'
<1>1. Shrinks
  <2>1. active' = << >> /\ prefilling' = << >>
    BY DEF DecodeError
  <2>2. Range(active') = {} /\ IsInjective(active') /\ Len(active') = 0
    BY <2>1, EmptyFacts
  <2>3. Range(prefilling') = {} /\ IsInjective(prefilling') /\ Len(prefilling') = 0
    BY <2>1, EmptyFacts
  <2> QED
    BY <2>1, <2>2, <2>3 DEF DecodeError, Shrinks, Shape, Kinds, Unsent, options
<1>2. Phases'
  BY EmptyFacts DEF Shape, Phases, DecodeError
<1> QED
  BY <1>1, <1>2, ShapeShrinks DEF Shape

\* A decode moves no request.
LEMMA ShapeDecodeOk ==
    ASSUME Shape, UNCHANGED options, NEW eog, NEW broken, DecodeOk(eog, broken)
    PROVE  Shape'
<1>1. Shrinks
  <2>1. /\ UNCHANGED <<queue, running, places, generating>>
        /\ pc = "decode" /\ pc' = "complete"
        /\ client' = [r \in Requests |-> IF r \in broken THEN "gone" ELSE client[r]]
    BY DEF DecodeOk
  <2>2. client \in [Requests -> {"new", "sent", "gone"}]
    BY DEF Shape, Unsent
  <2>3. /\ client' \in [Requests -> {"new", "sent", "gone"}]
        /\ \A r \in Requests : client'[r] = "new" => client[r] = "new"
    BY <2>1, <2>2
  <2>4. /\ active' = active /\ prefilling' = prefilling
        /\ Len(active) \in Nat /\ Len(prefilling) \in Nat
    BY <2>1 DEF places, Shape, Kinds
  <2> QED
    BY <2>1, <2>3, <2>4 DEF places, Shrinks, Shape, Kinds, Apart, options
<1>2. Phases'
  BY DEF Shape, Phases, DecodeOk, places
<1> QED
  BY <1>1, <1>2, ShapeShrinks DEF Shape

\* The sequences that are done leave.
LEMMA ShapeComplete ==
    ASSUME Shape, UNCHANGED options, Complete
    PROVE  Shape'
<1>1. Shrinks
  <2>1. /\ active' \in Seq(Requests) /\ IsInjective(active')
        /\ Range(active') \subseteq Range(active) /\ Len(active') <= Len(active)
    BY WithoutShrinks DEF Complete
  <2> QED
    BY <2>1 DEF Complete, Shrinks, Shape, Kinds, Apart, Unsent, options
<1>2. Phases'
  BY DEF Shape, Phases, Complete
<1> QED
  BY <1>1, <1>2, ShapeShrinks DEF Shape

\* The sequences of a promotion: those that go on decoding, those that leave.
LEMMA PromoteFacts ==
    ASSUME Shape, NEW F, NEW K, K \subseteq F, F \subseteq Range(prefilling)
    PROVE  LET t == Without(prefilling, Requests \ K)
               p == Without(prefilling, F)
               a == active \o t
           IN  /\ t \in Seq(Requests) /\ Range(t) = K /\ IsInjective(t)
               /\ p \in Seq(Requests) /\ Range(p) = Range(prefilling) \ F /\ IsInjective(p)
               /\ a \in Seq(Requests) /\ Range(a) = Range(active) \cup K /\ IsInjective(a)
               /\ Len(a) = Len(active) + Len(t)
               /\ Len(t) + Len(p) <= Len(prefilling)
<1>1. /\ active \in Seq(Requests) /\ IsInjective(active)
      /\ prefilling \in Seq(Requests) /\ IsInjective(prefilling)
      /\ Range(active) \cap Range(prefilling) = {}
  BY DEF Shape, Kinds, Apart
<1>2. PICK t, p, a : /\ t = Without(prefilling, Requests \ K)
                     /\ p = Without(prefilling, F)
                     /\ a = active \o t
  OBVIOUS
<1>3. Range(prefilling) \subseteq Requests
  BY <1>1, RangeFacts
<1>4. t \in Seq(Requests) /\ Range(t) = K /\ IsInjective(t)
  <2>1. t \in Seq(Requests) /\ Range(t) = Range(prefilling) \ (Requests \ K) /\ IsInjective(t)
    BY <1>1, <1>2, WithoutFacts
  <2> QED
    BY <1>3, <2>1
<1>5. p \in Seq(Requests) /\ Range(p) = Range(prefilling) \ F /\ IsInjective(p)
  BY <1>1, <1>2, WithoutFacts
<1>6. /\ a \in Seq(Requests) /\ Range(a) = Range(active) \cup K /\ IsInjective(a)
      /\ Len(a) = Len(active) + Len(t)
  <2>1. Range(active) \cap Range(t) = {}
    BY <1>1, <1>4
  <2>2. /\ active \o t \in Seq(Requests) /\ Range(active \o t) = Range(active) \cup Range(t)
        /\ IsInjective(active \o t) /\ Len(active \o t) = Len(active) + Len(t)
    BY <1>1, <1>4, <2>1, ConcatFacts
  <2> QED
    BY <1>2, <1>4, <2>2
<1>7. Len(t) + Len(p) <= Len(prefilling)
  <2>1. \A x \in Requests : x \in Requests \ K \/ x \in F
    OBVIOUS
  <2> QED
    BY <1>1, <1>2, <2>1, WithoutSplits
<1> QED
  BY <1>2, <1>4, <1>5, <1>6, <1>7

\* A prompt that is complete becomes an ActiveSeq or leaves.
LEMMA ShapePromote ==
    ASSUME Shape, UNCHANGED options, NEW eog, Promote(eog)
    PROVE  Shape'
<1>1. PICK F, K : /\ K \subseteq F /\ F \subseteq Range(prefilling)
                  /\ active' = active \o Without(prefilling, Requests \ K)
                  /\ prefilling' = Without(prefilling, F)
  <2> DEFINE F == {r \in Range(prefilling) : left[r] = 0}
             K == (F \ gone) \ (eog \cup {r \in (F \ gone) \ eog : FirstIsLast(r)})
  <2>1. /\ active' = active \o Without(prefilling, Requests \ K)
        /\ prefilling' = Without(prefilling, F)
    BY DEF Promote
  <2>2. K \subseteq F /\ F \subseteq Range(prefilling)
    OBVIOUS
  <2> HIDE DEF K, F
  <2> QED
    BY <2>1, <2>2
<1>2. /\ prefilling' \in Seq(Requests) /\ Range(prefilling') = Range(prefilling) \ F
      /\ IsInjective(prefilling')
      /\ active' \in Seq(Requests) /\ Range(active') = Range(active) \cup K
      /\ IsInjective(active')
      /\ Len(active') + Len(prefilling') <= Len(active) + Len(prefilling)
  <2>1. PICK t : t = Without(prefilling, Requests \ K)
    OBVIOUS
  <2>2. /\ t \in Seq(Requests)
        /\ prefilling' \in Seq(Requests) /\ Range(prefilling') = Range(prefilling) \ F
        /\ IsInjective(prefilling')
        /\ active' \in Seq(Requests) /\ Range(active') = Range(active) \cup K
        /\ IsInjective(active')
        /\ Len(active') = Len(active) + Len(t)
        /\ Len(t) + Len(prefilling') <= Len(prefilling)
    BY <1>1, <2>1, PromoteFacts
  <2>3. Len(t) \in Nat /\ Len(prefilling) \in Nat /\ Len(active) \in Nat /\ Len(prefilling') \in Nat
    BY <2>2 DEF Shape, Kinds
  <2> QED
    BY <2>2, <2>3
<1>3. /\ UNCHANGED <<queue, running, admitted, deferred, queued, client>>
      /\ pc = "promote" /\ pc' = "top" /\ generating' = Len(active')
  BY DEF Promote
<1>4. Kinds'
  BY <1>2, <1>3 DEF Shape, Kinds, options
<1>5. Apart'
  BY <1>1, <1>2, <1>3 DEF Shape, Apart
<1>6. Phases'
  BY <1>2, <1>3 DEF Shape, Phases
<1>7. Unsent'
  BY <1>1, <1>2, <1>3 DEF Shape, Unsent
<1>8. SlotsBounded'
  <2>1. /\ Len(admitted) \in Nat /\ Len(active) \in Nat /\ Len(prefilling) \in Nat
        /\ Len(active') \in Nat /\ Len(prefilling') \in Nat /\ max_generating \in Nat
    BY <1>2, OptionFacts DEF Shape, Kinds
  <2> QED
    BY <1>2, <1>3, <2>1 DEF Shape, SlotsBounded, options
<1> QED
  BY <1>4, <1>5, <1>6, <1>7, <1>8 DEF Shape

\* What does not touch a sequence: the loop is entered, a client leaves, or stop is called.
LEMMA ShapeElsewhere ==
    ASSUME Shape,
           \/ UNCHANGED options
              /\ (EnterLoop \/ Waits \/ stop \/ \E r \in Requests : Disconnect(r))
           \/ UNCHANGED vars
    PROVE  Shape'
<1>1. /\ UNCHANGED <<options, queue, admitted, deferred, queued, prefilling, active, generating>>
      /\ running' \in BOOLEAN
      /\ \/ pc' = pc
         \/ /\ pc \in {"top", "locked", "checked", "asleep"}
            /\ pc' \in {"locked", "checked", "asleep"}
      /\ client' \in [Requests -> {"new", "sent", "gone"}]
      /\ \A r \in Requests : client'[r] = "new" => client[r] = "new"
  <2>1. CASE UNCHANGED options /\ EnterLoop
    BY <2>1 DEF EnterLoop, places, options, Shape, Kinds, Unsent
  <2>2. CASE UNCHANGED options /\ stop
    BY <2>2 DEF stop, places, options, Shape, Kinds, Unsent
  <2>3. ASSUME NEW r \in Requests, UNCHANGED options, Disconnect(r)
        PROVE  <1>1!:
    BY <2>3 DEF Disconnect, places, options, Shape, Kinds, Unsent
  <2>4. CASE UNCHANGED vars
    BY <2>4 DEF vars, places, options, Shape, Kinds, Unsent
  <2>5. CASE UNCHANGED options /\ Waits
    BY <2>5, WaitFacts DEF places, options, Shape, Kinds, Unsent
  <2> QED
    BY <2>1, <2>2, <2>3, <2>4, <2>5
<1>2. Kinds'
  BY <1>1 DEF Shape, Kinds, options
<1>3. Apart'
  BY <1>1 DEF Shape, Apart
<1>4. Phases'
  BY <1>1 DEF Shape, Phases
<1>5. Unsent'
  BY <1>1 DEF Shape, Unsent
<1>6. SlotsBounded'
  BY <1>1 DEF Shape, SlotsBounded, options
<1> QED
  BY <1>2, <1>3, <1>4, <1>5, <1>6 DEF Shape

\* Every step keeps the requests apart, the batch within the ids, and the gauge right.
LEMMA ShapeNext ==
    ASSUME Shape, [Next]_vars
    PROVE  Shape'
<1>1. CASE UNCHANGED vars
  BY <1>1, ShapeElsewhere
<1>2. CASE Next
  <2>1. UNCHANGED options
    BY <1>2 DEF Next
  <2>2. ASSUME NEW r \in Requests, enqueue(r) \/ Disconnect(r) PROVE Shape'
    BY <2>1, <2>2, ShapeEnqueue, ShapeElsewhere
  <2>3. CASE stop \/ EnterLoop \/ Waits
    BY <2>1, <2>3, ShapeElsewhere
  <2>4. CASE LeaveLoop
    BY <2>1, <2>4, ShapeLeaveLoop
  <2>5. CASE Admit
    BY <2>1, <2>5, ShapeAdmit
  <2>6. CASE FinishPrepare
    BY <2>1, <2>6, ShapeFinish
  <2>7. ASSUME NEW r \in Requests,
               \/ PrepareCancelled(r) \/ PrepareError(r) \/ PrepareDefer(r)
               \/ PrepareExhausted(r) \/ PrepareReady(r)
        PROVE  Shape'
    BY <2>1, <2>7, ShapeLeaves, ShapeDefer, ShapeExhausted, ShapeReady
  <2>8. CASE Sweep
    BY <2>1, <2>8, ShapeSweep
  <2>9. CASE DecodeFull
    BY <2>1, <2>9, ShapeDecodeFull
  <2>10. CASE DecodeError
    BY <2>1, <2>10, ShapeDecodeError
  <2>11. ASSUME NEW eog, NEW broken, DecodeOk(eog, broken) PROVE Shape'
    BY <2>1, <2>11, ShapeDecodeOk
  <2>12. CASE Complete
    BY <2>1, <2>12, ShapeComplete
  <2>13. ASSUME NEW eog, Promote(eog) PROVE Shape'
    BY <2>1, <2>13, ShapePromote
  <2> QED
    BY <1>2, <2>2, <2>3, <2>4, <2>5, <2>6, <2>7, <2>8, <2>9, <2>10, <2>11, <2>12, <2>13
       DEF Next, WorkerStep, Waits
<1> QED
  BY <1>1, <1>2

\* Wherever the requests of the worker are, they are there once.
THEOREM ShapeInvariance == Spec => []Shape
BY ShapeInit, ShapeNext, PTL DEF Spec

\* SlotsBounded: the sequences that are admitted, prefilling and decoding never exceed the
\* ids that run counts down (worker.cpp), whatever --max-seq is.
THEOREM SlotsStayBounded == Spec => []SlotsBounded
<1>1. Shape => SlotsBounded
  BY DEF Shape
<1> QED
  BY <1>1, ShapeInvariance, PTL

\* IdleIsSeen: what main reads of a worker that waits for work is what there is.
THEOREM IdleAlwaysSeen == Spec => []IdleIsSeen
<1>1. Shape => IdleIsSeen
  <2> SUFFICES ASSUME Shape, pc \in {"locked", "checked", "asleep"}
               PROVE  is_idle <=> queue = << >> /\ active = << >>
    BY DEF IdleIsSeen
  <2>1. generating = Len(active) /\ active \in Seq(Requests)
    BY DEF Shape, Phases, Kinds
  <2>2. Len(active) = 0 <=> active = << >>
    BY <2>1, EmptySeq
  <2> QED
    BY <2>1, <2>2 DEF is_idle
<1> QED
  BY <1>1, ShapeInvariance, PTL

-----------------------------------------------------------------------------
(* Layer two: what the clients are told *)

Ended(s) == s # << >> /\ Last(s) \in Terminal

\* One more callback, after which Last is that one.
LEMMA CallbackFacts ==
    ASSUME NEW s \in Seq(Callbacks), NEW w \in Callbacks
    PROVE  /\ Append(s, w) \in Seq(Callbacks)
           /\ Ended(Append(s, w)) <=> w \in Terminal
           /\ InOrder(s) /\ ~ Ended(s) => InOrder(Append(s, w))
           /\ InOrder(<< >>) /\ ~ Ended(<< >>)
<1>1. PICK t : t = Append(s, w)
  OBVIOUS
<1>2. PICK n \in Nat : n = Len(s)
  BY LenProperties
<1>3. /\ t \in Seq(Callbacks) /\ t # << >> /\ Len(t) = n + 1
      /\ \A i \in 1 .. n : t[i] = s[i]
      /\ t[n + 1] = w
  BY <1>1, <1>2, AppendProperties
<1>4. Last(t) = w
  BY <1>3 DEF Last
<1>5. Ended(t) <=> w \in Terminal
  BY <1>3, <1>4 DEF Ended
<1>6. ASSUME InOrder(s), ~ Ended(s)
      PROVE  InOrder(t)
  <2>1. SUFFICES ASSUME NEW i \in 1 .. n + 1, t[i] \in Terminal
                 PROVE  i = n + 1
    BY <1>3 DEF InOrder
  <2>2. ASSUME i # n + 1 PROVE FALSE
    <3>1. i \in 1 .. n
      BY <2>2
    <3>2. i \in 1 .. n /\ s[i] \in Terminal
      BY <1>3, <2>1, <3>1
    <3>3. i = n /\ s # << >>
      BY <1>2, <1>6, <3>2, EmptyFacts DEF InOrder
    <3>4. Last(s) = s[i]
      BY <1>2, <3>3 DEF Last
    <3> QED
      BY <1>6, <3>2, <3>3, <3>4 DEF Ended
  <2> QED
    BY <2>2
<1>7. InOrder(<< >>) /\ ~ Ended(<< >>)
  BY EmptyFacts DEF InOrder, Ended
<1> QED
  BY <1>1, <1>3, <1>5, <1>6, <1>7

\* A step that makes at most one callback to each request, and none after a terminal one
\* or to a request that waits.
LEMMA SilentStep ==
    ASSUME Silent,
           out' = [r \in Requests |-> out'[r]],
           \A r \in Requests :
               \/ out'[r] = out[r]
               \/ /\ ~ Answered(r) /\ client'[r] # "new" /\ r \notin Waiting'
                  /\ \E w \in Callbacks : out'[r] = Append(out[r], w),
           \A r \in Requests : client'[r] = "new" => client[r] = "new",
           \A r \in Waiting' : r \in Requests /\ (r \in Waiting \/ client[r] = "new")
    PROVE  Silent'
<1>1. \A r \in Requests : out[r] \in Seq(Callbacks) /\ InOrder(out[r])
  BY DEF Silent
<1>2. \A r \in Requests : out'[r] \in Seq(Callbacks) /\ InOrder(out'[r])
  <2>1. TAKE r \in Requests
  <2>2. CASE out'[r] = out[r]
    BY <1>1, <2>2
  <2>3. ASSUME ~ Answered(r), NEW w \in Callbacks, out'[r] = Append(out[r], w)
        PROVE  out'[r] \in Seq(Callbacks) /\ InOrder(out'[r])
    <3>1. ~ Ended(out[r])
      BY <2>3 DEF Answered, Ended
    <3> QED
      BY <1>1, <2>3, <3>1, CallbackFacts
  <2> QED
    BY <2>2, <2>3
<1>3. out' \in [Requests -> Seq(Callbacks)]
  BY <1>2
<1>4. \A r \in Requests : client'[r] = "new" => out'[r] = << >>
  BY DEF Silent
<1>5. \A r \in Waiting' : out'[r] = << >>
  BY DEF Silent
<1>6. \A r \in Requests : InOrder(out'[r])
  BY <1>2
<1> QED
  BY <1>3, <1>4, <1>5, <1>6 DEF Silent, InOrder

\* A step without a callback that takes requests from one place to another, or counts
\* those that it lets go.
LEMMA QuietStep ==
    ASSUME Replies,
           UNCHANGED <<out, done, notify>>,
           counted \subseteq counted', counted' \subseteq gone',
           \A r \in Requests : client'[r] = "new" => client[r] = "new",
           \A r \in Waiting' : r \in Requests /\ (r \in Waiting \/ client[r] = "new"),
           Range(active') \subseteq Range(active), done \subseteq Range(active'),
           pc' = "complete" \/ done = {},
           pc = "exit" => pc' = "exit",
           \A r \in Requests :
               /\ client'[r] # "new" /\ r \notin counted' /\ pc' # "exit"
               /\ client[r] = "new" \/ r \in Waiting \/ r \in Range(active)
               => r \in Waiting' \/ r \in Range(active')
    PROVE  Replies'
<1>1. Silent'
  <2>1. out' = [r \in Requests |-> out'[r]] /\ \A r \in Requests : out'[r] = out[r]
    BY DEF Replies, Silent
  <2> QED
    BY <2>1, SilentStep DEF Replies
<1>2. \A r : Answered(r)' <=> Answered(r)
  BY DEF Answered
<1>3. Retiring'
  BY <1>2 DEF Replies, Retiring
<1>4. Kept'
  BY <1>2 DEF Replies, Kept
<1> QED
  BY <1>1, <1>3, <1>4 DEF Replies

\* At the start nobody has been told anything.
LEMMA RepliesInit == Init => Replies
<1> SUFFICES ASSUME Init PROVE Replies
  OBVIOUS
<1>1. \A r \in Requests : out[r] = << >>
  BY DEF Init
<1>2. Waiting = {} /\ Range(active) = {}
  BY EmptyFacts DEF Init, Waiting
<1>3. Silent
  <2>1. out \in [Requests -> Seq(Callbacks)]
    BY DEF Init
  <2>2. \A r \in Requests : InOrder(out[r])
    BY <1>1, EmptyFacts DEF InOrder
  <2> QED
    BY <2>1, <2>2, <1>1, <1>2 DEF Silent
<1>4. Retiring
  BY <1>2 DEF Init, Retiring, gone
<1>5. Kept
  BY DEF Init, Kept
<1> QED
  BY <1>3, <1>4, <1>5 DEF Replies

\* The steps without a callback.
LEMMA RepliesQuiet ==
    ASSUME Shape, Shape', Replies,
           \/ EnterLoop \/ Waits \/ stop \/ LeaveLoop \/ Admit \/ FinishPrepare \/ Sweep
           \/ \E r \in Requests :
                  \/ enqueue(r) \/ Disconnect(r) \/ PrepareCancelled(r) \/ PrepareDefer(r)
                  \/ PrepareExhausted(r) \/ PrepareReady(r)
           \/ UNCHANGED vars
    PROVE  Replies'
<1>1. \A r \in Waiting' : r \in Requests
  BY RangeFacts DEF Shape, Kinds, Waiting
<1>2. counted \subseteq gone /\ done \subseteq Range(active) /\ (pc = "complete" \/ done = {})
  BY DEF Replies, Retiring
<1>3. CASE EnterLoop \/ Waits \/ stop \/ UNCHANGED vars
  <2>1. /\ UNCHANGED <<queue, places, steps, client, counted, out>>
        /\ \/ pc' = pc
           \/ /\ pc \in {"top", "locked", "checked", "asleep"}
            /\ pc' \in {"locked", "checked", "asleep"}
    BY <1>3, WaitFacts DEF EnterLoop, stop, vars
  <2> QED
    BY <1>1, <1>2, <2>1, QuietStep DEF places, steps, Waiting, gone
<1>4. CASE LeaveLoop
  <2>1. Range(active') = {} /\ Range(prefilling') = {}
    BY <1>4, EmptyFacts DEF LeaveLoop
  <2> QED
    BY <1>1, <1>2, <1>4, <2>1, QuietStep DEF LeaveLoop, Leaves, steps, Waiting, gone
<1>5. CASE Admit
  <2>1. Range(queue) = Range(admitted') \cup Range(queue') /\ Range(admitted) = {}
    BY <1>5, AdmitFacts, EmptyFacts
  <2> QED
    BY <1>1, <1>2, <1>5, <2>1, QuietStep DEF Admit, steps, Waiting, gone
<1>6. CASE FinishPrepare
  <2>1. /\ Range(queue') = Range(queued) \cup Range(deferred) \cup Range(queue)
        /\ Range(deferred') = {} /\ Range(queued') = {}
    BY <1>6, FinishFacts, EmptyFacts DEF FinishPrepare
  <2> QED
    BY <1>1, <1>2, <1>6, <2>1, QuietStep DEF FinishPrepare, steps, Waiting, gone
<1>7. CASE Sweep
  <2>1. Range(active') = Range(active) \ gone /\ Range(prefilling') = Range(prefilling) \ gone
    BY <1>7, WithoutShrinks DEF Sweep
  <2>2. counted' = counted \cup ((Range(active) \cup Range(prefilling)) \cap gone) /\ gone' = gone
    BY <1>7 DEF Sweep, Polled, gone
  <2>3. done = {} /\ pc' # "exit" /\ pc # "exit"
    BY <1>2, <1>7 DEF Sweep
  <2> QED
    BY <1>1, <1>2, <1>7, <2>1, <2>2, <2>3, QuietStep DEF Sweep, steps, Waiting
<1>8. ASSUME NEW r \in Requests, enqueue(r) PROVE Replies'
  <2>1. Range(queue') = Range(queue) \cup {r}
    BY <1>8, AppendFacts DEF enqueue, Shape, Kinds
  <2>2. \A q \in Requests : q # r => client'[q] = client[q]
    BY <1>8 DEF enqueue, Shape, Unsent
  <2>3. client'[r] = "sent" /\ client[r] = "new"
    BY <1>8 DEF enqueue, Shape, Unsent
  <2>4. counted' \subseteq gone'
    BY <1>2, <1>8, <2>2, <2>3 DEF enqueue, gone
  <2> QED
    BY <1>1, <1>2, <1>8, <2>1, <2>2, <2>3, <2>4, QuietStep DEF enqueue, places, steps, Waiting
<1>9. ASSUME NEW r \in Requests, Disconnect(r) PROVE Replies'
  <2>1. \A q \in Requests : q # r => client'[q] = client[q]
    BY <1>9 DEF Disconnect, Shape, Unsent
  <2>2. client'[r] = "gone" /\ client[r] = "sent"
    BY <1>9 DEF Disconnect, Shape, Unsent
  <2>3. counted' \subseteq gone'
    BY <1>2, <1>9, <2>1, <2>2 DEF Disconnect, gone
  <2> QED
    BY <1>1, <1>2, <1>9, <2>1, <2>2, <2>3, QuietStep DEF Disconnect, places, steps, Waiting
<1>10. ASSUME NEW r \in Requests, PrepareCancelled(r) PROVE Replies'
  <2>1. Range(admitted) = Range(admitted') \cup {r} /\ pc = "prepare"
    BY <1>10, PreparingFacts DEF PrepareCancelled
  <2>2. counted' = counted \cup {r} /\ r \in gone /\ gone' = gone
    BY <1>10 DEF PrepareCancelled, Polled, gone
  <2> QED
    BY <1>1, <1>2, <1>10, <2>1, <2>2, QuietStep DEF PrepareCancelled, steps, Waiting
<1>11. ASSUME NEW r \in Requests, PrepareDefer(r) PROVE Replies'
  <2>1. /\ Range(admitted) = Range(admitted') \cup {r} /\ pc = "prepare"
        /\ Range(deferred') = Range(deferred) \cup {r}
    BY <1>11, PreparingFacts, AppendFacts DEF PrepareDefer, Shape, Kinds
  <2> QED
    BY <1>1, <1>2, <1>11, <2>1, QuietStep DEF PrepareDefer, steps, Waiting, gone
<1>12. ASSUME NEW r \in Requests, PrepareExhausted(r) PROVE Replies'
  <2>1. /\ Range(admitted) = Range(Tail(admitted)) \cup {r} /\ pc = "prepare"
        /\ Range(queued) = {} /\ Range(admitted') = {}
    BY <1>12, PreparingFacts, EmptyFacts DEF PrepareExhausted
  <2>2. Range(queued') = {r} \cup (Range(Tail(admitted)) \ gone)
    BY <1>12, SentBackFacts DEF PrepareExhausted
  <2>3. counted' = counted \cup (Range(Tail(admitted)) \cap gone) /\ gone' = gone
    BY <1>12 DEF PrepareExhausted, Polled, gone
  <2> QED
    BY <1>1, <1>2, <1>12, <2>1, <2>2, <2>3, QuietStep DEF PrepareExhausted, steps, Waiting
<1>13. ASSUME NEW r \in Requests, PrepareReady(r) PROVE Replies'
  <2>1. /\ Range(admitted) = Range(admitted') \cup {r} /\ pc = "prepare"
        /\ Range(prefilling') = Range(prefilling) \cup {r}
    BY <1>13, PreparingFacts, AppendFacts DEF PrepareReady, Shape, Kinds
  <2> QED
    BY <1>1, <1>2, <1>13, <2>1, QuietStep DEF PrepareReady, Waiting, gone
<1> QED
  BY <1>3, <1>4, <1>5, <1>6, <1>7, <1>8, <1>9, <1>10, <1>11, <1>12, <1>13

\* A callback to the requests S.
LEMMA SayFacts ==
    ASSUME Silent, NEW S, NEW w \in Callbacks, out' = Say(S, w)
    PROVE  /\ out' = [r \in Requests |-> out'[r]]
           /\ \A r \in Requests : r \notin S => out'[r] = out[r]
           /\ \A r \in Requests : r \in S =>
                  /\ \E v \in Callbacks : out'[r] = Append(out[r], v)
                  /\ Ended(out'[r]) <=> w \in Terminal
<1>1. out' = [r \in Requests |-> IF r \in S THEN Append(out[r], w) ELSE out[r]]
  BY DEF Say
<1>2. \A r \in Requests : out[r] \in Seq(Callbacks)
  BY DEF Silent
<1>3. \A r \in Requests : Ended(Append(out[r], w)) <=> w \in Terminal
  BY <1>2, CallbackFacts
<1> QED
  BY <1>1, <1>3

\* A step outside Complete and DecodeOk that fails the requests S and lets them go.
LEMMA FailStep ==
    ASSUME Replies, NEW S \in SUBSET Requests, out' = Say(S, "error"),
           UNCHANGED <<done, notify, client>>, done = {}, notify = {},
           \A r \in S : /\ ~ Answered(r) /\ client[r] # "new"
                        /\ r \notin Waiting' /\ r \notin Range(active'),
           \A r \in Waiting' : r \in Requests /\ r \in Waiting,
           Range(active') \subseteq Range(active), Range(active') \subseteq Requests,
           counted \subseteq counted', counted' \subseteq gone', pc # "exit",
           \A r \in Requests :
               (r \in Waiting \/ r \in Range(active)) /\ ~ (r \in Waiting' \/ r \in Range(active'))
               => r \in S \/ r \in counted'
    PROVE  Replies'
<1>1. "error" \in Callbacks /\ "error" \in Terminal
  BY DEF Callbacks, Terminal
<1>2. /\ out' = [r \in Requests |-> out'[r]]
      /\ \A r \in Requests : r \notin S => out'[r] = out[r]
      /\ \A r \in Requests : r \in S =>
             (\E v \in Callbacks : out'[r] = Append(out[r], v)) /\ Ended(out'[r])
  BY <1>1, SayFacts DEF Replies
<1>3. Silent'
  BY <1>2, SilentStep DEF Replies
<1>4. \A r \in Requests : Answered(r)' <=> r \in S \/ Answered(r)
  BY <1>2 DEF Answered, Ended
<1>5. Retiring'
  BY <1>4 DEF Replies, Retiring
<1>6. Kept'
  BY <1>4 DEF Replies, Kept
<1> QED
  BY <1>3, <1>5, <1>6 DEF Replies

\* The sequences in flight, outside Complete, have not been answered.
LEMMA InFlight ==
    ASSUME Shape, Replies, pc # "complete"
    PROVE  /\ done = {} /\ notify = {}
           /\ \A r \in Range(active) \cup Waiting :
                  r \in Requests /\ ~ Answered(r) /\ client[r] # "new"
<1>1. done = {} /\ notify = {}
  BY DEF Replies, Retiring
<1>2. Range(active) \cup Waiting \subseteq Requests
  BY RangeFacts DEF Shape, Kinds, Waiting
<1>3. \A r \in Range(active) \cup Waiting : client[r] # "new"
  BY <1>2 DEF Shape, Unsent, Waiting
<1>4. \A r \in Waiting : ~ Answered(r)
  BY DEF Replies, Silent, Answered
<1>5. \A r \in Range(active) : ~ Answered(r)
  BY <1>1 DEF Replies, Retiring
<1> QED
  BY <1>1, <1>2, <1>3, <1>4, <1>5

\* on_error in prepare_all is the first and last callback of the request.
LEMMA RepliesPrepareError ==
    ASSUME Shape, Shape', Replies, NEW r \in Requests, PrepareError(r)
    PROVE  Replies'
<1>1. /\ Range(admitted) = Range(admitted') \cup {r} /\ pc = "prepare" /\ r \notin Range(admitted')
      /\ r \notin Range(queue) \cup Range(deferred) \cup Range(queued)
                        \cup Range(prefilling) \cup Range(active)
  BY PreparingFacts DEF PrepareError
<1>2. /\ out' = Say({r}, "error")
      /\ UNCHANGED <<queue, pc, deferred, queued, prefilling, active, done, notify, client,
                     counted>>
  BY DEF PrepareError, steps
<1>3. /\ done = {} /\ notify = {}
      /\ \A q \in Range(active) \cup Waiting : q \in Requests /\ ~ Answered(q) /\ client[q] # "new"
  BY <1>1, InFlight
<1>4. Waiting = Waiting' \cup {r} /\ r \notin Waiting'
  BY <1>1, <1>2 DEF Waiting
<1>5. counted' \subseteq gone'
  BY <1>2 DEF Replies, Retiring, gone
<1> QED
  BY <1>1, <1>2, <1>3, <1>4, <1>5, FailStep

\* on_error for the newest sequence, or its on_cancel.
LEMMA RepliesDecodeFull ==
    ASSUME Shape, Shape', Replies, DecodeFull
    PROVE  Replies'
<1>1. PICK x : /\ x = IF active # << >> THEN Last(active) ELSE Last(prefilling)
               /\ active' = Without(active, {x}) /\ prefilling' = Without(prefilling, {x})
               /\ out' = Say({x} \ gone, "error")
               /\ counted' = counted \cup ({x} \cap gone)
  BY DEF DecodeFull, Drop, Polled
<1>2. x \in Range(active) \cup Range(prefilling)
  <2>1. active # << >> \/ prefilling # << >>
    BY DEF Shape, Phases, DecodeFull
  <2> QED
    BY <1>1, <2>1, RangeFacts DEF Shape, Kinds
<1>3. Range(active') = Range(active) \ {x} /\ Range(prefilling') = Range(prefilling) \ {x}
  BY <1>1, WithoutShrinks
<1>4. /\ UNCHANGED <<queue, admitted, deferred, queued, done, notify, client>>
      /\ pc = "decode" /\ pc' = "top"
  BY DEF DecodeFull, steps
<1>5. /\ done = {} /\ notify = {}
      /\ \A q \in Range(active) \cup Waiting : q \in Requests /\ ~ Answered(q) /\ client[q] # "new"
  BY <1>4, InFlight
<1>6. x \notin Range(queue) \cup Range(admitted) \cup Range(deferred) \cup Range(queued)
  BY <1>2 DEF Shape, Apart
<1>7. /\ Waiting' \subseteq Waiting /\ x \notin Waiting' /\ x \in Requests
      /\ \A q \in Waiting : q # x => q \in Waiting'
      /\ ~ Answered(x) /\ client[x] # "new"
  BY <1>2, <1>3, <1>4, <1>5, <1>6 DEF Waiting
<1>8. gone' = gone /\ counted \subseteq gone
  BY <1>4 DEF Replies, Retiring, gone
<1>9. counted' \subseteq gone' /\ counted \subseteq counted'
  BY <1>1, <1>8
<1> DEFINE S == {x} \ gone
<1>10. /\ S \in SUBSET Requests /\ out' = Say(S, "error")
       /\ \A r \in S : /\ ~ Answered(r) /\ client[r] # "new"
                        /\ r \notin Waiting' /\ r \notin Range(active')
       /\ \A r \in Requests :
               (r \in Waiting \/ r \in Range(active)) /\ ~ (r \in Waiting' \/ r \in Range(active'))
               => r \in S \/ r \in counted'
  BY <1>1, <1>3, <1>7
<1> HIDE DEF S
<1>11. Range(active') \subseteq Range(active) /\ Range(active') \subseteq Requests
  BY <1>3, <1>5
<1> QED
  BY <1>4, <1>5, <1>7, <1>9, <1>10, <1>11, FailStep

\* on_error for everything in flight, or on_cancel.
LEMMA RepliesDecodeError ==
    ASSUME Shape, Shape', Replies, DecodeError
    PROVE  Replies'
<1> DEFINE all == Range(active) \cup Range(prefilling)
           S == all \ gone
<1>1. /\ out' = Say(S, "error") /\ counted' = counted \cup (all \cap gone)
      /\ active' = << >> /\ prefilling' = << >>
      /\ UNCHANGED <<queue, admitted, deferred, queued, done, notify, client>>
      /\ pc = "decode" /\ pc' = "top"
  BY DEF DecodeError, Polled, steps
<1>2. Range(active') = {} /\ Range(prefilling') = {}
  BY <1>1, EmptyFacts
<1>3. /\ done = {} /\ notify = {}
      /\ \A q \in Range(active) \cup Waiting : q \in Requests /\ ~ Answered(q) /\ client[q] # "new"
  BY <1>1, InFlight
<1>4. \A q \in all :
          q \notin Range(queue) \cup Range(admitted) \cup Range(deferred) \cup Range(queued)
  BY DEF Shape, Apart
<1>5. /\ Waiting' \subseteq Waiting
      /\ \A q \in all : q \notin Waiting' /\ q \in Requests /\ ~ Answered(q) /\ client[q] # "new"
      /\ \A q \in Waiting : q \notin all => q \in Waiting'
  BY <1>1, <1>2, <1>3, <1>4 DEF Waiting
<1>6. gone' = gone /\ counted \subseteq gone
  BY <1>1 DEF Replies, Retiring, gone
<1>7. counted' \subseteq gone' /\ counted \subseteq counted'
  BY <1>1, <1>6
<1>8. /\ S \in SUBSET Requests
      /\ \A r \in S : /\ ~ Answered(r) /\ client[r] # "new"
                       /\ r \notin Waiting' /\ r \notin Range(active')
      /\ \A r \in Requests :
               (r \in Waiting \/ r \in Range(active)) /\ ~ (r \in Waiting' \/ r \in Range(active'))
               => r \in S \/ r \in counted'
  BY <1>1, <1>2, <1>5
<1> HIDE DEF S
<1> QED
  BY <1>1, <1>2, <1>3, <1>5, <1>7, <1>8, FailStep

\* on_token for the sequences that go on; the others are done, told or counted.
LEMMA RepliesDecodeOk ==
    ASSUME Shape, Replies, NEW eog \in SUBSET Range(active), NEW broken, DecodeOk(eog, broken)
    PROVE  Replies'
<1>1. PICK live, last : live = Range(active) \ eog /\ last = {r \in live : remaining[r] = 1}
  OBVIOUS
<1>2. /\ pc = "decode" /\ pc' = "complete" /\ broken \subseteq live \ gone
      /\ out' = [r \in Requests |->
               IF r \in live \ gone
               THEN Append(out[r], IF r \in last THEN "final" ELSE "token") ELSE out[r]]
      /\ client' = [r \in Requests |-> IF r \in broken THEN "gone" ELSE client[r]]
      /\ done' = eog \cup last \cup (live \cap gone) \cup broken
      /\ notify' = eog
      /\ counted' = (counted \cup (live \cap gone)) \cup (broken \ last)
      /\ UNCHANGED <<queue, admitted, deferred, queued, prefilling, active>>
  BY <1>1 DEF DecodeOk, places, Polled
<1>3. /\ done = {} /\ notify = {}
      /\ \A q \in Range(active) \cup Waiting : q \in Requests /\ ~ Answered(q) /\ client[q] # "new"
  BY <1>2, InFlight
<1>4. last \subseteq live /\ live \subseteq Range(active) /\ live \cap eog = {}
  BY <1>1
<1>5. Waiting' = Waiting
  BY <1>2 DEF Waiting
<1>6. \A r \in Range(active) : r \notin Waiting
  BY DEF Shape, Apart, Waiting
<1>7. \A r \in Requests : client'[r] = "new" => client[r] = "new"
  BY <1>2
<1>8. gone' = gone \cup broken
  <2>1. broken \subseteq Requests
    BY <1>2, <1>3, <1>4
  <2> QED
    BY <1>2, <2>1 DEF gone
<1>9. \A r \in Requests : out[r] \in Seq(Callbacks)
  BY DEF Replies, Silent
<1>10. /\ "final" \in Callbacks /\ "token" \in Callbacks
       /\ "final" \in Terminal /\ "token" \notin Terminal
  BY DEF Callbacks, Terminal
<1>11. /\ \A r \in Requests : r \notin live \ gone => out'[r] = out[r]
       /\ \A r \in live \ gone :
              /\ \E w \in Callbacks : out'[r] = Append(out[r], w)
              /\ Answered(r)' <=> r \in last
  <2>1. \A r \in Requests : r \notin live \ gone => out'[r] = out[r]
    BY <1>2
  <2>2. ASSUME NEW r \in live \ gone
        PROVE  /\ \E w \in Callbacks : out'[r] = Append(out[r], w)
               /\ Ended(out'[r]) <=> r \in last
    <3>1. r \in Requests
      BY <1>3, <1>4
    <3>2. CASE r \in last
      <4>1. out'[r] = Append(out[r], "final")
        BY <1>2, <3>1, <3>2
      <4> QED
        BY <4>1, <3>1, <3>2, <1>9, <1>10, CallbackFacts
    <3>3. CASE r \notin last
      <4>1. out'[r] = Append(out[r], "token")
        BY <1>2, <3>1, <3>3
      <4> QED
        BY <4>1, <3>1, <3>3, <1>9, <1>10, CallbackFacts
    <3> QED
      BY <3>2, <3>3
  <2> QED
    BY <2>1, <2>2 DEF Answered, Ended
<1>12. Silent'
  <2>1. out' = [r \in Requests |-> out'[r]]
    BY <1>2
  <2>2. \A r \in Requests :
               \/ out'[r] = out[r]
               \/ /\ ~ Answered(r) /\ client'[r] # "new" /\ r \notin Waiting'
                  /\ \E w \in Callbacks : out'[r] = Append(out[r], w)
    BY <1>3, <1>4, <1>5, <1>6, <1>7, <1>11
  <2> QED
    BY <1>3, <1>5, <1>7, <2>1, <2>2, SilentStep DEF Replies
<1>13. \A r \in Requests : r \notin live \ gone => (Answered(r)' <=> Answered(r))
  BY <1>11 DEF Answered
<1>14. Retiring'
  <2>1. counted' \subseteq gone'
    BY <1>2, <1>8 DEF Replies, Retiring
  <2>2. done' \subseteq Range(active') /\ notify' \subseteq done'
    BY <1>2, <1>4
  <2>3. \A r \in notify' : ~ Answered(r)'
    BY <1>2, <1>3, <1>4, <1>13
  <2>4. \A r \in done' \ notify' : Answered(r)' \/ r \in counted'
    BY <1>2, <1>4, <1>11
  <2>5. \A r \in Range(active') \ done' : ~ Answered(r)'
    <3>1. TAKE r \in Range(active') \ done'
    <3>2. r \in live \ gone /\ r \notin last
      BY <1>1, <1>2
    <3> QED
      BY <3>2, <1>11
  <2> QED
    BY <1>2, <2>1, <2>2, <2>3, <2>4, <2>5 DEF Retiring
<1>15. Kept'
  <2>1. SUFFICES ASSUME NEW r \in Requests, client'[r] # "new", r \notin counted', ~ Answered(r)'
                 PROVE  r \in Waiting' \cup Range(active')
    BY DEF Kept
  <2>2. CASE r \in live \ gone
    BY <1>2, <1>4, <2>2
  <2>3. CASE r \notin live \ gone
    <3>1. ~ Answered(r) /\ r \notin counted
      BY <1>2, <1>13, <2>1, <2>3
    <3>2. client[r] # "new"
      BY <1>2, <1>3, <1>4, <2>1
    <3> QED
      BY <1>2, <1>5, <3>1, <3>2 DEF Replies, Kept
  <2> QED
    BY <2>2, <2>3
<1> QED
  BY <1>12, <1>14, <1>15 DEF Replies

\* The last callback of the sequences at the end of generation.
LEMMA RepliesComplete ==
    ASSUME Shape, Replies, Complete
    PROVE  Replies'
<1>1. /\ pc = "complete" /\ pc' = "promote"
      /\ out' = Say(notify \ gone, "stop")
      /\ counted' = counted \cup (done \cap gone)
      /\ active' = Without(active, done) /\ done' = {} /\ notify' = {}
      /\ UNCHANGED <<queue, admitted, deferred, queued, prefilling, client>>
  BY DEF Complete, Polled
<1>2. Range(active') = Range(active) \ done
  BY <1>1, WithoutShrinks
<1>3. /\ counted \subseteq gone /\ done \subseteq Range(active) /\ notify \subseteq done
      /\ \A r \in notify : ~ Answered(r)
      /\ \A r \in done \ notify : Answered(r) \/ r \in counted
      /\ \A r \in Range(active) \ done : ~ Answered(r)
  BY DEF Replies, Retiring
<1>4. Waiting' = Waiting /\ gone' = gone
  BY <1>1 DEF Waiting, gone
<1>5. Range(active) \subseteq Requests /\ Waiting \subseteq Requests
  BY RangeFacts DEF Shape, Kinds, Waiting
<1>6. \A r \in Range(active) : r \notin Waiting /\ client[r] # "new"
  BY <1>5 DEF Shape, Apart, Unsent, Waiting
<1>7. "stop" \in Callbacks /\ "stop" \in Terminal
  BY DEF Callbacks, Terminal
<1>8. PICK S : S = notify \ gone
  OBVIOUS
<1>9. /\ out' = [r \in Requests |-> out'[r]]
      /\ \A r \in Requests : r \notin S => out'[r] = out[r]
      /\ \A r \in Requests : r \in S =>
             (\E v \in Callbacks : out'[r] = Append(out[r], v)) /\ Ended(out'[r])
  BY <1>1, <1>7, <1>8, SayFacts DEF Replies
<1>10. Silent'
  <2>1. \A r \in Requests : r \in S => ~ Answered(r) /\ client'[r] # "new" /\ r \notin Waiting'
    BY <1>1, <1>3, <1>4, <1>6, <1>8
  <2>2. \A r \in Requests :
               \/ out'[r] = out[r]
               \/ /\ ~ Answered(r) /\ client'[r] # "new" /\ r \notin Waiting'
                  /\ \E w \in Callbacks : out'[r] = Append(out[r], w)
    BY <1>9, <2>1
  <2> QED
    BY <1>1, <1>4, <1>5, <1>9, <2>2, SilentStep DEF Replies
<1>11. \A r \in Requests : Answered(r)' <=> r \in S \/ Answered(r)
  BY <1>3, <1>8, <1>9 DEF Answered, Ended
<1>12. Retiring'
  <2>1. counted' \subseteq gone'
    BY <1>1, <1>3, <1>4
  <2>2. \A r \in Range(active') : ~ Answered(r)'
    BY <1>2, <1>3, <1>5, <1>8, <1>11
  <2> QED
    BY <1>1, <2>1, <2>2 DEF Retiring
<1>13. Kept'
  <2>1. SUFFICES ASSUME NEW r \in Requests, client[r] # "new", r \notin counted', ~ Answered(r)'
                 PROVE  r \in Waiting \cup (Range(active) \ done)
    BY <1>1, <1>2, <1>4 DEF Kept
  <2>2. ~ Answered(r) /\ r \notin counted /\ r \notin S
    BY <1>1, <1>11, <2>1
  <2>3. r \notin done
    BY <1>1, <1>3, <1>8, <2>1, <2>2
  <2> QED
    BY <1>1, <2>1, <2>2, <2>3 DEF Replies, Kept
<1> QED
  BY <1>10, <1>12, <1>13 DEF Replies

\* The first callback of the prompts that are complete.
LEMMA RepliesPromote ==
    ASSUME Shape, Replies, NEW eog, Promote(eog)
    PROVE  Replies'
<1>1. PICK F, live, single, K :
          /\ F = {r \in Range(prefilling) : left[r] = 0}
          /\ live = F \ gone
          /\ single = {r \in live \ eog : FirstIsLast(r)}
          /\ K = live \ (eog \cup single)
  OBVIOUS
<1>2. /\ pc = "promote" /\ pc' = "top" /\ eog \subseteq live
      /\ out' = [r \in Requests |->
               IF r \in live
               THEN Append(out[r], IF r \in eog THEN "stop"
                                   ELSE IF r \in single THEN "final" ELSE "token")
               ELSE out[r]]
      /\ active' = active \o Without(prefilling, Requests \ K)
      /\ prefilling' = Without(prefilling, F)
      /\ counted' = counted \cup (F \cap gone)
      /\ UNCHANGED <<queue, admitted, deferred, queued, done, notify, client>>
  BY <1>1 DEF Promote, Polled
<1>3. /\ F \subseteq Range(prefilling) /\ K \subseteq F /\ live \subseteq F /\ single \subseteq live
      /\ \A r \in live : r \in K <=> r \notin eog /\ r \notin single
  BY <1>1
<1>4. Range(prefilling') = Range(prefilling) \ F /\ Range(active') = Range(active) \cup K
  BY <1>2, <1>3, PromoteFacts
<1>5. /\ done = {} /\ notify = {}
      /\ \A q \in Range(active) \cup Waiting : q \in Requests /\ ~ Answered(q) /\ client[q] # "new"
  BY <1>2, InFlight
<1>6. F \subseteq Waiting
  BY <1>3 DEF Waiting
<1>7. /\ Waiting' \subseteq Waiting /\ \A r \in F : r \notin Waiting' /\ r \notin Range(active)
      /\ \A r \in Waiting : r \notin F => r \in Waiting'
  BY <1>2, <1>3, <1>4 DEF Shape, Apart, Waiting
<1>8. \A r \in Requests : out[r] \in Seq(Callbacks)
  BY DEF Replies, Silent
<1>9. /\ "stop" \in Callbacks /\ "final" \in Callbacks /\ "token" \in Callbacks
      /\ "stop" \in Terminal /\ "final" \in Terminal /\ "token" \notin Terminal
  BY DEF Callbacks, Terminal
<1>10. /\ \A r \in Requests : r \notin live => out'[r] = out[r]
       /\ \A r \in live :
              /\ \E w \in Callbacks : out'[r] = Append(out[r], w)
              /\ Answered(r)' <=> r \notin K
  <2>1. \A r \in Requests : r \notin live => out'[r] = out[r]
    BY <1>2
  <2>2. ASSUME NEW r \in live
        PROVE  /\ \E w \in Callbacks : out'[r] = Append(out[r], w)
               /\ Ended(out'[r]) <=> r \notin K
    <3>1. r \in Requests
      BY <1>3, <1>5, <1>6
    <3>2. CASE r \in eog
      <4>1. out'[r] = Append(out[r], "stop")
        BY <1>2, <3>1, <3>2
      <4> QED
        BY <4>1, <3>1, <3>2, <1>3, <1>8, <1>9, CallbackFacts
    <3>3. CASE r \notin eog /\ r \in single
      <4>1. out'[r] = Append(out[r], "final")
        BY <1>2, <3>1, <3>3
      <4> QED
        BY <4>1, <3>1, <3>3, <1>3, <1>8, <1>9, CallbackFacts
    <3>4. CASE r \notin eog /\ r \notin single
      <4>1. out'[r] = Append(out[r], "token")
        BY <1>2, <3>1, <3>4
      <4> QED
        BY <4>1, <3>1, <3>4, <1>3, <1>8, <1>9, CallbackFacts
    <3> QED
      BY <3>2, <3>3, <3>4
  <2> QED
    BY <2>1, <2>2 DEF Answered, Ended
<1>11. Silent'
  <2>1. out' = [r \in Requests |-> out'[r]]
    BY <1>2
  <2>2. \A r \in live : ~ Answered(r) /\ client'[r] # "new" /\ r \notin Waiting'
    BY <1>2, <1>3, <1>5, <1>6, <1>7
  <2>3. \A r \in Requests :
               \/ out'[r] = out[r]
               \/ /\ ~ Answered(r) /\ client'[r] # "new" /\ r \notin Waiting'
                  /\ \E w \in Callbacks : out'[r] = Append(out[r], w)
    BY <1>10, <2>2
  <2> QED
    BY <1>2, <1>5, <1>7, <2>1, <2>3, SilentStep DEF Replies
<1>12. \A r \in Requests : r \notin live => (Answered(r)' <=> Answered(r))
  BY <1>10 DEF Answered
<1>13. Retiring'
  <2>1. counted' \subseteq gone'
    BY <1>2 DEF Replies, Retiring, gone
  <2>2. \A r \in Range(active') : ~ Answered(r)'
    <3>1. TAKE r \in Range(active')
    <3>2. CASE r \in K
      BY <3>2, <1>3, <1>10, <1>1
    <3>3. CASE r \in Range(active)
      BY <3>3, <1>3, <1>5, <1>7, <1>12
    <3> QED
      BY <3>2, <3>3, <1>4
  <2> QED
    BY <1>2, <1>5, <2>1, <2>2 DEF Retiring
<1>14. Kept'
  <2>1. SUFFICES ASSUME NEW r \in Requests, client[r] # "new", r \notin counted', ~ Answered(r)'
                 PROVE  r \in Waiting' \cup Range(active')
    BY <1>2 DEF Kept
  <2>2. CASE r \in live
    BY <2>1, <2>2, <1>4, <1>10
  <2>3. CASE r \notin live
    <3>1. ~ Answered(r) /\ r \notin counted /\ r \notin F
      BY <1>1, <1>2, <1>12, <2>1, <2>3
    <3>2. r \in Waiting \cup Range(active)
      BY <1>2, <2>1, <3>1 DEF Replies, Kept
    <3> QED
      BY <3>1, <3>2, <1>4, <1>7
  <2> QED
    BY <2>2, <2>3
<1> QED
  BY <1>11, <1>13, <1>14 DEF Replies

\* Every step answers each request at most once, and lets none go unanswered.
LEMMA RepliesNext ==
    ASSUME Shape, Shape', Replies, [Next]_vars
    PROVE  Replies'
<1>1. CASE UNCHANGED vars
  BY <1>1, RepliesQuiet
<1>2. CASE Next
  <2>1. CASE stop \/ EnterLoop \/ Waits \/ LeaveLoop \/ Admit \/ FinishPrepare \/ Sweep
    BY <2>1, RepliesQuiet
  <2>2. ASSUME NEW r \in Requests,
               \/ enqueue(r) \/ Disconnect(r) \/ PrepareCancelled(r) \/ PrepareDefer(r)
               \/ PrepareExhausted(r) \/ PrepareReady(r)
        PROVE  Replies'
    BY <2>2, RepliesQuiet
  <2>3. ASSUME NEW r \in Requests, PrepareError(r) PROVE Replies'
    BY <2>3, RepliesPrepareError
  <2>4. CASE DecodeFull
    BY <2>4, RepliesDecodeFull
  <2>5. CASE DecodeError
    BY <2>5, RepliesDecodeError
  <2>6. ASSUME NEW eog \in SUBSET Range(active), NEW broken, DecodeOk(eog, broken) PROVE Replies'
    BY <2>6, RepliesDecodeOk
  <2>7. CASE Complete
    BY <2>7, RepliesComplete
  <2>8. ASSUME NEW eog, Promote(eog) PROVE Replies'
    BY <2>8, RepliesPromote
  <2> QED
    BY <1>2, <2>1, <2>2, <2>3, <2>4, <2>5, <2>6, <2>7, <2>8 DEF Next, WorkerStep, Waits
<1> QED
  BY <1>1, <1>2

\* The callbacks follow the protocol of server.h in every reachable state.
THEOREM RepliesInvariance == Spec => [](Shape /\ Replies)
<1>1. Init => Shape /\ Replies
  BY ShapeInit, RepliesInit
<1>2. Shape /\ Replies /\ [Next]_vars => (Shape /\ Replies)'
  BY ShapeNext, RepliesNext
<1> QED
  BY <1>1, <1>2, PTL DEF Spec

\* The concatenation of everything the worker holds.
LEMMA EverywhereFacts ==
    ASSUME Shape
    PROVE  /\ \A i, j \in DOMAIN Everywhere : Everywhere[i] = Everywhere[j] => i = j
           /\ Range(Everywhere) = Waiting \cup Range(active)
<1>1. PICK a : a = queue \o admitted
  OBVIOUS
<1>2. a \in Seq(Requests) /\ IsInjective(a) /\ Range(a) = Range(queue) \cup Range(admitted)
  BY <1>1, ConcatFacts DEF Shape, Kinds, Apart
<1>3. PICK b : b = a \o deferred
  OBVIOUS
<1>4. b \in Seq(Requests) /\ IsInjective(b) /\ Range(b) = Range(a) \cup Range(deferred)
  <2>1. Range(a) \cap Range(deferred) = {}
    BY <1>2 DEF Shape, Apart
  <2> QED
    BY <1>2, <1>3, <2>1, ConcatFacts DEF Shape, Kinds, Apart
<1>5. PICK c : c = b \o queued
  OBVIOUS
<1>6. c \in Seq(Requests) /\ IsInjective(c) /\ Range(c) = Range(b) \cup Range(queued)
  <2>1. Range(b) \cap Range(queued) = {}
    BY <1>2, <1>4 DEF Shape, Apart
  <2> QED
    BY <1>4, <1>5, <2>1, ConcatFacts DEF Shape, Kinds, Apart
<1>7. PICK d : d = c \o prefilling
  OBVIOUS
<1>8. d \in Seq(Requests) /\ IsInjective(d) /\ Range(d) = Range(c) \cup Range(prefilling)
  <2>1. Range(c) \cap Range(prefilling) = {}
    BY <1>2, <1>4, <1>6 DEF Shape, Apart
  <2> QED
    BY <1>6, <1>7, <2>1, ConcatFacts DEF Shape, Kinds, Apart
<1>9. PICK e : e = d \o active
  OBVIOUS
<1>10. e \in Seq(Requests) /\ IsInjective(e) /\ Range(e) = Range(d) \cup Range(active)
  <2>1. Range(d) \cap Range(active) = {}
    BY <1>2, <1>4, <1>6, <1>8 DEF Shape, Apart
  <2> QED
    BY <1>8, <1>9, <2>1, ConcatFacts DEF Shape, Kinds, Apart
<1>11. e = Everywhere
  BY <1>1, <1>3, <1>5, <1>7, <1>9 DEF Everywhere
<1>12. Range(e) = Waiting \cup Range(active)
  BY <1>2, <1>4, <1>6, <1>8, <1>10 DEF Waiting
<1> QED
  BY <1>10, <1>11, <1>12 DEF IsInjective

\* NoRequestLost: a request that was sent is in exactly one place of the worker until it
\* has been answered or counted as cancelled, whatever prepare_all and fused_step do with it.
THEOREM NoRequestIsLost == Spec => []NoRequestLost
<1>1. Shape /\ Replies => NoRequestLost
  BY EverywhereFacts DEF NoRequestLost, Replies, Kept
<1> QED
  BY <1>1, RepliesInvariance, PTL

\* OneReply: the last callback of a request is its only terminal one, and only sequences
\* about to retire are still in flight after it.
THEOREM OneReplyOnly == Spec => []OneReply
<1>1. Shape /\ Replies => OneReply
  <2> SUFFICES ASSUME Shape, Replies PROVE OneReply
    OBVIOUS
  <2>1. \A r \in Requests : \A i \in DOMAIN out[r] : out[r][i] \in Terminal => i = Len(out[r])
    <3>1. TAKE r \in Requests
    <3>2. out[r] \in Seq(Callbacks) /\ InOrder(out[r])
      BY DEF Replies, Silent
    <3>3. DOMAIN out[r] = 1 .. Len(out[r])
      BY <3>2, LenProperties
    <3> QED
      BY <3>2, <3>3 DEF InOrder
  <2>2. \A r \in Range(Everywhere) : Answered(r) => r \in done
    BY EverywhereFacts DEF Replies, Silent, Retiring, Answered
  <2> QED
    BY <2>1, <2>2 DEF OneReply
<1> QED
  BY <1>1, RepliesInvariance, PTL

-----------------------------------------------------------------------------
(* Layer three: the batch and the context window *)

\* The recursion that Used is defined by, which never exceeds what the batch has left.
LEMMA UsedDef ==
    ASSUME Shape, left \in [Requests -> Nat], Len(active) <= n_batch
    PROVE  /\ capacity \in Nat
           /\ Used \in [0 .. Len(prefilling) -> 0 .. capacity]
           /\ Used[0] = 0
           /\ \A i \in 1 .. Len(prefilling) :
                  Used[i] = Used[i - 1] + Take(left[prefilling[i]], Used[i - 1])
<1>1. capacity \in Nat
  BY OptionFacts DEF capacity, Shape, Kinds
<1>2. PICK N \in Nat : N = Len(prefilling)
  BY LenProperties DEF Shape, Kinds
<1>3. \A i \in 1 .. N : left[prefilling[i]] \in Nat
  <2>1. TAKE i \in 1 .. N
  <2>2. prefilling[i] \in Requests
    BY <1>2, ElementOfSeq DEF Shape, Kinds
  <2> QED
    BY <2>2
<1>4. PICK V : V = 0 .. capacity
  OBVIOUS
<1> DEFINE Step(i, u) == u + Take(left[prefilling[i]], u)
           G == [i \in 1 .. N |-> [u \in V |-> Step(i, u)]]
           Is(f) == f = [i \in 0 .. N |-> IF i = 0 THEN 0 ELSE Step(i, f[i - 1])]
<1>5. Used = CHOOSE f : Is(f)
  BY <1>2 DEF Used
<1>6. \A i \in 1 .. N : \A u \in V : Step(i, u) \in V
  BY <1>1, <1>3, <1>4 DEF Take, Least
<1>7. \A f : Is(f) <=> /\ f = [i \in 0 .. N |-> f[i]]
                       /\ f[0] = 0
                       /\ \A i \in 1 .. N : f[i] = Step(i, f[i - 1])
  <2> HIDE DEF Step
  <2>1. TAKE f
  <2>2. ASSUME Is(f)
        PROVE  /\ f = [i \in 0 .. N |-> f[i]]
               /\ f[0] = 0
               /\ \A i \in 1 .. N : f[i] = Step(i, f[i - 1])
    <3>1. \A i \in 0 .. N : f[i] = IF i = 0 THEN 0 ELSE Step(i, f[i - 1])
      BY <2>2
    <3>2. f = [i \in 0 .. N |-> f[i]]
      BY <2>2
    <3> QED
      BY <3>1, <3>2
  <2>3. ASSUME /\ f = [i \in 0 .. N |-> f[i]]
               /\ f[0] = 0
               /\ \A i \in 1 .. N : f[i] = Step(i, f[i - 1])
        PROVE  Is(f)
    <3>1. \A i \in 0 .. N : f[i] = IF i = 0 THEN 0 ELSE Step(i, f[i - 1])
      <4>1. TAKE i \in 0 .. N
      <4>2. i = 0 \/ i \in 1 .. N
        OBVIOUS
      <4>3. CASE i = 0
        BY <2>3, <4>3
      <4>4. CASE i \in 1 .. N
        BY <2>3, <4>4
      <4> QED
        BY <4>2, <4>3, <4>4
    <3> QED
      BY <2>3, <3>1
  <2> QED
    BY <2>2, <2>3
<1> HIDE DEF Step, Is
<1>8. 0 \in V
  BY <1>1, <1>4
<1>9. \E f : Is(f)
  <2>1. G \in [1 .. N -> [V -> V]]
    BY <1>6
  <2>2. \A i \in 1 .. N : \A u \in V : G[i][u] = Step(i, u)
    OBVIOUS
  <2> HIDE DEF G
  <2>3. PICK f \in [0 .. N -> V] : f[0] = 0 /\ \A i \in 1 .. N : f[i] = G[i][f[i - 1]]
    BY <1>8, <2>1, PrimitiveRecursion
  <2>4. \A i \in 1 .. N : f[i] = Step(i, f[i - 1])
    <3>1. TAKE i \in 1 .. N
    <3>2. f[i - 1] \in V
      OBVIOUS
    <3> QED
      BY <2>2, <2>3, <3>2
  <2> QED
    BY <1>7, <2>3, <2>4
<1>10. PICK f : f = CHOOSE g : Is(g)
  OBVIOUS
<1>11. /\ f = [i \in 0 .. N |-> f[i]]
       /\ f[0] = 0
       /\ \A i \in 1 .. N : f[i] = Step(i, f[i - 1])
  BY <1>7, <1>9, <1>10
<1>12. \A i \in 0 .. N : f[i] \in V
  <2> DEFINE T == {i \in 0 .. N : f[i] \in V}
  <2>1. 0 \in T
    BY <1>8, <1>11
  <2>2. \A i \in 1 .. N : i - 1 \in T => i \in T
    BY <1>6, <1>11
  <2> HIDE DEF T
  <2>3. \A i \in 0 .. N : i \in T
    BY <2>1, <2>2, Induction
  <2> QED
    BY <2>3 DEF T
<1>13. f \in [0 .. N -> V]
  BY <1>11, <1>12
<1>14. Used = f
  BY <1>5, <1>10
<1> QED
  BY <1>1, <1>2, <1>4, <1>11, <1>13, <1>14 DEF Step

\* Each prompt gets at most what it wants, and the first one something.
LEMMA UsedFacts ==
    ASSUME Shape, left \in [Requests -> Nat], Len(active) <= n_batch
    PROVE  /\ \A i \in 0 .. Len(prefilling) : Used[i] \in Nat /\ Used[i] <= n_batch - Len(active)
           /\ \A i \in 1 .. Len(prefilling) :
                  /\ Used[i] - Used[i - 1] \in Nat
                  /\ Used[i] - Used[i - 1] <= left[prefilling[i]]
           /\ /\ prefilling # << >> /\ active = << >>
              /\ \A r \in Range(prefilling) : left[r] > 0
              => Used[Len(prefilling)] > 0
<1>1. PICK c \in Nat, N \in Nat : c = capacity /\ N = Len(prefilling)
  BY UsedDef, LenProperties DEF Shape, Kinds
<1>2. PICK f : f = Used
  OBVIOUS
<1>3. f \in [0 .. N -> 0 .. c] /\ f[0] = 0
  BY <1>1, <1>2, UsedDef
<1>4. \A i \in 1 .. N : f[i] = f[i - 1] + Take(left[prefilling[i]], f[i - 1])
  BY <1>1, <1>2, UsedDef
<1>5. \A i \in 1 .. N : left[prefilling[i]] \in Nat
  <2>1. TAKE i \in 1 .. N
  <2>2. prefilling[i] \in Requests
    BY <1>1, ElementOfSeq DEF Shape, Kinds
  <2> QED
    BY <2>2
<1>6. \A i \in 1 .. N : f[i - 1] \in 0 .. c /\ f[i] \in 0 .. c
  BY <1>3
<1>7. \A i \in 1 .. N :
          LET w == left[prefilling[i]]
          IN  f[i] = f[i - 1] + IF w <= c - f[i - 1] THEN w ELSE c - f[i - 1]
  BY <1>1, <1>4 DEF Take, Least
<1>8. \A i \in 1 .. N : f[i] - f[i - 1] \in Nat /\ f[i] - f[i - 1] <= left[prefilling[i]]
  BY <1>5, <1>6, <1>7
<1>9. \A i \in 0 .. N : f[i] \in Nat /\ f[i] <= c
  BY <1>3
<1>10. ASSUME prefilling # << >>, active = << >>, \A r \in Range(prefilling) : left[r] > 0
       PROVE  f[N] > 0
  <2>1. c \in Nat \ {0}
    BY <1>1, <1>10, EmptyFacts, OptionFacts DEF capacity, Shape, Kinds
  <2>2. N > 0
    BY <1>1, <1>10, EmptySeq DEF Shape, Kinds
  <2>3. left[prefilling[1]] > 0
    <3>1. 1 \in DOMAIN prefilling
      BY <1>1, <2>2, LenProperties DEF Shape, Kinds
    <3> QED
      BY <1>10, <3>1 DEF Range
  <2>4. f[1] > 0
    <3>1. 1 \in 1 .. N /\ f[0] = 0
      BY <1>3, <2>2
    <3>2. f[1] = f[1 - 1] + IF left[prefilling[1]] <= c - f[1 - 1]
                            THEN left[prefilling[1]] ELSE c - f[1 - 1]
      BY <1>7, <3>1
    <3>3. left[prefilling[1]] \in Nat
      BY <1>5, <3>1
    <3> QED
      BY <3>1, <3>2, <3>3, <2>1, <2>3
  <2> DEFINE T == {i \in 0 .. N : i = 0 \/ f[i] > 0}
  <2>5. 0 \in T
    OBVIOUS
  <2>6. \A i \in 1 .. N : i - 1 \in T => i \in T
    BY <1>6, <1>8, <2>4
  <2> HIDE DEF T
  <2>7. \A i \in 0 .. N : i \in T
    BY <2>5, <2>6, Induction
  <2> QED
    BY <2>2, <2>7 DEF T
<1>11. c = n_batch - Len(active)
  BY <1>1 DEF capacity
<1> QED
  BY <1>1, <1>2, <1>8, <1>9, <1>10, <1>11

TextOf(s) == Cardinality({i \in DOMAIN s : s[i] \in {"token", "final"}})

\* A callback adds one text, or none.
LEMMA TextFacts ==
    ASSUME NEW s \in Seq(Callbacks), NEW w \in Callbacks
    PROVE  /\ TextOf(s) \in Nat /\ TextOf(<< >>) = 0
           /\ w \in {"token", "final"} => TextOf(Append(s, w)) = TextOf(s) + 1
           /\ w \notin {"token", "final"} => TextOf(Append(s, w)) = TextOf(s)
<1>1. PICK t : t = Append(s, w)
  OBVIOUS
<1>2. PICK n \in Nat : n = Len(s)
  BY LenProperties
<1>3. /\ t \in Seq(Callbacks) /\ Len(t) = n + 1
      /\ \A i \in 1 .. n : t[i] = s[i]
      /\ t[n + 1] = w
  BY <1>1, <1>2, AppendProperties
<1>4. DOMAIN s = 1 .. n /\ DOMAIN t = 1 .. n + 1
  BY <1>2, <1>3, LenProperties
<1>5. PICK W : W = {"token", "final"}
  OBVIOUS
<1>6. PICK A, B : A = {i \in DOMAIN s : s[i] \in W} /\ B = {i \in DOMAIN t : t[i] \in W}
  OBVIOUS
<1>7. A \subseteq 1 .. n /\ (n + 1) \notin A
  BY <1>4, <1>6
<1>8. IsFiniteSet(A) /\ Cardinality(A) \in Nat
  <2>1. IsFiniteSet(1 .. n)
    BY FS_Interval
  <2> QED
    BY <1>7, <2>1, FS_Subset, FS_CardinalityType
<1>9. w \in W => B = A \cup {n + 1}
  BY <1>3, <1>4, <1>6
<1>10. w \notin W => B = A
  BY <1>3, <1>4, <1>6
<1>11. w \in W => Cardinality(B) = Cardinality(A) + 1
  BY <1>7, <1>8, <1>9, FS_AddElement
<1>12. TextOf(s) = Cardinality(A) /\ TextOf(t) = Cardinality(B)
  BY <1>5, <1>6 DEF TextOf
<1>13. TextOf(<< >>) = 0
  <2>1. {i \in DOMAIN << >> : << >>[i] \in {"token", "final"}} = {}
    OBVIOUS
  <2> QED
    BY <2>1, FS_EmptySet DEF TextOf
<1> QED
  BY <1>1, <1>5, <1>8, <1>10, <1>11, <1>12, <1>13

\* What the context leaves is a number, perhaps a negative one.
LEMMA AvailableFacts ==
    ASSUME NEW r \in Requests
    PROVE  /\ available(r) \in Int /\ available(r) = n_ctx - PromptLen[r] - 4
           /\ limit(r) \in Int /\ limit(r) <= available(r)
           /\ PromptLen[r] \in Nat /\ n_ctx \in Nat
<1>1. n_ctx \in Nat /\ PromptLen[r] \in Nat /\ MaxTokens[r] \in Nat
  BY RequestAssumption, LimitsAssumption
<1> QED
  BY <1>1 DEF available, limit, Least

\* A step that adds no text, takes no prompt further, and lets at most requests go.
LEMMA SizesQuiet ==
    ASSUME Shape, Shape', Sizes,
           UNCHANGED <<left, remaining, n_batch>>,
           Range(prefilling') \subseteq Range(prefilling),
           Range(active') \subseteq Range(active), Len(active') <= Len(active),
           \A r \in Range(active') : r \in done => r \in done',
           \A r \in Requests : Text(r)' = Text(r),
           \/ pc \notin {"complete", "promote"} /\ pc' \notin {"complete", "promote"}
           \/ pc' = pc /\ UNCHANGED <<prefilling, active>>
           \/ pc = "complete" /\ pc' = "promote" /\ UNCHANGED prefilling
    PROVE  Sizes'
<1>1. /\ Len(active) \in Nat /\ Len(active') \in Nat /\ n_batch \in Nat
      /\ Range(active') \subseteq Requests
  BY OptionFacts, RangeFacts DEF Shape, Kinds
<1>2. left' \in [Requests -> Nat]
  BY DEF Sizes, Prompts
<1>3. \A r \in Range(prefilling') :
          available(r) > 0 /\ (pc' \notin {"complete", "promote"} => left'[r] > 0)
  BY DEF Sizes, Prompts
<1>4. Len(active') <= n_batch'
  BY <1>1 DEF Sizes, Prompts
<1>5. pc' \in {"complete", "promote"} =>
          Len(active') + Len(Without(prefilling', Unfilled')) <= n_batch'
  <2> SUFFICES ASSUME pc' \in {"complete", "promote"}
               PROVE  Len(active') + Len(Without(prefilling', Unfilled')) <= n_batch'
    OBVIOUS
  <2>1. pc \in {"complete", "promote"} /\ prefilling' = prefilling
    OBVIOUS
  <2>2. Unfilled' = Unfilled
    BY DEF Unfilled
  <2>3. PICK k : k = Len(Without(prefilling, Unfilled))
    OBVIOUS
  <2>4. Len(active) + k <= n_batch
    BY <2>1, <2>3 DEF Sizes, Prompts
  <2>5. k \in Nat
    BY <2>3, WithoutShrinks
  <2>6. Len(active') + k <= n_batch'
    BY <1>1, <2>4, <2>5
  <2> QED
    BY <2>1, <2>2, <2>3, <2>6
<1>6. Prompts'
  BY <1>2, <1>3, <1>4, <1>5 DEF Prompts, available
<1>7. Countdown'
  <2>1. \A r \in Range(active') :
            Text(r)' + remaining'[r] <= available(r) /\ (r \notin done' => remaining'[r] > 0)
    BY <1>1 DEF Sizes, Countdown
  <2>2. \A r \in Requests : Text(r)' > 0 => Text(r)' <= available(r)
    BY DEF Sizes, Countdown
  <2> QED
    BY <2>1, <2>2 DEF Sizes, Countdown, available
<1> QED
  BY <1>6, <1>7 DEF Sizes

\* The steps that add no text and submit no prompt.
LEMMA SizesElsewhere ==
    ASSUME Shape, Shape', Replies, Sizes,
           \/ UNCHANGED options /\
                 \/ EnterLoop \/ Waits \/ stop \/ LeaveLoop \/ Admit \/ FinishPrepare \/ Sweep
                 \/ DecodeFull \/ DecodeError \/ Complete
                 \/ \E r \in Requests :
                        \/ enqueue(r) \/ Disconnect(r) \/ PrepareCancelled(r) \/ PrepareError(r)
                        \/ PrepareDefer(r) \/ PrepareExhausted(r)
           \/ UNCHANGED vars
    PROVE  Sizes'
<1>1. Len(active) \in Nat /\ Range(<< >>) = {} /\ Len(<< >>) = 0
  BY EmptyFacts DEF Shape, Kinds
<1>2. ASSUME UNCHANGED out PROVE \A r \in Requests : Text(r)' = Text(r)
  BY <1>2 DEF Text
<1>3. ASSUME NEW S, NEW w \in {"error", "stop"}, out' = Say(S, w)
      PROVE  \A r \in Requests : Text(r)' = Text(r)
  <2>1. TAKE r \in Requests
  <2>2. out[r] \in Seq(Callbacks) /\ w \in Callbacks /\ w \notin {"token", "final"}
    BY <1>3 DEF Replies, Silent, Callbacks
  <2>3. out'[r] = IF r \in S THEN Append(out[r], w) ELSE out[r]
    BY <1>3 DEF Say
  <2>4. TextOf(out'[r]) = TextOf(out[r])
    BY <2>2, <2>3, TextFacts
  <2> QED
    BY <2>4 DEF Text, TextOf
<1>4. CASE UNCHANGED vars
  BY <1>1, <1>2, <1>4, SizesQuiet DEF vars, places, steps, options
<1>5. CASE UNCHANGED options /\ (EnterLoop \/ Waits \/ stop)
  <2>1. /\ UNCHANGED <<options, places, steps, out>>
        /\ \/ pc' = pc
           \/ /\ pc \in {"top", "locked", "checked", "asleep"}
            /\ pc' \in {"locked", "checked", "asleep"}
    BY <1>5, WaitFacts DEF EnterLoop, stop
  <2> QED
    BY <1>1, <1>2, <2>1, SizesQuiet DEF places, steps, options
<1>6. CASE UNCHANGED options /\ LeaveLoop
  BY <1>1, <1>2, <1>6, SizesQuiet DEF LeaveLoop, Leaves, steps, options
<1>7. CASE UNCHANGED options /\ Admit
  BY <1>1, <1>2, <1>7, SizesQuiet DEF Admit, steps, options
<1>8. CASE UNCHANGED options /\ FinishPrepare
  BY <1>1, <1>2, <1>8, SizesQuiet DEF FinishPrepare, steps, options
<1>9. CASE UNCHANGED options /\ Sweep
  <2>1. /\ Range(active') \subseteq Range(active) /\ Len(active') <= Len(active)
        /\ Range(prefilling') \subseteq Range(prefilling)
    BY <1>9, WithoutShrinks DEF Sweep
  <2>2. /\ UNCHANGED <<out, left, remaining, done, n_batch>>
        /\ pc = "sweep" /\ pc' \notin {"complete", "promote"}
    BY <1>9 DEF Sweep, steps, options
  <2> QED
    BY <1>2, <2>1, <2>2, SizesQuiet
<1>10. CASE UNCHANGED options /\ DecodeFull
  <2>1. PICK x : active' = Without(active, {x}) /\ prefilling' = Without(prefilling, {x})
    BY <1>10 DEF DecodeFull, Drop
  <2>2. /\ Range(active') \subseteq Range(active) /\ Len(active') <= Len(active)
        /\ Range(prefilling') \subseteq Range(prefilling)
    BY <2>1, WithoutShrinks
  <2>3. /\ UNCHANGED <<left, remaining, done, n_batch>> /\ pc = "decode" /\ pc' = "top"
        /\ \E S : out' = Say(S, "error")
    BY <1>10 DEF DecodeFull, steps, options
  <2>4. \A r \in Requests : Text(r)' = Text(r)
    BY <1>3, <2>3
  <2> QED
    BY <2>2, <2>3, <2>4, SizesQuiet
<1>11. CASE UNCHANGED options /\ DecodeError
  <2>1. /\ UNCHANGED <<left, remaining, done, n_batch>> /\ pc = "decode" /\ pc' = "top"
        /\ active' = << >> /\ prefilling' = << >>
        /\ \E S : out' = Say(S, "error")
    BY <1>11 DEF DecodeError, steps, options
  <2>2. \A r \in Requests : Text(r)' = Text(r)
    BY <1>3, <2>1
  <2> QED
    BY <1>1, <2>1, <2>2, SizesQuiet
<1>12. CASE UNCHANGED options /\ Complete
  <2>1. /\ UNCHANGED <<left, remaining, prefilling, n_batch>> /\ pc = "complete" /\ pc' = "promote"
        /\ active' = Without(active, done)
        /\ \E S : out' = Say(S, "stop")
    BY <1>12 DEF Complete, options
  <2>2. Range(active') = Range(active) \ done /\ Len(active') <= Len(active)
    BY <2>1, WithoutShrinks
  <2>3. \A r \in Requests : Text(r)' = Text(r)
    BY <1>3, <2>1
  <2>4. \A r \in Range(active') : r \in done => r \in done'
    BY <2>2
  <2>5. Range(active') \subseteq Range(active) /\ Range(prefilling') \subseteq Range(prefilling)
    BY <2>1, <2>2
  <2> QED
    BY <2>1, <2>2, <2>3, <2>4, <2>5, SizesQuiet
<1>13. ASSUME NEW r \in Requests, UNCHANGED options,
              \/ enqueue(r) \/ Disconnect(r) \/ PrepareCancelled(r) \/ PrepareDefer(r)
              \/ PrepareExhausted(r)
       PROVE  Sizes'
  <2>1. /\ UNCHANGED <<left, remaining, done, prefilling, active, n_batch, out>>
        /\ pc' = pc
    BY <1>13 DEF enqueue, Disconnect, PrepareCancelled, PrepareDefer, PrepareExhausted, places,
                 steps, options
  <2> QED
    BY <1>1, <1>2, <2>1, SizesQuiet
<1>14. ASSUME NEW r \in Requests, UNCHANGED options, PrepareError(r)
       PROVE  Sizes'
  <2>1. /\ UNCHANGED <<left, remaining, done, prefilling, active, n_batch>>
        /\ pc' = pc /\ out' = Say({r}, "error")
    BY <1>14 DEF PrepareError, steps, options
  <2>2. \A q \in Requests : Text(q)' = Text(q)
    BY <1>3, <2>1
  <2> QED
    BY <1>1, <2>1, <2>2, SizesQuiet
<1> QED
  BY <1>4, <1>5, <1>6, <1>7, <1>8, <1>9, <1>10, <1>11, <1>12, <1>13, <1>14

\* A prepared prompt has tokens to decode (the delta that is not empty).
LEMMA SizesReady ==
    ASSUME Shape, Shape', Sizes, NEW r \in Requests, UNCHANGED options, PrepareReady(r)
    PROVE  Sizes'
<1>1. PICK delta \in 1 .. PromptLen[r] : left' = [left EXCEPT ![r] = delta]
  BY DEF PrepareReady
<1>2. /\ Preparing(r) /\ prefilling' = Append(prefilling, r) /\ available(r) > 0
      /\ UNCHANGED <<n_batch, pc, active, remaining, done, out>>
  BY DEF PrepareReady, options
<1>3. pc = "prepare" /\ Range(prefilling') = Range(prefilling) \cup {r}
  BY <1>2, PreparingFacts, AppendFacts DEF Shape, Kinds
<1>4. delta \in Nat /\ delta > 0
  BY AvailableFacts
<1>5. left \in [Requests -> Nat]
  BY DEF Sizes, Prompts
<1>6. left' \in [Requests -> Nat] /\ \A q \in Requests : left'[q] = IF q = r THEN delta ELSE left[q]
  BY <1>1, <1>4, <1>5
<1>7. \A q \in Range(prefilling') : available(q) > 0 /\ left'[q] > 0
  <2>1. TAKE q \in Range(prefilling')
  <2>2. CASE q = r
    BY <1>2, <1>4, <1>6, <2>2
  <2>3. CASE q # r
    <3>1. q \in Range(prefilling) /\ q \in Requests
      BY <1>3, <2>3, RangeFacts DEF Shape, Kinds
    <3> QED
      BY <1>3, <1>6, <2>3, <3>1 DEF Sizes, Prompts
  <2> QED
    BY <2>2, <2>3
<1>8. Prompts'
  BY <1>2, <1>3, <1>6, <1>7 DEF Sizes, Prompts, available
<1>9. Countdown'
  BY <1>2 DEF Sizes, Countdown, Text, available
<1> QED
  BY <1>8, <1>9 DEF Sizes

\* A prompt is shortened by what it got, and only the prompts in the batch are.
LEMMA LeftFacts ==
    ASSUME Shape, Sizes, NEW eog, NEW broken, DecodeOk(eog, broken)
    PROVE  /\ left' \in [Requests -> Nat]
           /\ \A i \in 1 .. Len(prefilling) :
                  left'[prefilling[i]] = left[prefilling[i]] - (Used[i] - Used[i - 1])
<1>1. PICK N \in Nat : N = Len(prefilling)
  BY LenProperties DEF Shape, Kinds
<1>2. DOMAIN prefilling = 1 .. N /\ \A i \in 1 .. N : prefilling[i] \in Requests
  BY <1>1, LenProperties, ElementOfSeq DEF Shape, Kinds
<1>3. \A i, j \in 1 .. N : prefilling[i] = prefilling[j] => i = j
  BY <1>2 DEF Shape, Apart, IsInjective
<1>4. left \in [Requests -> Nat] /\ Len(active) <= n_batch
  BY DEF Sizes, Prompts
<1>5. \A i \in 1 .. N :
          Used[i] - Used[i - 1] \in Nat /\ Used[i] - Used[i - 1] <= left[prefilling[i]]
  BY <1>1, <1>4, UsedFacts
<1>6. left' = [r \in Requests |->
               IF \E i \in 1 .. N : prefilling[i] = r
               THEN LET i == CHOOSE i \in 1 .. N : prefilling[i] = r
                    IN  left[r] - (Used[i] - Used[i - 1])
               ELSE left[r]]
  BY <1>2 DEF DecodeOk
<1>7. \A i \in 1 .. N : left'[prefilling[i]] = left[prefilling[i]] - (Used[i] - Used[i - 1])
  <2>1. TAKE i \in 1 .. N
  <2>2. PICK r \in Requests : r = prefilling[i]
    BY <1>2
  <2>3. (CHOOSE j \in 1 .. N : prefilling[j] = r) = i
    <3>1. PICK j : j = CHOOSE k \in 1 .. N : prefilling[k] = r
      OBVIOUS
    <3>2. j \in 1 .. N /\ prefilling[j] = r
      BY <2>2, <3>1
    <3> QED
      BY <1>3, <2>2, <3>1, <3>2
  <2>4. left'[r] = left[r] - (Used[i] - Used[i - 1])
    BY <1>6, <2>2, <2>3
  <2> QED
    BY <2>2, <2>4
<1>8. \A r \in Requests : left'[r] \in Nat
  <2>1. TAKE r \in Requests
  <2>2. CASE \E i \in 1 .. N : prefilling[i] = r
    <3>1. PICK i \in 1 .. N : prefilling[i] = r
      BY <2>2
    <3>2. left'[r] = left[r] - (Used[i] - Used[i - 1])
      BY <1>7, <3>1
    <3>3. left[r] \in Nat /\ Used[i] - Used[i - 1] \in Nat /\ Used[i] - Used[i - 1] <= left[r]
      BY <1>4, <1>5, <3>1
    <3> QED
      BY <3>2, <3>3
  <2>3. CASE ~ \E i \in 1 .. N : prefilling[i] = r
    BY <1>4, <1>6, <2>3
  <2> QED
    BY <2>2, <2>3
<1>9. left' \in [Requests -> Nat]
  BY <1>6, <1>8
<1> QED
  BY <1>1, <1>7, <1>9

\* A prompt that is complete has had a token in this batch: there are no more such prompts
\* than tokens of prompts.
LEMMA FilledFits ==
    ASSUME Shape, Sizes, pc = "decode", NEW eog, NEW broken, DecodeOk(eog, broken)
    PROVE  Len(active) + Len(Without(prefilling, Unfilled')) <= n_batch
<1>1. PICK N \in Nat : N = Len(prefilling)
  BY LenProperties DEF Shape, Kinds
<1>2. /\ prefilling \in Seq(Requests)
      /\ \A i \in 1 .. N : prefilling[i] \in Requests /\ prefilling[i] \in Range(prefilling)
  <2>1. DOMAIN prefilling = 1 .. N /\ prefilling \in Seq(Requests)
    BY <1>1, LenProperties DEF Shape, Kinds
  <2> QED
    BY <1>1, <2>1, ElementOfSeq DEF Range
<1>3. /\ left \in [Requests -> Nat] /\ Len(active) <= n_batch
      /\ \A r \in Range(prefilling) : left[r] > 0
  BY DEF Sizes, Prompts
<1>4. PICK u : u = Used
  OBVIOUS
<1>5. /\ \A i \in 0 .. N : u[i] \in Nat /\ u[i] <= n_batch - Len(active)
      /\ \A i \in 1 .. N : u[i] - u[i - 1] \in Nat
  BY <1>1, <1>3, <1>4, UsedFacts
<1>6. \A i \in 1 .. N : left'[prefilling[i]] = left[prefilling[i]] - (u[i] - u[i - 1])
  BY <1>1, <1>4, LeftFacts
<1>7. PICK U : U = Unfilled'
  OBVIOUS
<1>8. PICK f \in [0 .. N -> Seq(Requests)] :
          IsKept(f, prefilling, U) /\ Without(prefilling, U) = f[N]
  BY <1>1, <1>2, WithoutDef
<1> DEFINE T == {i \in 0 .. N : Len(f[i]) <= u[i]}
<1>9. 0 \in T
  <2>1. f[0] = << >> /\ u[0] \in Nat
    BY <1>5, <1>8 DEF IsKept
  <2> QED
    BY <2>1, EmptyFacts
<1>10. \A i \in 1 .. N : i - 1 \in T => i \in T
  <2>1. SUFFICES ASSUME NEW i \in 1 .. N, Len(f[i - 1]) <= u[i - 1]
                 PROVE  Len(f[i]) <= u[i]
    <3>1. \A i \in 1 .. N : i \in 0 .. N /\ i - 1 \in 0 .. N
      OBVIOUS
    <3> QED
      BY <3>1, Zenon
  <2>2. PICK a, x : a = f[i - 1] /\ x = prefilling[i]
    OBVIOUS
  <2>3. a \in Seq(Requests) /\ x \in Requests /\ x \in Range(prefilling) /\ Len(a) \in Nat
    BY <1>2, <2>2
  <2>4. f[i] = IF x \in U THEN a ELSE Append(a, x)
    BY <1>1, <1>8, <2>2 DEF IsKept
  <2>5. /\ u[i] \in Nat /\ u[i - 1] \in Nat /\ u[i] - u[i - 1] \in Nat
        /\ Len(a) <= u[i - 1]
    BY <1>5, <2>1, <2>2
  <2>6. CASE x \in U
    BY <2>3, <2>4, <2>5, <2>6
  <2>7. CASE x \notin U
    <3>1. left'[x] = 0
      BY <1>7, <2>3, <2>7 DEF Unfilled
    <3>2. left'[x] = left[x] - (u[i] - u[i - 1]) /\ left[x] \in Nat /\ left[x] > 0
      BY <1>3, <1>6, <2>2, <2>3
    <3>3. u[i] - u[i - 1] > 0
      BY <2>5, <3>1, <3>2
    <3>4. Len(f[i]) = Len(a) + 1
      BY <2>3, <2>4, <2>7, AppendProperties
    <3> QED
      BY <2>3, <2>5, <3>3, <3>4
  <2> QED
    BY <2>6, <2>7
<1> HIDE DEF T
<1>11. \A i \in 0 .. N : i \in T
  BY <1>9, <1>10, Induction
<1>12. Len(f[N]) <= u[N] /\ u[N] <= n_batch - Len(active) /\ u[N] \in Nat
  BY <1>5, <1>11 DEF T
<1>13. Len(f[N]) \in Nat /\ Len(active) \in Nat /\ n_batch \in Nat
  BY OptionFacts DEF Shape, Kinds
<1> QED
  BY <1>7, <1>8, <1>12, <1>13

\* A decode takes one from every countdown, and adds at most one text to each.
LEMMA SizesDecodeOk ==
    ASSUME Shape, Replies, Sizes, UNCHANGED options,
           NEW eog \in SUBSET Range(active), NEW broken, DecodeOk(eog, broken)
    PROVE  Sizes'
<1>1. PICK live, last : live = Range(active) \ eog /\ last = {r \in live : remaining[r] = 1}
  OBVIOUS
<1>2. /\ pc = "decode" /\ pc' = "complete"
      /\ remaining' = [r \in Requests |-> remaining[r] - (IF r \in live THEN 1 ELSE 0)]
      /\ out' = [r \in Requests |->
               IF r \in live \ gone
               THEN Append(out[r], IF r \in last THEN "final" ELSE "token") ELSE out[r]]
      /\ done' = eog \cup last \cup (live \cap gone) \cup broken
      /\ UNCHANGED <<prefilling, active, n_batch>>
  BY <1>1 DEF DecodeOk, places, options
<1>3. done = {} /\ \A q \in Range(active) : q \in Requests
  BY <1>2, InFlight
<1>4. Prompts'
  <2>1. left' \in [Requests -> Nat]
    BY LeftFacts
  <2>2. \A r \in Range(prefilling') : available(r) > 0
    BY <1>2 DEF Sizes, Prompts
  <2>3. Len(active') <= n_batch'
    BY <1>2 DEF Sizes, Prompts
  <2>4. Len(active') + Len(Without(prefilling', Unfilled')) <= n_batch'
    BY <1>2, FilledFits
  <2> QED
    BY <1>2, <2>1, <2>2, <2>3, <2>4 DEF Prompts, available
<1>5. remaining \in [Requests -> Nat]
  BY DEF Sizes, Countdown
<1>6. \A r \in Range(active) : remaining[r] > 0 /\ Text(r) + remaining[r] <= available(r)
  BY <1>3 DEF Sizes, Countdown
<1>7. /\ \A r \in Requests : r \notin live => remaining'[r] = remaining[r]
      /\ \A r \in live : remaining'[r] = remaining[r] - 1 /\ remaining'[r] \in Nat
                         /\ (r \notin last => remaining'[r] > 0)
  <2>1. \A r \in Requests : r \notin live => remaining'[r] = remaining[r]
    BY <1>2, <1>5
  <2>2. ASSUME NEW r \in live
        PROVE  remaining'[r] = remaining[r] - 1 /\ remaining'[r] \in Nat
               /\ (r \notin last => remaining'[r] > 0)
    <3>1. r \in Requests /\ remaining[r] \in Nat /\ remaining[r] > 0
      BY <1>1, <1>3, <1>5, <1>6
    <3>2. remaining'[r] = remaining[r] - 1
      BY <1>2, <3>1
    <3>3. r \notin last => remaining[r] # 1
      BY <1>1
    <3> QED
      BY <3>1, <3>2, <3>3
  <2> QED
    BY <2>1, <2>2
<1>8. remaining' \in [Requests -> Nat]
  BY <1>2, <1>5, <1>7
<1>9. \A r \in Requests : /\ Text(r) \in Nat
                          /\ Text(r)' = Text(r) \/ (r \in live /\ Text(r)' = Text(r) + 1)
  <2>1. TAKE r \in Requests
  <2>2. out[r] \in Seq(Callbacks)
    BY DEF Replies, Silent
  <2>3. "final" \in Callbacks /\ "token" \in Callbacks
    BY DEF Callbacks
  <2>4. /\ TextOf(out[r]) \in Nat
        /\ TextOf(Append(out[r], "final")) = TextOf(out[r]) + 1
        /\ TextOf(Append(out[r], "token")) = TextOf(out[r]) + 1
    BY <2>2, <2>3, TextFacts
  <2>5. \/ out'[r] = out[r]
        \/ r \in live /\ (out'[r] = Append(out[r], "final") \/ out'[r] = Append(out[r], "token"))
    BY <1>2
  <2>6. Text(r) = TextOf(out[r]) /\ Text(r)' = TextOf(out'[r])
    BY DEF Text, TextOf
  <2> QED
    BY <2>4, <2>5, <2>6
<1>10. \A r \in Range(active) : Text(r)' + remaining'[r] <= available(r)
                                /\ (r \notin done' => remaining'[r] > 0)
  <2>1. TAKE r \in Range(active)
  <2>2. /\ r \in Requests /\ available(r) \in Int /\ remaining[r] \in Nat /\ Text(r) \in Nat
        /\ Text(r) + remaining[r] <= available(r)
    BY <1>3, <1>5, <1>6, <1>9, AvailableFacts
  <2>3. CASE r \in live
    <3>1. remaining'[r] = remaining[r] - 1 /\ (r \notin last => remaining'[r] > 0)
      BY <1>7, <2>3
    <3>2. Text(r)' = Text(r) \/ Text(r)' = Text(r) + 1
      BY <1>9, <2>2
    <3>3. Text(r)' + remaining'[r] <= available(r)
      BY <2>2, <3>1, <3>2
    <3> QED
      BY <1>2, <3>1, <3>3
  <2>4. CASE r \notin live
    <3>1. r \in done' /\ remaining'[r] = remaining[r] /\ Text(r)' = Text(r)
      BY <1>1, <1>2, <1>7, <1>9, <2>2, <2>4
    <3> QED
      BY <2>2, <3>1
  <2> QED
    BY <2>3, <2>4
<1>11. \A r \in Requests : Text(r)' > 0 => Text(r)' <= available(r)
  <2>1. TAKE r \in Requests
  <2>2. CASE r \in live
    <3>1. r \in Range(active) /\ remaining'[r] \in Nat /\ available(r) \in Int /\ Text(r)' \in Nat
      BY <1>1, <1>7, <1>9, <2>2, AvailableFacts
    <3>2. Text(r)' + remaining'[r] <= available(r)
      BY <1>10, <3>1
    <3> QED
      BY <3>1, <3>2
  <2>3. CASE r \notin live
    BY <1>9, <2>3 DEF Sizes, Countdown
  <2> QED
    BY <2>2, <2>3
<1>12. Countdown'
  BY <1>2, <1>8, <1>10, <1>11 DEF Countdown, available
<1> QED
  BY <1>4, <1>12 DEF Sizes

\* The first token of a prompt is within its limit, and has had its batch entry.
LEMMA SizesPromote ==
    ASSUME Shape, Replies, Sizes, UNCHANGED options, NEW eog, Promote(eog)
    PROVE  Sizes'
<1>1. PICK F, live, single, K :
          /\ F = {r \in Range(prefilling) : left[r] = 0}
          /\ live = F \ gone
          /\ single = {r \in live \ eog : FirstIsLast(r)}
          /\ K = live \ (eog \cup single)
  OBVIOUS
<1>2. /\ pc = "promote" /\ pc' = "top" /\ eog \subseteq live
      /\ out' = [r \in Requests |->
               IF r \in live
               THEN Append(out[r], IF r \in eog THEN "stop"
                                   ELSE IF r \in single THEN "final" ELSE "token")
               ELSE out[r]]
      /\ remaining' = [r \in Requests |-> IF r \in K THEN limit(r) - 1 ELSE remaining[r]]
      /\ active' = active \o Without(prefilling, Requests \ K)
      /\ prefilling' = Without(prefilling, F)
      /\ UNCHANGED <<left, done, n_batch>>
  BY <1>1 DEF Promote, options
<1>3. /\ F \subseteq Range(prefilling) /\ K \subseteq F /\ live \subseteq F
      /\ \A r \in K : r \in live /\ ~ (limit(r) <= 1)
  BY <1>1 DEF FirstIsLast
<1>4. done = {} /\ \A q \in Range(active) \cup Waiting : q \in Requests
  BY <1>2, InFlight
<1>5. Range(prefilling) \subseteq Waiting
  BY DEF Waiting
<1>6. \A r \in F : r \in Requests /\ r \notin Range(active) /\ out[r] = << >> /\ available(r) > 0
  BY <1>3, <1>4, <1>5 DEF Shape, Apart, Replies, Silent, Sizes, Prompts
<1>7. PICK t : t = Without(prefilling, Requests \ K)
  OBVIOUS
<1>8. /\ t \in Seq(Requests) /\ Range(prefilling') = Range(prefilling) \ F
      /\ Range(active') = Range(active) \cup K /\ Len(active') = Len(active) + Len(t)
  BY <1>2, <1>3, <1>7, PromoteFacts
<1>9. Prompts'
  <2>1. left' \in [Requests -> Nat]
    BY <1>2 DEF Sizes, Prompts
  <2>2. \A r \in Range(prefilling') : available(r) > 0 /\ left'[r] > 0
    <3>1. TAKE r \in Range(prefilling')
    <3>2. r \in Range(prefilling) /\ r \notin F /\ r \in Requests
      BY <1>4, <1>5, <1>8
    <3>3. left[r] \in Nat /\ left[r] # 0 /\ available(r) > 0
      BY <1>1, <3>2 DEF Sizes, Prompts
    <3> QED
      BY <1>2, <3>3
  <2>3. Len(active') <= n_batch'
    <3>1. PICK k : k = Len(Without(prefilling, Unfilled))
      OBVIOUS
    <3>2. k \in Nat /\ Len(active) \in Nat /\ Len(t) \in Nat /\ n_batch \in Nat
      BY <1>8, <3>1, WithoutShrinks, OptionFacts DEF Shape, Kinds
    <3>3. Unfilled \subseteq Requests \ K
      BY <1>1, <1>3 DEF Unfilled
    <3>4. Len(t) <= k
      BY <1>7, <3>1, <3>3, WithoutMonotone DEF Shape, Kinds
    <3>5. Len(active) + k <= n_batch
      BY <1>2, <3>1 DEF Sizes, Prompts
    <3>6. Len(active) + Len(t) <= n_batch
      BY <3>2, <3>4, <3>5
    <3>7. n_batch' = n_batch
      BY <1>2
    <3> QED
      BY <1>8, <3>6, <3>7
  <2> QED
    BY <1>2, <2>1, <2>2, <2>3 DEF Prompts, available
<1>10. \A r \in Requests :
           /\ Text(r) \in Nat
           /\ r \notin live => Text(r)' = Text(r)
           /\ r \in live => Text(r)' = (IF r \in eog THEN 0 ELSE 1)
  <2>1. TAKE r \in Requests
  <2>2. out[r] \in Seq(Callbacks)
    BY DEF Replies, Silent
  <2>3. Text(r) = TextOf(out[r]) /\ Text(r)' = TextOf(out'[r])
    BY DEF Text, TextOf
  <2>4. "stop" \in Callbacks /\ "final" \in Callbacks /\ "token" \in Callbacks
    BY DEF Callbacks
  <2>5. /\ TextOf(out[r]) \in Nat /\ TextOf(<< >>) = 0
        /\ TextOf(Append(out[r], "final")) = TextOf(out[r]) + 1
        /\ TextOf(Append(out[r], "token")) = TextOf(out[r]) + 1
        /\ TextOf(Append(out[r], "stop")) = TextOf(out[r])
    BY <2>2, <2>4, TextFacts
  <2>6. CASE r \notin live
    <3>1. out'[r] = out[r]
      BY <1>2, <2>6
    <3> QED
      BY <2>3, <2>5, <2>6, <3>1
  <2>7. CASE r \in live
    <3>1. TextOf(out[r]) = 0
      BY <1>3, <1>6, <2>5, <2>7
    <3>2. \/ r \in eog /\ out'[r] = Append(out[r], "stop")
          \/ r \notin eog /\ (out'[r] = Append(out[r], "final") \/ out'[r] = Append(out[r], "token"))
      BY <1>2, <2>7
    <3>3. TextOf(out'[r]) = IF r \in eog THEN 0 ELSE 1
      <4>1. CASE r \in eog
        BY <2>5, <3>1, <3>2, <4>1
      <4>2. CASE r \notin eog
        <5>1. TextOf(out'[r]) = TextOf(out[r]) + 1
          BY <2>5, <3>2, <4>2
        <5> QED
          BY <3>1, <4>2, <5>1
      <4> QED
        BY <4>1, <4>2
    <3> QED
      BY <2>3, <2>5, <2>7, <3>3
  <2> QED
    BY <2>6, <2>7
<1>11. remaining \in [Requests -> Nat]
  BY DEF Sizes, Countdown
<1>12. \A r \in K : remaining'[r] = limit(r) - 1 /\ remaining'[r] \in Nat /\ remaining'[r] > 0
                    /\ remaining'[r] + 1 <= available(r)
  <2>1. TAKE r \in K
  <2>2. r \in Requests /\ limit(r) \in Int /\ available(r) \in Int /\ limit(r) <= available(r)
        /\ ~ (limit(r) <= 1)
    BY <1>3, <1>6, AvailableFacts
  <2>3. remaining'[r] = limit(r) - 1
    BY <1>2, <2>2
  <2> QED
    BY <2>2, <2>3
<1>13. \A r \in Requests : r \notin K => remaining'[r] = remaining[r]
  BY <1>2
<1>14. remaining' \in [Requests -> Nat]
  BY <1>2, <1>11, <1>12, <1>13
<1>15. \A r \in Range(active') : Text(r)' + remaining'[r] <= available(r)
                                 /\ (r \notin done' => remaining'[r] > 0)
  <2>1. TAKE r \in Range(active')
  <2>2. CASE r \in K
    <3>1. Text(r)' = 1
      <4>1. r \in live /\ r \notin eog /\ r \in Requests
        BY <1>1, <1>3, <1>6, <2>2
      <4> QED
        BY <1>10, <4>1
    <3>2. remaining'[r] \in Nat /\ remaining'[r] > 0 /\ remaining'[r] + 1 <= available(r)
      BY <1>12, <2>2
    <3>3. available(r) \in Int
      BY <1>3, <1>6, <2>2, AvailableFacts
    <3> QED
      BY <3>1, <3>2, <3>3
  <2>3. CASE r \notin K
    <3>1. r \in Range(active) /\ r \in Requests /\ r \notin live
      BY <1>3, <1>4, <1>6, <1>8, <2>3
    <3>2. Text(r)' = Text(r) /\ remaining'[r] = remaining[r]
      BY <1>10, <1>13, <2>3, <3>1
    <3> QED
      BY <1>4, <3>1, <3>2 DEF Sizes, Countdown
  <2> QED
    BY <2>2, <2>3
<1>16. \A r \in Requests : Text(r)' > 0 => Text(r)' <= available(r)
  <2>1. TAKE r \in Requests
  <2>2. CASE r \in live
    <3>1. available(r) > 0 /\ available(r) \in Int
      BY <1>3, <1>6, <2>2, AvailableFacts
    <3>2. Text(r)' = 0 \/ Text(r)' = 1
      BY <1>10, <2>2
    <3> QED
      BY <3>1, <3>2
  <2>3. CASE r \notin live
    BY <1>10, <2>3 DEF Sizes, Countdown
  <2> QED
    BY <2>2, <2>3
<1>17. Countdown'
  BY <1>14, <1>15, <1>16 DEF Countdown, available
<1> QED
  BY <1>9, <1>17 DEF Sizes

\* At the start there is nothing to decode.
LEMMA SizesInit == Init => Sizes
<1> SUFFICES ASSUME Init PROVE Sizes
  OBVIOUS
<1>1. Shape
  BY ShapeInit
<1>2. prefilling = << >> /\ active = << >> /\ pc = "top"
  BY DEF Init
<1>3. Range(prefilling) = {} /\ Range(active) = {} /\ Len(active) = 0 /\ n_batch \in Nat
  BY <1>1, <1>2, EmptyFacts, OptionFacts DEF Shape, Kinds
<1>4. Prompts
  <2>1. left \in [Requests -> Nat]
    BY DEF Init
  <2> QED
    BY <1>2, <1>3, <2>1 DEF Prompts
<1>5. \A r \in Requests : Text(r) = 0
  <2>1. TAKE r \in Requests
  <2>2. out[r] = << >>
    BY DEF Init
  <2>3. << >> \in Seq(Callbacks) /\ "stop" \in Callbacks
    BY DEF Callbacks
  <2>4. TextOf(out[r]) = 0
    BY <2>2, <2>3, TextFacts
  <2> QED
    BY <2>4 DEF Text, TextOf
<1>6. Countdown
  <2>1. remaining \in [Requests -> Nat]
    BY DEF Init
  <2> QED
    BY <1>3, <1>5, <2>1 DEF Countdown
<1> QED
  BY <1>4, <1>6 DEF Sizes

\* Every step keeps the batch within its arrays and the text within the context.
LEMMA SizesNext ==
    ASSUME Shape, Shape', Replies, Sizes, [Next]_vars
    PROVE  Sizes'
<1>1. CASE UNCHANGED vars
  BY <1>1, SizesElsewhere
<1>2. CASE Next
  <2>1. UNCHANGED options
    BY <1>2 DEF Next
  <2>2. CASE \/ EnterLoop \/ Waits \/ stop \/ LeaveLoop \/ Admit \/ FinishPrepare \/ Sweep
             \/ DecodeFull \/ DecodeError \/ Complete
    BY <2>1, <2>2, SizesElsewhere
  <2>3. ASSUME NEW r \in Requests,
               \/ enqueue(r) \/ Disconnect(r) \/ PrepareCancelled(r) \/ PrepareError(r)
               \/ PrepareDefer(r) \/ PrepareExhausted(r)
        PROVE  Sizes'
    BY <2>1, <2>3, SizesElsewhere
  <2>4. ASSUME NEW r \in Requests, PrepareReady(r) PROVE Sizes'
    BY <2>1, <2>4, SizesReady
  <2>5. ASSUME NEW eog \in SUBSET Range(active), NEW broken, DecodeOk(eog, broken) PROVE Sizes'
    BY <2>1, <2>5, SizesDecodeOk
  <2>6. ASSUME NEW eog, Promote(eog) PROVE Sizes'
    BY <2>1, <2>6, SizesPromote
  <2> QED
    BY <1>2, <2>2, <2>3, <2>4, <2>5, <2>6 DEF Next, WorkerStep, Waits
<1> QED
  BY <1>1, <1>2

\* The flag of stop()'s notification is one.
LEMMA NotifiedNext == notified \in BOOLEAN /\ [Next]_vars => notified' \in BOOLEAN
BY DEF Next, enqueue, Disconnect, notify_one, Wake, stop, notify_all, vars

WorkerInv == Shape /\ Replies /\ Sizes /\ notified \in BOOLEAN

\* The three layers together are inductive.
THEOREM WorkerInvariance == Spec => []WorkerInv
<1>1. Init => WorkerInv
  BY ShapeInit, RepliesInit, SizesInit DEF WorkerInv, Init
<1>2. WorkerInv /\ [Next]_vars => WorkerInv'
  BY ShapeNext, RepliesNext, SizesNext, NotifiedNext DEF WorkerInv
<1> QED
  BY <1>1, <1>2, PTL DEF Spec

\* TypeOK: every variable has its type; no countdown of prompt or generation tokens of
\* worker.cpp goes below zero.
THEOREM WorkerTypeCorrect == Spec => []TypeOK
<1>1. WorkerInv => TypeOK
  <2> SUFFICES ASSUME WorkerInv PROVE TypeOK
    OBVIOUS
  <2>1. /\ options \in Limits /\ queue \in Seq(Requests) /\ running \in BOOLEAN
        /\ pc \in {"top", "locked", "checked", "asleep", "prepare", "sweep", "decode",
                   "complete", "promote", "exit"}
        /\ \A s \in {admitted, deferred, queued, prefilling, active} : s \in Seq(Requests)
    BY DEF WorkerInv, Shape, Kinds
  <2>2. left \in [Requests -> Nat] /\ remaining \in [Requests -> Nat]
    BY DEF WorkerInv, Sizes, Prompts, Countdown
  <2>3. done \subseteq Requests /\ notify \subseteq done /\ counted \subseteq gone
    BY RangeFacts DEF WorkerInv, Shape, Kinds, Replies, Retiring
  <2>4. client \in [Requests -> {"new", "sent", "gone"}] /\ generating \in Nat
    BY DEF WorkerInv, Shape, Unsent, Phases
  <2>5. out \in [Requests -> Seq(Callbacks)]
    BY DEF WorkerInv, Replies, Silent
  <2> QED
    BY <2>1, <2>2, <2>3, <2>4, <2>5 DEF TypeOK, WorkerInv
<1> QED
  BY <1>1, WorkerInvariance, PTL

\* BatchFits: the decoding tokens and the prompt chunks of fused_step fit in the arrays of
\* --batch-size entries, also when there are more sequence ids than entries, and no step
\* submits an empty batch.
THEOREM BatchAlwaysFits == Spec => []BatchFits
<1>1. WorkerInv => BatchFits
  <2> SUFFICES ASSUME WorkerInv, pc = "decode"
               PROVE  Len(active) + Used[Len(prefilling)] \in 1 .. n_batch
    BY DEF BatchFits
  <2>1. /\ left \in [Requests -> Nat] /\ Len(active) <= n_batch
        /\ \A r \in Range(prefilling) : left[r] > 0
    BY DEF WorkerInv, Sizes, Prompts
  <2>2. /\ active \in Seq(Requests) /\ prefilling \in Seq(Requests)
        /\ active # << >> \/ prefilling # << >>
        /\ n_batch \in Nat
    BY OptionFacts DEF WorkerInv, Shape, Kinds, Phases
  <2>3. Shape
    BY DEF WorkerInv
  <2>4. PICK u : u = Used[Len(prefilling)]
    OBVIOUS
  <2>5. u \in Nat /\ u <= n_batch - Len(active)
    <3>1. Len(prefilling) \in 0 .. Len(prefilling)
      BY <2>2
    <3> QED
      BY <2>1, <2>3, <2>4, <3>1, UsedFacts
  <2>6. active = << >> => u > 0
    BY <2>1, <2>2, <2>3, <2>4, UsedFacts
  <2>7. Len(active) \in Nat /\ (active # << >> => Len(active) > 0)
    BY <2>2, RangeFacts
  <2>8. Len(active) + u \in 1 .. n_batch
    BY <2>2, <2>5, <2>6, <2>7
  <2> QED
    BY <2>4, <2>8
<1> QED
  BY <1>1, WorkerInvariance, PTL

\* WithinContext: remaining of a sequence that goes on is not past zero, and the prompt and
\* what was generated for it leave the four tokens of reserve that prepare_all subtracts.
THEOREM ContextNeverExceeded == Spec => []WithinContext
<1>1. WorkerInv => WithinContext
  <2> SUFFICES ASSUME WorkerInv PROVE WithinContext
    OBVIOUS
  <2>1. \A r \in Range(active) \ done : remaining[r] >= 1
    <3>1. TAKE r \in Range(active) \ done
    <3>2. r \in Requests
      BY RangeFacts DEF WorkerInv, Shape, Kinds
    <3>3. remaining[r] \in Nat /\ remaining[r] > 0
      BY <3>2 DEF WorkerInv, Sizes, Countdown
    <3> QED
      BY <3>3
  <2>2. \A r \in Requests : Text(r) > 0 => PromptLen[r] + Text(r) <= n_ctx - 4
    <3>1. TAKE r \in Requests
    <3>2. out[r] \in Seq(Callbacks) /\ "stop" \in Callbacks
      BY DEF WorkerInv, Replies, Silent, Callbacks
    <3>3. TextOf(out[r]) \in Nat
      BY <3>2, TextFacts
    <3>4. Text(r) \in Nat /\ (Text(r) > 0 => Text(r) <= available(r))
      BY <3>3 DEF WorkerInv, Sizes, Countdown, Text, TextOf
    <3> QED
      BY <3>4, AvailableFacts
  <2> QED
    BY <2>1, <2>2 DEF WithinContext
<1> QED
  BY <1>1, WorkerInvariance, PTL
=============================================================================
