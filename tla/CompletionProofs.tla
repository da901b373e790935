--------------------------- MODULE CompletionProofs ---------------------------
(***************************************************************************)
(* The safety properties of module Completion, for every set of token      *)
(* texts and every bound.                                                  *)
(*                                                                         *)
(* None of them is inductive by itself.  CompletionInv adds what the two   *)
(* threads know of each other: which flags a stream may have in which      *)
(* state of the worker, what a synchronous callback has on its way to the  *)
(* shared state, and that the wire is open as long as done is not set.     *)
(***************************************************************************)
EXTENDS Completion, FiniteSetTheorems, SequenceTheorems, TLAPS

\* Handler and worker: a request that was not submitted has no worker, a callback runs
\* before the end only, and a synchronous handler is the only one to cancel its request.
Protocol ==
    /\ handler = "start" => worker = "none" /\ ~ cancelled
    /\ worker = "none" => handler \in {"start", "returned"}
    /\ worker = "act" => ~ ended
    /\ stream => worker \notin {"peek", "append"}
    /\ worker = "append" => /\ ~ done /\ what[1] \in Callbacks
                            /\ ended <=> what[1] # "token"
    /\ worker # "released" => counted = 0
    /\ ~ stream /\ done => ended
    /\ ~ stream /\ handler = "waiting" => ~ cancelled
    /\ ~ stream /\ response = 200 => done /\ ~ cancelled
    /\ stream /\ ~ cancelled => (done <=> ended)

Events == {"keepalive", "chunk", "stop", "error", "DONE"}

\* No event that ends the stream was written.
IsOpen(w) == \A i \in 1 .. Len(w) : w[i] \in {"keepalive", "chunk"}

\* Nothing follows [DONE], and nothing but [DONE] follows a stop or an error.
InOrder(w) ==
    \A i \in 1 .. Len(w) :
        /\ w[i] = "DONE" => i = Len(w)
        /\ w[i] \in {"stop", "error"} /\ i < Len(w) => w[i + 1] = "DONE"

\* A stream that ended as it should.
IsClosed(w) == w # << >> /\ Last(w) = "DONE"

\* The wire is open until done is set, is closed when it is set without a failure, and
\* the handler leaves a stream that is neither refused nor cancelled when it is done.
WireInv ==
    /\ InOrder(wire)
    /\ ~ done => IsOpen(wire)
    /\ stream /\ done /\ ~ cancelled => IsClosed(wire)
    /\ stream /\ handler \in {"finishing", "returned"} /\ response = 0 /\ ~ cancelled => done

\* What a synchronous request has collected, and what is on its way there.
SyncText ==
    ~ stream /\ ~ cancelled =>
        said = IF worker = "append" THEN full_response \o what[2] ELSE full_response

\* The types, by kind.
Flags ==
    /\ stream \in BOOLEAN /\ connected \in BOOLEAN /\ cancelled \in BOOLEAN
    /\ done \in BOOLEAN /\ ended \in BOOLEAN

Control ==
    /\ handler \in {"start", "waiting", "finishing", "returned"}
    /\ worker \in {"none", "poll", "peek", "act", "append", "released"}
    /\ what[1] \in {"token", "final", "stop", "error", ""}

Numbers ==
    /\ error_status \in {0, 400, 500, 503} /\ response \in {0, 200, 400, 500, 503, 504}
    /\ counted \in 0 .. 1

TextTypes ==
    /\ full_response \in Seq(Bytes) /\ incomplete_utf8 \in Seq(Bytes) /\ said \in Seq(Bytes)
    /\ what[2] \in Seq(Bytes) /\ wire \in Seq(Events) /\ Len(said) <= MaxText

\* The inductive invariant.
CompletionInv ==
    /\ Flags /\ Control /\ Numbers /\ TextTypes
    /\ Protocol
    /\ SinkAlive
    /\ WireInv
    /\ StreamComplete
    /\ SyncText
    /\ WholeCharacters

-----------------------------------------------------------------------------
(* Sequences of bytes *)

\* A character that begins at j goes on to the end of s and is not complete there.
FragmentAt(s, j) ==
    /\ Len(s) - j + 1 < s[j]
    /\ \A i \in j + 1 .. Len(s) : s[i] = 0

\* Fragment, said of the text that it ends.
LEMMA FragmentIsSuffix ==
    ASSUME NEW s \in Seq(Bytes), NEW j \in 1 .. Len(s)
    PROVE  Fragment(SubSeq(s, j, Len(s))) <=> FragmentAt(s, j)
<1>1. PICK l \in Nat : l = Len(s)
  OBVIOUS
<1>2. PICK t : t = SubSeq(s, j, l)
  OBVIOUS
<1>3. /\ t \in Seq(Bytes) /\ Len(t) = l - j + 1
      /\ \A i \in 1 .. l - j + 1 : t[i] = s[j + i - 1]
  <2>1. /\ SubSeq(s, j, l) \in Seq(Bytes) /\ Len(SubSeq(s, j, l)) = l - j + 1
        /\ \A i \in 1 .. l - j + 1 : SubSeq(s, j, l)[i] = s[j + i - 1]
    BY <1>1
  <2> QED BY <1>2, <2>1
<1>4. t # << >> /\ Head(t) = s[j]
  <2>1. t # << >> /\ Head(t) = t[1] /\ 1 \in 1 .. l - j + 1 /\ j + 1 - 1 = j
    BY <1>1, <1>3
  <2> QED BY <1>3, <2>1
<1>5. ASSUME \A i \in 2 .. l - j + 1 : t[i] = 0, NEW i \in j + 1 .. l
      PROVE  s[i] = 0
  <2>1. i - j + 1 \in 2 .. l - j + 1 /\ i - j + 1 \in 1 .. l - j + 1 /\ j + (i - j + 1) - 1 = i
    BY <1>1
  <2> QED BY <1>3, <1>5, <2>1
<1>6. ASSUME \A i \in j + 1 .. l : s[i] = 0, NEW i \in 2 .. l - j + 1
      PROVE  t[i] = 0
  <2>1. j + i - 1 \in j + 1 .. l /\ i \in 1 .. l - j + 1
    BY <1>1
  <2> QED BY <1>3, <1>6, <2>1
<1>7. Fragment(t) <=> /\ t # << >> /\ Len(t) < Head(t)
                      /\ \A i \in 2 .. Len(t) : t[i] = 0
  BY DEF Fragment
<1>8. FragmentAt(s, j) <=> l - j + 1 < s[j] /\ \A i \in j + 1 .. l : s[i] = 0
  BY <1>1 DEF FragmentAt
<1>9. Fragment(t) <=> FragmentAt(s, j)
  BY <1>3, <1>4, <1>5, <1>6, <1>7, <1>8
<1> QED BY <1>1, <1>2, <1>9

\* Joining texts is associative.
LEMMA JoinAssociative ==
    ASSUME NEW s \in Seq(Bytes), NEW t \in Seq(Bytes), NEW u \in Seq(Bytes)
    PROVE  (s \o t) \o u = s \o (t \o u)
<1>1. /\ (s \o t) \o u \in Seq(Bytes) /\ s \o (t \o u) \in Seq(Bytes)
      /\ Len((s \o t) \o u) = Len(s \o (t \o u))
  OBVIOUS
<1>2. \A i \in 1 .. Len((s \o t) \o u) : ((s \o t) \o u)[i] = (s \o (t \o u))[i]
  OBVIOUS
<1> QED BY <1>1, <1>2, SeqEqual

\* Cutting a text anywhere and joining the halves gives the text.
LEMMA CutAndJoin ==
    ASSUME NEW s \in Seq(Bytes), NEW n \in 0 .. Len(s)
    PROVE  SubSeq(s, 1, n) \o SubSeq(s, n + 1, Len(s)) = s
<1>1. SubSeq(s, 1, n) \o SubSeq(s, n + 1, Len(s)) = SubSeq(s, 1, Len(s))
  <2>1. 1 \in 1 .. Len(s) + 1 /\ n \in 1 - 1 .. Len(s) /\ Len(s) \in n .. Len(s)
    OBVIOUS
  <2> QED BY <2>1, ConcatAdjacentSubSeq
<1>2. SubSeq(s, 1, Len(s)) = s
  BY SubSeqFull
<1> QED BY <1>1, <1>2

-----------------------------------------------------------------------------
(* complete_utf8_prefix_length *)

\* continuation_count counts the continuation bytes at the end, up to three.
LEMMA ContinuationCount ==
    ASSUME NEW bytes \in Seq(Bytes)
    PROVE  LET k == continuation_count(bytes)
           IN  /\ k \in 0 .. 3 /\ k <= Len(bytes)
               /\ \A i \in Len(bytes) - k + 1 .. Len(bytes) : bytes[i] = 0
               /\ k < 3 /\ k < Len(bytes) => bytes[Len(bytes) - k] # 0
<1> DEFINE Zeros(n) == /\ n <= Len(bytes)
                       /\ \A i \in Len(bytes) - n + 1 .. Len(bytes) : bytes[i] = 0
           S == {n \in 1 .. 3 : Zeros(n)}
<1>1. PICK l \in Nat : l = Len(bytes)
  OBVIOUS
<1>2. Zeros(0) /\ (Zeros(2) => Zeros(1)) /\ (Zeros(3) => Zeros(2))
  BY <1>1
<1>3. \E k \in 0 .. 3 : S = 1 .. k /\ Zeros(k) /\ (k < 3 => ~ Zeros(k + 1))
  <2> HIDE DEF Zeros
  <2>1. CASE ~ Zeros(1)
    <3>1. S = 1 .. 0
      BY <1>2, <2>1
    <3> QED BY <1>2, <2>1, <3>1
  <2>2. CASE Zeros(1) /\ ~ Zeros(2)
    <3>1. S = 1 .. 1
      BY <1>2, <2>2
    <3> QED BY <1>2, <2>2, <3>1
  <2>3. CASE Zeros(2) /\ ~ Zeros(3)
    <3>1. S = 1 .. 2
      BY <1>2, <2>3
    <3> QED BY <1>2, <2>3, <3>1
  <2>4. CASE Zeros(3)
    <3>1. S = 1 .. 3
      BY <1>2, <2>4
    <3> QED BY <1>2, <2>4, <3>1
  <2> QED BY <1>2, <2>1, <2>2, <2>3, <2>4
<1>4. PICK k \in 0 .. 3 : S = 1 .. k /\ Zeros(k) /\ (k < 3 => ~ Zeros(k + 1))
  BY <1>3
<1>5. Cardinality(1 .. k) = k
  <2>1. Cardinality(1 .. k) = IF 1 > k THEN 0 ELSE k - 1 + 1
    BY FS_Interval, SMT
  <2> QED BY <2>1
<1>6. continuation_count(bytes) = k
  <2>1. continuation_count(bytes) = Cardinality(S)
    BY DEF continuation_count
  <2> QED BY <1>4, <1>5, <2>1
<1>7. k < 3 /\ k < Len(bytes) => bytes[Len(bytes) - k] # 0
  <2> SUFFICES ASSUME k < 3, k < l, bytes[l - k] = 0 PROVE FALSE
    BY <1>1
  <2>1. \A i \in l - k + 1 .. l : bytes[i] = 0
    BY <1>1, <1>4
  <2>2. \A i \in l - (k + 1) + 1 .. l : i = l - k \/ i \in l - k + 1 .. l
    BY <1>1
  <2>3. Zeros(k + 1)
    BY <1>1, <2>1, <2>2
  <2> QED BY <1>4, <2>3
<1> QED BY <1>4, <1>6, <1>7

\* The prefix is one; behind it a character begins that is not complete.
LEMMA PrefixLength ==
    ASSUME NEW bytes \in Seq(Bytes)
    PROVE  LET n == complete_utf8_prefix_length(bytes)
           IN  /\ n \in 0 .. Len(bytes)
               /\ n < Len(bytes) => FragmentAt(bytes, n + 1)
<1>1. PICK k \in 0 .. 3 :
          /\ k = continuation_count(bytes) /\ k <= Len(bytes)
          /\ \A i \in Len(bytes) - k + 1 .. Len(bytes) : bytes[i] = 0
  BY ContinuationCount
<1>2. PICK l \in Nat : l = Len(bytes)
  OBVIOUS
<1>3. CASE l - k > 0 /\ bytes[l - k] > k + 1
  <2>1. complete_utf8_prefix_length(bytes) = l - k - 1
    BY <1>1, <1>2, <1>3 DEF complete_utf8_prefix_length
  <2>2. FragmentAt(bytes, l - k)
    <3>1. l - (l - k) + 1 = k + 1 /\ bytes[l - k] \in 0 .. 4
      BY <1>2, <1>3 DEF Bytes
    <3> QED BY <1>1, <1>2, <1>3, <3>1 DEF FragmentAt
  <2>3. l - k - 1 + 1 = l - k /\ l - k - 1 \in 0 .. l
    BY <1>3
  <2> QED BY <1>2, <2>1, <2>2, <2>3
<1>4. CASE ~ (l - k > 0 /\ bytes[l - k] > k + 1)
  <2>1. complete_utf8_prefix_length(bytes) = l
    BY <1>1, <1>2, <1>4 DEF complete_utf8_prefix_length
  <2> QED BY <1>2, <2>1
<1> QED BY <1>3, <1>4

\* Where nothing is held back, no character has begun and is not complete.
LEMMA NothingBegun ==
    ASSUME NEW bytes \in Seq(Bytes), complete_utf8_prefix_length(bytes) = Len(bytes),
           NEW j \in 1 .. Len(bytes)
    PROVE  ~ FragmentAt(bytes, j)
<1> SUFFICES ASSUME FragmentAt(bytes, j) PROVE FALSE
  OBVIOUS
<1>1. PICK l \in Nat : l = Len(bytes)
  OBVIOUS
<1>3. l - j + 1 < bytes[j] /\ \A i \in j + 1 .. l : bytes[i] = 0
  BY <1>1 DEF FragmentAt
<1>6. bytes[j] \in 0 .. 4 /\ j \in 1 .. l
  BY <1>1 DEF Bytes
<1>7. PICK k \in 0 .. 3 :
          /\ k = continuation_count(bytes) /\ k <= l
          /\ \A i \in l - k + 1 .. l : bytes[i] = 0
          /\ k < 3 /\ k < l => bytes[l - k] # 0
  BY <1>1, ContinuationCount
<1>8. k = l - j
  <2>1. ~ (k > l - j)
    <3> SUFFICES ASSUME k > l - j PROVE FALSE
      OBVIOUS
    <3>1. j \in l - k + 1 .. l
      BY <1>6
    <3>2. bytes[j] = 0
      BY <1>7, <3>1
    <3> QED BY <1>3, <1>6, <3>2
  <2>2. ~ (k < l - j)
    <3> SUFFICES ASSUME k < l - j PROVE FALSE
      OBVIOUS
    <3>1. l - k \in j + 1 .. l /\ k < 3 /\ k < l
      BY <1>3, <1>6
    <3> QED BY <1>3, <1>7, <3>1
  <2> QED BY <1>6, <2>1, <2>2
<1>9. complete_utf8_prefix_length(bytes) = j - 1
  <2>1. l - (k + 1) + 1 = j
    BY <1>6, <1>8
  <2> QED BY <1>1, <1>3, <1>6, <1>7, <1>8, <2>1 DEF complete_utf8_prefix_length
<1> QED BY <1>1, <1>6, <1>9

-----------------------------------------------------------------------------
(* The buffer of on_token *)

\* WholeCharacters of a text that was sent and of one that is held back, byte by byte.
Whole(sent, held) ==
    /\ \A i \in 1 .. Len(sent) : FragmentAt(sent, i) => Len(held) > 0 /\ held[1] # 0
    /\ Len(held) = 0 \/ FragmentAt(held, 1)

\* It is what WholeCharacters says.
LEMMA WholeMeaning ==
    ASSUME NEW sent \in Seq(Bytes), NEW held \in Seq(Bytes)
    PROVE  Whole(sent, held) <=>
               /\ \A i \in DOMAIN sent :
                      Fragment(SubSeq(sent, i, Len(sent))) => held # << >> /\ Head(held) # 0
               /\ held = << >> \/ Fragment(held)
<1>1. DOMAIN sent = 1 .. Len(sent)
  BY LenProperties
<1>2. \A i \in 1 .. Len(sent) : Fragment(SubSeq(sent, i, Len(sent))) <=> FragmentAt(sent, i)
  BY FragmentIsSuffix
<1>3. CASE held = << >>
  <2>1. Len(held) = 0
    BY <1>3
  <2> QED BY <1>1, <1>2, <1>3, <2>1 DEF Whole
<1>4. CASE held # << >>
  <2>1. Len(held) > 0 /\ Len(held) # 0 /\ Head(held) = held[1] /\ 1 \in 1 .. Len(held)
    BY <1>4
  <2>2. SubSeq(held, 1, Len(held)) = held
    BY SubSeqFull
  <2>3. Fragment(SubSeq(held, 1, Len(held))) <=> FragmentAt(held, 1)
    BY <2>1, FragmentIsSuffix
  <2>4. Fragment(held) <=> FragmentAt(held, 1)
    BY <2>2, <2>3
  <2> QED BY <1>1, <1>2, <1>4, <2>1, <2>4 DEF Whole
<1> QED BY <1>3, <1>4

\* A piece of text is appended to what is held back, everything but a character that has
\* begun is sent, and both texts are whole again.
LEMMA ChunkKeepsWhole ==
    ASSUME NEW sent \in Seq(Bytes), NEW held \in Seq(Bytes), NEW piece \in Seq(Bytes),
           NEW n, n = complete_utf8_prefix_length(held \o piece),
           Whole(sent, held)
    PROVE  Whole(sent \o SubSeq(held \o piece, 1, n),
                 SubSeq(held \o piece, n + 1, Len(held \o piece)))
<1>0. held \o piece \in Seq(Bytes)
  OBVIOUS
<1>1. PICK content \in Seq(Bytes) : content = held \o piece
  BY <1>0, Zenon
<1>2. PICK l \in Nat : l = Len(content)
  OBVIOUS
<1>3. /\ n \in 0 .. l
      /\ n < l => FragmentAt(content, n + 1)
      /\ n = l => \A j \in 1 .. l : ~ FragmentAt(content, j)
  BY <1>1, <1>2, PrefixLength, NothingBegun
<1>4. /\ Len(held) \in 0 .. l
      /\ \A i \in 1 .. Len(held) : content[i] = held[i]
  <2>1. Len(content) = Len(held) + Len(piece)
    BY <1>1
  <2> QED BY <1>1, <1>2, <2>1
<1>5. PICK rest : rest = SubSeq(content, n + 1, l)
  OBVIOUS
<1>6. /\ rest \in Seq(Bytes) /\ Len(rest) = l - n
      /\ \A i \in 1 .. l - n : rest[i] = content[n + i]
  <2>1. /\ SubSeq(content, n + 1, l) \in Seq(Bytes) /\ Len(SubSeq(content, n + 1, l)) = l - n
        /\ \A i \in 1 .. l - n : SubSeq(content, n + 1, l)[i] = content[n + i]
    BY <1>2, <1>3
  <2> QED BY <1>5, <2>1
<1>7. PICK head : head = SubSeq(content, 1, n)
  OBVIOUS
<1>8. /\ head \in Seq(Bytes) /\ Len(head) = n
      /\ \A i \in 1 .. n : head[i] = content[i]
  <2>1. /\ SubSeq(content, 1, n) \in Seq(Bytes) /\ Len(SubSeq(content, 1, n)) = n
        /\ \A i \in 1 .. n : SubSeq(content, 1, n)[i] = content[i]
    BY <1>2, <1>3
  <2> QED BY <1>7, <2>1
<1>9. PICK k \in Nat : k = Len(sent)
  OBVIOUS
<1>10. PICK all : all = sent \o head
  OBVIOUS
<1>11. /\ all \in Seq(Bytes) /\ Len(all) = k + n
       /\ \A i \in 1 .. k : all[i] = sent[i]
       /\ \A i \in 1 .. n : all[k + i] = content[i]
  <2>1. /\ sent \o head \in Seq(Bytes) /\ Len(sent \o head) = k + n
        /\ \A i \in 1 .. k : (sent \o head)[i] = sent[i]
        /\ \A i \in 1 .. n : (sent \o head)[k + i] = head[i]
    <3>1. /\ sent \o head \in Seq(Bytes) /\ Len(sent \o head) = Len(sent) + Len(head)
          /\ \A i \in 1 .. Len(sent) + Len(head) : (sent \o head)[i] =
                 IF i <= Len(sent) THEN sent[i] ELSE head[i - Len(sent)]
      BY <1>8, ConcatProperties
    <3>2. n \in Nat /\ \A i \in 1 .. n : k + i \in 1 .. k + n /\ ~ (k + i <= k) /\ k + i - k = i
      BY <1>3
    <3>3. \A i \in 1 .. k : i \in 1 .. k + n /\ i <= k
      BY <3>2
    <3> QED BY <1>8, <1>9, <3>1, <3>2, <3>3
  <2> QED BY <1>8, <1>10, <2>1
<1>12. n < l => /\ Len(rest) > 0 /\ rest[1] # 0
                /\ FragmentAt(rest, 1)
  <2> SUFFICES ASSUME n < l PROVE Len(rest) > 0 /\ rest[1] # 0 /\ FragmentAt(rest, 1)
    OBVIOUS
  <2>1. l - (n + 1) + 1 < content[n + 1] /\ \A i \in n + 2 .. l : content[i] = 0
    BY <1>2, <1>3 DEF FragmentAt
  <2>2. rest[1] = content[n + 1] /\ content[n + 1] \in 0 .. 4
    BY <1>2, <1>3, <1>6 DEF Bytes
  <2>3. \A i \in 2 .. l - n : rest[i] = 0
    <3> SUFFICES ASSUME NEW i \in 2 .. l - n PROVE rest[i] = 0
      OBVIOUS
    <3>1. n + i \in n + 2 .. l /\ i \in 1 .. l - n
      BY <1>3
    <3> QED BY <1>6, <2>1, <3>1
  <2>4. Len(rest) - 1 + 1 < rest[1] /\ rest[1] # 0 /\ Len(rest) > 0
    BY <1>3, <1>6, <2>1, <2>2
  <2> QED BY <1>6, <2>3, <2>4 DEF FragmentAt
<1>13. Len(rest) = 0 \/ FragmentAt(rest, 1)
  BY <1>3, <1>6, <1>12
<1>14. ASSUME NEW i \in 1 .. k + n, FragmentAt(all, i)
       PROVE  Len(rest) > 0 /\ rest[1] # 0
  <2>0. (k + n) - i + 1 < all[i] /\ \A j \in i + 1 .. k + n : all[j] = 0
    BY <1>11, <1>14 DEF FragmentAt
  <2>1. CASE i > k
    <3> SUFFICES ASSUME n = l PROVE FALSE
      BY <1>3, <1>12
    <3>1. i - k \in 1 .. l /\ k + (i - k) = i
      BY <1>3, <2>1
    <3>2. all[i] = content[i - k] /\ l - (i - k) + 1 < content[i - k]
      BY <1>3, <1>11, <2>0, <3>1
    <3>3. \A j \in (i - k) + 1 .. l : content[j] = 0
      <4> SUFFICES ASSUME NEW j \in (i - k) + 1 .. l PROVE content[j] = 0
        OBVIOUS
      <4>1. k + j \in i + 1 .. k + n /\ j \in 1 .. n
        BY <3>1
      <4> QED BY <1>11, <2>0, <4>1
    <3>4. FragmentAt(content, i - k)
      BY <1>2, <3>2, <3>3 DEF FragmentAt
    <3> QED BY <1>3, <3>1, <3>4
  <2>2. CASE i <= k
    <3>1. i \in 1 .. k /\ all[i] = sent[i] /\ sent[i] \in 0 .. 4
      BY <1>9, <1>11, <2>2 DEF Bytes
    <3>2. k - i + 1 < sent[i]
      <4>1. PICK x \in 0 .. 4 : x = sent[i]
        BY <3>1
      <4>2. (k + n) - i + 1 < x
        BY <2>0, <3>1, <4>1
      <4>3. n \in Nat
        BY <1>3
      <4>4. k - i + 1 < x
        BY <3>1, <4>2, <4>3
      <4> QED BY <4>1, <4>4
    <3>3. \A j \in i + 1 .. k : sent[j] = 0
      <4> SUFFICES ASSUME NEW j \in i + 1 .. k PROVE sent[j] = 0
        OBVIOUS
      <4>1. j \in i + 1 .. k + n /\ j \in 1 .. k
        BY <1>3
      <4> QED BY <1>11, <2>0, <4>1
    <3>4. FragmentAt(sent, i)
      BY <1>9, <3>2, <3>3 DEF FragmentAt
    <3>5. Len(held) > 0 /\ held[1] # 0
      BY <1>9, <3>1, <3>4 DEF Whole
    <3>6. content[1] # 0 /\ l > 0
      BY <1>4, <3>5
    <3>7. n = 0
      <4> SUFFICES ASSUME n > 0 PROVE FALSE
        BY <1>3
      <4>1. 1 \in 1 .. n /\ k + 1 \in i + 1 .. k + n
        BY <1>3, <2>2
      <4> QED BY <1>11, <2>0, <3>6, <4>1
    <3>8. Len(rest) > 0 /\ rest[1] = content[1]
      BY <1>6, <3>6, <3>7
    <3> QED BY <3>6, <3>8
  <2> QED BY <1>9, <2>1, <2>2
<1>15. Whole(all, rest)
  BY <1>11, <1>13, <1>14 DEF Whole
<1> QED BY <1>1, <1>2, <1>5, <1>7, <1>10, <1>15

-----------------------------------------------------------------------------
(* The wire *)

\* An event that does not end the stream leaves it open.
LEMMA StaysOpen ==
    ASSUME NEW w \in Seq(Events), IsOpen(w), NEW e \in {"keepalive", "chunk"}
    PROVE  /\ Append(w, e) \in Seq(Events) /\ IsOpen(Append(w, e)) /\ InOrder(Append(w, e))
           /\ ~ Contains(Append(w, e), "stop")
<1>1. /\ Append(w, e) \in Seq(Events) /\ Len(Append(w, e)) = Len(w) + 1
      /\ \A i \in 1 .. Len(w) : Append(w, e)[i] = w[i]
      /\ Append(w, e)[Len(w) + 1] = e
  BY DEF Events
<1>2. \A i \in 1 .. Len(w) + 1 : i \in 1 .. Len(w) \/ i = Len(w) + 1
  OBVIOUS
<1>3. IsOpen(Append(w, e))
  BY <1>1, <1>2 DEF IsOpen
<1> QED BY <1>1, <1>3 DEF IsOpen, InOrder, Contains

\* A last event, of any kind, keeps the order.
LEMMA Breaking ==
    ASSUME NEW w \in Seq(Events), IsOpen(w), NEW e \in Events
    PROVE  Append(w, e) \in Seq(Events) /\ InOrder(Append(w, e))
<1>1. /\ Append(w, e) \in Seq(Events) /\ Len(Append(w, e)) = Len(w) + 1
      /\ \A i \in 1 .. Len(w) : Append(w, e)[i] = w[i]
  OBVIOUS
<1>2. \A i \in 1 .. Len(w) + 1 : i \in 1 .. Len(w) \/ i = Len(w) + 1
  OBVIOUS
<1> QED BY <1>1, <1>2 DEF IsOpen, InOrder

\* The end of a stream.
LEMMA Closing ==
    ASSUME NEW w \in Seq(Events), IsOpen(w), NEW e \in {"stop", "error"}
    PROVE  LET v == w \o <<e, "DONE">>
           IN  /\ v \in Seq(Events) /\ InOrder(v) /\ IsClosed(v)
               /\ e = "error" => ~ Contains(v, "stop")
<1>1. PICK l \in Nat : l = Len(w)
  OBVIOUS
<1>2. PICK tail : tail = <<e, "DONE">>
  OBVIOUS
<1>3. tail \in Seq(Events) /\ Len(tail) = 2 /\ tail[1] = e /\ tail[2] = "DONE"
  BY <1>2 DEF Events
<1>4. PICK v : v = w \o tail
  OBVIOUS
<1>5. /\ v \in Seq(Events) /\ Len(v) = l + 2
      /\ \A i \in 1 .. l + 2 : v[i] = IF i <= l THEN w[i] ELSE tail[i - l]
  <2>1. /\ w \o tail \in Seq(Events) /\ Len(w \o tail) = Len(w) + Len(tail)
        /\ \A i \in 1 .. Len(w) + Len(tail) :
               (w \o tail)[i] = IF i <= Len(w) THEN w[i] ELSE tail[i - Len(w)]
    BY <1>3, ConcatProperties
  <2> QED BY <1>1, <1>3, <1>4, <2>1
<1>6. /\ \A i \in 1 .. l : v[i] \in {"keepalive", "chunk"}
      /\ v[l + 1] = e /\ v[l + 2] = "DONE"
  <2>1. \A i \in 1 .. l : i \in 1 .. l + 2 /\ i <= l
    OBVIOUS
  <2>2. l + 1 \in 1 .. l + 2 /\ ~ (l + 1 <= l) /\ l + 1 - l = 1
    OBVIOUS
  <2>3. l + 2 \in 1 .. l + 2 /\ ~ (l + 2 <= l) /\ l + 2 - l = 2
    OBVIOUS
  <2> QED BY <1>1, <1>3, <1>5, <2>1, <2>2, <2>3 DEF IsOpen
<1>7. \A i \in 1 .. l + 2 : i \in 1 .. l \/ i = l + 1 \/ i = l + 2
  OBVIOUS
<1>8. InOrder(v)
  BY <1>5, <1>6, <1>7 DEF InOrder
<1>9. IsClosed(v)
  BY <1>5, <1>6 DEF IsClosed, Last
<1>10. e = "error" => ~ Contains(v, "stop")
  BY <1>5, <1>6, <1>7 DEF Contains
<1> QED BY <1>2, <1>4, <1>5, <1>8, <1>9, <1>10

-----------------------------------------------------------------------------
(* The inductive step *)

\* What the texts say, and that a step keeps it which touches no text.
LEMMA TextKept ==
    ASSUME StreamComplete, WholeCharacters, cancelled \in BOOLEAN,
           UNCHANGED <<stream, text, wire, said, ended>>,
           cancelled' = TRUE \/ cancelled' = cancelled
    PROVE  StreamComplete' /\ WholeCharacters'
BY DEF StreamComplete, WholeCharacters, text

\* The initial state.
LEMMA CompletionInit == Init => CompletionInv
<1> SUFFICES ASSUME Init PROVE CompletionInv
  OBVIOUS
<1>1. Flags
  BY DEF Init, Flags
<1>2. what[1] = "" /\ what[2] = << >>
  <2>1. what = <<"", << >>>>
    BY DEF Init, NoCall
  <2> QED BY <2>1
<1>3. Control
  BY <1>2 DEF Init, Control
<1>8. Numbers
  BY DEF Init, Numbers
<1>4. TextTypes
  <2>1. << >> \in Seq(Bytes) /\ << >> \in Seq(Events)
    BY EmptySeq
  <2>2. Len(<< >>) <= MaxText
    BY BoundsAssumption
  <2> QED BY <1>2, <2>1, <2>2 DEF Init, TextTypes
<1>5. Protocol /\ SinkAlive /\ WireInv
  BY DEF Init, Protocol, SinkAlive, WireInv, InOrder, IsOpen
<1>6. StreamComplete /\ SyncText
  BY DEF Init, StreamComplete, SyncText
<1>7. WholeCharacters
  BY DEF Init, WholeCharacters
<1> QED BY <1>1, <1>3, <1>4, <1>5, <1>6, <1>7, <1>8 DEF CompletionInv

\* A step of the handler or of the peer touches no text: what is left to show is the
\* control part.
LEMMA TextlessStep ==
    ASSUME CompletionInv, Flags', Control', Numbers', Protocol', SinkAlive',
           UNCHANGED <<stream, done, full_response, incomplete_utf8, wire, what, ended, said>>,
           cancelled' = TRUE \/ cancelled' = cancelled,
           worker' = "append" <=> worker = "append",
           stream' /\ handler' \in {"finishing", "returned"} /\ response' = 0 /\ ~ cancelled'
               => done'
    PROVE  CompletionInv'
<1>1. TextTypes'
  BY DEF CompletionInv, TextTypes
<1>2. WireInv'
  BY DEF CompletionInv, WireInv, Flags
<1>3. StreamComplete' /\ WholeCharacters'
  BY TextKept DEF CompletionInv, Flags, text
<1>4. SyncText'
  BY DEF CompletionInv, SyncText, Flags
<1> QED BY <1>1, <1>2, <1>3, <1>4 DEF CompletionInv

\* A request is refused before it has a worker.
LEMMA RefuseStep ==
    ASSUME CompletionInv, \E status \in {400, 503} : Refuse(status)
    PROVE  CompletionInv'
<1>1. /\ UNCHANGED <<stream, done, error_status, full_response, incomplete_utf8, wire,
                     what, ended, said, counted, connected, cancelled, worker>>
      /\ handler = "start" /\ handler' = "returned"
  BY DEF Refuse, shared, flags, text, calls
<1>8. response' \in {400, 503} /\ response' # 0 /\ response' # 200
  BY DEF Refuse
<1>2. Flags'
  BY <1>1 DEF CompletionInv, Flags
<1>3. Control'
  BY <1>1 DEF CompletionInv, Control
<1>4. Numbers'
  BY <1>1, <1>8 DEF CompletionInv, Numbers
<1>5. Protocol' /\ SinkAlive'
  BY <1>1, <1>8 DEF CompletionInv, Protocol, SinkAlive
<1>6. stream' /\ handler' \in {"finishing", "returned"} /\ response' = 0 /\ ~ cancelled' => done'
  BY <1>1, <1>8 DEF CompletionInv, WireInv
<1>7. /\ UNCHANGED <<stream, done, full_response, incomplete_utf8, wire, what, ended, said>>
      /\ cancelled' = TRUE \/ cancelled' = cancelled
      /\ worker' = "append" <=> worker = "append"
  BY <1>1 DEF CompletionInv, Protocol
<1> QED BY <1>2, <1>3, <1>4, <1>5, <1>6, <1>7, TextlessStep

\* The peer goes away; nobody is told.
LEMMA DisconnectStep ==
    ASSUME CompletionInv, Disconnect
    PROVE  CompletionInv'
<1>1. /\ UNCHANGED <<stream, done, error_status, full_response, incomplete_utf8, wire,
                     what, ended, said, counted, handler, cancelled, response, worker>>
      /\ connected' = FALSE
  BY DEF Disconnect, shared, flags, text, calls
<1>2. Flags'
  BY <1>1 DEF CompletionInv, Flags
<1>3. Control'
  BY <1>1 DEF CompletionInv, Control
<1>4. Numbers'
  BY <1>1 DEF CompletionInv, Numbers
<1>5. Protocol' /\ SinkAlive'
  BY <1>1 DEF CompletionInv, Protocol, SinkAlive
<1>6. stream' /\ handler' \in {"finishing", "returned"} /\ response' = 0 /\ ~ cancelled' => done'
  BY <1>1 DEF CompletionInv, WireInv
<1>7. /\ UNCHANGED <<stream, done, full_response, incomplete_utf8, wire, what, ended, said>>
      /\ cancelled' = TRUE \/ cancelled' = cancelled
      /\ worker' = "append" <=> worker = "append"
  BY <1>1 DEF CompletionInv, Protocol
<1> QED BY <1>2, <1>3, <1>4, <1>5, <1>6, <1>7, TextlessStep

\* The worker gets the request; the handler waits.
LEMMA SubmitStep ==
    ASSUME CompletionInv, Submit
    PROVE  CompletionInv'
<1>1. /\ UNCHANGED <<stream, done, error_status, full_response, incomplete_utf8, wire,
                     what, ended, said, counted, connected, cancelled, response>>
      /\ handler = "start" /\ handler' = "waiting" /\ worker' = "poll"
  BY DEF Submit, shared, flags, text, calls
<1>2. Flags'
  BY <1>1 DEF CompletionInv, Flags
<1>3. Control'
  BY <1>1 DEF CompletionInv, Control
<1>4. Numbers'
  BY <1>1 DEF CompletionInv, Numbers
<1>5. Protocol' /\ SinkAlive'
  BY <1>1 DEF CompletionInv, Protocol, SinkAlive
<1>6. stream' /\ handler' \in {"finishing", "returned"} /\ response' = 0 /\ ~ cancelled' => done'
  BY <1>1 DEF CompletionInv, WireInv
<1>7. /\ UNCHANGED <<stream, done, full_response, incomplete_utf8, wire, what, ended, said>>
      /\ cancelled' = TRUE \/ cancelled' = cancelled
      /\ worker' = "append" <=> worker = "append"
  BY <1>1 DEF CompletionInv, Protocol
<1> QED BY <1>2, <1>3, <1>4, <1>5, <1>6, <1>7, TextlessStep

\* The handler finds its peer gone and cancels before it leaves.
LEMMA KeepAliveLostStep ==
    ASSUME CompletionInv, KeepAliveLost
    PROVE  CompletionInv'
<1>1. /\ UNCHANGED <<stream, done, error_status, full_response, incomplete_utf8, wire,
                     what, ended, said, counted, connected, response, worker>>
      /\ stream /\ handler = "waiting" /\ handler' = "returned" /\ cancelled' = TRUE
  BY DEF KeepAliveLost, WaitExpires, Lost, shared, flags, text, calls
<1>2. Flags'
  BY <1>1 DEF CompletionInv, Flags
<1>3. Control'
  BY <1>1 DEF CompletionInv, Control
<1>4. Numbers'
  BY <1>1 DEF CompletionInv, Numbers
<1>5. Protocol' /\ SinkAlive'
  BY <1>1 DEF CompletionInv, Protocol, SinkAlive
<1>6. stream' /\ handler' \in {"finishing", "returned"} /\ response' = 0 /\ ~ cancelled' => done'
  BY <1>1 DEF CompletionInv, WireInv
<1>7. /\ UNCHANGED <<stream, done, full_response, incomplete_utf8, wire, what, ended, said>>
      /\ cancelled' = TRUE \/ cancelled' = cancelled
      /\ worker' = "append" <=> worker = "append"
  BY <1>1 DEF CompletionInv, Protocol
<1> QED BY <1>2, <1>3, <1>4, <1>5, <1>6, <1>7, TextlessStep

\* A stream that is done lets its handler go: the worker has ended.
LEMMA StreamWakeStep ==
    ASSUME CompletionInv, StreamWake
    PROVE  CompletionInv'
<1>1. /\ UNCHANGED <<stream, done, error_status, full_response, incomplete_utf8, wire,
                     what, ended, said, counted, connected, cancelled, response, worker>>
      /\ stream /\ handler = "waiting" /\ done
      /\ handler' = IF cancelled THEN "returned" ELSE "finishing"
  BY DEF StreamWake, shared, flags, text, calls
<1>2. Flags'
  BY <1>1 DEF CompletionInv, Flags
<1>3. Control'
  BY <1>1 DEF CompletionInv, Control
<1>4. Numbers'
  BY <1>1 DEF CompletionInv, Numbers
<1>5. Protocol' /\ SinkAlive'
  BY <1>1 DEF CompletionInv, Protocol, SinkAlive
<1>6. stream' /\ handler' \in {"finishing", "returned"} /\ response' = 0 /\ ~ cancelled' => done'
  BY <1>1 DEF CompletionInv, WireInv
<1>7. /\ UNCHANGED <<stream, done, full_response, incomplete_utf8, wire, what, ended, said>>
      /\ cancelled' = TRUE \/ cancelled' = cancelled
      /\ worker' = "append" <=> worker = "append"
  BY <1>1 DEF CompletionInv, Protocol
<1> QED BY <1>2, <1>3, <1>4, <1>5, <1>6, <1>7, TextlessStep

\* A synchronous handler cancels before it answers 504.
LEMMA TimeoutStep ==
    ASSUME CompletionInv, Timeout
    PROVE  CompletionInv'
<1>1. /\ UNCHANGED <<stream, done, error_status, full_response, incomplete_utf8, wire,
                     what, ended, said, counted, connected, worker>>
      /\ ~ stream /\ handler = "waiting" /\ ~ done
      /\ handler' = "finishing" /\ cancelled' = TRUE /\ response' = 504
  BY DEF Timeout, WaitExpires, shared, flags, text, calls
<1>2. Flags'
  BY <1>1 DEF CompletionInv, Flags
<1>3. Control'
  BY <1>1 DEF CompletionInv, Control
<1>4. Numbers'
  BY <1>1 DEF CompletionInv, Numbers
<1>5. Protocol' /\ SinkAlive'
  BY <1>1 DEF CompletionInv, Protocol, SinkAlive
<1>6. stream' /\ handler' \in {"finishing", "returned"} /\ response' = 0 /\ ~ cancelled' => done'
  BY <1>1 DEF CompletionInv, WireInv
<1>7. /\ UNCHANGED <<stream, done, full_response, incomplete_utf8, wire, what, ended, said>>
      /\ cancelled' = TRUE \/ cancelled' = cancelled
      /\ worker' = "append" <=> worker = "append"
  BY <1>1 DEF CompletionInv, Protocol
<1> QED BY <1>2, <1>3, <1>4, <1>5, <1>6, <1>7, TextlessStep

\* A synchronous handler answers when done is set: the worker has ended, and no callback
\* is on its way.
LEMMA SyncWakeStep ==
    ASSUME CompletionInv, SyncWake
    PROVE  CompletionInv'
<1>1. /\ UNCHANGED <<stream, done, error_status, full_response, incomplete_utf8, wire,
                     what, ended, said, counted, connected, cancelled, worker>>
      /\ ~ stream /\ handler = "waiting" /\ done /\ handler' = "finishing"
      /\ response' = IF error_status # 0 THEN error_status ELSE 200
  BY DEF SyncWake, shared, flags, text, calls
<1>2. Flags'
  BY <1>1 DEF CompletionInv, Flags
<1>3. Control'
  BY <1>1 DEF CompletionInv, Control
<1>4. Numbers'
  BY <1>1 DEF CompletionInv, Numbers
<1>5. Protocol' /\ SinkAlive'
  BY <1>1 DEF CompletionInv, Protocol, SinkAlive
<1>6. stream' /\ handler' \in {"finishing", "returned"} /\ response' = 0 /\ ~ cancelled' => done'
  BY <1>1 DEF CompletionInv, WireInv
<1>7. /\ UNCHANGED <<stream, done, full_response, incomplete_utf8, wire, what, ended, said>>
      /\ cancelled' = TRUE \/ cancelled' = cancelled
      /\ worker' = "append" <=> worker = "append"
  BY <1>1 DEF CompletionInv, Protocol
<1> QED BY <1>2, <1>3, <1>4, <1>5, <1>6, <1>7, TextlessStep

\* The handler returns.
LEMMA ReturnStep ==
    ASSUME CompletionInv, Return
    PROVE  CompletionInv'
<1>1. /\ UNCHANGED <<stream, done, error_status, full_response, incomplete_utf8, wire,
                     what, ended, said, counted, connected, cancelled, response, worker>>
      /\ handler = "finishing" /\ handler' = "returned"
  BY DEF Return, shared, flags, text, calls
<1>2. Flags'
  BY <1>1 DEF CompletionInv, Flags
<1>3. Control'
  BY <1>1 DEF CompletionInv, Control
<1>4. Numbers'
  BY <1>1 DEF CompletionInv, Numbers
<1>5. Protocol' /\ SinkAlive'
  BY <1>1 DEF CompletionInv, Protocol, SinkAlive
<1>6. stream' /\ handler' \in {"finishing", "returned"} /\ response' = 0 /\ ~ cancelled' => done'
  BY <1>1 DEF CompletionInv, WireInv
<1>7. /\ UNCHANGED <<stream, done, full_response, incomplete_utf8, wire, what, ended, said>>
      /\ cancelled' = TRUE \/ cancelled' = cancelled
      /\ worker' = "append" <=> worker = "append"
  BY <1>1 DEF CompletionInv, Protocol
<1> QED BY <1>2, <1>3, <1>4, <1>5, <1>6, <1>7, TextlessStep


\* A keep-alive event is written while done is not set: the stream is open before and after.
LEMMA KeepAliveStep ==
    ASSUME CompletionInv, KeepAlive
    PROVE  CompletionInv'
<1>1. /\ UNCHANGED <<stream, handler, connected, cancelled, done, error_status, full_response,
                     incomplete_utf8, response, worker, what, ended, said, counted>>
      /\ wire' = Append(wire, "keepalive") /\ ~ done /\ stream /\ handler = "waiting"
  BY DEF KeepAlive, WaitExpires, http, flags, text, calls
<1>2. wire' \in Seq(Events) /\ IsOpen(wire') /\ InOrder(wire') /\ ~ Contains(wire', "stop")
  <2>1. wire \in Seq(Events) /\ IsOpen(wire)
    BY <1>1 DEF CompletionInv, WireInv, TextTypes
  <2>2. "keepalive" \in {"keepalive", "chunk"}
    OBVIOUS
  <2> QED BY <1>1, <2>1, <2>2, StaysOpen
<1>3. Flags' /\ Control' /\ Numbers' /\ TextTypes'
  <2>1. Flags'
    BY <1>1 DEF CompletionInv, Flags
  <2>2. Control'
    BY <1>1 DEF CompletionInv, Control
  <2>3. Numbers'
    BY <1>1 DEF CompletionInv, Numbers
  <2>4. TextTypes'
    BY <1>1, <1>2 DEF CompletionInv, TextTypes
  <2> QED BY <2>1, <2>2, <2>3, <2>4
<1>4. Protocol' /\ SinkAlive'
  BY <1>1 DEF CompletionInv, Protocol, SinkAlive
<1>5. WireInv'
  BY <1>1, <1>2 DEF CompletionInv, WireInv
<1>6. StreamComplete' /\ SyncText'
  BY <1>1, <1>2 DEF CompletionInv, StreamComplete, SyncText
<1>7. WholeCharacters'
  BY <1>1 DEF CompletionInv, WholeCharacters
<1> QED BY <1>3, <1>4, <1>5, <1>6, <1>7 DEF CompletionInv

\* The polls of the worker change nothing but what it does next.
LEMMA PollStep ==
    ASSUME CompletionInv, Poll \/ Peek \/ Again
    PROVE  CompletionInv'
<1>1. UNCHANGED <<stream, handler, connected, cancelled, done, error_status, full_response,
                  incomplete_utf8, wire, response, what, ended, said>>
  BY DEF Poll, Peek, Again, http, shared, flags, text
<1>2. /\ worker \in {"poll", "peek", "act"}
      /\ worker' \in {"poll", "peek", "act", "released"}
      /\ worker' = "act" => ~ ended
      /\ stream => worker' # "peek"
  <2>1. CASE Poll
    BY <2>1 DEF Poll, Release
  <2>2. CASE Peek
    BY <2>2 DEF Peek, Release
  <2>3. CASE Again
    BY <2>3 DEF Again, CompletionInv, Protocol
  <2> QED BY <2>1, <2>2, <2>3
<1>3. counted' = counted \/ (worker' = "released" /\ counted' = counted + 1)
  BY DEF Poll, Peek, Again, Release
<1>4. counted = 0
  BY <1>2 DEF CompletionInv, Protocol
<1>5. Flags' /\ Control' /\ Numbers' /\ TextTypes'
  <2>1. Flags'
    BY <1>1 DEF CompletionInv, Flags
  <2>2. Control'
    BY <1>1, <1>2 DEF CompletionInv, Control
  <2>3. Numbers'
    BY <1>1, <1>3, <1>4 DEF CompletionInv, Numbers
  <2>4. TextTypes'
    BY <1>1 DEF CompletionInv, TextTypes
  <2> QED BY <2>1, <2>2, <2>3, <2>4
<1>6. Protocol' /\ SinkAlive'
  <2>1. worker' # "released" => counted' = 0
    BY <1>3, <1>4
  <2> QED BY <1>1, <1>2, <2>1 DEF CompletionInv, Protocol, SinkAlive
<1>7. WireInv'
  BY <1>1 DEF CompletionInv, WireInv
<1>8. StreamComplete' /\ WholeCharacters'
  BY <1>1, TextKept DEF CompletionInv, Flags, text
<1>9. SyncText'
  BY <1>1, <1>2 DEF CompletionInv, SyncText
<1> QED BY <1>5, <1>6, <1>7, <1>8, <1>9 DEF CompletionInv

-----------------------------------------------------------------------------
(* The callbacks *)

\* What a call of on_token or on_error finds and says.
LEMMA SaysFacts ==
    ASSUME CompletionInv, NEW c, NEW piece, Says(c, piece)
    PROVE  /\ worker = "act" /\ ~ ended /\ counted = 0
           /\ ended' = (c # "token") /\ said' = said \o piece
           /\ piece \in Seq(Bytes)
           /\ said' \in Seq(Bytes) /\ Len(said') <= MaxText
           /\ handler # "start"
<1>1. /\ worker = "act" /\ piece \in Texts(c) /\ Len(said) + Len(piece) <= MaxText
      /\ said' = said \o piece /\ ended' = (c # "token")
  BY DEF Says
<1>2. piece \in Seq(Bytes)
  <2>1. << >> \in Seq(Bytes)
    BY EmptySeq
  <2> QED BY <1>1, <2>1, BoundsAssumption DEF Texts
<1>3. said \o piece \in Seq(Bytes) /\ Len(said \o piece) = Len(said) + Len(piece)
  BY <1>2, ConcatProperties DEF CompletionInv, TextTypes
<1>4. ~ ended /\ counted = 0 /\ handler # "start"
  BY <1>1 DEF CompletionInv, Protocol
<1> QED BY <1>1, <1>2, <1>3, <1>4

\* A callback of a stream: what is left to show is about the wire and the texts.
LEMMA StreamCallback ==
    ASSUME CompletionInv, stream, worker = "act", ~ ended, counted = 0, handler # "start",
           UNCHANGED <<stream, handler, response, what, counted, error_status>>,
           worker' \in {"poll", "released"},
           Flags', TextTypes', cancelled => cancelled',
           ~ cancelled' => (done' <=> ended'),
           InOrder(wire'), ~ done' => IsOpen(wire'),
           ~ cancelled' /\ done' => IsClosed(wire'),
           StreamComplete', WholeCharacters'
    PROVE  CompletionInv'
<1>1. Control'
  <2>1. worker' \in {"none", "poll", "peek", "act", "append", "released"}
    OBVIOUS
  <2> QED BY <2>1 DEF CompletionInv, Control
<1>2. Numbers'
  BY DEF CompletionInv, Numbers
<1>3. Protocol'
  BY DEF CompletionInv, Protocol
<1>4. ~ cancelled' => handler' = "waiting"
  BY DEF CompletionInv, SinkAlive
<1>5. SinkAlive'
  BY <1>4 DEF SinkAlive
<1>6. WireInv'
  BY <1>4 DEF WireInv
<1>7. SyncText'
  BY DEF SyncText
<1> QED BY <1>1, <1>2, <1>3, <1>5, <1>6, <1>7 DEF CompletionInv

\* on_token of a stream.
LEMMA StreamTokenStep ==
    ASSUME CompletionInv, NEW c, NEW piece, StreamToken(c, piece)
    PROVE  CompletionInv'
<1>1. /\ stream /\ c # "error" /\ Says(c, piece) /\ worker' \in Continues(c)
      /\ UNCHANGED <<stream, handler, response, what, counted>>
  BY DEF StreamToken
<1>2. /\ worker = "act" /\ ~ ended /\ counted = 0 /\ handler # "start"
      /\ ended' = (c # "token") /\ said' = said \o piece
      /\ piece \in Seq(Bytes) /\ said' \in Seq(Bytes) /\ Len(said') <= MaxText
  BY <1>1, SaysFacts
<1>3. worker' \in {"poll", "released"}
  BY <1>1 DEF Continues
<1>4. ~ cancelled => ~ done /\ IsOpen(wire)
  BY <1>1, <1>2 DEF CompletionInv, Protocol, WireInv
<1>5. /\ connected \in BOOLEAN /\ cancelled \in BOOLEAN /\ done \in BOOLEAN
      /\ stream' \in BOOLEAN /\ ended' \in BOOLEAN
  BY <1>1, <1>2 DEF CompletionInv, Flags
<1>6. /\ full_response \in Seq(Bytes) /\ incomplete_utf8 \in Seq(Bytes) /\ said \in Seq(Bytes)
      /\ what'[2] \in Seq(Bytes) /\ wire \in Seq(Events) /\ InOrder(wire)
  BY <1>1 DEF CompletionInv, TextTypes, WireInv
<1>7. CASE cancelled /\ UNCHANGED <<connected, shared>>
  <2>1. UNCHANGED <<connected, cancelled, done, error_status, full_response, incomplete_utf8,
                    wire>>
    BY <1>7 DEF shared, flags, text
  <2>2. Flags' /\ TextTypes'
    BY <1>2, <1>5, <1>6, <2>1 DEF Flags, TextTypes
  <2>3. ~ done' => IsOpen(wire')
    BY <2>1 DEF CompletionInv, WireInv
  <2>4. StreamComplete' /\ WholeCharacters'
    BY <1>7, <2>1 DEF StreamComplete, WholeCharacters
  <2> QED BY <1>1, <1>2, <1>3, <1>6, <1>7, <2>1, <2>2, <2>3, <2>4, StreamCallback
<1>8. CASE ~ cancelled /\ Breaks /\ UNCHANGED <<error_status, text, wire>>
  <2>1. /\ UNCHANGED <<error_status, full_response, incomplete_utf8, wire>>
        /\ cancelled' = TRUE /\ done' = TRUE /\ connected' = FALSE
    BY <1>8 DEF Breaks, text
  <2>2. Flags' /\ TextTypes'
    BY <1>2, <1>5, <1>6, <2>1 DEF Flags, TextTypes
  <2>3. StreamComplete' /\ WholeCharacters'
    BY <2>1 DEF StreamComplete, WholeCharacters
  <2> QED BY <1>1, <1>2, <1>3, <1>6, <2>1, <2>2, <2>3, StreamCallback
<1>9. PICK content : content = incomplete_utf8 \o piece
  OBVIOUS
<1>10. PICK n : n = Written(c, content)
  OBVIOUS
<1>11. /\ content \in Seq(Bytes) /\ n \in 0 .. Len(content)
       /\ SubSeq(content, 1, n) \in Seq(Bytes)
       /\ SubSeq(content, n + 1, Len(content)) \in Seq(Bytes)
       /\ full_response \o SubSeq(content, 1, n) \in Seq(Bytes)
  <2>1. content \in Seq(Bytes)
    BY <1>2, <1>6, <1>9
  <2>2. n \in 0 .. Len(content)
    BY <1>10, <2>1, PrefixLength DEF Written
  <2>3. SubSeq(content, 1, n) \in Seq(Bytes) /\ SubSeq(content, n + 1, Len(content)) \in Seq(Bytes)
    BY <2>1, <2>2
  <2> QED BY <1>6, <2>1, <2>2, <2>3, ConcatProperties
<1>12. CASE /\ ~ cancelled /\ connected
            /\ full_response' = full_response \o SubSeq(content, 1, n)
            /\ incomplete_utf8' = SubSeq(content, n + 1, Len(content))
            /\ \/ /\ c = "token"
                  /\ wire' = Append(wire, "chunk")
                  /\ UNCHANGED <<cancelled, done, connected>>
               \/ /\ c # "token"
                  /\ wire' = wire \o <<"stop", "DONE">>
                  /\ done' = Answers(c)
                  /\ UNCHANGED <<cancelled, connected>>
               \/ /\ c # "token"
                  /\ wire' = Append(wire, "stop")
                  /\ Breaks
            /\ UNCHANGED error_status
  <2>1. full_response' \in Seq(Bytes) /\ incomplete_utf8' \in Seq(Bytes)
    BY <1>11, <1>12
  <2>2. stream' /\ ~ cancelled' => full_response' \o incomplete_utf8' = said'
    <3>1. full_response \o incomplete_utf8 = said
      BY <1>1, <1>12 DEF CompletionInv, StreamComplete
    <3>2. SubSeq(content, 1, n) \o SubSeq(content, n + 1, Len(content)) = content
      BY <1>11, CutAndJoin
    <3>3. full_response' \o incomplete_utf8'
              = full_response \o (SubSeq(content, 1, n) \o SubSeq(content, n + 1, Len(content)))
      <4>1. PICK f \in Seq(Bytes) : f = full_response
        BY <1>6
      <4>2. PICK s \in Seq(Bytes) : s = SubSeq(content, 1, n)
        BY <1>11, Zenon
      <4>3. PICK t \in Seq(Bytes) : t = SubSeq(content, n + 1, Len(content))
        BY <1>11, Zenon
      <4>4. (f \o s) \o t = f \o (s \o t)
        BY JoinAssociative
      <4> QED BY <1>12, <4>1, <4>2, <4>3, <4>4
    <3>4. full_response \o (incomplete_utf8 \o piece) = (full_response \o incomplete_utf8) \o piece
      <4>1. PICK f \in Seq(Bytes) : f = full_response
        BY <1>6
      <4>2. PICK s \in Seq(Bytes) : s = incomplete_utf8
        BY <1>6
      <4>3. (f \o s) \o piece = f \o (s \o piece)
        BY <1>2, JoinAssociative
      <4> QED BY <4>1, <4>2, <4>3
    <3> QED BY <1>2, <1>9, <3>1, <3>2, <3>3, <3>4
  <2>3. c # "token" => incomplete_utf8' = << >>
    <3> SUFFICES ASSUME c # "token" PROVE incomplete_utf8' = << >>
      OBVIOUS
    <3>1. n = Len(content)
      BY <1>10 DEF Written
    <3>2. SubSeq(content, n + 1, Len(content)) = << >>
      BY <1>11, <3>1, SubSeqEmpty
    <3> QED BY <1>12, <3>2
  <2>4. stream' /\ ~ cancelled' /\ ~ ended' => WholeCharacters'
    <3> SUFFICES ASSUME ~ ended' PROVE WholeCharacters'
      OBVIOUS
    <3>1. n = complete_utf8_prefix_length(incomplete_utf8 \o piece)
      BY <1>2, <1>9, <1>10 DEF Written
    <3>2. Whole(full_response, incomplete_utf8)
      BY <1>1, <1>2, <1>6, <1>12, WholeMeaning DEF CompletionInv, WholeCharacters
    <3>3. Whole(full_response \o SubSeq(content, 1, n), SubSeq(content, n + 1, Len(content)))
      BY <1>2, <1>6, <1>9, <3>1, <3>2, ChunkKeepsWhole
    <3>4. PICK f \in Seq(Bytes) : f = full_response'
      BY <2>1
    <3>5. PICK h \in Seq(Bytes) : h = incomplete_utf8'
      BY <2>1
    <3>6. Whole(f, h)
      BY <1>12, <3>3, <3>4, <3>5
    <3>7. /\ \A i \in DOMAIN f : Fragment(SubSeq(f, i, Len(f))) => h # << >> /\ Head(h) # 0
          /\ h = << >> \/ Fragment(h)
      BY <3>6, WholeMeaning
    <3> QED BY <3>4, <3>5, <3>7 DEF WholeCharacters
  <2>5. WholeCharacters'
    <3>1. CASE stream' /\ ~ cancelled' /\ ~ ended'
      BY <2>4, <3>1
    <3>2. CASE ~ (stream' /\ ~ cancelled' /\ ~ ended')
      BY <3>2 DEF WholeCharacters
    <3> QED BY <3>1, <3>2
  <2>6. CASE c = "token" /\ wire' = Append(wire, "chunk") /\ UNCHANGED <<cancelled, done, connected>>
    <3>1. "chunk" \in {"keepalive", "chunk"}
      OBVIOUS
    <3>2. wire' \in Seq(Events) /\ IsOpen(wire') /\ InOrder(wire') /\ ~ Contains(wire', "stop")
      BY <1>4, <1>6, <1>12, <2>6, <3>1, StaysOpen
    <3>3. Flags' /\ TextTypes'
      BY <1>2, <1>5, <1>6, <2>1, <2>6, <3>2 DEF Flags, TextTypes
    <3>4. StreamComplete'
      BY <2>2, <3>2 DEF StreamComplete
    <3> QED BY <1>1, <1>2, <1>3, <1>4, <1>12, <2>5, <2>6, <3>2, <3>3, <3>4, StreamCallback
  <2>7. CASE /\ c # "token" /\ wire' = wire \o <<"stop", "DONE">>
             /\ done' = Answers(c) /\ UNCHANGED <<cancelled, connected>>
    <3>1. "stop" \in {"stop", "error"}
      OBVIOUS
    <3>2. wire' \in Seq(Events) /\ InOrder(wire') /\ IsClosed(wire')
      BY <1>4, <1>6, <1>12, <2>7, <3>1, Closing
    <3>3. done' = TRUE
      BY <2>7 DEF Answers
    <3>4. Flags' /\ TextTypes'
      BY <1>2, <1>5, <1>6, <2>1, <2>7, <3>2, <3>3 DEF Flags, TextTypes
    <3>5. StreamComplete'
      BY <2>2, <2>3, <2>7 DEF StreamComplete
    <3> QED BY <1>1, <1>2, <1>3, <1>4, <1>12, <2>5, <2>7, <3>2, <3>3, <3>4, <3>5, StreamCallback
  <2>8. CASE c # "token" /\ wire' = Append(wire, "stop") /\ Breaks
    <3>1. cancelled' = TRUE /\ done' = TRUE /\ connected' = FALSE
      BY <2>8 DEF Breaks
    <3>2. wire' \in Seq(Events) /\ InOrder(wire')
      <4>1. "stop" \in Events
        BY DEF Events
      <4> QED BY <1>4, <1>6, <1>12, <2>8, <4>1, Breaking
    <3>3. Flags' /\ TextTypes'
      BY <1>2, <1>5, <1>6, <2>1, <3>1, <3>2 DEF Flags, TextTypes
    <3>4. StreamComplete'
      BY <3>1 DEF StreamComplete
    <3> QED BY <1>1, <1>2, <1>3, <1>12, <2>5, <3>1, <3>2, <3>3, <3>4, StreamCallback
  <2> QED BY <1>12, <2>6, <2>7, <2>8
<1> QED BY <1>7, <1>8, <1>9, <1>10, <1>12 DEF StreamToken

\* on_error of a stream.
LEMMA StreamErrorStep ==
    ASSUME CompletionInv, StreamError
    PROVE  CompletionInv'
<1>1. /\ stream /\ Says("error", << >>) /\ worker' = "released"
      /\ UNCHANGED <<stream, handler, response, what, counted>>
  BY DEF StreamError
<1>2. /\ worker = "act" /\ ~ ended /\ counted = 0 /\ handler # "start"
      /\ ended' = TRUE /\ said' = said \o << >>
      /\ said' \in Seq(Bytes) /\ Len(said') <= MaxText
  <2>1. ("error" # "token") = TRUE
    OBVIOUS
  <2> QED BY <1>1, <2>1, SaysFacts
<1>3. said' = said
  BY <1>2 DEF CompletionInv, TextTypes
<1>4. ~ cancelled => ~ done /\ IsOpen(wire)
  BY <1>1, <1>2 DEF CompletionInv, Protocol, WireInv
<1>5. /\ connected \in BOOLEAN /\ cancelled \in BOOLEAN /\ done \in BOOLEAN
      /\ stream' \in BOOLEAN /\ ended' \in BOOLEAN
  BY <1>1, <1>2 DEF CompletionInv, Flags
<1>6. /\ full_response \in Seq(Bytes) /\ incomplete_utf8 \in Seq(Bytes) /\ said \in Seq(Bytes)
      /\ what'[2] \in Seq(Bytes) /\ wire \in Seq(Events) /\ InOrder(wire)
  BY <1>1 DEF CompletionInv, TextTypes, WireInv
<1>7. WholeCharacters'
  BY <1>2 DEF WholeCharacters
<1>8. CASE cancelled /\ UNCHANGED <<connected, shared>>
  <2>1. UNCHANGED <<connected, cancelled, done, error_status, full_response, incomplete_utf8,
                    wire>>
    BY <1>8 DEF shared, flags, text
  <2>2. Flags' /\ TextTypes'
    BY <1>2, <1>5, <1>6, <2>1 DEF Flags, TextTypes
  <2>3. ~ done' => IsOpen(wire')
    BY <2>1 DEF CompletionInv, WireInv
  <2>4. StreamComplete'
    BY <1>8, <2>1 DEF StreamComplete
  <2> QED BY <1>1, <1>2, <1>6, <1>7, <1>8, <2>1, <2>2, <2>3, <2>4, StreamCallback
<1>9. CASE /\ ~ cancelled /\ Breaks
           /\ wire' \in {wire, Append(wire, "error")}
           /\ UNCHANGED <<error_status, text>>
  <2>1. /\ UNCHANGED <<error_status, full_response, incomplete_utf8>>
        /\ cancelled' = TRUE /\ done' = TRUE /\ connected' = FALSE
    BY <1>9 DEF Breaks, text
  <2>2. wire' \in Seq(Events) /\ InOrder(wire')
    <3>1. "error" \in Events
      BY DEF Events
    <3>2. Append(wire, "error") \in Seq(Events) /\ InOrder(Append(wire, "error"))
      BY <1>4, <1>6, <1>9, <3>1, Breaking
    <3> QED BY <1>6, <1>9, <3>2
  <2>3. Flags' /\ TextTypes'
    BY <1>2, <1>5, <1>6, <2>1, <2>2 DEF Flags, TextTypes
  <2>4. StreamComplete'
    BY <2>1 DEF StreamComplete
  <2> QED BY <1>1, <1>2, <1>7, <2>1, <2>2, <2>3, <2>4, StreamCallback
<1>10. CASE /\ ~ cancelled /\ connected
            /\ wire' = wire \o <<"error", "DONE">>
            /\ done' = TRUE
            /\ UNCHANGED <<cancelled, connected, error_status, text>>
  <2>1. UNCHANGED <<cancelled, connected, error_status, full_response, incomplete_utf8>>
    BY <1>10 DEF text
  <2>2. /\ wire' \in Seq(Events) /\ InOrder(wire') /\ IsClosed(wire')
        /\ ~ Contains(wire', "stop")
    <3>1. "error" \in {"stop", "error"}
      OBVIOUS
    <3> QED BY <1>4, <1>6, <1>10, <3>1, Closing
  <2>3. Flags' /\ TextTypes'
    BY <1>2, <1>5, <1>6, <1>10, <2>1, <2>2 DEF Flags, TextTypes
  <2>4. StreamComplete'
    BY <1>1, <1>3, <1>10, <2>1, <2>2 DEF CompletionInv, StreamComplete
  <2> QED BY <1>1, <1>2, <1>7, <1>10, <2>1, <2>2, <2>3, <2>4, StreamCallback
<1> QED BY <1>8, <1>9, <1>10 DEF StreamError

\* A synchronous callback is called: it gives up, or is on its way to the lock.
LEMMA SyncCallStep ==
    ASSUME CompletionInv, NEW c \in Callbacks, NEW piece, SyncCall(c, piece)
    PROVE  CompletionInv'
<1>1. /\ ~ stream /\ Says(c, piece)
      /\ UNCHANGED <<stream, handler, connected, cancelled, done, error_status, full_response,
                     incomplete_utf8, wire, response, counted>>
      /\ \/ cancelled /\ worker' \in Continues(c) /\ UNCHANGED what
         \/ ~ cancelled /\ worker' = "append" /\ what' = <<c, piece>>
  BY DEF SyncCall, http, shared, flags, text
<1>2. /\ worker = "act" /\ ~ ended /\ counted = 0 /\ handler # "start"
      /\ ended' = (c # "token") /\ said' = said \o piece
      /\ piece \in Seq(Bytes) /\ said' \in Seq(Bytes) /\ Len(said') <= MaxText
  BY <1>1, SaysFacts
<1>3. ~ done
  BY <1>1, <1>2 DEF CompletionInv, Protocol
<1>4. \/ cancelled /\ worker' \in {"poll", "released"} /\ UNCHANGED what
      \/ ~ cancelled /\ worker' = "append" /\ what'[1] = c /\ what'[2] = piece
  <2>1. CASE cancelled /\ worker' \in Continues(c) /\ UNCHANGED what
    BY <2>1 DEF Continues
  <2>2. CASE ~ cancelled /\ worker' = "append" /\ what' = <<c, piece>>
    BY <2>2
  <2> QED BY <1>1, <2>1, <2>2
<1>5. Flags'
  BY <1>1, <1>2 DEF CompletionInv, Flags
<1>6. Control'
  <2>1. c \in {"token", "final", "stop", "error"}
    BY DEF Callbacks
  <2>2. CASE cancelled /\ worker' \in {"poll", "released"} /\ UNCHANGED what
    BY <1>1, <2>2 DEF CompletionInv, Control
  <2>3. CASE worker' = "append" /\ what'[1] = c
    BY <1>1, <2>1, <2>3 DEF CompletionInv, Control
  <2> QED BY <1>4, <2>2, <2>3
<1>7. Numbers'
  BY <1>1 DEF CompletionInv, Numbers
<1>8. TextTypes'
  <2>1. what'[2] \in Seq(Bytes)
    BY <1>2, <1>4 DEF CompletionInv, TextTypes
  <2> QED BY <1>1, <1>2, <2>1 DEF CompletionInv, TextTypes
<1>9. Protocol' /\ SinkAlive'
  BY <1>1, <1>2, <1>3, <1>4 DEF CompletionInv, Protocol, SinkAlive
<1>10. WireInv'
  BY <1>1 DEF CompletionInv, WireInv
<1>11. StreamComplete' /\ WholeCharacters'
  BY <1>1 DEF StreamComplete, WholeCharacters
<1>12. SyncText'
  <2>1. ~ cancelled => said = full_response
    BY <1>1, <1>2 DEF CompletionInv, SyncText
  <2> QED BY <1>1, <1>2, <1>4, <2>1 DEF SyncText
<1> QED BY <1>5, <1>6, <1>7, <1>8, <1>9, <1>10, <1>11, <1>12 DEF CompletionInv

\* A synchronous callback has the lock.
LEMMA SyncAppendStep ==
    ASSUME CompletionInv, \E status \in {0, 400, 500, 503} : SyncAppend(status)
    PROVE  CompletionInv'
<1>1. /\ worker = "append"
      /\ UNCHANGED <<stream, handler, connected, cancelled, incomplete_utf8, wire, response, ended,
                     said, counted>>
      /\ full_response' = full_response \o what[2]
      /\ done' = (done \/ Answers(what[1]))
      /\ worker' \in Continues(what[1])
      /\ what' = NoCall
  BY DEF SyncAppend, http
<1>2. error_status' \in {0, 400, 500, 503}
  BY DEF SyncAppend
<1>3. /\ ~ stream /\ ~ done /\ (ended <=> what[1] # "token")
      /\ handler # "start" /\ counted = 0
  BY <1>1 DEF CompletionInv, Protocol, Flags
<1>4. worker' \in {"poll", "released"} /\ (done' <=> ended)
  BY <1>1, <1>3 DEF Continues, Answers
<1>5. done' \in BOOLEAN /\ what'[1] = "" /\ what'[2] = << >>
  BY <1>1 DEF NoCall
<1>6. Flags'
  BY <1>1, <1>5 DEF CompletionInv, Flags
<1>7. Control'
  BY <1>1, <1>4, <1>5 DEF CompletionInv, Control
<1>8. Numbers'
  BY <1>1, <1>2 DEF CompletionInv, Numbers
<1>9. TextTypes'
  <2>1. full_response \in Seq(Bytes) /\ what[2] \in Seq(Bytes)
    BY DEF CompletionInv, TextTypes
  <2>2. full_response' \in Seq(Bytes) /\ what'[2] \in Seq(Bytes)
    <3>1. full_response \o what[2] \in Seq(Bytes)
      BY <2>1, ConcatProperties
    <3>2. << >> \in Seq(Bytes)
      BY EmptySeq
    <3> QED BY <1>1, <1>5, <3>1, <3>2
  <2> QED BY <1>1, <2>2 DEF CompletionInv, TextTypes
<1>10. Protocol' /\ SinkAlive'
  BY <1>1, <1>3, <1>4 DEF CompletionInv, Protocol, SinkAlive
<1>11. WireInv'
  BY <1>1, <1>3 DEF CompletionInv, WireInv
<1>12. StreamComplete' /\ WholeCharacters'
  BY <1>1, <1>3 DEF StreamComplete, WholeCharacters
<1>13. SyncText'
  BY <1>1, <1>3, <1>4 DEF CompletionInv, SyncText
<1> QED BY <1>6, <1>7, <1>8, <1>9, <1>10, <1>11, <1>12, <1>13 DEF CompletionInv

\* Every step keeps the invariant.
LEMMA CompletionStep == CompletionInv /\ [Next]_vars => CompletionInv'
<1> SUFFICES ASSUME CompletionInv, [Next]_vars PROVE CompletionInv'
  OBVIOUS
<1>1. CASE \E status \in {400, 503} : Refuse(status)
  BY <1>1, RefuseStep
<1>2. CASE Disconnect \/ KeepAlive
  BY <1>2, DisconnectStep, KeepAliveStep
<1>3. CASE HandlerStep
  BY <1>3, SubmitStep, KeepAliveLostStep, StreamWakeStep, TimeoutStep, SyncWakeStep, ReturnStep
     DEF HandlerStep
<1>4. CASE WorkerStep
  BY <1>4, PollStep, StreamTokenStep, SyncCallStep, StreamErrorStep, SyncAppendStep
     DEF WorkerStep
<1>5. CASE UNCHANGED vars
  <2>1. UNCHANGED <<stream, handler, connected, cancelled, done, error_status, full_response,
                    incomplete_utf8, wire, response, worker, what, ended, said, counted>>
    BY <1>5 DEF vars, http, shared, flags, text, calls
  <2>2. Flags'
    BY <2>1 DEF CompletionInv, Flags
  <2>3. Control'
    BY <2>1 DEF CompletionInv, Control
  <2>4. Numbers'
    BY <2>1 DEF CompletionInv, Numbers
  <2>5. Protocol' /\ SinkAlive'
    BY <2>1 DEF CompletionInv, Protocol, SinkAlive
  <2>6. stream' /\ handler' \in {"finishing", "returned"} /\ response' = 0 /\ ~ cancelled' => done'
    BY <2>1 DEF CompletionInv, WireInv
  <2> QED BY <2>1, <2>2, <2>3, <2>4, <2>5, <2>6, TextlessStep
<1> QED BY <1>1, <1>2, <1>3, <1>4, <1>5 DEF Next

-----------------------------------------------------------------------------
(* Results *)

\* The inductive invariant holds in every reachable state, for all texts of tokens.
THEOREM CompletionInvariance == Spec => []CompletionInv
BY CompletionInit, CompletionStep, PTL DEF Spec

\* Every variable of a completion keeps its type.
THEOREM CompletionTypeCorrect == Spec => []TypeOK
<1>1. CompletionInv => TypeOK
  <2> SUFFICES ASSUME CompletionInv PROVE TypeOK
    OBVIOUS
  <2>1. {stream, connected, cancelled, done, ended} \subseteq BOOLEAN
    BY DEF CompletionInv, Flags
  <2>2. {full_response, incomplete_utf8, said, what[2]} \subseteq Seq(Bytes)
    BY DEF CompletionInv, TextTypes
  <2>3. what[1] \in Callbacks \cup {""}
    BY DEF CompletionInv, Control, Callbacks
  <2> QED BY <2>1, <2>2, <2>3, Zenon
          DEF CompletionInv, Control, Numbers, TextTypes, TypeOK, Events
<1> QED BY <1>1, CompletionInvariance, PTL

\* http_server.cpp "Mark cancelled BEFORE returning": no handler leaves while the worker may
\* still write to its sink.
THEOREM SinkStaysAlive == Spec => []SinkAlive
<1>1. CompletionInv => SinkAlive
  BY DEF CompletionInv
<1> QED BY <1>1, CompletionInvariance, PTL

\* README on streaming: the events of a stream are in order and, unless it was cancelled, the
\* last one is [DONE].
THEOREM StreamsWellFormed == Spec => []StreamWellFormed
<1>1. CompletionInv => StreamWellFormed
  <2> SUFFICES ASSUME CompletionInv PROVE StreamWellFormed
    OBVIOUS
  <2>1. DOMAIN wire = 1 .. Len(wire)
    BY LenProperties DEF CompletionInv, TextTypes
  <2> QED BY <2>1 DEF CompletionInv, WireInv, InOrder, IsClosed, StreamWellFormed
<1> QED BY <1>1, CompletionInvariance, PTL

\* http_server.cpp on incomplete_utf8: no text is lost, repeated or reordered, and nothing is
\* held back behind a stop.
THEOREM StreamsComplete == Spec => []StreamComplete
<1>1. CompletionInv => StreamComplete
  BY DEF CompletionInv
<1> QED BY <1>1, CompletionInvariance, PTL

\* README "a multi-byte code point is not split across SSE content chunks": for every way to
\* cut every text into tokens.
THEOREM CharactersStayWhole == Spec => []WholeCharacters
<1>1. CompletionInv => WholeCharacters
  BY DEF CompletionInv
<1> QED BY <1>1, CompletionInvariance, PTL

\* handle_completion: a synchronous answer with status 200 carries the whole text.
THEOREM SyncAnswersComplete == Spec => []SyncComplete
<1>1. CompletionInv => SyncComplete
  BY DEF CompletionInv, Protocol, SyncText, SyncComplete
<1> QED BY <1>1, CompletionInvariance, PTL
=============================================================================
