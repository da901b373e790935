------------------------------ MODULE ChunkSpike ------------------------------
(***************************************************************************)
(* The feasibility tool tools/chunk_spike.cpp: prompts are put together    *)
(* from the cached KV of document chunks, moved to their final positions,  *)
(* and from chunk tokens that are computed anew.                           *)
(*                                                                         *)
(* One thread.  llama.cpp's unified KV memory is a set of numbered cells,  *)
(* each with a position, a token and the sequences it belongs to: seq_cp   *)
(* adds a sequence to cells, so that seq_add, which changes positions,     *)
(* moves them for every sequence they belong to.  What a cell holds is     *)
(* the field `of`: the tokens up to its own when every cell it attended to *)
(* was computed for just these tokens, and << >> when it saw a mixture.    *)
(*                                                                         *)
(* Scores and texts are left out.  Logits are what the target holds when   *)
(* they are read, so that the divergence of two of them is zero when they  *)
(* are equal.                                                              *)
(***************************************************************************)
EXTENDS Integers, Sequences, FiniteSets, FiniteSetsExt, SequencesExt

CONSTANTS
    PrefixLen, SuffixLen,   \* tokens of kPrefix and of the question
    Items,                  \* [size, gold, bm25] of the chunks of each item
    Variants,               \* parsed forms of --variants: a base and its parts
    MaxAnswer,              \* bound: tokens of an answer (32 in the code)
    ProbeShift              \* by how much the independence probe moves a chunk (7)

ASSUME ItemsAssumption ==
    /\ PrefixLen \in Nat \ {0} /\ SuffixLen \in Nat \ {0}
    /\ \A item \in Items :
           /\ item.size \in Seq(Nat \ {0}) /\ item.size # << >>
           /\ Len(item.gold) = Len(item.size) /\ Len(item.bm25) = Len(item.size)
    /\ MaxAnswer \in Nat /\ ProbeShift \in Nat

\* What parse_variant accepts; the loop of main leaves out "full", which has been run.
Part == {<<"rALL">>, <<"gold">>} \cup ({"r", "top"} \X Nat)

ASSUME VariantsAssumption ==
    \A v \in Variants : v \in [base : {"naive", "prefixed"}, parts : Seq(Part)]

kPrefixSeq == 0
kTargetSeq == 1
kTemporarySeq == 2
kScratchSeq == 3

Tokens(kind, n) == [i \in 1 .. n |-> <<kind, i>>]
prefix == Tokens("prefix", PrefixLen)
suffix == Tokens("suffix", SuffixLen)

VARIABLES
    pc,         \* load, item, precompute, probe, full, variant, chunk, suffix, answer, failed
    cells,      \* the KV memory: a function from cell numbers to cells
    item,       \* the item at hand
    cache,      \* ItemCache: the blobs naive and prefixed of its chunks
    variant,    \* the variant at hand
    index, position, computed, pending, pending_position, decode_calls,
    answer,     \* generated.size()
    logits,     \* result.logits of the run
    full_logits \* those of the full run, << >> before it

run  == <<index, position, computed, pending, pending_position, decode_calls, answer>>
vars == <<pc, cells, item, cache, variant, run, logits, full_logits>>

chunk(i) == Tokens(i, item.size[i])
chunks == DOMAIN item.size

-----------------------------------------------------------------------------
(* llama.cpp's memory *)

\* The cells of a sequence by position.
Of(c, s) == {i \in DOMAIN c : s \in c[i].seqs}

Row(c, s) ==
    LET ids == Of(c, s)
        rank(i) == Cardinality({j \in ids : \/ c[j].pos < c[i].pos
                                            \/ c[j].pos = c[i].pos /\ j < i})
    IN  [n \in 1 .. Cardinality(ids) |-> c[CHOOSE i \in ids : rank(i) = n - 1]]

Toks(row) == [n \in DOMAIN row |-> row[n].tok]

\* The cells of a sequence were all computed for the tokens they stand for.
Pure(row) == \A n \in DOMAIN row : row[n].of = SubSeq(Toks(row), 1, n)

AddCells(c, new) ==
    LET top == Max(DOMAIN c \cup {0})
    IN  [i \in DOMAIN c \cup (top + 1 .. top + Len(new)) |->
            IF i \in DOMAIN c THEN c[i] ELSE new[i - top]]

seq_rm(c, s, first, last) ==
    LET hit == {i \in Of(c, s) : c[i].pos \in first .. last}
        out(i) == IF i \in hit THEN [c[i] EXCEPT !.seqs = @ \ {s}] ELSE c[i]
    IN  [i \in {j \in DOMAIN c : out(j).seqs # {}} |-> out(i)]

seq_cp(c, from, to) ==
    [i \in DOMAIN c |-> IF i \in Of(c, from) THEN [c[i] EXCEPT !.seqs = @ \cup {to}]
                                             ELSE c[i]]

seq_add(c, s, first, delta) ==
    [i \in DOMAIN c |-> IF i \in Of(c, s) /\ c[i].pos >= first
                        THEN [c[i] EXCEPT !.pos = @ + delta] ELSE c[i]]

\* llama_decode takes a batch only when it goes on where the sequence ends.
Accepts(c, s, pos) == Of(c, s) = {} \/ pos = Max({c[i].pos : i \in Of(c, s)}) + 1

decode(c, tokens, s, pos) ==
    LET row == Row(c, s)
        ctx == Toks(row)
    IN  AddCells(c, [n \in DOMAIN tokens |->
            [pos |-> pos + n - 1, tok |-> tokens[n], seqs |-> {s},
             of |-> IF Pure(row) THEN ctx \o SubSeq(tokens, 1, n) ELSE << >>]])

-----------------------------------------------------------------------------
(* Helpers of the tool *)

remove_sequence(c, s) == seq_rm(c, s, 0, Max({0} \cup {c[i].pos : i \in DOMAIN c}))

snapshot(c, s, count) ==
    [data |-> Row(c, s), token_count |-> count]

\* The restored state gets cells of its own.
restore(c, blob, s) ==
    AddCells(remove_sequence(c, s),
             [n \in DOMAIN blob.data |-> [blob.data[n] EXCEPT !.seqs = {s}]])

\* How far the tail of a blob is moved: from the position where it starts.
Shift(final, recomputed, start) == final + recomputed - start

\* Mutant of WithoutHead: the cached head stays beside the recomputed one.
WithHead(c, start, recomputed) == c

\* The imported chunk without the tokens that were computed anew.
WithoutHead(c, start, recomputed) == seq_rm(c, kTemporarySeq, start, start + recomputed - 1)

\* The temporary sequence of attach_tail loses recomputed head and prefix; its tail is moved
\* and given to the target.
Moved(c, blob, has_prefix, recomputed, final) ==
    LET start == IF has_prefix THEN PrefixLen ELSE 0
        tail  == start + recomputed
        c1 == WithoutHead(restore(c, blob, kTemporarySeq), start, recomputed)
        c2 == IF has_prefix THEN seq_rm(c1, kTemporarySeq, 0, PrefixLen - 1) ELSE c1
    IN  IF recomputed < blob.token_count
        THEN seq_cp(seq_add(c2, kTemporarySeq, tail, Shift(final, recomputed, tail)),
                    kTemporarySeq, kTargetSeq)
        ELSE c2

\* Mutant of attach_tail: the temporary sequence keeps the cells.
AttachLeaky(c, blob, has_prefix, recomputed, final) ==
    Moved(c, blob, has_prefix, recomputed, final)

attach_tail(c, blob, has_prefix, recomputed, final) ==
    remove_sequence(Moved(c, blob, has_prefix, recomputed, final), kTemporarySeq)

\* parse_variant: of several parts of a kind the last one counts.
Asked(v, kind) == \E i \in DOMAIN v.parts : v.parts[i][1] = kind

Amount(v, kind) ==
    LET given == {i \in DOMAIN v.parts : v.parts[i][1] = kind}
    IN  IF given = {} THEN 0 ELSE v.parts[Max(given)][2]

parse_variant(v) ==
    [full |-> v.base = "full", prefixed |-> v.base = "prefixed",
     head |-> Amount(v, "r"), all |-> Asked(v, "rALL"),
     top_k |-> Amount(v, "top"), gold |-> Asked(v, "gold")]

spec == parse_variant(variant)

\* selected_chunks: the gold ones and the first top_k of a stable sort by falling score.
selected(i) ==
    \/ spec.gold /\ item.gold[i]
    \/ Cardinality({j \in chunks : \/ item.bm25[j] > item.bm25[i]
                                   \/ item.bm25[j] = item.bm25[i] /\ j < i}) < spec.top_k

\* The tokens at the head of a chunk that the loop of run_variant computes anew.
recomputed(i) ==
    IF spec.full \/ spec.all \/ selected(i) THEN item.size[i]
    ELSE IF i # 1 THEN Min({spec.head, item.size[i]})
    ELSE 0

-----------------------------------------------------------------------------
(* main *)

Full   == [base |-> "full", parts |-> << >>]
Sanity == [base |-> "prefixed", parts |-> <<<<"rALL">>>>]

Init ==
    /\ pc = "load" /\ cells = << >> /\ item \in Items
    /\ cache = [naive |-> << >>, prefixed |-> << >>]
    /\ variant = Full /\ index = 1 /\ position = 0 /\ computed = 0
    /\ pending = << >> /\ pending_position = 0 /\ decode_calls = 0 /\ answer = 0
    /\ logits = << >> /\ full_logits = << >>

\* fail throws: main gives up.
Step(accepted, next) == pc' = IF accepted THEN next ELSE "failed"

Load ==
    /\ pc = "load"
    /\ cells' = decode(cells, prefix, kPrefixSeq, 0)
    /\ Step(Accepts(cells, kPrefixSeq, 0), "item")
    /\ UNCHANGED <<item, cache, variant, run, logits, full_logits>>

NextItem ==
    /\ pc = "item"
    /\ item' \in Items
    /\ cache' = [naive |-> << >>, prefixed |-> << >>]
    /\ index' = 1 /\ full_logits' = << >>
    /\ pc' = "precompute"
    /\ UNCHANGED <<cells, variant, position, computed, pending, pending_position,
                   decode_calls, answer, logits>>

\* One iteration of precompute_chunks.
Precompute ==
    /\ pc = "precompute"
    /\ LET size == item.size[index]
           c1 == decode(cells, chunk(index), kScratchSeq, 0)
           c2 == seq_cp(remove_sequence(c1, kScratchSeq), kPrefixSeq, kScratchSeq)
           c3 == decode(c2, chunk(index), kScratchSeq, PrefixLen)
       IN  /\ cache' = [naive |-> Append(cache.naive, snapshot(c1, kScratchSeq, size)),
                        prefixed |-> Append(cache.prefixed, snapshot(c3, kScratchSeq, size))]
           /\ cells' = remove_sequence(c3, kScratchSeq)
           /\ Step(/\ Accepts(cells, kScratchSeq, 0)
                   /\ Accepts(c2, kScratchSeq, PrefixLen),
                   IF index = Len(item.size) THEN "probe" ELSE "precompute")
    /\ index' = index + 1
    /\ UNCHANGED <<item, variant, position, computed, pending, pending_position,
                   decode_calls, answer, logits, full_logits>>

\* probe_blob, a shifted attachment, and probe_blob again.
Probe ==
    /\ pc = "probe"
    /\ LET blob == cache.prefixed[1]
           end  == PrefixLen + item.size[1]
           c1 == restore(cells, blob, kTemporarySeq)
           c2 == remove_sequence(decode(c1, <<Head(suffix)>>, kTemporarySeq, end),
                                 kTemporarySeq)
           c3 == attach_tail(seq_cp(c2, kPrefixSeq, kTargetSeq), blob, TRUE, 0,
                             PrefixLen + ProbeShift)
           c4 == restore(remove_sequence(c3, kTargetSeq), blob, kTemporarySeq)
       IN  /\ cells' = remove_sequence(decode(c4, <<Head(suffix)>>, kTemporarySeq, end),
                                       kTemporarySeq)
           /\ Step(Accepts(c1, kTemporarySeq, end) /\ Accepts(c4, kTemporarySeq, end),
                   "full")
    /\ UNCHANGED <<item, cache, variant, run, logits, full_logits>>

-----------------------------------------------------------------------------
(* run_variant *)

\* "full" comes first; then the variants asked for.
Begin(v) ==
    /\ \/ pc = "full" /\ v = Full
       \/ pc = "variant" /\ v \in Variants
    /\ variant' = v
    /\ cells' = seq_cp(remove_sequence(cells, kTargetSeq), kPrefixSeq, kTargetSeq)
    /\ index' = 1 /\ position' = PrefixLen /\ computed' = SuffixLen
    /\ pending' = << >> /\ pending_position' = PrefixLen
    /\ decode_calls' = 0 /\ answer' = 0
    /\ pc' = "chunk"
    /\ UNCHANGED <<item, cache, logits, full_logits>>

\* Mutant of Flushes: cached cells are attached over buffered tokens.
FlushesNever(buffer, rest) == FALSE

\* Buffered tokens are decoded before the rest of a chunk is attached.
Flushes(buffer, rest) == rest > 0 /\ buffer # << >>

\* queue: the buffer keeps the position of its first token.
Buffered(at) == IF pending = << >> THEN at ELSE pending_position

\* One iteration of the loop over the chunks: queue the head, then flush and attach.
Chunk ==
    /\ pc = "chunk"
    /\ LET size == item.size[index]
           n == recomputed(index)
           buffer == pending \o SubSeq(chunk(index), 1, n)
           at == IF n > 0 THEN Buffered(position) ELSE pending_position
           flush == Flushes(buffer, size - n)
           c == IF flush THEN decode(cells, buffer, kTargetSeq, at) ELSE cells
           blob == IF spec.prefixed THEN cache.prefixed[index] ELSE cache.naive[index]
       IN  /\ cells' = IF n < size THEN attach_tail(c, blob, spec.prefixed, n, position)
                                   ELSE c
           /\ pending' = IF flush THEN << >> ELSE buffer
           /\ pending_position' = at
           /\ computed' = computed + n
           /\ decode_calls' = decode_calls + (IF flush THEN 1 ELSE 0)
           /\ position' = position + size
           /\ Step(flush => Accepts(cells, kTargetSeq, at),
                   IF index = Len(item.size) THEN "suffix" ELSE "chunk")
    /\ index' = index + 1
    /\ UNCHANGED <<item, cache, variant, answer, logits, full_logits>>

\* The suffix goes with the last buffered tokens, and the logits are read.
Suffix ==
    /\ pc = "suffix"
    /\ LET c == decode(cells, pending \o suffix, kTargetSeq, Buffered(position))
       IN  cells' = c /\ logits' = Row(c, kTargetSeq)
    /\ Step(Accepts(cells, kTargetSeq, Buffered(position)), "answer")
    /\ pending' = << >> /\ pending_position' = Buffered(position)
    /\ decode_calls' = decode_calls + 1
    /\ UNCHANGED <<item, cache, variant, index, position, computed, answer, full_logits>>

\* One step of greedy_answer.
GreedyToken ==
    /\ pc = "answer" /\ answer < MaxAnswer
    /\ LET at == position + SuffixLen + answer
       IN  /\ cells' = decode(cells, <<<<"answer", answer + 1>>>>, kTargetSeq, at)
           /\ Step(Accepts(cells, kTargetSeq, at), "answer")
    /\ answer' = answer + 1
    /\ UNCHANGED <<item, cache, variant, index, position, computed, pending,
                   pending_position, decode_calls, logits, full_logits>>

\* An end of generation, or the bound: the target is removed.  The full run reports the
\* prefix as well, and prefixed+rALL has to agree with it.
Finish ==
    /\ pc = "answer"
    /\ cells' = remove_sequence(cells, kTargetSeq)
    /\ computed' = computed + (IF spec.full THEN PrefixLen ELSE 0)
    /\ full_logits' = IF spec.full THEN logits ELSE full_logits
    /\ logits' = << >>
    /\ Step(variant = Sanity => logits = full_logits, "variant")
    /\ UNCHANGED <<item, cache, variant, index, position, pending, pending_position,
                   decode_calls, answer>>

ItemDone ==
    /\ pc = "variant"
    /\ pc' = "item"
    /\ UNCHANGED <<cells, item, cache, variant, run, logits, full_logits>>

Next ==
    \/ Load \/ NextItem \/ Precompute \/ Probe
    \/ \E v \in Variants \cup {Full} : Begin(v)
    \/ Chunk \/ Suffix \/ GreedyToken \/ Finish \/ ItemDone

Spec == Init /\ [][Next]_vars

-----------------------------------------------------------------------------
(* Properties *)

prompt == prefix \o FlattenSeq([i \in chunks |-> chunk(i)]) \o suffix

\* The tokens before a chunk, and the places in the prompt of its attached tokens.
Before[i \in 1 .. Len(item.size) + 1] ==
    IF i = 1 THEN PrefixLen ELSE Before[i - 1] + item.size[i - 1]
Reused(i) == Before[i] + recomputed(i) + 1 .. Before[i] + item.size[i]

\* The positions whose cells were computed elsewhere: attached, and not the first chunk
\* after the very prefix that it was computed after.
Foreign == UNION {Reused(i) : i \in {j \in chunks : ~ (spec.prefixed /\ j = 1)}}

\* docs/chunk-kv-spike.md "Target construction is strictly left-to-right" and "differences
\* come from the intended KV composition, not from cache corruption": when the logits are
\* read, the target holds every token of the prompt once, at its position, and a cell has
\* the value of a full computation exactly if no chunk was attached out of context before it.
TargetExact ==
    pc = "answer" =>
        LET row == Row(cells, kTargetSeq)
        IN  /\ Toks(row) = prompt \o Tokens("answer", answer)
            /\ \A n \in DOMAIN row : row[n].pos = n - 1
            /\ \A n \in DOMAIN prompt :
                   row[n].of = SubSeq(prompt, 1, n) <=> \A m \in Foreign : m > n

\* llama.cpp rejects no batch, since the buffered tokens are flushed before cached cells are
\* attached after them, and the sanity check of prefixed+rALL never fails.
NeverFails == pc # "failed"

Resting == {"item", "full", "variant", "precompute"}

\* The prefix that all sequences share never moves, and every run gives back the cells of
\* its blobs: between runs nothing else is in memory, however many items follow.
MemoryClean ==
    /\ pc # "load" => Toks(Row(cells, kPrefixSeq)) = prefix
    /\ \A i \in Of(cells, kPrefixSeq) : cells[i].pos = cells[i].tok[2] - 1
    /\ pc \in Resting => DOMAIN cells = Of(cells, kPrefixSeq)
=============================================================================
