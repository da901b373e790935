# A TLA+ model of RadixForge

RadixForge is an OpenAI-compatible LLM server that lets agents with common prompt prefixes
share one KV cache. This directory holds TLA+ modules of its own logic (not of llama.cpp or
cpp-httplib), the TLC configurations that check them on small instances, and TLAPS proofs
of their safety properties for every size of the instance. Paths below are relative to the repository.

## The system

| Component | State | Operations | Interacts by |
| --- | --- | --- | --- |
| `RadixTree` (`src/radix_tree.cpp`) | nodes with edge tokens, `ref_count`, `seq_ids`, `ready_seq_ids`, `canonical_len`, `last_access_tick` | insert, inspect, release, evict, register, mark ready, release and extend a sequence, find a covering sequence | called by the mapper and the worker, one `shared_mutex` |
| `KVMapper` (`src/kv_mapper.cpp`) | FIFO pool of sequence ids, cell counts, retained ids | prepare, mark ready, set cell count, extend, release, evict (pressure, idle) | calls the tree (lock order mapper, tree) and llama.cpp's `seq_cp`/`seq_rm` |
| `InferenceWorker` (`src/worker.cpp`) | request queue, prefilling and active sequences, `running_`, gauges | enqueue, stop, the loop `run`: admit, `prepare_all`, `fused_step`, `retire` | one thread; the queue is shared with the HTTP threads, answers leave by callbacks |
| completion handler (`src/http_server.cpp`) | `StreamState` or `NonStreamState` per request | parse, enqueue, wait with keep-alive or timeout, answer; `on_token`, `on_error`, `cancelled`, `on_cancel` | the callbacks run on the worker thread and share the state with the handler |
| lifecycle (`src/main.cpp`, `Server`) | `g_shutdown_requested`, `accepting_`, `stop_fn_` | start, drain, stop, join | signals, three kinds of threads |
| request parsing, JSON, UTF-8 (`src/openai_api.cpp`, `json_minimal.h`) | none | pure functions | called by the handler |
| metrics, health and admin endpoints | counters | read only | atomics, `is_idle` |
| chunk composition tool (`tools/chunk_spike.cpp`) | four sequences in llama.cpp's shared cells, blobs of cached chunks | precompute, probe, run a variant: attach or recompute each chunk, answer | a program of its own, one thread |

What is hard here: one radix split moves node identities under requests in flight; the mapper
drops its lock between insertion, allocation and lookup, and an eviction can fall in between; a
sequence may be copied only when its KV really holds the prefix it is offered for; requests are
deferred, sent back and cancelled at every point of a batch; the callbacks of a request race
the timeout, the keep-alive and the return of its handler; shutdown has to stop three
threads in the right order; and the hand-written parser meets whatever clients send. `PROJECT.json` lists these hazards line by line with the properties
aimed at them.

What makes the components correct:

- tree and mapper: ids and references are conserved; whoever owns a sequence keeps it; the KV
  cells under a sequence are the tokens the worker takes for decoded; a source of a copy covers
  what is copied; what the gauges and the eviction threshold read is right;
- worker: no request is lost, handled twice or answered twice; the batch fits; ids suffice;
  generation ends and stays within the context; every request is eventually answered;
- handler: no use of a sink or request after the handler has returned; streams are complete and
  well formed; an answer with status 200 is the whole text; a dead peer frees handler and sequence;
- lifecycle: nobody is abandoned, and stop stops;
- texts: the parser accepts JSON and nothing else, a request means what its body says, and what is
  written can be read back;
- chunk tool: the composed prompt is complete and in place, and nothing leaks from one run into the next.

## The modules

| Module | What it is | Uses | Checked by |
| --- | --- | --- | --- |
| `RadixTree` | operators on the path-keyed tree | | through the next three |
| `RadixIndex` | what the tree promises its callers and asks of them, as a state machine | `RadixTree` | refined by `RadixPointers`, kept to by `KVMapper` |
| `RadixPointers` | the tree with nodes, parents and children | `RadixIndex` (refines it) | `pointers`; `RadixPointersProofs` |
| `KVMapper` | tree, mapper and KV cells under the calls of the worker | `RadixTree`, `PrefixCache` (refines it), `RadixIndex` (calls it) | `cache`, `starved`; `KVMapperProofs`, `KVMapperCacheProofs` |
| `PrefixCache` | what the cache promises, without tree or ids | | refined by `KVMapper`; `KVMapperCacheProofs` |
| `Worker` | queue, admission, continuous batching | | `schedule`; `WorkerProofs` |
| `Completion` | one request, its handler and its callbacks | | `request`, `lifetime`; `CompletionProofs` |
| `Lifecycle` | start, drain and stop | | `drain`, `deadline`, `startup`, `wakeup`; `LifecycleProofs` |
| `Json`, `OpenAI` | parser, request bodies and responses | `OpenAI` extends `Json` | `parse` |
| `ChunkSpike` | the chunk composition tool | | `chunks`; `ChunkSpikeProofs` |
| `RecursionProofs` | induction and recursion over an interval of the naturals, for the proofs | | `tlapm` |

Each module is instantiated for TLC by the `MC` module of its name (`Lifecycle` needs none). `Worker`, `Completion` and
`Lifecycle` compose by assumption: each reduces its neighbour to what the neighbour's module shows, and says so in
its header.

**RadixTree.** A tree is a function from cumulative token paths to node records; edges follow
from the paths. This makes "the node a request points to" a path: `split_node` leaves the record at
the shorter path, and `Follow` says where the pointers lead. One operator per method; the walk
of `find_prefix_locked` is described by its result (`Matches`: how far the prompt leads;
`EdgeNode`: in whose edge it ends). `CoveringNodes` is a set, because children are an
`unordered_map` and the depth-first search may meet any of them first.

**RadixIndex, RadixPointers.** That the operators of `RadixTree` describe the code is itself checked. `RadixPointers` keeps nodes
on a heap, with edge tokens, a parent and children by first token, and has the loops of `find_prefix_locked`, `split_node`,
`prune_empty_leaves_locked`, `inspect_prefix` and the covering search as recursive functions: a loop is a function of the number of its
iterations, a search one of the nodes. Addresses of deleted nodes are used again, so that a dangling pointer would name another node. Its refinement mapping gives every node its path (`treeBar`) and every
pointer the path of its node (`heldBar`); `RadixIndex` allows what the path-keyed operators do under the worker's protocol of calls.
`extend_seq_id` increments the tick twice when it makes a leaf; only the order of ticks matters, so `RadixIndex` lets them skip.
That protocol is the other side of the interface: `Calls` is `RadixIndex` for a caller that gives sequence and node back in one step (`End`), as `KVMapper`
does, whose worker calls `release_sequence` and `release` one after the other. `Handles` in `KVMapper` is what each request slot holds of the tree,
in the words of `RadixIndex`, and `CallsIndex` says that every step of the mapper is one of these calls or none.

**PrefixCache.** A set of token sequences whose KV may be reused and sessions that start from one of them, compute the rest,
may publish their tokens once the whole prompt is computed, and end. The mapping of `KVMapper` takes the paths of nodes with ready
sequences (and their prefixes) for the cached set and the cells of a request's sequence, not the worker's idea of them, for what a session
attends to: a copy of too many cells, from a pending sequence, or of another prompt's tokens is no step of `PrefixCache`.

**KVMapper.** Variables are `tree`, `tick`, the mapper's three containers, `kv` (what llama.cpp's cache
holds per id) and `reqs`, the `PrefillCtx`/`ActiveSeq` of each request slot. A request runs through the
phases `none`, `pressure`, `inserted`, `prefill`, `active`, `retiring`. `prepare_sequence` is `BeginPrepare`, `EvictPressure`*,
`Insert`, then `AllocateEvict`, `Register` or `Exhausted`, because it takes its locks several times; the
worker is the only writer, so no other call starts in between (`Quiet`). `DecodePrompt` and `Generate` are what a
successful fused decode does to one sequence, with `mark_sequence_ready` and `set_sequence_cell_count`;
decoding the sequences of one batch one after the other is sound because they touch disjoint ids.
`Retire`/`FinishRetire` is `retire` after an end of generation, `Abandon` every other end. `EvictIdle` is the
retry of `fused_step` after a full cache.

**Worker.** The vectors of `run` are sequences of requests, `pc` is the place in the loop, and the
steps between two places are actions: `Admit`, five outcomes of preparing one request, `FinishPrepare`
(`defer_to_front`), `Sweep` (cancelled ones leave), three outcomes of `llama_decode`, `Complete`, `Promote`.
Sampled tokens matter only as "end of generation or not". `client` becomes `gone` at any moment, which is how `cancelled()`
turns between two polls; the values of `--max-seq` and `--batch-size` are variables fixed by `Init`; `counted` holds the requests whose `on_cancel` has run. Polls that follow each
other without a callback in between read one answer. The wait on the condition variable is modelled as it is: the thread evaluates the predicate (`Look`) and
goes to sleep (`Sleep`) in two steps, between which it holds `queue_mutex_`, so that `enqueue` cannot push; `notify_one` follows the push in a step of
its own, after the unlock; `stop` clears `running_` without the lock, and its `notify_all` is one more step, which reaches only a thread that sleeps.

**Completion.** One request, streamed or synchronous. Steps are what happens under the mutex of the shared
state, and separately the accesses outside it: the two reads in `cancelled()` (`Poll`, `Peek`), the test of
`cancelled` before the lock (`SyncCall`, then `SyncAppend`), `sink.done()` and the return of the handler (`finishing`, `returned`).
The worker is reduced to polls, tokens and at most one terminal callback, which is `OneReply` of `Worker`. Texts are sequences of byte
classes (ASCII, a lead byte of two to four, a continuation), which is what `complete_utf8_prefix_length` tells apart.

**Lifecycle.** `main`, the server thread, one handler per request, and the worker's wait, as in `Worker`: `Check` and `Sleep` are two steps with the queue
mutex held in between, `enqueue` (the push under the lock) and `notify_one` (after it) two steps of a handler, `stop_worker` and `notify_all` two of main. The
deadline of the drain may pass at any time after the drain has begun. cpp-httplib is external: `stop` closes a listening server and does nothing to another,
`listen` may fail at once (`ListenFails`), and otherwise returns when its handlers have.

**Json, OpenAI.** A text is a sequence of symbols: characters, the four digits of a `\u` escape, literals and member names. Every function
of the parser is an operator from a text and a position to a value and the next position, or to the position at which it throws. A value that `parse_number`
has read is what `std::stod` makes of the digits: the nearest binary number of `Precision` bits, or a range error when its exponent lies outside
`MinExponent` .. `MaxExponent`. Beside it stands the grammar of RFC 8259, written top-down over whole texts (`Denotes`: the set of values
a text may denote, in which a number is still its
digits), and the depth of a text is counted from its brackets alone (`Nesting`), so that `ParseExact` compares definitions that share only the tables of symbols and the
rounding of a decimal. The parser must accept what the grammar accepts, in range and within the nesting limit, and nothing else. The state of `OpenAI` is a text that
grows piece by piece while the parser could still accept it; strings and bodies are also taken for generated content.

**ChunkSpike.** llama.cpp's unified KV memory is a set of cells with a position, a token, the sequences that share it, and what it was computed after.
`seq_cp` shares cells, `seq_add` moves them for all sharers, `llama_decode` rejects a batch that does not follow on. One action per
iteration of the loops of `precompute_chunks`, `run_variant` and `greedy_answer`. The size of the context (8192 cells) is not a bound of the model.

## The runs

| Run | Instance | Shows |
| --- | --- | --- |
| `cache` | 2 requests at a time, 2 ids, the empty prompt and `ab`, `aa`, `aba`, at most 3 tokens, watermark 5, with and without prefix cache | 11 invariants of tree and mapper, that they implement `PrefixCache`, that they call the tree only as `RadixIndex` allows, and that no step leaves a leaf behind that it emptied; every action fires, exhaustion and all three evictions included |
| `pointers` | 3 requests, 2 ids, prompts `aab`, `aa`, `ab`, which `a`, `b` or `ba` may follow, at most 5 ticks | pointers stay valid, walks agree with paths, the code's tree implements `RadixIndex` |
| `schedule` | 3 requests; 2 slots with a batch of 1, and 3 with a batch of 2; context 9 | no request lost, one terminal callback, batch, ids and context bounds, idle gauge; every request is answered although `enqueue` notifies late; a stopped worker ends unless the notification of `stop` comes between its look and its sleep |
| `request` | 4 bytes in pieces that cut characters, 2 keep-alives | streams, answers, and that both threads let go |
| `parse` | up to 5 pieces of containers, also inside containers that are already at the depth limit, 5 pieces of numbers, 3 characters or escapes of a string, 4 members of a body; `kMaxDepth` 4, `Int32Max` 9, doubles of 4 bits from 2^-8 to 2^16 | parser against grammar, requests, responses |
| `chunks` | items of three chunks, 114 variants, answers of 2 tokens, any number of items | the composed prompt, the batches, the memory |
| `drain` | 2 requests, signal once the server listens or has failed to | nobody is abandoned by a shutdown, and no push goes unnoticed |
| `starved` | as `cache`, one id, watermark 4 | a request that is refused an id for ever |
| `lifetime` | as `request`, 2 bytes | the late read of the HTTP request |
| `deadline` | as `drain` | main waits for handlers beyond the deadline of the drain |
| `startup`, `wakeup` | as `drain`, `startup` with a signal at any time | a signal that comes too early, and a notification that does |

Why the bounds suffice. The tree operations look at one path and its neighbours: the three prompts give a
split inside an edge, a divergence, an extension, an ancestor and a descendant of the same node; two
requests are enough for every pair of calls to interleave, and with two ids the pool is empty as soon
as both run. Paths of length three leave room for a generated token
that makes a prompt's path equal to another prompt. `View` identifies states that differ only in the values of
`last_access_tick` but not in their order among nodes that can matter; requests are symmetric. The same invariants were
also checked with three ids and watermark 4 (larger than the committed run allows). `MaxLen` bounds
generated text; the code's own bound is `max_tokens`. In `pointers`, `MaxTick` bounds the number of insertions and extensions; five of them
build, split and prune a tree of every shape that three requests can hold at once. In `Worker` the prompts are one of a single token, one longer than
the batch that shares its prefix and asks for more tokens than the context has, and one with `max_tokens` 0; both limits have fewer batch entries
than sequences, the case that no option check excludes. In `Completion`, `MaxText` lets a character of four bytes arrive in every division, and
`MaxKeepAlive` bounds a counter that no property depends on. The parser's limits are scaled down (`kMaxDepth`, `Int32Max`, the precision and range of
a double) so that texts pass each of them by one: containers are nested one and two levels beyond the limit, `1e1111` and `1e-11` are out of range, and
amounts such as `1.01` and `9.9` round to an integer on the one side and past the largest one on the other. Hexadecimal digits are the ends of the ranges that the code distinguishes.

Deadlock checking is on for `KVMapper` and `ChunkSpike`, where a request or an item can always follow. The other modules describe finite work (each
request is sent once, the process exits), so their configurations switch it off and state progress as
liveness.

Fairness. `Worker`: weak fairness of the worker thread's steps while it does not sleep, and of the two notifications, since who has pushed a request or
cleared `running_` goes on to the next statement. A sleeping thread is woken by a notification and by nothing else; nothing is assumed of clients, so nobody needs to
disconnect, and no particular outcome of a decode is promised. `EveryRequestAnswered` holds because every token counts down. `Completion`: weak fairness of the
handler's steps, which its timers justify (two seconds of a stream, the timeout of a synchronous request), and of the worker's; of the
unconstrained choices (`Again`, keep-alive) none is forced to stop. `Lifecycle`: threads are scheduled, those of the handlers
included, and time passes, so that the deadline does; no handler has to give up, because a stream has no timeout. The remaining modules state safety only. `Disconnect`, signals and `enqueue` by new clients are never assumed.

## What the violated properties say

- `ExhaustedOnlyWhenShared` with one id (`--max-seq 2`; kv_mapper.cpp:182, README.md:207): a prompt on the path of the retained sequence
  pins it by its own reference, finds no free id and nothing to evict, and is queued again for ever although nothing is in flight. For two ids
  and more the property is a theorem (`ExhaustedMeansShared`). The model of the worker, in which a request alone always finds an id, is therefore one of two ids or more.
- `RequestAlive` (http_server.cpp:388): `cancelled()` of a synchronous request can read `req_http` after its handler has returned.
- `StopInterruptsStart` (server.h:161), with a signal before the server listens: `stop` has no effect and main waits for ever.
- `SignalExits` (README.md:121): `InferenceWorker::stop` changes `running_` without the mutex, so its notification can come between the worker's look at `running_` and its
  sleep, and is missed. `QueuedIsServed`, the same question for `enqueue`, holds although its notification, too, comes after the unlock: the push takes the lock, so that a worker
  that has not seen the request is asleep when the notification comes. `WorkerStops` in `schedule` says that this is the only way to miss `stop`: it excludes the thread between
  look and sleep, and one that sleeps after the notification, and nothing else.
- `DrainBounded` (README.md:155: "wait up to this long for in-flight requests; `0` exits immediately"): the deadline ends only the loop that asks `is_idle`. main goes on to
  `server.stop()` and joins the server's thread, which waits for every handler; a stream has no timeout. `NoHandlerAbandoned` in `drain` is the other side of this: nobody is
  abandoned, because main waits.

Smaller observations, not runs: `mark_sequence_ready` records `canonical_len` as the cell count, which a split leaves longer than the prompt that was just
decoded, until the first generated token corrects it (kv_mapper.h:85; of a sequence between these two `GaugesExact` says nothing, and before, in prefill, only that
the count is not too high). The suffix that a split makes, when it takes no sequence with it, is never pruned after its requests have left, since pruning only starts from a
released or evicted node (radix_tree.cpp:55, 181; README.md:90 says that empty leaves are pruned): `EmptiedIsPruned` is what does hold. An empty container is
accepted one level deeper than the limit of 64 that README.md:198 states, because the depth is checked where values begin (json_minimal.h:103); `ParseExact` states what the code
does, and says so. A fraction of `max_tokens` that rounds to an integer as a double, such as 1.00000000000000000001, is accepted where README.md:197 promises status 400 (openai_api.cpp:85);
`RequestFaithful` speaks of the rounded number. In `chunk_spike`, `agree_full` is true
whenever the full answer is empty.

## The proofs

Every theorem below holds for all values of the constants that satisfy the named assumptions of its module. These say only that sets are
sets of the right things and numbers are naturals: prompts are sequences of tokens and sets of requests finite (`KVMapper`, `Worker`, `Lifecycle`),
the limits are positive (`Worker`, `KVMapper`), a token's text is not empty (`Completion`),
the chunks of an item are not empty and the variants are what `parse_variant` accepts (`ChunkSpike`). `RadixPointers` asks of its constants only that
prompts and what follows them are sequences of tokens, the latter not empty, and the bound a natural: the requests, the sequence ids and the prompts may even be infinitely many. No theorem relates the batch size to the number of sequences, or either to the number of requests. The one
further hypothesis is `max_sequences # 2` of `ExhaustedMeansShared`, which the run `starved` shows to be necessary.
None of the invariants is inductive alone; each module of proofs states what has to be added, and TLC has checked each strengthening before it was proved.

**The cache** (`KVMapperProofs`, `KVMapperCacheProofs`): all the invariants of `cache`, and `ColdWithoutCache`, which no run needs to check since `ColdStart` states it for every instance. The first inductive invariant, `IInv`, conjoins `TypeOK`,
`SeqIdConservation`, `RefCountExact`, `ReadyCoversPath`, `RequestKvExact`, `OwnedRegistered` and `CacheNodeAlive` with `RequestInv` and `PooledEmpty`:

- `ReadyCoversPath` needs `RequestKvExact` (a sequence becomes ready with the KV of its request) and `OwnedRegistered` (nobody cuts it meanwhile);
- `RequestKvExact` needs `ReadyCoversPath` (what is copied is a prefix of the prompt), `PooledEmpty` (a new id starts without cells) and
  `SeqIdConservation` (the id is nobody else's);
- `OwnedRegistered` needs `RefCountExact`: eviction spares referenced nodes, and the holder of a sequence holds a reference on its node. While
  retiring the sequence may sit on another node, and `RequestInv` says that only one chain of calls runs at a time, so that no
  eviction can come in between;
- `CacheNodeAlive` needs `RefCountExact`: the cache node is an ancestor of a referenced leaf, so pruning stops below it;
- `RequestInv` relates leaf, prompt and tokens of a request in every phase.

On top of it `CacheInv` is inductive: `NonEmptyDelta`, `PendingOwned`, the exact forms of the gauges (`RetainedExact`: the retained ids are the ready ones
that nobody owns; `RetainedCells`), `OneRetained`, `Cold`, `RootBare` (only an empty prompt sits on the root) and `Admitted`. It gives `PendingOwned`,
`NonEmptyDelta`, `OneCanonical`, `ColdWithoutCache`, `GaugesExact` and `ExhaustedOnlyWhenShared`. The counts of sequences in
flight, which `GaugesExact` includes, need one more invariant, `CountInv`: in each phase of a request, what its count is at most or exactly. `ExhaustedOnlyWhenShared` is an argument about what is left
when nobody is in flight: all ids but the scratch one are retained, on different nodes, and a request that fails has pinned at most one of them.

The proofs have one lemma per action (`InsertInv`, `RegisterInv`, ...) over lemmas about the operators: splitting (`SplitFacts`, `SplitInv`),
pruning and release (`PruneFacts`, `ReleaseInv`), eviction (`EvictOneInv`), moving a sequence (`ExtendFacts`, `MoveInv`), lookup (`LookupFacts`) and the
order of prefixes.

**The refinement** (`KVMapperCacheProofs`): `MapperImplementsCache` proves `ImplementsPrefixCache`. The lemma of each action of `KVMapper` shows that, from `IInv` and
`CacheInv`, it is a step `Start`, `Compute`, `Generate`, `Publish`, `End` or `Forget` of `PrefixCache` under the mapping, or a stutter.

**The calls** (`KVMapperCacheProofs`): `MapperCallsIndex` proves `CallsIndex`, by one lemma per action (`InsertCalls` to `ReleaseCalls`) that names the call it is.
`RequestInv` gives that no other request is inside a chain of calls, `OwnedRegistered` that the sequence to be released is where the caller says, `SeqIdConservation`
that a registered id is new, and `WalkPasses` that an extension leaves the leaf of the request where it is. One more invariant is needed, `ActiveInv`: a request that
decodes generated tokens has a prompt, and no more tokens than `MaxLen` unless the prompt alone is longer. Together with `PointersImplementIndex` below this joins the two
halves of the cache: the mapper is proved over the path-keyed tree, keeps to the protocol of calls, and under that protocol nodes and pointers behave as the path-keyed tree.
(The composition of the two theorems is this argument; there is no module in which both run together.)

**The worker** (`WorkerProofs`): all the invariants of `schedule`. `WorkerInv` has three layers, each proved with the help of those before:

- `Shape`: the six containers are sequences of distinct requests and disjoint; what is in flight fits the ids; a batch that is decoded is not empty; the gauge is right between two
  steps and in the wait. It gives `SlotsBounded`, `IdleIsSeen` and half of `NoRequestLost`.
- `Replies`: a request that waits or prefills was told nothing; one that decodes has no terminal callback unless it is about to retire;
  a request that is nowhere was answered or counted. It gives `OneReply` and `NoRequestLost`.
- `Sizes`: the decoding sequences never outnumber the batch, and between `llama_decode` and the promotion of finished prompts there is an entry of the batch
  for each of those as well. This is what makes `BatchFits` inductive although no code compares the two numbers. The countdown together with the text
  sent so far stays within what the context leaves, which gives `WithinContext`.

**The handler** (`CompletionProofs`): all the invariants of `request`. `CompletionInv` adds to them `Protocol` (what flags a stream and a synchronous request can have in
which state of the worker), `WireInv` (the wire is open until `done` is set, and closed by `[DONE]`) and `SyncText` (what is on its way to the shared state
is not lost). `CharactersStayWhole` rests on lemmas about `complete_utf8_prefix_length`: what it holds back is the beginning of a character, and what it lets
through ends with none.

**The lifecycle** (`LifecycleProofs`): `NoHandlerAbandoned`, which needs that a server that neither listens nor closes has no handlers, and `NoEnqueueMissed`, the safety half of
`QueuedIsServed`: a worker that is about to sleep has nothing queued, and while it sleeps every queued request belongs to a handler between its push and its notification. The
worker can be asleep with a queued request, in that window; it is inductive because the push is excluded between `Check` and `Sleep`, where the mutex is held.

**The chunk tool** (`ChunkSpikeProofs`): all the invariants of `chunks`, for items of any number and size of chunks, any variants and any length of an
answer. The first part is about llama.cpp's memory. `Holds(c, s, row)` says that the cells of a sequence are those of a row, one for each position from 0, so
that `Row` yields that row (`RowIs`, which counts cells); `Layout` adds that there is nothing besides but the prefix. Each call has a lemma about it: decoding behind a row
(`DecodeLayout`), sharing the prefix (`CopyRests`), removing a sequence (`RemoveNear`), restoring a blob (`RestoreLayout`) and `attach_tail` (`AttachLayout`,
along its five calls: the positions of the tail meet the end of the row, and only cells of the temporary sequence are moved).

The second part is the inductive invariant `ChunkInv`: `Settled` (nothing but the prefix is in memory between runs), `Snapshots` (the blobs are those of the
item's chunks), `Composition` and `Reference` (`full_logits` are what a full computation yields). Between two chunks the target and the buffer together reach exactly the place of
the next chunk, and no place of the buffer is foreign (`Building`); this is what makes the flush before an attachment the right
moment. `Exact` is `TargetExact` for a beginning of the prompt; it is kept by decoding (`ExactDecode`: the new cells are those of a full computation if and
only if the row was computed for its own tokens, `PureClean`) and by attaching (`ExactAttach`: a cell attached out of context was computed for fewer
tokens than stand before it, so that it never equals the full one by chance). `NoRunFails` needs `Reference` too: the sanity check compares two rows that are both
`FullRow`.

**The tree** (`RadixPointersProofs`): both invariants of `pointers` and the refinement of `RadixIndex`, so that the path-keyed tree, on which
the mapper is proved, is the one that `radix_tree.cpp` keeps in its nodes and pointers, under every order of calls that `RadixIndex` allows. The inductive invariant `IInv` is `HeapInv` with the paths `Paths(heap)`. Its parts:

- `Tree`: the fields of a node (`Addresses`), every node filed under its first token with its parent and every child knowing its parent (`Hangs`, `Files`), and the paths
  (`IsPaths`). An edge is never empty, so paths grow on the way down; from this follow that two nodes have different paths, that `Paths` is the only solution of its
  recursion, and that a node whose path is a prefix of another's is one of its ancestors (`PrefixOfParent`), on which everything about walks rests;
- `Callers` and `Counts`: the pointers of callers lead to nodes, and `ref_count` is the number of pointers. `release` and `evict` prune only nodes that nobody
  references and that hold no sequences, so without `Counts` they could delete a node that somebody holds;
- `Owns`, `OwnSeqs` and `OneBusy`: what a caller holds in each phase, and that no other caller holds its sequence. They make the owner of an extended sequence a proper ancestor of the new
  node (the code writes to both), and show that `evict`, which may prune the owner of a retiring caller, does not run then.

A split needs no condition: it keeps the node at its address, and every pointer held by a caller moves to the shorter path with it (`Follow`). Each operation has a lemma that
says what it does to the heap, its paths and the tree of paths at once: `FindTree` (from `MatchFacts` and `WalkFacts`: the walk ends where the path leads, and matches as
much as it can), `SplitTree`, `PlaceTree` (the walk with its leaf), `UpdateTree`, `UnlinkTree` and `PruneTree` (the loop of `prune_empty_leaves_locked` removes
every ancestor that nothing needs), `SearchedAll` (a search with a stack meets every node). Over them one lemma per call, `InsertCall` to `EvictCall`, shows that it keeps `IInv` and is
the call of the same name in `RadixIndex`. For `LookupsAlwaysAgree`, `Tally` is kept by the walk of `inspect_prefix`: the two counts are the greatest that the nodes it has met
offer, and those are all nodes along the prompt (`AlongTokens`); `AboveFacts` and `BelowFacts` say where the two directions of `find_covering_seq_id_locked` end.

**Recursion.** The provers cannot instantiate an operator, so the induction theorems of the library are out of reach.
`RecursionProofs` states induction on sets (`Induction`: a set that contains 0 and is closed under successors up to n contains 0 .. n) and primitive recursion on functions, both from
the least element of a set of naturals. With them the recursive functions of `Worker` (`Used`, `Without`) and `ChunkSpike` (`Before`) are proved about, what
`FlattenSeq` makes of the chunks of a prompt, and the loops of `RadixPointers`.

Only model-checked:

- everything temporal that needs fairness: `EveryRequestAnswered`, `WorkerStops`, `HandlerReturns`, `DisconnectReleases`, `QueuedIsServed`;
- `EmptiedIsPruned`, an action property of the mapper's tree;
- the modules with recursive operators, for which the prover has no SMT backend: `Json` and `OpenAI`. What they say of every text of a bounded size is an
  induction over texts and values.

## Not modelled

- Model loading, templates, tokenisation, sampling, logging, CLI parsing, the counters of the metrics endpoints and the text of `/metrics`, `/health` and
  `to_json`: they format values and change nothing.
- Subnormal numbers: the model refuses every number below the smallest normal one, the library only those that are not exact.
- Exceptions inside an iteration of the worker's loop other than an exhausted pool (allocation failures).
- `gc_if_needed` and `defrag`, which nothing calls.
- `tools/moe_trace.cpp` (floating-point statistics of one sequential pass), the input, scores and aggregates of `chunk_spike`, `scripts/`, `fuzz/`, `test/`.

## Plan

Done, in this order: `RadixTree` and `KVMapper` with `cache` and the divergences; `KVMapperProofs`; `Worker`; `Completion`; `Lifecycle`; the abstract
`PrefixCache` and its refinement; `RadixIndex` and `RadixPointers`; UTF-8 in `Completion`; `Json` and `OpenAI`; `ChunkSpike`.

Then the proofs: the two inductive invariants of `KVMapper`; the step simulation of `PrefixCache`; `Lifecycle`; `Completion`; `Worker`; `ChunkSpike`;
`RadixPointers` and its refinement of `RadixIndex`; the calls of the mapper; the counts of sequences in flight; the wake-ups of worker and lifecycle.

Next: a form of `Json` without recursive operators.
