-------------------------------- MODULE Worker --------------------------------
(***************************************************************************)
(* The inference worker of radixforge (worker.cpp): one thread that takes  *)
(* requests from a queue shared with the HTTP threads, prepares them, and  *)
(* advances all of them together, one fused llama_decode per iteration.    *)
(*                                                                         *)
(* The cache mapper is reduced to what the worker sees of it, and what     *)
(* module KVMapper shows of it: a preparation leaves between one and all   *)
(* prompt tokens to decode (NonEmptyDelta), is put off only behind a       *)
(* request that is still being prefilled (PendingOwned), and fails for     *)
(* want of a sequence id only when those in flight hold or pin them all    *)
(* (OneCanonical, ExhaustedOnlyWhenShared).                                *)
(*                                                                         *)
(* The worker runs between callbacks alone; what it shares are the queue   *)
(* with its lock and condition variable, running_, and the answers of      *)
(* cancelled(), which may turn at any time.                                *)
(***************************************************************************)
EXTENDS Integers, Sequences, FiniteSets, SequencesExt

CONSTANTS
    Requests,           \* the requests that are ever sent
    PromptLen,          \* tokens of the prompt of each request
    MaxTokens,          \* its max_tokens
    Shares,             \* the pairs of requests whose prompts share a prefix
    Limits,             \* values of --max-seq, less the scratch id, and --batch-size
    n_ctx               \* --ctx-size

ASSUME RequestAssumption ==
    /\ IsFiniteSet(Requests)
    /\ PromptLen \in [Requests -> Nat] /\ MaxTokens \in [Requests -> Nat]
    /\ Shares \subseteq Requests \X Requests
\* Nothing in the code relates the batch size to the number of sequences.
ASSUME LimitsAssumption ==
    n_ctx \in Nat /\ Limits \subseteq (Nat \ {0}) \X (Nat \ {0})

VARIABLES
    max_generating,     \* llama_n_seq_max - 1
    n_batch,            \* --batch-size; both are fixed when the process starts
    queue,              \* queue_
    running,            \* running_
    notified,           \* notify_all() of stop() has come while the thread waited
    pc,                 \* where the worker thread is
    admitted,           \* requests that prepare_all has not come to yet
    deferred, queued,   \* requests that prepare_all sends back
    prefilling, active, \* the PrefillCtx and the ActiveSeq, in order
    left,               \* delta.size() - delta_start
    remaining,          \* ActiveSeq::remaining
    done, notify,       \* the sequences with the flags done and notify_on_retire
    client,             \* new, sent, or gone: cancelled() answers true
    counted,            \* the requests whose on_cancel has run
    out,                \* the callbacks made to each client
    generating          \* generating_sequences_

places == <<admitted, deferred, queued, prefilling, active>>
steps  == <<left, remaining, done, notify>>
options == <<max_generating, n_batch>>
vars   == <<options, queue, running, notified, pc, places, steps, client, counted, out,
            generating>>

Init ==
    /\ \E l \in Limits : max_generating = l[1] /\ n_batch = l[2]
    /\ queue = << >> /\ running = TRUE /\ pc = "top"
    /\ notified = FALSE
    /\ admitted = << >> /\ deferred = << >> /\ queued = << >>
    /\ prefilling = << >> /\ active = << >>
    /\ left = [r \in Requests |-> 0] /\ remaining = [r \in Requests |-> 0]
    /\ done = {} /\ notify = {}
    /\ client = [r \in Requests |-> "new"] /\ counted = {}
    /\ out = [r \in Requests |-> << >>]
    /\ generating = 0

Least(a, b) == IF a <= b THEN a ELSE b

gone == {r \in Requests : client[r] = "gone"}

\* What is left of seq, in order, when the requests S leave it.
Without(seq, S) ==
    LET kept[i \in 0 .. Len(seq)] ==
            IF i = 0 THEN << >>
            ELSE IF seq[i] \in S THEN kept[i - 1] ELSE Append(kept[i - 1], seq[i])
    IN  kept[Len(seq)]

\* is_cancelled is asked for the requests S: on_cancel runs for those that are gone.
Polled(S) == counted \cup (S \cap gone)

Say(S, what) == [r \in Requests |-> IF r \in S THEN Append(out[r], what) ELSE out[r]]

-----------------------------------------------------------------------------
(* The HTTP threads and main *)

\* The worker keeps queue_mutex_ from its look at the queue until it sleeps.
QueueLocked == pc = "checked"

\* enqueue pushes with the lock held ...
enqueue(r) ==
    /\ client[r] = "new" /\ ~ QueueLocked
    /\ client' = [client EXCEPT ![r] = "sent"]
    /\ queue' = Append(queue, r)
    /\ UNCHANGED <<running, notified, pc, places, steps, counted, out, generating>>

\* A notification reaches the thread only in its sleep; it looks at the queue again.
Woken == IF pc = "asleep" THEN "locked" ELSE pc

\* ... and notifies once it has dropped it.  The thread sleeps on an empty queue only: a
\* request that is in it then has been pushed since, and its enqueue is still to notify.
notify_one ==
    /\ pc = "asleep" /\ queue # << >>
    /\ pc' = Woken
    /\ UNCHANGED <<queue, running, notified, places, steps, client, counted, out, generating>>

\* The wait may also end by itself, or by the notification of an enqueue whose request the
\* worker has already taken.
Wake ==
    /\ pc = "asleep"
    /\ pc' = Woken
    /\ UNCHANGED <<queue, running, notified, places, steps, client, counted, out, generating>>

\* The peer disconnects, or the synchronous handler times out.
Disconnect(r) ==
    /\ client[r] = "sent"
    /\ client' = [client EXCEPT ![r] = "gone"]
    /\ UNCHANGED <<queue, running, notified, pc, places, steps, counted, out, generating>>

\* stop() clears running_ without the lock ...
stop ==
    /\ running
    /\ running' = FALSE
    /\ UNCHANGED <<queue, notified, pc, places, steps, client, counted, out, generating>>

\* ... and notifies once.  It has no effect on a thread that does not sleep yet; one that is
\* outside its wait then does not come back to it, and the step is left out.
notify_all ==
    /\ ~ running /\ ~ notified /\ pc \in {"checked", "asleep"}
    /\ notified' = TRUE
    /\ pc' = Woken
    /\ UNCHANGED <<queue, running, places, steps, client, counted, out, generating>>

-----------------------------------------------------------------------------
(* run: the loop and admission *)

Idle == active = << >> /\ prefilling = << >>

EnterLoop ==
    /\ pc = "top" /\ running
    /\ pc' = "locked"
    /\ UNCHANGED <<queue, running, places, steps, client, counted, out, generating>>

\* Nothing to do: the predicate of the wait is evaluated with the lock held ...
Look ==
    /\ pc = "locked" /\ running /\ Idle /\ queue = << >>
    /\ pc' = "checked"
    /\ UNCHANGED <<queue, running, places, steps, client, counted, out, generating>>

\* ... which is released when the thread sleeps.
Sleep ==
    /\ pc = "checked"
    /\ pc' = "asleep"
    /\ UNCHANGED <<queue, running, places, steps, client, counted, out, generating>>

\* Mutant of Leaves: the wait is only for the queue.
LeavesUnlessWaiting ==
    \/ pc = "top"
    \/ pc = "locked" /\ queue = << >> /\ ~ Idle

\* The loop ends at its head, or after the wait with nothing queued.
Leaves ==
    \/ pc = "top"
    \/ pc = "locked" /\ queue = << >>

\* After the loop everything in flight is released; no client is told.
LeaveLoop ==
    /\ ~ running /\ Leaves
    /\ pc' = "exit"
    /\ prefilling' = << >> /\ active' = << >> /\ generating' = 0
    /\ UNCHANGED <<queue, running, admitted, deferred, queued, steps, client,
                   counted, out>>

\* Mutant of Room: the sequences that are prefilling are forgotten.
RoomForActive == max_generating - Len(active)

\* Sequences that may still be admitted.
Room == max_generating - Len(active) - Len(prefilling)

\* The wait is over (the admission window of an idle worker included, in which more
\* requests may arrive): the front of the queue is admitted.
Admit ==
    /\ pc = "locked"
    /\ ~ (Idle /\ queue = << >>)
    /\ LET n == Least(Room, Len(queue))
       IN  /\ admitted' = SubSeq(queue, 1, n)
           /\ queue' = SubSeq(queue, n + 1, Len(queue))
    /\ pc' = "prepare"
    /\ UNCHANGED <<running, deferred, queued, prefilling, active, steps, client,
                   counted, out, generating>>

-----------------------------------------------------------------------------
(* prepare_all *)

\* n_ctx - tokens - 4: what the context window leaves for generation.
available(r) == n_ctx - PromptLen[r] - 4

\* Mutant of limit: max_tokens is not clamped.
unclamped_limit(r) == MaxTokens[r]

limit(r) == Least(MaxTokens[r], available(r))

Preparing(r) == pc = "prepare" /\ admitted # << >> /\ r = Head(admitted)

PrepareCancelled(r) ==
    /\ Preparing(r) /\ r \in gone
    /\ admitted' = Tail(admitted)
    /\ counted' = Polled({r})
    /\ UNCHANGED <<queue, running, pc, deferred, queued, prefilling, active, steps,
                   client, out, generating>>

\* on_error: 400 for a prompt beyond the context window, 500 for an empty delta
\* (of an empty prompt), 503 for any other exception of prepare_sequence.
PrepareError(r) ==
    /\ Preparing(r) /\ r \notin gone
    /\ admitted' = Tail(admitted)
    /\ out' = Say({r}, "error")
    /\ UNCHANGED <<queue, running, pc, deferred, queued, prefilling, active, steps,
                   client, counted, generating>>

PrepareDefer(r) ==
    /\ Preparing(r) /\ r \notin gone /\ available(r) > 0
    /\ \E o \in Range(prefilling) : <<r, o>> \in Shares
    /\ admitted' = Tail(admitted)
    /\ deferred' = Append(deferred, r)
    /\ UNCHANGED <<queue, running, pc, queued, prefilling, active, steps, client,
                   counted, out, generating>>

\* Every request in flight owns one sequence id and may pin a retained one, and so may
\* the leaf of the request itself.
MayExhaust == 2 * (Len(prefilling) + Len(active)) + 1 >= max_generating

\* Mutant of SentBack: only the request that failed is queued again.
SentBackAlone(r) == <<r>>

\* The request goes back, and with it the rest of the batch.
SentBack(r) == <<r>> \o Without(Tail(admitted), gone)

PrepareExhausted(r) ==
    /\ Preparing(r) /\ r \notin gone /\ available(r) > 0
    /\ MayExhaust
    /\ admitted' = << >>
    /\ queued' = SentBack(r)
    /\ counted' = Polled(Range(Tail(admitted)))
    /\ UNCHANGED <<queue, running, pc, deferred, prefilling, active, steps, client,
                   out, generating>>

PrepareReady(r) ==
    /\ Preparing(r) /\ r \notin gone /\ available(r) > 0
    /\ \E delta \in 1 .. PromptLen[r] : left' = [left EXCEPT ![r] = delta]
    /\ admitted' = Tail(admitted)
    /\ prefilling' = Append(prefilling, r)
    /\ UNCHANGED <<queue, running, pc, deferred, queued, active, remaining, done,
                   notify, client, counted, out, generating>>

\* defer_to_front: what was sent back comes before what waits.
FinishPrepare ==
    /\ pc = "prepare" /\ admitted = << >>
    /\ queue' = queued \o deferred \o queue
    /\ deferred' = << >> /\ queued' = << >>
    /\ generating' = Len(active)
    /\ pc' = "sweep"
    /\ UNCHANGED <<running, admitted, prefilling, active, steps, client, counted, out>>

-----------------------------------------------------------------------------
(* fused_step *)

capacity == n_batch - Len(active)

\* Mutant of GaugeAfter: generating_sequences_ is stored before fused_step only.
GaugeKept(empty) == generating

\* run stores generating_sequences_ after fused_step, also when this returned early.
GaugeAfter(empty) == IF empty THEN 0 ELSE generating

\* Cancelled sequences leave; without anything to decode the step is over.
Sweep ==
    /\ pc = "sweep"
    /\ active' = Without(active, gone)
    /\ prefilling' = Without(prefilling, gone)
    /\ counted' = Polled(Range(active) \cup Range(prefilling))
    /\ pc' = IF active' = << >> /\ prefilling' = << >> THEN "top" ELSE "decode"
    /\ generating' = GaugeAfter(pc' = "top")
    /\ UNCHANGED <<queue, running, admitted, deferred, queued, steps, client, out>>

\* Mutant of Take: the share of the decoding sequences is not subtracted.
TakeWholeBatch(wanted, used) == Least(wanted, n_batch - used)

\* Mutant of Take: a prompt is submitted in one piece or not at all.
TakeWholePrompt(wanted, used) == IF wanted <= capacity - used THEN wanted ELSE 0

\* The tokens that a prompt gets when those before it have used part of the batch.
Take(wanted, used) == Least(wanted, capacity - used)

\* prompt_tokens after the first i prompts.
Used[i \in 0 .. Len(prefilling)] ==
    IF i = 0 THEN 0 ELSE Used[i - 1] + Take(left[prefilling[i]], Used[i - 1])

\* Mutant of Drop: the failed sequence is not popped.
DropNothing(seq, newest) == seq

Drop(seq, newest) == Without(seq, {newest})

\* llama_decode found no room for the batch, also after evict_idle_sequence: the newest
\* sequence fails with 503.
DecodeFull ==
    /\ pc = "decode"
    /\ LET newest == IF active # << >> THEN Last(active) ELSE Last(prefilling)
       IN  /\ active' = Drop(active, newest)
           /\ prefilling' = Drop(prefilling, newest)
           /\ out' = Say({newest} \ gone, "error")
           /\ counted' = Polled({newest})
    /\ generating' = Len(active')
    /\ pc' = "top"
    /\ UNCHANGED <<queue, running, admitted, deferred, queued, steps, client>>

\* llama_decode failed: everything in flight fails with 500.
DecodeError ==
    /\ pc = "decode"
    /\ LET all == Range(active) \cup Range(prefilling)
       IN  /\ out' = Say(all \ gone, "error")
           /\ counted' = Polled(all)
    /\ active' = << >> /\ prefilling' = << >>
    /\ generating' = 0
    /\ pc' = "top"
    /\ UNCHANGED <<queue, running, admitted, deferred, queued, steps, client>>

\* The batch is decoded and one token sampled for every active sequence: eog are those
\* that sample an end of generation, broken those whose on_token finds the peer gone.
DecodeOk(eog, broken) ==
    LET live == Range(active) \ eog
        last == {r \in live : remaining[r] = 1}
    IN  /\ pc = "decode"
        /\ broken \subseteq live \ gone
        /\ left' = [r \in Requests |->
               IF \E i \in DOMAIN prefilling : prefilling[i] = r
               THEN LET i == CHOOSE i \in DOMAIN prefilling : prefilling[i] = r
                    IN  left[r] - (Used[i] - Used[i - 1])
               ELSE left[r]]
        /\ remaining' = [r \in Requests |-> remaining[r] - (IF r \in live THEN 1 ELSE 0)]
        /\ out' = [r \in Requests |->
               IF r \in live \ gone
               THEN Append(out[r], IF r \in last THEN "final" ELSE "token") ELSE out[r]]
        /\ client' = [r \in Requests |-> IF r \in broken THEN "gone" ELSE client[r]]
        /\ done' = eog \cup last \cup (live \cap gone) \cup broken
        /\ notify' = eog
        /\ counted' = Polled(live) \cup (broken \ last)
        /\ pc' = "complete"
        /\ UNCHANGED <<queue, running, places, generating>>

\* Sequences that are done retire; after an end of generation the client is told.
Complete ==
    /\ pc = "complete"
    /\ out' = Say(notify \ gone, "stop")
    /\ counted' = Polled(done)
    /\ active' = Without(active, done)
    /\ done' = {} /\ notify' = {}
    /\ pc' = "promote"
    /\ UNCHANGED <<queue, running, admitted, deferred, queued, prefilling, left,
                   remaining, client, generating>>

FirstIsLast(r) == limit(r) <= 1

\* The prompts that are complete get their first token; eog as in DecodeOk.
Promote(eog) ==
    LET filled == {r \in Range(prefilling) : left[r] = 0}
        live   == filled \ gone
        single == {r \in live \ eog : FirstIsLast(r)}
        grown  == live \ (eog \cup single)
    IN  /\ pc = "promote"
        /\ eog \subseteq live
        /\ out' = [r \in Requests |->
               IF r \in live
               THEN Append(out[r], IF r \in eog THEN "stop"
                                   ELSE IF r \in single THEN "final" ELSE "token")
               ELSE out[r]]
        /\ remaining' = [r \in Requests |->
               IF r \in grown THEN limit(r) - 1 ELSE remaining[r]]
        /\ active' = active \o Without(prefilling, Requests \ grown)
        /\ prefilling' = Without(prefilling, filled)
        /\ counted' = Polled(filled)
        /\ generating' = Len(active')
        /\ pc' = "top"
        /\ UNCHANGED <<queue, running, admitted, deferred, queued, left, done, notify,
                       client>>

-----------------------------------------------------------------------------
WorkerStep ==
    \/ EnterLoop \/ Look \/ Sleep \/ LeaveLoop \/ Admit \/ FinishPrepare
    \/ \E r \in Requests :
        \/ PrepareCancelled(r)
        \/ PrepareError(r)
        \/ PrepareDefer(r)
        \/ PrepareExhausted(r)
        \/ PrepareReady(r)
    \/ Sweep \/ DecodeFull \/ DecodeError
    \/ \E eog \in SUBSET Range(active), broken \in SUBSET Range(active) :
        DecodeOk(eog, broken)
    \/ Complete
    \/ \E eog \in SUBSET Range(prefilling) : Promote(eog)

Next ==
    /\ UNCHANGED options
    /\ \/ \E r \in Requests : enqueue(r) \/ Disconnect(r)
       \/ notify_one \/ Wake \/ stop \/ notify_all
       \/ UNCHANGED notified /\ WorkerStep

\* The worker thread is scheduled, and who has pushed a request or cleared running_ goes on
\* to its notification.  Nothing makes a wait end by itself.
Spec ==
    /\ Init /\ [][Next]_vars
    /\ WF_vars(UNCHANGED <<options, notified>> /\ WorkerStep)
    /\ WF_vars(UNCHANGED options /\ notify_one)
    /\ WF_vars(UNCHANGED options /\ notify_all)

-----------------------------------------------------------------------------
(* Properties *)

Callbacks == {"token", "final", "stop", "error"}
Terminal  == {"final", "stop", "error"}

\* Every variable has its type.
TypeOK ==
    /\ options \in Limits
    /\ queue \in Seq(Requests) /\ running \in BOOLEAN /\ notified \in BOOLEAN
    /\ pc \in {"top", "locked", "checked", "asleep", "prepare", "sweep", "decode", "complete",
               "promote", "exit"}
    /\ \A s \in {admitted, deferred, queued, prefilling, active} : s \in Seq(Requests)
    /\ left \in [Requests -> Nat] /\ remaining \in [Requests -> Nat]
    /\ done \subseteq Requests /\ notify \subseteq done
    /\ client \in [Requests -> {"new", "sent", "gone"}] /\ counted \subseteq gone
    /\ out \in [Requests -> Seq(Callbacks)]
    /\ generating \in Nat

Answered(r) == out[r] # << >> /\ Last(out[r]) \in Terminal

Everywhere == queue \o admitted \o deferred \o queued \o prefilling \o active

\* No request is lost or handled twice, whichever of the admitted ones are deferred, sent
\* back, failed or cancelled: until it has been answered or counted as cancelled, it is in
\* exactly one place of the worker.
NoRequestLost ==
    /\ \A i, j \in DOMAIN Everywhere : Everywhere[i] = Everywhere[j] => i = j
    /\ \A r \in Requests :
           client[r] # "new" /\ ~ Answered(r) /\ r \notin counted /\ pc # "exit"
               => r \in Range(Everywhere)

\* The last callback of a request is its only terminal one (server.h: stats are passed
\* "only for the final callback", on_error "reports a terminal request error"), and only
\* sequences about to retire are still in flight after it.
OneReply ==
    /\ \A r \in Requests : \A i \in DOMAIN out[r] :
           out[r][i] \in Terminal => i = Len(out[r])
    /\ \A r \in Range(Everywhere) : Answered(r) => r \in done

\* README "up to --batch-size": the arrays of n_batch entries hold the decoding tokens
\* and the prompt chunks, and no step submits an empty batch.  The loop over the decoding
\* sequences checks no bound; it is safe, also with more ids than batch entries, because
\* every sequence that starts to decode has just had a prompt token in the same batch.
BatchFits ==
    pc = "decode" =>
        Len(active) + Used[Len(prefilling)] \in 1 .. n_batch

\* The mapper is never asked for more sequences than there are ids.
SlotsBounded == Len(admitted) + Len(prefilling) + Len(active) <= max_generating

Text(r) == Cardinality({i \in DOMAIN out[r] : out[r][i] \in {"token", "final"}})

\* Generation ends: the countdown of a sequence that goes on is not past zero, and prompt
\* and generated tokens stay within the context window, with the reserve of four.
WithinContext ==
    /\ \A r \in Range(active) \ done : remaining[r] >= 1
    /\ \A r \in Requests : Text(r) > 0 => PromptLen[r] + Text(r) <= n_ctx - 4

\* Every request is answered, unless its client goes away or the worker is notified.
EveryRequestAnswered ==
    \A r \in Requests :
        client[r] = "sent" ~> Answered(r) \/ client[r] = "gone" \/ ~ running

\* A worker that is stopped in the middle of whatever it does ends its thread, also one that
\* sleeps, so that the join in stop() returns.  It does not when running_ is cleared between
\* the look at it and the sleep: the notification may then come before the sleep, which
\* nothing ends (Lifecycle!SignalExits).
WorkerStops ==
    (~ running /\ pc # "checked" /\ ~ (pc = "asleep" /\ notified)) ~> pc = "exit"

\* What main asks while it drains: nothing queued, and no sequence generating.
is_idle == queue = << >> /\ generating = 0

\* main.cpp waits in shutdown while ~ is_idle: a worker that waits for work, after whatever
\* cancellations, failures and retirements, is seen to be generating just when it is, so
\* that the drain neither runs into its deadline for nothing nor ends over a generation.
IdleIsSeen ==
    pc \in {"locked", "checked", "asleep"} => (is_idle <=> queue = << >> /\ active = << >>)
=============================================================================
