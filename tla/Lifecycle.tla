------------------------------- MODULE Lifecycle -------------------------------
(***************************************************************************)
(* Start and shutdown of the radixforge process: main (main.cpp), the      *)
(* thread of the HTTP server (Server::start, stop and begin_drain in       *)
(* http_server.cpp), its handlers, and the thread of the inference worker  *)
(* (start, stop, enqueue and the wait of run in worker.cpp).               *)
(*                                                                         *)
(* cpp-httplib is external: stop() closes the listening socket of a server *)
(* that listens and does nothing to one that does not yet; listen()        *)
(* returns when the handlers have returned.                                *)
(***************************************************************************)
EXTENDS Integers, FiniteSets

CONSTANTS
    Requests,           \* the requests that clients send
    SignalAtStartup     \* SIGINT or SIGTERM may arrive before the server listens

ASSUME LifecycleAssumption == IsFiniteSet(Requests) /\ SignalAtStartup \in BOOLEAN

VARIABLES
    main,           \* where the main thread is
    g_shutdown_requested,
    late,           \* the deadline of the drain has passed
    server,         \* where the thread of Server::start is
    accepting,      \* Server::accepting_
    stop_fn,        \* Server::stop_fn_ is set
    handler,        \* where the handler of each request is
    work,           \* where the worker has the request
    running,        \* InferenceWorker::running_
    worker          \* where the worker thread is

process  == <<main, g_shutdown_requested, late>>
http     == <<server, accepting, stop_fn>>
requests == <<handler, work>>
thread   == <<running, worker>>
vars     == <<process, http, requests, thread>>

Init ==
    /\ main = "loading" /\ g_shutdown_requested = FALSE /\ late = FALSE
    /\ server = "none" /\ accepting = TRUE /\ stop_fn = FALSE
    /\ handler = [r \in Requests |-> "none"]
    /\ work = [r \in Requests |-> "none"]
    /\ running = FALSE /\ worker = "none"

Handled(states) == {r \in Requests : handler[r] \in states}
In(states)      == {r \in Requests : work[r] \in states}

\* What a notification does to the worker.
Notified == IF worker = "asleep" THEN "awake" ELSE worker

-----------------------------------------------------------------------------
(* main *)

signal_handler ==
    /\ ~ g_shutdown_requested
    /\ SignalAtStartup \/ server \in {"listening", "ended"}
    /\ g_shutdown_requested' = TRUE
    /\ UNCHANGED <<main, late, http, requests, thread>>

\* The model is loaded: worker.start(), and a thread for server.start().
Start ==
    /\ main = "loading"
    /\ main' = "serving"
    /\ running' = TRUE /\ worker' = "awake"
    /\ server' = "spawned"
    /\ UNCHANGED <<g_shutdown_requested, late, accepting, stop_fn, requests>>

begin_drain ==
    /\ main = "serving" /\ g_shutdown_requested
    /\ accepting' = FALSE
    /\ main' = "draining"
    /\ UNCHANGED <<g_shutdown_requested, late, server, stop_fn, requests, thread>>

\* Mutant of AfterServer: the worker is stopped before the server is joined.
AfterStop == "stopping"

\* Where main goes after server.stop(): server_thread.join().
AfterServer == "joining"

\* What stop_fn_ does to the server.
Stopped(s) == IF s = "listening" THEN "closing" ELSE s

\* Nothing is queued and no sequence generates.
is_idle == In({"queued", "active"}) = {}

\* The deadline, --shutdown-timeout seconds after begin_drain(), passes; it may be 0.
Deadline ==
    /\ main \notin {"loading", "serving"} /\ ~ late
    /\ late' = TRUE
    /\ UNCHANGED <<main, g_shutdown_requested, http, requests, thread>>

\* The worker is idle, or the deadline has passed: server.stop().
stop_server ==
    /\ main = "draining" /\ (is_idle \/ late)
    /\ server' = IF stop_fn THEN Stopped(server) ELSE server
    /\ main' = AfterServer
    /\ UNCHANGED <<g_shutdown_requested, late, accepting, stop_fn, requests, thread>>

JoinServer ==
    /\ main = "joining" /\ server = "ended"
    /\ main' = "stopping"
    /\ UNCHANGED <<g_shutdown_requested, late, http, requests, thread>>

\* worker.stop(): running_ is cleared without the lock of the queue ...
stop_worker ==
    /\ main = "stopping" /\ running
    /\ running' = FALSE
    /\ UNCHANGED <<process, http, requests, worker>>

\* ... and whoever sleeps by then is notified.
notify_all ==
    /\ main = "stopping" /\ ~ running
    /\ worker' = Notified
    /\ main' = "notified"
    /\ UNCHANGED <<g_shutdown_requested, late, http, requests, running>>

JoinWorker ==
    /\ main = "notified" /\ worker = "ended"
    /\ main' = "exited"
    /\ UNCHANGED <<g_shutdown_requested, late, http, requests, thread>>

-----------------------------------------------------------------------------
(* The HTTP server and its handlers *)

\* Server::start: accepting_ is set, then the routes, stop_fn_, and listen.
ServerStart ==
    /\ server = "spawned"
    /\ accepting' = TRUE
    /\ server' = "routing"
    /\ UNCHANGED <<process, stop_fn, requests, thread>>

SetStopFn ==
    /\ server = "routing"
    /\ stop_fn' = TRUE
    /\ server' = "ready"
    /\ UNCHANGED <<process, accepting, requests, thread>>

Listen ==
    /\ server = "ready"
    /\ server' = "listening"
    /\ UNCHANGED <<process, accepting, stop_fn, requests, thread>>

\* The address cannot be bound, and listen() returns false; main does not look at it.
ListenFails ==
    /\ server = "ready"
    /\ server' = "ended"
    /\ UNCHANGED <<process, accepting, stop_fn, requests, thread>>

\* listen() returns once its handlers have.
ListenReturns ==
    /\ server = "closing"
    /\ Handled({"accepted", "pushed", "waiting"}) = {}
    /\ server' = "ended"
    /\ UNCHANGED <<process, accepting, stop_fn, requests, thread>>

\* handle_completion finds the server accepting, or answers 503.
handle_completion(r) ==
    /\ server = "listening"
    /\ handler[r] = "none"
    /\ handler' = [handler EXCEPT ![r] = IF accepting THEN "accepted" ELSE "refused"]
    /\ UNCHANGED <<process, http, work, thread>>

\* Mutant of QueueLocked: the queue has no lock.
QueueUnlocked == FALSE

\* The worker holds queue_mutex_ between its look at the queue and its sleep.
QueueLocked == worker = "checked"

\* The body is parsed; enqueue takes the lock of the queue and pushes ...
enqueue(r) ==
    /\ handler[r] = "accepted"
    /\ ~ QueueLocked
    /\ handler' = [handler EXCEPT ![r] = "pushed"]
    /\ work' = [work EXCEPT ![r] = "queued"]
    /\ UNCHANGED <<process, http, thread>>

\* ... and notifies when it has dropped the lock; the worker may have gone on by then.
notify_one(r) ==
    /\ handler[r] = "pushed"
    /\ handler' = [handler EXCEPT ![r] = "waiting"]
    /\ worker' = Notified
    /\ UNCHANGED <<process, http, work, running>>

\* The handler returns the answer.
HandlerReturns(r) ==
    /\ handler[r] = "waiting" /\ work[r] = "answered"
    /\ handler' = [handler EXCEPT ![r] = "done"]
    /\ UNCHANGED <<process, http, work, thread>>

\* Its peer is gone, or the time of a synchronous handler is up.
GivesUp(r) ==
    /\ handler[r] = "waiting"
    /\ handler' = [handler EXCEPT ![r] = "cancelled"]
    /\ UNCHANGED <<process, http, work, thread>>

-----------------------------------------------------------------------------
(* The worker thread *)

Idle == In({"queued", "prefilling", "active"}) = {}

\* The predicate of the wait is evaluated with the lock held.
Check ==
    /\ worker = "awake" /\ running
    /\ worker' = IF Idle THEN "checked" ELSE "working"
    /\ UNCHANGED <<process, http, requests, running>>

\* The lock is released and the thread sleeps.
Sleep ==
    /\ worker = "checked"
    /\ worker' = "asleep"
    /\ UNCHANGED <<process, http, requests, running>>

\* Where a request is after a step of the worker that concerns it.
Later(r) ==
    IF handler[r] = "cancelled" THEN "dropped"
    ELSE CASE work[r] = "queued"     -> "prefilling"
           [] work[r] = "prefilling" -> "active"
           [] work[r] = "active"     -> "answered"

\* An iteration of the loop that advances some of the requests and fails others
\* (module Worker).
Step ==
    /\ worker = "working"
    /\ \E R, failed \in SUBSET In({"queued", "prefilling", "active"}) :
           /\ R \cup failed # {}
           /\ work' = [r \in Requests |-> IF r \in failed THEN "answered"
                                         ELSE IF r \in R THEN Later(r) ELSE work[r]]
    /\ worker' = "awake"
    /\ UNCHANGED <<process, http, handler, running>>

\* The condition of the loop.
Leaves == ~ running

LeaveLoop ==
    /\ worker = "awake" /\ Leaves
    /\ worker' = "ended"
    /\ UNCHANGED <<process, http, requests, running>>

-----------------------------------------------------------------------------
MainStep ==
    \/ Start \/ begin_drain \/ stop_server \/ JoinServer
    \/ stop_worker \/ notify_all \/ JoinWorker

ServerStep == ServerStart \/ SetStopFn \/ Listen \/ ListenFails \/ ListenReturns

WorkerStep == Check \/ Sleep \/ Step \/ LeaveLoop

Next ==
    \/ signal_handler \/ Deadline
    \/ MainStep \/ ServerStep \/ WorkerStep
    \/ \E r \in Requests :
        \/ handle_completion(r) \/ enqueue(r) \/ notify_one(r)
        \/ HandlerReturns(r) \/ GivesUp(r)

\* Threads are scheduled, those of the handlers too, and time passes.  No handler has to
\* give up: a stream has no timeout and ends by its worker or its peer.
Fairness ==
    /\ WF_vars(MainStep) /\ WF_vars(ServerStep) /\ WF_vars(WorkerStep) /\ WF_vars(Deadline)
    /\ \A r \in Requests :
           WF_vars(enqueue(r)) /\ WF_vars(notify_one(r)) /\ WF_vars(HandlerReturns(r))

Spec == Init /\ [][Next]_vars /\ Fairness

-----------------------------------------------------------------------------
(* Properties *)

\* Every variable has its type, and the worker thread has not ended while running_ is set.
TypeOK ==
    /\ main \in {"loading", "serving", "draining", "joining", "stopping", "notified", "exited"}
    /\ server \in {"none", "spawned", "routing", "ready", "listening", "closing", "ended"}
    /\ {g_shutdown_requested, late, accepting, stop_fn, running} \subseteq BOOLEAN
    /\ handler \in [Requests -> {"none", "refused", "accepted", "pushed", "waiting", "done",
                                 "cancelled"}]
    /\ work \in [Requests -> {"none", "queued", "prefilling", "active", "answered", "dropped"}]
    /\ worker \in {"none", "awake", "checked", "asleep", "working", "ended"}
    /\ worker = "ended" => ~ running

\* Shutdown abandons nobody: the worker is told to stop only when no handler waits for it
\* or can still enqueue, although the drain may end early or by its deadline.  It is main
\* that pays for it, in the join of the server (DrainBounded).
NoHandlerAbandoned ==
    main \in {"stopping", "notified", "exited"}
        => Handled({"accepted", "pushed", "waiting"}) = {}

\* README on --shutdown-timeout: "wait up to this long for in-flight requests; 0 exits
\* immediately".  The deadline ends the drain only: server.stop() lets the handlers go on,
\* and the join of the server waits for every one of them.
DrainBounded ==
    late /\ main = "joining" => Handled({"accepted", "pushed", "waiting"}) = {}

\* No request is left in the queue of a sleeping worker, wherever the worker is between its
\* look at the queue and its sleep when the request is pushed and when, the lock dropped,
\* its handler notifies.
QueuedIsServed ==
    \A r \in Requests :
        work[r] = "queued" ~> work[r] \in {"answered", "dropped"} \/ ~ running

\* server.h on stop(): "thread-safe; interrupts start() from another thread".  It does
\* when the server listens; a stop() that comes earlier is without effect, and main
\* then waits for ever for a server that goes on to listen.
StopInterruptsStart == main = "joining" ~> server = "ended"

\* README "graceful exit on SIGTERM": a signal ends the process.  running_ is cleared
\* without the lock of the queue, so the only notification may come when the worker has
\* looked at running_ and does not sleep yet.
SignalExits == g_shutdown_requested ~> main = "exited"
=============================================================================
