--------------------------- MODULE LifecycleProofs ---------------------------
(***************************************************************************)
(* Proofs about module Lifecycle: the types, that shutdown abandons no     *)
(* handler, and that no request is pushed behind the back of a worker that *)
(* goes to sleep, for every set of requests and whenever the signal comes. *)
(***************************************************************************)
EXTENDS Lifecycle, TLAPS

\* No wakeup of enqueue is lost: a worker that has looked at the queue and is about to sleep
\* has nothing to do, and all that is queued while it sleeps belongs to handlers between
\* their push and their notification.
NoEnqueueMissed ==
    /\ worker = "checked" => Idle
    /\ worker = "asleep" =>
           /\ In({"prefilling", "active"}) = {}
           /\ \A r \in In({"queued"}) : handler[r] = "pushed"

\* The states in which main has joined the thread of the server.
Joined == {"stopping", "notified", "exited"}

\* main is past the join only when the server has ended.  A server that does not listen yet
\* has no handlers, listen() waits for those there are, and an ended server takes no new
\* request.  No thread of main's exists before Start.
LifecycleInv ==
    /\ TypeOK
    /\ NoEnqueueMissed
    /\ main = "loading" => server = "none" /\ worker = "none"
    /\ main \in Joined => server = "ended"
    /\ server \notin {"listening", "closing"} => Handled({"accepted", "pushed", "waiting"}) = {}

\* The invariant holds when main starts.
LEMMA LifecycleInit == Init => LifecycleInv
BY LifecycleAssumption DEF Init, LifecycleInv, NoEnqueueMissed, Idle, In, TypeOK, Joined, Handled

\* Every step of main, of the signal, of the server, of a handler and of the worker
\* keeps the invariant.
LEMMA LifecycleStep == LifecycleInv /\ [Next]_vars => LifecycleInv'
<1> SUFFICES ASSUME LifecycleInv, [Next]_vars PROVE LifecycleInv'
    OBVIOUS
<1> USE LifecycleAssumption DEF LifecycleInv, NoEnqueueMissed, Idle, In, TypeOK, Joined, Handled,
        process, http, requests, thread
<1>1. CASE signal_handler
  BY <1>1 DEF signal_handler
<1>2. CASE MainStep
  <2>1. CASE Start
    BY <2>1 DEF Start
  <2>2. CASE begin_drain
    BY <2>2 DEF begin_drain
  <2>3. CASE stop_server
    BY <2>3 DEF stop_server, Stopped, AfterServer
  <2>4. CASE JoinServer
    BY <2>4 DEF JoinServer
  <2>5. CASE stop_worker
    BY <2>5 DEF stop_worker
  <2>6. CASE notify_all
    BY <2>6 DEF notify_all, Notified
  <2>7. CASE JoinWorker
    BY <2>7 DEF JoinWorker
  <2> QED BY <1>2, <2>1, <2>2, <2>3, <2>4, <2>5, <2>6, <2>7 DEF MainStep
<1>3. CASE ServerStep
  <2>1. CASE ServerStart
    BY <2>1 DEF ServerStart
  <2>2. CASE SetStopFn
    BY <2>2 DEF SetStopFn
  <2>3. CASE Listen
    BY <2>3 DEF Listen
  <2>4. CASE ListenReturns
    BY <2>4 DEF ListenReturns
  <2>5. CASE ListenFails
    BY <2>5 DEF ListenFails
  <2> QED BY <1>3, <2>1, <2>2, <2>3, <2>4, <2>5 DEF ServerStep
<1>4. CASE WorkerStep
  <2>1. CASE Check
    BY <2>1 DEF Check
  <2>2. CASE Sleep
    BY <2>2 DEF Sleep
  <2>3. CASE Step
    <3>1. PICK R, failed \in SUBSET In({"queued", "prefilling", "active"}) :
              work' = [r \in Requests |-> IF r \in failed THEN "answered"
                                          ELSE IF r \in R THEN Later(r) ELSE work[r]]
      BY <2>3 DEF Step
    <3>2. \A r \in In({"queued", "prefilling", "active"}) :
              Later(r) \in {"none", "queued", "prefilling", "active", "answered", "dropped"}
      BY DEF In, Later
    <3>3. work' \in [Requests -> {"none", "queued", "prefilling", "active", "answered", "dropped"}]
      BY <3>1, <3>2
    <3> HIDE DEF In
    <3> QED BY <2>3, <3>3 DEF Step
  <2>4. CASE LeaveLoop
    BY <2>4 DEF LeaveLoop, Leaves
  <2> QED BY <1>4, <2>1, <2>2, <2>3, <2>4 DEF WorkerStep
<1>5. ASSUME NEW r \in Requests,
             \/ handle_completion(r) \/ enqueue(r) \/ notify_one(r)
             \/ HandlerReturns(r) \/ GivesUp(r)
      PROVE  LifecycleInv'
  <2>1. CASE handle_completion(r)
    BY <2>1 DEF handle_completion
  <2>2. CASE enqueue(r)
    BY <2>2 DEF enqueue, QueueLocked
  <2>3. CASE notify_one(r)
    BY <2>3 DEF notify_one, Notified
  <2>4. CASE HandlerReturns(r) \/ GivesUp(r)
    BY <2>4 DEF HandlerReturns, GivesUp
  <2> QED BY <1>5, <2>1, <2>2, <2>3, <2>4
<1>6. CASE UNCHANGED vars
  BY <1>6 DEF vars
<1>7. CASE Deadline
  BY <1>7 DEF Deadline
<1> QED BY <1>1, <1>2, <1>3, <1>4, <1>5, <1>6, <1>7 DEF Next

\* Every variable of the process keeps its type, and the worker thread has not ended while
\* running_ is set, in every behaviour.
THEOREM LifecycleTypeCorrect == Spec => []TypeOK
<1>1. LifecycleInv => TypeOK
  BY DEF LifecycleInv
<1> QED BY <1>1, LifecycleInit, LifecycleStep, PTL DEF Spec

\* Shutdown abandons nobody: worker.stop() of main.cpp runs only once no handler waits for
\* the worker or can still enqueue, whenever the signal comes and however the drain ends.
THEOREM ShutdownAbandonsNobody == Spec => []NoHandlerAbandoned
<1>1. LifecycleInv => NoHandlerAbandoned
  BY DEF LifecycleInv, NoHandlerAbandoned, Joined
<1> QED BY <1>1, LifecycleInit, LifecycleStep, PTL DEF Spec

\* No notification of enqueue is lost, although it comes after the unlock and the worker may
\* be anywhere in its wait: between the look of run at the queue and its sleep nothing is
\* pushed, and a request that is queued while the worker sleeps still has a notification to
\* come.
THEOREM NoEnqueueIsMissed == Spec => []NoEnqueueMissed
<1>1. LifecycleInv => NoEnqueueMissed
  BY DEF LifecycleInv
<1> QED BY <1>1, LifecycleInit, LifecycleStep, PTL DEF Spec
=============================================================================
