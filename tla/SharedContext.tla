----------------------------- MODULE SharedContext -----------------------------
(***************************************************************************)
(* Pools made by ThreadPool(nb_thread, io_context&, name), which run a     *)
(* context that is not theirs: several of them share it, and the program   *)
(* may hold work on it of its own.  start() takes a guard on it; stop()    *)
(* stops it, and starts it again, for all of them.                         *)
(*                                                                         *)
(* Every pool has a caller of its start() and stop(), and these callers    *)
(* and the threads interleave.  The startup function and the handles are   *)
(* in module ThreadPool; here a created thread is on its way to run().     *)
(***************************************************************************)
EXTENDS Integers, FiniteSets

CONSTANTS
  Pools,     \* the pools on the context
  Threads,   \* the threads of each of them
  MaxQueued  \* handlers waiting in the context (bound)

VARIABLES
  running,    \* running_ of each pool
  guards,     \* the pools whose works_ holds a guard
  step,       \* where start() or stop() of each pool is, or "idle"
  pc,         \* the threads of each pool; "busy" is inside a handler
  stopped,    \* stopped flag of the context
  queued,     \* handlers waiting in it
  host,       \* the program holds work on it
  disturbed,  \* history: pools for which somebody else stopped it since their start()
  overtaken   \* history: pools in stop() for which somebody else has started it again

vars == <<running, guards, step, pc, stopped, queued, host, disturbed, overtaken>>

Init ==
  /\ running = [p \in Pools |-> FALSE]
  /\ guards = {}
  /\ step = [p \in Pools |-> "idle"]
  /\ pc = [p \in Pools |-> [t \in Threads |-> "none"]]
  /\ stopped = FALSE /\ queued = 0
  /\ host \in BOOLEAN
  /\ disturbed = {} /\ overtaken = {}

\* Outstanding work: guards, queued handlers and those in progress.
NoWork ==
  /\ guards = {} /\ queued = 0 /\ ~host
  /\ \A p \in Pools, t \in Threads : pc[p][t] # "busy"

Become(p, t, state) == pc' = [pc EXCEPT ![p][t] = state]

-------------------------------------------------------------------------------
(* The context and its threads *)

\* boost::asio::post, by a pool or by the program
Post ==
  /\ queued < MaxQueued
  /\ queued' = queued + 1
  /\ UNCHANGED <<running, guards, step, pc, stopped, host, disturbed, overtaken>>

\* service.run(), which stops a context without work
EnterRun(p, t) ==
  /\ pc[p][t] = "ready" /\ Become(p, t, "run")
  /\ stopped' = (stopped \/ NoWork)
  /\ UNCHANGED <<running, guards, step, queued, host, disturbed, overtaken>>

Take(p, t) ==
  /\ pc[p][t] = "run" /\ ~stopped /\ queued > 0
  /\ Become(p, t, "busy")
  /\ queued' = queued - 1
  /\ UNCHANGED <<running, guards, step, stopped, host, disturbed, overtaken>>

\* A thread does not see that the context was stopped while it was in a handler, when it
\* has been started again by now.
Finish(p, t) ==
  /\ pc[p][t] = "busy" /\ Become(p, t, "run")
  /\ UNCHANGED <<running, guards, step, queued, host, disturbed, overtaken>>
  /\ stopped' = (stopped \/ NoWork')

\* run() returns
LeaveRun(p, t) ==
  /\ pc[p][t] = "run" /\ stopped /\ Become(p, t, "exited")
  /\ UNCHANGED <<running, guards, step, stopped, queued, host, disturbed, overtaken>>

-------------------------------------------------------------------------------
(* start() and stop() *)

\* Faulty: no guard on a context of somebody else.
GuardedNever(p) == guards

\* works_.emplace_back(make_work_guard(...))
Guarded(p) == guards \cup {p}

\* start(), up to the latch
Start(p) ==
  /\ step[p] = "idle" /\ ~running[p]
  /\ guards' = Guarded(p)
  /\ pc' = [pc EXCEPT ![p] = [t \in Threads |-> "ready"]]
  /\ step' = [step EXCEPT ![p] = "start"]
  /\ disturbed' = IF stopped THEN disturbed \cup {p} ELSE disturbed \ {p}
  /\ UNCHANGED <<running, stopped, queued, host, overtaken>>

StartReturn(p) ==
  /\ step[p] = "start"
  /\ step' = [step EXCEPT ![p] = "idle"]
  /\ running' = [running EXCEPT ![p] = TRUE]
  /\ UNCHANGED <<guards, pc, stopped, queued, host, disturbed, overtaken>>

\* running_ = false and works_.clear()
Stop(p) ==
  /\ step[p] = "idle" /\ running[p]
  /\ running' = [running EXCEPT ![p] = FALSE]
  /\ guards' = guards \ {p}
  /\ step' = [step EXCEPT ![p] = "stop"]
  /\ UNCHANGED <<pc, queued, host, disturbed, overtaken>>
  /\ stopped' = (stopped \/ NoWork')

\* Faulty: a context of somebody else is left alone.
StopsNot == stopped

\* service->stop()
Stops == TRUE

StopContext(p) ==
  /\ step[p] = "stop"
  /\ stopped' = Stops
  /\ step' = [step EXCEPT ![p] = "join"]
  /\ disturbed' = disturbed \cup (guards \ {p})
  /\ overtaken' = overtaken \ {p}
  /\ UNCHANGED <<running, guards, pc, queued, host>>

\* The last join() returns; restart().
StopReturn(p) ==
  /\ step[p] = "join" /\ \A t \in Threads : pc[p][t] = "exited"
  /\ pc' = [pc EXCEPT ![p] = [t \in Threads |-> "none"]]
  /\ stopped' = FALSE
  /\ step' = [step EXCEPT ![p] = "idle"]
  /\ overtaken' = (overtaken \cup {q \in Pools : step[q] = "join"}) \ {p}
  /\ UNCHANGED <<running, guards, queued, host, disturbed>>

ThreadStep(p, t) == EnterRun(p, t) \/ Take(p, t) \/ Finish(p, t) \/ LeaveRun(p, t)
CallStep(p) == StartReturn(p) \/ StopContext(p) \/ StopReturn(p)

Next ==
  \/ Post
  \/ \E p \in Pools : \/ \E t \in Threads : ThreadStep(p, t)
                      \/ Start(p) \/ Stop(p) \/ CallStep(p)

Spec == Init /\ [][Next]_vars

\* The OS schedules every thread, and the callers inside start() and stop(); handlers end.
\* Nobody has to post, or to call start() or stop().
Fairness ==
  \A p \in Pools :
    /\ \A t \in Threads : WF_vars(ThreadStep(p, t))
    /\ WF_vars(CallStep(p))

FairSpec == Spec /\ Fairness

-------------------------------------------------------------------------------
(* Properties *)

(***************************************************************************)
(* A pool that runs has all its threads in service, unless another pool    *)
(* has called stop() since its start(), or was in it then: what becomes of *)
(* the work of the program and of the guards of the others does not stop   *)
(* it.  ThreadPool::start (work guard) on an io_context given from outside.*)
(***************************************************************************)
ServesUnlessStopped ==
  \A p \in Pools : running[p] /\ p \notin disturbed =>
    ~stopped /\ \A t \in Threads : pc[p][t] \in {"ready", "run", "busy"}

(***************************************************************************)
(* stop() returns, though other pools hold work on the context.  Only      *)
(* another stop() that returns in the meantime may leave it waiting: its   *)
(* restart() hides the stop from a thread inside a handler.                *)
(* ThreadPool::stop.                                                       *)
(***************************************************************************)
StopsReturn ==
  \A p \in Pools :
    step[p] \in {"stop", "join"} ~> step[p] = "idle" \/ p \in overtaken
===============================================================================
