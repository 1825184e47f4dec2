------------------------------ MODULE ThreadPool ------------------------------
(***************************************************************************)
(* commonpp::thread::ThreadPool (ThreadPool.hpp, ThreadPool.cpp): a fixed  *)
(* number of threads that run nb_services_ boost::asio io_contexts.        *)
(*                                                                         *)
(* Every thread, the caller of start()/stop()/~ThreadPool() and the        *)
(* threads that hand over callables interleave.  start() and stop() are    *)
(* split at each point where another thread can observe or overtake them.  *)
(* The io_context is external code, modelled from how the pool uses it:    *)
(* a FIFO of handlers, a stopped flag, and outstanding work (work guards,  *)
(* queued handlers, handlers in progress) whose end stops the context.     *)
(***************************************************************************)
EXTENDS Integers, Sequences, FiniteSets

CONSTANTS
  NbThread,     \* nb_thread_
  NbServices,   \* nb_services_
  UIntMod,      \* number of values of a std::atomic_uint
  Tasks,        \* the callables ever handed over, each at most once (bound)
  TasksMayStop  \* may a callable call stop() on the pool that runs it?

\* What the constructor accepts; anything else throws std::invalid_argument.
ASSUME PoolAssumption ==
  /\ NbServices \in Nat \ {0}
  /\ NbThread \in Nat \ {0}
  /\ NbServices <= NbThread
  /\ NbThread % NbServices = 0
  /\ UIntMod \in Nat /\ NbThread < UIntMod
  /\ TasksMayStop \in BOOLEAN

Threads  == 0 .. NbThread - 1
Services == 0 .. NbServices - 1

\* A thread that is not one of the pool's own.
Outside == -1
Callers == Threads \cup {Outside}

ROUND_ROBIN     == -1
RANDOM_SERVICE  == -2
CURRENT_SERVICE == -3
ServiceIds == {ROUND_ROBIN, RANDOM_SERVICE, CURRENT_SERVICE} \cup Services

VARIABLES
  running,         \* running_
  works,           \* works_: the services that hold a work guard
  size,            \* threads_.size(); handle t is at index t
  latch,           \* the counter of the std::latch local to start()
  runningThreads,  \* running_threads_
  currentService,  \* current_service_
  step,            \* where start() or stop() is, "idle" when none is in progress
  caller,          \* who called it
  idx,             \* its loop index
  destroying,      \* ~ThreadPool() was called
  pc,              \* each pool thread
  stack,           \* the callables each pool thread is inside, innermost first
  queue,           \* handlers waiting in each io_context
  stopped,         \* stopped flag of each io_context
  status,          \* where each callable is in its life
  process          \* "alive", "destroyed" (the pool) or "terminated" (std::terminate)

pool   == <<running, works, size>>
call   == <<step, caller, idx, destroying>>
tasks  == <<stack, queue, status>>
vars   == <<pool, latch, runningThreads, currentService, call, pc, tasks,
            stopped, process>>

Init ==
  /\ running = FALSE /\ works = {} /\ size = 0 /\ latch = 0
  /\ runningThreads = 0 /\ currentService = 0
  /\ step = "idle" /\ caller = Outside /\ idx = 0 /\ destroying = FALSE
  /\ pc = [t \in Threads |-> "none"]
  /\ stack = [t \in Threads |-> <<>>]
  /\ queue = [s \in Services |-> <<>>]
  /\ stopped = [s \in Services |-> FALSE]
  /\ status = [x \in Tasks |-> "new"]
  /\ process = "alive"

\* ++ and -- of an atomic_uint.
Increment(n) == (n + 1) % UIntMod

Decrement(n) == (n - 1) % UIntMod

-------------------------------------------------------------------------------
(* Which io_context a call means *)

\* Faulty: every thread runs the first context.
RunServiceFirst(t) == 0

\* The io_context start() hands to thread t: getService(i % nb_services_).
RunService(t) == t % NbServices

\* runningInPool(): the caller's id is that of a joinable handle of threads_.
RunningInPool(c) == c \in 0 .. size - 1 /\ pc[c] # "joined"

\* Faulty: ++i left out of the loop over the handles.
CurrentIOServiceNoIncrement(c) == 0

\* getCurrentIOService(): from the position of the caller's handle.
CurrentIOService(c) == c % NbServices

\* getService(id): the services it may return; none where it throws.
GetService(c, id) ==
  IF NbServices = 1 THEN {0}
  ELSE CASE id = ROUND_ROBIN     -> {currentService % NbServices}
         [] id = RANDOM_SERVICE  -> Services
         [] id = CURRENT_SERVICE -> IF RunningInPool(c)
                                    THEN {CurrentIOService(c)} ELSE {}
         [] OTHER                -> {id}

\* current_service_ after that call: only round robin moves it.
NextService(id) ==
  IF NbServices # 1 /\ id = ROUND_ROBIN
  THEN Increment(currentService)
  ELSE currentService

-------------------------------------------------------------------------------
(* The io_context *)

Executing(t) == stack[t] # <<>>

\* No outstanding work: no guard, nothing queued, nothing in progress.
NoWork(s) ==
  /\ s \notin works
  /\ queue[s] = <<>>
  /\ \A t \in Threads : RunService(t) = s => ~Executing(t)

\* Is thread t inside a call of start() or stop() of its own?
InCall(t) == step # "idle" /\ caller = t

Alive == process = "alive"

-------------------------------------------------------------------------------
(* Handing over callables *)

\* Callables come from outside, from the thread-init function and from
\* callables in progress; nobody outside uses a pool under destruction.
MayCall(c) ==
  /\ Alive
  /\ IF c = Outside THEN ~destroying
     ELSE ~InCall(c) /\ (pc[c] = "created" \/ Executing(c))

Enqueue(x, s) ==
  /\ queue' = [queue EXCEPT ![s] = Append(@, x)]
  /\ status' = [status EXCEPT ![x] = "queued"]
  /\ UNCHANGED stack

RunInline(t, x) ==
  /\ stack' = [stack EXCEPT ![t] = <<x>> \o @]
  /\ status' = [status EXCEPT ![x] = "running"]
  /\ UNCHANGED queue

\* dispatch() runs the callable at once on a thread already in that context.
InContext(c, s) == c \in Threads /\ Executing(c) /\ RunService(c) = s

Post(c, x, id) ==
  /\ MayCall(c) /\ status[x] = "new"
  /\ \E s \in GetService(c, id) : Enqueue(x, s)
  /\ currentService' = NextService(id)
  /\ UNCHANGED <<pool, latch, runningThreads, call, pc, stopped, process>>

\* Faulty: what runs at once is posted as well.
DispatchAndPost(c, x, id) ==
  /\ MayCall(c) /\ status[x] = "new"
  /\ \E s \in GetService(c, id) :
        IF InContext(c, s)
        THEN /\ stack' = [stack EXCEPT ![c] = <<x>> \o @]
             /\ status' = [status EXCEPT ![x] = "running"]
             /\ queue' = [queue EXCEPT ![s] = Append(@, x)]
        ELSE Enqueue(x, s)
  /\ currentService' = NextService(id)
  /\ UNCHANGED <<pool, latch, runningThreads, call, pc, stopped, process>>

Dispatch(c, x, id) ==
  /\ MayCall(c) /\ status[x] = "new"
  /\ \E s \in GetService(c, id) :
        IF InContext(c, s) THEN RunInline(c, x) ELSE Enqueue(x, s)
  /\ currentService' = NextService(id)
  /\ UNCHANGED <<pool, latch, runningThreads, call, pc, stopped, process>>

-------------------------------------------------------------------------------
(* A pool thread: ThreadPool::run and the io_context's run() *)

\* The lambda start() passes: thread name, user function, latch.count_down().
ThreadInit(t) ==
  /\ Alive /\ pc[t] = "created"
  /\ pc' = [pc EXCEPT ![t] = "ready"]
  /\ latch' = latch - 1
  /\ UNCHANGED <<pool, runningThreads, currentService, call, tasks, stopped,
                 process>>

\* ++running_threads_, then service.run(), which stops a context without work.
EnterRun(t) ==
  /\ Alive /\ pc[t] = "ready"
  /\ pc' = [pc EXCEPT ![t] = "run"]
  /\ runningThreads' = Increment(runningThreads)
  /\ stopped' = [stopped EXCEPT ![RunService(t)] = @ \/ NoWork(RunService(t))]
  /\ UNCHANGED <<pool, latch, currentService, call, tasks, process>>

\* run() takes the oldest handler unless the context is stopped.
TakeTask(t) ==
  LET s == RunService(t) IN
  /\ Alive /\ pc[t] = "run" /\ ~Executing(t)
  /\ ~stopped[s] /\ queue[s] # <<>>
  /\ stack' = [stack EXCEPT ![t] = <<Head(queue[s])>>]
  /\ queue' = [queue EXCEPT ![s] = Tail(@)]
  /\ status' = [status EXCEPT ![Head(queue[s])] = "running"]
  /\ UNCHANGED <<pool, latch, runningThreads, currentService, call, pc,
                 stopped, process>>

\* The innermost callable returns; the end of the last work stops the context.
FinishTask(t) ==
  LET s == RunService(t) IN
  /\ Alive /\ Executing(t) /\ ~InCall(t)
  /\ stack' = [stack EXCEPT ![t] = Tail(@)]
  /\ status' = [status EXCEPT ![Head(stack[t])] = "done"]
  /\ UNCHANGED queue
  /\ UNCHANGED <<pool, latch, runningThreads, currentService, call, pc, process>>
  /\ stopped' = [stopped EXCEPT ![s] = @ \/ NoWork(s)']

\* run() returns: --running_threads_, on_exit_thread_fn(), end of the thread.
LeaveRun(t) ==
  /\ Alive /\ pc[t] = "run" /\ ~Executing(t) /\ stopped[RunService(t)]
  /\ pc' = [pc EXCEPT ![t] = "exited"]
  /\ runningThreads' = Decrement(runningThreads)
  /\ UNCHANGED <<pool, latch, currentService, call, tasks, stopped, process>>

ThreadStep(t) ==
  ThreadInit(t) \/ EnterRun(t) \/ TakeTask(t) \/ FinishTask(t) \/ LeaveRun(t)

-------------------------------------------------------------------------------
(* start() *)

\* Faulty: off by one either way.
LatchCountShort == NbThread - 1
LatchCountLong  == NbThread + 1

\* The count start() constructs its latch with.
LatchCount == NbThread

\* Faulty: start() takes no work guard.
GuardsMissing == {}

\* The services start() takes a work guard of.
Guards == Services

\* start() does nothing on a running pool.  start() and ~ThreadPool() are
\* called from one thread at a time: the class has no lock around them.
Start ==
  /\ Alive /\ step = "idle" /\ ~destroying /\ ~running
  /\ works' = Guards
  /\ latch' = LatchCount
  /\ step' = "spawn" /\ caller' = Outside /\ idx' = 0
  /\ UNCHANGED <<running, size, runningThreads, currentService, destroying, pc,
                 tasks, stopped, process>>

\* emplace_back creates the thread, which runs at once ...
Spawn ==
  /\ Alive /\ step = "spawn"
  /\ pc' = [pc EXCEPT ![idx] = "created"]
  /\ step' = "publish"
  /\ UNCHANGED <<pool, latch, runningThreads, currentService, caller, idx,
                 destroying, tasks, stopped, process>>

\* ... and only then counts its handle as an element of threads_.
Publish ==
  /\ Alive /\ step = "publish"
  /\ size' = size + 1
  /\ idx' = idx + 1
  /\ step' = IF idx' = NbThread THEN "wait" ELSE "spawn"
  /\ UNCHANGED <<running, works, latch, runningThreads, currentService, caller,
                 destroying, pc, tasks, stopped, process>>

\* latch.wait() returns and start() sets running_.
StartReturn ==
  /\ Alive /\ step = "wait" /\ latch = 0
  /\ running' = TRUE
  /\ step' = "idle"
  /\ UNCHANGED <<works, size, latch, runningThreads, currentService, caller, idx,
                 destroying, pc, tasks, stopped, process>>

-------------------------------------------------------------------------------
(* stop() and ~ThreadPool() *)

\* Faulty: the threads are joined before the contexts are told to stop.
StopBeginJoinFirst(c) ==
  /\ running' = FALSE
  /\ step' = "join" /\ caller' = c /\ idx' = 0
  /\ UNCHANGED <<works, size, latch, runningThreads, currentService, pc, tasks,
                 stopped, process>>

\* running_ = false and works_.clear(): a context left without work stops.
StopBegin(c) ==
  /\ running' = FALSE
  /\ works' = {}
  /\ UNCHANGED <<size, latch, runningThreads, currentService, pc, tasks, process>>
  /\ stopped' = [s \in Services |-> stopped[s] \/ NoWork(s)']
  /\ step' = "stop" /\ caller' = c /\ idx' = 0

\* stop() does nothing unless running_ is set.
Stop(c) ==
  /\ Alive /\ step = "idle" /\ running
  /\ IF c = Outside THEN ~destroying ELSE TasksMayStop /\ Executing(c)
  /\ StopBegin(c)
  /\ UNCHANGED destroying

\* Faulty: the last service is not stopped.
LastServiceShort == NbServices - 2

\* The last turn of the loop that stops the services.
LastService == NbServices - 1

StopService ==
  /\ Alive /\ step = "stop"
  /\ stopped' = [stopped EXCEPT ![idx] = TRUE]
  /\ IF idx = LastService
     THEN step' = "join" /\ idx' = 0
     ELSE idx' = idx + 1 /\ UNCHANGED step
  /\ UNCHANGED <<pool, latch, runningThreads, currentService, caller, destroying,
                 pc, tasks, process>>

\* Faulty: the thread is detached, not joined.
JoinReturnsEarly(t) == pc[t] # "none"

\* th.join() returns once the thread's function has.
JoinReturns(t) == pc[t] = "exited"

Join ==
  /\ Alive /\ step = "join" /\ idx # caller
  /\ JoinReturns(idx)
  /\ pc' = [pc EXCEPT ![idx] = "joined"]
  /\ idx' = idx + 1
  /\ step' = IF idx' = NbThread THEN "clear" ELSE "join"
  /\ UNCHANGED <<pool, latch, runningThreads, currentService, caller, destroying,
                 tasks, stopped, process>>

\* Faulty: stop() passes over the handle of its own caller.
JoinSelfSkipped ==
  /\ Alive /\ step = "join" /\ idx = caller
  /\ idx' = idx + 1
  /\ step' = IF idx' = NbThread THEN "clear" ELSE "join"
  /\ UNCHANGED <<pool, latch, runningThreads, currentService, caller, destroying,
                 pc, tasks, stopped, process>>

\* A thread that joins itself gets std::system_error, which leaves the
\* callable and the thread's function: std::terminate.
JoinSelf ==
  /\ Alive /\ step = "join" /\ idx = caller
  /\ process' = "terminated"
  /\ UNCHANGED <<pool, latch, runningThreads, currentService, call, pc, tasks,
                 stopped>>

\* Faulty: restart() left out.
RestartMissing == stopped

\* restart() of every service.
Restart == [s \in Services |-> FALSE]

\* threads_.clear(), restart() of every service, return.
StopReturn ==
  /\ Alive /\ step = "clear"
  /\ size' = 0
  /\ pc' = [t \in Threads |-> "none"]
  /\ stopped' = Restart
  /\ step' = "idle"
  /\ UNCHANGED <<running, works, latch, runningThreads, currentService, caller,
                 idx, destroying, tasks, process>>

\* ~ThreadPool(): stop() if running_ ...
Destroy ==
  /\ Alive /\ step = "idle" /\ ~destroying
  /\ destroying' = TRUE
  /\ IF running THEN StopBegin(Outside)
     ELSE UNCHANGED <<pool, latch, runningThreads, currentService, step, caller,
                      idx, pc, tasks, stopped, process>>

\* ... then the members, the io_contexts with the handlers still in them.
DestroyMembers ==
  /\ Alive /\ step = "idle" /\ destroying /\ ~running
  /\ process' = "destroyed"
  /\ queue' = [s \in Services |-> <<>>]
  /\ status' = [x \in Tasks |->
                  IF status[x] = "queued" THEN "dropped" ELSE status[x]]
  /\ UNCHANGED <<pool, latch, runningThreads, currentService, call, pc, stack,
                 stopped>>

\* The steps a call of start(), stop() or ~ThreadPool() takes once begun.
CallStep ==
  Spawn \/ Publish \/ StartReturn \/ StopService \/ Join \/ JoinSelf
    \/ StopReturn \/ DestroyMembers

-------------------------------------------------------------------------------
Next ==
  \/ \E c \in Callers, x \in Tasks, id \in ServiceIds :
        Post(c, x, id) \/ Dispatch(c, x, id)
  \/ \E t \in Threads : ThreadStep(t)
  \/ Start \/ CallStep \/ Destroy
  \/ \E c \in Callers : Stop(c)

Spec == Init /\ [][Next]_vars

\* The OS schedules every thread, and the thread inside start() or stop().
\* Nothing obliges anybody to call start(), stop() or post().
Fairness ==
  /\ \A t \in Threads : WF_vars(ThreadStep(t))
  /\ WF_vars(CallStep)

FairSpec == Spec /\ Fairness

-------------------------------------------------------------------------------
(* Invariants *)

TypeOK ==
  /\ running \in BOOLEAN /\ works \in SUBSET Services
  /\ size \in 0 .. NbThread /\ latch \in 0 .. NbThread
  /\ runningThreads \in 0 .. UIntMod - 1 /\ currentService \in 0 .. UIntMod - 1
  /\ step \in {"idle", "spawn", "publish", "wait", "stop", "join", "clear"}
  /\ caller \in Callers /\ idx \in 0 .. NbThread /\ destroying \in BOOLEAN
  /\ pc \in [Threads -> {"none", "created", "ready", "run", "exited", "joined"}]
  /\ stack \in [Threads -> Seq(Tasks)] /\ queue \in [Services -> Seq(Tasks)]
  /\ stopped \in [Services -> BOOLEAN]
  /\ status \in [Tasks -> {"new", "queued", "running", "done", "dropped"}]
  /\ process \in {"alive", "destroyed", "terminated"}

(***************************************************************************)
(* When stop() has returned (and before the first start()) the pool can be *)
(* started afresh: no thread is left, no callable is in progress, no guard *)
(* is held, no context is still stopped and running_threads_ is back to 0. *)
(* ThreadPool::stop, ThreadPool::run.                                      *)
(***************************************************************************)
StoppedIsFresh ==
  step = "idle" /\ ~running =>
    /\ \A t \in Threads : pc[t] = "none" /\ ~Executing(t)
    /\ works = {} /\ size = 0 /\ runningThreads = 0
    /\ \A s \in Services : ~stopped[s]

(***************************************************************************)
(* From the return of start() to the call of stop() every thread serves:   *)
(* the startup function has run on all of them, none has left run(), and   *)
(* no context stops for want of work between two callables.                *)
(* ThreadPool::start (work guards, latch), ThreadPool::run.                *)
(***************************************************************************)
ServingWhileRunning ==
  running =>
    /\ \A t \in Threads : pc[t] \in {"ready", "run"}
    /\ \A s \in Services : ~stopped[s]

(***************************************************************************)
(* Once start() has returned, a callable that asks getCurrentIOService()   *)
(* gets the context that runs it: the position of a handle in threads_     *)
(* and the context start() gave to the thread agree.                       *)
(***************************************************************************)
LookupFindsOwnService ==
  running => \A t \in Threads : Executing(t) =>
               /\ RunningInPool(t)
               /\ GetService(t, CURRENT_SERVICE) = {RunService(t)}

\* The places a callable can be: a position of a queue or of a thread's stack.
InQueue(x, s, k) == k \in DOMAIN queue[s] /\ queue[s][k] = x
InStack(x, t, k) == k \in DOMAIN stack[t] /\ stack[t][k] = x

(***************************************************************************)
(* No callable is lost or duplicated between post() and the thread that    *)
(* runs it: one that waits is at exactly one position of exactly one       *)
(* queue, one that runs is on exactly one stack, any other is nowhere.     *)
(* ThreadPool::post/dispatch, ThreadPool::run, ~ThreadPool.                *)
(***************************************************************************)
TasksInOnePlace ==
  \A x \in Tasks :
    /\ status[x] = "queued" <=>
          \E s \in Services : \E k \in DOMAIN queue[s] : InQueue(x, s, k)
    /\ status[x] = "running" <=>
          \E t \in Threads : \E k \in DOMAIN stack[t] : InStack(x, t, k)
    /\ \A s1, s2 \in Services :
         \A k1 \in DOMAIN queue[s1], k2 \in DOMAIN queue[s2] :
            InQueue(x, s1, k1) /\ InQueue(x, s2, k2) => s1 = s2 /\ k1 = k2
    /\ \A t1, t2 \in Threads :
         \A k1 \in DOMAIN stack[t1], k2 \in DOMAIN stack[t2] :
            InStack(x, t1, k1) /\ InStack(x, t2, k2) => t1 = t2 /\ k1 = k2

(***************************************************************************)
(* The latch of start() holds one count for every thread whose startup     *)
(* function has not finished, so start() returns neither too early nor     *)
(* never; running_threads_ counts the threads inside run().                *)
(* ThreadPool::start (latch), ThreadPool::run (running_threads_).          *)
(***************************************************************************)
CountersExact ==
  /\ step \in {"spawn", "publish", "wait"} =>
       latch = Cardinality({t \in Threads : pc[t] \in {"none", "created"}})
  /\ runningThreads = Cardinality({t \in Threads : pc[t] = "run"})

(***************************************************************************)
(* A callable that runs on a thread of the pool can ask for the context    *)
(* that runs it.  False while start() is still filling threads_: a thread  *)
(* already serves callables posted before start() when its own handle is   *)
(* not counted yet, and getCurrentIOService() throws "There is no io       *)
(* service associated with the current thread".                            *)
(***************************************************************************)
ExecutingFindsItsService ==
  \A t \in Threads : Executing(t) =>
     GetService(t, CURRENT_SERVICE) = {RunService(t)}

-------------------------------------------------------------------------------
(* Action and liveness properties *)

(***************************************************************************)
(* Once stop() has stopped every context it waits for the callables in     *)
(* progress only: whatever is still queued then stays queued.              *)
(***************************************************************************)
NothingTakenWhileJoining ==
  [][\A x \in Tasks :
        step \in {"join", "clear"} /\ status[x] = "queued"
          => status'[x] = "queued"]_vars

(***************************************************************************)
(* If the pool is started and left running, every callable waiting in any  *)
(* of its contexts is run to its end, however it was routed there.         *)
(***************************************************************************)
QueuedTasksRun ==
  \A x \in Tasks :
    [](status[x] = "queued" /\ []running => <>(status[x] = "done"))

(***************************************************************************)
(* start() returns, whatever callables are waiting or in progress: every   *)
(* thread comes to count down the latch.  stop() called by a thread that   *)
(* is not of the pool returns once the callables in progress have: the     *)
(* contexts are stopped, so that no thread stays in service.run().  A      *)
(* stop() from one of the pool's own callables does not return, whatever   *)
(* the schedule: the process ends when the thread comes to join itself.    *)
(* ThreadPool::start (latch.wait()), ThreadPool::stop.                     *)
(***************************************************************************)
CallsReturn ==
  /\ step \in {"spawn", "publish", "wait"} ~> running
  /\ (step \in {"stop", "join", "clear"} /\ caller = Outside) ~> (step = "idle")
  /\ (step # "idle" /\ caller # Outside) ~> (process = "terminated")

-------------------------------------------------------------------------------
(* The abstract pool *)

Phase ==
  IF process = "destroyed" THEN "gone"
  ELSE IF step # "idle" \/ running THEN "active" ELSE "stopped"

Abstract == INSTANCE TaskPool WITH phase <- Phase

(***************************************************************************)
(* The pool keeps the promises of TaskPool: a callable runs at most once,  *)
(* only between start() and the return of stop(), and stop() returns only  *)
(* when none is in progress.                                               *)
(***************************************************************************)
ImplementsTaskPool == Abstract!Spec
===============================================================================
