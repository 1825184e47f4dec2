----------------------------- MODULE PoolOwnership -----------------------------
(***************************************************************************)
(* Who owns the threads and contexts of a ThreadPool while pools are       *)
(* moved, fail to start and are destroyed (ThreadPool.cpp): the move       *)
(* constructor hands over threads_, services_ and works_, but the threads  *)
(* keep the address of the pool that created them.                         *)
(*                                                                         *)
(* One thread of the program constructs, moves, starts, stops and destroys *)
(* pools; the pool threads interleave with it.  What happens inside a      *)
(* start() that succeeds is module ThreadPool; here it is one step.  An    *)
(* access to an object whose lifetime is over is undefined: any value may  *)
(* be read, or the process ends.                                           *)
(***************************************************************************)
EXTENDS Naturals, FiniteSets

CONSTANTS
  Pools,     \* pool objects, each constructed at most once
  Threads,   \* threads, each used again once it was joined
  NbThread,  \* nb_thread_ of every pool
  Fns        \* cleanup functions

NoPool == "no pool"
NoFn   == "no function"

ASSUME OwnershipAssumption ==
  /\ IsFiniteSet(Threads)
  /\ NbThread \in Nat \ {0}
  /\ NoPool \notin Pools
  /\ NoFn \notin Fns

VARIABLES
  life,      \* "none", "alive" or "dead", of every pool object
  running,   \* running_
  handles,   \* threads_
  ctx,       \* services_, named by the pool constructed with them
  guards,    \* works_: the contexts the pool keeps from running out of work
  onExit,    \* on_exit_thread_fn
  joining,   \* the pool whose stop() joins its threads
  dying,     \* ... and whether its destructor called stop()
  stopped,   \* contexts that are stopped
  state,     \* of every thread
  this,      \* the pool a thread was created by
  serves,    \* the contexts it serves
  called,    \* history: the function a thread called before it exited
  wanted,    \* history: the last function set for the owner of the contexts
  moved,     \* history: contexts that changed owner
  failed,    \* history: contexts on which the last start() failed
  ended      \* the process is gone

pools   == <<life, running, handles, ctx, guards, onExit>>
caller  == <<joining, dying>>
threads == <<state, this, serves, called>>
history == <<wanted, moved, failed>>
vars    == <<pools, caller, stopped, threads, history, ended>>

Init ==
  /\ life = [p \in Pools |-> "none"]
  /\ running = [p \in Pools |-> FALSE]
  /\ handles = [p \in Pools |-> {}]
  /\ ctx = [p \in Pools |-> NoPool]
  /\ guards = [p \in Pools |-> NoPool]
  /\ onExit = [p \in Pools |-> NoFn]
  /\ joining = NoPool /\ dying = FALSE
  /\ stopped = {}
  /\ state = [t \in Threads |-> "none"]
  /\ this = [t \in Threads |-> NoPool]
  /\ serves = [t \in Threads |-> NoPool]
  /\ called = [t \in Threads |-> NoFn]
  /\ wanted = [p \in Pools |-> NoFn]
  /\ moved = {} /\ failed = {}
  /\ ended = FALSE

\* The thread of the program is free to call a member of p.
Free(p) == ~ended /\ joining = NoPool /\ life[p] = "alive"

-------------------------------------------------------------------------------
(* Construction, move, cleanup function *)

Construct(p) ==
  /\ ~ended /\ joining = NoPool /\ life[p] = "none"
  /\ life' = [life EXCEPT ![p] = "alive"]
  /\ ctx' = [ctx EXCEPT ![p] = p]
  /\ UNCHANGED <<running, handles, guards, onExit, caller, stopped, threads, history, ended>>

\* Faulty: running_ is not handed over.
MovedRunningLost(p) == FALSE

MovedRunning(p) == running[p]

\* Faulty: services_ stay behind.
MovedContextsKept(p, q) == [ctx EXCEPT ![q] = NoPool]

MovedContexts(p, q) == [ctx EXCEPT ![q] = ctx[p], ![p] = NoPool]

\* Faulty: works_ is left out.
MovedGuardsLost(p, q) == [guards EXCEPT ![q] = NoPool, ![p] = NoPool]

MovedGuards(p, q) == [guards EXCEPT ![q] = guards[p], ![p] = NoPool]

\* ThreadPool q(std::move(p)): on_exit_thread_fn is not among the members moved.
Move(p, q) ==
  /\ Free(p) /\ ctx[p] # NoPool /\ life[q] = "none"
  /\ life' = [life EXCEPT ![q] = "alive"]
  /\ running' = [running EXCEPT ![q] = MovedRunning(p), ![p] = FALSE]
  /\ handles' = [handles EXCEPT ![q] = handles[p], ![p] = {}]
  /\ ctx' = MovedContexts(p, q)
  /\ guards' = MovedGuards(p, q)
  /\ moved' = moved \cup {ctx[p]}
  /\ UNCHANGED <<onExit, caller, stopped, threads, wanted, failed, ended>>

SetCleanupFn(p, f) ==
  /\ Free(p) /\ ctx[p] # NoPool
  /\ onExit' = [onExit EXCEPT ![p] = f]
  /\ wanted' = [wanted EXCEPT ![ctx[p]] = f]
  /\ UNCHANGED <<life, running, handles, ctx, guards, caller, stopped, threads, moved, failed, ended>>

-------------------------------------------------------------------------------
(* start() *)

Unused == {t \in Threads : state[t] = "none"}

\* n new threads, if there are so many; which ones makes no difference.
Fresh(n) ==
  LET all == {ts \in SUBSET Unused : Cardinality(ts) = n}
  IN  {ts \in all : ts = CHOOSE us \in all : TRUE}

\* Threads ts are created in state st by p.
Create(p, ts, st) ==
  /\ state' = [t \in Threads |-> IF t \in ts THEN st ELSE state[t]]
  /\ this' = [t \in Threads |-> IF t \in ts THEN p ELSE this[t]]
  /\ serves' = [t \in Threads |-> IF t \in ts THEN ctx[p] ELSE serves[t]]
  /\ handles' = [handles EXCEPT ![p] = @ \cup ts]
  /\ guards' = [guards EXCEPT ![p] = ctx[p]]
  /\ UNCHANGED <<life, ctx, onExit, caller, stopped, called, wanted, moved, ended>>

Start(p) ==
  /\ Free(p) /\ ~running[p] /\ ctx[p] # NoPool
  /\ \E ts \in Fresh(NbThread) : Create(p, ts, "run")
  /\ running' = [running EXCEPT ![p] = TRUE]
  /\ failed' = failed \ {ctx[p]}

\* std::thread's constructor throws: the exception leaves start(), the handles
\* and the guards created so far stay, and the latch on its stack is gone.
StartFails(p) ==
  /\ Free(p) /\ ~running[p] /\ ctx[p] # NoPool
  /\ \E n \in 0 .. NbThread - 1 : \E ts \in Fresh(n) : Create(p, ts, "late")
  /\ failed' = failed \cup {ctx[p]}
  /\ UNCHANGED running

\* A thread of a start() that failed counts down a latch that is gone.
CountDownLate(t) ==
  /\ ~ended /\ state[t] = "late"
  /\ \/ state' = [state EXCEPT ![t] = "run"] /\ UNCHANGED ended
     \/ ended' = TRUE /\ UNCHANGED state
  /\ UNCHANGED <<pools, caller, stopped, this, serves, called, history>>

-------------------------------------------------------------------------------
(* stop(), the destructor, and the end of ThreadPool::run *)

\* stop() up to the joins.
StopContexts(p) ==
  /\ running' = [running EXCEPT ![p] = FALSE]
  /\ guards' = [guards EXCEPT ![p] = NoPool]
  /\ stopped' = stopped \cup ({ctx[p]} \ {NoPool})
  /\ joining' = p

Stop(p) ==
  /\ Free(p) /\ running[p]
  /\ StopContexts(p) /\ dying' = FALSE
  /\ UNCHANGED <<life, handles, ctx, onExit, threads, history, ended>>

\* service.run() returns when the context is stopped, or when no guard holds it
\* and it has no work; it may have work for ever (a timer that ticks).
MayLeave(t) ==
  \/ serves[t] \in stopped
  \/ \A p \in Pools : guards[p] # serves[t]

\* Faulty: the function is not looked at.
ExitFnSkipped(t) == {NoFn}

\* What a thread finds in on_exit_thread_fn of the pool it was created by.
ExitFn(t) == IF life[this[t]] = "dead" THEN Fns \cup {NoFn} ELSE {onExit[this[t]]}

LeaveRun(t) ==
  /\ ~ended /\ state[t] = "run" /\ MayLeave(t)
  /\ state' = [state EXCEPT ![t] = "exited"]
  /\ \E f \in ExitFn(t) : called' = [called EXCEPT ![t] = f]
  /\ ended' \in IF life[this[t]] = "dead" THEN BOOLEAN ELSE {FALSE}
  /\ UNCHANGED <<pools, caller, stopped, this, serves, history>>

\* Faulty: the contexts are not made usable again.
RestartMissing == stopped

\* restart() of the contexts whose threads were joined.
Restart == stopped \ {ctx[joining]}

\* Nothing is left of the threads that were joined.
Cleared(f, none) == [t \in Threads |-> IF t \in handles[joining] THEN none ELSE f[t]]

\* The last join returns: threads_ is cleared, the contexts are restarted.
StopReturn ==
  /\ ~ended /\ joining # NoPool
  /\ \A t \in handles[joining] : state[t] = "exited"
  /\ state'  = Cleared(state, "none")
  /\ this'   = Cleared(this, NoPool)
  /\ serves' = Cleared(serves, NoPool)
  /\ called' = Cleared(called, NoFn)
  /\ handles' = [handles EXCEPT ![joining] = {}]
  /\ stopped' = Restart
  /\ life' = [life EXCEPT ![joining] = IF dying THEN "dead" ELSE "alive"]
  /\ ctx' = [ctx EXCEPT ![joining] = IF dying THEN NoPool ELSE @]
  /\ joining' = NoPool /\ dying' = FALSE
  /\ UNCHANGED <<running, guards, onExit, history, ended>>

MustStop(p) == running[p]

Destroy(p) ==
  /\ Free(p) /\ MustStop(p)
  /\ StopContexts(p) /\ dying' = TRUE
  /\ UNCHANGED <<life, handles, ctx, onExit, threads, history, ended>>

\* The members go; a handle that is still joinable terminates the process.
DestroyMembers(p) ==
  /\ Free(p) /\ ~MustStop(p)
  /\ life' = [life EXCEPT ![p] = "dead"]
  /\ ctx' = [ctx EXCEPT ![p] = NoPool]
  /\ guards' = [guards EXCEPT ![p] = NoPool]
  /\ ended' = (handles[p] # {})
  /\ UNCHANGED <<running, handles, onExit, caller, stopped, threads, history>>

-------------------------------------------------------------------------------
Next ==
  \/ \E p \in Pools : \/ Construct(p)
                      \/ \E q \in Pools : Move(p, q)
                      \/ \E f \in Fns : SetCleanupFn(p, f)
                      \/ Start(p) \/ StartFails(p) \/ Stop(p)
                      \/ Destroy(p) \/ DestroyMembers(p)
  \/ \E t \in Threads : CountDownLate(t) \/ LeaveRun(t)
  \/ StopReturn

Spec == Init /\ [][Next]_vars

\* The pool threads are scheduled by the OS, and a stop() that may return does.
Fairness ==
  /\ \A t \in Threads : /\ WF_vars(CountDownLate(t))
                         /\ WF_vars(serves[t] \in stopped /\ LeaveRun(t))
  /\ WF_vars(StopReturn)

FairSpec == Spec /\ Fairness

-------------------------------------------------------------------------------
(* Properties *)

TypeOK ==
  /\ life \in [Pools -> {"none", "alive", "dead"}]
  /\ running \in [Pools -> BOOLEAN]
  /\ handles \in [Pools -> SUBSET Threads]
  /\ ctx \in [Pools -> Pools \cup {NoPool}]
  /\ guards \in [Pools -> Pools \cup {NoPool}]
  /\ onExit \in [Pools -> Fns \cup {NoFn}]
  /\ joining \in Pools \cup {NoPool} /\ dying \in BOOLEAN
  /\ stopped \subseteq IF joining = NoPool THEN {} ELSE {ctx[joining]}
  /\ state \in [Threads -> {"none", "late", "run", "exited"}]
  /\ this \in [Threads -> Pools \cup {NoPool}]
  /\ serves \in [Threads -> Pools \cup {NoPool}]
  /\ called \in [Threads -> Fns \cup {NoFn}]
  /\ wanted \in [Pools -> Fns \cup {NoFn}]
  /\ moved \subseteq Pools /\ failed \subseteq Pools
  /\ ended \in BOOLEAN

Unjoined == {t \in Threads : state[t] # "none"}

(***************************************************************************)
(* While the process lives, a thread that was not joined has its handle in *)
(* exactly one pool, a live one that owns the contexts the thread serves:  *)
(* a move takes threads_ and services_ together.                           *)
(* ThreadPool::ThreadPool(ThreadPool&&), start(), stop().                  *)
(***************************************************************************)
OneOwner ==
  ~ended => \A t \in Unjoined :
    \E p \in Pools : /\ life[p] = "alive" /\ ctx[p] = serves[t]
                     /\ {q \in Pools : t \in handles[q]} = {p}

(***************************************************************************)
(* The threads of a running pool are all serving, whichever pool created   *)
(* them: the guards of start() survive a move, and no context is started   *)
(* that a stop() has left stopped.                                         *)
(***************************************************************************)
RunningServes ==
  \A p \in Pools : running[p] =>
    /\ guards[p] = ctx[p] /\ ctx[p] \notin stopped
    /\ \A t \in handles[p] : state[t] \in {"late", "run"}

(***************************************************************************)
(* Destroying, moving, stopping and starting pools in any order never ends *)
(* the process, unless a start() failed, or a pool was destroyed whose     *)
(* threads a move had handed to another one.                               *)
(* ThreadPool::~ThreadPool, ThreadPool::ThreadPool(ThreadPool&&).          *)
(***************************************************************************)
OnlyMisuseIsFatal ==
  [][ended' /\ ~ended => \/ failed # {} \/ \E t \in Threads : state[t] = "late"
                        \/ \E t \in Threads : state[t] = "run" /\ life[this[t]] = "dead"]_vars

(***************************************************************************)
(* A thread of contexts that never changed owner has called, when it       *)
(* exits, the function last given to set_cleanup_fn().                     *)
(***************************************************************************)
UnmovedCleansUp ==
  \A t \in Threads : state[t] = "exited" /\ serves[t] \notin moved
                       => called[t] = wanted[serves[t]]

(***************************************************************************)
(* stop(), or the destructor, returns unless the process ends: the         *)
(* contexts it stops are those its threads serve.                          *)
(***************************************************************************)
JoinsReturn == joining # NoPool ~> joining = NoPool \/ ended

(***************************************************************************)
(* "called by each thread before exiting" (ThreadPool.hpp:110), of the     *)
(* function given to set_cleanup_fn() of the object that owned the context *)
(* then, whether or not a move followed; the threads of a pool that is     *)
(* gone are left aside.                                                    *)
(***************************************************************************)
EveryExitCleansUp ==
  \A t \in Threads : state[t] = "exited" /\ life[this[t]] = "alive"
                       => called[t] = wanted[serves[t]]
===============================================================================
