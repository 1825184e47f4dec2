--------------------------- MODULE ServiceSelection ---------------------------
(***************************************************************************)
(* Which io_context a call of ThreadPool means (ThreadPool.cpp, getService *)
(* and getCurrentIOService; ThreadPool.hpp, postAll and dispatchAll), for  *)
(* pools of several shapes, with a counter that wraps around and start()s  *)
(* that fail.                                                              *)
(*                                                                         *)
(* Several threads call post() and postAll(); what runs is left to module  *)
(* ThreadPool.  The threads a start() that failed has created are taken to *)
(* survive the latch that is gone (see PoolOwnership).                     *)
(***************************************************************************)
EXTENDS Integers, Sequences, Functions

CONSTANTS
  Shapes,    \* pairs <<nb_thread, nb_services>>
  Callers,   \* threads outside the pool
  UIntMod,   \* number of values of a std::atomic_uint
  MaxCalls,  \* round-robin calls (bound)
  MaxHandles \* handles in threads_ (bound)

VARIABLES
  nbThread, nbServices,  \* nb_thread_, nb_services_
  currentService,        \* current_service_
  handles,   \* threads_: the context each thread runs
  running,   \* running_
  left,      \* calls of post() a caller's postAll() or dispatchAll() still has to make
  posted,    \* history: callables posted by round robin to each context
  single,    \* history: how many of them by a post() of its own
  wrapped,   \* history: current_service_ has wrapped around
  leftover   \* history: handles that were there when the last start() began

shape == <<nbThread, nbServices>>
vars == <<shape, currentService, handles, running, left, posted, single, wrapped, leftover>>

Services == 0 .. nbServices - 1

Init ==
  /\ \E p \in Shapes : nbThread = p[1] /\ nbServices = p[2]
  /\ currentService = 0
  /\ handles = <<>> /\ running = FALSE
  /\ left = [c \in Callers |-> 0]
  /\ posted = [s \in Services |-> 0]
  /\ single = 0 /\ wrapped = FALSE /\ leftover = 0

-------------------------------------------------------------------------------
(* getService() *)

\* Faulty: the counter is kept below the number of contexts, which it may reach.
RoundRobinClamped == IF currentService < nbServices THEN currentService ELSE nbServices - 1

\* current_service_++ % nb_services_; a pool with one context has no choice.
RoundRobin == IF nbServices = 1 THEN 0 ELSE currentService % nbServices

Advance ==
  IF nbServices = 1 THEN UNCHANGED <<currentService, wrapped>>
  ELSE /\ currentService' = (currentService + 1) % UIntMod
       /\ wrapped' = (wrapped \/ currentService' = 0)

\* Faulty: the position is the number of the context.
FromPositionClamped(i) == IF i < nbServices THEN i ELSE 0

\* getCurrentIOService() on the thread whose handle is at i, counted from 0
FromPosition(i) == i % nbServices

\* CURRENT_SERVICE on that thread
Current(i) == IF nbServices = 1 THEN 0 ELSE FromPosition(i)

-------------------------------------------------------------------------------
(* post(), postAll(), dispatchAll() *)

Calls == FoldFunction(+, 0, posted)

PostOne ==
  /\ posted' = [posted EXCEPT ![RoundRobin] = @ + 1]
  /\ Advance
  /\ UNCHANGED <<shape, handles, running, leftover>>

Post(c) ==
  /\ left[c] = 0 /\ Calls < MaxCalls
  /\ PostOne /\ single' = single + 1
  /\ UNCHANGED left

\* Faulty: one turn is missing.
TurnsShort == nbThread - 1

\* The turns of the loop of postAll() and of the one of dispatchAll(), which is the
\* same: it posts as well.
Turns == nbThread

PostAll(c) ==
  /\ left[c] = 0 /\ Calls + nbThread <= MaxCalls
  /\ left' = [left EXCEPT ![c] = Turns]
  /\ UNCHANGED <<shape, currentService, handles, running, posted, single, wrapped, leftover>>

PostNext(c) ==
  /\ left[c] > 0
  /\ left' = [left EXCEPT ![c] = @ - 1]
  /\ PostOne /\ UNCHANGED single

-------------------------------------------------------------------------------
(* start() and stop() *)

\* The handles of n new threads behind those there are: thread i runs i % nb_services_.
Create(n) ==
  /\ ~running /\ Len(handles) + n <= MaxHandles
  /\ handles' = handles \o [i \in 1 .. n |-> (i - 1) % nbServices]
  /\ leftover' = Len(handles)
  /\ UNCHANGED <<shape, currentService, left, posted, single, wrapped>>

Start == Create(nbThread) /\ running' = TRUE

StartFails == (\E n \in 0 .. nbThread - 1 : Create(n)) /\ UNCHANGED running

Cleared == <<>>

Stop ==
  /\ running /\ running' = FALSE
  /\ handles' = Cleared
  /\ UNCHANGED <<shape, currentService, left, posted, single, wrapped, leftover>>

Next ==
  \/ \E c \in Callers : Post(c) \/ PostAll(c) \/ PostNext(c)
  \/ Start \/ StartFails \/ Stop

Spec == Init /\ [][Next]_vars

-------------------------------------------------------------------------------
(* Properties *)

(***************************************************************************)
(* The context CURRENT_SERVICE gives on a thread of a running pool is the  *)
(* one that thread runs, after any starts and stops; a start() that failed *)
(* can break this only by leaving a number of handles that is no multiple  *)
(* of the number of contexts.  ThreadPool::getCurrentIOService.            *)
(***************************************************************************)
LookupSurvivesFailedStart ==
  running /\ leftover % nbServices = 0 =>
    \A i \in DOMAIN handles : i > leftover => Current(i - 1) = handles[i]

(***************************************************************************)
(* Whoever posts, in whatever order, no context is ahead of another by     *)
(* more than one callable, and calls of postAll() that have returned gave  *)
(* each the same number.  Only a counter that wraps around from a number   *)
(* of values nb_services_ does not divide may repeat a context.            *)
(* ThreadPool::getService, postAll, dispatchAll.                           *)
(***************************************************************************)
ContextsTakeTurns ==
  ~wrapped \/ UIntMod % nbServices = 0 =>
    \A r, s \in Services :
      /\ posted[r] <= posted[s] + 1
      /\ (\A c \in Callers : left[c] = 0) /\ single % nbServices = 0 => posted[r] = posted[s]
===============================================================================
