---------------------------- MODULE ScheduledTimer ----------------------------
(***************************************************************************)
(* ThreadPool::schedule and ThreadPool::schedule_timer (ThreadPool.hpp):   *)
(* a callable that runs every delay until it returns false or its timer is *)
(* cancelled.                                                              *)
(*                                                                         *)
(* The threads of the io_context that owns the timers, the clock, and      *)
(* whoever holds a TimerPtr interleave.  The waitable timer is external    *)
(* code: a wait is pending until it expires or is cancelled; either way    *)
(* its handler is then queued with the outcome, and from there on cancel() *)
(* finds nothing to cancel.  Of the pool only what TaskPool promises is    *)
(* used: handlers run while it is active, and stop() returns when none is  *)
(* in progress.                                                            *)
(***************************************************************************)
EXTENDS Integers, Sequences, FiniteSets

CONSTANTS
  Timers,     \* the timers schedule() returns
  Workers,    \* the threads that run their io_context
  Delay,      \* the delay given to schedule(), in ticks of its own duration type
  TicksPerMs  \* ticks of that type in a millisecond

NoTimer == "no timer"

ASSUME TimerAssumption ==
  /\ Delay \in Nat
  /\ TicksPerMs \in Nat \ {0}
  /\ NoTimer \notin Timers

VARIABLES
  active,   \* between start() and the return of stop()
  waits,    \* waits pending on each timer
  left,     \* ticks before the expiry of each timer
  queue,    \* handlers ready to run, each with its timer and its error code
  calling,  \* the timer whose callable each worker is inside
  outcome,  \* history: "new", "live", or why the callable runs no more
  since     \* history: ticks since the timer was last armed (bound: Delay)

vars == <<active, waits, left, queue, calling, outcome, since>>

Handlers == [timer : Timers, error : {"none", "aborted"}]

Init ==
  /\ active = FALSE
  /\ waits = [tm \in Timers |-> 0]
  /\ left = [tm \in Timers |-> 0]
  /\ queue = <<>>
  /\ calling = [w \in Workers |-> NoTimer]
  /\ outcome = [tm \in Timers |-> "new"]
  /\ since = [tm \in Timers |-> 0]

-------------------------------------------------------------------------------
(* Arming a timer *)

\* n handlers of timer tm, with an error code.
Posted(tm, error, n) == [i \in 1 .. n |-> [timer |-> tm, error |-> error]]

\* Faulty: the delay is not set again, the old expiry stays.
ExpiryKept(tm) == left[tm]

\* expires_after(duration_cast<milliseconds>(delay)): whole milliseconds only.
Expiry(tm) == (Delay \div TicksPerMs) * TicksPerMs

\* Faulty: the wait is started twice, or not at all.
WaitsTwice == 2
WaitsNever == 0

\* The waits schedule_timer() starts.
WaitsStarted == 1

\* expires_after() cancels what is pending, async_wait() starts a wait.
ScheduleTimer(tm) ==
  /\ left' = [left EXCEPT ![tm] = Expiry(tm)]
  /\ waits' = [waits EXCEPT ![tm] = WaitsStarted]
  /\ since' = [since EXCEPT ![tm] = 0]

\* schedule(): a new timer.
Schedule(tm) ==
  /\ outcome[tm] = "new"
  /\ outcome' = [outcome EXCEPT ![tm] = "live"]
  /\ ScheduleTimer(tm)
  /\ UNCHANGED <<active, queue, calling>>

\* cancel() through the TimerPtr: only a pending wait is cancelled.
Cancel(tm) ==
  /\ waits[tm] > 0
  /\ waits' = [waits EXCEPT ![tm] = 0]
  /\ queue' = queue \o Posted(tm, "aborted", waits[tm])
  /\ outcome' = [outcome EXCEPT ![tm] = "cancelled"]
  /\ UNCHANGED <<active, left, calling, since>>

-------------------------------------------------------------------------------
(* Time and the io_context *)

Tick ==
  /\ \E tm \in Timers : waits[tm] > 0 /\ left[tm] > 0
  /\ left' = [tm \in Timers |-> IF left[tm] > 0 THEN left[tm] - 1 ELSE 0]
  /\ since' = [tm \in Timers |->
                 IF since[tm] < Delay THEN since[tm] + 1 ELSE Delay]
  /\ UNCHANGED <<active, waits, queue, calling, outcome>>

\* A thread inside run() finds the timer due.
Expire(tm) ==
  /\ active /\ waits[tm] > 0 /\ left[tm] = 0
  /\ waits' = [waits EXCEPT ![tm] = 0]
  /\ queue' = queue \o Posted(tm, "none", waits[tm])
  /\ UNCHANGED <<active, left, calling, outcome, since>>

-------------------------------------------------------------------------------
(* The handler schedule_timer() gives to async_wait() *)

\* Faulty: the error code is ignored.
FailedNever(h) == FALSE

Failed(h) == h.error # "none"

Ready(w) == active /\ calling[w] = NoTimer /\ queue # <<>>

\* operation_aborted: the handler returns.
TakeAborted(w) ==
  /\ Ready(w) /\ Failed(Head(queue))
  /\ queue' = Tail(queue)
  /\ UNCHANGED <<active, waits, left, calling, outcome, since>>

\* The delay is over: the callable is called.
TakeExpired(w) ==
  /\ Ready(w) /\ ~Failed(Head(queue))
  /\ queue' = Tail(queue)
  /\ calling' = [calling EXCEPT ![w] = Head(queue).timer]
  /\ UNCHANGED <<active, waits, left, outcome, since>>

WantsMore(result) == result

\* The callable returns; true, or no value at all, arms the timer again.
Return(w, result) ==
  LET tm == calling[w] IN
  /\ tm # NoTimer
  /\ calling' = [calling EXCEPT ![w] = NoTimer]
  /\ outcome' = [outcome EXCEPT ![tm] = IF result THEN @ ELSE "finished"]
  /\ IF WantsMore(result) THEN ScheduleTimer(tm)
     ELSE UNCHANGED <<waits, left, since>>
  /\ UNCHANGED <<active, queue>>

WorkerStep(w) ==
  TakeAborted(w) \/ TakeExpired(w) \/ \E result \in BOOLEAN : Return(w, result)

-------------------------------------------------------------------------------
(* The pool around it *)

Open == ~active /\ active' = TRUE /\ UNCHANGED <<waits, left, queue, calling, outcome, since>>

\* stop() has returned: no handler is in progress.
Close ==
  /\ active /\ \A w \in Workers : calling[w] = NoTimer
  /\ active' = FALSE
  /\ UNCHANGED <<waits, left, queue, calling, outcome, since>>

Next ==
  \/ \E tm \in Timers : Schedule(tm) \/ Cancel(tm) \/ Expire(tm)
  \/ Tick
  \/ \E w \in Workers : WorkerStep(w)
  \/ Open \/ Close

Spec == Init /\ [][Next]_vars

\* Time passes, the reactor reports expired timers, the workers are scheduled
\* by the OS; nobody has to schedule, cancel, start or stop anything.
Fairness ==
  /\ WF_vars(Tick)
  /\ \A tm \in Timers : WF_vars(Expire(tm))
  /\ \A w \in Workers : WF_vars(WorkerStep(w))

FairSpec == Spec /\ Fairness

-------------------------------------------------------------------------------
(* Properties *)

TypeOK ==
  /\ active \in BOOLEAN
  /\ waits \in [Timers -> {0, 1}]
  /\ left \in [Timers -> 0 .. Delay]
  /\ queue \in Seq(Handlers)
  /\ calling \in [Workers -> Timers \cup {NoTimer}]
  /\ outcome \in [Timers -> {"new", "live", "cancelled", "finished"}]
  /\ since \in [Timers -> 0 .. Delay]

Calling(tm) == {w \in Workers : calling[w] = tm}
QueuedFor(tm) == {k \in DOMAIN queue : queue[k].timer = tm}

(***************************************************************************)
(* A live timer has exactly one wait pending, one handler queued or one    *)
(* call in progress: the chain neither forks nor stops by itself, even     *)
(* when the pool is stopped and started again in between.                  *)
(* ThreadPool::schedule_timer.                                             *)
(***************************************************************************)
OneLinkPerTimer ==
  \A tm \in Timers :
    LET links == waits[tm] + Cardinality(QueuedFor(tm)) + Cardinality(Calling(tm))
    IN  /\ links <= 1
        /\ outcome[tm] = "live" => links = 1

(***************************************************************************)
(* Once cancel() has found a wait to cancel, or the callable has returned  *)
(* false, the callable is not called any more.  A cancel() that comes when *)
(* the handler is queued or running finds nothing and the chain goes on.   *)
(***************************************************************************)
EndedIsFinal ==
  [][\A w \in Workers, tm \in Timers :
        calling'[w] = tm /\ calling[w] # tm => outcome[tm] = "live"]_vars

(***************************************************************************)
(* Two calls, or schedule() and the first call, are apart by the delay up  *)
(* to less than a millisecond, however late the threads and however often  *)
(* the pool is stopped: no burst makes up for missed calls.                *)
(***************************************************************************)
NeverEarly ==
  [][\A w \in Workers, tm \in Timers :
        calling'[w] = tm /\ calling[w] # tm => since[tm] + TicksPerMs > Delay]_vars

(***************************************************************************)
(* While the pool is left running, the callable of a live timer is called  *)
(* again and again, until somebody cancels the wait.                       *)
(***************************************************************************)
KeepsTicking ==
  \A tm \in Timers :
    [](outcome[tm] = "live" /\ []active
         => <>(Calling(tm) # {} \/ outcome[tm] = "cancelled"))
===============================================================================
