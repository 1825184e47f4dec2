------------------------------- MODULE TaskPool -------------------------------
(***************************************************************************)
(* What a user of commonpp::thread::ThreadPool relies on, with no thread,  *)
(* no queue and no io_context: a callable handed to the pool runs at most  *)
(* once, only between a call of start() and the return of the matching     *)
(* stop(), is never left half-run when stop() returns, and never runs once *)
(* the pool is gone.                                                       *)
(***************************************************************************)
CONSTANTS Tasks

VARIABLES
  status,  \* where each callable is in its life
  phase    \* the pool: "stopped", "active" or "gone" (destroyed)

vars == <<status, phase>>

Statuses == {"new", "queued", "running", "done", "dropped"}

Init ==
  /\ status = [x \in Tasks |-> "new"]
  /\ phase = "stopped"

\* The callable is accepted; nothing says yet when it runs.
Submit(x) ==
  /\ phase # "gone"
  /\ status[x] = "new"
  /\ status' = [status EXCEPT ![x] = "queued"]
  /\ UNCHANGED phase

\* A running callable hands over another one that runs on the spot.
RunInline(x) ==
  /\ phase = "active"
  /\ status[x] = "new"
  /\ \E y \in Tasks : status[y] = "running"
  /\ status' = [status EXCEPT ![x] = "running"]
  /\ UNCHANGED phase

Begin(x) ==
  /\ phase = "active"
  /\ status[x] = "queued"
  /\ status' = [status EXCEPT ![x] = "running"]
  /\ UNCHANGED phase

End(x) ==
  /\ status[x] = "running"
  /\ status' = [status EXCEPT ![x] = "done"]
  /\ UNCHANGED phase

Open ==
  /\ phase = "stopped"
  /\ phase' = "active"
  /\ UNCHANGED status

\* stop() returns: nothing is in progress any more.
Close ==
  /\ phase = "active"
  /\ \A x \in Tasks : status[x] # "running"
  /\ phase' = "stopped"
  /\ UNCHANGED status

\* The pool is destroyed: what was still queued is destroyed unrun.
Discard ==
  /\ phase = "stopped"
  /\ phase' = "gone"
  /\ status' = [x \in Tasks |->
                  IF status[x] = "queued" THEN "dropped" ELSE status[x]]

Next ==
  \/ \E x \in Tasks : Submit(x) \/ RunInline(x) \/ Begin(x) \/ End(x)
  \/ Open \/ Close \/ Discard

Spec == Init /\ [][Next]_vars
===============================================================================
