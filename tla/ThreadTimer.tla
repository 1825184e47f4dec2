------------------------------ MODULE ThreadTimer ------------------------------
(***************************************************************************)
(* ThreadTimer (ThreadTimer.hpp): the CPU time of one thread and the wall  *)
(* time between start() and elapsed().  Each of these reads the two clocks *)
(* one after the other, and time passes in between.                        *)
(*                                                                         *)
(* The clock of the thread is a timespec; a second has NsPerSec            *)
(* nanoseconds here.                                                       *)
(***************************************************************************)
EXTENDS Integers

CONSTANTS
  Threads,   \* the threads of the program
  NsPerSec,  \* a second
  MaxTime    \* wall time (bound)

NoThread == "no thread"

VARIABLES
  now,      \* wall clock
  cpu,      \* CPU time of each thread, as a timespec
  ended,    \* threads that are gone, and their clocks with them
  clock,    \* clock_id_: the thread whose clock it is
  start,    \* start_time_
  wall,     \* where cpu_timer_ was started
  at,       \* "ready", or between the two clocks of "start" or "elapsed"
  result,   \* what elapsed() returned: CPU and wall time; or an exception
  spent,    \* history: CPU time of that thread since start() read its clock
  gap       \* history: wall time between the two steps of start()

timer == <<clock, start, wall, at>>
vars == <<now, cpu, ended, timer, result, spent, gap>>

Zero == [sec |-> 0, nsec |-> 0]
Nothing == [cpu |-> 0, wall |-> 0, threw |-> FALSE]

Init ==
  /\ now = 0 /\ cpu = [t \in Threads |-> Zero] /\ ended = {}
  /\ clock = NoThread /\ start = Zero /\ wall = 0 /\ at = "ready"
  /\ result = Nothing /\ spent = 0 /\ gap = 0

\* The time passes, and the threads of one set run meanwhile.
Tick(running) ==
  /\ now < MaxTime /\ now' = now + 1
  /\ running \cap ended = {}
  /\ cpu' = [t \in Threads |->
       IF t \notin running THEN cpu[t]
       ELSE IF cpu[t].nsec + 1 = NsPerSec THEN [sec |-> cpu[t].sec + 1, nsec |-> 0]
       ELSE [cpu[t] EXCEPT !.nsec = @ + 1]]
  /\ spent' = IF clock \in running THEN spent + 1 ELSE spent
  /\ gap' = IF at = "start" THEN gap + 1 ELSE gap
  /\ UNCHANGED <<ended, timer, result>>

\* A thread is joined.
End(t) ==
  /\ ended' = ended \cup {t}
  /\ UNCHANGED <<now, cpu, timer, result, spent, gap>>

\* clock_gettime() of a thread that is gone fails, and the exception leaves.
Throw == result' = [Nothing EXCEPT !.threw = TRUE]

\* The constructor, on thread self or for the clock of another thread: when it throws, there
\* is no timer.
Construct(self, clockId) ==
  /\ at = "ready" /\ clock = NoThread /\ self \notin ended
  /\ IF clockId \in ended
     THEN Throw /\ UNCHANGED <<clock, start, at, spent, gap>>
     ELSE /\ clock' = IF clockId = NoThread THEN self ELSE clockId
          /\ start' = cpu[clock'] /\ spent' = 0 /\ gap' = 0 /\ at' = "start"
          /\ UNCHANGED result
  /\ UNCHANGED <<now, cpu, ended, wall>>

\* start(), up to the clock of the thread
Start ==
  /\ at = "ready" /\ clock # NoThread
  /\ IF clock \in ended
     THEN Throw /\ UNCHANGED <<start, at, spent, gap>>
     ELSE /\ start' = cpu[clock] /\ spent' = 0 /\ gap' = 0 /\ at' = "start"
          /\ UNCHANGED result
  /\ UNCHANGED <<now, cpu, ended, clock, wall>>

\* cpu_timer_.start()
StartWall ==
  /\ at = "start" /\ at' = "ready"
  /\ wall' = now
  /\ UNCHANGED <<now, cpu, ended, clock, start, result, spent, gap>>

\* Faulty: the seconds are left out.
DifferenceOfNsec(end, begin) == end.nsec - begin.nsec

\* nanoseconds(nsec - nsec) + seconds(sec - sec)
Difference(end, begin) == end.nsec - begin.nsec + NsPerSec * (end.sec - begin.sec)

\* elapsed(), up to the clock of the thread
Elapsed ==
  /\ at = "ready" /\ clock # NoThread
  /\ IF clock \in ended
     THEN Throw /\ UNCHANGED at
     ELSE /\ result' = [Nothing EXCEPT !.cpu = Difference(cpu[clock], start)]
          /\ at' = "elapsed"
  /\ UNCHANGED <<now, cpu, ended, clock, start, wall, spent, gap>>

\* cpu_timer_.elapsed()
ElapsedWall ==
  /\ at = "elapsed" /\ at' = "ready"
  /\ result' = [result EXCEPT !.wall = now - wall]
  /\ UNCHANGED <<now, cpu, ended, clock, start, wall, spent, gap>>

Next ==
  \/ \E running \in SUBSET Threads : Tick(running)
  \/ \E t \in Threads : End(t) \/ \E c \in Threads \cup {NoThread} : Construct(t, c)
  \/ Start \/ StartWall \/ Elapsed \/ ElapsedWall

Spec == Init /\ [][Next]_vars

-------------------------------------------------------------------------------
(* Properties *)

(***************************************************************************)
(* elapsed() is about the thread the timer was made for, whichever thread  *)
(* asks: its CPU time since start(), across any number of seconds, and an  *)
(* exception once the thread is gone.  That time never exceeds the wall    *)
(* time by more than what passes inside start().                           *)
(***************************************************************************)
MeasuresItsThread ==
  [][/\ Elapsed => IF clock \in ended THEN result'.threw ELSE result'.cpu = spent
     /\ ElapsedWall => result'.cpu <= result'.wall + gap]_vars
===============================================================================
