------------------------------ MODULE ThreadParts ------------------------------
(***************************************************************************)
(* The parts of commonpp::thread that share no state with another: the     *)
(* choice of a context, the binding of threads to cores, ThreadTimer.  A   *)
(* behaviour is one of a program that uses one of them; the others stay as *)
(* they are.                                                               *)
(***************************************************************************)
EXTENDS Integers

CONSTANTS
  Shapes, Callers, UIntMod, MaxCalls, MaxHandles,
  Objects, Topologies, NbCores, MaxThreads,
  Threads, NsPerSec, MaxTime

\* What the constructor of ThreadPool accepts, an atomic_uint holds and hwloc counts; a
\* topology is no null pointer.  The bound on the threads of a dispatcher lets it go round
\* all cores.
ASSUME ThreadAssumption ==
  /\ \A shape \in Shapes :
       shape[1] \in Nat /\ shape[2] \in 1 .. shape[1] /\ shape[1] % shape[2] = 0
  /\ UIntMod \in Nat \ {0}
  /\ MaxThreads \in Nat /\ \A kind \in {"PHYSICAL", "ALL"} : NbCores[kind] \in 1 .. MaxThreads
  /\ "nullptr" \notin Topologies
  /\ NsPerSec \in Nat \ {0}

VARIABLE part  \* "selection", "affinity" or "timer"

VARIABLES nbThread, nbServices, currentService, handles, running, left, posted, single,
          wrapped, leftover
selection == <<nbThread, nbServices, currentService, handles, running, left, posted, single,
               wrapped, leftover>>
S == INSTANCE ServiceSelection

VARIABLES alive, opt, topology, nbCores, cores, currentCore, used, live, bound, assigned,
          leaked
affinity == <<alive, opt, topology, nbCores, cores, currentCore, used, live, bound, assigned,
              leaked>>
A == INSTANCE Cores

VARIABLES now, cpu, ended, clock, start, wall, at, result, spent, gap
timer == <<now, cpu, ended, clock, start, wall, at, result, spent, gap>>
T == INSTANCE ThreadTimer

vars == <<part, selection, affinity, timer>>

\* A program that does not select a context has a pool of any one shape.
Init ==
  /\ part \in {"selection", "affinity", "timer"}
  /\ S!Init /\ A!Init /\ T!Init
  /\ part = "selection" \/ <<nbThread, nbServices>> = CHOOSE shape \in Shapes : TRUE

NextSelection == part = "selection" /\ S!Next /\ UNCHANGED <<part, affinity, timer>>
NextAffinity  == part = "affinity"  /\ A!Next /\ UNCHANGED <<part, selection, timer>>
NextTimer     == part = "timer"     /\ T!Next /\ UNCHANGED <<part, selection, affinity>>

Next == NextSelection \/ NextAffinity \/ NextTimer

Spec == Init /\ [][Next]_vars

-------------------------------------------------------------------------------
(* Properties *)

\* CURRENT_SERVICE is right after any starts and stops: module ServiceSelection.
LookupSurvivesFailedStart == S!LookupSurvivesFailedStart

\* No context is preferred by post() or postAll(): module ServiceSelection.
ContextsTakeTurns == S!ContextsTakeTurns

\* No topology is lost or destroyed twice: module Cores.
CoresAreOwned == A!CoresAreOwned

\* Threads are bound to all cores in turn: module Cores.
ThreadsSpread == A!ThreadsSpread

\* elapsed() is the time of the timer's thread: module ThreadTimer.
MeasuresItsThread == T!MeasuresItsThread
===============================================================================
