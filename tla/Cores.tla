--------------------------------- MODULE Cores ---------------------------------
(***************************************************************************)
(* detail::Cores (Cores.cpp) and the dispatchers of ThreadPool.cpp that    *)
(* bind the threads of a pool to cores.  The affinity functions of         *)
(* Thread.cpp make a Cores object, use it and destroy it.                  *)
(*                                                                         *)
(* A topology is a resource of hwloc: made by init or dup, gone after      *)
(* destroy.  A Core remembers the topology its hwloc object is part of,    *)
(* and its place there.                                                    *)
(***************************************************************************)
EXTENDS Integers, Sequences, FiniteSets

CONSTANTS
  Objects,     \* Cores objects, used again after they were destroyed
  Topologies,  \* identities of topologies, each used once (bound)
  NbCores,     \* [Kinds -> Nat], what hwloc counts
  MaxThreads   \* threads bound by one dispatcher (bound)

Kinds == {"PHYSICAL", "ALL"}
NoTopology == "nullptr"

VARIABLES
  alive,        \* the objects that exist
  opt,          \* opt_
  topology,     \* topology_
  nbCores,      \* nb_cores_
  cores,        \* cores_
  currentCore,  \* current_core of the dispatcher an object is a member of
  used,         \* topologies made so far
  live,         \* ... and not destroyed
  bound,        \* how many threads each dispatcher bound to each core
  assigned,     \* history: objects that were assigned to, or made from such
  leaked        \* history: topologies an assignment left without an owner

members == <<opt, topology, nbCores, cores>>
vars == <<alive, members, currentCore, used, live, bound, assigned,
          leaked>>

NoThread == [k \in 0 .. MaxThreads |-> 0]

Init ==
  /\ alive = {} /\ used = {} /\ live = {}
  /\ assigned = {} /\ leaked = {}
  /\ opt = [o \in Objects |-> "PHYSICAL"]
  /\ topology = [o \in Objects |-> NoTopology]
  /\ nbCores = [o \in Objects |-> 0]
  /\ cores = [o \in Objects |-> <<>>]
  /\ currentCore = [o \in Objects |-> 0]
  /\ bound = [o \in Objects |-> NoThread]

-------------------------------------------------------------------------------
(* get_cores() and the topology *)

\* A new topology; which one makes no difference.
Make(t) ==
  /\ t = CHOOSE u \in Topologies : u \notin used
  /\ used' = used \cup {t} /\ live' = live \cup {t}

CoresOf(t, kind) == [k \in 1 .. NbCores[kind] |-> [topology |-> t, place |-> k - 1]]

\* o gets kind and t, and the cores of t behind those it has.
GetCores(o, kind, t, has) ==
  /\ opt' = [opt EXCEPT ![o] = kind]
  /\ nbCores' = [nbCores EXCEPT ![o] = NbCores[kind]]
  /\ cores' = [cores EXCEPT ![o] = has \o CoresOf(t, kind)]

\* Faulty: the object moved from keeps its topology.
TakenCopied(o, from) == [topology EXCEPT ![o] = topology[from]]

\* topology_ = cores.topology_; cores.topology_ = nullptr
Taken(o, from) == [topology EXCEPT ![o] = topology[from], ![from] = NoTopology]

Dispatcher(o, current, count) ==
  /\ currentCore' = [currentCore EXCEPT ![o] = current]
  /\ bound' = [bound EXCEPT ![o] = count]
  /\ UNCHANGED leaked

Inherited(o, from) == assigned \cup (IF from \in assigned THEN {o} ELSE {})

\* Bound: an object is assigned to once.
Leak(o) ==
  /\ o \notin assigned
  /\ assigned' = assigned \cup {o}
  /\ leaked' = leaked \cup ({topology[o]} \ {NoTopology})

-------------------------------------------------------------------------------
(* The members of Cores *)

Construct(o, kind) ==
  /\ o \notin alive /\ used # Topologies
  /\ \E t \in Topologies :
       /\ Make(t)
       /\ topology' = [topology EXCEPT ![o] = t]
       /\ GetCores(o, kind, t, <<>>)
  /\ alive' = alive \cup {o} /\ UNCHANGED assigned
  /\ Dispatcher(o, 0, NoThread)

\* An object that was moved from may be assigned to or destroyed.
Usable(from) == from \in alive /\ topology[from] # NoTopology

\* The number taken over is counted anew, and that of `from` set to zero.
MovedMembers(o, from, has) ==
  /\ topology' = Taken(o, from)
  /\ opt' = [opt EXCEPT ![o] = opt[from]]
  /\ nbCores' = [nbCores EXCEPT ![o] = NbCores[opt[from]], ![from] = 0]
  /\ cores' = [cores EXCEPT ![o] = has \o CoresOf(topology[from], opt[from])]

\* std::bind and std::function move the dispatcher, current_core with it.
MoveConstruct(o, from) ==
  /\ o \notin alive /\ Usable(from)
  /\ MovedMembers(o, from, <<>>)
  /\ alive' = alive \cup {o}
  /\ assigned' = Inherited(o, from)
  /\ Dispatcher(o, currentCore[from], bound[from])
  /\ UNCHANGED <<used, live>>

\* The old topology is neither destroyed nor kept, and cores_ is not emptied.
MoveAssign(o, from) ==
  /\ o \in alive /\ Usable(from) /\ o # from
  /\ MovedMembers(o, from, cores[o])
  /\ Leak(o)
  /\ UNCHANGED <<alive, used, live, currentCore, bound>>

CopyConstruct(o, from) ==
  /\ o \notin alive /\ Usable(from) /\ used # Topologies
  /\ \E t \in Topologies :
       /\ Make(t)
       /\ topology' = [topology EXCEPT ![o] = t]
       /\ GetCores(o, opt[from], t, <<>>)
  /\ alive' = alive \cup {o} /\ assigned' = Inherited(o, from)
  /\ Dispatcher(o, currentCore[from], bound[from])

\* The cores of the old topology stay, whatever their number is.
CopyAssign(o, from) ==
  /\ o \in alive /\ Usable(from) /\ used # Topologies
  /\ \E t \in Topologies : Make(t) /\ topology' = [topology EXCEPT ![o] = t]
  /\ opt' = [opt EXCEPT ![o] = opt[from]]
  /\ nbCores' = [nbCores EXCEPT ![o] = nbCores[from]]
  /\ Leak(o)
  /\ UNCHANGED <<alive, cores, currentCore, bound>>

\* The place of the object is free for another one, as in the beginning.
Destroy(o) ==
  /\ o \in alive
  /\ alive' = alive \ {o} /\ live' = live \ {topology[o]}
  /\ topology' = [topology EXCEPT ![o] = NoTopology]
  /\ opt' = [opt EXCEPT ![o] = "PHYSICAL"]
  /\ nbCores' = [nbCores EXCEPT ![o] = 0]
  /\ cores' = [cores EXCEPT ![o] = <<>>]
  /\ assigned' = assigned \ {o}
  /\ Dispatcher(o, 0, NoThread)
  /\ UNCHANGED used

-------------------------------------------------------------------------------
(* Binding a thread *)

\* Faulty: the counter is not brought back into the range of the cores.
ChosenUnbounded(o) == currentCore[o]

\* cores[current_core++ % cores.cores()]
Chosen(o) == currentCore[o] % nbCores[o]

\* One more thread of dispatcher o is bound to core k; where hwloc refuses, this is
\* logged and forgotten.
Bind(o, k) == bound' = [bound EXCEPT ![o][k] = @ + 1]

SetAffinity(o) ==
  /\ Usable(o) /\ o \notin assigned
  /\ currentCore[o] < MaxThreads
  /\ currentCore' = [currentCore EXCEPT ![o] = @ + 1]
  /\ Bind(o, Chosen(o))
  /\ UNCHANGED <<alive, members, used, live, assigned, leaked>>

Next ==
  \E o \in Objects :
    \/ \E kind \in Kinds : Construct(o, kind)
    \/ \E from \in Objects : \/ MoveConstruct(o, from) \/ MoveAssign(o, from)
                             \/ CopyConstruct(o, from) \/ CopyAssign(o, from)
    \/ Destroy(o)
    \/ SetAffinity(o)

Spec == Init /\ [][Next]_vars

-------------------------------------------------------------------------------
(* Properties *)

(***************************************************************************)
(* Every topology has one owner, which destroys it: only an assignment can *)
(* leave one behind.  An object that was not assigned to hands out the     *)
(* cores of the topology it owns, all of them, and is never asked to       *)
(* divide by zero.  Constructors, assignments and destructor of Cores.     *)
(***************************************************************************)
CoresAreOwned ==
  /\ live = leaked \cup {topology[o] : o \in {p \in alive : Usable(p)}}
  /\ \A o \in alive \ assigned : Usable(o) =>
       /\ topology[o] \notin leaked
       /\ \A p \in alive \ {o} : topology[p] # topology[o]
       /\ cores[o] = CoresOf(topology[o], opt[o])
       /\ nbCores[o] = Len(cores[o]) /\ nbCores[o] > 0

(***************************************************************************)
(* A dispatcher, moved and copied as it may be, binds its threads to cores *)
(* that exist, and to each of them as often as to any other, up to one.    *)
(* ThreadDispatcher::set_affinity.                                         *)
(***************************************************************************)
ThreadsSpread ==
  \A o \in alive \ assigned : Usable(o) =>
    /\ \A k \in DOMAIN bound[o] : bound[o][k] > 0 => k < Len(cores[o])
    /\ \A k, l \in 0 .. NbCores[opt[o]] - 1 : bound[o][k] <= bound[o][l] + 1
===============================================================================
