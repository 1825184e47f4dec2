-------------------------- MODULE PoolOwnershipProofs --------------------------
(***************************************************************************)
(* Proofs about the ownership of threads and contexts, for any number of   *)
(* pools, threads and cleanup functions.                                   *)
(*                                                                         *)
(* As long as the process lives, contexts and handles have one owner each  *)
(* (Owned), the threads of a pool that is not being joined are kept in     *)
(* service by its guard (Kept), and a context that never changed owner is  *)
(* looked after by the pool it was constructed with (Unmoved).             *)
(***************************************************************************)
EXTENDS PoolOwnership, TLAPS

Owned ==
  /\ \A p \in Pools : ctx[p] # NoPool => life[p] = "alive" /\ life[ctx[p]] # "none"
  /\ \A p, q \in Pools : ctx[p] = ctx[q] /\ ctx[p] # NoPool => p = q
  /\ \A p \in Pools : running[p] \/ handles[p] # {} => ctx[p] # NoPool
  /\ \A p \in Pools : \A t \in handles[p] : state[t] # "none" /\ serves[t] = ctx[p]
  /\ \A p, q \in Pools : \A t \in handles[p] : t \in handles[q] => p = q
  /\ \A t \in Threads : state[t] # "none" => \E p \in Pools : t \in handles[p]
  /\ joining # NoPool => ~running[joining] /\ ctx[joining] # NoPool

Kept ==
  \A p \in Pools :
    /\ running[p] => guards[p] = ctx[p]
    /\ p # joining /\ handles[p] # {} =>
         guards[p] = ctx[p] /\ \A t \in handles[p] : state[t] \in {"late", "run"}

Unmoved ==
  /\ \A p \in Pools : life[p] = "none" => onExit[p] = NoFn /\ wanted[p] = NoFn
  /\ \A p \in Pools : ctx[p] # NoPool /\ ctx[p] \notin moved =>
       ctx[p] = p /\ onExit[p] = wanted[p] /\ \A t \in handles[p] : this[t] = p
  /\ \A t \in Threads : state[t] # "none" => this[t] \in Pools

\* A process that has ended stays as it is.
IInv ==
  /\ TypeOK /\ RunningServes /\ UnmovedCleansUp
  /\ ~ended => Owned /\ Kept /\ Unmoved

\* A pool starts with a context of its own.
LEMMA ConstructInv == ASSUME IInv, NEW p \in Pools, Construct(p) PROVE IInv'
<1> USE OwnershipAssumption DEF IInv, vars, pools, caller, threads, history
<1>1. TypeOK'
  BY DEF TypeOK, Construct, Free
<1>2. RunningServes'
  BY DEF RunningServes, TypeOK, Owned, Kept, Construct, Free
<1>3. UnmovedCleansUp'
  BY DEF UnmovedCleansUp, TypeOK, Owned, Kept, Unmoved, Construct, Free
<1>4. ~ended' => Owned'
  BY DEF Owned, TypeOK, Kept, Construct, Free
<1>5. ~ended' => Kept'
  BY DEF Kept, TypeOK, Owned, Construct, Free
<1>6. ~ended' => Unmoved'
  BY DEF Unmoved, TypeOK, Owned, Construct, Free
<1> QED BY <1>1, <1>2, <1>3, <1>4, <1>5, <1>6

\* Threads, context and guard change hands together.
LEMMA MoveInv ==
  ASSUME IInv, NEW p \in Pools, NEW q \in Pools, Move(p, q)
  PROVE  IInv'
<1> USE OwnershipAssumption DEF IInv, vars, pools, caller, threads, history
<1> USE DEF Move, Free, MovedRunning, MovedContexts, MovedGuards
<1>1. /\ ~ended /\ joining = NoPool /\ UNCHANGED joining
      /\ ctx[q] = NoPool /\ handles[q] = {} /\ ~running[q] /\ p # q
  BY DEF TypeOK, Owned
<1>2. /\ ctx'[q] = ctx[p] /\ ctx'[p] = NoPool /\ handles'[q] = handles[p] /\ handles'[p] = {}
      /\ guards'[q] = guards[p] /\ (running'[q] <=> running[p]) /\ ~running'[p]
      /\ \A r \in Pools \ {p, q} : /\ ctx'[r] = ctx[r] /\ handles'[r] = handles[r]
                                   /\ guards'[r] = guards[r] /\ (running'[r] <=> running[r])
  BY <1>1 DEF TypeOK
<1>3. TypeOK'
  BY DEF TypeOK
<1>4. RunningServes'
  BY DEF RunningServes, TypeOK, Owned, Kept
<1>5. UnmovedCleansUp'
  BY DEF UnmovedCleansUp, TypeOK, Owned, Kept, Unmoved
<1>6. Owned'
  <2>1. \A r \in Pools : ctx'[r] # NoPool => life'[r] = "alive" /\ life'[ctx'[r]] # "none"
    BY <1>1, <1>2 DEF TypeOK, Owned
  <2>2. \A r, u \in Pools : ctx'[r] = ctx'[u] /\ ctx'[r] # NoPool => r = u
    BY <1>1, <1>2 DEF TypeOK, Owned
  <2>3. \A r \in Pools : running'[r] \/ handles'[r] # {} => ctx'[r] # NoPool
    BY <1>1, <1>2 DEF TypeOK, Owned
  <2>4. \A r \in Pools : \A t \in handles'[r] : state'[t] # "none" /\ serves'[t] = ctx'[r]
    BY <1>1, <1>2 DEF TypeOK, Owned
  <2>5. \A r, u \in Pools : \A t \in handles'[r] : t \in handles'[u] => r = u
    BY <1>1, <1>2 DEF TypeOK, Owned
  <2>6. \A t \in Threads : state'[t] # "none" => \E r \in Pools : t \in handles'[r]
    <3>1. SUFFICES ASSUME NEW t \in Threads, state'[t] # "none"
                   PROVE  \E r \in Pools : t \in handles'[r]
      OBVIOUS
    <3>2. PICK r \in Pools : t \in handles[r]
      BY <3>1 DEF Owned
    <3> QED BY <1>1, <1>2, <3>2
  <2> QED BY <1>1, <2>1, <2>2, <2>3, <2>4, <2>5, <2>6 DEF Owned
<1>7. Kept'
  <2>1. SUFFICES ASSUME NEW r \in Pools, running'[r] \/ handles'[r] # {}
                 PROVE  /\ guards'[r] = ctx'[r]
                        /\ \A t \in handles'[r] : state'[t] \in {"late", "run"}
    BY DEF Kept
  <2>2. p # joining /\ state' = state
    BY <1>1
  <2>3. CASE r = p
    BY <1>2, <2>1, <2>3
  <2>4. CASE r = q
    <3>1. running[p] \/ handles[p] # {}
      BY <1>2, <2>1, <2>4
    <3>2. guards[p] = ctx[p] /\ \A t \in handles[p] : state[t] \in {"late", "run"}
      BY <1>1, <2>2, <3>1 DEF Kept
    <3>3. guards'[q] = ctx'[q]
      BY <1>2, <3>2
    <3>4. \A t \in handles'[q] : state'[t] \in {"late", "run"}
      BY <1>2, <2>2, <3>2
    <3> QED BY <2>4, <3>3, <3>4
  <2>5. CASE r \notin {p, q}
    <3>1. r # joining /\ (running[r] \/ handles[r] # {})
      BY <1>1, <1>2, <2>1, <2>5
    <3>2. guards[r] = ctx[r] /\ \A t \in handles[r] : state[t] \in {"late", "run"}
      BY <1>1, <3>1 DEF Kept
    <3> QED BY <1>2, <2>2, <2>5, <3>2
  <2> QED BY <2>3, <2>4, <2>5
<1>8. Unmoved'
  BY <1>1 DEF Unmoved, TypeOK, Owned
<1> QED BY <1>3, <1>4, <1>5, <1>6, <1>7, <1>8

\* No thread has exited while a function is set.
LEMMA SetCleanupFnInv == ASSUME IInv, NEW p \in Pools, NEW f \in Fns, SetCleanupFn(p, f) PROVE IInv'
<1> USE OwnershipAssumption DEF IInv, vars, pools, caller, threads, history
<1>1. TypeOK'
  BY DEF TypeOK, SetCleanupFn, Free
<1>2. RunningServes'
  BY DEF RunningServes, TypeOK, Owned, Kept, SetCleanupFn, Free
<1>3. UnmovedCleansUp'
  BY DEF UnmovedCleansUp, TypeOK, Owned, Kept, Unmoved, SetCleanupFn, Free
<1>4. ~ended' => Owned'
  BY DEF Owned, TypeOK, Kept, SetCleanupFn, Free
<1>5. ~ended' => Kept'
  BY DEF Kept, TypeOK, Owned, SetCleanupFn, Free
<1>6. ~ended' => Unmoved'
  BY DEF Unmoved, TypeOK, Owned, SetCleanupFn, Free
<1> QED BY <1>1, <1>2, <1>3, <1>4, <1>5, <1>6

\* The contexts and the threads of a pool that is being joined stay with it.
LEMMA StopInv == ASSUME IInv, NEW p \in Pools, Stop(p) PROVE IInv'
<1> USE OwnershipAssumption DEF IInv, vars, pools, caller, threads, history
<1>1. TypeOK'
  BY DEF TypeOK, Stop, Free, StopContexts
<1>2. RunningServes'
  BY DEF RunningServes, TypeOK, Owned, Kept, Stop, Free, StopContexts
<1>3. UnmovedCleansUp'
  BY DEF UnmovedCleansUp, TypeOK, Owned, Kept, Unmoved, Stop, Free, StopContexts
<1>4. ~ended' => Owned'
  BY DEF Owned, TypeOK, Kept, Stop, Free, StopContexts
<1>5. ~ended' => Kept'
  BY DEF Kept, TypeOK, Owned, Stop, Free, StopContexts
<1>6. ~ended' => Unmoved'
  BY DEF Unmoved, TypeOK, Owned, Stop, Free, StopContexts
<1> QED BY <1>1, <1>2, <1>3, <1>4, <1>5, <1>6

\* A destructor that has to stop the pool starts as stop() does.
LEMMA DestroyInv == ASSUME IInv, NEW p \in Pools, Destroy(p) PROVE IInv'
<1> USE OwnershipAssumption DEF IInv, vars, pools, caller, threads, history
<1>1. TypeOK'
  BY DEF TypeOK, Destroy, Free, MustStop, StopContexts
<1>2. RunningServes'
  BY DEF RunningServes, TypeOK, Owned, Kept, Destroy, Free, MustStop, StopContexts
<1>3. UnmovedCleansUp'
  BY DEF UnmovedCleansUp, TypeOK, Owned, Kept, Unmoved, Destroy, Free, MustStop, StopContexts
<1>4. ~ended' => Owned'
  BY DEF Owned, TypeOK, Kept, Destroy, Free, MustStop, StopContexts
<1>5. ~ended' => Kept'
  BY DEF Kept, TypeOK, Owned, Destroy, Free, MustStop, StopContexts
<1>6. ~ended' => Unmoved'
  BY DEF Unmoved, TypeOK, Owned, Destroy, Free, MustStop, StopContexts
<1> QED BY <1>1, <1>2, <1>3, <1>4, <1>5, <1>6

\* The members of a pool that is not running go: while the process lives on,
\* no handle was left in it.
LEMMA DestroyMembersInv == ASSUME IInv, NEW p \in Pools, DestroyMembers(p) PROVE IInv'
<1> USE OwnershipAssumption DEF IInv, vars, pools, caller, threads, history
<1>1. TypeOK'
  BY DEF TypeOK, DestroyMembers, Free, MustStop
<1>2. RunningServes'
  BY DEF RunningServes, TypeOK, Owned, Kept, DestroyMembers, Free, MustStop
<1>3. UnmovedCleansUp'
  BY DEF UnmovedCleansUp, TypeOK, Owned, Kept, Unmoved, DestroyMembers, Free, MustStop
<1>4. ~ended' => Owned'
  <2>1. SUFFICES ASSUME ~ended' PROVE Owned'
    OBVIOUS
  <2>2. /\ ~ended /\ UNCHANGED <<joining, handles, running, state, serves>> /\ joining = NoPool
        /\ handles[p] = {} /\ ctx'[p] = NoPool /\ \A r \in Pools \ {p} : ctx'[r] = ctx[r]
        /\ life'[p] = "dead" /\ \A r \in Pools \ {p} : life'[r] = life[r]
        /\ ~running[p]
    BY <2>1 DEF TypeOK, DestroyMembers, Free, MustStop
  <2>3. \A r \in Pools : ctx'[r] # NoPool => life'[r] = "alive" /\ life'[ctx'[r]] # "none"
    BY <2>2 DEF TypeOK, Owned
  <2>4. \A r \in Pools : running'[r] \/ handles'[r] # {} => ctx'[r] # NoPool
    BY <2>2 DEF Owned
  <2>5. \A r \in Pools : \A t \in handles'[r] : state'[t] # "none" /\ serves'[t] = ctx'[r]
    BY <2>2 DEF Owned
  <2> QED BY <2>2, <2>3, <2>4, <2>5 DEF Owned
<1>5. ~ended' => Kept'
  BY DEF Kept, TypeOK, Owned, DestroyMembers, Free, MustStop
<1>6. ~ended' => Unmoved'
  BY DEF Unmoved, TypeOK, Owned, DestroyMembers, Free, MustStop
<1> QED BY <1>1, <1>2, <1>3, <1>4, <1>5, <1>6

\* A late thread of a start() that failed goes on to serve, or the process ends.
LEMMA CountDownLateInv == ASSUME IInv, NEW t \in Threads, CountDownLate(t) PROVE IInv'
<1> USE OwnershipAssumption DEF IInv, vars, pools, caller, threads, history
<1>1. TypeOK'
  <2>1. CASE state' = [state EXCEPT ![t] = "run"] /\ UNCHANGED ended
    BY <2>1 DEF TypeOK, CountDownLate
  <2>2. CASE ended' = TRUE /\ UNCHANGED state
    BY <2>2 DEF TypeOK, CountDownLate
  <2> QED BY <2>1, <2>2 DEF CountDownLate
<1>2. RunningServes'
  BY DEF RunningServes, TypeOK, Owned, Kept, CountDownLate
<1>3. UnmovedCleansUp'
  BY DEF UnmovedCleansUp, TypeOK, Owned, Kept, Unmoved, CountDownLate
<1>4. ~ended' => Owned'
  BY DEF Owned, TypeOK, Kept, CountDownLate
<1>5. ~ended' => Kept'
  BY DEF Kept, TypeOK, Owned, CountDownLate
<1>6. ~ended' => Unmoved'
  BY DEF Unmoved, TypeOK, Owned, CountDownLate
<1> QED BY <1>1, <1>2, <1>3, <1>4, <1>5, <1>6

\* A thread finds the function of the pool that created it.
LEMMA LeaveRunInv == ASSUME IInv, NEW t \in Threads, LeaveRun(t) PROVE IInv'
<1> USE OwnershipAssumption DEF IInv, vars, pools, caller, threads, history
<1>1. TypeOK'
  <2>1. this[t] \in Pools
    BY DEF Unmoved, LeaveRun
  <2>2. ExitFn(t) \subseteq Fns \cup {NoFn}
    BY <2>1 DEF TypeOK, ExitFn
  <2>3. called' \in [Threads -> Fns \cup {NoFn}]
    BY <2>2 DEF TypeOK, LeaveRun
  <2>4. ended' \in BOOLEAN
    BY DEF LeaveRun
  <2> QED BY <2>3, <2>4 DEF TypeOK, LeaveRun
<1>2. RunningServes'
  BY DEF RunningServes, TypeOK, Owned, Kept, LeaveRun, MayLeave, ExitFn
<1>3. UnmovedCleansUp'
  BY DEF UnmovedCleansUp, TypeOK, Owned, Kept, Unmoved, LeaveRun, MayLeave, ExitFn
<1>4. ~ended' => Owned'
  BY DEF Owned, TypeOK, Kept, LeaveRun, MayLeave, ExitFn
<1>5. ~ended' => Kept'
  BY DEF Kept, TypeOK, Owned, LeaveRun, MayLeave, ExitFn
<1>6. ~ended' => Unmoved'
  BY DEF Unmoved, TypeOK, Owned, LeaveRun, MayLeave, ExitFn
<1> QED BY <1>1, <1>2, <1>3, <1>4, <1>5, <1>6

\* The joined threads are free again, and the contexts are usable.
LEMMA StopReturnInv == ASSUME IInv, StopReturn PROVE IInv'
<1> USE OwnershipAssumption DEF IInv, vars, pools, caller, threads, history
<1>1. TypeOK'
  BY DEF TypeOK, StopReturn, Cleared, Restart
<1>2. RunningServes'
  BY DEF RunningServes, TypeOK, Owned, Kept, StopReturn, Cleared, Restart
<1>3. UnmovedCleansUp'
  BY DEF UnmovedCleansUp, TypeOK, Owned, Kept, Unmoved, StopReturn, Cleared, Restart
<1>4. ~ended' => Owned'
  BY DEF Owned, TypeOK, Kept, StopReturn, Cleared, Restart
<1>5. ~ended' => Kept'
  BY DEF Kept, TypeOK, Owned, StopReturn, Cleared, Restart
<1>6. ~ended' => Unmoved'
  BY DEF Unmoved, TypeOK, Owned, StopReturn, Cleared, Restart
<1> QED BY <1>1, <1>2, <1>3, <1>4, <1>5, <1>6

\* New threads serve the contexts of the pool that starts them.
LEMMA CreateInv ==
  ASSUME IInv, NEW p \in Pools, Free(p), ctx[p] # NoPool,
         NEW ts \in SUBSET Unused, NEW st \in {"late", "run"}, Create(p, ts, st),
         running' \in [Pools -> BOOLEAN],
         \A r \in Pools \ {p} : running'[r] = running[r],
         failed' \in SUBSET Pools
  PROVE  IInv'
<1> USE OwnershipAssumption DEF IInv, vars, pools, caller, threads, history
<1>1. /\ ~ended /\ ~ended' /\ joining = NoPool /\ joining' = NoPool /\ stopped = {} /\ stopped' = {}
      /\ UNCHANGED <<life, ctx, onExit, called, wanted, moved>>
      /\ \A t \in ts : t \in Threads /\ state[t] = "none" /\ state'[t] = st
                       /\ this'[t] = p /\ serves'[t] = ctx[p]
      /\ \A t \in Threads \ ts : state'[t] = state[t] /\ this'[t] = this[t] /\ serves'[t] = serves[t]
      /\ handles'[p] = handles[p] \cup ts /\ guards'[p] = ctx[p]
      /\ \A r \in Pools \ {p} : handles'[r] = handles[r] /\ guards'[r] = guards[r]
  BY DEF TypeOK, Create, Free, Unused
<1>2. TypeOK'
  BY DEF TypeOK, Create, Free, Unused
<1>3. Owned'
  <2>1. \A r \in Pools : ctx'[r] # NoPool => life'[r] = "alive" /\ life'[ctx'[r]] # "none"
    BY <1>1 DEF Owned
  <2>2. \A r, u \in Pools : ctx'[r] = ctx'[u] /\ ctx'[r] # NoPool => r = u
    BY <1>1 DEF Owned
  <2>3. \A r \in Pools : running'[r] \/ handles'[r] # {} => ctx'[r] # NoPool
    BY <1>1 DEF Owned
  <2>4. \A r \in Pools : \A t \in handles'[r] : state'[t] # "none" /\ serves'[t] = ctx'[r]
    BY <1>1 DEF Owned, TypeOK
  <2>5. \A r, u \in Pools : \A t \in handles'[r] : t \in handles'[u] => r = u
    BY <1>1 DEF Owned
  <2>6. \A t \in Threads : state'[t] # "none" => \E r \in Pools : t \in handles'[r]
    <3>1. SUFFICES ASSUME NEW t \in Threads, state'[t] # "none"
                   PROVE  \E r \in Pools : t \in handles'[r]
      OBVIOUS
    <3>2. CASE t \in ts
      BY <1>1, <3>2
    <3>3. CASE t \notin ts
      BY <1>1, <3>1, <3>3 DEF Owned
    <3> QED BY <3>2, <3>3
  <2> QED BY <1>1, <2>1, <2>2, <2>3, <2>4, <2>5, <2>6 DEF Owned
<1>4. Kept'
  BY <1>1 DEF Kept, TypeOK, Owned
<1>5. Unmoved'
  <2>1. \A r \in Pools : life'[r] = "none" => onExit'[r] = NoFn /\ wanted'[r] = NoFn
    BY <1>1 DEF Unmoved
  <2>2. \A r \in Pools : ctx'[r] # NoPool /\ ctx'[r] \notin moved' =>
          ctx'[r] = r /\ onExit'[r] = wanted'[r] /\ \A t \in handles'[r] : this'[t] = r
    BY <1>1 DEF Unmoved, TypeOK, Owned
  <2>3. \A t \in Threads : state'[t] # "none" => this'[t] \in Pools
    BY <1>1 DEF Unmoved
  <2> QED BY <2>1, <2>2, <2>3 DEF Unmoved
<1>6. RunningServes'
  <2>1. SUFFICES ASSUME NEW r \in Pools, running'[r]
                 PROVE  /\ guards'[r] = ctx'[r]
                        /\ \A t \in handles'[r] : state'[t] \in {"late", "run"}
    BY <1>1 DEF RunningServes
  <2> QED BY <1>1, <1>4, <2>1 DEF Kept
<1>7. UnmovedCleansUp'
  BY <1>1 DEF UnmovedCleansUp, TypeOK
<1> QED BY <1>1, <1>2, <1>3, <1>4, <1>5, <1>6, <1>7

\* Threads that are taken are unused ones.
LEMMA FreshUnused == ASSUME NEW n \in Nat, NEW ts \in Fresh(n) PROVE ts \in SUBSET Unused
BY DEF Fresh

LEMMA StartInv == ASSUME IInv, NEW p \in Pools, Start(p) PROVE IInv'
<1>1. PICK ts \in Fresh(NbThread) : Create(p, ts, "run")
  BY DEF Start
<1>2. ts \in SUBSET Unused
  BY <1>1, OwnershipAssumption, FreshUnused
<1>3. /\ running' \in [Pools -> BOOLEAN] /\ failed' \in SUBSET Pools
      /\ \A r \in Pools \ {p} : running'[r] = running[r]
  BY DEF IInv, TypeOK, Start
<1> QED BY <1>1, <1>2, <1>3, CreateInv DEF Start

LEMMA StartFailsInv == ASSUME IInv, NEW p \in Pools, StartFails(p) PROVE IInv'
<1>1. PICK n \in 0 .. NbThread - 1 : \E ts \in Fresh(n) : Create(p, ts, "late")
  BY DEF StartFails
<1>2. PICK ts \in Fresh(n) : Create(p, ts, "late")
  BY <1>1
<1>3. ts \in SUBSET Unused
  BY <1>2, OwnershipAssumption, FreshUnused
<1>4. /\ running' \in [Pools -> BOOLEAN] /\ failed' \in SUBSET Pools
      /\ \A r \in Pools \ {p} : running'[r] = running[r]
  BY DEF IInv, TypeOK, StartFails, Free
<1> QED BY <1>2, <1>3, <1>4, CreateInv DEF StartFails

LEMMA InitInv == Init => IInv
BY OwnershipAssumption
   DEF Init, IInv, TypeOK, RunningServes, UnmovedCleansUp, Owned, Kept, Unmoved

LEMMA NextInv == IInv /\ [Next]_vars => IInv'
<1> SUFFICES ASSUME IInv, [Next]_vars PROVE IInv'
  OBVIOUS
<1>1. ASSUME NEW p \in Pools, Construct(p) PROVE IInv'
  BY <1>1, ConstructInv
<1>2. ASSUME NEW p \in Pools, NEW q \in Pools, Move(p, q) PROVE IInv'
  BY <1>2, MoveInv
<1>3. ASSUME NEW p \in Pools, NEW f \in Fns, SetCleanupFn(p, f) PROVE IInv'
  BY <1>3, SetCleanupFnInv
<1>4. ASSUME NEW p \in Pools, Start(p) \/ StartFails(p) PROVE IInv'
  BY <1>4, StartInv, StartFailsInv
<1>5. ASSUME NEW p \in Pools, Stop(p) \/ Destroy(p) \/ DestroyMembers(p) PROVE IInv'
  BY <1>5, StopInv, DestroyInv, DestroyMembersInv
<1>6. ASSUME NEW t \in Threads, CountDownLate(t) \/ LeaveRun(t) PROVE IInv'
  BY <1>6, CountDownLateInv, LeaveRunInv
<1>7. CASE StopReturn
  BY <1>7, StopReturnInv
<1>8. CASE UNCHANGED vars
  BY <1>8 DEF IInv, vars, pools, caller, threads, history, TypeOK, RunningServes,
              UnmovedCleansUp, Owned, Kept, Unmoved
<1> QED BY <1>1, <1>2, <1>3, <1>4, <1>5, <1>6, <1>7, <1>8 DEF Next

\* The invariant holds in every state.
THEOREM AlwaysInv == Spec => []IInv
BY InitInv, NextInv, PTL DEF Spec

\* Every variable of ThreadPool's ownership keeps to its values.
THEOREM TypeCorrect == Spec => []TypeOK
<1>1. IInv => TypeOK
  BY DEF IInv
<1> QED BY <1>1, AlwaysInv, PTL

\* A thread that was not joined has one owner, which holds the contexts it serves,
\* whatever pools were moved, started in vain and stopped before
\* (ThreadPool::ThreadPool(ThreadPool&&), start(), stop()).
THEOREM ThreadsHaveOneOwner == Spec => []OneOwner
<1>1. IInv => OneOwner
  <2>1. SUFFICES ASSUME IInv, ~ended, NEW t \in Threads, state[t] # "none"
                 PROVE  \E p \in Pools : /\ life[p] = "alive" /\ ctx[p] = serves[t]
                                         /\ {q \in Pools : t \in handles[q]} = {p}
    BY DEF OneOwner, Unjoined
  <2>2. PICK p \in Pools : t \in handles[p]
    BY <2>1 DEF IInv, Owned
  <2>3. life[p] = "alive" /\ ctx[p] = serves[t]
    BY <2>1, <2>2 DEF IInv, Owned
  <2>4. \A q \in Pools : t \in handles[q] => q = p
    BY <2>1, <2>2 DEF IInv, Owned
  <2> QED BY <2>2, <2>3, <2>4
<1> QED BY <1>1, AlwaysInv, PTL

\* The threads of a running pool serve, whichever pool created them (start(), move).
THEOREM RunningPoolsServe == Spec => []RunningServes
<1>1. IInv => RunningServes
  BY DEF IInv
<1> QED BY <1>1, AlwaysInv, PTL

\* The threads of contexts that were never moved call the cleanup function
\* (set_cleanup_fn(), ThreadPool::run).
THEOREM UnmovedPoolsCleanUp == Spec => []UnmovedCleansUp
<1>1. IInv => UnmovedCleansUp
  BY DEF IInv
<1> QED BY <1>1, AlwaysInv, PTL

-------------------------------------------------------------------------------
(* What may end the process *)

\* Handles left in a pool that does not run are those of a start() that failed.
LeftByFailure ==
  ~ended => \A p \in Pools :
    handles[p] # {} /\ ~running[p] /\ p # joining => ctx[p] \in failed

\* start() adds handles to a pool that will run, or whose start has failed.
LEMMA LeftByStart ==
  ASSUME IInv, LeftByFailure, NEW p \in Pools, Start(p) \/ StartFails(p)
  PROVE  LeftByFailure'
<1>1. /\ ~ended /\ joining' = joining /\ ctx' = ctx
      /\ \A q \in Pools \ {p} : handles'[q] = handles[q] /\ (running'[q] <=> running[q])
      /\ \A q \in Pools \ {p} : ctx[q] # NoPool => ctx[q] # ctx[p]
      /\ \A q \in Pools : handles[q] # {} => ctx[q] # NoPool
  BY DEF IInv, TypeOK, Owned, Start, StartFails, Create, Free, caller
<1>2. CASE Start(p)
  <2>1. running'[p] /\ failed' = failed \ {ctx[p]}
    BY <1>2 DEF IInv, TypeOK, Start
  <2> QED BY <1>1, <2>1 DEF LeftByFailure
<1>3. CASE StartFails(p)
  <2>1. failed' = failed \cup {ctx[p]} /\ ctx'[p] \in failed'
    BY <1>1, <1>3 DEF StartFails
  <2> QED BY <1>1, <2>1 DEF LeftByFailure
<1> QED BY <1>2, <1>3

LEMMA LeftByMove ==
  ASSUME IInv, LeftByFailure, NEW p \in Pools, NEW q \in Pools, Move(p, q)
  PROVE  LeftByFailure'
<1>1. /\ ~ended /\ joining = NoPool /\ joining' = NoPool /\ p # q /\ failed' = failed
      /\ ctx'[q] = ctx[p] /\ handles'[q] = handles[p] /\ (running'[q] <=> running[p])
      /\ handles'[p] = {}
      /\ \A r \in Pools \ {p, q} : /\ ctx'[r] = ctx[r] /\ handles'[r] = handles[r]
                                   /\ (running'[r] <=> running[r])
  BY DEF IInv, TypeOK, Move, Free, MovedContexts, MovedRunning, caller
<1>2. NoPool \notin Pools
  BY OwnershipAssumption
<1> QED BY <1>1, <1>2 DEF LeftByFailure

LEMMA LeftStays == IInv /\ LeftByFailure /\ [Next]_vars => LeftByFailure'
<1> SUFFICES ASSUME IInv, LeftByFailure, [Next]_vars PROVE LeftByFailure'
  OBVIOUS
<1> USE OwnershipAssumption DEF LeftByFailure, pools, caller, threads, history
<1>1. ASSUME NEW p \in Pools, Construct(p) PROVE LeftByFailure'
  BY <1>1 DEF Construct, IInv, TypeOK, Owned
<1>2. ASSUME NEW p \in Pools, NEW q \in Pools, Move(p, q) PROVE LeftByFailure'
  BY <1>2, LeftByMove
<1>3. ASSUME NEW p \in Pools, NEW f \in Fns, SetCleanupFn(p, f) PROVE LeftByFailure'
  BY <1>3 DEF SetCleanupFn
<1>4. ASSUME NEW p \in Pools, Start(p) \/ StartFails(p) PROVE LeftByFailure'
  BY <1>4, LeftByStart
<1>5. ASSUME NEW p \in Pools, Stop(p) \/ Destroy(p) PROVE LeftByFailure'
  BY <1>5 DEF Stop, Destroy, StopContexts, Free, IInv, TypeOK
<1>6. ASSUME NEW p \in Pools, DestroyMembers(p) PROVE LeftByFailure'
  BY <1>6 DEF DestroyMembers, Free, IInv, TypeOK
<1>7. ASSUME NEW t \in Threads, CountDownLate(t) \/ LeaveRun(t) PROVE LeftByFailure'
  BY <1>7 DEF CountDownLate, LeaveRun
<1>8. CASE StopReturn
  BY <1>8 DEF StopReturn, IInv, TypeOK, Owned
<1>9. CASE UNCHANGED vars
  BY <1>9 DEF vars
<1> QED BY <1>1, <1>2, <1>3, <1>4, <1>5, <1>6, <1>7, <1>8, <1>9 DEF Next

\* Pools that are moved, started, stopped and destroyed in any order never end the
\* process, unless a start() failed, or a pool was destroyed that had created threads
\* which a move gave to another one (ThreadPool::~ThreadPool, the move constructor).
THEOREM MisuseOnly == Spec => OnlyMisuseIsFatal
<1> DEFINE Misuse == \/ failed # {} \/ \E t \in Threads : state[t] = "late"
                     \/ \E t \in Threads : state[t] = "run" /\ life[this[t]] = "dead"
<1>1. ASSUME IInv, LeftByFailure, [Next]_vars, ended', ~ended PROVE Misuse
  <2>1. ASSUME NEW p \in Pools, DestroyMembers(p) PROVE Misuse
    BY <1>1, <2>1, OwnershipAssumption DEF DestroyMembers, Free, MustStop, LeftByFailure
  <2>2. ASSUME NEW t \in Threads, CountDownLate(t) PROVE Misuse
    BY <2>2 DEF CountDownLate
  <2>3. ASSUME NEW t \in Threads, LeaveRun(t) PROVE Misuse
    <3>1. ended' \in IF life[this[t]] = "dead" THEN BOOLEAN ELSE {FALSE}
      BY <2>3 DEF LeaveRun
    <3>2. life[this[t]] = "dead"
      BY <1>1, <3>1
    <3> QED BY <2>3, <3>2 DEF LeaveRun
  <2>4. ASSUME NEW p \in Pools,
               \/ Construct(p) \/ \E q \in Pools : Move(p, q)
               \/ \E f \in Fns : SetCleanupFn(p, f)
               \/ Stop(p) \/ Destroy(p)
        PROVE  FALSE
    BY <1>1, <2>4 DEF Construct, Move, SetCleanupFn, Stop, Destroy
  <2>5. ASSUME NEW p \in Pools, Start(p) \/ StartFails(p) PROVE FALSE
    BY <1>1, <2>5 DEF Start, StartFails, Create
  <2>6. ~StopReturn
    BY <1>1 DEF StopReturn
  <2>7. ~UNCHANGED vars
    BY <1>1 DEF vars
  <2> QED BY <1>1, <2>1, <2>2, <2>3, <2>4, <2>5, <2>6, <2>7 DEF Next
<1>2. Init => LeftByFailure
  BY DEF Init, LeftByFailure
<1>3. IInv /\ LeftByFailure /\ [Next]_vars =>
        [ended' /\ ~ended => \/ failed # {} \/ \E t \in Threads : state[t] = "late"
                        \/ \E t \in Threads : state[t] = "run" /\ life[this[t]] = "dead"]_vars
  BY <1>1
<1> QED BY <1>2, <1>3, AlwaysInv, LeftStays, PTL DEF Spec, OnlyMisuseIsFatal
===============================================================================
