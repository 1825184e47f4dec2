--------------------------- MODULE ThreadPoolProofs ---------------------------
(***************************************************************************)
(* What TLAPS proves of ThreadPool, for every number of threads, services  *)
(* and callables.                                                          *)
(***************************************************************************)
EXTENDS ThreadPool, SharedPools, FiniteSetTheorems, TLAPS

Starting == step \in {"spawn", "publish", "wait"}
Stopping == step \in {"stop", "join", "clear"}

\* The threads the latch of start() still waits for.
Unready == {t \in Threads : pc[t] \in {"none", "created"}}
InRun   == {t \in Threads : pc[t] = "run"}

(***************************************************************************)
(* The inductive invariant: where start() or stop() is determines how far  *)
(* every thread and every context can be.                                  *)
(***************************************************************************)
Serving ==
  /\ works = Services
  /\ \A s \in Services : ~stopped[s]

ShapeIdle ==
  step = "idle" =>
    IF running
    THEN size = NbThread /\ Serving /\ \A t \in Threads : pc[t] \in {"ready", "run"}
    ELSE /\ size = 0 /\ works = {} /\ \A s \in Services : ~stopped[s]
         /\ \A t \in Threads : pc[t] = "none"

ShapeStarting ==
  Starting =>
    /\ ~running /\ Serving /\ size = idx
    /\ step # "wait" => idx < NbThread
    /\ step = "wait" => idx = NbThread
    /\ \A t \in Threads :
         IF t < idx \/ (t = idx /\ step = "publish")
         THEN pc[t] \in {"created", "ready", "run"}
         ELSE pc[t] = "none"

ShapeStopping ==
  Stopping =>
    /\ ~running /\ works = {} /\ size = NbThread
    /\ step = "stop" => /\ idx < NbServices
                        /\ \A s \in Services : s < idx => stopped[s]
    /\ step = "join" => idx < NbThread
    /\ step # "stop" => \A s \in Services : stopped[s]
    /\ \A t \in Threads :
         IF step = "clear" \/ (step = "join" /\ t < idx)
         THEN pc[t] = "joined"
         ELSE pc[t] \in {"ready", "run", "exited"}

\* Only a thread inside service.run() is inside a callable.
ShapeStacks == \A t \in Threads : Executing(t) => pc[t] = "run"

Shape == ShapeIdle /\ ShapeStarting /\ ShapeStopping /\ ShapeStacks

\* The two counters, as CountersExact states them.
LatchExact == Starting => latch = Cardinality(Unready)
RunExact   == runningThreads = Cardinality(InRun)

IInv == TypeOK /\ Shape /\ LatchExact /\ RunExact

-------------------------------------------------------------------------------
LEMMA ServiceOfThread ==
  ASSUME NEW t \in Threads
  PROVE  RunService(t) \in Services
BY PoolAssumption DEF Threads, Services, RunService

LEMMA ThreadsFinite == IsFiniteSet(Threads) /\ Cardinality(Threads) = NbThread
BY PoolAssumption, FS_Interval DEF Threads

LEMMA UnreadyFinite == IsFiniteSet(Unready) /\ Cardinality(Unready) \in 0 .. NbThread
<1>1. Unready \subseteq Threads
  BY DEF Unready
<1>2. IsFiniteSet(Unready) /\ Cardinality(Unready) <= NbThread
  BY <1>1, ThreadsFinite, FS_Subset
<1> QED
  BY <1>2, FS_CardinalityType, PoolAssumption

\* A stretch of the latch: it stands above 0 while a thread is not ready.
LEMMA UnreadyPositive ==
  ASSUME NEW t \in Threads, pc[t] \in {"none", "created"}
  PROVE  Cardinality(Unready) >= 1
<1>1. t \in Unready
  BY DEF Unready
<1>2. Cardinality(Unready) # 0
  BY <1>1, UnreadyFinite, FS_EmptySet
<1> QED
  BY <1>2, UnreadyFinite, PoolAssumption

-------------------------------------------------------------------------------
LEMMA InitIInv == Init => IInv
<1> SUFFICES ASSUME Init PROVE IInv
  OBVIOUS
<1> USE PoolAssumption DEF Init
<1>1. TypeOK
  <2>1. /\ stopped \in [Services -> BOOLEAN]
        /\ queue \in [Services -> Seq(Tasks)]
        /\ stack \in [Threads -> Seq(Tasks)]
    OBVIOUS
  <2>2. caller \in Callers
    BY DEF Callers
  <2>3. {} \in SUBSET Services
    OBVIOUS
  <2>4. /\ pc \in [Threads -> {"none", "created", "ready", "run", "exited", "joined"}]
        /\ status \in [Tasks -> {"new", "queued", "running", "done", "dropped"}]
    OBVIOUS
  <2>5. runningThreads \in 0 .. UIntMod - 1 /\ currentService \in 0 .. UIntMod - 1
    OBVIOUS
  <2>6. size \in 0 .. NbThread /\ latch \in 0 .. NbThread /\ idx \in 0 .. NbThread
    OBVIOUS
  <2> QED
    BY <2>1, <2>2, <2>3, <2>4, <2>5, <2>6 DEF TypeOK
<1>2. Shape
  BY DEF Shape, ShapeIdle, ShapeStarting, ShapeStopping, ShapeStacks, Starting,
         Stopping, Serving, Executing
<1>3. LatchExact
  BY DEF LatchExact, Starting
<1>4. RunExact
  <2>1. InRun = {}
    BY DEF InRun
  <2> QED
    BY <2>1, FS_EmptySet DEF RunExact
<1> QED
  BY <1>1, <1>2, <1>3, <1>4 DEF IInv

LEMMA NextServiceType ==
  ASSUME NEW id, currentService \in 0 .. UIntMod - 1
  PROVE  NextService(id) \in 0 .. UIntMod - 1
BY PoolAssumption DEF NextService, Increment

LEMMA EnqueueType ==
  ASSUME NEW x \in Tasks, NEW s, Enqueue(x, s),
         queue \in [Services -> Seq(Tasks)],
         status \in [Tasks -> {"new", "queued", "running", "done", "dropped"}]
  PROVE  /\ queue' \in [Services -> Seq(Tasks)]
         /\ status' \in [Tasks -> {"new", "queued", "running", "done", "dropped"}]
         /\ stack' = stack
<1>1. ASSUME s \in Services
      PROVE  queue' \in [Services -> Seq(Tasks)]
  <2>1. Append(queue[s], x) \in Seq(Tasks)
    BY <1>1
  <2> QED
    BY <1>1, <2>1 DEF Enqueue
<1> QED
  BY <1>1 DEF Enqueue

LEMMA NoWorkBoolean ==
  ASSUME NEW s
  PROVE  NoWork(s) \in BOOLEAN
BY DEF NoWork

LEMMA StopBeginType ==
  ASSUME TypeOK, NEW c \in Callers, StopBegin(c), destroying' \in BOOLEAN
  PROVE  TypeOK'
<1>1. stopped' \in [Services -> BOOLEAN]
  <2>1. ASSUME NEW s \in Services
        PROVE  (stopped[s] \/ NoWork(s)') \in BOOLEAN
    OBVIOUS
  <2> QED
    BY <2>1 DEF StopBegin
<1>2. step' = "stop" /\ caller' \in Callers /\ idx' \in 0 .. NbThread
  BY PoolAssumption DEF StopBegin
<1>3. running' \in BOOLEAN /\ works' \in SUBSET Services
  BY DEF StopBegin
<1> QED
  BY <1>1, <1>2, <1>3 DEF TypeOK, StopBegin, tasks

LEMMA TypeStep ==
  ASSUME IInv, Next
  PROVE  TypeOK'
<1> USE PoolAssumption DEF TypeOK
<1>0. TypeOK /\ Shape /\ LatchExact
  BY DEF IInv
<1>1. ASSUME NEW c \in Callers, NEW x \in Tasks, NEW id \in ServiceIds,
             Post(c, x, id)
      PROVE  TypeOK'
  <2>1. currentService' \in 0 .. UIntMod - 1
    BY <1>0, <1>1, NextServiceType DEF Post
  <2>2. PICK s \in GetService(c, id) : Enqueue(x, s)
    BY <1>1 DEF Post
  <2> QED
    BY <1>0, <1>1, <2>1, <2>2, EnqueueType DEF Post, pool, call
<1>2. ASSUME NEW c \in Callers, NEW x \in Tasks, NEW id \in ServiceIds,
             Dispatch(c, x, id)
      PROVE  TypeOK'
  <2>1. currentService' \in 0 .. UIntMod - 1
    BY <1>0, <1>2, NextServiceType DEF Dispatch
  <2>2. PICK s \in GetService(c, id) :
          IF InContext(c, s) THEN RunInline(c, x) ELSE Enqueue(x, s)
    BY <1>2 DEF Dispatch
  <2>3. CASE RunInline(c, x) /\ c \in Threads
    BY <1>0, <1>2, <2>1, <2>3 DEF Dispatch, RunInline, pool, call
  <2>4. CASE Enqueue(x, s)
    BY <1>0, <1>2, <2>1, <2>4, EnqueueType DEF Dispatch, pool, call
  <2> QED
    BY <2>2, <2>3, <2>4 DEF InContext
<1>3. ASSUME NEW t \in Threads, ThreadInit(t)
      PROVE  TypeOK'
  <2>1. latch >= 1
    BY <1>0, <1>3, UnreadyPositive DEF Shape, ShapeIdle, ShapeStopping, ShapeStarting, Starting, Stopping, ThreadInit, LatchExact
  <2> QED BY <1>0, <1>3, <2>1 DEF ThreadInit, pool, call, tasks
<1>4. ASSUME NEW t \in Threads, EnterRun(t)
      PROVE  TypeOK'
  <2>1. stopped' \in [Services -> BOOLEAN]
    BY <1>0, <1>4, ServiceOfThread, NoWorkBoolean DEF EnterRun
  <2>2. runningThreads' \in 0 .. UIntMod - 1
    BY <1>0, <1>4 DEF EnterRun, Increment
  <2> QED
    BY <1>0, <1>4, <2>1, <2>2 DEF EnterRun, pool, call, tasks
<1>5. ASSUME NEW t \in Threads, TakeTask(t)
      PROVE  TypeOK'
  BY <1>0, <1>5, ServiceOfThread DEF TakeTask, pool, call
<1>6. ASSUME NEW t \in Threads, FinishTask(t)
      PROVE  TypeOK'
  BY <1>0, <1>6, ServiceOfThread DEF FinishTask, NoWork, Executing, pool, call
<1>7. ASSUME NEW t \in Threads, LeaveRun(t)
      PROVE  TypeOK'
  BY <1>0, <1>7 DEF LeaveRun, Decrement, pool, call, tasks
<1>8. CASE Start
  BY <1>0, <1>8 DEF Start, Guards, LatchCount, Callers, tasks
<1>9. CASE Spawn
  BY <1>0, <1>9 DEF Spawn, pool, tasks
<1>10. CASE Publish
  BY <1>0, <1>10 DEF Publish, Shape, ShapeStarting, Starting, tasks
<1>11. CASE StartReturn
  BY <1>0, <1>11 DEF StartReturn, tasks
<1>12. CASE StopService
  <2>1. idx < NbServices
    BY <1>0, <1>12 DEF StopService, Shape, ShapeStopping, Stopping
  <2>2. idx' \in {0, idx + 1} /\ step' \in {"stop", "join"}
    BY <1>12 DEF StopService
  <2>4. idx' \in 0 .. NbThread
    BY <1>0, <2>1, <2>2
  <2>3. stopped' \in [Services -> BOOLEAN]
    BY <1>0, <1>12 DEF StopService
  <2> QED
    BY <1>0, <1>12, <2>2, <2>3, <2>4 DEF StopService, pool, tasks
<1>13. CASE Join
  <2>1. idx < NbThread
    BY <1>0, <1>13 DEF Join, Shape, ShapeStopping, Stopping
  <2>2. idx' \in 0 .. NbThread /\ step' \in {"clear", "join"}
    BY <1>0, <1>13, <2>1 DEF Join
  <2>3. pc' \in [Threads -> {"none", "created", "ready", "run", "exited", "joined"}]
    BY <1>0, <1>13 DEF Join
  <2> QED
    BY <1>0, <1>13, <2>2, <2>3 DEF Join, pool, tasks
<1>14. CASE JoinSelf
  BY <1>0, <1>14 DEF JoinSelf, pool, call, tasks
<1>15. CASE StopReturn
  BY <1>0, <1>15 DEF StopReturn, Restart, tasks
<1>16. CASE DestroyMembers
  BY <1>0, <1>16 DEF DestroyMembers, pool, call
<1>17. CASE Destroy
  <2>1. CASE running
    <3>1. StopBegin(Outside) /\ Outside \in Callers /\ destroying' = TRUE
      BY <1>17, <2>1 DEF Destroy, Callers
    <3> QED
      BY <1>0, <3>1, StopBeginType
  <2>2. CASE ~running
    BY <1>0, <1>17, <2>2 DEF Destroy, pool, tasks
  <2> QED
    BY <2>1, <2>2
<1>18. ASSUME NEW c \in Callers, Stop(c)
       PROVE  TypeOK'
  <2>1. StopBegin(c) /\ destroying' \in BOOLEAN
    BY <1>0, <1>18 DEF Stop
  <2> QED
    BY <1>0, <2>1, StopBeginType
<1> QED
  BY <1>1, <1>2, <1>3, <1>4, <1>5, <1>6, <1>7, <1>8, <1>9, <1>10, <1>11, <1>12,
     <1>13, <1>14, <1>15, <1>16, <1>17, <1>18
     DEF Next, CallStep, ThreadStep

-------------------------------------------------------------------------------
LEMMA ShapeStep ==
  ASSUME IInv, Next
  PROVE  Shape'
<1>0. TypeOK /\ Shape /\ LatchExact
  BY DEF IInv
<1> USE PoolAssumption DEF Shape, Starting, Stopping, Serving, Executing
<1>1. ASSUME NEW c \in Callers, NEW x \in Tasks, NEW id \in ServiceIds,
             Post(c, x, id)
      PROVE  Shape'
  <2>1. UNCHANGED <<pool, call, pc, stopped, stack>>
    BY <1>1 DEF Post, Enqueue
  <2> QED
    BY <1>0, <2>1 DEF ShapeIdle, ShapeStarting, ShapeStopping, ShapeStacks, pool, call
<1>2. ASSUME NEW c \in Callers, NEW x \in Tasks, NEW id \in ServiceIds,
             Dispatch(c, x, id)
      PROVE  Shape'
  <2>1. UNCHANGED <<pool, call, pc, stopped>>
    BY <1>2 DEF Dispatch
  <2>2. \A t \in Threads : stack[t] = <<>> => stack'[t] = <<>>
    BY <1>0, <1>2 DEF Dispatch, InContext, Enqueue, RunInline, TypeOK
  <2> QED
    BY <1>0, <2>1, <2>2 DEF ShapeIdle, ShapeStarting, ShapeStopping, ShapeStacks, pool, call
<1>3. ASSUME NEW t \in Threads, ThreadInit(t)
      PROVE  Shape'
  <2> USE <1>0, <1>3 DEF ThreadInit, pool, call, tasks, TypeOK
  <2>1. ShapeIdle' /\ ShapeStopping'
    BY DEF ShapeIdle, ShapeStopping
  <2>2. ShapeStarting'
    BY DEF ShapeStarting
  <2>3. ShapeStacks'
    BY DEF ShapeStacks
  <2> QED
    BY <2>1, <2>2, <2>3
<1>4. ASSUME NEW t \in Threads, EnterRun(t)
      PROVE  Shape'
  <2> USE <1>0, <1>4, ServiceOfThread DEF EnterRun, NoWork, pool, call, tasks, TypeOK
  <2>1. ShapeIdle'
    BY DEF ShapeIdle
  <2>2. ShapeStarting'
    BY DEF ShapeStarting
  <2>3. ShapeStopping'
    BY DEF ShapeStopping
  <2>4. ShapeStacks'
    BY DEF ShapeStacks
  <2> QED
    BY <2>1, <2>2, <2>3, <2>4
<1>5. ASSUME NEW t \in Threads, TakeTask(t)
      PROVE  Shape'
  <2> USE <1>0, <1>5, ServiceOfThread DEF TakeTask, pool, call, TypeOK
  <2>1. ShapeIdle' /\ ShapeStarting' /\ ShapeStopping'
    BY DEF ShapeIdle, ShapeStarting, ShapeStopping
  <2>4. ShapeStacks'
    BY DEF ShapeStacks
  <2> QED
    BY <2>1, <2>4
<1>6. ASSUME NEW t \in Threads, FinishTask(t)
      PROVE  Shape'
  <2> USE <1>0, <1>6, ServiceOfThread DEF FinishTask, NoWork, pool, call, TypeOK
  <2>1. ShapeIdle'
    BY DEF ShapeIdle, ShapeStacks
  <2>2. ShapeStarting'
    BY DEF ShapeStarting
  <2>3. ShapeStopping'
    BY DEF ShapeStopping
  <2>4. ShapeStacks'
    BY DEF ShapeStacks
  <2> QED
    BY <2>1, <2>2, <2>3, <2>4
<1>7. ASSUME NEW t \in Threads, LeaveRun(t)
      PROVE  Shape'
  <2> USE <1>0, <1>7, ServiceOfThread DEF LeaveRun, pool, call, tasks, TypeOK
  <2>1. ShapeIdle'
    BY DEF ShapeIdle
  <2>2. ShapeStarting'
    BY DEF ShapeStarting
  <2>3. ShapeStopping'
    BY DEF ShapeStopping
  <2>4. ShapeStacks'
    BY DEF ShapeStacks
  <2> QED
    BY <2>1, <2>2, <2>3, <2>4
<1>8. CASE Start
  <2> USE <1>0, <1>8 DEF Start, Guards, tasks
  <2>1. ShapeIdle' /\ ShapeStopping' /\ ShapeStacks'
    BY DEF ShapeIdle, ShapeStopping, ShapeStacks
  <2>2. ShapeStarting'
    BY DEF ShapeStarting, ShapeIdle, Threads
  <2> QED
    BY <2>1, <2>2
<1>9. CASE Spawn
  <2> USE <1>0, <1>9 DEF Spawn, pool, tasks, TypeOK
  <2>1. ShapeIdle' /\ ShapeStopping'
    BY DEF ShapeIdle, ShapeStopping
  <2>2. ShapeStarting'
    BY DEF ShapeStarting, Threads
  <2>3. ShapeStacks'
    BY DEF ShapeStacks, ShapeStarting
  <2> QED
    BY <2>1, <2>2, <2>3
<1>10. CASE Publish
  <2> USE <1>0, <1>10 DEF Publish, tasks, TypeOK
  <2>1. ShapeIdle' /\ ShapeStopping' /\ ShapeStacks'
    BY DEF ShapeIdle, ShapeStopping, ShapeStacks
  <2>2. ShapeStarting'
    BY DEF ShapeStarting, Threads
  <2> QED
    BY <2>1, <2>2
<1>11. CASE StartReturn
  <2> USE <1>0, <1>11 DEF StartReturn, tasks, TypeOK
  <2>1. ShapeStarting' /\ ShapeStopping' /\ ShapeStacks'
    BY DEF ShapeStarting, ShapeStopping, ShapeStacks
  <2>2. \A t \in Threads : pc[t] \notin {"none", "created"}
    BY UnreadyPositive DEF LatchExact
  <2>3. ShapeIdle'
    BY <2>2 DEF ShapeIdle, ShapeStarting
  <2> QED
    BY <2>1, <2>3
<1>12. CASE StopService
  <2> USE <1>0, <1>12 DEF StopService, LastService, pool, tasks, TypeOK
  <2>1. ShapeIdle' /\ ShapeStarting' /\ ShapeStacks'
    BY DEF ShapeIdle, ShapeStarting, ShapeStacks
  <2>2. ~running /\ works = {} /\ size = NbThread /\ idx \in Services
    BY DEF ShapeStopping, Services
  <2>3. \A s \in Services : s < idx => stopped[s]
    BY DEF ShapeStopping
  <2>4. \A t \in Threads : pc[t] \in {"ready", "run", "exited"}
    BY DEF ShapeStopping
  <2>5. stopped'[idx] /\ \A s \in Services : s # idx => stopped'[s] = stopped[s]
    BY <2>2
  <2>6. CASE idx = LastService
    <3>1. \A s \in Services : stopped'[s]
      BY <2>3, <2>5, <2>6 DEF Services
    <3>2. step' = "join" /\ idx' = 0 /\ ~(\E t \in Threads : t < 0)
      BY <2>6 DEF Threads
    <3> QED
      BY <2>1, <2>2, <2>4, <3>1, <3>2 DEF ShapeStopping
  <2>7. CASE idx # LastService
    <3>1. idx' = idx + 1 /\ step' = "stop" /\ idx' < NbServices
      BY <2>2, <2>7 DEF Services
    <3>2. \A s \in Services : s < idx' => stopped'[s]
      BY <2>2, <2>3, <2>5, <3>1 DEF Services
    <3> QED
      BY <2>1, <2>2, <2>4, <3>1, <3>2 DEF ShapeStopping
  <2> QED
    BY <2>6, <2>7
<1>13. CASE Join
  <2> USE <1>0, <1>13 DEF Join, JoinReturns, pool, tasks, TypeOK
  <2>1. ShapeIdle' /\ ShapeStarting'
    BY DEF ShapeIdle, ShapeStarting
  <2>2. ShapeStopping'
    BY DEF ShapeStopping, Threads
  <2>3. ShapeStacks'
    BY DEF ShapeStacks, Threads, ShapeStopping
  <2> QED
    BY <2>1, <2>2, <2>3
<1>14. CASE JoinSelf
  BY <1>0, <1>14
     DEF JoinSelf, pool, call, tasks, ShapeIdle, ShapeStarting, ShapeStopping, ShapeStacks
<1>15. CASE StopReturn
  <2> USE <1>0, <1>15 DEF StopReturn, Restart, tasks, TypeOK
  <2>1. ShapeStarting' /\ ShapeStopping'
    BY DEF ShapeStarting, ShapeStopping
  <2>2. ShapeIdle'
    BY DEF ShapeIdle, ShapeStopping
  <2>3. ShapeStacks'
    BY DEF ShapeStacks, ShapeStopping
  <2> QED
    BY <2>1, <2>2, <2>3
<1>16. CASE DestroyMembers
  BY <1>0, <1>16
     DEF DestroyMembers, pool, call, ShapeIdle, ShapeStarting, ShapeStopping, ShapeStacks
<1>17. ASSUME NEW c \in Callers, StopBegin(c), running, step = "idle"
       PROVE  Shape'
  <2> USE <1>0, <1>17 DEF StopBegin, tasks, TypeOK
  <2>1. ShapeIdle' /\ ShapeStarting' /\ ShapeStacks'
    BY DEF ShapeIdle, ShapeStarting, ShapeStacks
  <2>2. ShapeStopping'
    BY DEF ShapeStopping, ShapeIdle, Services, Threads
  <2> QED
    BY <2>1, <2>2
<1>18. CASE Destroy
  <2>1. CASE running
    BY <1>17, <1>18, <2>1 DEF Destroy, Callers
  <2>2. CASE ~running
    BY <1>0, <1>18, <2>2
       DEF Destroy, pool, tasks, ShapeIdle, ShapeStarting, ShapeStopping, ShapeStacks
  <2> QED
    BY <2>1, <2>2
<1>19. ASSUME NEW c \in Callers, Stop(c)
       PROVE  Shape'
  BY <1>17, <1>19 DEF Stop
<1> QED
  BY <1>1, <1>2, <1>3, <1>4, <1>5, <1>6, <1>7, <1>8, <1>9, <1>10, <1>11, <1>12,
     <1>13, <1>14, <1>15, <1>16, <1>18, <1>19
     DEF Next, CallStep, ThreadStep

-------------------------------------------------------------------------------
LEMMA InRunFinite == IsFiniteSet(InRun) /\ Cardinality(InRun) \in 0 .. NbThread
<1>1. InRun \subseteq Threads
  BY DEF InRun
<1>2. IsFiniteSet(InRun) /\ Cardinality(InRun) <= NbThread
  BY <1>1, ThreadsFinite, FS_Subset
<1> QED
  BY <1>2, FS_CardinalityType, PoolAssumption

LEMMA LatchStep ==
  ASSUME IInv, Next
  PROVE  LatchExact'
<1> USE DEF LatchExact, Starting
<1>0. TypeOK /\ Shape /\ LatchExact
  BY DEF IInv
<1>1. CASE UNCHANGED <<pc, latch>> /\ (Starting' => Starting)
  BY <1>0, <1>1 DEF Unready
<1>2. ASSUME NEW t \in Threads, ThreadInit(t)
      PROVE  LatchExact'
  <2>1. Starting
    BY <1>0, <1>2 DEF Shape, ShapeIdle, ShapeStopping, Stopping, ThreadInit, TypeOK
  <2>2. Unready' = Unready \ {t} /\ t \in Unready
    BY <1>0, <1>2 DEF ThreadInit, Unready, TypeOK
  <2>3. Cardinality(Unready') = Cardinality(Unready) - 1
    BY <2>2, UnreadyFinite, FS_RemoveElement
  <2> QED
    BY <1>0, <1>2, <2>1, <2>3 DEF ThreadInit
<1>3. CASE Start
  <2>1. Unready' = Threads
    BY <1>0, <1>3 DEF Start, Shape, ShapeIdle, Unready
  <2> QED
    BY <1>3, <2>1, ThreadsFinite DEF Start, LatchCount
<1>4. CASE Spawn
  <2>1. Unready' = Unready
    BY <1>0, <1>4 DEF Spawn, Unready, Shape, ShapeStarting, TypeOK
  <2> QED
    BY <1>0, <1>4, <2>1 DEF Spawn
<1>5. ASSUME NEW t \in Threads, EnterRun(t) \/ LeaveRun(t)
      PROVE  LatchExact'
  <2>1. Unready' = Unready
    BY <1>0, <1>5 DEF EnterRun, LeaveRun, Unready, TypeOK
  <2> QED
    BY <1>0, <1>5, <2>1 DEF EnterRun, LeaveRun, call
<1>6. CASE Join \/ StopReturn
  BY <1>6 DEF Join, StopReturn
<1>7. ASSUME NEW c \in Callers, StopBegin(c)
      PROVE  LatchExact'
  BY <1>7 DEF StopBegin
<1>8. CASE Destroy
  BY <1>1, <1>7, <1>8 DEF Destroy, Callers
<1>9. CASE Publish \/ StartReturn \/ StopService \/ JoinSelf \/ DestroyMembers
  BY <1>1, <1>9
     DEF Publish, StartReturn, StopService, JoinSelf, DestroyMembers, call
<1>10. ASSUME NEW t \in Threads, TakeTask(t) \/ FinishTask(t)
       PROVE  LatchExact'
  BY <1>1, <1>10 DEF TakeTask, FinishTask, call
<1>11. ASSUME NEW c \in Callers, NEW x \in Tasks, NEW id \in ServiceIds,
              Post(c, x, id) \/ Dispatch(c, x, id)
       PROVE  LatchExact'
  BY <1>1, <1>11 DEF Post, Dispatch, call
<1> QED
  BY <1>2, <1>3, <1>4, <1>5, <1>6, <1>7, <1>8, <1>9, <1>10, <1>11
     DEF Next, CallStep, ThreadStep, Stop

LEMMA RunStep ==
  ASSUME IInv, Next
  PROVE  RunExact'
<1> USE DEF RunExact
<1>0. TypeOK /\ Shape /\ RunExact
  BY DEF IInv
<1>1. CASE UNCHANGED <<runningThreads, InRun>>
  BY <1>0, <1>1
<1>2. ASSUME NEW t \in Threads, EnterRun(t)
      PROVE  RunExact'
  <2>1. InRun' = InRun \cup {t} /\ t \notin InRun
    BY <1>0, <1>2 DEF EnterRun, InRun, TypeOK
  <2>2. Cardinality(InRun') = Cardinality(InRun) + 1
    BY <2>1, InRunFinite, FS_AddElement
  <2>3. InRun' \subseteq Threads
    BY DEF InRun
  <2>4. Cardinality(InRun') <= NbThread
    BY <2>3, ThreadsFinite, FS_Subset
  <2> QED
    BY <1>0, <1>2, <2>2, <2>4, InRunFinite, PoolAssumption DEF EnterRun, Increment
<1>3. ASSUME NEW t \in Threads, LeaveRun(t)
      PROVE  RunExact'
  <2>1. InRun' = InRun \ {t} /\ t \in InRun
    BY <1>0, <1>3 DEF LeaveRun, InRun, TypeOK
  <2>2. Cardinality(InRun') = Cardinality(InRun) - 1
    BY <2>1, InRunFinite, FS_RemoveElement
  <2>3. Cardinality(InRun) # 0
    BY <2>1, InRunFinite, FS_EmptySet
  <2> QED
    BY <1>0, <1>3, <2>2, <2>3, InRunFinite, PoolAssumption DEF LeaveRun, Decrement
<1>4. ASSUME NEW t \in Threads, ThreadInit(t)
      PROVE  RunExact'
  BY <1>0, <1>1, <1>4 DEF ThreadInit, InRun, TypeOK
<1>5. CASE Spawn
  BY <1>0, <1>1, <1>5 DEF Spawn, InRun, Shape, ShapeStarting, Starting, TypeOK
<1>6. CASE Join
  BY <1>0, <1>1, <1>6 DEF Join, JoinReturns, InRun, TypeOK
<1>7. CASE StopReturn
  BY <1>0, <1>1, <1>7 DEF StopReturn, InRun, Shape, ShapeStopping, Stopping
<1>8. CASE UNCHANGED <<runningThreads, pc>>
  BY <1>1, <1>8 DEF InRun
<1>9. CASE Start \/ Publish \/ StartReturn \/ StopService \/ JoinSelf \/ DestroyMembers
           \/ Destroy \/ \E c \in Callers : Stop(c)
  BY <1>8, <1>9 DEF Start, Publish, StartReturn, StopService, JoinSelf,
                    DestroyMembers, Destroy, Stop, StopBegin
<1>10. ASSUME NEW t \in Threads, TakeTask(t) \/ FinishTask(t)
       PROVE  RunExact'
  BY <1>8, <1>10 DEF TakeTask, FinishTask
<1>11. ASSUME NEW c \in Callers, NEW x \in Tasks, NEW id \in ServiceIds,
              Post(c, x, id) \/ Dispatch(c, x, id)
       PROVE  RunExact'
  BY <1>8, <1>11 DEF Post, Dispatch
<1> QED
  BY <1>2, <1>3, <1>4, <1>5, <1>6, <1>7, <1>9, <1>10, <1>11
     DEF Next, CallStep, ThreadStep

-------------------------------------------------------------------------------
(* The inductive invariant holds of every reachable state.                 *)
THEOREM Inductive == Spec => []IInv
<1>1. IInv /\ [Next]_vars => IInv'
  <2> SUFFICES ASSUME IInv, [Next]_vars PROVE IInv'
    OBVIOUS
  <2>1. CASE Next
    BY <2>1, TypeStep, ShapeStep, LatchStep, RunStep DEF IInv
  <2>2. CASE UNCHANGED vars
    BY <2>2
       DEF vars, pool, call, tasks, IInv, TypeOK, Shape, ShapeIdle, ShapeStarting,
           ShapeStopping, ShapeStacks, Starting, Stopping, Serving, Executing,
           LatchExact, RunExact, Unready, InRun
  <2> QED
    BY <2>1, <2>2
<1> QED
  BY InitIInv, <1>1, PTL DEF Spec

(***************************************************************************)
(* Every variable of the pool stays in its range: in particular the latch  *)
(* of start() never goes below 0 and no loop leaves its container.         *)
(***************************************************************************)
THEOREM TypeCorrect == Spec => []TypeOK
<1>1. IInv => TypeOK
  BY DEF IInv
<1> QED
  BY Inductive, <1>1, PTL

(***************************************************************************)
(* The latch counts the threads whose startup function has not finished,   *)
(* running_threads_ the threads inside io_context::run().                  *)
(***************************************************************************)
THEOREM CountersCorrect == Spec => []CountersExact
<1>1. IInv => CountersExact
  BY DEF IInv, LatchExact, RunExact, CountersExact, Starting, Unready, InRun
<1> QED
  BY Inductive, <1>1, PTL

(***************************************************************************)
(* From the return of start() to the call of stop() every thread serves    *)
(* and no context is stopped, with any number of threads and services.     *)
(***************************************************************************)
THEOREM ServingCorrect == Spec => []ServingWhileRunning
<1>1. IInv => ServingWhileRunning
  <2> SUFFICES ASSUME IInv, running PROVE ServingWhileRunning
    BY DEF ServingWhileRunning
  <2>1. step = "idle"
    BY DEF IInv, TypeOK, Shape, ShapeStarting, ShapeStopping, Starting, Stopping
  <2> QED
    BY <2>1 DEF IInv, Shape, ShapeIdle, Serving, ServingWhileRunning
<1> QED
  BY Inductive, <1>1, PTL

(***************************************************************************)
(* Once start() has returned, getService(CURRENT_SERVICE) called inside a  *)
(* callable is the context that runs the callable.                         *)
(***************************************************************************)
THEOREM LookupCorrect == Spec => []LookupFindsOwnService
<1>1. IInv => LookupFindsOwnService
  <2> SUFFICES ASSUME IInv, running, NEW t \in Threads, Executing(t)
               PROVE  /\ RunningInPool(t)
                      /\ GetService(t, CURRENT_SERVICE) = {RunService(t)}
    BY DEF LookupFindsOwnService
  <2>1. step = "idle"
    BY DEF IInv, TypeOK, Shape, ShapeStarting, ShapeStopping, Starting, Stopping
  <2>2. size = NbThread /\ pc[t] \in {"ready", "run"}
    BY <2>1 DEF IInv, Shape, ShapeIdle
  <2>3. RunningInPool(t)
    BY <2>2, PoolAssumption DEF RunningInPool, Threads
  <2>4. CASE NbServices = 1
    <3>1. RunService(t) \in Services /\ Services = {0}
      BY <2>4, ServiceOfThread DEF Services
    <3> QED
      BY <2>3, <2>4, <3>1 DEF GetService
  <2>5. CASE NbServices # 1
    <3>1. GetService(t, CURRENT_SERVICE) = {CurrentIOService(t)}
      BY <2>3, <2>5 DEF GetService, CURRENT_SERVICE, RANDOM_SERVICE, ROUND_ROBIN
    <3> QED
      BY <2>3, <3>1 DEF CurrentIOService, RunService
  <2> QED
    BY <2>4, <2>5
<1> QED
  BY Inductive, <1>1, PTL

(***************************************************************************)
(* When stop() has returned nothing of the last run is left, so that the   *)
(* pool can be started again.                                              *)
(***************************************************************************)
THEOREM FreshCorrect == Spec => []StoppedIsFresh
<1>1. IInv => StoppedIsFresh
  <2> SUFFICES ASSUME IInv, step = "idle", ~running PROVE StoppedIsFresh
    BY DEF StoppedIsFresh
  <2>1. /\ size = 0 /\ works = {} /\ \A s \in Services : ~stopped[s]
        /\ \A t \in Threads : pc[t] = "none"
    BY DEF IInv, Shape, ShapeIdle
  <2>2. \A t \in Threads : ~Executing(t)
    BY <2>1 DEF IInv, Shape, ShapeStacks
  <2>3. runningThreads = 0
    <3>1. InRun = {}
      BY <2>1 DEF InRun
    <3> QED
      BY <3>1, FS_EmptySet DEF IInv, RunExact
  <2> QED
    BY <2>1, <2>2, <2>3 DEF StoppedIsFresh
<1> QED
  BY Inductive, <1>1, PTL

-------------------------------------------------------------------------------
(***************************************************************************)
(* Where the callables are, and from it that the thread pool implements    *)
(* the abstract TaskPool.                                                  *)
(***************************************************************************)

\* InQueue and InStack of any position, those outside a sequence included.
Queued(x)  == \E s \in Services, k \in Nat : InQueue(x, s, k)
Stacked(x) == \E t \in Threads, k \in Nat : InStack(x, t, k)

\* TasksInOnePlace with the positions ranging over Nat.
QueueMatches == \A x \in Tasks : status[x] = "queued" <=> Queued(x)
StackMatches == \A x \in Tasks : status[x] = "running" <=> Stacked(x)
QueuedOnce ==
  \A x \in Tasks : \A s1, s2 \in Services, k1, k2 \in Nat :
     InQueue(x, s1, k1) /\ InQueue(x, s2, k2) => s1 = s2 /\ k1 = k2
StackedOnce ==
  \A x \in Tasks : \A t1, t2 \in Threads, k1, k2 \in Nat :
     InStack(x, t1, k1) /\ InStack(x, t2, k2) => t1 = t2 /\ k1 = k2

Placed == QueueMatches /\ StackMatches /\ QueuedOnce /\ StackedOnce

-------------------------------------------------------------------------------
(* What the steps that move a callable do to the positions *)

LEMMA EnqueuePositions ==
  ASSUME TypeOK, NEW x \in Tasks, NEW s \in Services, Enqueue(x, s),
         NEW y \in Tasks, NEW r \in Services, NEW k \in Nat
  PROVE  InQueue(y, r, k)' <=>
           InQueue(y, r, k) \/ (y = x /\ r = s /\ k = Len(queue[s]) + 1)
<1>1. queue \in [Services -> Seq(Tasks)]
  BY DEF TypeOK
<1>2. queue'[s] = Append(queue[s], x) /\ (r # s => queue'[r] = queue[r])
  BY <1>1 DEF Enqueue
<1>3. CASE r = s
  <2>1. Len(queue'[s]) = Len(queue[s]) + 1
    BY <1>1, <1>2
  <2>2. /\ DOMAIN queue[s] = 1 .. Len(queue[s])
        /\ DOMAIN queue'[s] = 1 .. Len(queue[s]) + 1
        /\ Len(queue[s]) \in Nat
    BY <1>1, <1>2, <2>1
  <2>3. k \in 1 .. Len(queue[s]) => queue'[s][k] = queue[s][k]
    BY <1>1, <1>2
  <2>4. queue'[s][Len(queue[s]) + 1] = x
    BY <1>1, <1>2
  <2> QED
    BY <1>3, <2>2, <2>3, <2>4 DEF InQueue
<1>4. CASE r # s
  BY <1>2, <1>4 DEF InQueue
<1> QED
  BY <1>3, <1>4

LEMMA TailPositions ==
  ASSUME NEW S, NEW q \in Seq(S), q # <<>>, NEW k \in Nat
  PROVE  /\ k \in DOMAIN Tail(q) <=> k >= 1 /\ k + 1 \in DOMAIN q
         /\ k \in DOMAIN Tail(q) => Tail(q)[k] = q[k + 1]
         /\ 1 \in DOMAIN q /\ Head(q) = q[1] /\ Head(q) \in S
OBVIOUS

LEMMA PushPositions ==
  ASSUME NEW S, NEW q \in Seq(S), NEW x \in S, NEW k \in Nat
  PROVE  /\ k \in DOMAIN (<<x>> \o q) <=> k = 1 \/ (k >= 1 /\ k - 1 \in DOMAIN q)
         /\ k = 1 => (<<x>> \o q)[k] = x
         /\ k \in DOMAIN (<<x>> \o q) /\ k # 1 => (<<x>> \o q)[k] = q[k - 1]
OBVIOUS

LEMMA InlinePositions ==
  ASSUME TypeOK, NEW x \in Tasks, NEW t \in Threads, RunInline(t, x),
         NEW y \in Tasks, NEW r \in Threads, NEW k \in Nat
  PROVE  InStack(y, r, k)' <=>
           IF r # t THEN InStack(y, r, k)
           ELSE (k = 1 /\ y = x) \/ (k > 1 /\ InStack(y, t, k - 1))
<1>1. stack \in [Threads -> Seq(Tasks)]
  BY DEF TypeOK
<1>2. stack'[t] = <<x>> \o stack[t] /\ (r # t => stack'[r] = stack[r])
  BY <1>1 DEF RunInline
<1>3. stack[t] \in Seq(Tasks)
  BY <1>1
<1>4. CASE r = t
  <2> QED
    BY <1>2, <1>3, <1>4, PushPositions DEF InStack
<1>5. CASE r # t
  BY <1>2, <1>5 DEF InStack
<1> QED
  BY <1>4, <1>5

\* The callable TakeTask(t) takes is at the head of the queue of its service.
LEMMA TakenTask ==
  ASSUME TypeOK, NEW t \in Threads, TakeTask(t)
  PROVE  \E x \in Tasks : \E s \in Services :
           /\ queue[s] \in Seq(Tasks) /\ queue[s] # <<>>
           /\ InQueue(x, s, 1)
           /\ queue' = [queue EXCEPT ![s] = Tail(@)]
           /\ stack[t] = <<>> /\ stack' = [stack EXCEPT ![t] = <<x>>]
           /\ status' = [status EXCEPT ![x] = "running"]
<1> DEFINE s == RunService(t)
           x == Head(queue[s])
<1>1. s \in Services
  BY ServiceOfThread
<1>2. queue[s] \in Seq(Tasks) /\ queue[s] # <<>> /\ stack[t] = <<>>
  BY <1>1 DEF TypeOK, TakeTask, Executing
<1>3. x \in Tasks /\ InQueue(x, s, 1)
  BY <1>2, TailPositions DEF InQueue
<1> QED
  BY <1>1, <1>2, <1>3 DEF TakeTask

\* The callable FinishTask(t) ends is on top of the stack of its thread.
LEMMA FinishedTask ==
  ASSUME TypeOK, NEW t \in Threads, FinishTask(t)
  PROVE  \E x \in Tasks :
           /\ InStack(x, t, 1)
           /\ stack[t] \in Seq(Tasks) /\ stack[t] # <<>>
           /\ queue' = queue
           /\ stack' = [stack EXCEPT ![t] = Tail(@)]
           /\ status' = [status EXCEPT ![x] = "done"]
<1> DEFINE x == Head(stack[t])
<1>1. stack[t] \in Seq(Tasks) /\ stack[t] # <<>>
  BY DEF TypeOK, FinishTask, Executing
<1>2. x \in Tasks /\ InStack(x, t, 1)
  BY <1>1, TailPositions DEF InStack
<1> QED
  BY <1>1, <1>2 DEF FinishTask

-------------------------------------------------------------------------------
LEMMA InitPlaced == Init => Placed
<1> SUFFICES ASSUME Init PROVE Placed
  OBVIOUS
<1>1. \A x \in Tasks : status[x] = "new"
  BY DEF Init
<1>2. \A x, s, k : s \in Services => ~InQueue(x, s, k)
  BY DEF Init, InQueue
<1>3. \A x, t, k : t \in Threads => ~InStack(x, t, k)
  BY DEF Init, InStack
<1> QED
  BY <1>1, <1>2, <1>3
     DEF Placed, QueueMatches, StackMatches, QueuedOnce, StackedOnce, Queued, Stacked

LEMMA EnqueuePlaced ==
  ASSUME TypeOK, Placed, NEW x \in Tasks, NEW s \in Services, Enqueue(x, s),
         status[x] = "new"
  PROVE  Placed'
<1> USE DEF Placed, Queued, Stacked
<1>1. \A y \in Tasks, r \in Services, k \in Nat :
         InQueue(y, r, k)' <=>
           InQueue(y, r, k) \/ (y = x /\ r = s /\ k = Len(queue[s]) + 1)
  BY EnqueuePositions
<1>2. Len(queue[s]) + 1 \in Nat
  BY DEF TypeOK
<1>3. \A y, r, k : InStack(y, r, k)' <=> InStack(y, r, k)
  BY DEF Enqueue, InStack
<1>4. /\ status'[x] = "queued"
      /\ \A y \in Tasks : y # x => status'[y] = status[y]
  BY DEF Enqueue, TypeOK
<1>5. \A r \in Services, k \in Nat : ~InQueue(x, r, k)
  BY DEF QueueMatches
<1>6. QueueMatches'
  BY <1>1, <1>2, <1>4 DEF QueueMatches
<1>7. StackMatches'
  BY <1>3, <1>4 DEF StackMatches
<1>8. QueuedOnce'
  BY <1>1, <1>5 DEF QueuedOnce
<1>9. StackedOnce'
  BY <1>3 DEF StackedOnce
<1> QED
  BY <1>6, <1>7, <1>8, <1>9

LEMMA InlinePlaced ==
  ASSUME TypeOK, Placed, NEW x \in Tasks, NEW t \in Threads, RunInline(t, x),
         status[x] = "new"
  PROVE  Placed'
<1> USE DEF Placed, Queued, Stacked
<1>1. \A y \in Tasks, r \in Threads, k \in Nat :
         InStack(y, r, k)' <=>
           IF r # t THEN InStack(y, r, k)
           ELSE (k = 1 /\ y = x) \/ (k > 1 /\ InStack(y, t, k - 1))
  BY InlinePositions
<1>2. \A y, r, k : InQueue(y, r, k)' <=> InQueue(y, r, k)
  BY DEF RunInline, InQueue
<1>3. /\ status'[x] = "running"
      /\ \A y \in Tasks : y # x => status'[y] = status[y]
  BY DEF RunInline, TypeOK
<1>4. \A r \in Threads, k \in Nat : ~InStack(x, r, k)
  BY DEF StackMatches
<1>5. QueueMatches'
  BY <1>2, <1>3 DEF QueueMatches
<1>6. StackMatches'
  <2>1. Stacked(x)'
    BY <1>1
  <2>2. ASSUME NEW y \in Tasks, y # x
        PROVE  Stacked(y)' <=> Stacked(y)
    <3>1. ASSUME Stacked(y) PROVE Stacked(y)'
      <4>1. PICK r \in Threads, k \in Nat : InStack(y, r, k)
        BY <3>1
      <4>2. CASE r = t
        <5>1. k + 1 > 1
          <6>1. k \in DOMAIN stack[r] /\ stack[r] \in Seq(Tasks)
            BY <4>1 DEF InStack, TypeOK
          <6> QED
            BY <6>1
        <5> QED
          BY <1>1, <4>1, <4>2, <5>1
      <4> QED
        BY <1>1, <4>1, <4>2
    <3> QED
      BY <1>1, <2>2, <3>1
  <2> QED
    BY <1>3, <2>1, <2>2 DEF StackMatches
<1>7. QueuedOnce'
  BY <1>2 DEF QueuedOnce
<1>8. StackedOnce'
  BY <1>1, <1>4 DEF StackedOnce
<1> QED
  BY <1>5, <1>6, <1>7, <1>8

LEMMA TakePlaced ==
  ASSUME TypeOK, Placed, NEW t \in Threads, TakeTask(t)
  PROVE  Placed'
<1>1. PICK x \in Tasks, s \in Services :
        /\ queue[s] \in Seq(Tasks) /\ queue[s] # <<>>
        /\ InQueue(x, s, 1)
        /\ queue' = [queue EXCEPT ![s] = Tail(@)]
        /\ stack[t] = <<>> /\ stack' = [stack EXCEPT ![t] = <<x>>]
        /\ status' = [status EXCEPT ![x] = "running"]
  BY TakenTask
<1>2. /\ queue'[s] = Tail(queue[s])
      /\ \A r \in Services : r # s => queue'[r] = queue[r]
      /\ stack'[t] = <<x>>
      /\ \A r \in Threads : r # t => stack'[r] = stack[r]
  BY <1>1 DEF TypeOK
<1>3. ASSUME NEW y \in Tasks, NEW r \in Services, NEW k \in Nat
      PROVE  InQueue(y, r, k)' <=>
               IF r # s THEN InQueue(y, r, k) ELSE k >= 1 /\ InQueue(y, s, k + 1)
  <2>1. /\ k \in DOMAIN Tail(queue[s]) <=> k >= 1 /\ k + 1 \in DOMAIN queue[s]
        /\ k \in DOMAIN Tail(queue[s]) => Tail(queue[s])[k] = queue[s][k + 1]
    BY <1>1, TailPositions
  <2>2. CASE r # s
    BY <1>2, <2>2 DEF InQueue
  <2>3. CASE r = s
    <3>1. queue'[r] = Tail(queue[s])
      BY <1>2, <2>3
    <3> QED
      BY <2>1, <2>3, <3>1 DEF InQueue
  <2> QED
    BY <2>2, <2>3
<1>4. ASSUME NEW y \in Tasks, NEW r \in Threads, NEW k \in Nat
      PROVE  InStack(y, r, k)' <=>
               IF r # t THEN InStack(y, r, k) ELSE k = 1 /\ y = x
  BY <1>2 DEF InStack
<1>5. \A y \in Tasks, k \in Nat : ~InStack(y, t, k)
  BY <1>1 DEF InStack
<1>6. /\ status'[x] = "running"
      /\ \A y \in Tasks : y # x => status'[y] = status[y]
  BY <1>1 DEF TypeOK
<1>7. status[x] = "queued"
  BY <1>1 DEF Placed, QueueMatches, Queued
<1>8. \A r \in Threads, k \in Nat : ~InStack(x, r, k)
  BY <1>7 DEF Placed, StackMatches, Stacked
<1>9. \A r \in Services, k \in Nat : InQueue(x, r, k) => r = s /\ k = 1
  BY <1>1 DEF Placed, QueuedOnce
<1>10. \A r \in Services, k \in Nat : ~InQueue(x, r, k)'
  BY <1>3, <1>9
<1>11. ASSUME NEW y \in Tasks, y # x
       PROVE  Queued(y)' <=> Queued(y)
  <2>1. ASSUME Queued(y) PROVE Queued(y)'
    <3>1. PICK r \in Services, k \in Nat : InQueue(y, r, k)
      BY <2>1 DEF Queued
    <3>2. CASE r # s
      BY <1>3, <3>1, <3>2 DEF Queued
    <3>3. CASE r = s
      <4>1. k # 1
        BY <1>1, <1>11, <3>1, <3>3 DEF InQueue
      <4>2. k \in 1 .. Len(queue[s])
        BY <1>1, <3>1, <3>3 DEF InQueue
      <4>3. k - 1 \in Nat /\ k - 1 >= 1 /\ InQueue(y, s, (k - 1) + 1)
        BY <3>1, <3>3, <4>1, <4>2
      <4> QED
        BY <1>3, <4>3 DEF Queued
    <3> QED
      BY <3>2, <3>3
  <2>2. ASSUME Queued(y)' PROVE Queued(y)
    BY <1>3, <2>2 DEF Queued
  <2> QED
    BY <2>1, <2>2
<1>12. QueueMatches'
  BY <1>6, <1>10, <1>11 DEF Placed, QueueMatches, Queued
<1>13. StackMatches'
  <2>1. Stacked(x)'
    BY <1>4 DEF Stacked
  <2>2. \A y \in Tasks : y # x => (Stacked(y)' <=> Stacked(y))
    BY <1>4, <1>5 DEF Stacked
  <2> QED
    BY <1>6, <2>1, <2>2 DEF Placed, StackMatches
<1>14. QueuedOnce'
  BY <1>3 DEF Placed, QueuedOnce
<1>15. StackedOnce'
  BY <1>4, <1>8 DEF Placed, StackedOnce
<1> QED
  BY <1>12, <1>13, <1>14, <1>15 DEF Placed

LEMMA FinishPlaced ==
  ASSUME TypeOK, Placed, NEW t \in Threads, FinishTask(t)
  PROVE  Placed'
<1>1. PICK x \in Tasks :
        /\ InStack(x, t, 1)
        /\ stack[t] \in Seq(Tasks) /\ stack[t] # <<>>
        /\ queue' = queue
        /\ stack' = [stack EXCEPT ![t] = Tail(@)]
        /\ status' = [status EXCEPT ![x] = "done"]
  BY FinishedTask
<1>2. /\ stack'[t] = Tail(stack[t])
      /\ \A r \in Threads : r # t => stack'[r] = stack[r]
  BY <1>1 DEF TypeOK
<1>3. ASSUME NEW y \in Tasks, NEW r \in Threads, NEW k \in Nat
      PROVE  InStack(y, r, k)' <=>
               IF r # t THEN InStack(y, r, k) ELSE k >= 1 /\ InStack(y, t, k + 1)
  <2>1. /\ k \in DOMAIN Tail(stack[t]) <=> k >= 1 /\ k + 1 \in DOMAIN stack[t]
        /\ k \in DOMAIN Tail(stack[t]) => Tail(stack[t])[k] = stack[t][k + 1]
    BY <1>1, TailPositions
  <2>2. CASE r # t
    BY <1>2, <2>2 DEF InStack
  <2>3. CASE r = t
    <3>1. stack'[r] = Tail(stack[t])
      BY <1>2, <2>3
    <3> QED
      BY <2>1, <2>3, <3>1 DEF InStack
  <2> QED
    BY <2>2, <2>3
<1>4. \A y, r, k : InQueue(y, r, k)' <=> InQueue(y, r, k)
  BY <1>1 DEF InQueue
<1>5. /\ status'[x] = "done"
      /\ \A y \in Tasks : y # x => status'[y] = status[y]
  BY <1>1 DEF TypeOK
<1>6. status[x] = "running"
  BY <1>1 DEF Placed, StackMatches, Stacked
<1>7. \A r \in Threads, k \in Nat : InStack(x, r, k) => r = t /\ k = 1
  BY <1>1 DEF Placed, StackedOnce
<1>8. \A r \in Threads, k \in Nat : ~InStack(x, r, k)'
  BY <1>3, <1>7
<1>9. ASSUME NEW y \in Tasks, y # x
      PROVE  Stacked(y)' <=> Stacked(y)
  <2>1. ASSUME Stacked(y) PROVE Stacked(y)'
    <3>1. PICK r \in Threads, k \in Nat : InStack(y, r, k)
      BY <2>1 DEF Stacked
    <3>2. CASE r # t
      BY <1>3, <3>1, <3>2 DEF Stacked
    <3>3. CASE r = t
      <4>1. k # 1
        BY <1>1, <1>9, <3>1, <3>3 DEF InStack
      <4>2. k \in 1 .. Len(stack[t])
        BY <1>1, <3>1, <3>3 DEF InStack
      <4>3. k - 1 \in Nat /\ k - 1 >= 1 /\ InStack(y, t, (k - 1) + 1)
        BY <3>1, <3>3, <4>1, <4>2
      <4> QED
        BY <1>3, <4>3 DEF Stacked
    <3> QED
      BY <3>2, <3>3
  <2>2. ASSUME Stacked(y)' PROVE Stacked(y)
    BY <1>3, <2>2 DEF Stacked
  <2> QED
    BY <2>1, <2>2
<1>10. StackMatches'
  BY <1>5, <1>8, <1>9 DEF Placed, StackMatches, Stacked
<1>11. QueueMatches'
  <2>1. ~Queued(x)
    BY <1>6 DEF Placed, QueueMatches
  <2> QED
    BY <1>4, <1>5, <2>1 DEF Placed, QueueMatches, Queued
<1>12. QueuedOnce' /\ StackedOnce'
  BY <1>3, <1>4 DEF Placed, QueuedOnce, StackedOnce
<1> QED
  BY <1>10, <1>11, <1>12 DEF Placed

LEMMA DestroyPlaced ==
  ASSUME TypeOK, Placed, DestroyMembers
  PROVE  Placed'
<1>1. \A y, r, k : r \in Services => ~InQueue(y, r, k)'
  BY DEF DestroyMembers, InQueue
<1>2. \A y, r, k : InStack(y, r, k)' <=> InStack(y, r, k)
  BY DEF DestroyMembers, InStack
<1>3. \A y \in Tasks :
        status'[y] = IF status[y] = "queued" THEN "dropped" ELSE status[y]
  BY DEF DestroyMembers
<1>4. QueueMatches' /\ QueuedOnce'
  BY <1>1, <1>3 DEF QueueMatches, QueuedOnce, Queued
<1>5. StackMatches' /\ StackedOnce'
  BY <1>2, <1>3 DEF Placed, StackMatches, StackedOnce, Stacked
<1> QED
  BY <1>4, <1>5 DEF Placed

-------------------------------------------------------------------------------
LEMMA PlacedUnchanged ==
  ASSUME Placed, UNCHANGED tasks
  PROVE  Placed'
BY DEF tasks, Placed, QueueMatches, StackMatches, QueuedOnce, StackedOnce,
       Queued, Stacked, InQueue, InStack

\* A service getService() returns is one of the pool's.
LEMMA GetServiceRange ==
  ASSUME TypeOK, NEW c \in Callers, NEW id \in ServiceIds
  PROVE  GetService(c, id) \subseteq Services
<1> USE PoolAssumption DEF Services
<1>1. CASE NbServices = 1
  BY <1>1 DEF GetService
<1>2. CASE NbServices # 1 /\ id = ROUND_ROBIN
  <2>1. currentService % NbServices \in Services
    BY DEF TypeOK
  <2> QED
    BY <1>2, <2>1 DEF GetService, CURRENT_SERVICE, RANDOM_SERVICE, ROUND_ROBIN
<1>3. CASE NbServices # 1 /\ id = RANDOM_SERVICE
  BY <1>3 DEF GetService, CURRENT_SERVICE, RANDOM_SERVICE, ROUND_ROBIN
<1>4. CASE NbServices # 1 /\ id = CURRENT_SERVICE
  <2>1. RunningInPool(c) => CurrentIOService(c) \in Services
    BY DEF RunningInPool, CurrentIOService, TypeOK
  <2> QED
    BY <1>4, <2>1 DEF GetService, CURRENT_SERVICE, RANDOM_SERVICE, ROUND_ROBIN
<1>5. CASE NbServices # 1 /\ id \notin {ROUND_ROBIN, RANDOM_SERVICE, CURRENT_SERVICE}
  <2>1. id \in Services
    BY <1>5 DEF ServiceIds
  <2> QED
    BY <1>5, <2>1 DEF GetService
<1> QED
  BY <1>1, <1>2, <1>3, <1>4, <1>5

LEMMA PlacedStep ==
  ASSUME IInv, Placed, Next
  PROVE  Placed'
<1>0. TypeOK
  BY DEF IInv
<1>1. ASSUME NEW c \in Callers, NEW x \in Tasks, NEW id \in ServiceIds,
             Post(c, x, id)
      PROVE  Placed'
  <2>1. PICK s \in GetService(c, id) : Enqueue(x, s)
    BY <1>1 DEF Post
  <2>2. s \in Services
    BY <1>0, GetServiceRange
  <2> QED
    BY <1>0, <1>1, <2>1, <2>2, EnqueuePlaced DEF Post
<1>2. ASSUME NEW c \in Callers, NEW x \in Tasks, NEW id \in ServiceIds,
             Dispatch(c, x, id)
      PROVE  Placed'
  <2>1. PICK s \in GetService(c, id) :
          IF InContext(c, s) THEN RunInline(c, x) ELSE Enqueue(x, s)
    BY <1>2 DEF Dispatch
  <2>2. s \in Services
    BY <1>0, GetServiceRange
  <2>3. status[x] = "new"
    BY <1>2 DEF Dispatch
  <2>4. CASE InContext(c, s)
    BY <1>0, <2>1, <2>3, <2>4, InlinePlaced DEF InContext
  <2>5. CASE ~InContext(c, s)
    BY <1>0, <2>1, <2>2, <2>3, <2>5, EnqueuePlaced
  <2> QED
    BY <2>4, <2>5
<1>3. ASSUME NEW t \in Threads, ThreadStep(t)
      PROVE  Placed'
  <2>1. CASE ThreadInit(t) \/ EnterRun(t) \/ LeaveRun(t)
    BY <2>1, PlacedUnchanged DEF ThreadInit, EnterRun, LeaveRun
  <2> QED
    BY <1>0, <1>3, <2>1, TakePlaced, FinishPlaced DEF ThreadStep
<1>4. CASE DestroyMembers
  BY <1>0, <1>4, DestroyPlaced
<1>5. CASE \/ Start \/ Spawn \/ Publish \/ StartReturn \/ StopService \/ Join
           \/ JoinSelf \/ StopReturn \/ Destroy \/ \E c \in Callers : Stop(c)
  <2>1. UNCHANGED tasks
    BY <1>5 DEF Start, Spawn, Publish, StartReturn, StopService, Join, JoinSelf,
                StopReturn, Destroy, Stop, StopBegin
  <2> QED
    BY <2>1, PlacedUnchanged
<1> QED
  BY <1>1, <1>2, <1>3, <1>4, <1>5 DEF Next, CallStep

THEOREM PlacedInvariant == Spec => []Placed
<1>1. IInv /\ Placed /\ [Next]_vars => Placed'
  BY PlacedStep, PlacedUnchanged DEF vars, tasks
<1> QED
  BY InitPlaced, Inductive, <1>1, PTL DEF Spec

(***************************************************************************)
(* No callable is lost or duplicated between post() and the thread that    *)
(* runs it, with any number of threads, services and callables.            *)
(***************************************************************************)
THEOREM PlacementCorrect == Spec => []TasksInOnePlace
<1>1. TypeOK /\ Placed => TasksInOnePlace
  <2> SUFFICES ASSUME TypeOK, Placed PROVE TasksInOnePlace
    OBVIOUS
  <2>1. \A s \in Services : DOMAIN queue[s] \subseteq Nat
    BY DEF TypeOK
  <2>2. \A t \in Threads : DOMAIN stack[t] \subseteq Nat
    BY DEF TypeOK
  <2>3. \A x \in Tasks :
          Queued(x) <=> \E s \in Services : \E k \in DOMAIN queue[s] : InQueue(x, s, k)
    BY <2>1 DEF Queued, InQueue
  <2>4. \A x \in Tasks :
          Stacked(x) <=> \E t \in Threads : \E k \in DOMAIN stack[t] : InStack(x, t, k)
    BY <2>2 DEF Stacked, InStack
  <2> QED
    BY <2>1, <2>2, <2>3, <2>4
       DEF Placed, QueueMatches, StackMatches, QueuedOnce, StackedOnce, TasksInOnePlace
<1> QED
  BY PlacedInvariant, TypeCorrect, <1>1, PTL

-------------------------------------------------------------------------------
(* The thread pool implements TaskPool *)

LEMMA InitRefines == Init => Abstract!Init
BY DEF Init, Abstract!Init, Phase

\* While a thread is inside a callable the abstract pool is active.
LEMMA ExecutingIsActive ==
  ASSUME IInv, Alive, NEW t \in Threads, pc[t] = "run"
  PROVE  Phase = "active"
BY DEF IInv, Shape, ShapeIdle, Phase, Alive

\* The callable on top of the stack of a thread is running.
LEMMA TopIsRunning ==
  ASSUME TypeOK, Placed, NEW t \in Threads, Executing(t)
  PROVE  Head(stack[t]) \in Tasks /\ status[Head(stack[t])] = "running"
<1>1. stack[t] \in Seq(Tasks) /\ stack[t] # <<>>
  BY DEF TypeOK, Executing
<1>2. Head(stack[t]) \in Tasks /\ InStack(Head(stack[t]), t, 1)
  BY <1>1, TailPositions DEF InStack
<1> QED
  BY <1>2 DEF Placed, StackMatches, Stacked

LEMMA StepRefines ==
  ASSUME IInv, Placed, Next
  PROVE  Abstract!Next \/ UNCHANGED <<status, Phase>>
<1>0. TypeOK /\ Shape
  BY DEF IInv
<1>1. ASSUME NEW c \in Callers, NEW x \in Tasks, NEW s, Enqueue(x, s),
             MayCall(c), status[x] = "new", UNCHANGED <<pool, call, process>>
      PROVE  Abstract!Submit(x)
  BY <1>1 DEF Abstract!Submit, Enqueue, MayCall, Alive, Phase, pool, call
<1>2. ASSUME NEW c \in Callers, NEW x \in Tasks, NEW id \in ServiceIds,
             Post(c, x, id)
      PROVE  Abstract!Next
  BY <1>1, <1>2 DEF Post, Abstract!Next
<1>3. ASSUME NEW c \in Callers, NEW x \in Tasks, NEW id \in ServiceIds,
             Dispatch(c, x, id)
      PROVE  Abstract!Next
  <2>1. PICK s \in GetService(c, id) :
          IF InContext(c, s) THEN RunInline(c, x) ELSE Enqueue(x, s)
    BY <1>3 DEF Dispatch
  <2>2. CASE InContext(c, s)
    <3>1. c \in Threads /\ Executing(c) /\ RunInline(c, x)
      BY <2>1, <2>2 DEF InContext
    <3>2. Phase = "active"
      BY <1>0, <1>3, <3>1, ExecutingIsActive DEF Shape, ShapeStacks, Dispatch, MayCall
    <3>3. \E y \in Tasks : status[y] = "running"
      BY <1>0, <3>1, TopIsRunning
    <3>4. Abstract!RunInline(x)
      BY <1>3, <3>1, <3>2, <3>3
         DEF Abstract!RunInline, RunInline, Dispatch, Phase, pool, call
    <3> QED
      BY <3>4 DEF Abstract!Next
  <2>3. CASE ~InContext(c, s)
    BY <1>1, <1>3, <2>1, <2>3 DEF Dispatch, Abstract!Next
  <2> QED
    BY <2>2, <2>3
<1>4. ASSUME NEW t \in Threads, TakeTask(t)
      PROVE  Abstract!Next
  <2>1. PICK x \in Tasks, s \in Services :
          InQueue(x, s, 1) /\ status' = [status EXCEPT ![x] = "running"]
    BY <1>0, <1>4, TakenTask
  <2>2. status[x] = "queued"
    BY <2>1 DEF Placed, QueueMatches, Queued
  <2>3. Phase = "active" /\ Phase' = Phase
    BY <1>4, ExecutingIsActive DEF TakeTask, Phase, pool, call
  <2> QED
    BY <2>1, <2>2, <2>3 DEF Abstract!Next, Abstract!Begin
<1>5. ASSUME NEW t \in Threads, FinishTask(t)
      PROVE  Abstract!Next
  <2>1. PICK x \in Tasks :
          InStack(x, t, 1) /\ status' = [status EXCEPT ![x] = "done"]
    BY <1>0, <1>5, FinishedTask
  <2>2. status[x] = "running"
    BY <2>1 DEF Placed, StackMatches, Stacked
  <2>3. Phase' = Phase
    BY <1>5 DEF FinishTask, Phase, pool, call
  <2> QED
    BY <2>1, <2>2, <2>3 DEF Abstract!Next, Abstract!End
<1>6. ASSUME NEW t \in Threads, ThreadInit(t) \/ EnterRun(t) \/ LeaveRun(t)
      PROVE  UNCHANGED <<status, Phase>>
  BY <1>6 DEF ThreadInit, EnterRun, LeaveRun, Phase, pool, call, tasks
<1>7. CASE Start
  BY <1>7 DEF Start, Alive, Phase, tasks, Abstract!Next, Abstract!Open
<1>8. CASE Spawn \/ Publish \/ StartReturn \/ StopService \/ Join \/ JoinSelf
  BY <1>8 DEF Spawn, Publish, StartReturn, StopService, Join, JoinSelf, Alive,
              Phase, pool, call, tasks
<1>9. CASE StopReturn
  <2>1. ~running /\ \A t \in Threads : pc[t] = "joined"
    BY <1>0, <1>9 DEF StopReturn, Shape, ShapeStopping, Stopping
  <2>2. \A t \in Threads : stack[t] = <<>>
    BY <1>0, <2>1 DEF Shape, ShapeStacks, Executing
  <2>3. \A x \in Tasks : status[x] # "running"
    BY <2>2 DEF Placed, StackMatches, Stacked, InStack
  <2> QED
    BY <1>9, <2>1, <2>3
       DEF StopReturn, Alive, Phase, tasks, Abstract!Next, Abstract!Close
<1>10. CASE DestroyMembers
  BY <1>10 DEF DestroyMembers, Alive, Phase, pool, call, Abstract!Next, Abstract!Discard
<1>11. ASSUME NEW c \in Callers, Destroy \/ Stop(c)
       PROVE  UNCHANGED <<status, Phase>>
  BY <1>11 DEF Destroy, Stop, StopBegin, Alive, Phase, pool, tasks
<1> QED
  BY <1>2, <1>3, <1>4, <1>5, <1>6, <1>7, <1>8, <1>9, <1>10, <1>11
     DEF Next, CallStep, ThreadStep, Callers

(***************************************************************************)
(* The pool keeps the promises of TaskPool: at most one run of a callable, *)
(* only between start() and the return of stop(), none left in progress    *)
(* when stop() returns, none once the pool is destroyed.                   *)
(***************************************************************************)
THEOREM Refinement == Spec => ImplementsTaskPool
<1>1. IInv /\ Placed /\ [Next]_vars => [Abstract!Next]_(Abstract!vars)
  <2> SUFFICES ASSUME IInv, Placed, [Next]_vars
               PROVE  [Abstract!Next]_(Abstract!vars)
    OBVIOUS
  <2>1. CASE Next
    BY <2>1, StepRefines DEF Abstract!vars
  <2>2. CASE UNCHANGED vars
    BY <2>2 DEF vars, pool, call, tasks, Phase, Abstract!vars
  <2> QED
    BY <2>1, <2>2
<1> QED
  BY InitRefines, Inductive, PlacedInvariant, <1>1, PTL
     DEF Spec, ImplementsTaskPool, Abstract!Spec

(***************************************************************************)
(* Once stop() has stopped every context, what is still queued stays       *)
(* queued: no thread takes another callable while stop() joins.            *)
(***************************************************************************)
THEOREM JoiningTakesNothing == Spec => NothingTakenWhileJoining
<1> DEFINE StaysQueued ==
      \A x \in Tasks :
         step \in {"join", "clear"} /\ status[x] = "queued" => status'[x] = "queued"
<1>1. IInv /\ Placed /\ [Next]_vars => [StaysQueued]_vars
  <2> SUFFICES ASSUME IInv, Placed, Next, NEW z \in Tasks,
                      step \in {"join", "clear"}, status[z] = "queued"
               PROVE  status'[z] = "queued"
    BY DEF vars
  <2>0. TypeOK /\ \A s \in Services : stopped[s]
    BY DEF IInv, Shape, ShapeStopping, Stopping
  <2>1. ASSUME NEW c \in Callers, NEW x \in Tasks, NEW id \in ServiceIds,
               Post(c, x, id) \/ Dispatch(c, x, id)
        PROVE  status'[z] = "queued"
    <3>1. x # z
      BY <2>1 DEF Post, Dispatch
    <3> QED
      BY <2>0, <2>1, <3>1 DEF Post, Dispatch, Enqueue, RunInline, TypeOK
  <2>2. ASSUME NEW t \in Threads, TakeTask(t)
        PROVE  FALSE
    BY <2>0, <2>2, ServiceOfThread DEF TakeTask
  <2>3. ASSUME NEW t \in Threads, FinishTask(t)
        PROVE  status'[z] = "queued"
    <3>1. status[Head(stack[t])] = "running"
      BY <2>0, <2>3, TopIsRunning DEF FinishTask
    <3> QED
      BY <2>0, <2>3, <3>1 DEF FinishTask, TypeOK
  <2>4. CASE UNCHANGED status
    BY <2>4
  <2>5. ~DestroyMembers
    BY DEF DestroyMembers
  <2> QED
    BY <2>1, <2>2, <2>3, <2>4, <2>5
       DEF Next, ThreadStep, CallStep, ThreadInit, EnterRun, LeaveRun, Start, Spawn,
           Publish, StartReturn, StopService, Join, JoinSelf, StopReturn, Destroy,
           Stop, StopBegin, tasks
<1> QED
  BY Inductive, PlacedInvariant, <1>1, PTL DEF Spec, NothingTakenWhileJoining
-------------------------------------------------------------------------------
(***************************************************************************)
(* Several pools on one context: what is proved of module SharedContext,   *)
(* under the names of SharedPools.  The property speaks of pools that run; *)
(* what carries it from step to step is the guard a pool holds from the    *)
(* beginning of start() on.                                                *)
(***************************************************************************)

\* A pool holds a guard exactly from start() to stop().
GuardsHeld ==
  \A p \in Pools :
    /\ serving[p] => inCall[p] = "idle"
    /\ p \in guards <=> serving[p] \/ inCall[p] = "start"

\* The guard keeps the context, and with it the threads, going.
GuardsServe ==
  \A p \in guards \ disturbed :
    ~halted /\ \A t \in TheirThreads : at[p][t] \in {"ready", "run", "busy"}

SharedInv ==
  /\ guards \subseteq Pools
  /\ serving \in [Pools -> BOOLEAN]
  /\ DOMAIN inCall = Pools
  /\ DOMAIN at = Pools /\ \A p \in Pools : DOMAIN at[p] = TheirThreads
  /\ halted \in BOOLEAN
  /\ GuardsHeld
  /\ GuardsServe

LEMMA SharedInit == Shared!Init => SharedInv
  BY DEF Shared!Init, SharedInv, GuardsHeld, GuardsServe

\* Steps of a thread: the context stops only when nobody holds a guard.
LEMMA SharedThread ==
  ASSUME SharedInv, NEW p \in Pools, NEW t \in TheirThreads, Shared!ThreadStep(p, t)
  PROVE  SharedInv'
<1>1. CASE Shared!EnterRun(p, t)
  BY <1>1 DEF Shared!EnterRun, Shared!Become, Shared!NoWork, SharedInv, GuardsHeld, GuardsServe
<1>2. CASE Shared!Take(p, t)
  BY <1>2 DEF Shared!Take, Shared!Become, SharedInv, GuardsHeld, GuardsServe
<1>3. CASE Shared!Finish(p, t)
  BY <1>3 DEF Shared!Finish, Shared!Become, Shared!NoWork, SharedInv, GuardsHeld, GuardsServe
<1>4. CASE Shared!LeaveRun(p, t)
  BY <1>4 DEF Shared!LeaveRun, Shared!Become, SharedInv, GuardsHeld, GuardsServe
<1> QED BY <1>1, <1>2, <1>3, <1>4 DEF Shared!ThreadStep

\* Steps of a caller: whoever stops the context has let go of its own guard, and disturbs
\* the pools that have not.
LEMMA SharedCall ==
  ASSUME SharedInv, NEW p \in Pools, Shared!Start(p) \/ Shared!Stop(p) \/ Shared!CallStep(p)
  PROVE  SharedInv'
<1>1. CASE Shared!Start(p)
  BY <1>1 DEF Shared!Start, Shared!Guarded, SharedInv, GuardsHeld, GuardsServe
<1>2. CASE Shared!StartReturn(p)
  BY <1>2 DEF Shared!StartReturn, SharedInv, GuardsHeld, GuardsServe
<1>3. CASE Shared!Stop(p)
  BY <1>3 DEF Shared!Stop, Shared!NoWork, SharedInv, GuardsHeld, GuardsServe
<1>4. CASE Shared!StopContext(p)
  BY <1>4 DEF Shared!StopContext, Shared!Stops, SharedInv, GuardsHeld, GuardsServe
<1>5. CASE Shared!StopReturn(p)
  BY <1>5 DEF Shared!StopReturn, SharedInv, GuardsHeld, GuardsServe
<1> QED BY <1>1, <1>2, <1>3, <1>4, <1>5 DEF Shared!CallStep

LEMMA SharedNext == ASSUME SharedInv, [Shared!Next]_(Shared!vars) PROVE SharedInv'
<1>1. CASE Shared!Post
  BY <1>1 DEF Shared!Post, SharedInv, GuardsHeld, GuardsServe
<1>2. CASE UNCHANGED Shared!vars
  BY <1>2 DEF Shared!vars, SharedInv, GuardsHeld, GuardsServe
<1> QED BY <1>1, <1>2, SharedThread, SharedCall DEF Shared!Next

(***************************************************************************)
(* A pool that runs on a context shared with any number of others keeps    *)
(* all its threads in service until another pool stops the context.        *)
(* ThreadPool::start and ThreadPool::stop on an io_context given from      *)
(* outside.                                                                *)
(***************************************************************************)
THEOREM ServingShared == SharedSpec => []ServesUnlessStopped
<1>1. SharedInv => ServesUnlessStopped
  BY DEF SharedInv, GuardsHeld, GuardsServe, ServesUnlessStopped, Shared!ServesUnlessStopped
<1> QED BY SharedInit, SharedNext, <1>1, PTL DEF SharedSpec, Shared!Spec
===============================================================================
