\* Two services with two threads each, two callables, either of which may call the pool.
CONSTANTS
  NbThread = 4
  NbServices = 2
  UIntMod = 5
  Tasks = {a, b}
  TasksMayStop = TRUE
SPECIFICATION FairSpec
INVARIANTS
  TypeOK
  StoppedIsFresh
  ServingWhileRunning
  LookupFindsOwnService
  TasksInOnePlace
PROPERTIES
  ImplementsTaskPool
  QueuedTasksRun
  CallsReturn
\* The pool may rest between calls, and nothing runs once it is destroyed.
CHECK_DEADLOCK FALSE
