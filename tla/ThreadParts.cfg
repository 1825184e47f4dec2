\* A counter of four values, which three does not divide; two dispatchers and three topologies;
\* two threads and a second of two nanoseconds.
CONSTANTS
  Shapes <- SomeShapes
  Callers = {u1, u2}
  UIntMod = 4
  MaxCalls = 9
  MaxHandles = 8
  Objects = {c1, c2}
  Topologies = {t1, t2, t3}
  NbCores <- SomeCores
  MaxThreads = 4
  Threads = {th1, th2}
  NsPerSec = 2
  MaxTime = 4
SPECIFICATION Spec
INVARIANTS
  LookupSurvivesFailedStart
  ContextsTakeTurns
  CoresAreOwned
  ThreadsSpread
PROPERTIES
  MeasuresItsThread
\* A program may have done all it does within the bounds.
CHECK_DEADLOCK FALSE
