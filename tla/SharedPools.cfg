\* Two pools of two threads, and two handlers waiting at most.
CONSTANTS
  Pools = {p1, p2}
  TheirThreads = {t1, t2}
  MaxQueued = 2
SPECIFICATION SharedFairSpec
INVARIANTS
  ServesUnlessStopped
PROPERTIES
  StopsReturn
\* The pools may be left stopped.
CHECK_DEADLOCK FALSE
