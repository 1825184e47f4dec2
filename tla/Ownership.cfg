\* Three pool objects, a start of two threads, or three that fail after one, one function.
CONSTANTS
  Pools = {p1, p2, p3}
  Threads = {t1, t2, t3}
  NbThread = 2
  Fns = {f1}
SPECIFICATION FairSpec
INVARIANTS
  OneOwner
  RunningServes
  UnmovedCleansUp
PROPERTIES
  OnlyMisuseIsFatal
  JoinsReturn
\* Every pool may have been destroyed.
CHECK_DEADLOCK FALSE
