CONSTANTS
  Pools = {p1, p2}
  Threads = {t1}
  NbThread = 1
  Fns = {f1}
SPECIFICATION Spec
INVARIANT EveryExitCleansUp
CHECK_DEADLOCK FALSE
