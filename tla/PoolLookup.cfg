CONSTANTS
  NbThread = 2
  NbServices = 2
  UIntMod = 3
  Tasks = {a}
  TasksMayStop = FALSE
SPECIFICATION Spec
INVARIANT ExecutingFindsItsService
\* The pool may rest between calls, and nothing runs once it is destroyed.
CHECK_DEADLOCK FALSE
