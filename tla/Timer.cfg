\* Two timers of two milliseconds and a half, two ticks to the millisecond; two workers.
CONSTANTS
  Timers = {t1, t2}
  Workers = {w1, w2}
  Delay = 5
  TicksPerMs = 2
SPECIFICATION FairSpec
INVARIANTS
  TypeOK
  OneLinkPerTimer
PROPERTIES
  EndedIsFinal
  NeverEarly
  KeepsTicking
\* Every timer may have ended and the pool be left as it is.
CHECK_DEADLOCK FALSE
