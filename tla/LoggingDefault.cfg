\* A level, a sink and a record are enough.
CONSTANTS
  Loggers = {t1}
  Channels = {c}
  MaxLevel = 1
  MaxSinks = 1
SPECIFICATION Spec
INVARIANT NothingLostByDefault
CHECK_DEADLOCK FALSE
