\* One thread logs while the main thread configures: two levels, a channel, three sinks.
CONSTANTS
  Loggers = {t1}
  Channels = {c}
  MaxLevel = 1
  MaxSinks = 3
SPECIFICATION Spec
INVARIANTS
  WantedRecordsArrive
  DroppedRecordsStayAway
  ForeignRecordsStayOut
  NoRecordTwice
PROPERTIES
  LinesAreFormatted
\* Nothing has to be logged after the exit.
CHECK_DEADLOCK FALSE
