------------------------------- MODULE Logging -------------------------------
(***************************************************************************)
(* The logging interface (LoggingInterface.cpp): the main thread           *)
(* configures the core of Boost.Log while other threads log.               *)
(*                                                                         *)
(* A record is opened, which decides who will get it, and pushed later, to *)
(* one sink after the other, so the calls that configure the core fall     *)
(* before, between and after these steps.  Some of these calls are not one *)
(* step either: the console has no filter yet, and a file sink no          *)
(* formatter, when the core already uses it.                               *)
(*                                                                         *)
(* Boost.Log is external: it keeps weak pointers to the sinks of an opened *)
(* record, and falls back on a sink of its own when it has no other.       *)
(* Channel thresholds are set before anything is logged, as the header     *)
(* asks for.                                                               *)
(***************************************************************************)
EXTENDS Naturals, Sequences, FiniteSets

CONSTANTS
  Loggers,   \* the threads that log
  Channels,  \* the components that have a logger of their own
  MaxLevel,  \* the highest LoggingLevel; trace is 0
  MaxSinks   \* bound: sinks ever made

Levels == 0 .. MaxLevel
NoChannel == "no channel"
NotSet == MaxLevel + 1

ASSUME LoggingAssumption == MaxLevel \in Nat /\ MaxSinks \in Nat

VARIABLES
  level,        \* the level bound into the filter of the core, NotSet before any
  threshold,    \* severity_by_channel: the level of each channel, or NotSet
  initialised,  \* init_logging() was called
  sinks,        \* every sink made, in order
  added,        \* the indices of those the core has
  console,      \* console_logger: an index, 0 for nullptr
  syslog,       \* syslog_logger: likewise
  main,         \* what the main thread is inside of
  record        \* the last record of each thread and where it stands

levels == <<level, threshold, initialised>>
loggers == <<console, syslog>>
vars == <<levels, sinks, added, loggers, main, record>>

Default == 0  \* the sink of the core itself

\* Records of this library bear its tag, a severity and perhaps a channel; others
\* have no severity of the type LoggingLevel.
Foreign == [ours |-> FALSE, severity |-> NotSet, channel |-> NoChannel]
Records ==
  [ours : {TRUE}, severity : Levels, channel : Channels \cup {NoChannel}] \cup {Foreign}

Sinks == [kind : {"console", "syslog", "file", "rotating", "host"},
          filtered : BOOLEAN, formatted : BOOLEAN]
Indices == 0 .. MaxSinks

Idle == [step |-> "idle", content |-> Foreign, accepting |-> {},
         lines |-> {}, ready |-> {}, wanted |-> FALSE, setup |-> "unfiltered"]

Init ==
  /\ level = NotSet
  /\ threshold = [c \in Channels |-> NotSet]
  /\ initialised = FALSE
  /\ sinks = <<>>
  /\ added = {}
  /\ console = 0
  /\ syslog = 0
  /\ main = "ready"
  /\ record = [t \in Loggers |-> Idle]

-------------------------------------------------------------------------------
(* Levels *)

\* channel_severity_filter: the severity decides where the channel has a
\* threshold, the default result everywhere else; init_logging() makes it true.
SeverityByChannel(r) ==
  IF r.channel \in Channels /\ threshold[r.channel] # NotSet
  THEN r.severity >= threshold[r.channel]
  ELSE initialised

\* Faulty: the level of a channel takes the place of the global one.
FilterChannelFirst(r) ==
  \/ level = NotSet
  \/ r.severity = NotSet
  \/ IF r.channel \in Channels /\ threshold[r.channel] # NotSet
     THEN r.severity >= threshold[r.channel]
     ELSE r.severity >= level

\* Faulty: records without a severity are dropped.
FilterSeverityRequired(r) ==
  \/ level = NotSet
  \/ r.severity # NotSet /\ r.severity >= level /\ SeverityByChannel(r)

\* filter, which the core calls once set_logging_level() has installed it.
Filter(r) ==
  \/ level = NotSet
  \/ r.severity = NotSet
  \/ r.severity >= level /\ SeverityByChannel(r)

\* init_logging() ends with set_logging_level(trace).
InitLogging ==
  /\ main = "ready"
  /\ initialised' = TRUE
  /\ level' = 0
  /\ UNCHANGED <<threshold, sinks, added, loggers, main, record>>

SetLoggingLevel(l) ==
  /\ main = "ready"
  /\ level' = l
  /\ UNCHANGED <<threshold, initialised, sinks, added, loggers, main, record>>

\* "this should be called before any log happens": the map has no lock.
SetLoggingLevelForChannel(c, l) ==
  /\ main = "ready"
  /\ \A t \in Loggers : record[t] = Idle
  /\ threshold' = [threshold EXCEPT ![c] = l]
  /\ UNCHANGED <<level, initialised, sinks, added, loggers, main, record>>

-------------------------------------------------------------------------------
(* Sinks *)

\* The core gets a new sink; the main thread is inside `next` afterwards.
AddSink(kind, filtered, formatted, next) ==
  /\ main = "ready"
  /\ Len(sinks) < MaxSinks
  /\ sinks' = Append(sinks, [kind |-> kind, filtered |-> filtered, formatted |-> formatted])
  /\ added' = added \cup {Len(sinks')}
  /\ main' = next
  /\ UNCHANGED <<levels, record>>

Last == Len(sinks)

\* Faulty: every call makes a sink.
NewAlways(logger) == TRUE

\* Only the first call of enable_console_logging() and enable_builtin_syslog() adds
\* a sink.
New(logger) == logger = 0

EnableConsoleLogging ==
  /\ New(console)
  /\ AddSink("console", FALSE, TRUE, "console")
  /\ console' = Len(sinks')
  /\ UNCHANGED syslog

FilterConsole ==
  /\ main = "console"
  /\ sinks' = [sinks EXCEPT ![console].filtered = TRUE]
  /\ main' = "ready"
  /\ UNCHANGED <<levels, added, loggers, record>>

\* Faulty: the sink is stored in the pointer of the console.
EnableBuiltinSyslogAsConsole ==
  /\ New(syslog)
  /\ AddSink("syslog", TRUE, TRUE, "ready")
  /\ console' = Len(sinks')
  /\ UNCHANGED syslog

\* Faulty: the sink gets no filter.
EnableBuiltinSyslogUnfiltered ==
  /\ New(syslog)
  /\ AddSink("syslog", FALSE, TRUE, "ready")
  /\ syslog' = Len(sinks')
  /\ UNCHANGED console

EnableBuiltinSyslog ==
  /\ New(syslog)
  /\ AddSink("syslog", TRUE, TRUE, "ready")
  /\ syslog' = Len(sinks')
  /\ UNCHANGED console

AddFileSink ==
  /\ AddSink("file", TRUE, FALSE, "file")
  /\ UNCHANGED loggers

FormatFile ==
  /\ main = "file"
  /\ sinks' = [sinks EXCEPT ![Last].formatted = TRUE]
  /\ main' = "ready"
  /\ UNCHANGED <<levels, added, loggers, record>>

\* Faulty: no formatter is set.
AddFileSinkRotatePlain ==
  /\ AddSink("rotating", TRUE, FALSE, "ready")
  /\ UNCHANGED loggers

AddFileSinkRotate ==
  /\ AddSink("rotating", TRUE, TRUE, "ready")
  /\ UNCHANGED loggers

\* The program has sinks of its own, which take every record.
AddHostSink ==
  /\ AddSink("host", FALSE, TRUE, "ready")
  /\ UNCHANGED loggers

\* atexit runs this on the main thread while the others may go on.
FlushLogs ==
  /\ main = "ready"
  /\ initialised
  /\ added' = {}
  /\ main' = "exited"
  /\ UNCHANGED <<levels, sinks, loggers, record>>

-------------------------------------------------------------------------------
(* Threads that log *)

WillConsume(s, r) == sinks[s].filtered => r.ours

Accepting(r) == IF added = {} THEN {Default} ELSE {s \in added : WillConsume(s, r)}

\* Sinks whose enabling call has returned.
Ready == IF main \in {"console", "file"} THEN added \ {Last} ELSE added

\* Every level that was asked for lets the record through.
Wanted(r) ==
  LET asked == {level} \cup {threshold[c] : c \in Channels \cap {r.channel}}
  IN  (level # NotSet /\ r.ours) => \A l \in asked \ {NotSet} : r.severity >= l

\* What the program had called so far.
Setup ==
  IF initialised THEN "initialised" ELSE IF level = NotSet THEN "unfiltered" ELSE "level only"

\* open_record() calls the filter of the core and those of its sinks.
Open(t, r) ==
  LET opened == Filter(r) /\ Accepting(r) # {}
  IN  /\ record[t].step = "idle"
      /\ record' = [record EXCEPT ![t] =
           [step |-> IF opened THEN "opened" ELSE "idle",
            content |-> r,
            accepting |-> IF opened THEN Accepting(r) ELSE {},
            lines |-> {},
            ready |-> Ready,
            wanted |-> Wanted(r),
            setup |-> Setup]]
      /\ UNCHANGED <<levels, sinks, added, loggers, main>>

\* Besides the core, the static pointers and the threads that push keep a sink alive.
Alive(s) ==
  \/ s \in added \cup {Default, console, syslog}
  \/ \E u \in Loggers : record[u].step = "pushing" /\ s \in record[u].accepting

Push(t) ==
  LET alive == {s \in record[t].accepting : Alive(s)}
  IN  /\ record[t].step = "opened"
      /\ record' = [record EXCEPT ![t].step = IF alive = {} THEN "idle" ELSE "pushing",
                                  ![t].accepting = alive]
      /\ UNCHANGED <<levels, sinks, added, loggers, main>>

\* The sink formats the record with the formatter it has now.
Consume(t, s) ==
  LET line == [sink |-> s, formatted |-> s # Default /\ sinks[s].formatted]
      rest == record[t].accepting \ {s}
  IN  /\ record[t].step = "pushing"
      /\ s \in record[t].accepting
      /\ record' = [record EXCEPT ![t].step = IF rest = {} THEN "idle" ELSE "pushing",
                                  ![t].accepting = rest,
                                  ![t].lines = @ \cup {line}]
      /\ UNCHANGED <<levels, sinks, added, loggers, main>>

Configure ==
  \/ InitLogging
  \/ \E l \in Levels : SetLoggingLevel(l)
  \/ \E c \in Channels, l \in Levels : SetLoggingLevelForChannel(c, l)
  \/ EnableConsoleLogging
  \/ FilterConsole
  \/ EnableBuiltinSyslog
  \/ AddFileSink
  \/ FormatFile
  \/ AddFileSinkRotate
  \/ AddHostSink
  \/ FlushLogs

Log(t) ==
  \/ \E r \in Records : Open(t, r)
  \/ Push(t)
  \/ \E s \in Indices : Consume(t, s)

Next == Configure \/ \E t \in Loggers : Log(t)

Spec == Init /\ [][Next]_vars

-------------------------------------------------------------------------------
(* Properties *)

\* Every variable stays in its range; the two static pointers name sinks of their
\* kind, and a record in progress has somewhere to go.
TypeOK ==
  /\ level \in Levels \cup {NotSet}
  /\ threshold \in [Channels -> Levels \cup {NotSet}]
  /\ initialised \in BOOLEAN
  /\ sinks \in Seq(Sinks) /\ Len(sinks) <= MaxSinks
  /\ added \subseteq 1 .. Len(sinks)
  /\ console # 0 => sinks[console].kind = "console"
  /\ syslog # 0 => sinks[syslog].kind = "syslog"
  /\ main \in {"ready", "console", "file", "exited"}
  /\ \A t \in Loggers :
       /\ record[t].step \in {"idle", "opened", "pushing"}
       /\ record[t].content \in Records
       /\ record[t].accepting \in SUBSET (0 .. Len(sinks))
       /\ record[t].step # "idle" <=> record[t].accepting # {}
       /\ record[t].lines \subseteq [sink : 0 .. Len(sinks), formatted : BOOLEAN]

LinesOf(t) == {l.sink : l \in record[t].lines}

\* The sinks that were ready for the record when it was opened.
Due(t) == {s \in record[t].ready : record[t].content.ours \/ sinks[s].kind = "host"}

\* A record of this library that passes every level asked for, and was opened when
\* enable_console_logging() or another call had returned, gets to that sink, and a
\* record of the program to the program's own sinks, whatever is configured in the
\* meantime; only the exit of the program can take away a sink nobody else holds.
WantedRecordsArrive ==
  \A t \in Loggers :
    record[t].step = "idle" /\ record[t].wanted /\ record[t].setup # "level only" =>
      \A s \in Due(t) : s \in LinesOf(t) \/ ~ Alive(s)

\* A record that some level asked to drop when it was opened is written nowhere.
DroppedRecordsStayAway ==
  \A t \in Loggers : ~ record[t].wanted => record[t].lines = {}

\* Records of the rest of the program stay out of the sinks of this library, but for
\* a console whose filter was not set yet when the record was opened.
ForeignRecordsStayOut ==
  \A t \in Loggers : \A s \in LinesOf(t) \ {Default} :
    ~ record[t].content.ours /\ sinks[s].kind # "host" =>
      sinks[s].kind = "console" /\ s \notin record[t].ready

\* However often it is enabled, the console or the syslog shows a record once.
NoRecordTwice ==
  \A t \in Loggers : \A s1, s2 \in LinesOf(t) \ {Default} :
    sinks[s1].kind = sinks[s2].kind /\ sinks[s1].kind \in {"console", "syslog"} => s1 = s2

\* No sink gets an unformatted line, but for a file whose add_file_sink() has not
\* returned.
LinesAreFormatted ==
  [][\A t \in Loggers : \A l \in record'[t].lines \ record[t].lines :
        l.formatted \/ l.sink = Default \/ (main = "file" /\ l.sink = Last)]_vars

\* "by default, let's not loose any logs" (filter), in a program that does not call
\* init_logging(), as the Readme has it for one that uses Boost.Log already: a record
\* no level asked to drop gets to every sink that is there.
NothingLostByDefault ==
  \A t \in Loggers :
    record[t].step = "idle" /\ record[t].wanted =>
      \A s \in Due(t) : s \in LinesOf(t) \/ ~ Alive(s)
=============================================================================
