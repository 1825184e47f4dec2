---------------------------- MODULE LoggingProofs ----------------------------
(***************************************************************************)
(* What TLAPS proves of Logging, for every number of threads, channels,    *)
(* levels and sinks.                                                       *)
(***************************************************************************)
EXTENDS Logging, SequenceTheorems, TLAPS

(***************************************************************************)
(* The inductive invariant.  Pointers ties the static pointers and the     *)
(* main thread to the list of sinks: no sink of their kind has another     *)
(* index.  Filtered says which sinks take a foreign record, and which do   *)
(* so only until the main thread has set them up.                          *)
(* Bound says the same of the sinks a record is bound for or was written   *)
(* to: what was decided when it was opened stays true while the main       *)
(* thread goes on.                                                         *)
(***************************************************************************)
Content == [step : {"idle", "opened", "pushing"}, content : Records, accepting : SUBSET Nat,
            lines : SUBSET [sink : Nat, formatted : BOOLEAN], ready : SUBSET Nat,
            wanted : BOOLEAN, setup : {"initialised", "unfiltered", "level only"}]

Shape ==
  /\ level \in Levels \cup {NotSet}
  /\ threshold \in [Channels -> Levels \cup {NotSet}]
  /\ initialised \in BOOLEAN
  /\ sinks \in Seq(Sinks) /\ Len(sinks) <= MaxSinks
  /\ added \subseteq 1 .. Len(sinks)
  /\ main \in {"ready", "console", "file", "exited"}
  /\ record \in [Loggers -> Content]

Pointers ==
  /\ console \in 0 .. Len(sinks) /\ (console # 0 => sinks[console].kind = "console")
  /\ syslog \in 0 .. Len(sinks) /\ (syslog # 0 => sinks[syslog].kind = "syslog")
  /\ \A s \in 1 .. Len(sinks) : /\ sinks[s].kind = "console" => s = console
                                /\ sinks[s].kind = "syslog" => s = syslog
  /\ main = "console" => console = Last /\ Last # 0
  /\ main = "file" => Last # 0

Filtered ==
  \A s \in 1 .. Len(sinks) :
    /\ sinks[s].kind = "host" => ~ sinks[s].filtered
    /\ \/ sinks[s].kind = "host"
       \/ sinks[s].filtered
       \/ main = "console" /\ s = console

\* Where a foreign record that found the sinks of `ready` may go.
OpenToAll(s, ready) ==
  s = Default \/ sinks[s].kind = "host" \/ (sinks[s].kind = "console" /\ s \notin ready)

Bound(t) ==
  LET r == record[t]
  IN  /\ r.accepting \subseteq 0 .. Len(sinks) /\ LinesOf(t) \subseteq 0 .. Len(sinks)
      /\ r.step = "idle" <=> r.accepting = {}
      /\ r.ready \subseteq 1 .. Len(sinks)
      /\ ~ r.wanted => r.accepting = {} /\ r.lines = {}
      /\ ~ r.content.ours => \A s \in r.accepting \cup LinesOf(t) : OpenToAll(s, r.ready)

IInv == Shape /\ Pointers /\ Filtered /\ \A t \in Loggers : Bound(t)

-------------------------------------------------------------------------------
(* Levels *)

LEMMA LevelTypes == Levels \subseteq Nat /\ NotSet \in Nat /\ NotSet \notin Levels
BY LoggingAssumption DEF Levels, NotSet

\* filter() lets through no record that some level asked to drop.
LEMMA FilterIsSound ==
  ASSUME Shape, NEW r \in Records, Filter(r)
  PROVE  Wanted(r)
<1> SUFFICES ASSUME level # NotSet, r.ours,
                    NEW l \in ({level} \cup {threshold[c] : c \in Channels \cap {r.channel}})
                              \ {NotSet}
             PROVE  r.severity >= l
  BY Zenon DEF Wanted
<1>1. r.severity \in Levels
  <2>1. Foreign.ours = FALSE
    BY DEF Foreign
  <2>2. r \in [ours : {TRUE}, severity : Levels, channel : Channels \cup {NoChannel}]
    BY <2>1 DEF Records
  <2> QED
    BY <2>2
<1>2. r.severity >= level /\ SeverityByChannel(r)
  BY <1>1, LevelTypes DEF Filter
<1>3. CASE l = level
  BY <1>2, <1>3
<1>4. CASE l # level
  <2>1. r.channel \in Channels /\ l = threshold[r.channel]
    BY <1>4
  <2> QED
    BY <1>2, <2>1 DEF SeverityByChannel
<1> QED
  BY <1>3, <1>4

-------------------------------------------------------------------------------
(* Steps of the main thread *)

\* A step that makes sinks or sets them up leaves every record bound for the same
\* places: kinds do not change.
LEMMA BoundStays ==
  ASSUME Shape, NEW t \in Loggers, Bound(t), record' = record,
         Len(sinks') \in Nat, Len(sinks') >= Len(sinks),
         \A s \in 1 .. Len(sinks) : sinks'[s].kind = sinks[s].kind
  PROVE  Bound(t)'
<1>1. LinesOf(t)' = LinesOf(t)
  BY DEF LinesOf
<1>2. Len(sinks) \in Nat
  BY DEF Shape
<1>3. 0 .. Len(sinks) \subseteq 0 .. Len(sinks') /\ 1 .. Len(sinks) \subseteq 1 .. Len(sinks')
  BY <1>2
<1>4. ASSUME NEW s \in 0 .. Len(sinks), OpenToAll(s, record[t].ready)
      PROVE  OpenToAll(s, record[t].ready)'
  <2>1. s = Default \/ s \in 1 .. Len(sinks)
    BY <1>2 DEF Default
  <2> QED
    BY <1>4, <2>1 DEF OpenToAll
<1> QED
  BY <1>1, <1>3, <1>4 DEF Bound

\* What AddSink does to the list.
LEMMA AddSinkGrows ==
  ASSUME Shape, NEW kind \in {"console", "syslog", "file", "rotating", "host"},
         NEW filtered \in BOOLEAN, NEW formatted \in BOOLEAN,
         NEW next \in {"ready", "console", "file"},
         AddSink(kind, filtered, formatted, next)
  PROVE  /\ Shape'
         /\ Len(sinks') = Len(sinks) + 1
         /\ \A s \in 1 .. Len(sinks) : sinks'[s] = sinks[s]
         /\ sinks'[Len(sinks')] = [kind |-> kind, filtered |-> filtered, formatted |-> formatted]
<1> DEFINE new == [kind |-> kind, filtered |-> filtered, formatted |-> formatted]
<1>1. new \in Sinks /\ sinks \in Seq(Sinks) /\ sinks' = Append(sinks, new)
  BY DEF AddSink, Sinks, Shape
<1>2. /\ sinks' \in Seq(Sinks)
      /\ Len(sinks') = Len(sinks) + 1
      /\ \A s \in 1 .. Len(sinks) : sinks'[s] = sinks[s]
      /\ sinks'[Len(sinks) + 1] = new
  <2> HIDE DEF new
  <2> QED
    BY <1>1, AppendProperties
<1>3. Len(sinks) \in Nat /\ Len(sinks) < MaxSinks
  BY <1>1 DEF AddSink
<1>4. added' \subseteq 1 .. Len(sinks')
  <2>1. added \subseteq 1 .. Len(sinks) /\ added' = added \cup {Len(sinks')}
    BY DEF AddSink, Shape
  <2>2. 1 .. Len(sinks) \subseteq 1 .. Len(sinks') /\ Len(sinks') \in 1 .. Len(sinks')
    BY <1>2, <1>3
  <2> QED
    BY <2>1, <2>2
<1>5. Len(sinks') <= MaxSinks
  BY <1>2, <1>3, LoggingAssumption
<1> QED
  BY <1>2, <1>4, <1>5 DEF AddSink, Shape, levels

\* Every sink added with a filter, or of the program itself, keeps the invariant.
LEMMA AddFiltered ==
  ASSUME IInv, NEW kind \in {"syslog", "file", "rotating", "host"},
         NEW formatted \in BOOLEAN, NEW next \in {"ready", "file"},
         AddSink(kind, kind # "host", formatted, next),
         console' = console,
         IF kind = "syslog" THEN syslog = 0 /\ syslog' = Len(sinks') ELSE syslog' = syslog
  PROVE  IInv'
<1>1. /\ Shape'
      /\ Len(sinks') = Len(sinks) + 1
      /\ \A s \in 1 .. Len(sinks) : sinks'[s] = sinks[s]
      /\ sinks'[Len(sinks')] = [kind |-> kind, filtered |-> kind # "host", formatted |-> formatted]
  BY AddSinkGrows DEF IInv
<1>2. Len(sinks) \in Nat /\ Len(sinks') \in Nat
  BY <1>1 DEF IInv, Shape
<1>3. 1 .. Len(sinks') = (1 .. Len(sinks)) \cup {Len(sinks')}
  BY <1>1, <1>2
<1>4. main = "ready" /\ main' = next /\ record' = record
  BY DEF AddSink
<1>5. Pointers'
  <2>1. console' \in 0 .. Len(sinks') /\ (console' # 0 => sinks'[console'].kind = "console")
    BY <1>1, <1>2 DEF IInv, Pointers
  <2>2. syslog' \in 0 .. Len(sinks') /\ (syslog' # 0 => sinks'[syslog'].kind = "syslog")
    BY <1>1, <1>2 DEF IInv, Pointers
  <2>3. \A s \in 1 .. Len(sinks') : /\ sinks'[s].kind = "console" => s = console'
                                    /\ sinks'[s].kind = "syslog" => s = syslog'
    BY <1>1, <1>2, <1>3 DEF IInv, Pointers
  <2> QED
    BY <1>1, <1>2, <1>4, <2>1, <2>2, <2>3 DEF Pointers, Last
<1>6. Filtered'
  <2>1. ASSUME NEW s \in 1 .. Len(sinks)
        PROVE  sinks'[s].kind = "host" \/ sinks'[s].filtered
    <3>1. main # "console"
      BY <1>4
    <3> QED
      BY <1>1, <3>1 DEF IInv, Filtered
  <2>2. ASSUME kind # "host"
        PROVE  sinks'[Len(sinks')].filtered
    <3>1. (kind # "host") = TRUE
      BY <2>2
    <3>2. sinks'[Len(sinks')] = [kind |-> kind, filtered |-> TRUE, formatted |-> formatted]
      BY <1>1, <3>1, Zenon
    <3> QED
      BY <3>2
  <2>3. sinks'[Len(sinks')].kind = kind
    BY <1>1
  <2>4. ASSUME kind = "host"
        PROVE  ~ sinks'[Len(sinks')].filtered
    <3>1. (kind # "host") = FALSE
      BY <2>4
    <3>2. sinks'[Len(sinks')] = [kind |-> kind, filtered |-> FALSE, formatted |-> formatted]
      BY <1>1, <3>1, Zenon
    <3> QED
      BY <3>2
  <2>5. \A s \in 1 .. Len(sinks) : sinks'[s].kind = "host" => ~ sinks'[s].filtered
    BY <1>1 DEF IInv, Filtered
  <2> QED
    BY <1>3, <2>1, <2>2, <2>3, <2>4, <2>5 DEF Filtered
<1>7. \A t \in Loggers : Bound(t)'
  BY <1>1, <1>2, <1>4, BoundStays DEF IInv
<1> QED
  BY <1>1, <1>5, <1>6, <1>7 DEF IInv

\* The console is added without a filter: until it has one, main says so.
LEMMA AddConsole ==
  ASSUME IInv, EnableConsoleLogging
  PROVE  IInv'
<1>1. AddSink("console", FALSE, TRUE, "console") /\ console = 0 /\ console' = Len(sinks')
      /\ syslog' = syslog
  BY DEF EnableConsoleLogging, New
<1>2. /\ Shape'
      /\ Len(sinks') = Len(sinks) + 1
      /\ \A s \in 1 .. Len(sinks) : sinks'[s] = sinks[s]
      /\ sinks'[Len(sinks')] = [kind |-> "console", filtered |-> FALSE, formatted |-> TRUE]
  BY <1>1, AddSinkGrows DEF IInv
<1>3. Len(sinks) \in Nat /\ Len(sinks') \in Nat
  BY <1>2 DEF IInv, Shape
<1>4. 1 .. Len(sinks') = (1 .. Len(sinks)) \cup {Len(sinks')}
  BY <1>2, <1>3
<1>5. main = "ready" /\ main' = "console" /\ record' = record
  BY <1>1 DEF AddSink
<1>6. Pointers'
  <2>1. \A s \in 1 .. Len(sinks') : /\ sinks'[s].kind = "console" => s = console'
                                    /\ sinks'[s].kind = "syslog" => s = syslog'
    BY <1>1, <1>2, <1>3, <1>4 DEF IInv, Pointers
  <2> QED
    BY <1>1, <1>2, <1>3, <1>5, <2>1 DEF IInv, Pointers, Last
<1>7. Filtered'
  <2>1. \A s \in 1 .. Len(sinks) : /\ sinks'[s].kind = "host" => ~ sinks'[s].filtered
                                   /\ sinks'[s].kind = "host" \/ sinks'[s].filtered
    BY <1>2, <1>5 DEF IInv, Filtered
  <2>2. sinks'[Len(sinks')].kind = "console"
    BY <1>2
  <2> QED
    BY <1>1, <1>4, <1>5, <2>1, <2>2 DEF Filtered
<1>8. \A t \in Loggers : Bound(t)'
  BY <1>2, <1>3, <1>5, BoundStays DEF IInv
<1> QED
  BY <1>2, <1>6, <1>7, <1>8 DEF IInv

\* The two steps that set up a sink the core already has.
LEMMA SetUpSink ==
  ASSUME IInv, FilterConsole \/ FormatFile
  PROVE  IInv'
<1>1. /\ main' = "ready" /\ record' = record /\ added' = added
      /\ console' = console /\ syslog' = syslog
      /\ UNCHANGED levels
  BY DEF FilterConsole, FormatFile, loggers
<1>2. Len(sinks) \in Nat /\ sinks \in Seq(Sinks)
  BY DEF IInv, Shape
<1>3. /\ sinks' \in Seq(Sinks) /\ Len(sinks') = Len(sinks)
      /\ \A s \in 1 .. Len(sinks) : sinks'[s].kind = sinks[s].kind
      /\ \A s \in 1 .. Len(sinks) : /\ sinks'[s].kind = "host" => ~ sinks'[s].filtered
                                    /\ sinks'[s].kind = "host" \/ sinks'[s].filtered
  <2>1. CASE FilterConsole
    <3> DEFINE e == [sinks[console] EXCEPT !.filtered = TRUE]
    <3>1. console \in 1 .. Len(sinks) /\ main = "console"
      BY <1>2, <2>1 DEF FilterConsole, IInv, Pointers, Last
    <3>2. sinks[console] \in Sinks
      BY <1>2, <3>1
    <3>3. e \in Sinks /\ e.kind = sinks[console].kind /\ e.filtered
      BY <3>2 DEF Sinks
    <3>4. sinks' = [sinks EXCEPT ![console] = e]
      BY <2>1 DEF FilterConsole
    <3> HIDE DEF e
    <3>5. /\ sinks' \in Seq(Sinks) /\ Len(sinks') = Len(sinks)
          /\ \A s \in 1 .. Len(sinks) : sinks'[s] = IF s = console THEN e ELSE sinks[s]
      BY <1>2, <3>1, <3>3, <3>4, ExceptSeq
    <3>6. \A s \in 1 .. Len(sinks) : /\ sinks[s].kind = "host" => ~ sinks[s].filtered
                                     /\ sinks[s].kind = "host" \/ sinks[s].filtered \/ s = console
      BY DEF IInv, Filtered
    <3>7. sinks[console].kind = "console"
      BY <3>1 DEF IInv, Pointers
    <3> QED
      BY <3>3, <3>5, <3>6, <3>7
  <2>2. CASE FormatFile
    <3> DEFINE e == [sinks[Last] EXCEPT !.formatted = TRUE]
    <3>1. Last \in 1 .. Len(sinks) /\ main = "file"
      BY <1>2, <2>2 DEF FormatFile, IInv, Pointers, Last
    <3>2. sinks[Last] \in Sinks
      BY <1>2, <3>1
    <3>3. e \in Sinks /\ e.kind = sinks[Last].kind /\ e.filtered = sinks[Last].filtered
      BY <3>2 DEF Sinks
    <3>4. sinks' = [sinks EXCEPT ![Last] = e]
      BY <2>2 DEF FormatFile
    <3> HIDE DEF e
    <3>5. /\ sinks' \in Seq(Sinks) /\ Len(sinks') = Len(sinks)
          /\ \A s \in 1 .. Len(sinks) : sinks'[s] = IF s = Last THEN e ELSE sinks[s]
      BY <1>2, <3>1, <3>3, <3>4, ExceptSeq
    <3>6. \A s \in 1 .. Len(sinks) : /\ sinks[s].kind = "host" => ~ sinks[s].filtered
                                     /\ sinks[s].kind = "host" \/ sinks[s].filtered
      BY <3>1 DEF IInv, Filtered
    <3> QED
      BY <3>3, <3>5, <3>6
  <2> QED
    BY <2>1, <2>2
<1>4. Shape'
  BY <1>1, <1>3 DEF IInv, Shape, levels
<1>5. Pointers'
  BY <1>1, <1>2, <1>3 DEF IInv, Pointers, Last
<1>6. Filtered'
  BY <1>3 DEF Filtered
<1>7. \A t \in Loggers : Bound(t)'
  BY <1>1, <1>2, <1>3, BoundStays DEF IInv
<1> QED
  BY <1>4, <1>5, <1>6, <1>7 DEF IInv

-------------------------------------------------------------------------------
(* Steps of a thread that logs *)

\* A step of thread t concerns its own record only.
LEMMA RecordStep ==
  ASSUME IInv, NEW t \in Loggers, NEW r \in Content, record' = [record EXCEPT ![t] = r],
         UNCHANGED <<levels, sinks, added, loggers, main>>, Bound(t)'
  PROVE  IInv'
<1>1. record' \in [Loggers -> Content]
  BY DEF IInv, Shape
<1>2. Shape'
  BY <1>1 DEF IInv, Shape, levels
<1>3. Pointers' /\ Filtered'
  BY DEF IInv, Pointers, Filtered, Last, loggers
<1>4. ASSUME NEW u \in Loggers
      PROVE  Bound(u)'
  <2>1. CASE u = t
    BY <2>1
  <2>2. CASE u # t
    <3>1. record'[u] = record[u]
      BY <2>2 DEF IInv, Shape
    <3>2. LinesOf(u)' = LinesOf(u)
      BY <3>1 DEF LinesOf
    <3> QED
      BY <3>1, <3>2 DEF IInv, Bound, OpenToAll
  <2> QED
    BY <2>1, <2>2
<1> QED
  BY <1>2, <1>3, <1>4 DEF IInv

LEMMA OpenStep ==
  ASSUME IInv, NEW t \in Loggers, NEW r \in Records, Open(t, r)
  PROVE  IInv'
<1> DEFINE opened == Filter(r) /\ Accepting(r) # {}
           accepting == IF opened THEN Accepting(r) ELSE {}
           new == [step |-> IF opened THEN "opened" ELSE "idle", content |-> r,
                   accepting |-> accepting, lines |-> {}, ready |-> Ready,
                   wanted |-> Wanted(r), setup |-> Setup]
<1>1. record' = [record EXCEPT ![t] = new] /\ UNCHANGED <<levels, sinks, added, loggers, main>>
  BY DEF Open
<1>2. Len(sinks) \in Nat /\ added \subseteq 1 .. Len(sinks)
  BY DEF IInv, Shape
<1>3. Accepting(r) \subseteq 0 .. Len(sinks)
  <2>1. Accepting(r) \subseteq added \cup {Default}
    BY Zenon DEF Accepting
  <2>2. added \subseteq 0 .. Len(sinks) /\ Default \in 0 .. Len(sinks)
    BY <1>2 DEF Default
  <2> QED
    BY <2>1, <2>2, Zenon
<1>4. Ready \subseteq added
  BY DEF Ready
<1>5. Wanted(r) \in BOOLEAN
  <2> DEFINE asked == {level} \cup {threshold[c] : c \in Channels \cap {r.channel}}
             filtered == level # NotSet /\ r.ours
             passes == \A l \in asked \ {NotSet} : r.severity >= l
  <2>1. Wanted(r) = (filtered => passes)
    BY DEF Wanted
  <2> HIDE DEF filtered, passes
  <2>2. (filtered => passes) \in BOOLEAN
    OBVIOUS
  <2> QED
    BY <2>1, <2>2, Zenon
<1>6. opened => Wanted(r)
  BY FilterIsSound DEF IInv
<1>7. ASSUME ~ r.ours, NEW s \in Accepting(r)
      PROVE  OpenToAll(s, Ready)
  <2>1. CASE s = Default
    BY <2>1 DEF OpenToAll
  <2>2. CASE s # Default
    <3>1. s \in 1 .. Len(sinks) /\ ~ sinks[s].filtered
      BY <1>2, <1>7, <2>2 DEF Accepting, WillConsume
    <3>2. sinks[s].kind = "host" \/ (main = "console" /\ s = console)
      BY <3>1 DEF IInv, Filtered
    <3>3. CASE main = "console" /\ s = console
      <4>1. sinks[s].kind = "console" /\ s = Last
        BY <3>1, <3>3 DEF IInv, Pointers
      <4> QED
        BY <3>3, <4>1 DEF OpenToAll, Ready
    <3> QED
      BY <3>2, <3>3 DEF OpenToAll
  <2> QED
    BY <2>1, <2>2
<1>8. new \in Content
  <2>1. accepting \in SUBSET Nat /\ Ready \in SUBSET Nat
    BY <1>2, <1>3, <1>4
  <2>2. Setup \in {"initialised", "unfiltered", "level only"}
    BY DEF Setup
  <2>3. (IF opened THEN "opened" ELSE "idle") \in {"idle", "opened", "pushing"}
    OBVIOUS
  <2> HIDE DEF opened, accepting
  <2> QED
    BY <1>5, <2>1, <2>2, <2>3, Zenon DEF Content
<1>9. Bound(t)'
  <2>1. record'[t] = new
    BY <1>1 DEF IInv, Shape
  <2>2. LinesOf(t)' = {}
    BY <2>1 DEF LinesOf
  <2>3. /\ accepting \subseteq 0 .. Len(sinks)
        /\ ((IF opened THEN "opened" ELSE "idle") = "idle") <=> (accepting = {})
        /\ ~ Wanted(r) => accepting = {}
        /\ ~ r.ours => \A s \in accepting : OpenToAll(s, Ready)
    BY <1>3, <1>6, <1>7
  <2>4. Ready \subseteq 1 .. Len(sinks)
    BY <1>2, <1>4
  <2>5. /\ new.step = (IF opened THEN "opened" ELSE "idle") /\ new.content = r
        /\ new.accepting = accepting /\ new.lines = {} /\ new.ready = Ready
        /\ new.wanted = Wanted(r)
    BY Zenon
  <2> HIDE DEF opened, accepting, new
  <2>6. sinks' = sinks
    BY <1>1
  <2> QED
    BY <2>1, <2>2, <2>3, <2>4, <2>5, <2>6 DEF Bound, OpenToAll
<1> HIDE DEF new
<1> QED
  BY <1>1, <1>8, <1>9, RecordStep

\* What a record is bound for only gets less, and all of it was decided in Open.
LEMMA PushStep ==
  ASSUME IInv, NEW t \in Loggers, Push(t)
  PROVE  IInv'
<1> DEFINE alive == {s \in record[t].accepting : Alive(s)}
           new == [record[t] EXCEPT !.step = IF alive = {} THEN "idle" ELSE "pushing",
                                    !.accepting = alive]
<1>1. record' = [record EXCEPT ![t] = new] /\ UNCHANGED <<levels, sinks, added, loggers, main>>
  BY DEF Push
<1>2. record[t] \in Content /\ Bound(t)
  BY DEF IInv, Shape
<1>3. alive \subseteq record[t].accepting
  OBVIOUS
<1> HIDE DEF alive
<1>4. new \in Content
  BY <1>2, <1>3 DEF Content
<1>5. Bound(t)'
  <2>1. record'[t] = new
    BY <1>1 DEF IInv, Shape
  <2>2. /\ new.step = (IF alive = {} THEN "idle" ELSE "pushing") /\ new.accepting = alive
        /\ new.content = record[t].content /\ new.lines = record[t].lines
        /\ new.ready = record[t].ready /\ new.wanted = record[t].wanted
    BY <1>2 DEF Content
  <2> HIDE DEF new
  <2>3. LinesOf(t)' = LinesOf(t)
    BY <2>1, <2>2 DEF LinesOf
  <2> QED
    BY <1>1, <1>2, <1>3, <2>1, <2>2, <2>3 DEF Bound, OpenToAll
<1> HIDE DEF new
<1> QED
  BY <1>1, <1>4, <1>5, RecordStep

LEMMA ConsumeStep ==
  ASSUME IInv, NEW t \in Loggers, NEW s \in Indices, Consume(t, s)
  PROVE  IInv'
<1> DEFINE line == [sink |-> s, formatted |-> s # Default /\ sinks[s].formatted]
           rest == record[t].accepting \ {s}
           new == [record[t] EXCEPT !.step = IF rest = {} THEN "idle" ELSE "pushing",
                                    !.accepting = rest,
                                    !.lines = @ \cup {line}]
<1>1. record' = [record EXCEPT ![t] = new] /\ UNCHANGED <<levels, sinks, added, loggers, main>>
  BY DEF Consume
<1>2. record[t] \in Content /\ Bound(t) /\ s \in record[t].accepting
  BY DEF IInv, Shape, Consume
<1>3. rest \subseteq record[t].accepting
  OBVIOUS
<1>4. line \in [sink : Nat, formatted : BOOLEAN] /\ line.sink = s
  <2>1. (s # Default /\ sinks[s].formatted) \in BOOLEAN
    <3>1. CASE s = Default
      BY <3>1
    <3>2. CASE s # Default
      <4>1. sinks[s] \in Sinks
        BY <1>2, <3>2 DEF IInv, Shape, Bound, Default
      <4> QED
        BY <3>2, <4>1 DEF Sinks
    <3> QED
      BY <3>1, <3>2
  <2>2. s \in Nat
    BY LoggingAssumption DEF Indices
  <2> QED
    BY <2>1, <2>2, Zenon
<1> HIDE DEF rest, line
<1>5. new \in Content
  BY <1>2, <1>3, <1>4 DEF Content
<1>6. Bound(t)'
  <2>1. record'[t] = new
    BY <1>1 DEF IInv, Shape
  <2>2. /\ new.step = (IF rest = {} THEN "idle" ELSE "pushing") /\ new.accepting = rest
        /\ new.content = record[t].content /\ new.lines = record[t].lines \cup {line}
        /\ new.ready = record[t].ready /\ new.wanted = record[t].wanted
    BY <1>2 DEF Content
  <2> HIDE DEF new
  <2>3. LinesOf(t)' = LinesOf(t) \cup {s}
    BY <1>4, <2>1, <2>2 DEF LinesOf
  <2>4. record[t].wanted
    BY <1>2 DEF Bound
  <2> QED
    BY <1>1, <1>2, <1>3, <2>1, <2>2, <2>3, <2>4 DEF Bound, OpenToAll
<1> HIDE DEF new
<1> QED
  BY <1>1, <1>5, <1>6, RecordStep

-------------------------------------------------------------------------------
(* The theorems *)

LEMMA InitHolds == Init => IInv
<1> SUFFICES ASSUME Init PROVE IInv
  OBVIOUS
<1>1. Idle \in Content
  <2>1. Foreign \in Records
    BY DEF Records
  <2> QED
    BY <2>1 DEF Idle, Content
<1>2. Shape
  <2>1. /\ level \in Levels \cup {NotSet} /\ threshold \in [Channels -> Levels \cup {NotSet}]
        /\ initialised \in BOOLEAN /\ record \in [Loggers -> Content]
    BY <1>1 DEF Init
  <2>2. sinks \in Seq(Sinks) /\ Len(sinks) = 0
    BY DEF Init
  <2> QED
    BY <2>1, <2>2, LoggingAssumption DEF Init, Shape
<1>3. Pointers /\ Filtered
  BY DEF Init, Pointers, Filtered
<1>4. ASSUME NEW t \in Loggers
      PROVE  Bound(t)
  <2>1. record[t] = Idle
    BY DEF Init
  <2> QED
    BY <2>1 DEF Init, Bound, Idle, LinesOf
<1> QED
  BY <1>2, <1>3, <1>4 DEF IInv

\* Levels and the exit change nothing a sink or a record in progress depends on.
LEMMA LevelStep ==
  ASSUME IInv,
         \/ InitLogging
         \/ \E l \in Levels : SetLoggingLevel(l)
         \/ \E c \in Channels, l \in Levels : SetLoggingLevelForChannel(c, l)
         \/ FlushLogs
  PROVE  IInv'
<1>1. sinks' = sinks /\ record' = record /\ console' = console /\ syslog' = syslog
  BY DEF InitLogging, SetLoggingLevel, SetLoggingLevelForChannel, FlushLogs, loggers
<1>2. main' = main \/ (main = "ready" /\ main' = "exited")
  BY DEF InitLogging, SetLoggingLevel, SetLoggingLevelForChannel, FlushLogs
<1>3. Shape'
  <2>1. added' \subseteq added /\ initialised' \in BOOLEAN
    BY DEF InitLogging, SetLoggingLevel, SetLoggingLevelForChannel, FlushLogs, IInv, Shape, levels
  <2>2. level' \in Levels \cup {NotSet}
    BY LoggingAssumption DEF InitLogging, SetLoggingLevel, SetLoggingLevelForChannel, FlushLogs,
                             IInv, Shape, Levels, levels
  <2>3. threshold' \in [Channels -> Levels \cup {NotSet}]
    BY DEF InitLogging, SetLoggingLevel, SetLoggingLevelForChannel, FlushLogs, IInv, Shape, levels
  <2> QED
    BY <1>1, <1>2, <2>1, <2>2, <2>3, Zenon DEF IInv, Shape
<1>4. Pointers' /\ Filtered'
  BY <1>1, <1>2 DEF IInv, Pointers, Filtered, Last
<1>5. \A t \in Loggers : Bound(t)'
  BY <1>1 DEF IInv, Bound, LinesOf, OpenToAll
<1> QED
  BY <1>3, <1>4, <1>5 DEF IInv

LEMMA NextPreserves == IInv /\ [Next]_vars => IInv'
<1> SUFFICES ASSUME IInv, [Next]_vars PROVE IInv'
  OBVIOUS
<1>1. CASE UNCHANGED vars
  BY <1>1 DEF vars, levels, loggers, IInv, Shape, Pointers, Filtered, Bound, LinesOf, OpenToAll, Last
<1>2. CASE Configure
  <2>1. CASE EnableConsoleLogging
    BY <2>1, AddConsole
  <2>2. CASE EnableBuiltinSyslog
    BY <2>2, AddFiltered DEF EnableBuiltinSyslog, New
  <2>3. CASE AddFileSink
    BY <2>3, AddFiltered DEF AddFileSink, loggers
  <2>4. CASE AddFileSinkRotate
    BY <2>4, AddFiltered DEF AddFileSinkRotate, loggers
  <2>5. CASE AddHostSink
    BY <2>5, AddFiltered DEF AddHostSink, loggers
  <2>6. CASE FilterConsole \/ FormatFile
    BY <2>6, SetUpSink
  <2>7. CASE \/ InitLogging
             \/ \E l \in Levels : SetLoggingLevel(l)
             \/ \E c \in Channels, l \in Levels : SetLoggingLevelForChannel(c, l)
             \/ FlushLogs
    BY <2>7, LevelStep
  <2> QED
    BY <1>2, <2>1, <2>2, <2>3, <2>4, <2>5, <2>6, <2>7 DEF Configure
<1>3. ASSUME NEW t \in Loggers, Log(t)
      PROVE  IInv'
  BY <1>3, OpenStep, PushStep, ConsumeStep DEF Log
<1> QED
  BY <1>1, <1>2, <1>3 DEF Next

\* The invariant holds of every run of the specification.
THEOREM Invariance == Spec => []IInv
BY InitHolds, NextPreserves, PTL DEF Spec

\* Every variable stays in its range, and the static pointers name sinks of their kind.
THEOREM TypeCorrect == Spec => []TypeOK
<1>1. IInv => TypeOK
  <2> SUFFICES ASSUME IInv PROVE TypeOK
    OBVIOUS
  <2>1. ASSUME NEW t \in Loggers
        PROVE  /\ record[t].step \in {"idle", "opened", "pushing"}
               /\ record[t].content \in Records
               /\ record[t].accepting \in SUBSET (0 .. Len(sinks))
               /\ record[t].step # "idle" <=> record[t].accepting # {}
               /\ record[t].lines \subseteq [sink : 0 .. Len(sinks), formatted : BOOLEAN]
    <3>1. record[t] \in Content /\ Bound(t)
      BY DEF IInv, Shape
    <3>2. ASSUME NEW l \in record[t].lines
          PROVE  l \in [sink : 0 .. Len(sinks), formatted : BOOLEAN]
      <4>1. l \in [sink : Nat, formatted : BOOLEAN] /\ l.sink \in LinesOf(t)
        BY <3>1 DEF Content, LinesOf
      <4> QED
        BY <3>1, <4>1 DEF Bound
    <3> QED
      BY <3>1, <3>2 DEF Content, Bound
  <2> QED
    BY <2>1 DEF IInv, Shape, Pointers, TypeOK
<1> QED
  BY <1>1, Invariance, PTL

\* A record some level asked to drop when it was opened is written nowhere, whatever
\* levels are set afterwards.
THEOREM DroppedCorrect == Spec => []DroppedRecordsStayAway
<1>1. IInv => DroppedRecordsStayAway
  BY DEF IInv, Bound, DroppedRecordsStayAway
<1> QED
  BY <1>1, Invariance, PTL

\* Records of the rest of the program stay out of the sinks of the library.
THEOREM ForeignCorrect == Spec => []ForeignRecordsStayOut
<1>1. IInv => ForeignRecordsStayOut
  BY DEF IInv, Bound, OpenToAll, ForeignRecordsStayOut
<1> QED
  BY <1>1, Invariance, PTL

\* The console and the syslog show a record once.
THEOREM OnceCorrect == Spec => []NoRecordTwice
<1>1. IInv => NoRecordTwice
  <2> SUFFICES ASSUME IInv, NEW t \in Loggers,
                      NEW s1 \in LinesOf(t) \ {Default}, NEW s2 \in LinesOf(t) \ {Default},
                      sinks[s1].kind = sinks[s2].kind, sinks[s1].kind \in {"console", "syslog"}
               PROVE  s1 = s2
    BY DEF NoRecordTwice
  <2>1. s1 \in 1 .. Len(sinks) /\ s2 \in 1 .. Len(sinks)
    BY DEF IInv, Shape, Bound, Default
  <2> QED
    BY <2>1 DEF IInv, Pointers
<1> QED
  BY <1>1, Invariance, PTL

-------------------------------------------------------------------------------
(***************************************************************************)
(* A wanted record arrives.  Until it does, each sink that was ready for   *)
(* it is one it is still bound for, unless nobody holds that sink any      *)
(* more, and a sink that nobody holds does not come back.                  *)
(***************************************************************************)
Arriving(t) ==
  record[t].wanted /\ record[t].setup # "level only" =>
    \A s \in Due(t) : s \in record[t].accepting \cup LinesOf(t) \/ ~ Alive(s)

\* filter() drops no record it should let through, once init_logging() has run or
\* before a level is set.
LEMMA FilterIsComplete ==
  ASSUME Shape, NEW r \in Records, Wanted(r), initialised \/ level = NotSet
  PROVE  Filter(r)
<1> SUFFICES ASSUME level # NotSet, r.severity # NotSet
             PROVE  r.severity >= level /\ SeverityByChannel(r)
  BY DEF Filter
<1> DEFINE asked == {level} \cup {threshold[c] : c \in Channels \cap {r.channel}}
<1>1. r.ours
  <2>1. r # Foreign
    BY DEF Foreign
  <2>2. r \in [ours : {TRUE}, severity : Levels, channel : Channels \cup {NoChannel}]
    BY <2>1 DEF Records
  <2> QED
    BY <2>2
<1>2. \A l \in asked \ {NotSet} : r.severity >= l
  BY <1>1 DEF Wanted
<1>3. r.severity >= level
  BY <1>2
<1>4. SeverityByChannel(r)
  <2>1. CASE r.channel \in Channels /\ threshold[r.channel] # NotSet
    <3>1. threshold[r.channel] \in asked \ {NotSet}
      BY <2>1
    <3> HIDE DEF asked
    <3> QED
      BY <1>2, <2>1, <3>1 DEF SeverityByChannel
  <2>2. CASE ~ (r.channel \in Channels /\ threshold[r.channel] # NotSet)
    BY <2>2 DEF SeverityByChannel
  <2> QED
    BY <2>1, <2>2
<1> QED
  BY <1>3, <1>4

\* What a step of the main thread may change.
LEMMA ConfigureStep ==
  ASSUME IInv, Configure
  PROVE  /\ record' = record
         /\ added' \subseteq added \cup {Len(sinks) + 1}
         /\ console' \in {console, Len(sinks) + 1} /\ syslog' \in {syslog, Len(sinks) + 1}
         /\ \A s \in 1 .. Len(sinks) : sinks'[s].kind = sinks[s].kind
<1>1. CASE InitLogging \/ (\E l \in Levels : SetLoggingLevel(l))
           \/ (\E c \in Channels, l \in Levels : SetLoggingLevelForChannel(c, l)) \/ FlushLogs
  BY <1>1 DEF InitLogging, SetLoggingLevel, SetLoggingLevelForChannel, FlushLogs, loggers
<1>2. ASSUME NEW kind \in {"console", "syslog", "file", "rotating", "host"},
             NEW filtered \in BOOLEAN, NEW formatted \in BOOLEAN,
             NEW next \in {"ready", "console", "file"},
             AddSink(kind, filtered, formatted, next)
      PROVE  /\ record' = record /\ added' = added \cup {Len(sinks) + 1}
             /\ Len(sinks') = Len(sinks) + 1
             /\ \A s \in 1 .. Len(sinks) : sinks'[s].kind = sinks[s].kind
  <2>1. /\ Len(sinks') = Len(sinks) + 1
        /\ \A s \in 1 .. Len(sinks) : sinks'[s] = sinks[s]
    BY <1>2, AddSinkGrows DEF IInv
  <2>2. record' = record /\ added' = added \cup {Len(sinks')}
    BY <1>2 DEF AddSink
  <2> QED
    BY <2>1, <2>2
<1>3. CASE EnableConsoleLogging
  BY <1>2, <1>3 DEF EnableConsoleLogging
<1>4. CASE EnableBuiltinSyslog
  BY <1>2, <1>4 DEF EnableBuiltinSyslog
<1>5. CASE AddFileSink \/ AddFileSinkRotate \/ AddHostSink
  BY <1>2, <1>5 DEF AddFileSink, AddFileSinkRotate, AddHostSink, loggers
<1>6. CASE FilterConsole \/ FormatFile
  <2>1. record' = record /\ added' = added /\ console' = console /\ syslog' = syslog
    BY <1>6 DEF FilterConsole, FormatFile, loggers
  <2>2. \A s \in 1 .. Len(sinks) : sinks[s] \in Sinks
    BY DEF IInv, Shape
  <2>3. \A s \in 1 .. Len(sinks) : sinks'[s].kind = sinks[s].kind
    BY <1>6, <2>2 DEF FilterConsole, FormatFile, Sinks, IInv, Shape
  <2> QED
    BY <2>1, <2>3
<1> QED
  BY <1>1, <1>3, <1>4, <1>5, <1>6 DEF Configure

\* What a step of a thread that logs may change.
LEMMA LogStep ==
  ASSUME IInv, NEW t \in Loggers, Log(t)
  PROVE  /\ UNCHANGED <<sinks, added, console, syslog>>
         /\ \A u \in Loggers \ {t} : record'[u] = record[u]
         /\ record'[t].step = "pushing" => \A s \in record'[t].accepting : Alive(s)
<1>1. record \in [Loggers -> Content]
  BY DEF IInv, Shape
<1>2. ASSUME NEW r \in Records, Open(t, r)
      PROVE  record'[t].step # "pushing"
  BY <1>1, <1>2 DEF Open
<1>3. ASSUME Push(t)
      PROVE  record'[t].accepting = {s \in record[t].accepting : Alive(s)}
  BY <1>1, <1>3 DEF Push, Content
<1>4. ASSUME NEW s \in Indices, Consume(t, s)
      PROVE  record'[t].accepting \subseteq record[t].accepting /\ record[t].step = "pushing"
  BY <1>1, <1>4 DEF Consume, Content
<1>5. record'[t].step = "pushing" => \A s \in record'[t].accepting : Alive(s)
  BY <1>2, <1>3, <1>4 DEF Log, Alive
<1>6. UNCHANGED <<sinks, added, console, syslog>>
  BY DEF Log, Open, Push, Consume, loggers
<1>7. \A u \in Loggers \ {t} : record'[u] = record[u]
  BY <1>1 DEF Log, Open, Push, Consume
<1> QED
  BY <1>5, <1>6, <1>7

\* A sink that nobody holds does not come back.
LEMMA NoRevival ==
  ASSUME IInv, [Next]_vars, NEW s \in 1 .. Len(sinks), Alive(s)'
  PROVE  Alive(s)
<1>1. Len(sinks) \in Nat /\ s # Len(sinks) + 1
  BY DEF IInv, Shape
<1>2. CASE UNCHANGED vars
  BY <1>2 DEF vars, loggers, Alive
<1>3. CASE Configure
  BY <1>1, <1>3, ConfigureStep DEF Alive
<1>4. ASSUME NEW t \in Loggers, Log(t)
      PROVE  Alive(s)
  BY <1>4, LogStep DEF Alive
<1> QED
  BY <1>2, <1>3, <1>4 DEF Next

\* A record that did not change in the step goes on arriving.
LEMMA ArrivingStays ==
  ASSUME IInv, [Next]_vars, NEW t \in Loggers, Arriving(t), record'[t] = record[t],
         \A s \in 1 .. Len(sinks) : sinks'[s].kind = sinks[s].kind
  PROVE  Arriving(t)'
<1>1. Bound(t)
  BY DEF IInv
<1>2. Due(t)' \subseteq Due(t) /\ Due(t) \subseteq 1 .. Len(sinks)
  BY <1>1 DEF Due, Bound
<1>3. LinesOf(t)' = LinesOf(t)
  BY DEF LinesOf
<1>4. ASSUME record'[t].wanted, record'[t].setup # "level only", NEW s \in Due(t)'
      PROVE  s \in record'[t].accepting \cup LinesOf(t)' \/ ~ Alive(s)'
  <2>1. s \in Due(t) /\ record[t].wanted /\ record[t].setup # "level only"
    BY <1>2, <1>4
  <2>2. s \in record[t].accepting \cup LinesOf(t) \/ ~ Alive(s)
    BY <2>1 DEF Arriving
  <2>3. CASE ~ Alive(s)
    BY <1>2, <2>1, <2>3, NoRevival
  <2> QED
    BY <1>3, <2>2, <2>3
<1> QED
  BY <1>4 DEF Arriving

\* Opened, a record is bound for every sink that is ready for it.
LEMMA OpenArrives ==
  ASSUME IInv, NEW t \in Loggers, NEW r \in Records, Open(t, r)
  PROVE  Arriving(t)'
<1> DEFINE opened == Filter(r) /\ Accepting(r) # {}
<1>1. /\ record'[t].content = r /\ record'[t].ready = Ready
      /\ record'[t].wanted = Wanted(r) /\ record'[t].setup = Setup
      /\ record'[t].accepting = IF opened THEN Accepting(r) ELSE {}
      /\ sinks' = sinks
  BY DEF Open, IInv, Shape
<1> SUFFICES ASSUME Wanted(r), Setup # "level only", NEW s \in Due(t)'
             PROVE  s \in record'[t].accepting
  BY <1>1 DEF Arriving
<1>2. Filter(r)
  BY FilterIsComplete DEF Setup, IInv
<1>3. s \in Ready /\ (r.ours \/ sinks[s].kind = "host")
  BY <1>1 DEF Due
<1>4. s \in added /\ s \in 1 .. Len(sinks)
  BY <1>3 DEF Ready, IInv, Shape
<1>5. s \in Accepting(r)
  <2>1. sinks[s].kind = "host" => ~ sinks[s].filtered
    BY <1>4 DEF IInv, Filtered
  <2> QED
    BY <1>3, <1>4, <2>1 DEF Accepting, WillConsume
<1> QED
  BY <1>1, <1>2, <1>5

\* Pushed, it is bound for fewer only if nobody holds the others.
LEMMA PushArrives ==
  ASSUME IInv, [Next]_vars, NEW t \in Loggers, Arriving(t), Push(t)
  PROVE  Arriving(t)'
<1>1. /\ record'[t].accepting = {s \in record[t].accepting : Alive(s)}
      /\ record'[t].content = record[t].content /\ record'[t].lines = record[t].lines
      /\ record'[t].ready = record[t].ready /\ record'[t].wanted = record[t].wanted
      /\ record'[t].setup = record[t].setup
      /\ sinks' = sinks
  BY DEF Push, IInv, Shape, Content
<1>2. Due(t)' = Due(t) /\ LinesOf(t)' = LinesOf(t)
  BY <1>1 DEF Due, LinesOf
<1>3. Due(t) \subseteq 1 .. Len(sinks)
  BY DEF Due, IInv, Bound
<1>4. ASSUME record'[t].wanted, record'[t].setup # "level only", NEW s \in Due(t)'
      PROVE  s \in record'[t].accepting \cup LinesOf(t)' \/ ~ Alive(s)'
  <2>1. s \in record[t].accepting \cup LinesOf(t) \/ ~ Alive(s)
    BY <1>1, <1>2, <1>4 DEF Arriving
  <2>2. CASE ~ Alive(s)
    BY <1>2, <1>3, <1>4, <2>2, NoRevival
  <2>3. CASE Alive(s)
    BY <1>1, <1>2, <2>1, <2>3
  <2> QED
    BY <2>2, <2>3
<1> QED
  BY <1>4 DEF Arriving

\* A sink that consumes it has a line of it.
LEMMA ConsumeArrives ==
  ASSUME IInv, [Next]_vars, NEW t \in Loggers, Arriving(t), NEW c \in Indices, Consume(t, c)
  PROVE  Arriving(t)'
<1> DEFINE line == [sink |-> c, formatted |-> c # Default /\ sinks[c].formatted]
           rest == record[t].accepting \ {c}
           new == [record[t] EXCEPT !.step = IF rest = {} THEN "idle" ELSE "pushing",
                                    !.accepting = rest,
                                    !.lines = @ \cup {line}]
<1>1. /\ record'[t].accepting = record[t].accepting \ {c}
      /\ record'[t].lines = record[t].lines \cup {line}
      /\ record'[t].content = record[t].content
      /\ record'[t].ready = record[t].ready /\ record'[t].wanted = record[t].wanted
      /\ record'[t].setup = record[t].setup
      /\ sinks' = sinks
  <2>1. record' = [record EXCEPT ![t] = new] /\ sinks' = sinks
    BY DEF Consume
  <2>2. record'[t] = new /\ record[t] \in Content
    BY <2>1 DEF IInv, Shape
  <2> HIDE DEF line, rest
  <2>3. /\ new.accepting = rest /\ new.lines = record[t].lines \cup {line}
        /\ new.content = record[t].content /\ new.ready = record[t].ready
        /\ new.wanted = record[t].wanted /\ new.setup = record[t].setup
    BY <2>2 DEF Content
  <2> HIDE DEF new
  <2> QED
    BY <2>1, <2>2, <2>3 DEF rest
<1>2. line.sink = c
  OBVIOUS
<1> HIDE DEF line
<1>3. Due(t)' = Due(t) /\ LinesOf(t)' = LinesOf(t) \cup {c}
  BY <1>1, <1>2 DEF Due, LinesOf
<1>4. Due(t) \subseteq 1 .. Len(sinks)
  BY DEF Due, IInv, Bound
<1>5. ASSUME record'[t].wanted, record'[t].setup # "level only", NEW s \in Due(t)'
      PROVE  s \in record'[t].accepting \cup LinesOf(t)' \/ ~ Alive(s)'
  <2>1. s \in record[t].accepting \cup LinesOf(t) \/ ~ Alive(s)
    BY <1>1, <1>3, <1>5 DEF Arriving
  <2>2. CASE ~ Alive(s)
    BY <1>3, <1>4, <1>5, <2>2, NoRevival
  <2>3. CASE s \in record[t].accepting \cup LinesOf(t)
    BY <1>1, <1>3, <2>3
  <2> QED
    BY <2>1, <2>2, <2>3
<1> QED
  BY <1>5 DEF Arriving

AllArriving == \A t \in Loggers : Arriving(t)

LEMMA AllArrivingStays == IInv /\ AllArriving /\ [Next]_vars => AllArriving'
<1> SUFFICES ASSUME IInv, AllArriving, [Next]_vars, NEW t \in Loggers
             PROVE  Arriving(t)'
  BY DEF AllArriving
<1>1. Arriving(t)
  BY DEF AllArriving
<1>2. CASE UNCHANGED vars
  <2>1. record'[t] = record[t] /\ sinks' = sinks
    BY <1>2 DEF vars
  <2> QED
    BY <1>1, <2>1, ArrivingStays
<1>3. CASE Configure
  BY <1>1, <1>3, ConfigureStep, ArrivingStays
<1>4. ASSUME NEW u \in Loggers, Log(u)
      PROVE  Arriving(t)'
  <2>1. CASE u = t
    BY <1>1, <1>4, <2>1, OpenArrives, PushArrives, ConsumeArrives DEF Log
  <2>2. CASE u # t
    <3>1. record'[t] = record[t] /\ sinks' = sinks
      BY <1>4, <2>2, LogStep
    <3> QED
      BY <1>1, <3>1, ArrivingStays
  <2> QED
    BY <2>1, <2>2
<1> QED
  BY <1>2, <1>3, <1>4 DEF Next

\* A record every level asked for lets through gets to every sink that was ready for
\* it when it was opened, whatever the main thread configures before it is pushed.
THEOREM ArrivalCorrect == Spec => []WantedRecordsArrive
<1>1. Init => AllArriving
  <2> SUFFICES ASSUME Init, NEW t \in Loggers
               PROVE  ~ record[t].wanted
    BY DEF AllArriving, Arriving
  <2> QED
    BY DEF Init, Idle
<1>2. IInv /\ AllArriving => WantedRecordsArrive
  <2>1. ASSUME IInv, NEW t \in Loggers, record[t].step = "idle"
        PROVE  record[t].accepting = {}
    BY <2>1 DEF IInv, Bound
  <2> QED
    BY <2>1 DEF AllArriving, Arriving, WantedRecordsArrive
<1> QED
  BY <1>1, <1>2, Invariance, AllArrivingStays, PTL DEF Spec

-------------------------------------------------------------------------------
(* Formatters *)

\* A sink without a formatter is the file add_file_sink() is adding right now.
Formatted == \A s \in 1 .. Len(sinks) : sinks[s].formatted \/ (main = "file" /\ s = Last)

\* Every call but add_file_sink() gives its sink a formatter before the core has it.
LEMMA AddKeepsFormatted ==
  ASSUME IInv, Formatted, NEW kind \in {"console", "syslog", "file", "rotating", "host"},
         NEW filtered \in BOOLEAN, NEW formatted \in BOOLEAN,
         NEW next \in {"ready", "console", "file"},
         AddSink(kind, filtered, formatted, next), formatted \/ next = "file"
  PROVE  Formatted'
<1>1. /\ Len(sinks') = Len(sinks) + 1
      /\ \A s \in 1 .. Len(sinks) : sinks'[s] = sinks[s]
      /\ sinks'[Len(sinks')] = [kind |-> kind, filtered |-> filtered, formatted |-> formatted]
  BY AddSinkGrows DEF IInv
<1>2. Len(sinks) \in Nat /\ main = "ready" /\ main' = next
  BY DEF IInv, Shape, AddSink
<1>3. ASSUME NEW s \in 1 .. Len(sinks) PROVE sinks'[s].formatted
  BY <1>1, <1>2 DEF Formatted
<1>4. sinks'[Len(sinks')].formatted = formatted
  BY <1>1
<1>5. sinks'[Len(sinks')].formatted \/ main' = "file"
  BY <1>2, <1>4
<1>6. \A s \in 1 .. Len(sinks') : s \in 1 .. Len(sinks) \/ s = Len(sinks')
  BY <1>1, <1>2
<1> QED BY <1>3, <1>5, <1>6 DEF Formatted, Last

LEMMA SetUpKeepsFormatted ==
  ASSUME IInv, Formatted, FilterConsole \/ FormatFile
  PROVE  Formatted'
<1>1. sinks \in Seq(Sinks) /\ Len(sinks) \in Nat
  BY DEF IInv, Shape
<1>2. CASE FilterConsole
  <2>1. console \in 1 .. Len(sinks) /\ main = "console"
    BY <1>1, <1>2 DEF FilterConsole, IInv, Pointers, Last
  <2>2. /\ Len(sinks') = Len(sinks)
        /\ \A s \in 1 .. Len(sinks) : sinks'[s].formatted = sinks[s].formatted
    BY <1>1, <1>2, <2>1 DEF FilterConsole, Sinks
  <2> QED BY <2>1, <2>2 DEF Formatted
<1>3. CASE FormatFile
  <2>1. Last \in 1 .. Len(sinks)
    BY <1>1, <1>3 DEF FormatFile, IInv, Pointers, Last
  <2>2. /\ Len(sinks') = Len(sinks) /\ sinks'[Last].formatted
        /\ \A s \in 1 .. Len(sinks) : s # Last => sinks'[s] = sinks[s]
    BY <1>1, <1>3, <2>1 DEF FormatFile, Sinks
  <2> QED BY <2>2 DEF Formatted
<1> QED BY <1>2, <1>3

LEMMA FormattedStays == IInv /\ Formatted /\ [Next]_vars => Formatted'
<1> SUFFICES ASSUME IInv, Formatted, [Next]_vars PROVE Formatted'
  OBVIOUS
<1>1. CASE EnableConsoleLogging \/ EnableBuiltinSyslog \/ AddFileSinkRotate \/ AddHostSink
  BY <1>1, AddKeepsFormatted
     DEF EnableConsoleLogging, EnableBuiltinSyslog, AddFileSinkRotate, AddHostSink
<1>2. CASE AddFileSink
  BY <1>2, AddKeepsFormatted DEF AddFileSink
<1>3. CASE FilterConsole \/ FormatFile
  BY <1>3, SetUpKeepsFormatted
<1>4. CASE \/ InitLogging
           \/ \E l \in Levels : SetLoggingLevel(l)
           \/ \E c \in Channels, l \in Levels : SetLoggingLevelForChannel(c, l)
           \/ FlushLogs
  <2>1. sinks' = sinks /\ main = "ready"
    BY <1>4 DEF InitLogging, SetLoggingLevel, SetLoggingLevelForChannel, FlushLogs
  <2> QED BY <2>1 DEF Formatted
<1>5. CASE (\E t \in Loggers : Log(t)) \/ UNCHANGED vars
  <2>1. sinks' = sinks /\ main' = main
    BY <1>5 DEF Log, Open, Push, Consume, vars
  <2> QED BY <2>1 DEF Formatted, Last
<1> QED BY <1>1, <1>2, <1>3, <1>4, <1>5 DEF Next, Configure

\* A sink formats with what it has when it writes.
LEMMA WritesFormatted ==
  ASSUME IInv, Formatted, [Next]_vars, NEW t \in Loggers,
         NEW l \in record'[t].lines \ record[t].lines
  PROVE  l.formatted \/ l.sink = Default \/ (main = "file" /\ l.sink = Last)
<1>1. record \in [Loggers -> Content] /\ record' # record
  BY DEF IInv, Shape
<1>2. PICK u \in Loggers : Log(u)
  BY <1>1 DEF Next, Configure, vars, InitLogging, SetLoggingLevel, SetLoggingLevelForChannel,
              FlushLogs, FilterConsole, FormatFile, AddSink, EnableConsoleLogging,
              EnableBuiltinSyslog, AddFileSink, AddFileSinkRotate, AddHostSink
<1>3. CASE \E r \in Records : Open(u, r)
  BY <1>1, <1>3 DEF Open
<1>4. CASE Push(u)
  BY <1>1, <1>4 DEF Push, Content
<1>5. ASSUME NEW s \in Indices, Consume(u, s)
      PROVE  l.formatted \/ l.sink = Default \/ (main = "file" /\ l.sink = Last)
  <2> DEFINE line == [sink |-> s, formatted |-> s # Default /\ sinks[s].formatted]
  <2>1. s \in 0 .. Len(sinks)
    BY <1>5 DEF Consume, IInv, Bound
  <2>2. l = line
    <3>1. u = t /\ record'[t].lines = record[t].lines \cup {line}
      BY <1>1, <1>5 DEF Consume, Content
    <3> QED BY <3>1
  <2>3. CASE s = Default
    BY <2>2, <2>3
  <2>4. CASE s # Default
    <3>1. s \in 1 .. Len(sinks)
      BY <2>1, <2>4 DEF Default, IInv, Shape
    <3>2. CASE sinks[s].formatted
      <4>1. line.formatted = (s # Default /\ sinks[s].formatted)
        OBVIOUS
      <4> QED BY <2>2, <2>4, <3>2, <4>1
    <3>3. CASE main = "file" /\ s = Last
      BY <2>2, <3>3
    <3> QED BY <3>1, <3>2, <3>3 DEF Formatted
  <2> QED BY <2>3, <2>4
<1> QED BY <1>2, <1>3, <1>4, <1>5 DEF Log

\* Whenever records are written while the main thread makes sinks, no sink gets a line it
\* does not format, but for a file add_file_sink() is still adding.
THEOREM FormatCorrect == Spec => LinesAreFormatted
<1>1. Init => Formatted
  BY DEF Init, Formatted
<1>2. IInv /\ Formatted /\ [Next]_vars =>
        [\A t \in Loggers : \A l \in record'[t].lines \ record[t].lines :
           l.formatted \/ l.sink = Default \/ (main = "file" /\ l.sink = Last)]_vars
  BY WritesFormatted
<1> QED
  BY <1>1, <1>2, Invariance, FormattedStays, PTL DEF Spec, LinesAreFormatted
==============================================================================
