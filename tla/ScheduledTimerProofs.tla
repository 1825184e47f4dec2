------------------------- MODULE ScheduledTimerProofs -------------------------
(***************************************************************************)
(* What TLAPS proves of ScheduledTimer, for every number of timers and     *)
(* workers and every delay.                                                *)
(***************************************************************************)
EXTENDS ScheduledTimer, FiniteSetTheorems, SequenceTheorems, TLAPS

(***************************************************************************)
(* The inductive invariant.  Links is OneLinkPerTimer without counting: a  *)
(* timer is in one place at most.  Outcomes ties that place to what the    *)
(* holder of the timer and the callable decided.  Apart is the time a link *)
(* still has to wait, or has waited.                                       *)
(***************************************************************************)
HandlersDiffer == \A i, j \in DOMAIN queue : queue[i].timer = queue[j].timer => i = j
CallsDiffer    == \A v, w \in Workers :
                    calling[v] = calling[w] /\ calling[w] # NoTimer => v = w
HandlerOrCall  == \A i \in DOMAIN queue, w \in Workers : calling[w] # queue[i].timer
WaitAlone      == \A tm \in Timers :
                    waits[tm] = 1 => /\ \A i \in DOMAIN queue : queue[i].timer # tm
                                     /\ \A w \in Workers : calling[w] # tm
Carried        == \A tm \in Timers :
                    outcome[tm] = "live" => \/ waits[tm] = 1
                                            \/ \E i \in DOMAIN queue : queue[i].timer = tm
                                            \/ \E w \in Workers : calling[w] = tm

Links == HandlersDiffer /\ CallsDiffer /\ HandlerOrCall /\ WaitAlone /\ Carried

Outcomes ==
  /\ \A tm \in Timers : waits[tm] = 1 => outcome[tm] = "live"
  /\ \A i \in DOMAIN queue :
       outcome[queue[i].timer] = IF queue[i].error = "none" THEN "live" ELSE "cancelled"
  /\ \A w \in Workers : calling[w] # NoTimer => outcome[calling[w]] = "live"

Apart ==
  /\ \A tm \in Timers : waits[tm] = 1 => since[tm] + left[tm] >= Expiry(tm)
  /\ \A i \in DOMAIN queue :
       queue[i].error = "none" => since[queue[i].timer] >= Expiry(queue[i].timer)

IInv == TypeOK /\ Links /\ Outcomes /\ Apart

-------------------------------------------------------------------------------
\* The expiry is the delay, cut to whole milliseconds.
LEMMA ExpiryRange ==
  ASSUME NEW tm
  PROVE  Expiry(tm) \in 0 .. Delay /\ Expiry(tm) + TicksPerMs > Delay
<1> DEFINE q == Delay \div TicksPerMs
           r == Delay % TicksPerMs
<1>1. q \in Int /\ r \in 0 .. TicksPerMs - 1 /\ Delay = TicksPerMs * q + r
  BY TimerAssumption
<1>2. q >= 0
  BY TimerAssumption
<1>3. q * TicksPerMs = TicksPerMs * q /\ TicksPerMs * q \in Int
  BY <1>1, TimerAssumption
<1>4. TicksPerMs * q >= 0
  BY <1>1, <1>2, TimerAssumption
<1>5. Expiry(tm) = TicksPerMs * q
  BY <1>3 DEF Expiry
<1> HIDE DEF q, r
<1> QED
  BY <1>1, <1>3, <1>4, <1>5, TimerAssumption

LEMMA HandlerOfTimer ==
  ASSUME queue \in Seq(Handlers), NEW i \in DOMAIN queue
  PROVE  queue[i].timer \in Timers /\ queue[i].error \in {"none", "aborted"}
<1>1. queue[i] \in Handlers
  BY ElementOfSeq, LenProperties
<1> QED
  BY <1>1 DEF Handlers

\* One handler is appended to the queue.
LEMMA PostedOne ==
  ASSUME NEW tm \in Timers, NEW error \in {"none", "aborted"}, queue \in Seq(Handlers),
         NEW q, q = queue \o Posted(tm, error, 1)
  PROVE  /\ q \in Seq(Handlers)
         /\ DOMAIN queue \subseteq DOMAIN q
         /\ DOMAIN q = DOMAIN queue \cup {Len(queue) + 1}
         /\ Len(queue) + 1 \notin DOMAIN queue
         /\ \A i \in DOMAIN queue : q[i] = queue[i]
         /\ q[Len(queue) + 1] = [timer |-> tm, error |-> error]
<1> DEFINE p == Posted(tm, error, 1)
<1>1. p \in Seq(Handlers) /\ Len(p) = 1 /\ p[1] = [timer |-> tm, error |-> error]
  BY DEF Posted, Handlers
<1> HIDE DEF p
<1>2. /\ q \in Seq(Handlers) /\ Len(q) = Len(queue) + 1
      /\ \A i \in 1 .. Len(queue) + 1 :
           q[i] = IF i <= Len(queue) THEN queue[i] ELSE p[i - Len(queue)]
  BY <1>1, ConcatProperties DEF p
<1>3. Len(queue) \in Nat /\ DOMAIN queue = 1 .. Len(queue) /\ DOMAIN q = 1 .. Len(q)
  BY <1>2, LenProperties
<1> QED
  BY <1>1, <1>2, <1>3

\* The head of the queue is taken.
LEMMA Taken ==
  ASSUME queue \in Seq(Handlers), queue # <<>>
  PROVE  /\ Head(queue) = queue[1] /\ queue[1] \in Handlers /\ 1 \in DOMAIN queue
         /\ Tail(queue) \in Seq(Handlers)
         /\ \A i \in DOMAIN Tail(queue) :
              i + 1 \in DOMAIN queue /\ Tail(queue)[i] = queue[i + 1]
         /\ \A i \in DOMAIN queue : i # 1 => i - 1 \in DOMAIN Tail(queue)
<1>1. /\ Tail(queue) \in Seq(Handlers) /\ Len(Tail(queue)) = Len(queue) - 1
      /\ \A i \in 1 .. Len(Tail(queue)) : Tail(queue)[i] = queue[i + 1]
  BY HeadTailProperties
<1>2. /\ Len(queue) \in Nat \ {0} /\ DOMAIN queue = 1 .. Len(queue)
      /\ DOMAIN Tail(queue) = 1 .. Len(Tail(queue))
  BY <1>1, EmptySeq, LenProperties
<1>3. Head(queue) = queue[1] /\ queue[1] \in Handlers
  BY <1>2, ElementOfSeq
<1> QED
  BY <1>1, <1>2, <1>3

-------------------------------------------------------------------------------
LEMMA InitIInv == Init => IInv
<1> SUFFICES ASSUME Init PROVE IInv
  OBVIOUS
<1> USE TimerAssumption DEF Init
<1>1. TypeOK
  <2>1. 0 \in 0 .. Delay /\ <<>> \in Seq(Handlers)
    OBVIOUS
  <2>2. queue \in Seq(Handlers)
    BY <2>1
  <2>3. left \in [Timers -> 0 .. Delay] /\ since \in [Timers -> 0 .. Delay]
    BY <2>1
  <2> QED
    BY <2>2, <2>3 DEF TypeOK
<1>2. Links
  BY DEF Links, HandlersDiffer, CallsDiffer, HandlerOrCall, WaitAlone, Carried
<1>3. Outcomes
  BY DEF Outcomes
<1>4. Apart
  BY DEF Apart
<1> QED
  BY <1>1, <1>2, <1>3, <1>4 DEF IInv

-------------------------------------------------------------------------------
\* Arming keeps the links of the other timers, and gives tm one.
LEMMA ScheduleInv == ASSUME IInv, NEW tm \in Timers, Schedule(tm) PROVE IInv'
<1> USE DEF IInv, Schedule, ScheduleTimer, WaitsStarted
<1>1. TypeOK'
  BY ExpiryRange, TimerAssumption DEF TypeOK
<1>2. /\ \A i \in DOMAIN queue : queue[i].timer # tm
      /\ \A w \in Workers : calling[w] # tm
  BY TimerAssumption DEF Outcomes, TypeOK
<1>3. Links'
  BY <1>2 DEF Links, HandlersDiffer, CallsDiffer, HandlerOrCall, WaitAlone,
              Carried, TypeOK
<1>4. Outcomes'
  BY <1>2 DEF Outcomes, TypeOK
<1>5. Apart'
  <2>1. \A x \in Timers : Expiry(x) \in 0 .. Delay /\ Expiry(x)' = Expiry(x)
    BY ExpiryRange DEF Expiry
  <2> QED
    BY <1>2, <2>1, TimerAssumption DEF Apart, TypeOK
<1> QED
  BY <1>1, <1>3, <1>4, <1>5

LEMMA CancelInv == ASSUME IInv, NEW tm \in Timers, Cancel(tm) PROVE IInv'
<1> USE DEF IInv, Cancel
<1>1. waits[tm] = 1 /\ queue \in Seq(Handlers)
  BY DEF TypeOK
<1>2. /\ queue' \in Seq(Handlers)
      /\ DOMAIN queue' = DOMAIN queue \cup {Len(queue) + 1}
      /\ Len(queue) + 1 \notin DOMAIN queue
      /\ \A i \in DOMAIN queue : queue'[i] = queue[i]
      /\ queue'[Len(queue) + 1] = [timer |-> tm, error |-> "aborted"]
  BY <1>1, PostedOne
<1>3. \A i \in DOMAIN queue : queue[i].timer # tm /\ queue[i].timer \in Timers
  BY <1>1, HandlerOfTimer DEF Links, WaitAlone
<1>4. \A w \in Workers : calling[w] # tm
  BY <1>1 DEF Links, HandlersDiffer, CallsDiffer, HandlerOrCall, WaitAlone, Carried
<1> HIDE DEF Cancel
<1>5. TypeOK'
  BY <1>2 DEF TypeOK, Cancel
<1>6. Links'
  <2>1. /\ waits' = [waits EXCEPT ![tm] = 0] /\ calling' = calling
        /\ outcome' = [outcome EXCEPT ![tm] = "cancelled"]
    BY DEF Cancel
  <2>2. /\ waits \in [Timers -> {0, 1}]
        /\ outcome \in [Timers -> {"new", "live", "cancelled", "finished"}]
    BY DEF TypeOK
  <2>3. HandlersDiffer' /\ CallsDiffer' /\ HandlerOrCall'
    BY <1>2, <1>3, <1>4, <2>1
    DEF Links, HandlersDiffer, CallsDiffer, HandlerOrCall
  <2>4. WaitAlone'
    BY <1>2, <1>4, <2>1, <2>2 DEF Links, WaitAlone
  <2>5. Carried'
    BY <1>2, <2>1, <2>2 DEF Links, Carried
  <2> QED
    BY <2>1, <2>3, <2>4, <2>5 DEF Links
<1>7. Outcomes'
  BY <1>1, <1>2, <1>3, <1>4 DEF Outcomes, TypeOK, Cancel
<1>8. Apart'
  BY <1>1, <1>2, <1>3 DEF Apart, Expiry, TypeOK, Cancel
<1> QED
  BY <1>5, <1>6, <1>7, <1>8

LEMMA ExpireInv == ASSUME IInv, NEW tm \in Timers, Expire(tm) PROVE IInv'
<1> USE DEF IInv, Expire
<1>1. waits[tm] = 1 /\ queue \in Seq(Handlers) /\ left[tm] = 0
  BY DEF TypeOK
<1>2. /\ queue' \in Seq(Handlers)
      /\ DOMAIN queue' = DOMAIN queue \cup {Len(queue) + 1}
      /\ Len(queue) + 1 \notin DOMAIN queue
      /\ \A i \in DOMAIN queue : queue'[i] = queue[i]
      /\ queue'[Len(queue) + 1] = [timer |-> tm, error |-> "none"]
  BY <1>1, PostedOne
<1>3. \A i \in DOMAIN queue : queue[i].timer # tm /\ queue[i].timer \in Timers
  BY <1>1, HandlerOfTimer DEF Links, WaitAlone
<1>4. \A w \in Workers : calling[w] # tm
  BY <1>1 DEF Links, HandlersDiffer, CallsDiffer, HandlerOrCall, WaitAlone, Carried
<1>5. since[tm] >= Expiry(tm)
  BY <1>1, ExpiryRange DEF Apart, TypeOK
<1> HIDE DEF Expire
<1>6. TypeOK'
  BY <1>2 DEF TypeOK, Expire
<1>7. Links'
  <2>1. /\ waits' = [waits EXCEPT ![tm] = 0] /\ calling' = calling /\ outcome' = outcome
    BY DEF Expire
  <2>2. waits \in [Timers -> {0, 1}]
    BY DEF TypeOK
  <2>3. HandlersDiffer' /\ CallsDiffer' /\ HandlerOrCall'
    BY <1>2, <1>3, <1>4, <2>1
    DEF Links, HandlersDiffer, CallsDiffer, HandlerOrCall
  <2>4. WaitAlone'
    BY <1>2, <1>4, <2>1, <2>2 DEF Links, WaitAlone
  <2>5. Carried'
    BY <1>2, <2>1, <2>2 DEF Links, Carried
  <2> QED
    BY <2>1, <2>3, <2>4, <2>5 DEF Links
<1>8. Outcomes'
  BY <1>1, <1>2, <1>3, <1>4 DEF Outcomes, TypeOK, Expire
<1>9. Apart'
  BY <1>1, <1>2, <1>3, <1>5 DEF Apart, Expiry, TypeOK, Expire
<1> QED
  BY <1>6, <1>7, <1>8, <1>9

LEMMA TickInv == ASSUME IInv, Tick PROVE IInv'
<1> USE DEF IInv, Tick
<1>1. TypeOK'
  BY TimerAssumption DEF TypeOK
<1>2. Links' /\ Outcomes'
  BY DEF Links, HandlersDiffer, CallsDiffer, HandlerOrCall, WaitAlone, Carried, Outcomes
<1>3. Apart'
  <2>1. \A x \in Timers : Expiry(x) \in 0 .. Delay /\ Expiry(x)' = Expiry(x)
    BY ExpiryRange DEF Expiry
  <2>2. \A x \in Timers : left[x] \in 0 .. Delay /\ since[x] \in 0 .. Delay
    BY DEF TypeOK
  <2>3. \A i \in DOMAIN queue : queue[i].timer \in Timers
    BY HandlerOfTimer DEF TypeOK
  <2>4. \A x \in Timers : /\ since'[x] >= since[x] \/ since'[x] = Delay
                          /\ since'[x] + left'[x] >= since[x] + left[x] \/ since'[x] = Delay
                          /\ since'[x] \in 0 .. Delay /\ left'[x] \in 0 .. Delay
    BY <2>2, TimerAssumption
  <2>5. waits' = waits /\ queue' = queue
    OBVIOUS
  <2> HIDE DEF Tick
  <2>6. \A x \in Timers : waits'[x] = 1 => since'[x] + left'[x] >= Expiry(x)'
    BY <2>1, <2>2, <2>4, <2>5, TimerAssumption DEF Apart
  <2>7. \A i \in DOMAIN queue' :
          queue'[i].error = "none" => since'[queue'[i].timer] >= Expiry(queue'[i].timer)'
    BY <2>1, <2>2, <2>3, <2>4, <2>5, TimerAssumption DEF Apart, Expiry
  <2>8. \A x \in Timers : Expiry(x)' = Expiry(x)
    BY DEF Expiry
  <2> QED
    BY <2>5, <2>6, <2>7 DEF Apart, Expiry
<1> QED
  BY <1>1, <1>2, <1>3

LEMMA TakeAbortedInv == ASSUME IInv, NEW w \in Workers, TakeAborted(w) PROVE IInv'
<1> USE DEF IInv
<1>1. /\ queue \in Seq(Handlers) /\ queue # <<>> /\ queue[1].error # "none"
      /\ queue' = Tail(queue)
      /\ UNCHANGED <<active, waits, left, calling, outcome, since>>
  BY Taken DEF TakeAborted, Ready, Failed, TypeOK
<1>2. /\ queue' \in Seq(Handlers) /\ 1 \in DOMAIN queue
      /\ \A i \in DOMAIN queue' : i + 1 \in DOMAIN queue /\ queue'[i] = queue[i + 1]
      /\ \A i \in DOMAIN queue : i # 1 => i - 1 \in DOMAIN queue'
      /\ DOMAIN queue \subseteq Nat /\ DOMAIN queue' \subseteq Nat
  BY <1>1, Taken, LenProperties
<1>3. outcome[queue[1].timer] # "live"
  BY <1>1, <1>2 DEF Outcomes
<1>4. TypeOK'
  BY <1>1, <1>2 DEF TypeOK
<1>5. Links'
  <2>1. HandlersDiffer'
    BY <1>2 DEF Links, HandlersDiffer
  <2>2. Carried'
    <3> SUFFICES ASSUME NEW tm \in Timers, outcome[tm] = "live", waits[tm] # 1,
                        NEW i \in DOMAIN queue, queue[i].timer = tm
                 PROVE  \E j \in DOMAIN queue' : queue'[j].timer = tm
      BY <1>1 DEF Links, HandlersDiffer, CallsDiffer, HandlerOrCall, WaitAlone, Carried
    <3>1. i # 1
      BY <1>3
    <3>2. i - 1 \in DOMAIN queue' /\ queue'[i - 1] = queue[i]
      BY <1>2, <3>1
    <3> QED
      BY <3>2
  <2>3. CallsDiffer' /\ HandlerOrCall'
    BY <1>1, <1>2 DEF Links, CallsDiffer, HandlerOrCall
  <2>4. WaitAlone'
    BY <1>1, <1>2 DEF Links, WaitAlone
  <2> QED
    BY <2>1, <2>2, <2>3, <2>4 DEF Links
<1>6. Outcomes'
  BY <1>1, <1>2 DEF Outcomes
<1>7. Apart'
  BY <1>1, <1>2 DEF Apart, Expiry
<1> QED
  BY <1>4, <1>5, <1>6, <1>7

LEMMA TakeExpiredInv == ASSUME IInv, NEW w \in Workers, TakeExpired(w) PROVE IInv'
<1> USE DEF IInv
<1> DEFINE tm == queue[1].timer
<1>1. /\ queue \in Seq(Handlers) /\ queue # <<>> /\ queue[1].error = "none"
      /\ queue' = Tail(queue) /\ calling[w] = NoTimer
      /\ calling' = [calling EXCEPT ![w] = tm]
      /\ UNCHANGED <<active, waits, left, outcome, since>>
  BY Taken DEF TakeExpired, Ready, Failed, TypeOK
<1>2. /\ queue' \in Seq(Handlers) /\ 1 \in DOMAIN queue /\ queue[1] \in Handlers
      /\ \A i \in DOMAIN queue' : i + 1 \in DOMAIN queue /\ queue'[i] = queue[i + 1]
      /\ \A i \in DOMAIN queue : i # 1 => i - 1 \in DOMAIN queue'
      /\ DOMAIN queue \subseteq Nat /\ DOMAIN queue' \subseteq Nat
  BY <1>1, Taken, LenProperties
<1>3. tm \in Timers /\ outcome[tm] = "live" /\ tm # NoTimer
  BY <1>1, <1>2, TimerAssumption DEF Outcomes, Handlers
<1>4. /\ \A i \in DOMAIN queue' : queue'[i].timer # tm
      /\ \A v \in Workers : calling[v] # tm
      /\ waits[tm] # 1
  BY <1>2, <1>3 DEF Links, HandlersDiffer, HandlerOrCall, WaitAlone
<1>5. calling \in [Workers -> Timers \cup {NoTimer}]
  BY DEF TypeOK
<1> HIDE DEF tm
<1>6. TypeOK'
  BY <1>1, <1>2, <1>3 DEF TypeOK
<1>7. Links'
  <2>1. HandlersDiffer'
    BY <1>2 DEF Links, HandlersDiffer
  <2>2. Carried'
    <3> SUFFICES ASSUME NEW x \in Timers, outcome[x] = "live", waits[x] # 1, x # tm
                 PROVE  \/ \E i \in DOMAIN queue' : queue'[i].timer = x
                        \/ \E v \in Workers : calling'[v] = x
      BY <1>1, <1>5 DEF Carried
    <3>1. CASE \E v \in Workers : calling[v] = x
      BY <1>1, <1>5, <3>1, TimerAssumption
    <3>2. CASE \E i \in DOMAIN queue : queue[i].timer = x
      <4>1. PICK i \in DOMAIN queue : queue[i].timer = x
        BY <3>2
      <4>2. i # 1
        BY <4>1 DEF tm
      <4>3. i - 1 \in DOMAIN queue' /\ queue'[i - 1] = queue[i]
        BY <1>2, <4>2
      <4> QED
        BY <4>1, <4>3
    <3> QED
      BY <3>1, <3>2 DEF Links, Carried
  <2>3. CallsDiffer' /\ HandlerOrCall'
    BY <1>1, <1>2, <1>4, <1>5 DEF Links, CallsDiffer, HandlerOrCall, WaitAlone
  <2>4. WaitAlone'
    BY <1>1, <1>2, <1>4, <1>5 DEF Links, WaitAlone
  <2> QED
    BY <2>1, <2>2, <2>3, <2>4 DEF Links
<1>8. Outcomes'
  BY <1>1, <1>2, <1>3, <1>5 DEF Outcomes
<1>9. Apart'
  BY <1>1, <1>2 DEF Apart, Expiry
<1> QED
  BY <1>6, <1>7, <1>8, <1>9

LEMMA ReturnInv ==
  ASSUME IInv, NEW w \in Workers, NEW result \in BOOLEAN, Return(w, result)
  PROVE  IInv'
<1> USE DEF IInv
<1> DEFINE tm == calling[w]
<1>1. /\ tm \in Timers /\ tm # NoTimer /\ calling \in [Workers -> Timers \cup {NoTimer}]
      /\ calling' = [calling EXCEPT ![w] = NoTimer]
      /\ UNCHANGED <<active, queue>>
  BY DEF Return, TypeOK
<1>2. /\ \A i \in DOMAIN queue : queue[i].timer # tm /\ queue[i].timer \in Timers
      /\ \A v \in Workers : v # w => calling[v] # tm
      /\ waits[tm] # 1 /\ outcome[tm] = "live"
  BY <1>1, HandlerOfTimer
  DEF Links, CallsDiffer, HandlerOrCall, WaitAlone, Outcomes, TypeOK
<1>3. CASE result
  <2>1. /\ outcome' = outcome
        /\ waits' = [waits EXCEPT ![tm] = 1]
        /\ left' = [left EXCEPT ![tm] = Expiry(tm)]
        /\ since' = [since EXCEPT ![tm] = 0]
    BY <1>3, <1>2 DEF Return, WantsMore, ScheduleTimer, WaitsStarted, TypeOK
  <2>2. TypeOK'
    BY <1>1, <2>1, ExpiryRange, TimerAssumption DEF TypeOK
  <2> HIDE DEF tm
  <2>3. Links'
    <3>1. HandlersDiffer' /\ CallsDiffer' /\ HandlerOrCall'
      BY <1>1, <1>2, TimerAssumption
      DEF Links, HandlersDiffer, CallsDiffer, HandlerOrCall, TypeOK
    <3>2. \A v \in Workers : /\ calling'[v] # tm
                             /\ calling'[v] # NoTimer => calling'[v] = calling[v]
                             /\ calling[v] # tm => calling'[v] = calling[v]
      BY <1>1, <1>2 DEF tm
    <3>4. WaitAlone'
      BY <1>1, <1>2, <2>1, <3>2, TimerAssumption DEF Links, WaitAlone, TypeOK
    <3>5. Carried'
      <4> SUFFICES ASSUME NEW x \in Timers, x # tm, outcome[x] = "live"
                   PROVE  \/ waits[x] = 1
                          \/ \E i \in DOMAIN queue : queue[i].timer = x
                          \/ \E v \in Workers : calling'[v] = x
        BY <1>1, <2>1 DEF Carried, TypeOK
      <4> QED
        BY <3>2 DEF Links, Carried
    <3> QED
      BY <3>1, <3>4, <3>5 DEF Links
  <2>4. Outcomes'
    BY <1>1, <1>2, <2>1 DEF Outcomes, TypeOK
  <2>5. Apart'
    BY <1>1, <1>2, <2>1, ExpiryRange, TimerAssumption DEF Apart, Expiry, TypeOK
  <2> QED
    BY <2>2, <2>3, <2>4, <2>5
<1>4. CASE ~result
  <2>1. /\ outcome' = [outcome EXCEPT ![tm] = "finished"]
        /\ UNCHANGED <<waits, left, since>>
    BY <1>4 DEF Return, WantsMore
  <2>2. TypeOK'
    BY <1>1, <2>1 DEF TypeOK
  <2> HIDE DEF tm
  <2>3. Links'
    <3>1. HandlersDiffer' /\ CallsDiffer' /\ HandlerOrCall'
      BY <1>1, <1>2, TimerAssumption
      DEF Links, HandlersDiffer, CallsDiffer, HandlerOrCall, TypeOK
    <3>2. \A v \in Workers : /\ calling'[v] # tm
                             /\ calling'[v] # NoTimer => calling'[v] = calling[v]
                             /\ calling[v] # tm => calling'[v] = calling[v]
      BY <1>1, <1>2 DEF tm
    <3>4. WaitAlone'
      BY <1>1, <1>2, <2>1, <3>2, TimerAssumption DEF Links, WaitAlone, TypeOK
    <3>5. Carried'
      <4> SUFFICES ASSUME NEW x \in Timers, x # tm, outcome[x] = "live"
                   PROVE  \/ waits[x] = 1
                          \/ \E i \in DOMAIN queue : queue[i].timer = x
                          \/ \E v \in Workers : calling'[v] = x
        BY <1>1, <2>1 DEF Carried, TypeOK
      <4> QED
        BY <3>2 DEF Links, Carried
    <3> QED
      BY <3>1, <3>4, <3>5 DEF Links
  <2>4. Outcomes'
    BY <1>1, <1>2, <2>1 DEF Outcomes, TypeOK, tm
  <2>5. Apart'
    BY <1>1, <2>1 DEF Apart, Expiry
  <2> QED
    BY <2>2, <2>3, <2>4, <2>5
<1> QED
  BY <1>3, <1>4

LEMMA NextInv == ASSUME IInv, [Next]_vars PROVE IInv'
<1>1. CASE Open \/ Close \/ UNCHANGED vars
  <2>1. active' \in BOOLEAN /\ UNCHANGED <<waits, left, queue, calling, outcome, since>>
    BY <1>1 DEF Open, Close, vars, IInv, TypeOK
  <2> QED
    BY <2>1 DEF IInv, TypeOK, Links, HandlersDiffer, CallsDiffer, HandlerOrCall,
                WaitAlone, Carried, Outcomes, Apart, Expiry
<1>2. ASSUME NEW w \in Workers, WorkerStep(w) PROVE IInv'
  BY <1>2, TakeAbortedInv, TakeExpiredInv, ReturnInv DEF WorkerStep
<1> QED
  BY <1>1, <1>2, ScheduleInv, CancelInv, ExpireInv, TickInv DEF Next

-------------------------------------------------------------------------------
THEOREM Inductive == Spec => []IInv
<1>1. Init => IInv
  BY InitIInv
<1>2. IInv /\ [Next]_vars => IInv'
  BY NextInv
<1> QED
  BY <1>1, <1>2, PTL DEF Spec

(***************************************************************************)
(* The variables of the timers stay in their range: no timer ever has two  *)
(* waits pending.                                                          *)
(***************************************************************************)
THEOREM TypeCorrect == Spec => []TypeOK
BY Inductive, PTL DEF IInv

(***************************************************************************)
(* A timer has one wait, one handler or one call at most, and a live one   *)
(* exactly one (ThreadPool::schedule_timer).                               *)
(***************************************************************************)
THEOREM LinkCorrect == Spec => []OneLinkPerTimer
<1>1. IInv => OneLinkPerTimer
  <2> SUFFICES ASSUME IInv, NEW tm \in Timers
               PROVE  LET links == waits[tm] + Cardinality(QueuedFor(tm)) + Cardinality(Calling(tm))
                      IN  links <= 1 /\ (outcome[tm] = "live" => links = 1)
    BY DEF OneLinkPerTimer
  <2>1. waits[tm] \in {0, 1} /\ tm # NoTimer
    BY TimerAssumption DEF IInv, TypeOK
  <2>2. \/ QueuedFor(tm) = {}
        \/ \E i \in DOMAIN queue : QueuedFor(tm) = {i}
    BY DEF IInv, Links, HandlersDiffer, QueuedFor
  <2>3. \/ Calling(tm) = {}
        \/ \E w \in Workers : Calling(tm) = {w}
    BY <2>1 DEF IInv, Links, CallsDiffer, Calling
  <2>4. /\ Cardinality(QueuedFor(tm)) = IF QueuedFor(tm) = {} THEN 0 ELSE 1
        /\ Cardinality(Calling(tm)) = IF Calling(tm) = {} THEN 0 ELSE 1
    BY <2>2, <2>3, FS_EmptySet, FS_Singleton
  <2>5. QueuedFor(tm) = {} \/ Calling(tm) = {}
    BY DEF IInv, Links, HandlerOrCall, QueuedFor, Calling
  <2>6. waits[tm] = 1 => QueuedFor(tm) = {} /\ Calling(tm) = {}
    BY DEF IInv, Links, WaitAlone, QueuedFor, Calling
  <2>7. outcome[tm] = "live" => \/ waits[tm] = 1
                                \/ QueuedFor(tm) # {}
                                \/ Calling(tm) # {}
    BY DEF IInv, Links, Carried, QueuedFor, Calling
  <2> QED
    BY <2>1, <2>4, <2>5, <2>6, <2>7
<1> QED
  BY Inductive, <1>1, PTL

\* A call begins with a handler of its timer whose wait was not cancelled.
LEMMA CallBegins ==
  ASSUME IInv, [Next]_vars, NEW w \in Workers, NEW tm \in Timers,
         calling'[w] = tm, calling[w] # tm
  PROVE  /\ queue \in Seq(Handlers) /\ queue # <<>>
         /\ 1 \in DOMAIN queue /\ queue[1].timer = tm /\ queue[1].error = "none"
<1> USE TimerAssumption
<1>1. PICK v \in Workers : TakeExpired(v) \/ \E result \in BOOLEAN : Return(v, result)
  BY DEF Next, vars, Schedule, ScheduleTimer, Cancel, Expire, Tick, Open, Close,
         WorkerStep, TakeAborted
<1>2. calling \in [Workers -> Timers \cup {NoTimer}] /\ queue \in Seq(Handlers)
  BY DEF IInv, TypeOK
<1>3. ASSUME NEW result \in BOOLEAN, Return(v, result) PROVE FALSE
  BY <1>2, <1>3 DEF Return
<1>4. TakeExpired(v)
  BY <1>1, <1>3
<1>5. /\ queue # <<>> /\ Head(queue).error = "none"
      /\ calling' = [calling EXCEPT ![v] = Head(queue).timer]
  BY <1>4 DEF TakeExpired, Ready, Failed
<1>6. Head(queue) = queue[1] /\ 1 \in DOMAIN queue
  BY <1>2, <1>5, Taken
<1> QED
  BY <1>2, <1>5, <1>6

(***************************************************************************)
(* Nobody calls the callable of a timer whose wait was cancelled, or whose *)
(* callable returned false.                                                *)
(***************************************************************************)
THEOREM EndCorrect == Spec => EndedIsFinal
<1>1. IInv /\ [Next]_vars =>
        [\A w \in Workers, tm \in Timers :
            calling'[w] = tm /\ calling[w] # tm => outcome[tm] = "live"]_vars
  BY CallBegins DEF IInv, Outcomes
<1> QED
  BY Inductive, <1>1, PTL DEF Spec, EndedIsFinal

(***************************************************************************)
(* No call comes before the delay, but for the part of a millisecond that  *)
(* duration_cast drops.                                                    *)
(***************************************************************************)
THEOREM DelayCorrect == Spec => NeverEarly
<1>1. ASSUME IInv, [Next]_vars, NEW w \in Workers, NEW tm \in Timers,
             calling'[w] = tm, calling[w] # tm
      PROVE  since[tm] + TicksPerMs > Delay
  <2>1. since[tm] >= Expiry(tm)
    BY <1>1, CallBegins DEF IInv, Apart
  <2>2. since[tm] \in 0 .. Delay
    BY <1>1 DEF IInv, TypeOK
  <2> QED
    BY <2>1, <2>2, ExpiryRange, TimerAssumption
<1>2. IInv /\ [Next]_vars =>
        [\A w \in Workers, tm \in Timers :
            calling'[w] = tm /\ calling[w] # tm => since[tm] + TicksPerMs > Delay]_vars
  BY <1>1
<1> QED
  BY Inductive, <1>2, PTL DEF Spec, NeverEarly
===============================================================================
