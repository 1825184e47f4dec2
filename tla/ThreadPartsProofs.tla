--------------------------- MODULE ThreadPartsProofs ---------------------------
(***************************************************************************)
(* Proofs of what the run of ThreadParts checks: the choice of a context,  *)
(* the binding of threads to cores and ThreadTimer, for pools of any shape *)
(* and machines of any size.                                               *)
(*                                                                         *)
(* Both round robins, over contexts and over cores, spread what they deal  *)
(* out Evenly: that is the invariant they share.                           *)
(***************************************************************************)
EXTENDS ThreadParts, FiniteSetTheorems, SequenceTheorems, TLAPS

-------------------------------------------------------------------------------
(* Remainders *)

LEMMA Division ==
  ASSUME NEW x \in Nat, NEW n \in Nat \ {0}
  PROVE  \E q \in Nat : \E r \in 0 .. n - 1 : x = q * n + r /\ x % n = r
<1>1. x % n \in 0 .. n - 1 /\ x \div n \in Nat /\ x = (x \div n) * n + (x % n)
  OBVIOUS
<1> QED BY <1>1, Zenon

LEMMA RemainderIs ==
  ASSUME NEW n \in Nat \ {0}, NEW x \in Nat, NEW q \in Int, NEW r \in 0 .. n - 1, x = q * n + r
  PROVE  x % n = r
OBVIOUS

\* The one after r in a round of n
OneOn(r, n) == IF r + 1 = n THEN 0 ELSE r + 1

\* Counting on is counting round.
LEMMA NextRemainder ==
  ASSUME NEW n \in Nat \ {0}, NEW x \in Nat, NEW r, x % n = r
  PROVE  /\ r \in 0 .. n - 1
         /\ (x + 1) % n = OneOn(r, n)
<1>1. PICK q \in Nat : x = q * n + r /\ r \in 0 .. n - 1
  BY Division
<1>2. CASE r + 1 = n
  <2>1. x + 1 = (q + 1) * n + 0
    BY <1>1, <1>2
  <2>2. x + 1 \in Nat /\ q + 1 \in Int /\ 0 \in 0 .. n - 1
    OBVIOUS
  <2>3. (x + 1) % n = 0
    BY <2>1, <2>2, RemainderIs, Zenon
  <2> QED BY <2>3, <1>1, <1>2, Zenon DEF OneOn
<1>3. CASE r + 1 # n
  <2>1. x + 1 = q * n + (r + 1)
    BY <1>1
  <2>2. x + 1 \in Nat /\ q \in Int /\ r + 1 \in 0 .. n - 1
    BY <1>1, <1>3
  <2>3. (x + 1) % n = r + 1
    BY <2>1, <2>2, RemainderIs, Zenon
  <2> QED BY <2>3, <1>1, <1>3, Zenon DEF OneOn
<1> QED BY <1>2, <1>3

\* A multiple of n makes no difference.
LEMMA SameRemainder ==
  ASSUME NEW n \in Nat \ {0}, NEW x \in Nat, NEW y \in Nat, x % n = 0
  PROVE  (x + y) % n = y % n
<1>1. PICK p \in Nat, z \in 0 .. n - 1 : x = p * n + z /\ x % n = z
  BY Division
<1>2. PICK q \in Nat, r \in 0 .. n - 1 : y = q * n + r /\ y % n = r
  BY Division
<1>3. x + y = (p + q) * n + r
  BY <1>1, <1>2
<1>4. x + y \in Nat /\ p + q \in Int
  OBVIOUS
<1>5. (x + y) % n = r
  BY <1>3, <1>4, RemainderIs, Zenon
<1> QED BY <1>2, <1>5, Zenon

-------------------------------------------------------------------------------
(* Round robin *)

\* The counts of 0 .. n - 1 are equal, but for one more of each below p.
Evenly(count, n, p) ==
  \E b \in Nat : \A k \in 0 .. n - 1 : count[k] = b + (IF k < p THEN 1 ELSE 0)

\* The next in turn gets one more.
LEMMA EvenlyOn ==
  ASSUME NEW n \in Nat \ {0}, NEW p \in 0 .. n - 1, NEW f, NEW g, Evenly(f, n, p),
         \A k \in 0 .. n - 1 : g[k] = IF k = p THEN f[k] + 1 ELSE f[k]
  PROVE  Evenly(g, n, OneOn(p, n))
<1>1. PICK b \in Nat : \A k \in 0 .. n - 1 : f[k] = b + (IF k < p THEN 1 ELSE 0)
  BY DEF Evenly
<1>2. CASE p + 1 = n
  <2>1. \A k \in 0 .. n - 1 : g[k] = (b + 1) + (IF k < 0 THEN 1 ELSE 0)
    BY <1>1, <1>2
  <2>2. b + 1 \in Nat
    OBVIOUS
  <2> QED BY <2>1, <2>2, <1>2 DEF Evenly, OneOn
<1>3. CASE p + 1 # n
  <2>1. \A k \in 0 .. n - 1 : g[k] = b + (IF k < p + 1 THEN 1 ELSE 0)
    BY <1>1, <1>3
  <2> QED BY <2>1, <1>3 DEF Evenly, OneOn
<1> QED BY <1>2, <1>3

LEMMA EvenlyIsFair ==
  ASSUME NEW n \in Nat \ {0}, NEW p \in 0 .. n - 1, NEW f, Evenly(f, n, p),
         NEW r \in 0 .. n - 1, NEW s \in 0 .. n - 1
  PROVE  f[r] <= f[s] + 1 /\ (p = 0 => f[r] = f[s])
BY DEF Evenly
-------------------------------------------------------------------------------
(* The choice of a context: getCurrentIOService() *)

Shaped == nbThread \in Nat /\ nbServices \in 1 .. nbThread /\ nbThread % nbServices = 0

\* What the last start() created stands behind the leftover handles, in turn.
LookupInv ==
  /\ Shaped
  /\ leftover \in Nat /\ running \in BOOLEAN /\ handles \in Seq(Nat)
  /\ running => \A i \in 1 .. Len(handles) :
       i > leftover => handles[i] = (i - leftover - 1) % nbServices

LEMMA InitShaped == S!Init => Shaped
BY ThreadAssumption DEF S!Init, Shaped

LEMMA InitLookup == S!Init => LookupInv
<1> SUFFICES ASSUME S!Init PROVE LookupInv
  OBVIOUS
<1>1. Shaped
  BY InitShaped
<1>2. leftover = 0 /\ running = FALSE /\ handles = <<>>
  BY DEF S!Init
<1>3. <<>> \in Seq(Nat)
  BY EmptySeq
<1> QED BY <1>1, <1>2, <1>3 DEF LookupInv

\* The handles of n new threads behind those there are.
LEMMA CreateHandles ==
  ASSUME LookupInv, NEW n \in Nat, S!Create(n)
  PROVE  /\ handles' \in Seq(Nat) /\ leftover' \in Nat /\ nbServices' = nbServices
         /\ \A i \in 1 .. Len(handles') :
              i > leftover' => handles'[i] = (i - leftover' - 1) % nbServices
<1> DEFINE new == [i \in 1 .. n |-> (i - 1) % nbServices]
<1>1. new \in Seq(Nat) /\ Len(new) = n
  BY DEF LookupInv, Shaped
<1>2. handles' = handles \o new /\ leftover' = Len(handles) /\ handles \in Seq(Nat)
  BY DEF S!Create, LookupInv
<1>3. \A i \in 1 .. n : new[i] = (i - 1) % nbServices
  OBVIOUS
<1> HIDE DEF new
<1>4. /\ Len(handles') = Len(handles) + n
      /\ \A i \in 1 .. Len(handles') : i > Len(handles) => handles'[i] = new[i - Len(handles)]
      /\ handles' \in Seq(Nat) /\ Len(handles) \in Nat
  <2>1. Len(handles) \in Nat
    BY <1>2, LenProperties
  <2>2. /\ handles \o new \in Seq(Nat) /\ Len(handles \o new) = Len(handles) + Len(new)
        /\ \A i \in 1 .. Len(handles) + Len(new) :
             (handles \o new)[i] = IF i <= Len(handles) THEN handles[i] ELSE new[i - Len(handles)]
    BY <1>1, <1>2, ConcatProperties, Zenon
  <2> QED BY <1>1, <1>2, <2>1, <2>2
<1>5. \A i \in 1 .. Len(handles') : i > leftover' => i - leftover' \in 1 .. n
  BY <1>1, <1>2, <1>4
<1>6. \A i \in 1 .. Len(handles') : i > leftover' => handles'[i] = new[i - leftover']
  BY <1>2, <1>4
<1>7. nbServices' = nbServices
  BY DEF S!Create, S!shape
<1> QED BY <1>2, <1>3, <1>4, <1>5, <1>6, <1>7

LEMMA NextLookup == LookupInv /\ [S!Next]_selection => LookupInv'
<1> SUFFICES ASSUME LookupInv, [S!Next]_selection PROVE LookupInv'
  OBVIOUS
<1>1. CASE UNCHANGED selection
  BY <1>1 DEF selection, LookupInv, Shaped
<1>2. ASSUME NEW c \in Callers, S!Post(c) \/ S!PostAll(c) \/ S!PostNext(c) PROVE LookupInv'
  BY <1>2 DEF LookupInv, Shaped, S!Post, S!PostAll, S!PostNext, S!PostOne, S!shape
<1>3. CASE S!Start
  <2>1. nbThread \in Nat /\ S!Create(nbThread) /\ running'
    BY <1>3 DEF S!Start, LookupInv, Shaped
  <2>2. Shaped'
    BY <2>1 DEF S!Create, S!shape, LookupInv, Shaped
  <2> QED BY <2>1, <2>2, CreateHandles, <1>3 DEF LookupInv, S!Start
<1>4. CASE S!StartFails
  <2>1. PICK n \in 0 .. nbThread - 1 : S!Create(n)
    BY <1>4 DEF S!StartFails
  <2>2. n \in Nat /\ running' = running /\ ~running
    BY <1>4, <2>1 DEF S!StartFails, S!Create, LookupInv, Shaped
  <2>3. Shaped'
    BY <2>1 DEF S!Create, S!shape, LookupInv, Shaped
  <2> QED BY <2>1, <2>2, <2>3, CreateHandles DEF LookupInv
<1>5. CASE S!Stop
  BY <1>5, EmptySeq DEF LookupInv, Shaped, S!Stop, S!Cleared, S!shape
<1> QED BY <1>1, <1>2, <1>3, <1>4, <1>5 DEF S!Next

LEMMA LookupFollows == LookupInv => LookupSurvivesFailedStart
<1> SUFFICES ASSUME LookupInv, running, leftover % nbServices = 0,
                    NEW i \in DOMAIN handles, i > leftover
             PROVE  S!Current(i - 1) = handles[i]
  BY DEF LookupSurvivesFailedStart, S!LookupSurvivesFailedStart
<1> DEFINE k == i - leftover - 1
<1>1. /\ i \in 1 .. Len(handles) /\ k \in Nat /\ i - 1 = leftover + k
      /\ nbServices \in Nat \ {0} /\ leftover \in Nat
  BY DEF LookupInv, Shaped
<1>2. handles[i] = k % nbServices
  BY <1>1 DEF LookupInv
<1>3. (leftover + k) % nbServices = k % nbServices
  BY <1>1, SameRemainder
<1>4. CASE nbServices = 1
  <2>1. k % nbServices = 0
    BY <1>1, <1>4
  <2> QED BY <2>1, <1>2, <1>4 DEF S!Current
<1>5. CASE nbServices # 1
  BY <1>1, <1>2, <1>3, <1>5 DEF S!Current, S!FromPosition
<1> QED BY <1>4, <1>5

-------------------------------------------------------------------------------
(* The choice of a context: getService() *)

\* The counter has not left its place in the turn by wrapping around.
InStep == ~wrapped \/ UIntMod % nbServices = 0

\* The calls that are due: which caller's, and which before its last.
Due == {d \in Callers \X (1 .. nbThread) : d[2] <= left[d[1]]}

TurnsTyped ==
  /\ Shaped
  /\ currentService \in 0 .. UIntMod - 1 /\ wrapped \in BOOLEAN
  /\ left \in [Callers -> 0 .. nbThread]
  /\ posted \in [0 .. nbServices - 1 -> Nat]
  /\ single \in Nat
  /\ IsFiniteSet(Due)

\* What was posted singly, and whole rounds of the others, make the calls so far and those due.
Balanced ==
  \E m \in Int : S!RoundRobin + Cardinality(Due) = single + m * nbServices

TurnsInv ==
  /\ TurnsTyped
  /\ InStep => Evenly(posted, nbServices, S!RoundRobin) /\ Balanced

LEMMA RoundRobinType ==
  ASSUME TurnsTyped
  PROVE  nbServices \in Nat \ {0} /\ S!RoundRobin \in 0 .. nbServices - 1
         /\ currentService \in Nat
<1>1. nbServices \in Nat \ {0} /\ currentService \in Nat
  BY ThreadAssumption DEF TurnsTyped, Shaped
<1>2. currentService % nbServices \in 0 .. nbServices - 1
  BY <1>1
<1> QED BY <1>1, <1>2 DEF S!RoundRobin

LEMMA InitTurns == S!Init => TurnsInv
<1> SUFFICES ASSUME S!Init PROVE TurnsInv
  OBVIOUS
<1>1. Shaped
  BY InitShaped
<1>2. Due = {}
  BY <1>1 DEF S!Init, Due, Shaped
<1>3. TurnsTyped
  <2>1. posted \in [0 .. nbServices - 1 -> Nat] /\ left \in [Callers -> 0 .. nbThread]
    BY <1>1 DEF S!Init, S!Services, Shaped
  <2>2. currentService \in 0 .. UIntMod - 1 /\ wrapped \in BOOLEAN /\ single \in Nat
    <3>1. currentService = 0 /\ wrapped = FALSE /\ single = 0
      BY DEF S!Init
    <3>2. 0 \in 0 .. UIntMod - 1
      BY ThreadAssumption
    <3> QED BY <3>1, <3>2
  <2> QED BY <1>1, <1>2, <2>1, <2>2, FS_EmptySet, Zenon DEF TurnsTyped
<1>4. S!RoundRobin = 0
  BY <1>1, RemainderIs DEF S!Init, S!RoundRobin, Shaped
<1>5. Evenly(posted, nbServices, S!RoundRobin)
  BY <1>1, <1>4 DEF S!Init, S!Services, Evenly, Shaped
<1>6. Balanced
  BY <1>1, <1>2, <1>4, FS_EmptySet DEF S!Init, Balanced, Shaped
<1> QED BY <1>3, <1>5, <1>6 DEF TurnsInv

\* One call of getService(): the next context in turn, and on by one.
LEMMA PostOneTurns ==
  ASSUME TurnsTyped, S!PostOne
  PROVE  /\ nbServices' = nbServices /\ nbThread' = nbThread
         /\ currentService' \in 0 .. UIntMod - 1 /\ wrapped' \in BOOLEAN
         /\ posted' \in [0 .. nbServices - 1 -> Nat]
         /\ InStep' => InStep
         /\ InStep' => S!RoundRobin' = OneOn(S!RoundRobin, nbServices)
         /\ InStep' /\ Evenly(posted, nbServices, S!RoundRobin)
              => Evenly(posted', nbServices, S!RoundRobin')
<1> DEFINE r == S!RoundRobin
           n == nbServices
<1>1. n \in Nat \ {0} /\ r \in 0 .. n - 1 /\ currentService \in Nat
      /\ UIntMod \in Nat \ {0} /\ currentService + 1 \in 1 .. UIntMod
  BY RoundRobinType, ThreadAssumption DEF TurnsTyped
<1>2. n' = n /\ nbThread' = nbThread
  BY DEF S!PostOne, S!shape
<1>3. /\ posted' \in [0 .. n - 1 -> Nat]
      /\ \A k \in 0 .. n - 1 : posted'[k] = IF k = r THEN posted[k] + 1 ELSE posted[k]
  <2>1. posted' = [posted EXCEPT ![r] = @ + 1] /\ posted \in [0 .. n - 1 -> Nat]
    BY DEF S!PostOne, TurnsTyped
  <2> HIDE DEF r
  <2> QED BY <2>1, <1>1
<1>4. CASE n = 1
  <2>1. UNCHANGED <<currentService, wrapped>> /\ r = 0 /\ r' = 0
    BY <1>2, <1>4 DEF S!PostOne, S!Advance, S!RoundRobin
  <2>2. InStep' <=> InStep
    BY <2>1, <1>2 DEF InStep
  <2>3. r' = OneOn(r, n)
    BY <2>1, <1>4 DEF OneOn
  <2>4. Evenly(posted, n, r) => Evenly(posted', n, r')
    BY <1>1, <1>3, <2>3, EvenlyOn
  <2> QED BY <1>2, <1>3, <2>1, <2>2, <2>3, <2>4 DEF TurnsTyped
<1>5. CASE n # 1
  <2>1. /\ currentService' = (currentService + 1) % UIntMod
        /\ wrapped' = (wrapped \/ currentService' = 0)
        /\ r = currentService % n /\ r' = currentService' % n
    BY <1>2, <1>5 DEF S!PostOne, S!Advance, S!RoundRobin
  <2>2. currentService' \in 0 .. UIntMod - 1 /\ wrapped' \in BOOLEAN
    BY <1>1, <2>1 DEF TurnsTyped
  <2>3. InStep' => InStep
    BY <1>2, <2>1 DEF InStep
  <2>4. (currentService + 1) % n = OneOn(r, n)
    BY <1>1, <2>1, NextRemainder, Zenon
  <2>5. ASSUME InStep' PROVE r' = (currentService + 1) % n
    <3>1. CASE currentService + 1 = UIntMod
      <4>1. currentService' = 0
        <5>1. UIntMod = 1 * UIntMod + 0 /\ 0 \in 0 .. UIntMod - 1
          BY <1>1
        <5> QED BY <5>1, <1>1, <2>1, <3>1, RemainderIs
      <4>2. UIntMod % n = 0
        BY <4>1, <2>1, <2>5, <1>2 DEF InStep
      <4>3. 0 % n = 0
        BY <1>1
      <4> QED BY <4>1, <4>2, <4>3, <2>1, <3>1
    <3>2. CASE currentService + 1 # UIntMod
      <4>1. currentService + 1 = 0 * UIntMod + (currentService + 1)
            /\ currentService + 1 \in 0 .. UIntMod - 1
        BY <1>1, <3>2
      <4>2. currentService' = currentService + 1
        BY <4>1, <1>1, <2>1, RemainderIs
      <4> QED BY <4>2, <2>1
    <3> QED BY <3>1, <3>2
  <2>6. InStep' => r' = OneOn(r, n)
    BY <2>4, <2>5, Zenon
  <2>7. InStep' /\ Evenly(posted, n, r) => Evenly(posted', n, r')
    BY <1>1, <1>3, <2>6, EvenlyOn
  <2> QED BY <1>2, <1>3, <2>2, <2>3, <2>6, <2>7
<1> QED BY <1>4, <1>5

\* A caller begins a round of calls.
LEMMA PostAllDue ==
  ASSUME TurnsTyped, NEW c \in Callers, S!PostAll(c)
  PROVE  IsFiniteSet(Due') /\ Cardinality(Due') = Cardinality(Due) + nbThread
<1> DEFINE new == {c} \X (1 .. nbThread)
<1>1. nbThread \in Nat /\ IsFiniteSet(Due) /\ left \in [Callers -> 0 .. nbThread]
  BY DEF TurnsTyped, Shaped
<1>2. left[c] = 0 /\ left' = [left EXCEPT ![c] = nbThread] /\ nbThread' = nbThread
  BY DEF S!PostAll, S!Turns, S!shape
<1>3. IsFiniteSet(new) /\ Cardinality(new) = nbThread
  <2>1. IsFiniteSet({c}) /\ Cardinality({c}) = 1
    BY FS_Singleton
  <2>2. IsFiniteSet(1 .. nbThread) /\ Cardinality(1 .. nbThread) = nbThread
    BY <1>1, FS_Interval
  <2> QED BY <1>1, <2>1, <2>2, FS_Product
<1>4. Due' = Due \cup new
  <2>1. \A d \in Callers \X (1 .. nbThread) : d[2] <= left'[d[1]] <=> d[2] <= left[d[1]] \/ d[1] = c
    BY <1>1, <1>2
  <2>2. \A d \in Callers \X (1 .. nbThread) : d[1] = c <=> d \in new
    OBVIOUS
  <2>3. new \subseteq Callers \X (1 .. nbThread)
    OBVIOUS
  <2> HIDE DEF new
  <2> QED BY <2>1, <2>2, <2>3, <1>2 DEF Due
<1>5. Due \cap new = {}
  BY <1>1, <1>2 DEF Due
<1> HIDE DEF new
<1>6. IsFiniteSet(Due \cup new) /\ Cardinality(Due \cup new) = Cardinality(Due) + Cardinality(new)
                                     - Cardinality(Due \cap new)
  BY <1>1, <1>3, FS_Union
<1>7. Cardinality(Due) \in Nat /\ Cardinality(Due \cap new) = 0
  BY <1>1, <1>5, FS_EmptySet, FS_CardinalityType
<1> QED BY <1>1, <1>3, <1>4, <1>6, <1>7

\* ... and makes one of them.
LEMMA PostNextDue ==
  ASSUME TurnsTyped, NEW c \in Callers, S!PostNext(c)
  PROVE  IsFiniteSet(Due') /\ Cardinality(Due') = Cardinality(Due) - 1
<1>1. nbThread \in Nat /\ IsFiniteSet(Due) /\ left \in [Callers -> 0 .. nbThread]
  BY DEF TurnsTyped, Shaped
<1>2. left[c] \in 1 .. nbThread /\ left' = [left EXCEPT ![c] = @ - 1] /\ nbThread' = nbThread
  BY <1>1 DEF S!PostNext, S!PostOne, S!shape
<1>3. <<c, left[c]>> \in Due
  BY <1>2 DEF Due
<1>4. Due' = Due \ {<<c, left[c]>>}
  <2>1. \A d \in Callers \X (1 .. nbThread) :
          d[2] <= left'[d[1]] <=> d[2] <= left[d[1]] /\ d # <<c, left[c]>>
    BY <1>1, <1>2
  <2> QED BY <2>1, <1>2 DEF Due
<1> QED BY <1>1, <1>3, <1>4, FS_RemoveElement

\* A call moves the turn on by one, and is one more call or one less due.
LEMMA BalancedOn ==
  ASSUME TurnsTyped, Balanced, nbServices' = nbServices,
         S!RoundRobin' = OneOn(S!RoundRobin, nbServices),
         single' \in Int, Cardinality(Due') \in Int,
         single' - Cardinality(Due') = single + 1 - Cardinality(Due)
  PROVE  Balanced'
<1>1. /\ nbServices \in Nat \ {0} /\ S!RoundRobin \in 0 .. nbServices - 1
      /\ single \in Int /\ Cardinality(Due) \in Int
  BY RoundRobinType, FS_CardinalityType DEF TurnsTyped
<1>2. PICK m \in Int : S!RoundRobin + Cardinality(Due) = single + m * nbServices
  BY DEF Balanced
<1>3. CASE S!RoundRobin + 1 = nbServices
  <2>1. S!RoundRobin' = 0
    BY <1>3 DEF OneOn
  <2>2. (m - 1) * nbServices = m * nbServices - nbServices /\ m * nbServices \in Int
    BY <1>1
  <2>3. S!RoundRobin' + Cardinality(Due') = single' + (m - 1) * nbServices
    BY <1>1, <1>2, <1>3, <2>1, <2>2
  <2>4. m - 1 \in Int
    OBVIOUS
  <2> QED BY <2>3, <2>4, Zenon DEF Balanced
<1>4. CASE S!RoundRobin + 1 # nbServices
  <2>1. S!RoundRobin' = S!RoundRobin + 1
    BY <1>4 DEF OneOn
  <2>2. m * nbServices \in Int
    BY <1>1
  <2>3. S!RoundRobin' + Cardinality(Due') = single' + m * nbServices
    BY <1>1, <1>2, <2>1, <2>2
  <2> QED BY <2>3, Zenon DEF Balanced
<1> QED BY <1>3, <1>4

LEMMA NextTurns == TurnsInv /\ [S!Next]_selection => TurnsInv'
<1> SUFFICES ASSUME TurnsInv, [S!Next]_selection PROVE TurnsInv'
  OBVIOUS
<1> DEFINE r == S!RoundRobin
           n == nbServices
<1>0. TurnsTyped /\ n \in Nat \ {0} /\ r \in 0 .. n - 1 /\ single \in Nat
      /\ IsFiniteSet(Due) /\ Cardinality(Due) \in Nat
      /\ single \in Int /\ Cardinality(Due) \in Int
  BY RoundRobinType, FS_CardinalityType DEF TurnsInv, TurnsTyped
<1>1. ASSUME UNCHANGED <<nbThread, nbServices, currentService, left, posted, single, wrapped>>
      PROVE  TurnsInv'
  BY <1>1 DEF TurnsInv, TurnsTyped, Shaped, InStep, Balanced, Due, Evenly, S!RoundRobin
<1>2. ASSUME NEW c \in Callers, S!Post(c) PROVE TurnsInv'
  <2>1. S!PostOne /\ single' = single + 1 /\ left' = left
    BY <1>2 DEF S!Post
  <2>2. Due' = Due /\ nbThread' = nbThread
    BY <2>1, <1>0, PostOneTurns DEF Due
  <2>3. TurnsTyped'
    <3>1. /\ currentService' \in 0 .. UIntMod - 1 /\ wrapped' \in BOOLEAN
          /\ posted' \in [0 .. n - 1 -> Nat] /\ n' = n
      BY <2>1, <1>0, PostOneTurns, Zenon
    <3>2. single' \in Nat
      BY <2>1, <1>0
    <3> QED BY <2>1, <2>2, <3>1, <3>2, <1>0 DEF TurnsTyped, Shaped
  <2>4. ASSUME InStep' PROVE Evenly(posted', n', r') /\ Balanced'
    <3>1. InStep /\ n' = n /\ r' = OneOn(r, n)
      BY <2>1, <2>4, <1>0, PostOneTurns
    <3>2. Evenly(posted', n', r')
      BY <2>1, <2>4, <3>1, <1>0, PostOneTurns DEF TurnsInv
    <3>3. Balanced'
      BY <3>1, <2>1, <2>2, <1>0, BalancedOn DEF TurnsInv
    <3> QED BY <3>2, <3>3
  <2> QED BY <2>3, <2>4 DEF TurnsInv
<1>3. ASSUME NEW c \in Callers, S!PostAll(c) PROVE TurnsInv'
  <2>1. /\ UNCHANGED <<nbThread, nbServices, currentService, posted, single, wrapped>>
        /\ left' = [left EXCEPT ![c] = nbThread] /\ nbThread \in Nat /\ n \in Nat \ {0}
    BY <1>3, <1>0 DEF S!PostAll, S!Turns, S!shape, TurnsTyped, Shaped
  <2>2. IsFiniteSet(Due') /\ Cardinality(Due') = Cardinality(Due) + nbThread
    BY <1>0, <1>3, PostAllDue
  <2>3. TurnsTyped'
    BY <2>1, <2>2, <1>0 DEF TurnsTyped, Shaped
  <2>4. ASSUME InStep' PROVE Evenly(posted', n', r') /\ Balanced'
    <3>1. InStep /\ r' = r
      BY <2>1, <2>4 DEF InStep, S!RoundRobin
    <3>2. PICK m \in Int : r + Cardinality(Due) = single + m * n
      BY <3>1 DEF TurnsInv, Balanced
    <3>3. PICK q \in Nat : nbThread = q * n
      <4>1. PICK q \in Nat, z \in 0 .. n - 1 : nbThread = q * n + z /\ nbThread % n = z
        BY <2>1, Division
      <4>2. z = 0
        BY <4>1, <1>0 DEF TurnsTyped, Shaped
      <4> QED BY <4>1, <4>2, <1>0
    <3>4. r + (Cardinality(Due) + nbThread) = single + (m + q) * n
      <4> HIDE DEF r, n
      <4> QED BY <3>2, <3>3, <1>0, <2>1
    <3>5. Balanced'
      BY <3>1, <3>4, <2>1, <2>2 DEF Balanced
    <3> QED BY <3>1, <3>5, <2>1 DEF TurnsInv, Evenly
  <2> QED BY <2>3, <2>4 DEF TurnsInv
<1>4. ASSUME NEW c \in Callers, S!PostNext(c) PROVE TurnsInv'
  <2>1. S!PostOne /\ single' = single /\ left' = [left EXCEPT ![c] = @ - 1] /\ left[c] > 0
    BY <1>4 DEF S!PostNext
  <2>2. IsFiniteSet(Due') /\ Cardinality(Due') = Cardinality(Due) - 1 /\ nbThread' = nbThread
    BY <1>0, <1>4, <2>1, PostNextDue, PostOneTurns
  <2>3. TurnsTyped'
    <3>0. left \in [Callers -> 0 .. nbThread] /\ nbThread \in Nat
      BY <1>0 DEF TurnsTyped, Shaped
    <3>1. left' \in [Callers -> 0 .. nbThread]
      BY <2>1, <3>0
    <3>2. /\ currentService' \in 0 .. UIntMod - 1 /\ wrapped' \in BOOLEAN
          /\ posted' \in [0 .. n - 1 -> Nat] /\ n' = n
      BY <2>1, <1>0, PostOneTurns, Zenon
    <3> QED BY <2>1, <2>2, <3>1, <3>2, <1>0 DEF TurnsTyped, Shaped
  <2>4. ASSUME InStep' PROVE Evenly(posted', n', r') /\ Balanced'
    <3>1. InStep /\ n' = n /\ r' = OneOn(r, n)
      BY <2>1, <2>4, <1>0, PostOneTurns
    <3>2. Evenly(posted', n', r')
      BY <2>1, <2>4, <3>1, <1>0, PostOneTurns DEF TurnsInv
    <3>3. Balanced'
      BY <3>1, <2>1, <2>2, <1>0, BalancedOn DEF TurnsInv
    <3> QED BY <3>2, <3>3
  <2> QED BY <2>3, <2>4 DEF TurnsInv
<1>5. CASE UNCHANGED selection
  BY <1>1, <1>5 DEF selection
<1>6. CASE S!Start \/ S!StartFails \/ S!Stop
  BY <1>1, <1>6 DEF S!Start, S!StartFails, S!Stop, S!Create, S!shape
<1> QED BY <1>2, <1>3, <1>4, <1>5, <1>6 DEF S!Next

LEMMA TurnsFollow == TurnsInv => ContextsTakeTurns
<1> SUFFICES ASSUME TurnsInv, InStep, NEW r \in 0 .. nbServices - 1, NEW s \in 0 .. nbServices - 1
             PROVE  /\ posted[r] <= posted[s] + 1
                    /\ (\A c \in Callers : left[c] = 0) /\ single % nbServices = 0
                         => posted[r] = posted[s]
  BY DEF ContextsTakeTurns, S!ContextsTakeTurns, S!Services, InStep
<1>1. /\ TurnsTyped /\ nbServices \in Nat \ {0} /\ S!RoundRobin \in 0 .. nbServices - 1
      /\ Evenly(posted, nbServices, S!RoundRobin) /\ Balanced
  BY RoundRobinType DEF TurnsInv
<1>2. posted[r] <= posted[s] + 1
  BY <1>1, EvenlyIsFair
<1>3. ASSUME \A c \in Callers : left[c] = 0, single % nbServices = 0
      PROVE  posted[r] = posted[s]
  <2>1. Due = {}
    BY <1>3 DEF Due
  <2>2. PICK m \in Int : S!RoundRobin = single + m * nbServices
    <3>1. Cardinality(Due) = 0 /\ S!RoundRobin + 0 = S!RoundRobin
      BY <1>1, <2>1, FS_EmptySet
    <3> QED BY <1>1, <3>1, Zenon DEF Balanced
  <2>3. PICK q \in Nat : single = q * nbServices
    <3>1. single \in Nat
      BY <1>1 DEF TurnsTyped
    <3>2. PICK q \in Nat, z \in 0 .. nbServices - 1 :
            single = q * nbServices + z /\ single % nbServices = z
      BY <1>1, <3>1, Division
    <3> QED BY <3>2, <1>3, <1>1
  <2>4. S!RoundRobin = (q + m) * nbServices
    BY <1>1, <2>2, <2>3
  <2>5. S!RoundRobin = 0
    <3> DEFINE r0 == S!RoundRobin
    <3>1. r0 = (q + m) * nbServices + 0 /\ r0 = 0 * nbServices + r0 /\ q + m \in Int
      BY <1>1, <2>4
    <3>2. r0 \in Nat /\ 0 \in 0 .. nbServices - 1
      BY <1>1
    <3>3. r0 % nbServices = 0 /\ r0 % nbServices = r0
      BY <3>1, <3>2, <1>1, RemainderIs
    <3> QED BY <3>3
  <2> QED BY <1>1, <2>5, EvenlyIsFair
<1> QED BY <1>2, <1>3

-------------------------------------------------------------------------------
(* The topologies and their cores *)

Core == [topology : Topologies, place : Nat]

CoresTyped ==
  /\ alive \subseteq Objects /\ assigned \subseteq alive
  /\ used \subseteq Topologies /\ leaked \subseteq used
  /\ topology \in [Objects -> used \cup {A!NoTopology}]
  /\ opt \in [Objects -> A!Kinds]
  /\ nbCores \in [Objects -> Nat]
  /\ cores \in [Objects -> Seq(Core)]

\* Only an object that exists owns a topology, of its own and none that was leaked.
Owned ==
  /\ \A o \in Objects \ alive : topology[o] = A!NoTopology
  /\ \A o \in Objects : topology[o] \notin leaked
  /\ \A o, p \in Objects : topology[o] = topology[p] /\ topology[o] # A!NoTopology => o = p
  /\ \A t : t \in live <=>
       t \in leaked \/ (t # A!NoTopology /\ \E o \in Objects : topology[o] = t)

\* What an object that was not assigned to hands out are the cores of its topology.
Handed ==
  \A o \in alive \ assigned : topology[o] # A!NoTopology =>
    cores[o] = A!CoresOf(topology[o], opt[o]) /\ nbCores[o] = NbCores[opt[o]]

CoresInv == CoresTyped /\ Owned /\ Handed

NextCore(o) ==
  \/ \E kind \in A!Kinds : A!Construct(o, kind)
  \/ \E from \in Objects : \/ A!MoveConstruct(o, from) \/ A!MoveAssign(o, from)
                           \/ A!CopyConstruct(o, from) \/ A!CopyAssign(o, from)
  \/ A!Destroy(o)
  \/ A!SetAffinity(o)

LEMMA CoresOfType ==
  ASSUME NEW t \in Topologies, NEW kind \in A!Kinds
  PROVE  /\ A!CoresOf(t, kind) \in Seq(Core)
         /\ Len(A!CoresOf(t, kind)) = NbCores[kind] /\ NbCores[kind] \in Nat \ {0}
<1>1. NbCores[kind] \in Nat \ {0}
  BY ThreadAssumption DEF A!Kinds
<1> DEFINE row == [k \in 1 .. NbCores[kind] |-> [topology |-> t, place |-> k - 1]]
<1>2. \A k \in 1 .. NbCores[kind] : [topology |-> t, place |-> k - 1] \in Core
  BY <1>1 DEF Core
<1>3. row \in [1 .. NbCores[kind] -> Core]
  BY <1>2
<1>4. DOMAIN row = 1 .. NbCores[kind]
  OBVIOUS
<1> HIDE DEF row
<1>5. row \in Seq(Core) /\ Len(row) = NbCores[kind]
  BY <1>1, <1>3, <1>4
<1> QED BY <1>1, <1>5 DEF A!CoresOf, row

LEMMA CoresBehind ==
  ASSUME NEW t \in Topologies, NEW kind \in A!Kinds, NEW has \in Seq(Core)
  PROVE  has \o A!CoresOf(t, kind) \in Seq(Core)
BY CoresOfType, ConcatProperties

LEMMA FirstCores ==
  ASSUME NEW t \in Topologies, NEW kind \in A!Kinds
  PROVE  <<>> \in Seq(Core) /\ <<>> \o A!CoresOf(t, kind) = A!CoresOf(t, kind)
BY CoresOfType, EmptySeq, ConcatEmptySeq

LEMMA MadeIsNew ==
  ASSUME CoresTyped, used # Topologies, NEW t \in Topologies, A!Make(t)
  PROVE  t \notin used /\ t # A!NoTopology
<1>1. \E u \in Topologies : u \notin used
  BY DEF CoresTyped
<1>2. t \notin used
  BY <1>1 DEF A!Make
<1> QED BY <1>2, ThreadAssumption DEF A!NoTopology

LEMMA InitCores == A!Init => CoresInv
<1> SUFFICES ASSUME A!Init PROVE CoresInv
  OBVIOUS
<1>1. CoresTyped
  BY EmptySeq DEF A!Init, CoresTyped, A!Kinds
<1>2. Owned
  BY DEF A!Init, Owned
<1>3. Handed
  BY DEF A!Init, Handed
<1> QED BY <1>1, <1>2, <1>3 DEF CoresInv

\* An object that did not exist gets a topology that did not.
LEMMA MakeOwned ==
  ASSUME CoresInv, NEW o \in Objects \ alive, NEW t \in Topologies, used # Topologies, A!Make(t),
         topology' = [topology EXCEPT ![o] = t], alive' = alive \cup {o}, leaked' = leaked
  PROVE  Owned'
<1>1. t \notin used /\ t # A!NoTopology /\ live' = live \cup {t}
  BY MadeIsNew DEF CoresInv, A!Make
<1>2. \A p \in Objects : topology'[p] = IF p = o THEN t ELSE topology[p]
  BY DEF CoresInv, CoresTyped
<1>3. \A p \in Objects : topology[p] # t
  BY <1>1 DEF CoresInv, CoresTyped
<1>4. topology[o] = A!NoTopology
  BY DEF CoresInv, Owned
<1>5. \A u : u \in live' <=> u \in live \/ u = t
  BY <1>1
<1>6. t \notin leaked
  BY <1>1 DEF CoresInv, CoresTyped
<1> QED BY <1>1, <1>2, <1>3, <1>4, <1>5, <1>6 DEF CoresInv, Owned

LEMMA TakeOwned ==
  ASSUME CoresInv, NEW o \in Objects, NEW from \in alive, o # from, topology[from] # A!NoTopology,
         topology' = A!Taken(o, from), live' = live, alive' = alive \cup {o},
         leaked' = leaked \cup ({topology[o]} \ {A!NoTopology})
  PROVE  Owned'
<1>1. \A p \in Objects : topology'[p] = IF p = from THEN A!NoTopology
                                        ELSE IF p = o THEN topology[from] ELSE topology[p]
  BY DEF CoresInv, CoresTyped, A!Taken
<1>2. from \in Objects
  BY DEF CoresInv, CoresTyped
<1>3. A!NoTopology \notin leaked
  BY ThreadAssumption DEF CoresInv, CoresTyped, A!NoTopology
<1>4. \A t : t \in leaked' <=> t \in leaked \/ (t = topology[o] /\ t # A!NoTopology)
  OBVIOUS
<1>5. \A p \in Objects \ alive' : topology'[p] = A!NoTopology
  BY <1>1 DEF CoresInv, Owned
<1>6. \A p \in Objects : topology'[p] \notin leaked'
  BY <1>1, <1>2, <1>3, <1>4 DEF CoresInv, Owned
<1>7. \A p, q \in Objects : topology'[p] = topology'[q] /\ topology'[p] # A!NoTopology => p = q
  BY <1>1, <1>2 DEF CoresInv, Owned
<1>8. \A t : t \in live' <=>
       t \in leaked' \/ (t # A!NoTopology /\ \E p \in Objects : topology'[p] = t)
  <2>1. SUFFICES ASSUME NEW t, t # A!NoTopology
                 PROVE  t \in live <=> t \in leaked' \/ \E p \in Objects : topology'[p] = t
    BY <1>3, <1>4 DEF CoresInv, Owned
  <2>2. (\E p \in Objects : topology'[p] = t) <=> (\E p \in Objects \ {o} : topology[p] = t)
    BY <1>1, <1>2, <2>1
  <2> QED BY <1>2, <1>4, <2>1, <2>2 DEF CoresInv, Owned
<1> QED BY <1>5, <1>6, <1>7, <1>8 DEF Owned

LEMMA DropOwned ==
  ASSUME CoresInv, NEW o \in alive, live' = live \ {topology[o]}, alive' = alive \ {o},
         topology' = [topology EXCEPT ![o] = A!NoTopology], leaked' = leaked
  PROVE  Owned'
<1>1. o \in Objects /\ \A p \in Objects : topology'[p] = IF p = o THEN A!NoTopology ELSE topology[p]
  BY DEF CoresInv, CoresTyped
<1>2. A!NoTopology \notin leaked
  BY ThreadAssumption DEF CoresInv, CoresTyped, A!NoTopology
<1>3. \A t : t \in live' <=> t \in live /\ t # topology[o]
  OBVIOUS
<1> QED BY <1>1, <1>2, <1>3 DEF CoresInv, Owned

\* An assignment leaks the topology of the object it replaces.
LEMMA CopyAssignOwned ==
  ASSUME CoresInv, NEW o \in alive, NEW t \in Topologies, used # Topologies, A!Make(t),
         topology' = [topology EXCEPT ![o] = t], alive' = alive,
         leaked' = leaked \cup ({topology[o]} \ {A!NoTopology})
  PROVE  Owned'
<1>1. t \notin used /\ t # A!NoTopology /\ live' = live \cup {t}
  BY MadeIsNew DEF CoresInv, A!Make
<1>2. o \in Objects /\ \A p \in Objects : topology'[p] = IF p = o THEN t ELSE topology[p]
  BY DEF CoresInv, CoresTyped
<1>3. (\A p \in Objects : topology[p] # t) /\ t \notin leaked /\ A!NoTopology \notin leaked
  BY <1>1, ThreadAssumption DEF CoresInv, CoresTyped, A!NoTopology
<1>4. \A u : u \in leaked' <=> u \in leaked \/ (u = topology[o] /\ u # A!NoTopology)
  OBVIOUS
<1>5. \A p \in Objects : topology'[p] \notin leaked'
  BY <1>1, <1>2, <1>3, <1>4 DEF CoresInv, Owned
<1>6. \A p, q \in Objects : topology'[p] = topology'[q] /\ topology'[p] # A!NoTopology => p = q
  BY <1>2, <1>3 DEF CoresInv, Owned
<1>7. \A u : u \in live' <=>
       u \in leaked' \/ (u # A!NoTopology /\ \E p \in Objects : topology'[p] = u)
  <2>1. \A u : (\E p \in Objects : topology'[p] = u) <=>
                 u = t \/ \E p \in Objects \ {o} : topology[p] = u
    BY <1>2
  <2>2. \A u : u \in live' <=> u \in live \/ u = t
    BY <1>1
  <2> QED BY <1>1, <1>2, <1>3, <1>4, <2>1, <2>2 DEF CoresInv, Owned
<1> QED BY <1>2, <1>5, <1>6, <1>7 DEF CoresInv, Owned

LEMMA ConstructCores ==
  ASSUME CoresInv, NEW o \in Objects, NEW kind \in A!Kinds, A!Construct(o, kind)
  PROVE  CoresInv'
<1>1. PICK t \in Topologies : /\ A!Make(t) /\ topology' = [topology EXCEPT ![o] = t]
                              /\ A!GetCores(o, kind, t, <<>>)
  BY DEF A!Construct
<1>2. /\ o \notin alive /\ used # Topologies /\ alive' = alive \cup {o} /\ assigned' = assigned
      /\ leaked' = leaked /\ used' = used \cup {t} /\ CoresTyped
  BY <1>1 DEF A!Construct, A!Dispatcher, A!Make, CoresInv
<1>3. opt' = [opt EXCEPT ![o] = kind] /\ nbCores' = [nbCores EXCEPT ![o] = NbCores[kind]]
      /\ cores' = [cores EXCEPT ![o] = A!CoresOf(t, kind)]
  BY <1>1, FirstCores DEF A!GetCores
<1>4. CoresTyped'
  BY <1>1, <1>2, <1>3, CoresOfType DEF CoresTyped
<1>5. Owned'
  BY <1>1, <1>2, MakeOwned
<1>6. Handed'
  BY <1>1, <1>2, <1>3 DEF CoresTyped, CoresInv, Handed
<1> QED BY <1>4, <1>5, <1>6 DEF CoresInv

LEMMA CopyConstructCores ==
  ASSUME CoresInv, NEW o \in Objects, NEW from \in Objects, A!CopyConstruct(o, from)
  PROVE  CoresInv'
<1> DEFINE kind == opt[from]
<1>1. PICK t \in Topologies : /\ A!Make(t) /\ topology' = [topology EXCEPT ![o] = t]
                              /\ A!GetCores(o, kind, t, <<>>)
  BY DEF A!CopyConstruct
<1>2. /\ o \notin alive /\ used # Topologies /\ alive' = alive \cup {o}
      /\ assigned' = A!Inherited(o, from)
      /\ leaked' = leaked /\ used' = used \cup {t} /\ CoresTyped /\ kind \in A!Kinds
  BY <1>1 DEF A!CopyConstruct, A!Dispatcher, A!Make, CoresInv, CoresTyped
<1>3. opt' = [opt EXCEPT ![o] = kind] /\ nbCores' = [nbCores EXCEPT ![o] = NbCores[kind]]
      /\ cores' = [cores EXCEPT ![o] = A!CoresOf(t, kind)]
  BY <1>1, <1>2, FirstCores DEF A!GetCores
<1> HIDE DEF kind
<1>4. CoresTyped'
  BY <1>1, <1>2, <1>3, CoresOfType DEF CoresTyped, A!Inherited
<1>5. Owned'
  BY <1>1, <1>2, MakeOwned
<1>6. Handed'
  BY <1>1, <1>2, <1>3 DEF CoresTyped, CoresInv, Handed, A!Inherited
<1> QED BY <1>4, <1>5, <1>6 DEF CoresInv

LEMMA MoveConstructCores ==
  ASSUME CoresInv, NEW o \in Objects, NEW from \in Objects, A!MoveConstruct(o, from)
  PROVE  CoresInv'
<1> DEFINE kind == opt[from]
           t == topology[from]
<1>1. /\ o \notin alive /\ from \in alive /\ o # from /\ t # A!NoTopology
      /\ topology[o] = A!NoTopology /\ CoresTyped /\ t \in Topologies /\ kind \in A!Kinds
  BY DEF A!MoveConstruct, A!Usable, CoresInv, CoresTyped, Owned
<1>2. /\ alive' = alive \cup {o} /\ assigned' = A!Inherited(o, from)
      /\ UNCHANGED <<leaked, used, live>>
  BY DEF A!MoveConstruct, A!Dispatcher
<1>3. /\ topology' = A!Taken(o, from)
      /\ opt' = [opt EXCEPT ![o] = kind]
      /\ nbCores' = [nbCores EXCEPT ![o] = NbCores[kind], ![from] = 0]
      /\ cores' = [cores EXCEPT ![o] = A!CoresOf(t, kind)]
  BY <1>1, FirstCores DEF A!MoveConstruct, A!MovedMembers
<1>4. topology' = [topology EXCEPT ![o] = t, ![from] = A!NoTopology]
  BY <1>3 DEF A!Taken
<1>5. Owned'
  BY <1>1, <1>2, <1>3, TakeOwned
<1>6. t \in used /\ NbCores[kind] \in Nat /\ A!CoresOf(t, kind) \in Seq(Core)
  BY <1>1, CoresOfType DEF CoresTyped
<1> HIDE DEF kind, t
<1>7. CoresTyped'
  <2>1. topology' \in [Objects -> used' \cup {A!NoTopology}]
    BY <1>1, <1>2, <1>4, <1>6 DEF CoresTyped
  <2>2. opt' \in [Objects -> A!Kinds] /\ nbCores' \in [Objects -> Nat] /\ cores' \in [Objects -> Seq(Core)]
    BY <1>1, <1>3, <1>6 DEF CoresTyped
  <2> QED BY <1>1, <1>2, <2>1, <2>2 DEF CoresTyped, A!Inherited
<1>8. Handed'
  BY <1>1, <1>2, <1>3, <1>4 DEF CoresTyped, CoresInv, Handed, A!Inherited
<1> QED BY <1>5, <1>7, <1>8 DEF CoresInv

LEMMA MoveAssignCores ==
  ASSUME CoresInv, NEW o \in Objects, NEW from \in Objects, A!MoveAssign(o, from)
  PROVE  CoresInv'
<1> DEFINE kind == opt[from]
           t == topology[from]
           has == cores[o]
<1>1. /\ o \in alive /\ from \in alive /\ o # from /\ t # A!NoTopology
      /\ CoresTyped /\ t \in Topologies /\ kind \in A!Kinds /\ has \in Seq(Core)
  BY DEF A!MoveAssign, A!Usable, CoresInv, CoresTyped
<1>2. /\ UNCHANGED <<alive, used, live>> /\ assigned' = assigned \cup {o}
      /\ leaked' = leaked \cup ({topology[o]} \ {A!NoTopology})
  BY DEF A!MoveAssign, A!Leak
<1>3. /\ topology' = A!Taken(o, from)
      /\ opt' = [opt EXCEPT ![o] = kind]
      /\ nbCores' = [nbCores EXCEPT ![o] = NbCores[kind], ![from] = 0]
      /\ cores' = [cores EXCEPT ![o] = has \o A!CoresOf(t, kind)]
  BY DEF A!MoveAssign, A!MovedMembers
<1>4. topology' = [topology EXCEPT ![o] = t, ![from] = A!NoTopology]
  BY <1>3 DEF A!Taken
<1>5. Owned'
  <2>1. alive' = alive \cup {o}
    BY <1>1, <1>2
  <2> QED BY <2>1, <1>1, <1>2, <1>3, TakeOwned
<1>6. /\ t \in used /\ NbCores[kind] \in Nat /\ has \o A!CoresOf(t, kind) \in Seq(Core)
      /\ leaked' \subseteq used
  BY <1>1, <1>2, CoresOfType, CoresBehind DEF CoresTyped
<1> HIDE DEF kind, t, has
<1>7. CoresTyped'
  <2>1. topology' \in [Objects -> used' \cup {A!NoTopology}]
    BY <1>1, <1>2, <1>4, <1>6 DEF CoresTyped
  <2>2. opt' \in [Objects -> A!Kinds] /\ nbCores' \in [Objects -> Nat] /\ cores' \in [Objects -> Seq(Core)]
    BY <1>1, <1>3, <1>6 DEF CoresTyped
  <2> QED BY <1>1, <1>2, <1>6, <2>1, <2>2 DEF CoresTyped
<1>8. Handed'
  BY <1>1, <1>2, <1>3, <1>4 DEF CoresTyped, CoresInv, Handed
<1> QED BY <1>5, <1>7, <1>8 DEF CoresInv

LEMMA CopyAssignCores ==
  ASSUME CoresInv, NEW o \in Objects, NEW from \in Objects, A!CopyAssign(o, from)
  PROVE  CoresInv'
<1>1. PICK t \in Topologies : A!Make(t) /\ topology' = [topology EXCEPT ![o] = t]
  BY DEF A!CopyAssign
<1>2. /\ o \in alive /\ from \in alive /\ used # Topologies /\ CoresTyped
      /\ UNCHANGED <<alive, cores>> /\ assigned' = assigned \cup {o} /\ used' = used \cup {t}
      /\ leaked' = leaked \cup ({topology[o]} \ {A!NoTopology})
      /\ opt' = [opt EXCEPT ![o] = opt[from]] /\ nbCores' = [nbCores EXCEPT ![o] = nbCores[from]]
  BY <1>1 DEF A!CopyAssign, A!Usable, A!Leak, A!Make, CoresInv
<1>3. Owned'
  BY <1>1, <1>2, CopyAssignOwned
<1>4. CoresTyped'
  <2>1. topology[o] \in used \cup {A!NoTopology} /\ leaked' \subseteq used'
    BY <1>2 DEF CoresTyped
  <2>2. topology' \in [Objects -> used' \cup {A!NoTopology}]
    BY <1>1, <1>2 DEF CoresTyped
  <2>3. opt' \in [Objects -> A!Kinds] /\ nbCores' \in [Objects -> Nat]
    BY <1>2 DEF CoresTyped
  <2> QED BY <1>1, <1>2, <2>1, <2>2, <2>3 DEF CoresTyped
<1>5. Handed'
  BY <1>1, <1>2 DEF CoresTyped, CoresInv, Handed
<1> QED BY <1>3, <1>4, <1>5 DEF CoresInv

LEMMA DestroyCores ==
  ASSUME CoresInv, NEW o \in Objects, A!Destroy(o)
  PROVE  CoresInv'
<1>1. /\ o \in alive /\ alive' = alive \ {o} /\ assigned' = assigned \ {o}
      /\ live' = live \ {topology[o]} /\ UNCHANGED <<leaked, used>> /\ CoresTyped
      /\ topology' = [topology EXCEPT ![o] = A!NoTopology]
      /\ opt' = [opt EXCEPT ![o] = "PHYSICAL"] /\ nbCores' = [nbCores EXCEPT ![o] = 0]
      /\ cores' = [cores EXCEPT ![o] = <<>>]
  BY DEF A!Destroy, A!Dispatcher, CoresInv
<1>2. Owned'
  BY <1>1, DropOwned
<1>3. CoresTyped'
  BY <1>1, EmptySeq DEF CoresTyped, A!Kinds
<1>4. Handed'
  BY <1>1 DEF CoresTyped, CoresInv, Handed
<1> QED BY <1>2, <1>3, <1>4 DEF CoresInv

LEMMA NextCores == CoresInv /\ [A!Next]_affinity => CoresInv'
<1> SUFFICES ASSUME CoresInv, [A!Next]_affinity PROVE CoresInv'
  OBVIOUS
<1>1. ASSUME UNCHANGED <<alive, A!members, used, live, assigned, leaked>> PROVE CoresInv'
  BY <1>1 DEF CoresInv, CoresTyped, Owned, Handed, A!members
<1>2. CASE UNCHANGED affinity
  BY <1>1, <1>2 DEF affinity, A!members
<1>3. ASSUME NEW o \in Objects, A!SetAffinity(o) PROVE CoresInv'
  BY <1>1, <1>3 DEF A!SetAffinity
<1>4. CASE A!Next
  <2>1. PICK o \in Objects : NextCore(o)
    BY <1>4 DEF A!Next, NextCore
  <2> QED BY <2>1, <1>3, ConstructCores, CopyConstructCores, MoveConstructCores, MoveAssignCores,
             CopyAssignCores, DestroyCores DEF NextCore
<1> QED BY <1>2, <1>4

LEMMA CoresFollow == CoresInv => CoresAreOwned
<1> SUFFICES ASSUME CoresInv PROVE A!CoresAreOwned
  BY DEF CoresAreOwned
<1>1. CoresTyped /\ Owned /\ Handed
  BY DEF CoresInv
<1>2. \A t : t \in {topology[o] : o \in {p \in alive : A!Usable(p)}}
              <=> t # A!NoTopology /\ \E o \in Objects : topology[o] = t
  BY <1>1 DEF CoresTyped, Owned, A!Usable
<1>3. live = leaked \cup {topology[o] : o \in {p \in alive : A!Usable(p)}}
  <2>1. A!NoTopology \notin leaked
    BY <1>1, ThreadAssumption DEF CoresTyped, A!NoTopology
  <2> QED BY <1>1, <1>2, <2>1 DEF Owned
<1>4. ASSUME NEW o \in alive \ assigned, A!Usable(o)
      PROVE  /\ topology[o] \notin leaked
             /\ \A p \in alive \ {o} : topology[p] # topology[o]
             /\ cores[o] = A!CoresOf(topology[o], opt[o])
             /\ nbCores[o] = Len(cores[o]) /\ nbCores[o] > 0
  <2>1. o \in Objects /\ topology[o] # A!NoTopology /\ topology[o] \in Topologies /\ opt[o] \in A!Kinds
    BY <1>1, <1>4 DEF CoresTyped, A!Usable
  <2>2. topology[o] \notin leaked /\ \A p \in alive \ {o} : topology[p] # topology[o]
    BY <1>1, <2>1 DEF CoresTyped, Owned
  <2>3. cores[o] = A!CoresOf(topology[o], opt[o]) /\ nbCores[o] = NbCores[opt[o]]
    BY <1>1, <2>1 DEF Handed
  <2> QED BY <2>1, <2>2, <2>3, CoresOfType
<1> QED BY <1>3, <1>4 DEF A!CoresAreOwned

-------------------------------------------------------------------------------
(* Binding the threads to the cores *)

SpreadTyped ==
  /\ currentCore \in [Objects -> 0 .. MaxThreads]
  /\ bound \in [Objects -> [0 .. MaxThreads -> Nat]]

\* The dispatcher dealt its threads out to n cores, and is where its counter says.
Dealt(count, n, counter) ==
  /\ Evenly(count, n, counter % n)
  /\ \A k \in n .. MaxThreads : count[k] = 0

Spread ==
  \A o \in alive \ assigned : topology[o] # A!NoTopology =>
    Dealt(bound[o], NbCores[opt[o]], currentCore[o])

SpreadInv == CoresInv /\ SpreadTyped /\ Spread

LEMMA DealtNone ==
  ASSUME NEW kind \in A!Kinds
  PROVE  Dealt(A!NoThread, NbCores[kind], 0)
<1>1. NbCores[kind] \in 1 .. MaxThreads /\ MaxThreads \in Nat
  BY ThreadAssumption DEF A!Kinds
<1> DEFINE n == NbCores[kind]
<1>2. 0 % n = 0
  BY <1>1
<1>3. \A k \in 0 .. MaxThreads : A!NoThread[k] = 0
  BY DEF A!NoThread
<1>4. Evenly(A!NoThread, n, 0)
  <2>1. \A k \in 0 .. n - 1 : A!NoThread[k] = 0 + (IF k < 0 THEN 1 ELSE 0)
    BY <1>1, <1>3
  <2>2. 0 \in Nat
    OBVIOUS
  <2> QED BY <2>1, <2>2, Zenon DEF Evenly
<1>5. \A k \in n .. MaxThreads : A!NoThread[k] = 0
  BY <1>1, <1>3
<1> QED BY <1>2, <1>4, <1>5 DEF Dealt

LEMMA InitSpread == A!Init => SpreadInv
<1> SUFFICES ASSUME A!Init PROVE SpreadInv
  OBVIOUS
<1>1. SpreadTyped
  BY ThreadAssumption DEF A!Init, SpreadTyped, A!NoThread
<1>2. Spread
  BY DEF A!Init, Spread
<1> QED BY <1>1, <1>2, InitCores DEF SpreadInv

\* One more thread
LEMMA BindSpread ==
  ASSUME SpreadInv, NEW o \in Objects, A!SetAffinity(o)
  PROVE  SpreadTyped' /\ Spread'
<1> DEFINE n == NbCores[opt[o]]
           p == currentCore[o] % n
<1>1. /\ o \in alive \ assigned /\ topology[o] # A!NoTopology
      /\ UNCHANGED <<alive, topology, opt, assigned>>
      /\ currentCore' = [currentCore EXCEPT ![o] = @ + 1]
      /\ bound' = [bound EXCEPT ![o][A!Chosen(o)] = @ + 1] /\ currentCore[o] < MaxThreads
  BY DEF A!SetAffinity, A!Usable, A!Bind, A!members
<1>2. /\ nbCores[o] = n /\ n \in 1 .. MaxThreads /\ MaxThreads \in Nat /\ n \in Nat \ {0}
      /\ currentCore[o] \in Nat /\ bound[o] \in [0 .. MaxThreads -> Nat]
      /\ Dealt(bound[o], n, currentCore[o])
  <2>1. nbCores[o] = n /\ opt[o] \in A!Kinds
    BY <1>1 DEF SpreadInv, CoresInv, CoresTyped, Handed
  <2>2. n \in 1 .. MaxThreads /\ MaxThreads \in Nat /\ n \in Nat \ {0}
    BY <2>1, ThreadAssumption DEF A!Kinds
  <2> QED BY <1>1, <2>1, <2>2 DEF SpreadInv, SpreadTyped, Spread
<1>3. p = A!Chosen(o) /\ p \in 0 .. n - 1 /\ p \in 0 .. MaxThreads
  <2>1. p = A!Chosen(o)
    BY <1>2 DEF A!Chosen
  <2>2. p \in 0 .. n - 1
    BY <1>2, Division
  <2> HIDE DEF p, n
  <2> QED BY <1>2, <2>1, <2>2
<1>4. (currentCore[o] + 1) % n = OneOn(p, n)
  <2>1. \A r : currentCore[o] % n = r => (currentCore[o] + 1) % n = OneOn(r, n)
    BY <1>2, NextRemainder, Zenon
  <2> QED BY <2>1, Zenon
<1>5. bound' = [bound EXCEPT ![o] = [bound[o] EXCEPT ![p] = @ + 1]]
  <2> HIDE DEF p, n
  <2> QED BY <1>1, <1>3
<1> DEFINE g == [bound[o] EXCEPT ![p] = @ + 1]
<1>6. /\ g \in [0 .. MaxThreads -> Nat]
      /\ \A k \in 0 .. MaxThreads : g[k] = IF k = p THEN bound[o][k] + 1 ELSE bound[o][k]
  <2> HIDE DEF p, n
  <2> QED BY <1>2, <1>3
<1>7. Dealt(g, n, currentCore[o] + 1)
  <2> HIDE DEF n, g, p
  <2>1. Evenly(bound[o], n, p) /\ \A k \in n .. MaxThreads : bound[o][k] = 0
    BY <1>2 DEF Dealt, p
  <2>2. \A k \in 0 .. n - 1 : g[k] = IF k = p THEN bound[o][k] + 1 ELSE bound[o][k]
    BY <1>2, <1>6
  <2>3. Evenly(g, n, OneOn(p, n))
    BY <1>2, <1>3, <2>1, <2>2, EvenlyOn
  <2>4. \A k \in n .. MaxThreads : g[k] = 0
    <3>1. \A k \in n .. MaxThreads : k \in 0 .. MaxThreads /\ k # p
      BY <1>2, <1>3
    <3> QED BY <1>6, <2>1, <3>1
  <2>5. Evenly(g, n, (currentCore[o] + 1) % n)
    BY <1>4, <2>3, Zenon
  <2> QED BY <2>4, <2>5, Zenon DEF Dealt
<1> HIDE DEF n, p, g
<1>8. SpreadTyped'
  <2>1. bound' \in [Objects -> [0 .. MaxThreads -> Nat]]
    BY <1>5, <1>6 DEF SpreadInv, SpreadTyped, g
  <2>2. currentCore' \in [Objects -> 0 .. MaxThreads]
    BY <1>1, <1>2 DEF SpreadInv, SpreadTyped
  <2> QED BY <2>1, <2>2 DEF SpreadTyped
<1>9. Spread'
  <2>1. bound'[o] = g /\ currentCore'[o] = currentCore[o] + 1
    BY <1>1, <1>5 DEF SpreadInv, SpreadTyped, g
  <2>2. \A q \in Objects \ {o} : bound'[q] = bound[q] /\ currentCore'[q] = currentCore[q]
    BY <1>1, <1>5 DEF SpreadInv, SpreadTyped
  <2>3. alive \subseteq Objects
    BY DEF SpreadInv, CoresInv, CoresTyped
  <2>4. SUFFICES ASSUME NEW q \in alive \ assigned, topology[q] # A!NoTopology
                 PROVE  Dealt(bound'[q], NbCores[opt[q]], currentCore'[q])
    BY <1>1 DEF Spread
  <2>5. CASE q = o
    BY <1>7, <2>1, <2>5 DEF n
  <2>6. CASE q # o
    BY <2>2, <2>3, <2>4, <2>6 DEF SpreadInv, Spread
  <2> QED BY <2>5, <2>6
<1> QED BY <1>8, <1>9

\* A dispatcher that is made begins anew, or goes on where the one it was made from is.
LEMMA MadeSpread ==
  ASSUME SpreadInv, NEW o \in Objects \ alive, NEW kind \in A!Kinds,
         NEW current \in 0 .. MaxThreads, NEW count \in [0 .. MaxThreads -> Nat],
         o \notin assigned' => Dealt(count, NbCores[kind], current),
         A!Dispatcher(o, current, count), alive' = alive \cup {o}, assigned \subseteq assigned',
         opt' = [opt EXCEPT ![o] = kind],
         \A q \in Objects \ {o} : topology'[q] = topology[q] \/ topology'[q] = A!NoTopology
  PROVE  SpreadTyped' /\ Spread'
<1>1. /\ currentCore' = [currentCore EXCEPT ![o] = current] /\ bound' = [bound EXCEPT ![o] = count]
      /\ SpreadTyped /\ opt \in [Objects -> A!Kinds] /\ alive \subseteq Objects
  BY DEF A!Dispatcher, SpreadInv, CoresInv, CoresTyped
<1>2. SpreadTyped'
  BY <1>1 DEF SpreadTyped
<1>3. Spread'
  <2>1. SUFFICES ASSUME NEW q \in alive' \ assigned', topology'[q] # A!NoTopology
                 PROVE  Dealt(bound'[q], NbCores[opt'[q]], currentCore'[q])
    BY DEF Spread
  <2>2. CASE q = o
    BY <1>1, <2>1, <2>2 DEF SpreadTyped
  <2>3. CASE q # o
    <3>1. q \in alive \ assigned /\ topology[q] # A!NoTopology
          /\ bound'[q] = bound[q] /\ opt'[q] = opt[q] /\ currentCore'[q] = currentCore[q]
      BY <1>1, <2>1, <2>3 DEF SpreadTyped
    <3> QED BY <3>1 DEF SpreadInv, Spread
  <2> QED BY <2>2, <2>3
<1> QED BY <1>2, <1>3

LEMMA NextSpread == SpreadInv /\ [A!Next]_affinity => SpreadInv'
<1> SUFFICES ASSUME SpreadInv, [A!Next]_affinity PROVE SpreadInv'
  OBVIOUS
<1>0. CoresInv'
  BY NextCores DEF SpreadInv
<1>1. /\ CoresTyped /\ Owned /\ SpreadTyped /\ Spread /\ alive \subseteq Objects
      /\ opt \in [Objects -> A!Kinds]
  BY DEF SpreadInv, CoresInv, CoresTyped
<1>2. \A from \in Objects : currentCore[from] \in 0 .. MaxThreads /\ opt[from] \in A!Kinds
                           /\ bound[from] \in [0 .. MaxThreads -> Nat]
  BY <1>1 DEF SpreadTyped
<1>3. 0 \in 0 .. MaxThreads /\ A!NoThread \in [0 .. MaxThreads -> Nat]
  BY ThreadAssumption DEF A!NoThread
<1>4. ASSUME NEW o \in Objects, NEW kind \in A!Kinds, A!Construct(o, kind)
      PROVE  SpreadTyped' /\ Spread'
  <2>1. /\ o \notin alive /\ alive' = alive \cup {o} /\ assigned' = assigned
        /\ A!Dispatcher(o, 0, A!NoThread)
    BY <1>4 DEF A!Construct
  <2>2. PICK t \in Topologies :
          topology' = [topology EXCEPT ![o] = t] /\ opt' = [opt EXCEPT ![o] = kind]
    BY <1>4 DEF A!Construct, A!GetCores
  <2>3. \A q \in Objects \ {o} : topology'[q] = topology[q]
    BY <1>1, <2>2 DEF CoresTyped
  <2> QED BY <1>3, <2>1, <2>2, <2>3, DealtNone, MadeSpread
<1>5. ASSUME NEW o \in Objects, NEW from \in alive, o \notin alive, topology[from] # A!NoTopology,
             A!Dispatcher(o, currentCore[from], bound[from]),
             alive' = alive \cup {o}, assigned' = A!Inherited(o, from),
             opt' = [opt EXCEPT ![o] = opt[from]],
             \A q \in Objects \ {o} : topology'[q] = topology[q] \/ topology'[q] = A!NoTopology
      PROVE  SpreadTyped' /\ Spread'
  <2>1. o \notin assigned' => Dealt(bound[from], NbCores[opt[from]], currentCore[from])
    BY <1>1, <1>5 DEF A!Inherited, Spread
  <2>2. assigned \subseteq assigned'
    BY <1>5 DEF A!Inherited
  <2> QED BY <1>1, <1>2, <1>5, <2>1, <2>2, MadeSpread
<1>6. ASSUME NEW o \in Objects, NEW from \in Objects, A!MoveConstruct(o, from)
      PROVE  SpreadTyped' /\ Spread'
  <2>1. topology' = [topology EXCEPT ![o] = topology[from], ![from] = A!NoTopology]
        /\ opt' = [opt EXCEPT ![o] = opt[from]]
    BY <1>6 DEF A!MoveConstruct, A!MovedMembers, A!Taken
  <2>2. \A q \in Objects \ {o} : topology'[q] = topology[q] \/ topology'[q] = A!NoTopology
    BY <1>1, <2>1 DEF CoresTyped
  <2> QED BY <1>5, <1>6, <2>1, <2>2 DEF A!MoveConstruct, A!Usable
<1>7. ASSUME NEW o \in Objects, NEW from \in Objects, A!CopyConstruct(o, from)
      PROVE  SpreadTyped' /\ Spread'
  <2>1. PICK t \in Topologies :
          topology' = [topology EXCEPT ![o] = t] /\ opt' = [opt EXCEPT ![o] = opt[from]]
    BY <1>7 DEF A!CopyConstruct, A!GetCores
  <2>2. \A q \in Objects \ {o} : topology'[q] = topology[q]
    BY <1>1, <2>1 DEF CoresTyped
  <2> QED BY <1>5, <1>7, <2>1, <2>2 DEF A!CopyConstruct, A!Usable
<1>8. ASSUME NEW o \in Objects, NEW from \in Objects, A!MoveAssign(o, from) \/ A!CopyAssign(o, from)
      PROVE  SpreadTyped' /\ Spread'
  <2>1. /\ UNCHANGED <<alive, currentCore, bound>> /\ assigned' = assigned \cup {o}
        /\ opt' = [opt EXCEPT ![o] = opt[from]]
    BY <1>8 DEF A!MoveAssign, A!CopyAssign, A!MovedMembers, A!Leak
  <2>2. \A q \in Objects \ {o} : topology'[q] = topology[q] \/ topology'[q] = A!NoTopology
    BY <1>1, <1>8 DEF A!MoveAssign, A!CopyAssign, A!MovedMembers, A!Taken, CoresTyped
  <2> QED BY <1>1, <2>1, <2>2 DEF SpreadTyped, Spread
<1>9. ASSUME NEW o \in Objects, A!Destroy(o) PROVE SpreadTyped' /\ Spread'
  <2>1. /\ alive' = alive \ {o} /\ assigned' = assigned \ {o}
        /\ currentCore' = [currentCore EXCEPT ![o] = 0] /\ bound' = [bound EXCEPT ![o] = A!NoThread]
        /\ opt' = [opt EXCEPT ![o] = "PHYSICAL"]
        /\ topology' = [topology EXCEPT ![o] = A!NoTopology]
    BY <1>9 DEF A!Destroy, A!Dispatcher
  <2>2. SpreadTyped'
    BY <1>1, <1>3, <2>1 DEF SpreadTyped
  <2>3. \A q \in Objects \ {o} : /\ currentCore'[q] = currentCore[q] /\ bound'[q] = bound[q]
                                /\ opt'[q] = opt[q] /\ topology'[q] = topology[q]
    BY <1>1, <2>1 DEF SpreadTyped, CoresTyped
  <2> QED BY <1>1, <2>1, <2>2, <2>3 DEF Spread
<1>10. ASSUME UNCHANGED affinity PROVE SpreadTyped' /\ Spread'
  <2>1. UNCHANGED <<alive, assigned, topology, opt, currentCore, bound>>
    BY <1>10 DEF affinity
  <2> QED BY <1>1, <2>1 DEF SpreadTyped, Spread
<1>11. ASSUME A!Next PROVE SpreadTyped' /\ Spread'
  <2>1. PICK o \in Objects : NextCore(o)
    BY <1>11 DEF A!Next, NextCore
  <2> QED BY <2>1, <1>4, <1>6, <1>7, <1>8, <1>9, BindSpread DEF NextCore
<1> QED BY <1>0, <1>10, <1>11 DEF SpreadInv

LEMMA SpreadFollows == SpreadInv => ThreadsSpread
<1> SUFFICES ASSUME SpreadInv, NEW o \in alive \ assigned, A!Usable(o)
             PROVE  /\ \A k \in DOMAIN bound[o] : bound[o][k] > 0 => k < Len(cores[o])
                    /\ \A k, l \in 0 .. NbCores[opt[o]] - 1 : bound[o][k] <= bound[o][l] + 1
  BY DEF ThreadsSpread, A!ThreadsSpread
<1> DEFINE n == NbCores[opt[o]]
<1>1. /\ o \in Objects /\ topology[o] # A!NoTopology /\ topology[o] \in Topologies
      /\ opt[o] \in A!Kinds /\ currentCore[o] \in Nat /\ bound[o] \in [0 .. MaxThreads -> Nat]
      /\ cores[o] = A!CoresOf(topology[o], opt[o]) /\ Dealt(bound[o], n, currentCore[o])
  BY DEF SpreadInv, CoresInv, CoresTyped, Handed, SpreadTyped, Spread, A!Usable
<1>2. Len(cores[o]) = n /\ n \in Nat \ {0} /\ n \in 1 .. MaxThreads
  BY <1>1, CoresOfType, ThreadAssumption DEF A!Kinds
<1>3. Evenly(bound[o], n, currentCore[o] % n) /\ \A k \in n .. MaxThreads : bound[o][k] = 0
  BY <1>1 DEF Dealt
<1>4. currentCore[o] % n \in 0 .. n - 1
  BY <1>1, <1>2, Division
<1> HIDE DEF n
<1>5. ASSUME NEW k \in DOMAIN bound[o], bound[o][k] > 0 PROVE k < Len(cores[o])
  <2>1. k \in 0 .. MaxThreads /\ ~(k \in n .. MaxThreads) /\ MaxThreads \in Nat
    BY <1>1, <1>3, <1>5, ThreadAssumption
  <2> QED BY <1>2, <2>1
<1>6. \A k, l \in 0 .. n - 1 : bound[o][k] <= bound[o][l] + 1
  BY <1>2, <1>3, <1>4, EvenlyIsFair
<1> QED BY <1>5, <1>6 DEF n

-------------------------------------------------------------------------------
(* The time of a thread *)

\* What the thread has worked since start() is what its clock shows, and no more than has passed.
TimerInv ==
  /\ cpu \in [Threads -> [sec : Int, nsec : Int]]
  /\ result \in [cpu : Int, wall : Int, threw : BOOLEAN]
  /\ now \in Int /\ wall \in Int /\ gap \in Int /\ spent \in Int
  /\ clock # T!NoThread =>
       /\ clock \in Threads /\ start \in [sec : Int, nsec : Int]
       /\ spent = T!Difference(cpu[clock], start)
  /\ at \in {"ready", "elapsed"} => spent <= now - wall + gap
  /\ at = "start" => spent <= gap
  /\ at = "elapsed" => result.cpu <= now - wall + gap

LEMMA InitTimer == T!Init => TimerInv
BY DEF T!Init, TimerInv, T!Zero, T!Nothing

\* A nanosecond later, over the end of a second as well
LEMMA OneLater ==
  ASSUME NEW end \in [sec : Int, nsec : Int], NEW begin \in [sec : Int, nsec : Int], NEW later,
         later = IF end.nsec + 1 = NsPerSec THEN [sec |-> end.sec + 1, nsec |-> 0]
                 ELSE [end EXCEPT !.nsec = @ + 1]
  PROVE  /\ later \in [sec : Int, nsec : Int]
         /\ T!Difference(later, begin) = T!Difference(end, begin) + 1
<1>1. NsPerSec \in Int
  BY ThreadAssumption
<1>2. CASE end.nsec + 1 = NsPerSec
  <2>1. later = [sec |-> end.sec + 1, nsec |-> 0]
    BY <1>2
  <2>2. /\ end.sec \in Int /\ end.nsec \in Int /\ begin.sec \in Int /\ begin.nsec \in Int
        /\ later.sec = end.sec + 1 /\ later.nsec = 0 /\ later \in [sec : Int, nsec : Int]
    BY <2>1
  <2>3. NsPerSec * (end.sec + 1 - begin.sec) = NsPerSec * (end.sec - begin.sec) + NsPerSec
    BY <1>1, <2>2
  <2>4. NsPerSec * (end.sec - begin.sec) \in Int
    BY <1>1, <2>2
  <2> QED BY <1>1, <1>2, <2>2, <2>3, <2>4 DEF T!Difference
<1>3. CASE end.nsec + 1 # NsPerSec
  <2>1. later = [end EXCEPT !.nsec = @ + 1]
    BY <1>3
  <2>2. /\ end.sec \in Int /\ end.nsec \in Int /\ begin.sec \in Int /\ begin.nsec \in Int
        /\ later.sec = end.sec /\ later.nsec = end.nsec + 1 /\ later \in [sec : Int, nsec : Int]
    BY <2>1
  <2>3. NsPerSec * (end.sec - begin.sec) \in Int
    BY <1>1, <2>2
  <2> QED BY <2>2, <2>3 DEF T!Difference
<1> QED BY <1>2, <1>3

LEMMA DifferenceOfSame ==
  ASSUME NEW end \in [sec : Int, nsec : Int]
  PROVE  T!Difference(end, end) = 0
BY ThreadAssumption DEF T!Difference

LEMMA TickTimer ==
  ASSUME TimerInv, NEW ran \in SUBSET Threads, T!Tick(ran)
  PROVE  TimerInv'
<1>1. /\ now' = now + 1 /\ spent' = (IF clock \in ran THEN spent + 1 ELSE spent)
      /\ gap' = (IF at = "start" THEN gap + 1 ELSE gap)
      /\ UNCHANGED <<ended, clock, start, wall, at, result>>
  BY DEF T!Tick, T!timer
<1>2. \A t \in Threads :
        cpu'[t] = IF t \notin ran THEN cpu[t]
                  ELSE IF cpu[t].nsec + 1 = NsPerSec THEN [sec |-> cpu[t].sec + 1, nsec |-> 0]
                  ELSE [cpu[t] EXCEPT !.nsec = @ + 1]
  BY DEF T!Tick
<1>3. \A t \in Threads : cpu[t] \in [sec : Int, nsec : Int]
  BY DEF TimerInv
<1>4. \A t \in Threads : cpu'[t] \in [sec : Int, nsec : Int]
  <2>1. SUFFICES ASSUME NEW t \in Threads PROVE cpu'[t] \in [sec : Int, nsec : Int]
    OBVIOUS
  <2>3. CASE t \notin ran
    BY <1>2, <1>3, <2>3
  <2>4. CASE t \in ran
    BY <1>2, <1>3, <2>4, OneLater
  <2> QED BY <2>3, <2>4
<1>5. cpu' \in [Threads -> [sec : Int, nsec : Int]]
  <2>1. cpu' = [t \in Threads |-> cpu'[t]]
    BY DEF T!Tick
  <2> QED BY <1>4, <2>1
<1>6. ASSUME clock # T!NoThread
      PROVE  spent' = T!Difference(cpu'[clock], start)
  <2>1. clock \in Threads /\ start \in [sec : Int, nsec : Int] /\ spent = T!Difference(cpu[clock], start)
    BY <1>6 DEF TimerInv
  <2>2. CASE clock \in ran
    BY <1>1, <1>2, <1>3, <2>1, <2>2, OneLater
  <2>3. CASE clock \notin ran
    BY <1>1, <1>2, <2>1, <2>3
  <2> QED BY <2>2, <2>3
<1>7. /\ now' \in Int /\ wall' \in Int /\ gap' \in Int /\ spent' \in Int
      /\ result' \in [cpu : Int, wall : Int, threw : BOOLEAN]
      /\ at' \in {"ready", "elapsed"} => spent' <= now' - wall' + gap'
      /\ at' = "start" => spent' <= gap'
      /\ at' = "elapsed" => result'.cpu <= now' - wall' + gap'
  BY <1>1 DEF TimerInv
<1> QED BY <1>1, <1>5, <1>6, <1>7 DEF TimerInv

LEMMA NextTimerInv == TimerInv /\ [T!Next]_timer => TimerInv'
<1> SUFFICES ASSUME TimerInv, [T!Next]_timer PROVE TimerInv'
  OBVIOUS
<1>1. CASE UNCHANGED timer
  BY <1>1 DEF timer, TimerInv
<1>2. ASSUME NEW t \in Threads, T!End(t) PROVE TimerInv'
  BY <1>2 DEF T!End, T!timer, TimerInv
<1>3. ASSUME clock' # T!NoThread => clock' \in Threads /\ start' = cpu[clock'],
             spent' = 0, gap' = 0, at' = "start", UNCHANGED <<now, cpu, wall, result>>
      PROVE  TimerInv'
  <2>1. clock' # T!NoThread => T!Difference(cpu[clock'], start') = 0
                               /\ start' \in [sec : Int, nsec : Int]
    BY <1>3, DifferenceOfSame DEF TimerInv
  <2> QED BY <1>3, <2>1 DEF TimerInv
<1>4. ASSUME UNCHANGED <<now, cpu, clock, start, wall, at, spent, gap>>, at = "ready", T!Throw
      PROVE  TimerInv'
  <2>1. result' = [cpu |-> 0, wall |-> 0, threw |-> TRUE]
    BY <1>4 DEF T!Throw, T!Nothing
  <2>2. result' \in [cpu : Int, wall : Int, threw : BOOLEAN]
    BY <2>1
  <2> QED BY <1>4, <2>2 DEF TimerInv
<1>5. ASSUME NEW t \in Threads, NEW c \in Threads \cup {T!NoThread}, T!Construct(t, c)
      PROVE  TimerInv'
  <2>1. CASE c \in ended
    BY <1>4, <1>5, <2>1 DEF T!Construct
  <2>2. CASE c \notin ended
    BY <1>3, <1>5, <2>2 DEF T!Construct
  <2> QED BY <2>1, <2>2
<1>6. CASE T!Start
  <2>1. CASE clock \in ended
    BY <1>4, <1>6, <2>1 DEF T!Start
  <2>2. CASE clock \notin ended
    BY <1>3, <1>6, <2>2 DEF T!Start, TimerInv
  <2> QED BY <2>1, <2>2
<1>7. CASE T!StartWall
  BY <1>7 DEF T!StartWall, TimerInv
<1>8. CASE T!Elapsed
  <2>1. CASE clock \in ended
    BY <1>4, <1>8, <2>1 DEF T!Elapsed
  <2>2. CASE clock \notin ended
    <3>1. /\ UNCHANGED <<now, cpu, clock, start, wall, spent, gap>>
          /\ at = "ready" /\ at' = "elapsed" /\ clock # T!NoThread
          /\ result' = [T!Nothing EXCEPT !.cpu = T!Difference(cpu[clock], start)]
      BY <1>8, <2>2 DEF T!Elapsed
    <3>2. result' = [cpu |-> spent, wall |-> 0, threw |-> FALSE]
      BY <3>1 DEF TimerInv, T!Nothing
    <3>3. result' \in [cpu : Int, wall : Int, threw : BOOLEAN] /\ result'.cpu = spent
      BY <3>2 DEF TimerInv
    <3> QED BY <3>1, <3>3 DEF TimerInv
  <2> QED BY <2>1, <2>2
<1>9. CASE T!ElapsedWall
  <2>1. /\ UNCHANGED <<now, cpu, clock, start, wall, spent, gap>>
        /\ at = "elapsed" /\ at' = "ready" /\ result' = [result EXCEPT !.wall = now - wall]
    BY <1>9 DEF T!ElapsedWall
  <2>2. result' \in [cpu : Int, wall : Int, threw : BOOLEAN]
    BY <2>1 DEF TimerInv
  <2> QED BY <2>1, <2>2 DEF TimerInv
<1>10. ASSUME NEW ran \in SUBSET Threads, T!Tick(ran) PROVE TimerInv'
  BY <1>10, TickTimer
<1> QED BY <1>1, <1>2, <1>5, <1>6, <1>7, <1>8, <1>9, <1>10 DEF T!Next

\* Both readings, when elapsed() makes them
LEMMA TimerStep ==
  ASSUME TimerInv, [T!Next]_timer
  PROVE  /\ T!Elapsed => IF clock \in ended THEN result'.threw ELSE result'.cpu = spent
         /\ T!ElapsedWall => result'.cpu <= result'.wall + gap
<1>1. ASSUME T!Elapsed, clock \in ended PROVE result'.threw
  BY <1>1 DEF T!Elapsed, T!Throw, T!Nothing
<1>2. ASSUME T!Elapsed, clock \notin ended PROVE result'.cpu = spent
  BY <1>2 DEF T!Elapsed, T!Nothing, TimerInv
<1>3. ASSUME T!ElapsedWall PROVE result'.cpu <= result'.wall + gap
  <2>1. result' = [result EXCEPT !.wall = now - wall] /\ at = "elapsed"
    BY <1>3 DEF T!ElapsedWall
  <2> QED BY <2>1 DEF TimerInv
<1> QED BY <1>1, <1>2, <1>3

-------------------------------------------------------------------------------
(* The theorems.  A program uses one of the parts; the others stand still. *)

LEMMA PartsStep ==
  [Next]_vars => [S!Next]_selection /\ [A!Next]_affinity /\ [T!Next]_timer
BY DEF Next, NextSelection, NextAffinity, NextTimer, vars

\* CURRENT_SERVICE names the context of its thread on every running pool, whatever start()s
\* failed before, as long as they left whole rounds of handles.
THEOREM LookupCorrect == Spec => []LookupSurvivesFailedStart
<1>1. Init => LookupInv
  BY InitLookup DEF Init
<1>2. LookupInv /\ [Next]_vars => LookupInv'
  BY NextLookup, PartsStep
<1> QED BY <1>1, <1>2, LookupFollows, PTL DEF Spec

\* Round robin is fair for pools of every shape, any number of callers and any width of the
\* counter that the number of contexts divides, or that has not wrapped around.
THEOREM TurnsCorrect == Spec => []ContextsTakeTurns
<1>1. Init => TurnsInv
  BY InitTurns DEF Init
<1>2. TurnsInv /\ [Next]_vars => TurnsInv'
  BY NextTurns, PartsStep
<1> QED BY <1>1, <1>2, TurnsFollow, PTL DEF Spec

\* Every topology has one owner or was leaked by an assignment, and what an object hands out
\* is its topology's.
THEOREM CoresCorrect == Spec => []CoresAreOwned
<1>1. Init => CoresInv
  BY InitCores DEF Init
<1>2. CoresInv /\ [Next]_vars => CoresInv'
  BY NextCores, PartsStep
<1> QED BY <1>1, <1>2, CoresFollow, PTL DEF Spec

\* Threads are spread over the cores of a machine of any size.
THEOREM SpreadCorrect == Spec => []ThreadsSpread
<1>1. Init => SpreadInv
  BY InitSpread DEF Init
<1>2. SpreadInv /\ [Next]_vars => SpreadInv'
  BY NextSpread, PartsStep
<1> QED BY <1>1, <1>2, SpreadFollows, PTL DEF Spec

\* elapsed() gives the CPU time of the timer's thread since start(), for any number of threads
\* and any length of a second.
THEOREM TimerCorrect == Spec => MeasuresItsThread
<1>1. Init => TimerInv
  BY InitTimer DEF Init
<1>2. TimerInv /\ [Next]_vars => TimerInv'
  BY NextTimerInv, PartsStep
<1>3. TimerInv /\ [Next]_vars =>
        [/\ T!Elapsed => IF clock \in ended THEN result'.threw ELSE result'.cpu = spent
         /\ T!ElapsedWall => result'.cpu <= result'.wall + gap]_(T!vars)
  BY TimerStep, PartsStep
<1> QED BY <1>1, <1>2, <1>3, PTL DEF Spec, MeasuresItsThread, T!MeasuresItsThread
===============================================================================
