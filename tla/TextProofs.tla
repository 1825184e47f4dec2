------------------------------ MODULE TextProofs ------------------------------
(***************************************************************************)
(* What TLAPS proves of the operators on texts that the other modules are  *)
(* built from: texts put together of parts, the codecs of module Codec,    *)
(* for texts of any length, and the decimals of module Decimals.           *)
(*                                                                         *)
(* The operators are recursive functions.  A proof about one of them shows *)
(* that some function satisfies its definition, and that what it returns   *)
(* is a step of a chain; the inductions are over a set of numbers with a   *)
(* least element (Least, Upwards, Downwards).                              *)
(***************************************************************************)
EXTENDS Codec, Decimals, SequenceTheorems, WellFoundedInduction, TLAPS

-------------------------------------------------------------------------------
(* Induction *)

\* A nonempty set of numbers has a least element: induction over the numbers.
LEMMA Least == ASSUME NEW T, T \subseteq Nat, T # {} PROVE \E x \in T : \A y \in T : x <= y
<1>1. PICK x \in T : \A y \in T : ~ (<<y, x>> \in OpToRel(<,Nat))
  BY WFMin, NatLessThanWellFounded, Zenon
<1>2. \A y \in T : ~(y < x)
  BY <1>1, Zenon DEF OpToRel
<1> QED BY <1>2

\* Induction from m up to n, for what is true of the elements of T.
LEMMA Upwards ==
  ASSUME NEW m \in Int, NEW n \in Int, NEW T, m \in T,
         \A k \in m .. n - 1 : k \in T => k + 1 \in T
  PROVE  m .. n \subseteq T
<1> DEFINE Gaps == {d \in Nat : m + d \in m .. n /\ m + d \notin T}
<1> SUFFICES ASSUME Gaps # {} PROVE FALSE
  <2>1. ASSUME NEW k \in m .. n PROVE k - m \in Nat /\ m + (k - m) = k
    OBVIOUS
  <2> QED BY <2>1
<1>1. PICK d \in Gaps : \A e \in Gaps : d <= e
  BY Least, Zenon
<1>2. d # 0
  BY <1>1
<1>3. d - 1 \in Nat /\ m + (d - 1) \in m .. n - 1 /\ m + (d - 1) + 1 = m + d /\ ~(d <= d - 1)
  BY <1>1, <1>2
<1>4. m + (d - 1) \in T
  BY <1>1, <1>3
<1> QED BY <1>1, <1>3, <1>4

\* Induction from n down to m.
LEMMA Downwards ==
  ASSUME NEW m \in Int, NEW n \in Int, NEW T, n \in T,
         \A k \in m .. n - 1 : k + 1 \in T => k \in T
  PROVE  m .. n \subseteq T
<1> DEFINE Mirror == {d \in 0 .. n - m : n - d \in T}
<1>1. CASE n < m
  BY <1>1
<1>2. CASE ~(n < m)
  <2>1. 0 \in Mirror
    BY <1>2
  <2>2. ASSUME NEW d \in 0 .. (n - m) - 1, d \in Mirror PROVE d + 1 \in Mirror
    <3>1. n - (d + 1) \in m .. n - 1 /\ n - (d + 1) + 1 = n - d /\ n - d \in T
      BY <1>2, <2>2
    <3> QED BY <1>2, <3>1
  <2>3. 0 .. n - m \subseteq Mirror
    <3> HIDE DEF Mirror
    <3> QED BY <1>2, <2>1, <2>2, Upwards
  <2>4. ASSUME NEW k \in m .. n PROVE k \in T
    <3>1. n - k \in 0 .. n - m /\ n - (n - k) = k
      BY <1>2
    <3> QED BY <2>3, <3>1
  <2> QED BY <2>4
<1> QED BY <1>1, <1>2

\* h is defined by recursion: its value at 0, and how f gets each from the one before.
Climbs(h, S, a, n, f) ==
  h \in [0 .. n -> S] /\ h[0] = a /\ \A k \in 1 .. n : h[k] = f[k][h[k - 1]]

\* The same from its value at n down.
Descends(h, S, a, n, f) ==
  h \in [0 .. n -> S] /\ h[n] = a /\ \A k \in 0 .. n - 1 : h[k] = f[k][h[k + 1]]

LEMMA ClimbExists ==
  ASSUME NEW S, NEW a \in S, NEW n \in Nat, NEW f \in [1 .. n -> [S -> S]]
  PROVE  \E h : Climbs(h, S, a, n, f)
<1> DEFINE Upto(h, m) == /\ h \in [0 .. m -> S] /\ h[0] = a
                         /\ \A k \in 1 .. m : h[k] = f[k][h[k - 1]]
           T == {m \in 0 .. n : \E h : Upto(h, m)}
<1>1. 0 \in T
  <2> DEFINE h == [k \in 0 .. 0 |-> a]
  <2>1. h \in [0 .. 0 -> S] /\ h[0] = a /\ 1 .. 0 = {} /\ 0 \in 0 .. n
    OBVIOUS
  <2> HIDE DEF h
  <2>2. Upto(h, 0)
    BY <2>1
  <2> QED BY <2>1, <2>2
<1>2. ASSUME NEW m \in 0 .. n - 1, m \in T PROVE m + 1 \in T
  <2>1. PICK h : Upto(h, m)
    BY <1>2
  <2> DEFINE g == [k \in 0 .. m + 1 |-> IF k <= m THEN h[k] ELSE f[k][h[m]]]
  <2>2. m \in Nat /\ m + 1 \in 1 .. n /\ h[m] \in S
    BY <2>1
  <2>3. f[m + 1][h[m]] \in S
    BY <2>2
  <2>4. \A k \in 0 .. m : g[k] = h[k]
    BY <2>2
  <2>5. g[m + 1] = f[m + 1][h[m]]
    BY <2>2
  <2>6. g \in [0 .. m + 1 -> S]
    <3>1. ASSUME NEW k \in 0 .. m + 1 PROVE g[k] \in S
      <4>1. k \in 0 .. m \/ k = m + 1
        BY <2>2
      <4> QED BY <2>1, <2>3, <2>4, <2>5, <4>1
    <3> QED BY <3>1
  <2>7. ASSUME NEW k \in 1 .. m + 1 PROVE g[k] = f[k][g[k - 1]]
    <3>1. k \in 1 .. m \/ k = m + 1
      BY <2>2
    <3>2. k - 1 \in 0 .. m /\ (k \in 1 .. m => k \in 0 .. m) /\ (k = m + 1 => k - 1 = m)
      BY <2>2
    <3> HIDE DEF g
    <3> QED BY <2>1, <2>4, <2>5, <3>1, <3>2
  <2>8. g[0] = a
    <3> HIDE DEF g
    <3> QED BY <2>1, <2>2, <2>4
  <2>9. Upto(g, m + 1)
    <3> HIDE DEF g
    <3> QED BY <2>6, <2>7, <2>8
  <2> HIDE DEF Upto
  <2> QED BY <2>2, <2>9
<1>3. 0 .. n \subseteq T
  <2> HIDE DEF T
  <2> QED BY <1>1, <1>2, Upwards
<1>4. n \in T
  BY <1>3
<1> QED BY <1>4 DEF Climbs

LEMMA DescentExists ==
  ASSUME NEW S, NEW a \in S, NEW n \in Nat, NEW f \in [0 .. n - 1 -> [S -> S]]
  PROVE  \E h : Descends(h, S, a, n, f)
<1> DEFINE g == [k \in 1 .. n |-> f[n - k]]
<1>1. g \in [1 .. n -> [S -> S]] /\ \A k \in 1 .. n : g[k] = f[n - k]
  <2>1. \A k \in 1 .. n : n - k \in 0 .. n - 1
    OBVIOUS
  <2> QED BY <2>1
<1> HIDE DEF g
<1>2. PICK u : Climbs(u, S, a, n, g)
  BY <1>1, ClimbExists
<1> DEFINE h == [k \in 0 .. n |-> u[n - k]]
<1>3. u \in [0 .. n -> S] /\ u[0] = a /\ \A k \in 1 .. n : u[k] = g[k][u[k - 1]]
  BY <1>2 DEF Climbs
<1>4. \A k \in 0 .. n : n - k \in 0 .. n
  OBVIOUS
<1>5. h \in [0 .. n -> S] /\ h[n] = a
  <2>1. n \in 0 .. n /\ n - n = 0
    OBVIOUS
  <2>2. h[n] = u[n - n]
    BY <2>1
  <2>3. ASSUME NEW k \in 0 .. n PROVE u[n - k] \in S
    BY <1>3, <1>4
  <2>4. h \in [0 .. n -> S]
    BY <2>3
  <2> QED BY <1>3, <2>1, <2>2, <2>4
<1>6. ASSUME NEW k \in 0 .. n - 1 PROVE h[k] = f[k][h[k + 1]]
  <2>1. n - k \in 1 .. n /\ n - (k + 1) = (n - k) - 1 /\ n - (n - k) = k /\ k + 1 \in 0 .. n /\ k \in 0 .. n
    OBVIOUS
  <2>2. u[n - k] = f[k][u[(n - k) - 1]]
    BY <1>1, <1>3, <2>1
  <2>3. h[k] = u[n - k] /\ h[k + 1] = u[(n - k) - 1]
    BY <2>1
  <2> HIDE DEF h
  <2> QED BY <2>2, <2>3
<1> HIDE DEF h
<1> QED BY <1>5, <1>6 DEF Descends

-------------------------------------------------------------------------------
(* FlattenSeq *)

\* g[n] is what FlattenSeq has put together of the first n parts.
Flattens(g, parts, n) ==
  g = [j \in 1 .. n |-> IF j = 1 THEN parts[j] ELSE g[j - 1] \o parts[j]]

LEMMA FlattensExists == ASSUME NEW parts, NEW n \in Nat PROVE \E g : Flattens(g, parts, n)
<1> DEFINE T == {m \in Nat : ~ \E g : Flattens(g, parts, m)}
<1> SUFFICES ASSUME T # {} PROVE FALSE
  OBVIOUS
<1>1. PICK m \in T : \A y \in T : m <= y
  BY Least, Zenon
<1>2. CASE m = 0
  <2>1. Flattens([j \in 1 .. 0 |-> 0], parts, 0)
    BY DEF Flattens
  <2> QED BY <1>1, <1>2, <2>1
<1>3. CASE m # 0
  <2>1. m \in Nat /\ m - 1 \in Nat /\ m - 1 \notin T
    BY <1>1, <1>3
  <2>2. PICK h : Flattens(h, parts, m - 1)
    BY <2>1
  <2> DEFINE g == [j \in 1 .. m |-> IF j < m THEN h[j] ELSE
                                     IF m = 1 THEN parts[m] ELSE h[m - 1] \o parts[m]]
  <2>3. ASSUME NEW j \in 1 .. m
        PROVE  g[j] = IF j = 1 THEN parts[j] ELSE g[j - 1] \o parts[j]
    <3>1. CASE j < m
      <4>1. j \in 1 .. m - 1
        BY <2>1, <3>1
      <4>2. h[j] = IF j = 1 THEN parts[j] ELSE h[j - 1] \o parts[j]
        BY <2>2, <4>1 DEF Flattens
      <4>3. j # 1 => j - 1 \in 1 .. m /\ j - 1 < m
        BY <2>1, <4>1
      <4> QED BY <2>1, <3>1, <4>2, <4>3
    <3>2. CASE j = m
      <4>1. j # 1 => j - 1 \in 1 .. m /\ j - 1 < m
        BY <2>1, <3>2
      <4> QED BY <2>1, <3>2, <4>1
    <3> QED BY <2>1, <3>1, <3>2
  <2>4. Flattens(g, parts, m)
    BY <2>3 DEF Flattens
  <2> QED BY <2>4
<1> QED BY <1>1, <1>2, <1>3

\* w is what FlattenSeq makes of the parts.
FlattensTo(w, parts) ==
  IF Len(parts) = 0 THEN w = parts
  ELSE \E g : Flattens(g, parts, Len(parts)) /\ w = g[Len(parts)]

LEMMA FlattenIs ==
  ASSUME NEW parts, Len(parts) \in Nat PROVE FlattensTo(FlattenSeq(parts), parts)
<1> DEFINE flatten == CHOOSE g : Flattens(g, parts, Len(parts))
<1>1. Flattens(flatten, parts, Len(parts))
  BY FlattensExists, Zenon
<1>2. Len(parts) # 0 => FlattenSeq(parts) = flatten[Len(parts)]
  BY DEF FlattenSeq, Flattens
<1>3. Len(parts) = 0 => FlattenSeq(parts) = parts
  BY DEF FlattenSeq
<1> HIDE DEF flatten
<1> QED BY <1>1, <1>2, <1>3 DEF FlattensTo

\* u stands in w behind the first n elements.
Stands(u, w, n) ==
  /\ n \in Nat /\ Len(u) \in Nat /\ n + Len(u) <= Len(w)
  /\ \A j \in 1 .. Len(u) : w[n + j] = u[j]

LEMMA StandsLeft ==
  ASSUME NEW S, NEW a \in Seq(S), NEW b \in Seq(S), NEW u, NEW n, Stands(u, a, n)
  PROVE  Stands(u, a \o b, n)
<1>1. /\ Len(a) \in Nat /\ Len(b) \in Nat /\ Len(a \o b) = Len(a) + Len(b)
      /\ \A j \in 1 .. Len(a) + Len(b) : (a \o b)[j] = IF j <= Len(a) THEN a[j] ELSE b[j - Len(a)]
  BY ConcatProperties, LenProperties
<1>2. ASSUME NEW j \in 1 .. Len(u) PROVE (a \o b)[n + j] = u[j]
  <2>1. n + j \in 1 .. Len(a) + Len(b) /\ n + j <= Len(a)
    BY <1>1 DEF Stands
  <2> QED BY <1>1, <2>1 DEF Stands
<1> QED BY <1>1, <1>2 DEF Stands

LEMMA StandsRight ==
  ASSUME NEW S, NEW a \in Seq(S), NEW b \in Seq(S)
  PROVE  Stands(b, a \o b, Len(a))
<1>1. /\ Len(a) \in Nat /\ Len(b) \in Nat /\ Len(a \o b) = Len(a) + Len(b)
      /\ \A j \in 1 .. Len(a) + Len(b) : (a \o b)[j] = IF j <= Len(a) THEN a[j] ELSE b[j - Len(a)]
  BY ConcatProperties, LenProperties
<1>2. ASSUME NEW j \in 1 .. Len(b) PROVE (a \o b)[Len(a) + j] = b[j]
  <2>1. Len(a) + j \in 1 .. Len(a) + Len(b) /\ ~(Len(a) + j <= Len(a)) /\ Len(a) + j - Len(a) = j
    BY <1>1
  <2> QED BY <1>1, <2>1
<1> QED BY <1>1, <1>2 DEF Stands

LEMMA StandsInPart ==
  ASSUME NEW u, NEW w, NEW x, NEW m, NEW n, Stands(u, w, m), Stands(w, x, n), Len(x) \in Nat
  PROVE  Stands(u, x, n + m)
<1>1. ASSUME NEW j \in 1 .. Len(u) PROVE x[(n + m) + j] = u[j]
  <2>1. m + j \in 1 .. Len(w) /\ n + (m + j) = (n + m) + j
    BY DEF Stands
  <2>2. x[n + (m + j)] = w[m + j] /\ w[m + j] = u[j]
    BY <2>1 DEF Stands
  <2> QED BY <2>1, <2>2
<1> QED BY <1>1 DEF Stands

\* The parts stand in w one behind the other, part k behind off[k - 1] elements.
LaidOut(w, parts, off) ==
  /\ off \in [0 .. Len(parts) -> Nat] /\ off[0] = 0 /\ off[Len(parts)] = Len(w)
  /\ \A k \in 1 .. Len(parts) :
       off[k] = off[k - 1] + Len(parts[k]) /\ Stands(parts[k], w, off[k - 1])

LEMMA FlattenLaysOut ==
  ASSUME NEW S, NEW parts \in Seq(Seq(S)), NEW w, FlattensTo(w, parts)
  PROVE  /\ w \in Seq(S)
         /\ \E off : LaidOut(w, parts, off)
<1>0. /\ Len(parts) \in Nat
      /\ \A k \in 1 .. Len(parts) : parts[k] \in Seq(S) /\ Len(parts[k]) \in Nat
  BY LenProperties, ElementOfSeq
<1>1. CASE Len(parts) = 0
  <2>1. parts = <<>> /\ w = parts /\ <<>> \in Seq(S)
    BY <1>1, EmptySeq DEF FlattensTo
  <2>2. LaidOut(parts, parts, [k \in 0 .. 0 |-> 0])
    BY <1>1 DEF LaidOut
  <2> QED BY <2>1, <2>2
<1>2. CASE Len(parts) # 0
  <2>1. PICK g : Flattens(g, parts, Len(parts)) /\ w = g[Len(parts)]
    BY <1>2 DEF FlattensTo
  <2> DEFINE off == [k \in 0 .. Len(parts) |-> IF k = 0 THEN 0 ELSE Len(g[k])]
             Good(m) == /\ g[m] \in Seq(S)
                        /\ Len(g[m]) = off[m - 1] + Len(parts[m])
                        /\ \A k \in 1 .. m : Stands(parts[k], g[m], off[k - 1])
             T == {m \in 1 .. Len(parts) : ~Good(m)}
  <2>2. ASSUME NEW m \in 1 .. Len(parts), m # 1 => Good(m - 1)
        PROVE  Good(m)
    <3>1. g[m] = IF m = 1 THEN parts[m] ELSE g[m - 1] \o parts[m]
      BY <2>1 DEF Flattens
    <3>2. CASE m = 1
      <4>1. g[m] = parts[m] /\ off[m - 1] = 0 /\ parts[m] \in Seq(S) /\ Len(parts[m]) \in Nat
        BY <1>0, <3>1, <3>2
      <4>2. Stands(parts[m], g[m], off[m - 1])
        BY <4>1 DEF Stands
      <4> QED BY <3>2, <4>1, <4>2
    <3>3. CASE m # 1
      <4>0. m - 1 \in 0 .. Len(parts) /\ m - 1 # 0 /\ parts[m] \in Seq(S)
        BY <1>0, <3>3
      <4>1. /\ g[m] = g[m - 1] \o parts[m] /\ g[m - 1] \in Seq(S) /\ parts[m] \in Seq(S)
            /\ off[m - 1] = Len(g[m - 1])
        BY <2>2, <3>1, <3>3, <4>0
      <4>2. g[m] \in Seq(S) /\ Len(g[m]) = off[m - 1] + Len(parts[m])
        <5>1. g[m - 1] \o parts[m] \in Seq(S)
          BY <4>1, ConcatProperties
        <5>2. Len(g[m - 1] \o parts[m]) = Len(g[m - 1]) + Len(parts[m])
          BY <4>1, ConcatProperties
        <5> HIDE DEF off
        <5> QED BY <4>1, <5>1, <5>2
      <4>3. Stands(parts[m], g[m], off[m - 1])
        BY <4>1, StandsRight
      <4>4. ASSUME NEW k \in 1 .. m - 1 PROVE Stands(parts[k], g[m], off[k - 1])
        <5>1. Stands(parts[k], g[m - 1], off[k - 1])
          BY <2>2, <3>3, <4>4
        <5> QED BY <4>1, <5>1, StandsLeft
      <4>5. \A k \in 1 .. m : k = m \/ k \in 1 .. m - 1
        OBVIOUS
      <4> QED BY <4>2, <4>3, <4>4, <4>5
    <3> QED BY <3>2, <3>3
  <2>3. T = {}
    <3>1. SUFFICES ASSUME T # {} PROVE FALSE
      OBVIOUS
    <3> HIDE DEF Good
    <3>2. T \subseteq Nat
      OBVIOUS
    <3>3. PICK m \in T : \A y \in T : m <= y
      BY <3>1, <3>2, Least, Zenon
    <3>4. ASSUME m # 1 PROVE Good(m - 1)
      <4>1. m \in 1 .. Len(parts) /\ m - 1 \in 1 .. Len(parts) /\ ~(m <= m - 1)
        BY <1>0, <3>3, <3>4
      <4>2. m - 1 \notin T
        BY <3>3, <4>1
      <4> QED BY <4>1, <4>2
    <3>5. m # 1 => Good(m - 1)
      BY <3>4
    <3> QED BY <2>2, <3>3, <3>5
  <2>4. \A m \in 1 .. Len(parts) : Good(m)
    <3> HIDE DEF Good
    <3> QED BY <2>3
  <2>5. Len(parts) \in 1 .. Len(parts)
    BY <1>0, <1>2
  <2>6. g[Len(parts)] \in Seq(S)
    BY <2>4, <2>5
  <2>7. LaidOut(g[Len(parts)], parts, off)
    <3>1. \A k \in 1 .. Len(parts) : Len(g[k]) \in Nat /\ Len(g[k]) = off[k - 1] + Len(parts[k])
      BY <2>4, LenProperties
    <3>2. off \in [0 .. Len(parts) -> Nat] /\ off[0] = 0 /\ off[Len(parts)] = Len(g[Len(parts)])
      BY <1>0, <1>2, <3>1
    <3>3. \A k \in 1 .. Len(parts) : off[k] = Len(g[k])
      OBVIOUS
    <3>4. \A k \in 1 .. Len(parts) : Stands(parts[k], g[Len(parts)], off[k - 1])
      BY <2>4, <2>5
    <3> HIDE DEF off
    <3> QED BY <3>1, <3>2, <3>3, <3>4 DEF LaidOut
  <2> HIDE DEF off
  <2> QED BY <2>1, <2>6, <2>7
<1> QED BY <1>0, <1>1, <1>2

-------------------------------------------------------------------------------
(* What is laid out one part behind the other *)

LEMMA OffsetsRise ==
  ASSUME NEW w, NEW parts, NEW off, LaidOut(w, parts, off), Len(parts) \in Nat,
         \A k \in 1 .. Len(parts) : Len(parts[k]) \in Nat,
         NEW m \in 0 .. Len(parts)
  PROVE  \A k \in 0 .. m : off[k] <= off[m]
<1> DEFINE T == {k \in 0 .. m : off[k] <= off[m]}
<1>0. \A k \in 0 .. Len(parts) : off[k] \in Nat
  BY DEF LaidOut
<1>1. m \in T
  BY <1>0
<1>2. ASSUME NEW k \in 0 .. m - 1, k + 1 \in T PROVE k \in T
  <2>1. k + 1 \in 1 .. Len(parts) /\ (k + 1) - 1 = k /\ k \in 0 .. Len(parts)
    OBVIOUS
  <2>2. off[k + 1] = off[k] + Len(parts[k + 1]) /\ off[k] \in Nat /\ off[k + 1] \in Nat
    BY <1>0, <2>1 DEF LaidOut
  <2>3. Len(parts[k + 1]) \in Nat /\ off[k + 1] <= off[m] /\ off[m] \in Nat
    BY <1>0, <1>2, <2>1
  <2>4. off[k] <= off[m] /\ k \in 0 .. m
    BY <2>2, <2>3
  <2> QED BY <2>4
<1> HIDE DEF T
<1>3. 0 .. m \subseteq T
  <2>1. 0 \in Int /\ m \in Int
    OBVIOUS
  <2>2. \A k \in 0 .. m - 1 : k + 1 \in T => k \in T
    BY <1>2
  <2> QED BY <1>1, <2>1, <2>2, Downwards
<1> QED BY <1>3 DEF T

LEMMA PartAt ==
  ASSUME NEW w, NEW parts, NEW off, LaidOut(w, parts, off), Len(parts) \in Nat,
         NEW j \in 1 .. Len(w)
  PROVE  \E k \in 1 .. Len(parts) : j \in off[k - 1] + 1 .. off[k]
<1> SUFFICES ASSUME \A k \in 1 .. Len(parts) : j \notin off[k - 1] + 1 .. off[k] PROVE FALSE
  OBVIOUS
<1> DEFINE T == {k \in 0 .. Len(parts) : off[k] < j}
<1>1. 0 \in T
  BY DEF LaidOut
<1>2. ASSUME NEW k \in 0 .. Len(parts) - 1, k \in T PROVE k + 1 \in T
  <2>1. k + 1 \in 1 .. Len(parts) /\ (k + 1) - 1 = k /\ k \in 0 .. Len(parts) /\ k + 1 \in 0 .. Len(parts)
    OBVIOUS
  <2>2. off[k] \in Nat /\ off[k + 1] \in Nat /\ off[k] < j
    BY <1>2, <2>1 DEF LaidOut
  <2>3. j \notin off[k] + 1 .. off[k + 1]
    BY <2>1
  <2> QED BY <2>1, <2>2, <2>3
<1> HIDE DEF T
<1>3. 0 .. Len(parts) \subseteq T
  <2>1. 0 \in Int /\ Len(parts) \in Int
    OBVIOUS
  <2>2. \A k \in 0 .. Len(parts) - 1 : k \in T => k + 1 \in T
    BY <1>2
  <2> QED BY <1>1, <2>1, <2>2, Upwards
<1>4. Len(parts) \in T
  BY <1>3
<1> QED BY <1>4 DEF T, LaidOut

-------------------------------------------------------------------------------
(* The codecs *)

LEMMA ShortTuples ==
  ASSUME NEW a \in Int, NEW b \in Int
  PROVE  /\ <<a>> \in Seq(Int) /\ Len(<<a>>) = 1
         /\ <<92, a>> \in Seq(Int) /\ Len(<<92, a>>) = 2
         /\ <<92, 117, 48, 48, a, b>> \in Seq(Int) /\ Len(<<92, 117, 48, 48, a, b>>) = 6
OBVIOUS

LEMMA DigitIs ==
  ASSUME NEW n \in 0 .. 15
  PROVE  /\ Digit(n) \in 48 .. 57 \cup 97 .. 102 /\ Digit(n) \in HexDigits
         /\ DigitValue(Digit(n)) = n
<1>1. CASE n < 10
  <2>1. Digit(n) = 48 + n /\ 48 + n \in 48 .. 57
    BY <1>1 DEF Digit
  <2>2. \A c \in 48 .. 57 : DigitValue(c) = c - 48
    BY DEF DigitValue
  <2> QED BY <2>1, <2>2 DEF HexDigits
<1>2. CASE n >= 10
  <2>1. Digit(n) = 87 + n /\ 87 + n \in 97 .. 102
    BY <1>2 DEF Digit
  <2>2. \A c \in 97 .. 102 : DigitValue(c) = c - 87
    BY DEF DigitValue
  <2> QED BY <2>1, <2>2 DEF HexDigits
<1> QED BY <1>1, <1>2

LEMMA HexOfIs ==
  ASSUME NEW b \in 0 .. 255
  PROVE  /\ b \div 16 \in 0 .. 15 /\ b % 16 \in 0 .. 15 /\ b = 16 * (b \div 16) + (b % 16)
         /\ HexOf(b) = <<Digit(b \div 16), Digit(b % 16)>>
         /\ HexOf(b) \in Seq(Int) /\ Len(HexOf(b)) = 2
<1>1. b \div 16 \in 0 .. 15 /\ b % 16 \in 0 .. 15 /\ b = 16 * (b \div 16) + (b % 16)
  OBVIOUS
<1>2. Digit(b \div 16) \in Int /\ Digit(b % 16) \in Int
  BY <1>1, DigitIs
<1>3. HexOf(b) = <<Digit(b \div 16), Digit(b % 16)>>
  BY DEF HexOf
<1> QED BY <1>1, <1>2, <1>3

LEMMA StrToByteIs ==
  ASSUME NEW b \in 0 .. 255
  PROVE  StrToByte(Digit(b \div 16), Digit(b % 16)) = b
<1>1. b \div 16 \in 0 .. 15 /\ b % 16 \in 0 .. 15 /\ b = 16 * (b \div 16) + (b % 16)
  BY HexOfIs
<1>2. \A n \in 0 .. 15 : Digit(n) \in HexDigits /\ DigitValue(Digit(n)) = n
  BY DigitIs
<1>3. \A c, d \in HexDigits :
        StrToByte(c, d) = 16 * DigitValue(c) + DigitValue(d)
  BY DEF StrToByte, HexDigits, Plus, Space, Minus
<1> QED BY <1>1, <1>2, <1>3

LEMMA BytesAreInt ==
  /\ \A x \in 0 .. 255 : x \in Int
  /\ \A x \in 48 .. 57 \cup 97 .. 102 : x \in Int
OBVIOUS

LEMMA PercentFirst ==
  ASSUME NEW a \in Int, NEW b \in Int PROVE <<37>> \o <<a, b>> = <<37, a, b>>
<1> DEFINE x == <<37>> \o <<a, b>>
           y == <<37, a, b>>
<1>1. /\ <<37>> \in Seq(Int) /\ Len(<<37>>) = 1 /\ <<37>>[1] = 37
      /\ <<a, b>> \in Seq(Int) /\ Len(<<a, b>>) = 2 /\ <<a, b>>[1] = a /\ <<a, b>>[2] = b
      /\ y \in Seq(Int) /\ Len(y) = 3 /\ y[1] = 37 /\ y[2] = a /\ y[3] = b
  OBVIOUS
<1>2. /\ x \in Seq(Int) /\ Len(x) = Len(<<37>>) + Len(<<a, b>>)
      /\ \A j \in 1 .. Len(<<37>>) + Len(<<a, b>>) :
           x[j] = IF j <= Len(<<37>>) THEN <<37>>[j] ELSE <<a, b>>[j - Len(<<37>>)]
  BY <1>1, ConcatProperties
<1> HIDE DEF x, y
<1>3. Len(x) = 3 /\ \A j \in 1 .. 3 : x[j] = IF j <= 1 THEN <<37>>[j] ELSE <<a, b>>[j - 1]
  BY <1>1, <1>2
<1>4. x[1] = 37 /\ x[2] = a /\ x[3] = b
  BY <1>1, <1>3
<1>5. \A j \in 1 .. 3 : x[j] = y[j]
  <2>1. \A j \in 1 .. 3 : j = 1 \/ j = 2 \/ j = 3
    OBVIOUS
  <2> QED BY <1>1, <1>4, <2>1
<1>6. x = y
  BY <1>1, <1>2, <1>3, <1>5, SeqEqual
<1> QED BY <1>6 DEF x, y

\* What url_encode makes of each byte.
UrlParts(str) ==
  [k \in DOMAIN str |-> IF str[k] \in AllowedCharacters THEN <<str[k]>>
                        ELSE <<Percent>> \o HexOf(str[k])]

LEMMA UrlPartIs ==
  ASSUME NEW str \in Seq(0 .. 255), NEW k \in 1 .. Len(str)
  PROVE  /\ str[k] \in 0 .. 255
         /\ str[k] \in AllowedCharacters => UrlParts(str)[k] = <<str[k]>>
         /\ str[k] \notin AllowedCharacters =>
              UrlParts(str)[k] = <<37, Digit(str[k] \div 16), Digit(str[k] % 16)>>
         /\ UrlParts(str)[k] \in Seq(Int)
         /\ str[k] \in AllowedCharacters => Len(UrlParts(str)[k]) = 1
         /\ str[k] \notin AllowedCharacters => Len(UrlParts(str)[k]) = 3
<1>1. str[k] \in 0 .. 255 /\ DOMAIN str = 1 .. Len(str)
  BY ElementOfSeq, LenProperties
<1>2. CASE str[k] \in AllowedCharacters
  <2>1. UrlParts(str)[k] = <<str[k]>>
    BY <1>1, <1>2 DEF UrlParts
  <2>2. <<str[k]>> \in Seq(Int) /\ Len(<<str[k]>>) = 1
    <3>1. str[k] \in Int
      BY <1>1, BytesAreInt
    <3> QED BY <3>1, ShortTuples
  <2> QED BY <1>1, <1>2, <2>1, <2>2
<1>3. CASE str[k] \notin AllowedCharacters
  <2> DEFINE a == Digit(str[k] \div 16)
             b == Digit(str[k] % 16)
  <2>1. HexOf(str[k]) = <<a, b>>
    BY <1>1, HexOfIs
  <2>2. a \in Int /\ b \in Int
    <3>1. str[k] \div 16 \in 0 .. 15 /\ str[k] % 16 \in 0 .. 15
      BY <1>1, HexOfIs
    <3>2. \A n \in 0 .. 15 : Digit(n) \in Int
      BY DEF Digit
    <3> QED BY <3>1, <3>2
  <2>3. UrlParts(str)[k] = <<37>> \o HexOf(str[k])
    BY <1>1, <1>3 DEF UrlParts, Percent
  <2> HIDE DEF a, b
  <2>4. <<37>> \o <<a, b>> = <<37, a, b>>
    BY <2>2, PercentFirst
  <2>5. UrlParts(str)[k] = <<37, a, b>>
    BY <2>1, <2>3, <2>4
  <2>6. <<37, a, b>> \in Seq(Int) /\ Len(<<37, a, b>>) = 3
    BY <2>2
  <2>7. UrlParts(str)[k] \in Seq(Int) /\ Len(UrlParts(str)[k]) = 3
    BY <2>5, <2>6
  <2> QED BY <1>1, <1>3, <2>5, <2>7 DEF a, b
<1> QED BY <1>2, <1>3

LEMMA UrlLaidOut ==
  ASSUME NEW str \in Seq(0 .. 255)
  PROVE  /\ Len(str) \in Nat /\ Len(UrlParts(str)) = Len(str)
         /\ UrlEncode(str) \in Seq(Int)
         /\ \E off : LaidOut(UrlEncode(str), UrlParts(str), off)
<1>1. Len(str) \in Nat /\ DOMAIN str = 1 .. Len(str)
  BY LenProperties
<1>2. \A k \in 1 .. Len(str) : UrlParts(str)[k] \in Seq(Int)
  BY UrlPartIs
<1>3. UrlParts(str) \in Seq(Seq(Int)) /\ Len(UrlParts(str)) = Len(str)
  <2>1. UrlParts(str) \in [1 .. Len(str) -> Seq(Int)]
    BY <1>1, <1>2 DEF UrlParts
  <2> QED BY <1>1, <2>1
<1>4. FlattensTo(UrlEncode(str), UrlParts(str))
  <2>1. UrlEncode(str) = FlattenSeq(UrlParts(str))
    BY DEF UrlEncode, UrlParts
  <2> QED BY <1>1, <1>3, <2>1, FlattenIs
<1> QED BY <1>1, <1>3, <1>4, FlattenLaysOut

\* Where a part of the encoded text stands.
LEMMA UrlAt ==
  ASSUME NEW str \in Seq(0 .. 255), NEW off, LaidOut(UrlEncode(str), UrlParts(str), off),
         NEW k \in 1 .. Len(str)
  PROVE  /\ off[k - 1] \in Nat /\ off[k] \in Nat /\ off[k] <= Len(UrlEncode(str))
         /\ str[k] \in AllowedCharacters =>
              /\ off[k] = off[k - 1] + 1
              /\ UrlEncode(str)[off[k - 1] + 1] = str[k]
         /\ str[k] \notin AllowedCharacters =>
              /\ off[k] = off[k - 1] + 3
              /\ UrlEncode(str)[off[k - 1] + 1] = 37
              /\ UrlEncode(str)[off[k - 1] + 2] = Digit(str[k] \div 16)
              /\ UrlEncode(str)[off[k - 1] + 3] = Digit(str[k] % 16)
<1>1. /\ Len(str) \in Nat /\ Len(UrlParts(str)) = Len(str)
  BY UrlLaidOut
<1>2. /\ \A m \in 0 .. Len(str) : off[m] \in Nat
      /\ off[k] = off[k - 1] + Len(UrlParts(str)[k])
      /\ Stands(UrlParts(str)[k], UrlEncode(str), off[k - 1])
      /\ k - 1 \in 0 .. Len(str) /\ k \in 0 .. Len(str)
  <2>1. k - 1 \in 0 .. Len(str) /\ k \in 0 .. Len(str)
    BY <1>1
  <2> QED BY <1>1, <2>1 DEF LaidOut
<1>3. /\ off[k - 1] \in Nat /\ off[k] \in Nat /\ off[k] <= Len(UrlEncode(str))
      /\ \A j \in 1 .. Len(UrlParts(str)[k]) :
           UrlEncode(str)[off[k - 1] + j] = UrlParts(str)[k][j]
  BY <1>2 DEF Stands
<1>4. ASSUME str[k] \in AllowedCharacters
      PROVE  off[k] = off[k - 1] + 1 /\ UrlEncode(str)[off[k - 1] + 1] = str[k]
  <2>1. UrlParts(str)[k] = <<str[k]>> /\ Len(UrlParts(str)[k]) = 1
    BY <1>4, UrlPartIs
  <2>2. UrlEncode(str)[off[k - 1] + 1] = <<str[k]>>[1]
    BY <1>3, <2>1
  <2> QED BY <1>2, <2>1, <2>2
<1>5. ASSUME str[k] \notin AllowedCharacters
      PROVE  /\ off[k] = off[k - 1] + 3
             /\ UrlEncode(str)[off[k - 1] + 1] = 37
             /\ UrlEncode(str)[off[k - 1] + 2] = Digit(str[k] \div 16)
             /\ UrlEncode(str)[off[k - 1] + 3] = Digit(str[k] % 16)
  <2> DEFINE a == Digit(str[k] \div 16)
             b == Digit(str[k] % 16)
  <2>1. UrlParts(str)[k] = <<37, a, b>> /\ Len(UrlParts(str)[k]) = 3
    BY <1>5, UrlPartIs
  <2> HIDE DEF a, b
  <2>2. \A j \in 1 .. 3 : UrlEncode(str)[off[k - 1] + j] = <<37, a, b>>[j]
    BY <1>3, <2>1
  <2>3. /\ UrlEncode(str)[off[k - 1] + 1] = 37
        /\ UrlEncode(str)[off[k - 1] + 2] = a
        /\ UrlEncode(str)[off[k - 1] + 3] = b
    BY <2>2
  <2> QED BY <1>2, <2>1, <2>3 DEF a, b
<1> QED BY <1>3, <1>4, <1>5

\* CR, LF, blank and # & + / = ?
Reserved == {13, 10, 32, 35, 38, 43, 47, 61, 63}

LEMMA AllowedIsSafe ==
  ASSUME NEW c \in AllowedCharacters PROVE c \notin Reserved /\ c # 37
<1>1. \/ c \in 48 .. 57 \/ c \in 65 .. 90 \/ c \in 97 .. 122
      \/ c \in {45, 95, 46, 33, 126, 42, 92, 40, 41, 0}
  BY DEF AllowedCharacters, Alnum, Extra, Nul
<1>2. c \notin {13, 10, 32, 35, 38, 43, 47, 61, 63, 37}
  BY <1>1
<1> QED BY <1>2 DEF Reserved

LEMMA UrlIsSafe ==
  ASSUME NEW str \in Seq(0 .. 255), NEW j \in 1 .. Len(UrlEncode(str))
  PROVE  /\ UrlEncode(str)[j] \notin Reserved
         /\ UrlEncode(str)[j] = 37 =>
              /\ j + 2 <= Len(UrlEncode(str))
              /\ {UrlEncode(str)[j + 1], UrlEncode(str)[j + 2]} \subseteq HexDigits
<1> DEFINE w == UrlEncode(str)
<1>1. PICK off : LaidOut(w, UrlParts(str), off)
  BY UrlLaidOut
<1>2. Len(str) \in Nat /\ Len(UrlParts(str)) = Len(str) /\ Len(w) \in Nat
  BY UrlLaidOut, LenProperties
<1>3. PICK k \in 1 .. Len(str) : j \in off[k - 1] + 1 .. off[k]
  BY <1>1, <1>2, PartAt
<1>4. off[k - 1] \in Nat /\ off[k] \in Nat /\ off[k] <= Len(w) /\ str[k] \in 0 .. 255
  BY <1>1, UrlAt, UrlPartIs
<1>5. CASE str[k] \in AllowedCharacters
  <2>1. off[k] = off[k - 1] + 1 /\ w[off[k - 1] + 1] = str[k]
    BY <1>1, <1>5, UrlAt
  <2>2. j = off[k - 1] + 1
    BY <1>3, <1>4, <2>1
  <2>3. str[k] \notin Reserved /\ str[k] # 37
    BY <1>5, AllowedIsSafe
  <2> QED BY <2>1, <2>2, <2>3
<1>6. CASE str[k] \notin AllowedCharacters
  <2> DEFINE a == Digit(str[k] \div 16)
             b == Digit(str[k] % 16)
             p == off[k - 1]
  <2>1. /\ off[k] = p + 3 /\ w[p + 1] = 37 /\ w[p + 2] = a /\ w[p + 3] = b
    BY <1>1, <1>6, UrlAt
  <2>2. /\ a \in 48 .. 57 \cup 97 .. 102 /\ a \in HexDigits
        /\ b \in 48 .. 57 \cup 97 .. 102 /\ b \in HexDigits
    BY <1>4, HexOfIs, DigitIs
  <2> HIDE DEF a, b, p, w
  <2>3. p \in Nat /\ p + 3 <= Len(w) /\ j \in {p + 1, p + 2, p + 3}
    <3>1. p \in Nat /\ off[k] = p + 3 /\ off[k] <= Len(w) /\ j \in p + 1 .. off[k]
      BY <1>3, <1>4, <2>1 DEF p, w
    <3> QED BY <3>1
  <2>4. (p + 1) + 1 = p + 2 /\ (p + 1) + 2 = p + 3
    BY <2>3
  <2>5. \A c \in 48 .. 57 \cup 97 .. 102 : c \notin Reserved /\ c # 37
    BY DEF Reserved
  <2>6. 37 \notin Reserved
    BY DEF Reserved
  <2>7. w[j] \notin Reserved
    BY <2>1, <2>2, <2>3, <2>5, <2>6
  <2>8. ASSUME w[j] = 37 PROVE j + 2 <= Len(w) /\ {w[j + 1], w[j + 2]} \subseteq HexDigits
    <3>1. j = p + 1
      BY <2>1, <2>2, <2>3, <2>5, <2>8
    <3>2. w[j + 1] = a /\ w[j + 2] = b /\ j + 2 = p + 3
      BY <2>1, <2>4, <3>1
    <3> QED BY <2>2, <2>3, <3>2
  <2> QED BY <2>7, <2>8 DEF w
<1> QED BY <1>5, <1>6

LEMMA HexRoundTrip ==
  ASSUME NEW str \in Seq(0 .. 255)
  PROVE  ~HexDecodeThrows(HexEncode(str)) /\ HexDecode(HexEncode(str)) = str
<1> DEFINE parts == [k \in DOMAIN str |-> HexOf(str[k])]
           w == HexEncode(str)
<1>1. Len(str) \in Nat /\ DOMAIN str = 1 .. Len(str) /\ \A k \in 1 .. Len(str) : str[k] \in 0 .. 255
  BY ElementOfSeq, LenProperties
<1>2. \A k \in 1 .. Len(str) :
        /\ parts[k] = <<Digit(str[k] \div 16), Digit(str[k] % 16)>>
        /\ parts[k] \in Seq(Int) /\ Len(parts[k]) = 2
  <2>1. \A k \in 1 .. Len(str) : parts[k] = HexOf(str[k])
    BY <1>1
  <2> HIDE DEF parts
  <2>2. ASSUME NEW k \in 1 .. Len(str)
        PROVE  /\ parts[k] = <<Digit(str[k] \div 16), Digit(str[k] % 16)>>
               /\ parts[k] \in Seq(Int) /\ Len(parts[k]) = 2
    <3>1. str[k] \in 0 .. 255 /\ parts[k] = HexOf(str[k])
      BY <1>1, <2>1
    <3>2. /\ HexOf(str[k]) = <<Digit(str[k] \div 16), Digit(str[k] % 16)>>
          /\ HexOf(str[k]) \in Seq(Int) /\ Len(HexOf(str[k])) = 2
      BY <3>1, HexOfIs
    <3> QED BY <3>1, <3>2
  <2> QED BY <2>2
<1>3. parts \in [1 .. Len(str) -> Seq(Int)]
  <2>1. parts = [k \in 1 .. Len(str) |-> HexOf(str[k])]
    BY <1>1
  <2>2. \A k \in 1 .. Len(str) : HexOf(str[k]) \in Seq(Int)
    BY <1>1, HexOfIs
  <2> HIDE DEF parts
  <2> QED BY <2>1, <2>2
<1>4. parts \in Seq(Seq(Int)) /\ Len(parts) = Len(str)
  <2> HIDE DEF parts
  <2> QED BY <1>1, <1>3
<1>5. w = FlattenSeq(parts)
  BY DEF HexEncode
<1> HIDE DEF parts, w
<1>6. FlattensTo(w, parts)
  BY <1>1, <1>4, <1>5, FlattenIs
<1>7. PICK off : LaidOut(w, parts, off)
  BY <1>4, <1>6, FlattenLaysOut
<1>8. /\ off[0] = 0 /\ off[Len(str)] = Len(w)
      /\ \A k \in 1 .. Len(str) : /\ off[k] = off[k - 1] + 2
                                  /\ w[off[k - 1] + 1] = Digit(str[k] \div 16)
                                  /\ w[off[k - 1] + 2] = Digit(str[k] % 16)
  <2>1. /\ off[0] = 0 /\ off[Len(str)] = Len(w)
        /\ \A k \in 1 .. Len(str) : off[k] = off[k - 1] + 2 /\ Stands(parts[k], w, off[k - 1])
    BY <1>2, <1>4, <1>7 DEF LaidOut
  <2>2. ASSUME NEW k \in 1 .. Len(str)
        PROVE  /\ w[off[k - 1] + 1] = Digit(str[k] \div 16)
               /\ w[off[k - 1] + 2] = Digit(str[k] % 16)
    <3> DEFINE a == Digit(str[k] \div 16)
               b == Digit(str[k] % 16)
    <3>1. \A j \in 1 .. 2 : w[off[k - 1] + j] = parts[k][j]
      BY <1>2, <2>1 DEF Stands
    <3>2. parts[k] = <<a, b>>
      BY <1>2
    <3> HIDE DEF a, b
    <3>3. parts[k][1] = a /\ parts[k][2] = b
      BY <3>2
    <3>4. w[off[k - 1] + 1] = a /\ w[off[k - 1] + 2] = b
      BY <3>1, <3>3
    <3> QED BY <3>4 DEF a, b
  <2> QED BY <2>1, <2>2
<1>9. \A k \in 0 .. Len(str) : off[k] = 2 * k
  <2> DEFINE T == {k \in 0 .. Len(str) : off[k] = 2 * k}
  <2>1. 0 \in T
    BY <1>1, <1>8
  <2>2. ASSUME NEW k \in 0 .. Len(str) - 1, k \in T PROVE k + 1 \in T
    <3>1. k + 1 \in 1 .. Len(str) /\ k + 1 \in 0 .. Len(str) /\ (k + 1) - 1 = k
      BY <1>1
    <3>2. off[k + 1] = off[k] + 2 /\ off[k] = 2 * k
      BY <1>8, <2>2, <3>1
    <3> QED BY <3>1, <3>2
  <2> HIDE DEF T
  <2>3. 0 \in Int /\ Len(str) \in Int
    BY <1>1
  <2>4. \A k \in 0 .. Len(str) - 1 : k \in T => k + 1 \in T
    BY <2>2
  <2>5. 0 .. Len(str) \subseteq T
    BY <2>1, <2>3, <2>4, Upwards
  <2> QED BY <2>5 DEF T
<1>10. Len(w) = 2 * Len(str)
  <2>1. Len(str) \in 0 .. Len(str)
    BY <1>1
  <2> QED BY <1>8, <1>9, <2>1
<1>11. \A m \in Nat : (2 * m) % 2 = 0 /\ (2 * m) \div 2 = m
  OBVIOUS
<1>12. ~HexDecodeThrows(w)
  BY <1>1, <1>10, <1>11 DEF HexDecodeThrows
<1>13. \A k \in 1 .. Len(str) : StrToByte(w[2 * k - 1], w[2 * k]) = str[k]
  <2> SUFFICES ASSUME NEW k \in 1 .. Len(str) PROVE StrToByte(w[2 * k - 1], w[2 * k]) = str[k]
    OBVIOUS
  <2>1. k - 1 \in 0 .. Len(str) /\ 2 * (k - 1) + 1 = 2 * k - 1 /\ 2 * (k - 1) + 2 = 2 * k
    BY <1>1
  <2>2. off[k - 1] = 2 * (k - 1)
    BY <1>9, <2>1
  <2>3. w[2 * k - 1] = Digit(str[k] \div 16) /\ w[2 * k] = Digit(str[k] % 16)
    BY <1>8, <2>1, <2>2
  <2> QED BY <1>1, <2>3, StrToByteIs
<1>14. HexDecode(w) = [k \in 1 .. Len(str) |-> str[k]]
  <2>1. Len(w) \div 2 = Len(str)
    BY <1>1, <1>10, <1>11
  <2>2. HexDecode(w) = [k \in 1 .. Len(str) |-> StrToByte(w[2 * k - 1], w[2 * k])]
    BY <2>1 DEF HexDecode
  <2> QED BY <1>13, <2>2
<1>15. str = [k \in 1 .. Len(str) |-> str[k]]
  BY <1>1
<1> QED BY <1>12, <1>14, <1>15 DEF w

\* The text of url_decode from character a on, by what it becomes from each position.
Decodes(g, url, a) ==
  g = [m \in a .. Len(url) + 3 |->
         IF m > Len(url) THEN <<>>
         ELSE IF url[m] = 37
         THEN <<StrToByte(CharAt(url, m + 1), CharAt(url, m + 2))>> \o g[m + 3]
         ELSE <<IF url[m] = 43 THEN 32 ELSE url[m]>> \o g[m + 1]]

LEMMA DecodesExists ==
  ASSUME NEW url, Len(url) \in Nat
  PROVE  \E g : Decodes(g, url, 1)
<1> DEFINE N == Len(url) + 3
           Piece(m) == IF url[m] = 37
                       THEN <<StrToByte(CharAt(url, m + 1), CharAt(url, m + 2))>>
                       ELSE <<IF url[m] = 43 THEN 32 ELSE url[m]>>
           T == {a \in 1 .. Len(url) + 1 : \E g : Decodes(g, url, a)}
<1>1. Len(url) + 1 \in T
  <2> DEFINE g == [m \in Len(url) + 1 .. Len(url) + 3 |-> <<>>]
  <2>1. \A m \in Len(url) + 1 .. Len(url) + 3 : m > Len(url)
    OBVIOUS
  <2>2. Decodes(g, url, Len(url) + 1)
    BY <2>1 DEF Decodes
  <2> QED BY <2>2
<1>2. ASSUME NEW a \in 1 .. Len(url), a + 1 \in T PROVE a \in T
  <2>1. PICK h : Decodes(h, url, a + 1)
    BY <1>2
  <2> DEFINE Right(m) == IF url[m] = 37 THEN h[m + 3] ELSE h[m + 1]
             g == [m \in a .. Len(url) + 3 |-> IF m = a THEN Piece(a) \o Right(a) ELSE h[m]]
  <2>2. ASSUME NEW m \in a .. Len(url) + 3
        PROVE  g[m] = IF m > Len(url) THEN <<>>
                      ELSE IF url[m] = 37
                      THEN <<StrToByte(CharAt(url, m + 1), CharAt(url, m + 2))>> \o g[m + 3]
                      ELSE <<IF url[m] = 43 THEN 32 ELSE url[m]>> \o g[m + 1]
    <3>1. m > Len(url) \/ (/\ m + 3 \in a .. Len(url) + 3 /\ m + 3 # a
                           /\ m + 1 \in a .. Len(url) + 3 /\ m + 1 # a)
      OBVIOUS
    <3>2. m <= Len(url) => g[m + 3] = h[m + 3] /\ g[m + 1] = h[m + 1]
      BY <3>1
    <3>3. CASE m = a
      <4>1. g[m] = Piece(m) \o Right(m) /\ ~(m > Len(url)) /\ m <= Len(url)
        BY <3>3, SMTT(30)
      <4> QED BY <3>2, <4>1
    <3>4. CASE m # a
      <4>1. m \in a + 1 .. Len(url) + 3 /\ g[m] = h[m]
        BY <3>4
      <4>2. h[m] = IF m > Len(url) THEN <<>>
                   ELSE IF url[m] = 37
                   THEN <<StrToByte(CharAt(url, m + 1), CharAt(url, m + 2))>> \o h[m + 3]
                   ELSE <<IF url[m] = 43 THEN 32 ELSE url[m]>> \o h[m + 1]
        BY <2>1, <4>1 DEF Decodes
      <4>3. m > Len(url) \/ m <= Len(url)
        OBVIOUS
      <4> HIDE DEF g
      <4> QED BY <3>2, <4>1, <4>2, <4>3
    <3> QED BY <3>3, <3>4
  <2>3. Decodes(g, url, a)
    BY <2>2, ZenonT(30) DEF Decodes
  <2>4. a \in 1 .. Len(url) + 1
    OBVIOUS
  <2> HIDE DEF g
  <2> QED BY <2>3, <2>4
<1> HIDE DEF T
<1>3. 1 .. Len(url) + 1 \subseteq T
  <2>1. 1 \in Int /\ Len(url) + 1 \in Int /\ (Len(url) + 1) - 1 = Len(url)
    OBVIOUS
  <2>2. \A a \in 1 .. (Len(url) + 1) - 1 : a + 1 \in T => a \in T
    BY <1>2, <2>1
  <2> QED BY <1>1, <2>1, <2>2, Downwards
<1>4. 1 \in T
  BY <1>3
<1> QED BY <1>4 DEF T

LEMMA UrlDecodeIs ==
  ASSUME NEW url, Len(url) \in Nat
  PROVE  \E g : Decodes(g, url, 1) /\ UrlDecode(url) = g[1]
<1> DEFINE g == CHOOSE h : Decodes(h, url, 1)
<1>1. Decodes(g, url, 1)
  BY DecodesExists, Zenon
<1>2. UrlDecode(url) = g[1]
  BY DEF UrlDecode, EscapeLength, Percent, Plus, Space, Decodes
<1> HIDE DEF g
<1> QED BY <1>1, <1>2

LEMMA DecodesAt ==
  ASSUME NEW url, NEW g, Decodes(g, url, 1), Len(url) \in Nat
  PROVE  /\ \A m \in Len(url) + 1 .. Len(url) + 3 : g[m] = <<>>
         /\ \A m \in 1 .. Len(url) : url[m] = 37 =>
              g[m] = <<StrToByte(CharAt(url, m + 1), CharAt(url, m + 2))>> \o g[m + 3]
         /\ \A m \in 1 .. Len(url) : url[m] # 37 =>
              g[m] = <<IF url[m] = 43 THEN 32 ELSE url[m]>> \o g[m + 1]
<1>1. ASSUME NEW m \in 1 .. Len(url) + 3
      PROVE  g[m] = IF m > Len(url) THEN <<>>
                    ELSE IF url[m] = 37
                    THEN <<StrToByte(CharAt(url, m + 1), CharAt(url, m + 2))>> \o g[m + 3]
                    ELSE <<IF url[m] = 43 THEN 32 ELSE url[m]>> \o g[m + 1]
  BY DEF Decodes
<1>2. \A m \in Len(url) + 1 .. Len(url) + 3 : m \in 1 .. Len(url) + 3 /\ m > Len(url)
  OBVIOUS
<1>3. \A m \in 1 .. Len(url) : m \in 1 .. Len(url) + 3 /\ ~(m > Len(url))
  OBVIOUS
<1> QED BY <1>1, <1>2, <1>3

LEMMA ConsIs ==
  ASSUME NEW S, NEW x \in S, NEW q \in Seq(S)
  PROVE  /\ <<x>> \o q \in Seq(S) /\ Len(q) \in Nat /\ Len(<<x>> \o q) = Len(q) + 1
         /\ (<<x>> \o q)[1] = x
         /\ \A j \in 1 .. Len(q) : (<<x>> \o q)[j + 1] = q[j]
<1>1. <<x>> \in Seq(S) /\ Len(<<x>>) = 1 /\ <<x>>[1] = x /\ Len(q) \in Nat
  BY LenProperties
<1>2. /\ <<x>> \o q \in Seq(S) /\ Len(<<x>> \o q) = 1 + Len(q)
      /\ \A j \in 1 .. 1 + Len(q) : (<<x>> \o q)[j] = IF j <= 1 THEN <<x>>[j] ELSE q[j - 1]
  BY <1>1, ConcatProperties
<1>3. 1 \in 1 .. 1 + Len(q) /\ 1 <= 1
  BY <1>1
<1>4. \A j \in 1 .. Len(q) : j + 1 \in 1 .. 1 + Len(q) /\ ~(j + 1 <= 1) /\ (j + 1) - 1 = j
  BY <1>1
<1> QED BY <1>1, <1>2, <1>3, <1>4

LEMMA DigitValueIs ==
  ASSUME NEW c \in HexDigits PROVE DigitValue(c) \in 0 .. 15
<1>1. \A d \in 48 .. 57 : DigitValue(d) = d - 48
  BY DEF DigitValue
<1>2. \A d \in 65 .. 70 : DigitValue(d) = d - 55
  BY DEF DigitValue
<1>3. \A d \in 97 .. 102 : DigitValue(d) = d - 87
  BY DEF DigitValue
<1> QED BY <1>1, <1>2, <1>3 DEF HexDigits

LEMMA StrToByteTyped == ASSUME NEW c, NEW d PROVE StrToByte(c, d) \in 0 .. 255
<1> DEFINE low == IF d \in HexDigits THEN DigitValue(d) ELSE 0
<1>1. low \in 0 .. 15
  BY DigitValueIs
<1>2. c \in HexDigits => DigitValue(c) \in 0 .. 15
  BY DigitValueIs
<1>3. StrToByte(c, d) =
        CASE c \in HexDigits ->
               IF d \in HexDigits THEN 16 * DigitValue(c) + low ELSE DigitValue(c)
          [] c \in {43, 32} \cup 9 .. 13 -> low
          [] c = 45 -> (256 - low) % 256
          [] OTHER -> 0
  BY DEF StrToByte, Plus, Space, Minus
<1> HIDE DEF low
<1>4. CASE c \in HexDigits
  <2>1. c \notin {43, 32} \cup 9 .. 13 /\ c # 45
    BY <1>4 DEF HexDigits
  <2>2. StrToByte(c, d) =
          IF d \in HexDigits THEN 16 * DigitValue(c) + low ELSE DigitValue(c)
    BY <1>3, <1>4, <2>1
  <2> QED BY <1>1, <1>2, <1>4, <2>2
<1>5. CASE c \notin HexDigits
  <2>1. CASE c \in {43, 32} \cup 9 .. 13
    <3>1. c # 45
      BY <2>1
    <3> QED BY <1>1, <1>3, <1>5, <2>1, <3>1
  <2>2. CASE c = 45
    <3>1. c \notin {43, 32} \cup 9 .. 13
      BY <2>2
    <3>2. (256 - low) % 256 \in 0 .. 255
      BY <1>1
    <3>3. StrToByte(c, d) = (256 - low) % 256
      BY <1>3, <1>5, <2>2, <3>1
    <3> QED BY <3>2, <3>3
  <2>3. CASE c \notin {43, 32} \cup 9 .. 13 /\ c # 45
    BY <1>3, <1>5, <2>3
  <2> QED BY <2>1, <2>2, <2>3
<1> QED BY <1>4, <1>5

LEMMA UrlRoundTrip ==
  ASSUME NEW str \in Seq(0 .. 255) PROVE UrlDecode(UrlEncode(str)) = str
<1> DEFINE w == UrlEncode(str)
           n == Len(str)
<1>1. n \in Nat /\ Len(UrlParts(str)) = n /\ Len(w) \in Nat
  BY UrlLaidOut, LenProperties
<1>2. PICK off : LaidOut(w, UrlParts(str), off)
  BY UrlLaidOut
<1>3. PICK g : Decodes(g, w, 1) /\ UrlDecode(w) = g[1]
  BY <1>1, UrlDecodeIs
<1> HIDE DEF w
<1>10. /\ \A m \in 1 .. Len(w) : w[m] = 37 =>
            g[m] = <<StrToByte(CharAt(w, m + 1), CharAt(w, m + 2))>> \o g[m + 3]
       /\ \A m \in 1 .. Len(w) : w[m] # 37 =>
            g[m] = <<IF w[m] = 43 THEN 32 ELSE w[m]>> \o g[m + 1]
  BY <1>1, <1>3, DecodesAt
<1> USE DEF w
<1>4. off[0] = 0 /\ off[n] = Len(w) /\ \A k \in 0 .. n : off[k] \in Nat
  BY <1>1, <1>2 DEF LaidOut
\* q is what is left of str behind its first k bytes.
<1> DEFINE Rest(q, k) == /\ q \in Seq(0 .. 255) /\ Len(q) = n - k
                         /\ \A j \in 1 .. n - k : q[j] = str[k + j]
           T == {k \in 0 .. n : Rest(g[off[k] + 1], k)}
<1>5. n \in T
  <2>1. Len(w) + 1 \in Len(w) + 1 .. Len(w) + 3
    BY <1>1
  <2>2. g[Len(w) + 1] = <<>>
    BY <1>1, <1>3, <2>1, DecodesAt
  <2>3. <<>> \in Seq(0 .. 255) /\ Len(<<>>) = 0 /\ n - n = 0 /\ n \in 0 .. n
    BY <1>1
  <2>4. \A j \in 1 .. 0 : FALSE
    OBVIOUS
  <2> QED BY <1>4, <2>2, <2>3, <2>4
<1>6. ASSUME NEW k \in 0 .. n - 1, k + 1 \in T PROVE k \in T
  <2>1. k + 1 \in 1 .. n /\ (k + 1) - 1 = k /\ k \in 0 .. n
    BY <1>1
  <2>2. /\ off[k] \in Nat /\ off[k + 1] \in Nat /\ off[k + 1] <= Len(w) /\ str[k + 1] \in 0 .. 255
        /\ str[k + 1] \in AllowedCharacters =>
             off[k + 1] = off[k] + 1 /\ w[off[k] + 1] = str[k + 1]
        /\ str[k + 1] \notin AllowedCharacters =>
             /\ off[k + 1] = off[k] + 3 /\ w[off[k] + 1] = 37
             /\ w[off[k] + 2] = Digit(str[k + 1] \div 16)
             /\ w[off[k] + 3] = Digit(str[k + 1] % 16)
    BY <1>2, <2>1, UrlAt, UrlPartIs
  <2>3. g[off[k] + 1] = <<str[k + 1]>> \o g[off[k + 1] + 1]
    <3> DEFINE p == off[k] + 1
               e == off[k + 1]
               x == str[k + 1]
               hi == Digit(x \div 16)
               lo == Digit(x % 16)
    <3>1. /\ p \in Nat /\ p >= 1 /\ e \in Nat /\ e <= Len(w) /\ x \in 0 .. 255
          /\ off[k] + 2 = p + 1 /\ off[k] + 3 = p + 2 /\ off[k] = p - 1
      <4>1. off[k] \in Nat /\ e \in Nat /\ e <= Len(w) /\ x \in 0 .. 255
        BY <2>2
      <4> HIDE DEF e, x, w
      <4> QED BY <4>1
    <3>2. x \in AllowedCharacters => e = p /\ w[p] = x
      BY <2>2, <3>1
    <3>3. x \notin AllowedCharacters =>
            e = p + 2 /\ w[p] = 37 /\ w[p + 1] = hi /\ w[p + 2] = lo
      <4> SUFFICES ASSUME x \notin AllowedCharacters
                   PROVE  e = p + 2 /\ w[p] = 37 /\ w[p + 1] = hi /\ w[p + 2] = lo
        OBVIOUS
      <4>1. /\ e = off[k] + 3 /\ w[off[k] + 1] = 37 /\ w[off[k] + 2] = hi /\ w[off[k] + 3] = lo
        BY <2>2
      <4> HIDE DEF hi, lo, x, w, e
      <4> QED BY <3>1, <4>1
    <3>4. StrToByte(hi, lo) = x
      BY <3>1, StrToByteIs
    <3> HIDE DEF p, e, x, hi, lo, w
    <3>5. CASE x \in AllowedCharacters
      <4>1. e = p /\ w[p] = x /\ p \in 1 .. Len(w)
        BY <1>1, <3>1, <3>2, <3>5
      <4>2. x # 37 /\ x # 43
        BY <3>5, AllowedIsSafe DEF Reserved
      <4>3. g[p] = <<IF w[p] = 43 THEN 32 ELSE w[p]>> \o g[p + 1]
        BY <1>10, <4>1, <4>2
      <4>4. g[p] = <<x>> \o g[e + 1]
        BY <4>1, <4>2, <4>3
      <4> QED BY <4>4 DEF p, e, x
    <3>6. CASE x \notin AllowedCharacters
      <4>1. e = p + 2 /\ w[p] = 37 /\ w[p + 1] = hi /\ w[p + 2] = lo
        BY <3>3, <3>6
      <4>2. p \in 1 .. Len(w) /\ p + 1 <= Len(w) /\ p + 2 <= Len(w) /\ p + 3 = e + 1
        BY <1>1, <3>1, <4>1
      <4>3. g[p] = <<StrToByte(CharAt(w, p + 1), CharAt(w, p + 2))>> \o g[p + 3]
        BY <1>10, <4>1, <4>2
      <4>4. CharAt(w, p + 1) = hi /\ CharAt(w, p + 2) = lo
        BY <4>1, <4>2 DEF CharAt
      <4>5. g[p] = <<x>> \o g[e + 1]
        BY <3>4, <4>2, <4>3, <4>4
      <4> QED BY <4>5 DEF p, e, x
    <3> QED BY <3>5, <3>6
  <2> DEFINE q == g[off[k + 1] + 1]
             r == g[off[k] + 1]
  <2>4. Rest(q, k + 1) /\ r = <<str[k + 1]>> \o q
    BY <1>6, <2>3
  <2> HIDE DEF q, r, w
  <2>5. /\ r \in Seq(0 .. 255) /\ Len(q) = n - (k + 1) /\ Len(r) = Len(q) + 1 /\ r[1] = str[k + 1]
        /\ \A j \in 1 .. Len(q) : r[j + 1] = q[j]
        /\ \A j \in 1 .. n - (k + 1) : q[j] = str[(k + 1) + j]
    BY <2>2, <2>4, ConsIs
  <2> HIDE DEF n
  <2>6. Len(r) = n - k
    BY <1>1, <2>5
  <2>7. ASSUME NEW j \in 1 .. n - k PROVE r[j] = str[k + j]
    <3>1. CASE j = 1
      BY <2>5, <3>1
    <3>2. CASE j # 1
      <4>1. j - 1 \in 1 .. n - (k + 1) /\ (j - 1) + 1 = j /\ (k + 1) + (j - 1) = k + j
        BY <1>1, <3>2
      <4>2. r[(j - 1) + 1] = q[j - 1] /\ q[j - 1] = str[(k + 1) + (j - 1)]
        BY <2>5, <4>1
      <4> QED BY <4>1, <4>2
    <3> QED BY <3>1, <3>2
  <2>8. Rest(r, k)
    BY <2>5, <2>6, <2>7
  <2> QED BY <2>1, <2>8 DEF r
<1> HIDE DEF T
<1>7. 0 .. n \subseteq T
  <2>1. 0 \in Int /\ n \in Int
    BY <1>1
  <2>2. \A k \in 0 .. n - 1 : k + 1 \in T => k \in T
    BY <1>6
  <2> QED BY <1>5, <2>1, <2>2, Downwards
<1>8. 0 \in T
  BY <1>1, <1>7
<1>9. /\ g[1] \in Seq(0 .. 255) /\ Len(g[1]) = n /\ \A j \in 1 .. n : g[1][j] = str[j]
  <2>1. off[0] + 1 = 1 /\ n - 0 = n /\ \A j \in 1 .. n : 0 + j = j
    BY <1>1, <1>4
  <2>2. Rest(g[off[0] + 1], 0)
    BY <1>8 DEF T
  <2> HIDE DEF n
  <2> QED BY <2>1, <2>2
<1> QED BY <1>3, <1>9, SeqEqual

\* Bytes, and at most n of them.
Small(q, n) == q \in Seq(0 .. 255) /\ Len(q) <= n

LEMMA ForeignHex ==
  ASSUME NEW str \in Seq(0 .. 255) PROVE Small(HexDecode(str), Len(str))
<1> DEFINE n == Len(str) \div 2
           q == HexDecode(str)
<1>1. Len(str) \in Nat /\ n \in Nat /\ n <= Len(str)
  <2>1. \A m \in Nat : m \div 2 \in Nat /\ m \div 2 <= m
    OBVIOUS
  <2> QED BY <2>1, LenProperties
<1>2. q \in [1 .. n -> 0 .. 255]
  <2>1. q = [k \in 1 .. n |-> StrToByte(str[2 * k - 1], str[2 * k])]
    BY DEF HexDecode
  <2>2. \A k \in 1 .. n : StrToByte(str[2 * k - 1], str[2 * k]) \in 0 .. 255
    BY StrToByteTyped
  <2> HIDE DEF q, n
  <2> QED BY <2>1, <2>2
<1> HIDE DEF q, n
<1>3. q \in Seq(0 .. 255) /\ Len(q) = n
  BY <1>1, <1>2
<1> QED BY <1>1, <1>3 DEF Small, q

LEMMA ForeignUrl ==
  ASSUME NEW str \in Seq(0 .. 255) PROVE Small(UrlDecode(str), Len(str))
<1> DEFINE n == Len(str)
           Left(m) == IF m > n THEN 0 ELSE n + 1 - m
<1>1. n \in Nat /\ \A m \in 1 .. n : str[m] \in 0 .. 255
  BY LenProperties, ElementOfSeq
<1>2. PICK g : Decodes(g, str, 1) /\ UrlDecode(str) = g[1]
  BY <1>1, UrlDecodeIs
<1>3. /\ \A m \in n + 1 .. n + 3 : g[m] = <<>>
      /\ \A m \in 1 .. n : str[m] = 37 =>
           g[m] = <<StrToByte(CharAt(str, m + 1), CharAt(str, m + 2))>> \o g[m + 3]
      /\ \A m \in 1 .. n : str[m] # 37 =>
           g[m] = <<IF str[m] = 43 THEN 32 ELSE str[m]>> \o g[m + 1]
  BY <1>1, <1>2, DecodesAt
<1> DEFINE T == {k \in 1 .. n + 1 : \A m \in k .. n + 3 : Small(g[m], Left(m))}
<1> HIDE DEF n
<1>4. n + 1 \in T
  <2>1. \A m \in n + 1 .. n + 3 : Left(m) = 0
    BY <1>1
  <2>2. Small(<<>>, 0)
    BY DEF Small
  <2>3. \A m \in n + 1 .. n + 3 : Small(g[m], Left(m))
    BY <1>3, <2>1, <2>2
  <2>4. n + 1 \in 1 .. n + 1
    BY <1>1
  <2> HIDE DEF Left
  <2> QED BY <2>3, <2>4
<1>5. ASSUME NEW k \in 1 .. n, k + 1 \in T PROVE k \in T
  <2>1. \A m \in k + 1 .. n + 3 : Small(g[m], Left(m))
    BY <1>5
  <2>2. Left(k) \in Nat /\ Left(k + 1) <= Left(k) - 1 /\ Left(k + 3) <= Left(k) - 1
    BY <1>1
  <2>3. k + 1 \in k + 1 .. n + 3 /\ k + 3 \in k + 1 .. n + 3 /\ str[k] \in 0 .. 255
    BY <1>1
  <2> HIDE DEF Left
  <2>4. \E x \in 0 .. 255, d \in {1, 3} : g[k] = <<x>> \o g[k + d]
    <3>1. CASE str[k] = 37
      BY <1>3, <3>1, StrToByteTyped
    <3>2. CASE str[k] # 37
      <4>1. (IF str[k] = 43 THEN 32 ELSE str[k]) \in 0 .. 255
        BY <2>3
      <4> QED BY <1>3, <3>2, <4>1
    <3> QED BY <3>1, <3>2
  <2>5. PICK x \in 0 .. 255, d \in {1, 3} : g[k] = <<x>> \o g[k + d]
    BY <2>4
  <2>6. g[k + d] \in Seq(0 .. 255) /\ Len(g[k + d]) <= Left(k + d) /\ Left(k + d) <= Left(k) - 1
    BY <2>1, <2>2, <2>3 DEF Small
  <2> DEFINE q == g[k + d]
             l == Left(k + d)
             u == Left(k)
             r == g[k]
  <2>7. q \in Seq(0 .. 255) /\ Len(q) <= l /\ l <= u - 1 /\ u \in Nat /\ r = <<x>> \o q /\ l \in Int
    <3>1. Left(k + d) \in Int
      BY <1>1 DEF Left
    <3> QED BY <2>2, <2>5, <2>6, <3>1
  <2> HIDE DEF q, l, u, r
  <2>8. r \in Seq(0 .. 255) /\ Len(r) = Len(q) + 1 /\ Len(q) \in Nat
    BY <2>7, ConsIs
  <2>9. Len(r) <= u
    BY <2>7, <2>8
  <2>10. Small(g[k], Left(k))
    BY <2>8, <2>9 DEF Small, r, u
  <2>11. \A m \in k .. n + 3 : m = k \/ m \in k + 1 .. n + 3
    OBVIOUS
  <2>12. k \in 1 .. n + 1
    BY <1>1
  <2> QED BY <2>1, <2>10, <2>11, <2>12
<1> HIDE DEF T
<1>6. 1 .. n + 1 \subseteq T
  <2>1. 1 \in Int /\ n + 1 \in Int /\ (n + 1) - 1 = n
    BY <1>1
  <2>2. \A k \in 1 .. (n + 1) - 1 : k + 1 \in T => k \in T
    BY <1>5, <2>1
  <2> QED BY <1>4, <2>1, <2>2, Downwards
<1>7. 1 \in 1 .. n + 1 /\ 1 \in 1 .. n + 3 /\ Left(1) = n
  BY <1>1
<1>8. Small(g[1], Left(1))
  <2>1. 1 \in T
    BY <1>6, <1>7
  <2> HIDE DEF Left
  <2> QED BY <1>7, <2>1 DEF T
<1> QED BY <1>2, <1>7, <1>8 DEF n

-------------------------------------------------------------------------------
(* Bits regrouped *)

\* Bit j of numbers `from` bits wide.
BitOf(numbers, from, j) ==
  IF j < from * Len(numbers)
  THEN (numbers[j \div from + 1] \div 2 ^ (from - 1 - (j % from))) % 2 ELSE 0

\* p[b] is the number of the first b bits of group k.
Joins(p, numbers, from, to, k) ==
  p = [b \in 0 .. to |-> IF b = 0 THEN 0 ELSE 2 * p[b - 1] + BitOf(numbers, from, k * to + b - 1)]

LEMMA JoinsExists ==
  ASSUME NEW numbers, NEW from, NEW to \in Nat, NEW k \in Nat,
         \A j \in Nat : BitOf(numbers, from, j) \in {0, 1}
  PROVE  \E p : Joins(p, numbers, from, to, k)
<1> DEFINE beta == [b \in 1 .. to |-> BitOf(numbers, from, k * to + b - 1)]
           f == [b \in 1 .. to |-> [x \in Nat |-> 2 * x + beta[b]]]
<1>1. \A b \in 1 .. to : beta[b] = BitOf(numbers, from, k * to + b - 1) /\ beta[b] \in Nat
  <2>1. \A b \in 1 .. to : k * to + b - 1 \in Nat
    <3>1. k * to \in Nat
      OBVIOUS
    <3> QED BY <3>1
  <2> QED BY <2>1
<1> HIDE DEF beta
<1>2. f \in [1 .. to -> [Nat -> Nat]] /\ \A b \in 1 .. to, x \in Nat : f[b][x] = 2 * x + beta[b]
  BY <1>1
<1> HIDE DEF f
<1>3. PICK h : Climbs(h, Nat, 0, to, f)
  BY <1>2, ClimbExists
<1>4. ASSUME NEW b \in 0 .. to
      PROVE  h[b] = IF b = 0 THEN 0 ELSE 2 * h[b - 1] + BitOf(numbers, from, k * to + b - 1)
  <2>1. b = 0 \/ (b \in 1 .. to /\ b # 0 /\ b - 1 \in 0 .. to)
    OBVIOUS
  <2>2. h[0] = 0
    BY <1>3 DEF Climbs
  <2>3. b # 0 => h[b - 1] \in Nat /\ h[b] = f[b][h[b - 1]]
    BY <1>3, <2>1 DEF Climbs
  <2>4. b # 0 => f[b][h[b - 1]] = 2 * h[b - 1] + beta[b]
    BY <1>2, <2>1, <2>3
  <2>5. b # 0 => beta[b] = BitOf(numbers, from, k * to + b - 1)
    BY <1>1, <2>1
  <2> QED BY <2>2, <2>3, <2>4, <2>5
<1>5. h = [b \in 0 .. to |-> h[b]]
  BY <1>3 DEF Climbs
<1>6. Joins(h, numbers, from, to, k)
  BY <1>4, <1>5 DEF Joins
<1> QED BY <1>6

\* r are the last numbers of the groups p.
Grouped(r, p, numbers, from, to, count) ==
  /\ \A k \in 1 .. count : Joins(p[k], numbers, from, to, k - 1)
  /\ r = [k \in 1 .. count |-> p[k][to]]

LEMMA RegroupIs ==
  ASSUME NEW numbers, NEW from, NEW to \in Nat, NEW count \in Nat,
         \A j \in Nat : BitOf(numbers, from, j) \in {0, 1}
  PROVE  \E p : Grouped(Regroup(numbers, from, to, count), p, numbers, from, to, count)
<1> DEFINE upto(k) == CHOOSE p : Joins(p, numbers, from, to, k)
           p == [k \in 1 .. count |-> upto(k - 1)]
<1>1. ASSUME NEW k \in 1 .. count PROVE Joins(upto(k - 1), numbers, from, to, k - 1)
  <2>1. k - 1 \in Nat
    OBVIOUS
  <2>2. \E q : Joins(q, numbers, from, to, k - 1)
    BY <2>1, JoinsExists
  <2> QED BY <2>2
<1>2. Regroup(numbers, from, to, count) = [k \in 1 .. count |-> upto(k - 1)[to]]
  BY DEF Regroup, Joins, BitOf
<1> HIDE DEF upto
<1>3. \A k \in 1 .. count : p[k] = upto(k - 1)
  OBVIOUS
<1> HIDE DEF p
<1>4. Grouped(Regroup(numbers, from, to, count), p, numbers, from, to, count)
  BY <1>1, <1>2, <1>3 DEF Grouped
<1> QED BY <1>4

\* Six or eight bits as a number.
Six(a, b, c, d, e, f) == 32 * a + 16 * b + 8 * c + 4 * d + 2 * e + f
Eight(a, b, c, d, e, f, g, h) ==
  128 * a + 64 * b + 32 * c + 16 * d + 8 * e + 4 * f + 2 * g + h

LEMMA JoinsSix ==
  ASSUME NEW p, NEW numbers, NEW from, NEW k \in Nat, Joins(p, numbers, from, 6, k),
         \A j \in Nat : BitOf(numbers, from, j) \in {0, 1}
  PROVE  p[6] = Six(BitOf(numbers, from, 6 * k), BitOf(numbers, from, 6 * k + 1),
                    BitOf(numbers, from, 6 * k + 2), BitOf(numbers, from, 6 * k + 3),
                    BitOf(numbers, from, 6 * k + 4), BitOf(numbers, from, 6 * k + 5))
<1> DEFINE B(j) == BitOf(numbers, from, j)
<1>1. \A b \in 0 .. 6 : p[b] = IF b = 0 THEN 0 ELSE 2 * p[b - 1] + B(k * 6 + b - 1)
  BY DEF Joins
<1>2. \A j \in Nat : B(j) \in Int
  OBVIOUS
<1> HIDE DEF B
<1>3. /\ k * 6 + 1 - 1 = 6 * k /\ k * 6 + 2 - 1 = 6 * k + 1 /\ k * 6 + 3 - 1 = 6 * k + 2
      /\ k * 6 + 4 - 1 = 6 * k + 3 /\ k * 6 + 5 - 1 = 6 * k + 4 /\ k * 6 + 6 - 1 = 6 * k + 5
  OBVIOUS
<1>4. /\ p[0] = 0 /\ p[1] = 2 * p[0] + B(6 * k) /\ p[2] = 2 * p[1] + B(6 * k + 1)
      /\ p[3] = 2 * p[2] + B(6 * k + 2) /\ p[4] = 2 * p[3] + B(6 * k + 3)
      /\ p[5] = 2 * p[4] + B(6 * k + 4) /\ p[6] = 2 * p[5] + B(6 * k + 5)
  BY <1>1, <1>3
<1>5. /\ B(6 * k) \in Int /\ B(6 * k + 1) \in Int /\ B(6 * k + 2) \in Int
      /\ B(6 * k + 3) \in Int /\ B(6 * k + 4) \in Int /\ B(6 * k + 5) \in Int
  BY <1>2
<1> DEFINE a0 == B(6 * k)
           a1 == B(6 * k + 1)
           a2 == B(6 * k + 2)
           a3 == B(6 * k + 3)
           a4 == B(6 * k + 4)
           a5 == B(6 * k + 5)
<1> HIDE DEF a0, a1, a2, a3, a4, a5
<1>6. p[6] = Six(a0, a1, a2, a3, a4, a5)
  <2>1. /\ p[0] = 0 /\ p[1] = 2 * p[0] + a0 /\ p[2] = 2 * p[1] + a1
        /\ p[3] = 2 * p[2] + a2 /\ p[4] = 2 * p[3] + a3
        /\ p[5] = 2 * p[4] + a4 /\ p[6] = 2 * p[5] + a5
    BY <1>4 DEF a0, a1, a2, a3, a4, a5
  <2>2. a0 \in Int /\ a1 \in Int /\ a2 \in Int /\ a3 \in Int /\ a4 \in Int /\ a5 \in Int
    BY <1>5 DEF a0, a1, a2, a3, a4, a5
  <2>3. p[1] = a0 /\ p[2] = 2 * a0 + a1
    BY <2>1, <2>2
  <2>4. p[3] = 4 * a0 + 2 * a1 + a2
    BY <2>1, <2>2, <2>3
  <2>5. p[4] = 8 * a0 + 4 * a1 + 2 * a2 + a3
    BY <2>1, <2>2, <2>4
  <2>6. p[5] = 16 * a0 + 8 * a1 + 4 * a2 + 2 * a3 + a4
    BY <2>1, <2>2, <2>5
  <2> QED BY <2>1, <2>2, <2>6 DEF Six
<1> QED BY <1>6 DEF a0, a1, a2, a3, a4, a5, B

LEMMA JoinsEight ==
  ASSUME NEW p, NEW numbers, NEW from, NEW k \in Nat, Joins(p, numbers, from, 8, k),
         \A j \in Nat : BitOf(numbers, from, j) \in {0, 1}
  PROVE  p[8] = Eight(BitOf(numbers, from, 8 * k), BitOf(numbers, from, 8 * k + 1),
                      BitOf(numbers, from, 8 * k + 2), BitOf(numbers, from, 8 * k + 3),
                      BitOf(numbers, from, 8 * k + 4), BitOf(numbers, from, 8 * k + 5),
                      BitOf(numbers, from, 8 * k + 6), BitOf(numbers, from, 8 * k + 7))
<1> DEFINE B(j) == BitOf(numbers, from, j)
<1>1. \A b \in 0 .. 8 : p[b] = IF b = 0 THEN 0 ELSE 2 * p[b - 1] + B(k * 8 + b - 1)
  BY DEF Joins
<1>2. \A j \in Nat : B(j) \in Int
  OBVIOUS
<1> HIDE DEF B
<1>3. /\ k * 8 + 1 - 1 = 8 * k /\ k * 8 + 2 - 1 = 8 * k + 1 /\ k * 8 + 3 - 1 = 8 * k + 2
      /\ k * 8 + 4 - 1 = 8 * k + 3 /\ k * 8 + 5 - 1 = 8 * k + 4 /\ k * 8 + 6 - 1 = 8 * k + 5
      /\ k * 8 + 7 - 1 = 8 * k + 6 /\ k * 8 + 8 - 1 = 8 * k + 7
  OBVIOUS
<1>4. /\ p[0] = 0 /\ p[1] = 2 * p[0] + B(8 * k) /\ p[2] = 2 * p[1] + B(8 * k + 1)
      /\ p[3] = 2 * p[2] + B(8 * k + 2) /\ p[4] = 2 * p[3] + B(8 * k + 3)
      /\ p[5] = 2 * p[4] + B(8 * k + 4) /\ p[6] = 2 * p[5] + B(8 * k + 5)
      /\ p[7] = 2 * p[6] + B(8 * k + 6) /\ p[8] = 2 * p[7] + B(8 * k + 7)
  BY <1>1, <1>3
<1>5. /\ B(8 * k) \in Int /\ B(8 * k + 1) \in Int /\ B(8 * k + 2) \in Int /\ B(8 * k + 3) \in Int
      /\ B(8 * k + 4) \in Int /\ B(8 * k + 5) \in Int /\ B(8 * k + 6) \in Int /\ B(8 * k + 7) \in Int
  BY <1>2
<1> DEFINE a0 == B(8 * k)
           a1 == B(8 * k + 1)
           a2 == B(8 * k + 2)
           a3 == B(8 * k + 3)
           a4 == B(8 * k + 4)
           a5 == B(8 * k + 5)
           a6 == B(8 * k + 6)
           a7 == B(8 * k + 7)
<1> HIDE DEF a0, a1, a2, a3, a4, a5, a6, a7
<1>6. p[8] = Eight(a0, a1, a2, a3, a4, a5, a6, a7)
  <2>1. /\ p[0] = 0 /\ p[1] = 2 * p[0] + a0 /\ p[2] = 2 * p[1] + a1
        /\ p[3] = 2 * p[2] + a2 /\ p[4] = 2 * p[3] + a3
        /\ p[5] = 2 * p[4] + a4 /\ p[6] = 2 * p[5] + a5
        /\ p[7] = 2 * p[6] + a6 /\ p[8] = 2 * p[7] + a7
    BY <1>4 DEF a0, a1, a2, a3, a4, a5, a6, a7
  <2>2. /\ a0 \in Int /\ a1 \in Int /\ a2 \in Int /\ a3 \in Int
        /\ a4 \in Int /\ a5 \in Int /\ a6 \in Int /\ a7 \in Int
    BY <1>5 DEF a0, a1, a2, a3, a4, a5, a6, a7
  <2>3. p[1] = a0 /\ p[2] = 2 * a0 + a1
    BY <2>1, <2>2
  <2>4. p[3] = 4 * a0 + 2 * a1 + a2
    BY <2>1, <2>2, <2>3
  <2>5. p[4] = 8 * a0 + 4 * a1 + 2 * a2 + a3
    BY <2>1, <2>2, <2>4
  <2>6. p[5] = 16 * a0 + 8 * a1 + 4 * a2 + 2 * a3 + a4
    BY <2>1, <2>2, <2>5
  <2>7. p[6] = 32 * a0 + 16 * a1 + 8 * a2 + 4 * a3 + 2 * a4 + a5
    BY <2>1, <2>2, <2>6
  <2>8. p[7] = 64 * a0 + 32 * a1 + 16 * a2 + 8 * a3 + 4 * a4 + 2 * a5 + a6
    BY <2>1, <2>2, <2>7
  <2> QED BY <2>1, <2>2, <2>8 DEF Eight
<1> QED BY <1>6 DEF a0, a1, a2, a3, a4, a5, a6, a7, B

AreBits(a, b, c, d, e, f) ==
  a \in {0, 1} /\ b \in {0, 1} /\ c \in {0, 1} /\ d \in {0, 1} /\ e \in {0, 1} /\ f \in {0, 1}

\* The bits of v, the highest first.
HasBits(v, a, b, c, d, e, f) ==
  /\ v \in 0 .. 63
  /\ (v \div 32) % 2 = a /\ (v \div 16) % 2 = b /\ (v \div 8) % 2 = c
  /\ (v \div 4) % 2 = d /\ (v \div 2) % 2 = e /\ (v \div 1) % 2 = f

LEMMA SixHasBits ==
  \A a, b, c, d, e, f : AreBits(a, b, c, d, e, f) => HasBits(Six(a, b, c, d, e, f), a, b, c, d, e, f)
BY DEF AreBits, HasBits, Six

AreEightBits(a, b, c, d, e, f, g, h) ==
  /\ a \in {0, 1} /\ b \in {0, 1} /\ c \in {0, 1} /\ d \in {0, 1}
  /\ e \in {0, 1} /\ f \in {0, 1} /\ g \in {0, 1} /\ h \in {0, 1}

LEMMA EightTyped ==
  \A a, b, c, d, e, f, g, h :
    AreEightBits(a, b, c, d, e, f, g, h) => Eight(a, b, c, d, e, f, g, h) \in 0 .. 255
BY DEF AreEightBits, Eight

LEMMA EightOfByte ==
  ASSUME NEW x \in 0 .. 255
  PROVE  x = Eight((x \div 128) % 2, (x \div 64) % 2, (x \div 32) % 2, (x \div 16) % 2,
                   (x \div 8) % 2, (x \div 4) % 2, (x \div 2) % 2, (x \div 1) % 2)
BY DEF Eight

LEMMA PowersOfTwo ==
  /\ 2 ^ 0 = 1 /\ 2 ^ 1 = 2 /\ 2 ^ 2 = 4 /\ 2 ^ 3 = 8
  /\ 2 ^ 4 = 16 /\ 2 ^ 5 = 32 /\ 2 ^ 6 = 64 /\ 2 ^ 7 = 128
OBVIOUS

LEMMA BitsOfNumber8 ==
  ASSUME NEW numbers, Len(numbers) \in Nat, NEW m \in 0 .. Len(numbers) - 1
  PROVE  /\ BitOf(numbers, 8, 8 * m) = (numbers[m + 1] \div 128) % 2
         /\ BitOf(numbers, 8, 8 * m + 1) = (numbers[m + 1] \div 64) % 2
         /\ BitOf(numbers, 8, 8 * m + 2) = (numbers[m + 1] \div 32) % 2
         /\ BitOf(numbers, 8, 8 * m + 3) = (numbers[m + 1] \div 16) % 2
         /\ BitOf(numbers, 8, 8 * m + 4) = (numbers[m + 1] \div 8) % 2
         /\ BitOf(numbers, 8, 8 * m + 5) = (numbers[m + 1] \div 4) % 2
         /\ BitOf(numbers, 8, 8 * m + 6) = (numbers[m + 1] \div 2) % 2
         /\ BitOf(numbers, 8, 8 * m + 7) = (numbers[m + 1] \div 1) % 2
<1>1. \A c \in 0 .. 7 : /\ 8 * m + c < 8 * Len(numbers) /\ (8 * m + c) \div 8 = m
                        /\ (8 * m + c) % 8 = c
  OBVIOUS
<1>2. ASSUME NEW c \in 0 .. 7
      PROVE  BitOf(numbers, 8, 8 * m + c) = (numbers[m + 1] \div 2 ^ (7 - c)) % 2
  <2>1. 8 - 1 - c = 7 - c
    OBVIOUS
  <2> QED BY <1>1, <2>1 DEF BitOf
<1>3. /\ 8 * m + 0 = 8 * m
      /\ 7 - 0 = 7 /\ 7 - 1 = 6 /\ 7 - 2 = 5 /\ 7 - 3 = 4 /\ 7 - 4 = 3 /\ 7 - 5 = 2
      /\ 7 - 6 = 1 /\ 7 - 7 = 0
  OBVIOUS
<1>4. /\ BitOf(numbers, 8, 8 * m + 0) = (numbers[m + 1] \div 2 ^ (7 - 0)) % 2
      /\ BitOf(numbers, 8, 8 * m + 1) = (numbers[m + 1] \div 2 ^ (7 - 1)) % 2
      /\ BitOf(numbers, 8, 8 * m + 2) = (numbers[m + 1] \div 2 ^ (7 - 2)) % 2
      /\ BitOf(numbers, 8, 8 * m + 3) = (numbers[m + 1] \div 2 ^ (7 - 3)) % 2
      /\ BitOf(numbers, 8, 8 * m + 4) = (numbers[m + 1] \div 2 ^ (7 - 4)) % 2
      /\ BitOf(numbers, 8, 8 * m + 5) = (numbers[m + 1] \div 2 ^ (7 - 5)) % 2
      /\ BitOf(numbers, 8, 8 * m + 6) = (numbers[m + 1] \div 2 ^ (7 - 6)) % 2
      /\ BitOf(numbers, 8, 8 * m + 7) = (numbers[m + 1] \div 2 ^ (7 - 7)) % 2
  BY <1>2
<1> QED BY <1>3, <1>4, PowersOfTwo

LEMMA BitsOfNumber6 ==
  ASSUME NEW numbers, Len(numbers) \in Nat, NEW m \in 0 .. Len(numbers) - 1
  PROVE  /\ BitOf(numbers, 6, 6 * m) = (numbers[m + 1] \div 32) % 2
         /\ BitOf(numbers, 6, 6 * m + 1) = (numbers[m + 1] \div 16) % 2
         /\ BitOf(numbers, 6, 6 * m + 2) = (numbers[m + 1] \div 8) % 2
         /\ BitOf(numbers, 6, 6 * m + 3) = (numbers[m + 1] \div 4) % 2
         /\ BitOf(numbers, 6, 6 * m + 4) = (numbers[m + 1] \div 2) % 2
         /\ BitOf(numbers, 6, 6 * m + 5) = (numbers[m + 1] \div 1) % 2
<1>1. \A c \in 0 .. 5 : /\ 6 * m + c < 6 * Len(numbers) /\ (6 * m + c) \div 6 = m
                        /\ (6 * m + c) % 6 = c
  OBVIOUS
<1>2. ASSUME NEW c \in 0 .. 5
      PROVE  BitOf(numbers, 6, 6 * m + c) = (numbers[m + 1] \div 2 ^ (5 - c)) % 2
  <2>1. 6 - 1 - c = 5 - c
    OBVIOUS
  <2> QED BY <1>1, <2>1 DEF BitOf
<1>3. /\ 6 * m + 0 = 6 * m
      /\ 5 - 0 = 5 /\ 5 - 1 = 4 /\ 5 - 2 = 3 /\ 5 - 3 = 2 /\ 5 - 4 = 1 /\ 5 - 5 = 0
  OBVIOUS
<1>4. /\ BitOf(numbers, 6, 6 * m + 0) = (numbers[m + 1] \div 2 ^ (5 - 0)) % 2
      /\ BitOf(numbers, 6, 6 * m + 1) = (numbers[m + 1] \div 2 ^ (5 - 1)) % 2
      /\ BitOf(numbers, 6, 6 * m + 2) = (numbers[m + 1] \div 2 ^ (5 - 2)) % 2
      /\ BitOf(numbers, 6, 6 * m + 3) = (numbers[m + 1] \div 2 ^ (5 - 3)) % 2
      /\ BitOf(numbers, 6, 6 * m + 4) = (numbers[m + 1] \div 2 ^ (5 - 4)) % 2
      /\ BitOf(numbers, 6, 6 * m + 5) = (numbers[m + 1] \div 2 ^ (5 - 5)) % 2
  BY <1>2
<1> QED BY <1>3, <1>4, PowersOfTwo

LEMMA BitsAreBits ==
  ASSUME NEW numbers, NEW from \in {6, 8}, Len(numbers) \in Nat,
         \A k \in 1 .. Len(numbers) : numbers[k] \in Nat
  PROVE  \A j \in Nat : BitOf(numbers, from, j) \in {0, 1}
<1> SUFFICES ASSUME NEW j \in Nat, j < from * Len(numbers)
             PROVE  BitOf(numbers, from, j) \in {0, 1}
  BY DEF BitOf
<1>1. j \div from + 1 \in 1 .. Len(numbers) /\ from - 1 - (j % from) \in 0 .. 7
  <2>1. CASE from = 6
    BY <2>1
  <2>2. CASE from = 8
    BY <2>2
  <2> QED BY <2>1, <2>2
<1>2. \A e \in 0 .. 7 : 2 ^ e \in {1, 2, 4, 8, 16, 32, 64, 128}
  <2>1. \A e \in 0 .. 7 : e = 0 \/ e = 1 \/ e = 2 \/ e = 3 \/ e = 4 \/ e = 5 \/ e = 6 \/ e = 7
    OBVIOUS
  <2> QED BY <2>1, PowersOfTwo, ZenonT(30)
<1>3. \A n \in Nat, d \in {1, 2, 4, 8, 16, 32, 64, 128} : (n \div d) % 2 \in {0, 1}
  OBVIOUS
<1>4. BitOf(numbers, from, j)
        = (numbers[j \div from + 1] \div 2 ^ (from - 1 - (j % from))) % 2
  BY DEF BitOf
<1> QED BY <1>1, <1>2, <1>3, <1>4, ZenonT(30)

LEMMA Base64CharIs ==
  ASSUME NEW v \in 0 .. 63
  PROVE  /\ v \in 0 .. 25 => Base64Char(v) = 65 + v
         /\ v \in 26 .. 51 => Base64Char(v) = 71 + v
         /\ v \in 52 .. 61 => Base64Char(v) = v - 4
         /\ v = 62 => Base64Char(v) = 43
         /\ v = 63 => Base64Char(v) = 47
BY DEF Base64Char, Plus

LEMMA Base64ValueIs ==
  ASSUME NEW v \in 0 .. 63
  PROVE  /\ Base64Value(Base64Char(v)) = v
         /\ Base64Char(v) \in Int /\ Base64Char(v) # 61 /\ Base64Char(v) \in Base64Chars
<1>1. Base64Char(v) \in Int /\ Base64Char(v) # 61
  <2>1. v \in 0 .. 25 \/ v \in 26 .. 51 \/ v \in 52 .. 61 \/ v = 62 \/ v = 63
    OBVIOUS
  <2> QED BY <2>1, Base64CharIs
<1>2. \A n \in 0 .. 63 : Base64Char(n) = Base64Char(v) => n = v
  <2>1. \A n \in 0 .. 63 : n \in 0 .. 25 \/ n \in 26 .. 51 \/ n \in 52 .. 61 \/ n = 62 \/ n = 63
    OBVIOUS
  <2> QED BY <2>1, Base64CharIs
<1>3. Base64Value(Base64Char(v)) = CHOOSE n \in 0 .. 63 : Base64Char(n) = Base64Char(v)
  BY <1>1 DEF Base64Value, Equal
<1>4. \E n \in 0 .. 63 : Base64Char(n) = Base64Char(v)
  OBVIOUS
<1> QED BY <1>1, <1>2, <1>3, <1>4 DEF Base64Chars

LEMMA Base64ValueTyped ==
  ASSUME NEW c \in Base64Chars \cup {61} PROVE Base64Value(c) \in 0 .. 63
<1>1. CASE c = 61
  BY <1>1 DEF Base64Value, Equal
<1>2. CASE c # 61
  <2>1. PICK v \in 0 .. 63 : c = Base64Char(v)
    BY <1>2 DEF Base64Chars
  <2> QED BY <2>1, Base64ValueIs
<1> QED BY <1>1, <1>2

\* The number of sextets that n bytes fill.
Count(n) == (8 * n + 5) \div 6

LEMMA Counts ==
  ASSUME NEW n \in Nat
  PROVE  /\ Count(n) \in Nat /\ 6 * Count(n) >= 8 * n /\ (6 * Count(n)) \div 8 = n
         /\ Count(n) % 4 # 1
         /\ n % 3 = 0 => Count(n) = 4 * ((n + 2) \div 3)
         /\ n % 3 = 1 => Count(n) + 2 = 4 * ((n + 2) \div 3)
         /\ n % 3 = 2 => Count(n) + 1 = 4 * ((n + 2) \div 3)
         /\ n % 3 = 0 \/ n % 3 = 1 \/ n % 3 = 2
<1>1. Count(n) \in Nat /\ 6 * Count(n) >= 8 * n /\ 6 * Count(n) <= 8 * n + 5
  BY DEF Count
<1>2. (6 * Count(n)) \div 8 = n
  <2>1. \A x \in Nat : x >= 8 * n /\ x <= 8 * n + 5 => x \div 8 = n
    OBVIOUS
  <2>2. 6 * Count(n) \in Nat
    BY <1>1
  <2> QED BY <1>1, <2>1, <2>2
<1>3. n % 3 = 0 \/ n % 3 = 1 \/ n % 3 = 2
  OBVIOUS
<1>4. PICK q \in Nat : n = 3 * q \/ n = 3 * q + 1 \/ n = 3 * q + 2
  <2>1. n \div 3 \in Nat /\ n = 3 * (n \div 3) + (n % 3)
    OBVIOUS
  <2> QED BY <1>3, <2>1
<1>5. CASE n = 3 * q
  <2>1. Count(n) = 4 * q /\ n % 3 = 0 /\ (n + 2) \div 3 = q
    BY <1>4, <1>5 DEF Count
  <2>2. (4 * q) % 4 = 0
    OBVIOUS
  <2> QED BY <1>1, <1>2, <2>1, <2>2
<1>6. CASE n = 3 * q + 1
  <2>1. Count(n) = 4 * q + 2 /\ n % 3 = 1 /\ (n + 2) \div 3 = q + 1
    BY <1>4, <1>6 DEF Count
  <2>2. (4 * q + 2) % 4 = 2 /\ 4 * (q + 1) = 4 * q + 2 + 2
    OBVIOUS
  <2> QED BY <1>1, <1>2, <2>1, <2>2
<1>7. CASE n = 3 * q + 2
  <2>1. Count(n) = 4 * q + 3 /\ n % 3 = 2 /\ (n + 2) \div 3 = q + 1
    BY <1>4, <1>7 DEF Count
  <2>2. (4 * q + 3) % 4 = 3 /\ 4 * (q + 1) = 4 * q + 3 + 1
    OBVIOUS
  <2> QED BY <1>1, <1>2, <2>1, <2>2
<1> QED BY <1>4, <1>5, <1>6, <1>7

LEMMA SextetsAre ==
  ASSUME NEW str \in Seq(0 .. 255), NEW n \in Nat, n = Len(str),
         NEW sx, sx = Regroup(str, 8, 6, Count(n))
  PROVE  /\ sx \in [1 .. Count(n) -> 0 .. 63] /\ sx \in Seq(0 .. 63) /\ Len(sx) = Count(n)
         /\ \A k \in 1 .. Count(n) :
              sx[k] = Six(BitOf(str, 8, 6 * (k - 1)), BitOf(str, 8, 6 * (k - 1) + 1),
                          BitOf(str, 8, 6 * (k - 1) + 2), BitOf(str, 8, 6 * (k - 1) + 3),
                          BitOf(str, 8, 6 * (k - 1) + 4), BitOf(str, 8, 6 * (k - 1) + 5))
         /\ \A j \in Nat : BitOf(str, 8, j) \in {0, 1}
<1>1. \A j \in Nat : BitOf(str, 8, j) \in {0, 1}
  <2>1. \A k \in 1 .. Len(str) : str[k] \in Nat
    <3>1. \A k \in 1 .. Len(str) : str[k] \in 0 .. 255
      BY ElementOfSeq
    <3>2. \A x \in 0 .. 255 : x \in Nat
      OBVIOUS
    <3> QED BY <3>1, <3>2
  <2>2. 8 \in {6, 8} /\ Len(str) \in Nat
    OBVIOUS
  <2> QED BY <2>1, <2>2, BitsAreBits
<1>2. Count(n) \in Nat
  BY Counts
<1>3. PICK p : Grouped(sx, p, str, 8, 6, Count(n))
  <2>1. 6 \in Nat
    OBVIOUS
  <2> QED BY <1>1, <1>2, <2>1, RegroupIs
<1>4. ASSUME NEW k \in 1 .. Count(n)
      PROVE  /\ sx[k] = Six(BitOf(str, 8, 6 * (k - 1)), BitOf(str, 8, 6 * (k - 1) + 1),
                            BitOf(str, 8, 6 * (k - 1) + 2), BitOf(str, 8, 6 * (k - 1) + 3),
                            BitOf(str, 8, 6 * (k - 1) + 4), BitOf(str, 8, 6 * (k - 1) + 5))
             /\ sx[k] \in 0 .. 63
  <2>1. k - 1 \in Nat /\ Joins(p[k], str, 8, 6, k - 1) /\ sx[k] = p[k][6]
    BY <1>2, <1>3 DEF Grouped
  <2>2. sx[k] = Six(BitOf(str, 8, 6 * (k - 1)), BitOf(str, 8, 6 * (k - 1) + 1),
                    BitOf(str, 8, 6 * (k - 1) + 2), BitOf(str, 8, 6 * (k - 1) + 3),
                    BitOf(str, 8, 6 * (k - 1) + 4), BitOf(str, 8, 6 * (k - 1) + 5))
    BY <1>1, <2>1, JoinsSix
  <2>3. /\ 6 * (k - 1) \in Nat /\ 6 * (k - 1) + 1 \in Nat /\ 6 * (k - 1) + 2 \in Nat
        /\ 6 * (k - 1) + 3 \in Nat /\ 6 * (k - 1) + 4 \in Nat /\ 6 * (k - 1) + 5 \in Nat
    BY <2>1
  <2>4. /\ BitOf(str, 8, 6 * (k - 1)) \in {0, 1} /\ BitOf(str, 8, 6 * (k - 1) + 1) \in {0, 1}
        /\ BitOf(str, 8, 6 * (k - 1) + 2) \in {0, 1} /\ BitOf(str, 8, 6 * (k - 1) + 3) \in {0, 1}
        /\ BitOf(str, 8, 6 * (k - 1) + 4) \in {0, 1} /\ BitOf(str, 8, 6 * (k - 1) + 5) \in {0, 1}
    BY <1>1, <2>3
  <2>5. PICK a, b, c, d, e, f :
          AreBits(a, b, c, d, e, f) /\ sx[k] = Six(a, b, c, d, e, f)
    BY <2>2, <2>4 DEF AreBits
  <2>6. HasBits(sx[k], a, b, c, d, e, f)
    BY <2>5, SixHasBits
  <2>7. sx[k] \in 0 .. 63
    BY <2>6 DEF HasBits
  <2> QED BY <2>2, <2>7
<1>5. sx \in [1 .. Count(n) -> 0 .. 63]
  <2>1. sx = [k \in 1 .. Count(n) |-> sx[k]]
    BY <1>3 DEF Grouped
  <2> QED BY <1>4, <2>1
<1>6. sx \in Seq(0 .. 63) /\ Len(sx) = Count(n)
  <2> DEFINE c == Count(n)
  <2>1. c \in Nat /\ sx \in [1 .. c -> 0 .. 63]
    BY <1>2, <1>5
  <2> HIDE DEF c
  <2>2. sx \in Seq(0 .. 63) /\ Len(sx) = c
    BY <2>1
  <2> QED BY <2>2 DEF c
<1> QED BY <1>1, <1>4, <1>5, <1>6

\* The sextets hold the bits of the bytes, in their order.
LEMMA SameBitStream ==
  ASSUME NEW str \in Seq(0 .. 255), NEW n \in Nat, n = Len(str),
         NEW sx, sx = Regroup(str, 8, 6, Count(n)),
         NEW j \in 0 .. 8 * n - 1
  PROVE  BitOf(sx, 6, j) = BitOf(str, 8, j)
<1> DEFINE m == j \div 6
           B(c) == BitOf(str, 8, c)
<1>1. /\ Count(n) \in Nat /\ 6 * Count(n) >= 8 * n
  BY Counts
<1>2. /\ m \in Nat /\ m <= Count(n) - 1
      /\ j = 6 * m \/ j = 6 * m + 1 \/ j = 6 * m + 2 \/ j = 6 * m + 3 \/ j = 6 * m + 4 \/ j = 6 * m + 5
  BY <1>1
<1> HIDE DEF m
<1>3. Len(sx) = Count(n) /\ m \in 0 .. Len(sx) - 1 /\ m + 1 \in 1 .. Count(n) /\ (m + 1) - 1 = m
  <2>1. Len(sx) = Count(n)
    BY SextetsAre
  <2> QED BY <1>1, <1>2, <2>1
<1>4. /\ sx[m + 1] = Six(B(6 * m), B(6 * m + 1), B(6 * m + 2), B(6 * m + 3), B(6 * m + 4), B(6 * m + 5))
      /\ \A c \in Nat : B(c) \in {0, 1}
  <2>1. /\ \A k \in 1 .. Count(n) :
             sx[k] = Six(B(6 * (k - 1)), B(6 * (k - 1) + 1), B(6 * (k - 1) + 2), B(6 * (k - 1) + 3),
                         B(6 * (k - 1) + 4), B(6 * (k - 1) + 5))
        /\ \A c \in Nat : B(c) \in {0, 1}
    BY SextetsAre
  <2> HIDE DEF B
  <2> QED BY <1>3, <2>1
<1>5. /\ BitOf(sx, 6, 6 * m) = (sx[m + 1] \div 32) % 2
      /\ BitOf(sx, 6, 6 * m + 1) = (sx[m + 1] \div 16) % 2
      /\ BitOf(sx, 6, 6 * m + 2) = (sx[m + 1] \div 8) % 2
      /\ BitOf(sx, 6, 6 * m + 3) = (sx[m + 1] \div 4) % 2
      /\ BitOf(sx, 6, 6 * m + 4) = (sx[m + 1] \div 2) % 2
      /\ BitOf(sx, 6, 6 * m + 5) = (sx[m + 1] \div 1) % 2
  <2>1. Len(sx) \in Nat
    BY <1>1, <1>3
  <2> QED BY <1>3, <2>1, BitsOfNumber6
<1>6. /\ B(6 * m) \in {0, 1} /\ B(6 * m + 1) \in {0, 1} /\ B(6 * m + 2) \in {0, 1}
      /\ B(6 * m + 3) \in {0, 1} /\ B(6 * m + 4) \in {0, 1} /\ B(6 * m + 5) \in {0, 1}
  <2>1. /\ 6 * m \in Nat /\ 6 * m + 1 \in Nat /\ 6 * m + 2 \in Nat /\ 6 * m + 3 \in Nat
        /\ 6 * m + 4 \in Nat /\ 6 * m + 5 \in Nat
    BY <1>2
  <2> HIDE DEF B
  <2> QED BY <1>4, <2>1
<1> HIDE DEF B
<1>7. PICK a, b, c, d, e, f :
        /\ AreBits(a, b, c, d, e, f)
        /\ a = B(6 * m) /\ b = B(6 * m + 1) /\ c = B(6 * m + 2)
        /\ d = B(6 * m + 3) /\ e = B(6 * m + 4) /\ f = B(6 * m + 5)
  BY <1>6 DEF AreBits
<1>8. /\ BitOf(sx, 6, 6 * m) = a /\ BitOf(sx, 6, 6 * m + 1) = b /\ BitOf(sx, 6, 6 * m + 2) = c
      /\ BitOf(sx, 6, 6 * m + 3) = d /\ BitOf(sx, 6, 6 * m + 4) = e /\ BitOf(sx, 6, 6 * m + 5) = f
  <2>1. HasBits(sx[m + 1], a, b, c, d, e, f)
    BY <1>4, <1>7, SixHasBits
  <2> QED BY <1>5, <2>1 DEF HasBits
<1>9. /\ BitOf(sx, 6, 6 * m) = B(6 * m) /\ BitOf(sx, 6, 6 * m + 1) = B(6 * m + 1)
      /\ BitOf(sx, 6, 6 * m + 2) = B(6 * m + 2) /\ BitOf(sx, 6, 6 * m + 3) = B(6 * m + 3)
      /\ BitOf(sx, 6, 6 * m + 4) = B(6 * m + 4) /\ BitOf(sx, 6, 6 * m + 5) = B(6 * m + 5)
  BY <1>7, <1>8
<1>10. BitOf(sx, 6, j) = B(j)
  BY <1>2, <1>9
<1> QED BY <1>10 DEF B

LEMMA RegroupBack ==
  ASSUME NEW str \in Seq(0 .. 255), NEW n \in Nat, n = Len(str),
         NEW sx, sx = Regroup(str, 8, 6, Count(n))
  PROVE  Regroup(sx, 6, 8, n) = str
<1>1. /\ Len(sx) = Count(n) /\ Count(n) \in Nat /\ sx \in [1 .. Count(n) -> 0 .. 63]
  BY SextetsAre, Counts, ZenonT(30)
<1>2. \A j \in Nat : BitOf(sx, 6, j) \in {0, 1}
  <2>1. \A k \in 1 .. Len(sx) : sx[k] \in Nat
    <3>1. \A k \in 1 .. Len(sx) : sx[k] \in 0 .. 63
      BY <1>1
    <3>2. \A x \in 0 .. 63 : x \in Nat
      OBVIOUS
    <3> QED BY <3>1, <3>2
  <2>2. 6 \in {6, 8} /\ Len(sx) \in Nat
    BY <1>1
  <2> QED BY <2>1, <2>2, BitsAreBits
<1>3. PICK p : Grouped(Regroup(sx, 6, 8, n), p, sx, 6, 8, n)
  <2>1. 8 \in Nat
    OBVIOUS
  <2> QED BY <1>2, <2>1, RegroupIs
<1>4. ASSUME NEW k \in 1 .. n PROVE p[k][8] = str[k]
  <2> DEFINE m == k - 1
             B(j) == BitOf(str, 8, j)
             D(j) == BitOf(sx, 6, j)
  <2>1. /\ m \in Nat /\ m \in 0 .. n - 1 /\ m + 1 = k /\ Joins(p[k], sx, 6, 8, m)
        /\ str[k] \in 0 .. 255
    BY <1>3, ElementOfSeq DEF Grouped
  <2> HIDE DEF m
  <2>2. p[k][8] = Eight(D(8 * m), D(8 * m + 1), D(8 * m + 2), D(8 * m + 3),
                        D(8 * m + 4), D(8 * m + 5), D(8 * m + 6), D(8 * m + 7))
    BY <1>2, <2>1, JoinsEight
  <2>3. \A c \in 0 .. 7 : 8 * m + c \in 0 .. 8 * n - 1
    BY <2>1
  <2>4. \A j \in 0 .. 8 * n - 1 : D(j) = B(j)
    BY SameBitStream
  <2>5. /\ 8 * m \in 0 .. 8 * n - 1 /\ 8 * m + 1 \in 0 .. 8 * n - 1 /\ 8 * m + 2 \in 0 .. 8 * n - 1
        /\ 8 * m + 3 \in 0 .. 8 * n - 1 /\ 8 * m + 4 \in 0 .. 8 * n - 1 /\ 8 * m + 5 \in 0 .. 8 * n - 1
        /\ 8 * m + 6 \in 0 .. 8 * n - 1 /\ 8 * m + 7 \in 0 .. 8 * n - 1
    BY <2>1
  <2>6. /\ B(8 * m) = (str[k] \div 128) % 2 /\ B(8 * m + 1) = (str[k] \div 64) % 2
        /\ B(8 * m + 2) = (str[k] \div 32) % 2 /\ B(8 * m + 3) = (str[k] \div 16) % 2
        /\ B(8 * m + 4) = (str[k] \div 8) % 2 /\ B(8 * m + 5) = (str[k] \div 4) % 2
        /\ B(8 * m + 6) = (str[k] \div 2) % 2 /\ B(8 * m + 7) = (str[k] \div 1) % 2
    <3>1. Len(str) \in Nat /\ m \in 0 .. Len(str) - 1
      BY <2>1
    <3>2. /\ BitOf(str, 8, 8 * m) = (str[m + 1] \div 128) % 2 /\ BitOf(str, 8, 8 * m + 1) = (str[m + 1] \div 64) % 2
          /\ BitOf(str, 8, 8 * m + 2) = (str[m + 1] \div 32) % 2 /\ BitOf(str, 8, 8 * m + 3) = (str[m + 1] \div 16) % 2
          /\ BitOf(str, 8, 8 * m + 4) = (str[m + 1] \div 8) % 2 /\ BitOf(str, 8, 8 * m + 5) = (str[m + 1] \div 4) % 2
          /\ BitOf(str, 8, 8 * m + 6) = (str[m + 1] \div 2) % 2 /\ BitOf(str, 8, 8 * m + 7) = (str[m + 1] \div 1) % 2
      BY <3>1, BitsOfNumber8, SMTT(30)
    <3> QED BY <2>1, <3>2
  <2> HIDE DEF B, D
  <2>7. p[k][8] = Eight(B(8 * m), B(8 * m + 1), B(8 * m + 2), B(8 * m + 3),
                        B(8 * m + 4), B(8 * m + 5), B(8 * m + 6), B(8 * m + 7))
    BY <2>2, <2>4, <2>5
  <2>8. p[k][8] = Eight((str[k] \div 128) % 2, (str[k] \div 64) % 2, (str[k] \div 32) % 2,
                        (str[k] \div 16) % 2, (str[k] \div 8) % 2, (str[k] \div 4) % 2,
                        (str[k] \div 2) % 2, (str[k] \div 1) % 2)
    BY <2>6, <2>7
  <2> QED BY <2>1, <2>8, EightOfByte
<1>5. str = [k \in 1 .. n |-> str[k]]
  OBVIOUS
<1> QED BY <1>3, <1>4, <1>5 DEF Grouped

-------------------------------------------------------------------------------
(* base64_encode and base64_decode *)

\* The text without its padding.
LEMMA UnpaddedIs ==
  ASSUME NEW w \in Seq(Int)
  PROVE  \E m \in 0 .. Len(w) :
           /\ Unpadded(w) = SubSeq(w, 1, m)
           /\ Unpadded(w) \in Seq(Int) /\ Len(Unpadded(w)) = m
           /\ \A j \in 1 .. m : Unpadded(w)[j] = w[j]
           /\ m = Len(w) \/ m = Len(w) - 1 \/ m = Len(w) - 2
           /\ m = Len(w) => Len(w) = 0 \/ w[Len(w)] # 61
           /\ m = Len(w) - 1 => w[Len(w)] = 61 /\ (m = 0 \/ w[m] # 61)
           /\ m = Len(w) - 2 => w[Len(w)] = 61 /\ w[Len(w) - 1] = 61
<1> DEFINE n == Len(w)
           EqualAt(k) == k > 0 /\ w[k] = 61
           m == IF ~EqualAt(n) THEN n ELSE IF EqualAt(n - 1) THEN n - 2 ELSE n - 1
<1>1. n \in Nat
  BY LenProperties
<1>2. Unpadded(w) = SubSeq(w, 1, m)
  BY DEF Unpadded, Equal
<1> HIDE DEF n
<1>3. /\ m \in 0 .. n /\ (m = n \/ m = n - 1 \/ m = n - 2)
      /\ m = n => n = 0 \/ w[n] # 61
      /\ m = n - 1 => w[n] = 61 /\ (m = 0 \/ w[m] # 61)
      /\ m = n - 2 => w[n] = 61 /\ w[n - 1] = 61
  <2>1. CASE ~EqualAt(n)
    BY <1>1, <2>1
  <2>2. CASE EqualAt(n) /\ EqualAt(n - 1)
    BY <1>1, <2>2
  <2>3. CASE EqualAt(n) /\ ~EqualAt(n - 1)
    BY <1>1, <2>3
  <2> QED BY <2>1, <2>2, <2>3
<1> HIDE DEF m
<1>4. /\ SubSeq(w, 1, m) \in Seq(Int) /\ Len(SubSeq(w, 1, m)) = m
      /\ \A j \in 1 .. m : SubSeq(w, 1, m)[j] = w[j]
  <2>1. 1 \in 1 .. n + 1 /\ m \in 1 - 1 .. n
    BY <1>1, <1>3
  <2>2. /\ SubSeq(w, 1, m) \in Seq(Int)
        /\ Len(SubSeq(w, 1, m)) = IF 1 <= m THEN m - 1 + 1 ELSE 0
        /\ \A j \in 1 .. m - 1 + 1 : SubSeq(w, 1, m)[j] = w[1 + j - 1]
    BY <2>1, SubSeqProperties DEF n
  <2>3. \A j \in 1 .. m : j \in 1 .. m - 1 + 1 /\ 1 + j - 1 = j
    BY <1>1, <1>3
  <2> QED BY <1>1, <1>3, <2>2, <2>3
<1> QED BY <1>2, <1>3, <1>4 DEF n

\* The characters of the sextets, and the padding.
LEMMA Base64Wire ==
  ASSUME NEW str \in Seq(0 .. 255), NEW n \in Nat, n = Len(str),
         NEW sx, sx = Regroup(str, 8, 6, Count(n)),
         NEW w, w = Base64Encode(str)
  PROVE  /\ w \in Seq(Int) /\ Len(w) = 4 * ((n + 2) \div 3)
         /\ Count(n) <= Len(w)
         /\ \A k \in 1 .. Count(n) : w[k] = Base64Char(sx[k])
         /\ Unpadded(w) \in Seq(Int) /\ Len(Unpadded(w)) = Count(n)
         /\ \A k \in 1 .. Count(n) : Unpadded(w)[k] = w[k]
<1> DEFINE c == Count(n)
           E == [k \in DOMAIN sx |-> Base64Char(sx[k])]
           Pad == Padding(n)
<1>1. c \in Nat /\ sx \in [1 .. c -> 0 .. 63]
  BY Counts, SextetsAre
<1>2. /\ n % 3 = 0 \/ n % 3 = 1 \/ n % 3 = 2
      /\ n % 3 = 0 => c = 4 * ((n + 2) \div 3)
      /\ n % 3 = 1 => c + 2 = 4 * ((n + 2) \div 3)
      /\ n % 3 = 2 => c + 1 = 4 * ((n + 2) \div 3)
  BY Counts
<1>3. w = E \o Pad
  BY DEF Base64Encode, Count
<1>4. \A k \in 1 .. c : E[k] = Base64Char(sx[k]) /\ E[k] \in Int /\ E[k] # 61
  <2>1. \A k \in 1 .. c : E[k] = Base64Char(sx[k]) /\ sx[k] \in 0 .. 63
    BY <1>1
  <2> HIDE DEF E, c
  <2>2. ASSUME NEW k \in 1 .. c PROVE E[k] \in Int /\ E[k] # 61
    <3>1. PICK v \in 0 .. 63 : v = sx[k]
      BY <2>1
    <3>2. Base64Char(v) \in Int /\ Base64Char(v) # 61
      BY Base64ValueIs
    <3> QED BY <2>1, <3>1, <3>2
  <2> QED BY <2>1, <2>2
<1>5. E \in Seq(Int) /\ Len(E) = c
  <2>1. E = [k \in 1 .. c |-> E[k]]
    BY <1>1
  <2> HIDE DEF E, c
  <2>2. E \in [1 .. c -> Int]
    BY <1>4, <2>1
  <2> QED BY <1>1, <2>2
<1>6. /\ n % 3 = 0 => Pad = <<>>
      /\ n % 3 = 1 => Pad = <<61, 61>>
      /\ n % 3 = 2 => Pad = <<61>>
  <2>1. Pad = <<<<>>, <<61, 61>>, <<61>>>>[(n % 3) + 1]
    BY DEF Padding, Equal
  <2> HIDE DEF Pad
  <2>2. /\ <<<<>>, <<61, 61>>, <<61>>>>[1] = <<>>
        /\ <<<<>>, <<61, 61>>, <<61>>>>[2] = <<61, 61>>
        /\ <<<<>>, <<61, 61>>, <<61>>>>[3] = <<61>>
    OBVIOUS
  <2>3. 0 + 1 = 1 /\ 1 + 1 = 2 /\ 2 + 1 = 3
    OBVIOUS
  <2> QED BY <2>1, <2>2, <2>3
<1> DEFINE l == Len(Pad)
<1>7. /\ Pad \in Seq(Int) /\ l \in 0 .. 2 /\ \A k \in 1 .. l : Pad[k] = 61
      /\ c + l = 4 * ((n + 2) \div 3)
  <2> HIDE DEF Pad, c
  <2>0. c \in Nat
    BY <1>1
  <2>1. CASE n % 3 = 0
    BY <1>2, <1>6, <2>0, <2>1
  <2>2. CASE n % 3 = 1
    <3>1. Pad = <<61, 61>>
      BY <1>6, <2>2
    <3>2. <<61, 61>> \in Seq(Int) /\ Len(<<61, 61>>) = 2 /\ \A k \in 1 .. 2 : <<61, 61>>[k] = 61
      OBVIOUS
    <3> QED BY <1>2, <2>0, <2>2, <3>1, <3>2
  <2>3. CASE n % 3 = 2
    <3>1. Pad = <<61>>
      BY <1>6, <2>3
    <3>2. <<61>> \in Seq(Int) /\ Len(<<61>>) = 1 /\ \A k \in 1 .. 1 : <<61>>[k] = 61
      OBVIOUS
    <3> QED BY <1>2, <2>0, <2>3, <3>1, <3>2
  <2> QED BY <1>2, <2>1, <2>2, <2>3
<1> HIDE DEF E, Pad, c, l
<1>8. /\ w \in Seq(Int) /\ Len(w) = c + l
      /\ \A k \in 1 .. c + l : w[k] = IF k <= c THEN E[k] ELSE Pad[k - c]
  <2>0. E \in Seq(Int) /\ Pad \in Seq(Int)
    BY <1>5, <1>7
  <2>1. /\ E \o Pad \in Seq(Int) /\ Len(E \o Pad) = Len(E) + Len(Pad)
        /\ \A k \in 1 .. Len(E) + Len(Pad) :
             (E \o Pad)[k] = IF k <= Len(E) THEN E[k] ELSE Pad[k - Len(E)]
    BY <2>0, ConcatProperties
  <2> QED BY <1>3, <1>5, <2>1 DEF l
<1>9. /\ \A k \in 1 .. c : w[k] = E[k]
      /\ \A k \in c + 1 .. c + l : w[k] = 61
  <2>1. \A k \in 1 .. c : k \in 1 .. c + l /\ k <= c
    BY <1>1, <1>7
  <2>2. \A k \in c + 1 .. c + l : k \in 1 .. c + l /\ ~(k <= c) /\ k - c \in 1 .. l
    BY <1>1, <1>7
  <2>3. ASSUME NEW k \in 1 .. c PROVE w[k] = E[k]
    BY <1>8, <2>1
  <2>4. ASSUME NEW k \in c + 1 .. c + l PROVE w[k] = 61
    <3>1. w[k] = Pad[k - c]
      BY <1>8, <2>2
    <3>2. Pad[k - c] = 61
      BY <1>7, <2>2
    <3> QED BY <3>1, <3>2
  <2> QED BY <2>3, <2>4
<1>10. PICK m \in 0 .. Len(w) :
         /\ Unpadded(w) \in Seq(Int) /\ Len(Unpadded(w)) = m
         /\ \A j \in 1 .. m : Unpadded(w)[j] = w[j]
         /\ m = Len(w) \/ m = Len(w) - 1 \/ m = Len(w) - 2
         /\ m = Len(w) => Len(w) = 0 \/ w[Len(w)] # 61
         /\ m = Len(w) - 1 => w[Len(w)] = 61 /\ (m = 0 \/ w[m] # 61)
         /\ m = Len(w) - 2 => w[Len(w)] = 61 /\ w[Len(w) - 1] = 61
  BY <1>8, UnpaddedIs
<1>11. m = c
  <2>1. \A k \in 1 .. c : w[k] # 61
    BY <1>4, <1>9
  <2>2. CASE l = 0
    <3>1. Len(w) = c
      BY <1>1, <1>8, <2>2
    <3>2. c # 0 => c \in 1 .. c
      BY <1>1
    <3>3. c # 0 => w[Len(w)] # 61
      BY <2>1, <3>1, <3>2
    <3> QED BY <1>1, <1>10, <3>1, <3>3
  <2>3. CASE l = 1
    <3>1. Len(w) = c + 1 /\ w[c + 1] = 61
      BY <1>1, <1>8, <1>9, <2>3
    <3>2. c # 0 => w[c] # 61
      BY <1>1, <2>1
    <3>3. Len(w) - 1 = c /\ Len(w) - 2 = c - 1
      BY <1>1, <3>1
    <3> QED BY <1>1, <1>10, <3>1, <3>2, <3>3
  <2>4. CASE l = 2
    <3>1. Len(w) = c + 2 /\ w[c + 1] = 61 /\ w[c + 2] = 61
      <4>1. c + 1 \in c + 1 .. c + l /\ c + 2 \in c + 1 .. c + l
        BY <1>1, <2>4
      <4> QED BY <1>8, <1>9, <2>4, <4>1
    <3>2. Len(w) - 1 = c + 1 /\ Len(w) - 2 = c
      BY <1>1, <3>1
    <3> QED BY <1>1, <1>10, <3>1, <3>2
  <2> QED BY <1>7, <2>2, <2>3, <2>4
<1>12. c <= Len(w) /\ Len(w) = 4 * ((n + 2) \div 3)
  BY <1>1, <1>7, <1>8
<1>13. \A k \in 1 .. c : w[k] = Base64Char(sx[k])
  BY <1>4, <1>9
<1> QED BY <1>8, <1>10, <1>11, <1>12, <1>13 DEF c

LEMMA Base64RoundTrip ==
  ASSUME NEW str \in Seq(0 .. 255)
  PROVE  /\ ~Base64DecodeThrows(Base64Encode(str))
         /\ Len(Base64Encode(str)) = 4 * ((Len(str) + 2) \div 3)
         /\ Base64Decode(Base64Encode(str)) = str
<1> DEFINE n == Len(str)
           sx == Regroup(str, 8, 6, Count(n))
           w == Base64Encode(str)
           u == Unpadded(w)
<1>1. n \in Nat
  BY LenProperties
<1>2. /\ Len(w) = 4 * ((n + 2) \div 3)
      /\ \A k \in 1 .. Count(n) : w[k] = Base64Char(sx[k])
      /\ u \in Seq(Int) /\ Len(u) = Count(n)
      /\ \A k \in 1 .. Count(n) : u[k] = w[k]
  BY <1>1, Base64Wire
<1>3. /\ sx \in [1 .. Count(n) -> 0 .. 63] /\ Len(sx) = Count(n)
      /\ Count(n) \in Nat /\ Count(n) % 4 # 1 /\ (6 * Count(n)) \div 8 = n
  BY <1>1, SextetsAre, Counts, ZenonT(30)
<1>4. Regroup(sx, 6, 8, n) = str
  BY <1>1, RegroupBack
<1>5. DOMAIN u = 1 .. Count(n)
  BY <1>2, LenProperties
<1> HIDE DEF n, sx, w, u
<1>6. ~Base64DecodeThrows(w)
  <2>1. ASSUME NEW k \in 1 .. Count(n) PROVE u[k] \in Base64Chars
    <3>1. PICK v \in 0 .. 63 : v = sx[k]
      BY <1>3
    <3>2. Base64Char(v) \in Base64Chars
      BY Base64ValueIs
    <3> QED BY <1>2, <3>1, <3>2
  <2>2. ToSet(u) \subseteq Base64Chars
    BY <1>5, <2>1 DEF ToSet
  <2> QED BY <1>2, <1>3, <2>2 DEF Base64DecodeThrows, u
<1>7. Base64Decode(w) = str
  <2> DEFINE back64 == [k \in DOMAIN u |-> Base64Value(w[k])]
  <2>1. ASSUME NEW k \in 1 .. Count(n) PROVE Base64Value(w[k]) = sx[k]
    <3>1. PICK v \in 0 .. 63 : v = sx[k]
      BY <1>3
    <3>2. Base64Value(Base64Char(v)) = v
      BY Base64ValueIs
    <3> QED BY <1>2, <3>1, <3>2
  <2>2. sx = [k \in 1 .. Count(n) |-> sx[k]]
    BY <1>3
  <2>3. back64 = sx
    BY <1>5, <2>1, <2>2
  <2>4. Base64Decode(w) = Regroup(back64, 6, 8, (6 * Len(back64)) \div 8)
    BY DEF Base64Decode, u
  <2> HIDE DEF back64
  <2>5. Base64Decode(w) = Regroup(sx, 6, 8, n)
    BY <1>3, <2>3, <2>4
  <2> QED BY <1>4, <2>5
<1> QED BY <1>2, <1>6, <1>7 DEF n, w

LEMMA ForeignBase64 ==
  ASSUME NEW str \in Seq(0 .. 255), ~Base64DecodeThrows(str)
  PROVE  Small(Base64Decode(str), Len(str))
<1> DEFINE u == Unpadded(str)
           sx == [k \in DOMAIN u |-> Base64Value(str[k])]
           n == (6 * Len(sx)) \div 8
           r == Regroup(sx, 6, 8, n)
<1>0. str \in Seq(Int) /\ Len(str) \in Nat
  <2>1. \A x \in 0 .. 255 : x \in Int
    OBVIOUS
  <2>2. Len(str) \in Nat /\ str = [k \in 1 .. Len(str) |-> str[k]]
    BY LenProperties
  <2>3. \A k \in 1 .. Len(str) : str[k] \in Int
    BY <2>1, ElementOfSeq
  <2>4. str \in [1 .. Len(str) -> Int]
    BY <2>2, <2>3
  <2> QED BY <2>2, <2>4
<1>1. PICK m \in 0 .. Len(str) : /\ u \in Seq(Int) /\ Len(u) = m
                                 /\ \A j \in 1 .. m : u[j] = str[j]
  BY <1>0, UnpaddedIs
<1>2. DOMAIN u = 1 .. m /\ m \in Nat
  BY <1>1, LenProperties
<1>3. Base64Decode(str) = r
  BY DEF Base64Decode
<1>4. \A k \in 1 .. m : str[k] \in Base64Chars \cup {61}
  <2>1. ToSet(u) \subseteq Base64Chars \cup {61}
    BY DEF Base64DecodeThrows, Equal
  <2> HIDE DEF u
  <2> QED BY <1>1, <1>2, <2>1 DEF ToSet
<1>5. sx \in [1 .. m -> 0 .. 63]
  <2>1. \A k \in 1 .. m : Base64Value(str[k]) \in 0 .. 63
    BY <1>4, Base64ValueTyped
  <2> HIDE DEF u
  <2> QED BY <1>2, <2>1
<1> HIDE DEF u, sx
<1>6. Len(sx) = m /\ \A k \in 1 .. Len(sx) : sx[k] \in Nat
  <2>1. Len(sx) = m
    BY <1>2, <1>5
  <2>2. \A x \in 0 .. 63 : x \in Nat
    OBVIOUS
  <2> QED BY <1>5, <2>1, <2>2
<1>7. n \in Nat /\ n <= Len(str)
  <2>1. \A x \in Nat : (6 * x) \div 8 \in Nat /\ (6 * x) \div 8 <= x
    OBVIOUS
  <2> QED BY <1>0, <1>1, <1>2, <1>6, <2>1
<1> HIDE DEF n, r
<1>8. \A j \in Nat : BitOf(sx, 6, j) \in {0, 1}
  <2>1. 6 \in {6, 8} /\ Len(sx) \in Nat
    BY <1>2, <1>6
  <2> QED BY <1>6, <2>1, BitsAreBits
<1>9. PICK p : Grouped(r, p, sx, 6, 8, n)
  <2>1. 8 \in Nat
    OBVIOUS
  <2> QED BY <1>7, <1>8, <2>1, RegroupIs DEF r
<1>10. ASSUME NEW k \in 1 .. n PROVE r[k] \in 0 .. 255
  <2> DEFINE j == k - 1
  <2>1. j \in Nat /\ Joins(p[k], sx, 6, 8, j) /\ r[k] = p[k][8]
    BY <1>7, <1>9 DEF Grouped
  <2> HIDE DEF j
  <2>2. r[k] = Eight(BitOf(sx, 6, 8 * j), BitOf(sx, 6, 8 * j + 1), BitOf(sx, 6, 8 * j + 2),
                     BitOf(sx, 6, 8 * j + 3), BitOf(sx, 6, 8 * j + 4), BitOf(sx, 6, 8 * j + 5),
                     BitOf(sx, 6, 8 * j + 6), BitOf(sx, 6, 8 * j + 7))
    BY <1>8, <2>1, JoinsEight, SMTT(20), ZenonT(60)
  <2>3. /\ 8 * j \in Nat /\ 8 * j + 1 \in Nat /\ 8 * j + 2 \in Nat /\ 8 * j + 3 \in Nat
        /\ 8 * j + 4 \in Nat /\ 8 * j + 5 \in Nat /\ 8 * j + 6 \in Nat /\ 8 * j + 7 \in Nat
    BY <2>1
  <2>4. AreEightBits(BitOf(sx, 6, 8 * j), BitOf(sx, 6, 8 * j + 1), BitOf(sx, 6, 8 * j + 2),
                     BitOf(sx, 6, 8 * j + 3), BitOf(sx, 6, 8 * j + 4), BitOf(sx, 6, 8 * j + 5),
                     BitOf(sx, 6, 8 * j + 6), BitOf(sx, 6, 8 * j + 7))
    BY <1>8, <2>3 DEF AreEightBits
  <2> QED BY <2>2, <2>4, EightTyped, ZenonT(30)
<1>11. r \in [1 .. n -> 0 .. 255]
  <2>1. r = [k \in 1 .. n |-> r[k]]
    BY <1>9 DEF Grouped
  <2> QED BY <1>10, <2>1
<1>12. r \in Seq(0 .. 255) /\ Len(r) = n
  BY <1>7, <1>11
<1> QED BY <1>3, <1>7, <1>12 DEF Small

-------------------------------------------------------------------------------
(* Decimals *)

\* g[k] are the digits of k.
DigitsOf(g, n) ==
  g = [k \in 0 .. n |-> IF k < 10 THEN <<48 + k>> ELSE Append(g[k \div 10], 48 + (k % 10))]

LEMMA TenthIs ==
  ASSUME NEW k \in Nat
  PROVE  /\ k % 10 \in 0 .. 9 /\ k \div 10 \in Nat /\ k = 10 * (k \div 10) + (k % 10)
         /\ k >= 10 => k \div 10 < k
OBVIOUS

LEMMA DigitsExist == ASSUME NEW n \in Nat PROVE \E g : DigitsOf(g, n)
<1> DEFINE T == {m \in 0 .. n : \E g : DigitsOf(g, m)}
<1>1. 0 \in T
  <2> DEFINE g == [k \in 0 .. 0 |-> <<48 + k>>]
  <2>1. g = [k \in 0 .. 0 |-> IF k < 10 THEN <<48 + k>> ELSE Append(g[k \div 10], 48 + (k % 10))]
    OBVIOUS
  <2> HIDE DEF g
  <2>2. DigitsOf(g, 0)
    BY <2>1 DEF DigitsOf
  <2> QED BY <2>2
<1>2. ASSUME NEW m \in 0 .. n - 1, m \in T PROVE m + 1 \in T
  <2>1. PICK h : DigitsOf(h, m)
    BY <1>2
  <2> DEFINE Longer(k, u) == Append(u, 48 + (k % 10))
             g == [k \in 0 .. m + 1 |-> IF k <= m THEN h[k] ELSE
                                         IF k < 10 THEN <<48 + k>> ELSE Longer(k, h[k \div 10])]
  <2>2. ASSUME NEW k \in 0 .. m + 1
        PROVE  g[k] = IF k < 10 THEN <<48 + k>> ELSE Longer(k, g[k \div 10])
    <3>1. k \in Nat /\ m \in Nat /\ (k >= 10 => k \div 10 \in 0 .. m /\ k \div 10 \in 0 .. m + 1)
      BY TenthIs
    <3>2. \A j \in 0 .. m : g[j] = h[j]
      BY <3>1
    <3>3. CASE k <= m
      <4>1. k \in 0 .. m
        BY <3>1, <3>3
      <4>2. h[k] = IF k < 10 THEN <<48 + k>> ELSE Longer(k, h[k \div 10])
        BY <2>1, <4>1 DEF DigitsOf
      <4> HIDE DEF g, Longer
      <4> QED BY <3>1, <3>2, <4>1, <4>2
    <3>4. CASE ~(k <= m)
      <4>1. g[k] = IF k < 10 THEN <<48 + k>> ELSE Longer(k, h[k \div 10])
        BY <3>4
      <4> HIDE DEF g, Longer
      <4> QED BY <3>1, <3>2, <4>1
    <3> QED BY <3>3, <3>4
  <2>3. DigitsOf(g, m + 1)
    BY <2>2, Zenon DEF DigitsOf
  <2>4. m + 1 \in 0 .. n
    OBVIOUS
  <2> HIDE DEF g
  <2> QED BY <2>3, <2>4
<1> HIDE DEF T
<1>3. 0 .. n \subseteq T
  BY <1>1, <1>2, Upwards
<1> QED BY <1>3 DEF T

LEMMA DigitsIs == ASSUME NEW n \in Nat PROVE \E g : DigitsOf(g, n) /\ Digits(n) = g[n]
<1> DEFINE d == CHOOSE g : DigitsOf(g, n)
<1>1. DigitsOf(d, n)
  BY DigitsExist, Zenon
<1>2. Digits(n) = d[n]
  BY Zenon DEF Digits, DigitsOf
<1> HIDE DEF d
<1> QED BY <1>1, <1>2

\* v[k] is the number of the first k digits of the text.
NumbersOf(v, text, n) ==
  v = [k \in 0 .. n |-> IF k = 0 THEN 0 ELSE 10 * v[k - 1] + (text[k] - 48)]

LEMMA NumbersExist ==
  ASSUME NEW text, NEW n \in Nat PROVE \E v : NumbersOf(v, text, n)
<1> DEFINE T == {m \in 0 .. n : \E v : NumbersOf(v, text, m)}
<1>1. 0 \in T
  <2> DEFINE v == [k \in 0 .. 0 |-> 0]
  <2>1. v = [k \in 0 .. 0 |-> IF k = 0 THEN 0 ELSE 10 * v[k - 1] + (text[k] - 48)]
    OBVIOUS
  <2> HIDE DEF v
  <2>2. NumbersOf(v, text, 0)
    BY <2>1 DEF NumbersOf
  <2> QED BY <2>2
<1>2. ASSUME NEW m \in 0 .. n - 1, m \in T PROVE m + 1 \in T
  <2>1. PICK h : NumbersOf(h, text, m)
    BY <1>2
  <2> DEFINE Next10(k, x) == 10 * x + (text[k] - 48)
             v == [k \in 0 .. m + 1 |-> IF k <= m THEN h[k] ELSE Next10(k, h[m])]
  <2>2. ASSUME NEW k \in 0 .. m + 1 PROVE v[k] = IF k = 0 THEN 0 ELSE Next10(k, v[k - 1])
    <3>1. m \in Nat /\ (k # 0 => k - 1 \in 0 .. m) /\ (~(k <= m) => k # 0 /\ k - 1 = m)
      OBVIOUS
    <3>2. \A j \in 0 .. m : v[j] = h[j]
      OBVIOUS
    <3>3. CASE k <= m
      <4>1. k \in 0 .. m
        BY <3>3
      <4>2. h[k] = IF k = 0 THEN 0 ELSE Next10(k, h[k - 1])
        BY <2>1, <4>1 DEF NumbersOf
      <4> HIDE DEF v, Next10
      <4> QED BY <3>1, <3>2, <4>1, <4>2
    <3>4. CASE ~(k <= m)
      <4>1. v[k] = Next10(k, h[m])
        BY <3>4
      <4> HIDE DEF v, Next10
      <4> QED BY <3>1, <3>2, <3>4, <4>1
    <3> QED BY <3>3, <3>4
  <2>3. NumbersOf(v, text, m + 1)
    BY <2>2, Zenon DEF NumbersOf
  <2>4. m + 1 \in 0 .. n
    OBVIOUS
  <2> HIDE DEF v
  <2> QED BY <2>3, <2>4
<1> HIDE DEF T
<1>3. 0 .. n \subseteq T
  BY <1>1, <1>2, Upwards
<1> QED BY <1>3 DEF T

LEMMA NumberIs ==
  ASSUME NEW text, Len(text) \in Nat
  PROVE  \E v : NumbersOf(v, text, Len(text)) /\ Number(text) = v[Len(text)]
<1> DEFINE d == CHOOSE v : NumbersOf(v, text, Len(text))
<1>1. NumbersOf(d, text, Len(text))
  BY NumbersExist, Zenon
<1>2. Number(text) = d[Len(text)]
  BY Zenon DEF Number, NumbersOf
<1> HIDE DEF d
<1> QED BY <1>1, <1>2

\* One digit more.
LEMMA NumberGrows ==
  ASSUME NEW s \in Seq(48 .. 57), NEW c \in 48 .. 57
  PROVE  Number(Append(s, c)) = 10 * Number(s) + (c - 48)
<1> DEFINE n == Len(s)
           t == Append(s, c)
<1>1. /\ n \in Nat /\ Len(t) = n + 1 /\ t[n + 1] = c
      /\ \A k \in 1 .. n : t[k] = s[k]
  BY LenProperties, AppendProperties
<1> HIDE DEF n, t
<1>2. PICK v : NumbersOf(v, s, n) /\ Number(s) = v[n]
  BY <1>1, NumberIs DEF n
<1>3. PICK w : NumbersOf(w, t, n + 1) /\ Number(t) = w[n + 1]
  <2>1. Len(t) \in Nat
    BY <1>1
  <2> QED BY <1>1, <2>1, NumberIs
<1>4. \A k \in 0 .. n : v[k] = IF k = 0 THEN 0 ELSE 10 * v[k - 1] + (s[k] - 48)
  BY <1>2 DEF NumbersOf
<1>5. \A k \in 0 .. n + 1 : w[k] = IF k = 0 THEN 0 ELSE 10 * w[k - 1] + (t[k] - 48)
  BY <1>3 DEF NumbersOf
<1> DEFINE T == {k \in 0 .. n : v[k] = w[k]}
<1>6. 0 \in T
  BY <1>1, <1>4, <1>5
<1>7. ASSUME NEW k \in 0 .. n - 1, k \in T PROVE k + 1 \in T
  <2>1. k + 1 \in 0 .. n /\ k + 1 \in 0 .. n + 1 /\ k + 1 # 0 /\ k + 1 - 1 = k /\ k + 1 \in 1 .. n
    BY <1>1
  <2>2. v[k + 1] = 10 * v[k] + (s[k + 1] - 48) /\ w[k + 1] = 10 * w[k] + (t[k + 1] - 48)
    BY <1>4, <1>5, <2>1
  <2> QED BY <1>1, <1>7, <2>1, <2>2
<1> HIDE DEF T
<1>8. 0 .. n \subseteq T
  <2>1. 0 \in Int /\ n \in Int /\ \A k \in 0 .. n - 1 : k \in T => k + 1 \in T
    BY <1>1, <1>7
  <2> QED BY <1>6, <2>1, Upwards, Zenon
<1>9. n \in 0 .. n /\ n + 1 \in 0 .. n + 1 /\ n + 1 # 0 /\ n + 1 - 1 = n
  BY <1>1
<1>10. v[n] = w[n]
  BY <1>8, <1>9 DEF T
<1>11. w[n + 1] = 10 * w[n] + (t[n + 1] - 48)
  BY <1>5, <1>9
<1> QED BY <1>1, <1>2, <1>3, <1>10, <1>11 DEF t

\* The digits of a number are digits, and read back.
LEMMA DigitsRead ==
  ASSUME NEW n \in Nat
  PROVE  /\ Digits(n) \in Seq(48 .. 57) /\ Digits(n) # <<>>
         /\ Number(Digits(n)) = n
<1> DEFINE Good(u, k) == u \in Seq(48 .. 57) /\ u # <<>> /\ Number(u) = k
<1>1. PICK g : DigitsOf(g, n) /\ Digits(n) = g[n]
  BY DigitsIs
<1>2. \A k \in 0 .. n :
        g[k] = IF k < 10 THEN <<48 + k>> ELSE Append(g[k \div 10], 48 + (k % 10))
  BY <1>1 DEF DigitsOf
<1> DEFINE T == {k \in 0 .. n : ~Good(g[k], k)}
<1>3. \A u \in Seq(48 .. 57), e \in 48 .. 57 : Number(Append(u, e)) = 10 * Number(u) + (e - 48)
  BY NumberGrows
<1>4. ASSUME NEW k \in 0 .. n, k >= 10 => Good(g[k \div 10], k \div 10) PROVE Good(g[k], k)
  <2>0. <<>> \in Seq(48 .. 57) /\ Number(<<>>) = 0
    <3>1. <<>> \in Seq(48 .. 57) /\ Len(<<>>) = 0
      OBVIOUS
    <3>2. PICK v : NumbersOf(v, <<>>, 0) /\ Number(<<>>) = v[0]
      BY <3>1, NumberIs
    <3>3. v[0] = 0
      BY <3>2 DEF NumbersOf
    <3> QED BY <3>1, <3>2, <3>3
  <2>1. CASE k < 10
    <3>1. 48 + k \in 48 .. 57 /\ g[k] = Append(<<>>, 48 + k)
      <4>1. g[k] = <<48 + k>>
        BY <1>2, <2>1
      <4>2. <<48 + k>> = Append(<<>>, 48 + k)
        OBVIOUS
      <4>3. 48 + k \in 48 .. 57
        BY <2>1
      <4> QED BY <4>1, <4>2, <4>3
    <3>2. Number(Append(<<>>, 48 + k)) = 10 * 0 + (48 + k - 48)
      <4>1. PICK e \in 48 .. 57 : e = 48 + k
        BY <3>1
      <4>2. Number(Append(<<>>, e)) = 10 * Number(<<>>) + (e - 48)
        BY <1>3, <2>0
      <4> QED BY <2>0, <4>1, <4>2
    <3>3. Append(<<>>, 48 + k) \in Seq(48 .. 57) /\ Append(<<>>, 48 + k) # <<>>
      BY <3>1
    <3> QED BY <3>1, <3>2, <3>3
  <2>2. CASE ~(k < 10)
    <3> DEFINE u == g[k \div 10]
    <3>1. /\ g[k] = Append(u, 48 + (k % 10)) /\ Good(u, k \div 10)
          /\ 48 + (k % 10) \in 48 .. 57 /\ k = 10 * (k \div 10) + (k % 10) /\ k \div 10 \in Nat
      <4>0. k >= 10 /\ k \in Nat
        BY <2>2
      <4>1. g[k] = Append(u, 48 + (k % 10))
        BY <1>2, <2>2
      <4>2. Good(u, k \div 10)
        BY <1>4, <4>0
      <4>3. /\ k % 10 \in 0 .. 9 /\ k = 10 * (k \div 10) + (k % 10) /\ k \div 10 \in Nat
        BY <4>0, TenthIs
      <4> HIDE DEF u
      <4> QED BY <4>1, <4>2, <4>3
    <3> HIDE DEF u
    <3>2. Number(g[k]) = 10 * Number(u) + (48 + (k % 10) - 48)
      <4>1. u \in Seq(48 .. 57) /\ 48 + (k % 10) \in 48 .. 57 /\ g[k] = Append(u, 48 + (k % 10))
        BY <3>1 DEF Good
      <4>2. PICK e \in 48 .. 57 : e = 48 + (k % 10)
        BY <4>1
      <4>3. Number(Append(u, e)) = 10 * Number(u) + (e - 48)
        BY <1>3, <4>1
      <4> QED BY <4>1, <4>2, <4>3
    <3>3. g[k] \in Seq(48 .. 57) /\ g[k] # <<>>
      BY <3>1, AppendProperties DEF Good
    <3>4. k % 10 \in 0 .. 9
      BY TenthIs
    <3>5. Number(g[k]) = k
      BY <3>1, <3>2, <3>4 DEF Good
    <3> QED BY <3>3, <3>5 DEF Good
  <2> QED BY <2>1, <2>2
<1> HIDE DEF Good
<1>5. T = {}
  <2> SUFFICES ASSUME T # {} PROVE FALSE
    OBVIOUS
  <2>1. T \subseteq Nat
    OBVIOUS
  <2>2. PICK k \in T : \A y \in T : k <= y
    <3> HIDE DEF T
    <3> QED BY <2>1, Least, Zenon
  <2>3. k >= 10 => k \div 10 \notin T /\ k \div 10 \in 0 .. n
    BY <2>2, TenthIs
  <2> QED BY <1>4, <2>2, <2>3
<1>6. Good(g[n], n)
  BY <1>5
<1> QED BY <1>1, <1>6 DEF Good
===============================================================================
