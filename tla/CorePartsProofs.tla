--------------------------- MODULE CorePartsProofs ---------------------------
(***************************************************************************)
(* What TLAPS proves of the parts of commonpp::core, for texts, widths,    *)
(* collections of any size and every byte: the codecs give back what they  *)
(* were given, the JSON escaper writes the escapes it counted, an Options  *)
(* object is a set of flags, a picker gives elements of its collection.    *)
(***************************************************************************)
EXTENDS CoreParts, TextProofs

-------------------------------------------------------------------------------
(* Options: digits, and numbers made of them *)

Bit == {0, 1}
Places == 0 .. Width - 1

LEMMA PowerIs ==
  /\ O!Power \in [0 .. Width -> Nat \ {0}] /\ O!Power[0] = 1
  /\ \A b \in 1 .. Width : O!Power[b] = 2 * O!Power[b - 1]
<1> DEFINE S == Nat \ {0}
           f == [b \in 1 .. Width |-> [x \in S |-> 2 * x]]
<1>1. Width \in Nat /\ 1 \in S /\ f \in [1 .. Width -> [S -> S]]
  BY OptionsAssumption
<1>2. \A b \in 1 .. Width, x \in S : f[b][x] = 2 * x
  OBVIOUS
<1> HIDE DEF f
<1>3. PICK h : Climbs(h, S, 1, Width, f)
  <2> HIDE DEF S
  <2> QED BY <1>1, ClimbExists
<1>4. \A b \in 1 .. Width : b - 1 \in 0 .. Width
  BY <1>1
<1>5. h = [b \in 0 .. Width |-> IF b = 0 THEN 1 ELSE 2 * h[b - 1]]
  <2>1. ASSUME NEW b \in 0 .. Width PROVE h[b] = IF b = 0 THEN 1 ELSE 2 * h[b - 1]
    <3>1. b = 0 \/ b \in 1 .. Width
      BY <1>1
    <3> QED BY <1>2, <1>3, <1>4, <3>1 DEF Climbs
  <2>2. h = [b \in 0 .. Width |-> h[b]]
    BY <1>3 DEF Climbs
  <2> QED BY <2>1, <2>2
<1>6. O!Power = [b \in 0 .. Width |-> IF b = 0 THEN 1 ELSE 2 * O!Power[b - 1]]
  BY <1>5, Zenon DEF O!Power
<1>7. 0 .. Width \subseteq {b \in 0 .. Width : O!Power[b] \in S}
  <2> DEFINE T == {b \in 0 .. Width : O!Power[b] \in S}
  <2>1. 0 \in T
    BY <1>1, <1>6
  <2>2. ASSUME NEW b \in 0 .. Width - 1, b \in T PROVE b + 1 \in T
    <3>1. b + 1 \in 0 .. Width /\ b + 1 # 0 /\ (b + 1) - 1 = b
      BY <1>1
    <3>2. O!Power[b + 1] = 2 * O!Power[b]
      BY <1>6, <3>1
    <3> QED BY <2>2, <3>1, <3>2
  <2> HIDE DEF T
  <2>3. 0 .. Width \subseteq T
    <3>1. 0 \in Int /\ Width \in Int
      BY <1>1
    <3>2. \A b \in 0 .. Width - 1 : b \in T => b + 1 \in T
      BY <2>2
    <3> QED BY <2>1, <3>1, <3>2, Upwards
  <2> QED BY <2>3 DEF T
<1>8. \A b \in 1 .. Width : b \in 0 .. Width /\ b # 0
  BY <1>1
<1> QED BY <1>1, <1>6, <1>7, <1>8

\* What is left of n after halving it again and again, and what that says of its bits.
Halves(h, n) ==
  /\ h \in [0 .. Width -> Nat] /\ h[0] = n
  /\ \A b \in 1 .. Width : h[b] = h[b - 1] \div 2
  /\ \A b \in Places : O!Digit(n, b) = h[b] % 2

LEMMA HalvesExist == ASSUME NEW n \in Nat PROVE \E h : Halves(h, n)
<1> DEFINE S == Nat
           f == [b \in 1 .. Width |-> [x \in S |-> x \div 2]]
           Is(h) == h = [k \in 0 .. Width |-> IF k = 0 THEN n ELSE h[k - 1] \div 2]
           g == CHOOSE h : Is(h)
<1>1. Width \in Nat /\ n \in S /\ f \in [1 .. Width -> [S -> S]]
  BY OptionsAssumption
<1>2. \A b \in 1 .. Width, x \in S : f[b][x] = x \div 2
  OBVIOUS
<1> HIDE DEF f
<1>3. PICK h : Climbs(h, S, n, Width, f)
  <2> HIDE DEF S
  <2> QED BY <1>1, ClimbExists
<1>4. \A b \in 1 .. Width : b - 1 \in 0 .. Width
  BY <1>1
<1>5. Is(h)
  <2>1. ASSUME NEW b \in 0 .. Width PROVE h[b] = IF b = 0 THEN n ELSE h[b - 1] \div 2
    <3>1. b = 0 \/ b \in 1 .. Width
      BY <1>1
    <3> QED BY <1>2, <1>3, <1>4, <3>1 DEF Climbs
  <2>2. h = [b \in 0 .. Width |-> h[b]]
    BY <1>3 DEF Climbs
  <2> QED BY <2>1, <2>2
<1>6. Is(g)
  <2> HIDE DEF Is
  <2> QED BY <1>5
<1>7. g = [k \in 0 .. Width |-> IF k = 0 THEN n ELSE g[k - 1] \div 2]
  BY <1>6
<1>8. \A b : O!Digit(n, b) = g[b] % 2
  BY DEF O!Digit
<1> HIDE DEF g
<1>9. 0 .. Width \subseteq {b \in 0 .. Width : g[b] \in Nat}
  <2> DEFINE T == {b \in 0 .. Width : g[b] \in Nat}
  <2>1. 0 \in T
    BY <1>1, <1>7
  <2>2. ASSUME NEW b \in 0 .. Width - 1, b \in T PROVE b + 1 \in T
    <3>1. b + 1 \in 0 .. Width /\ b + 1 # 0 /\ (b + 1) - 1 = b
      BY <1>1
    <3>2. g[b + 1] = g[b] \div 2
      BY <1>7, <3>1
    <3> QED BY <2>2, <3>1, <3>2
  <2> HIDE DEF T
  <2>3. 0 .. Width \subseteq T
    <3>1. 0 \in Int /\ Width \in Int
      BY <1>1
    <3>2. \A b \in 0 .. Width - 1 : b \in T => b + 1 \in T
      BY <2>2
    <3> QED BY <2>1, <3>1, <3>2, Upwards
  <2> QED BY <2>3 DEF T
<1>10. g \in [0 .. Width -> Nat] /\ g[0] = n
  <2>1. g = [k \in 0 .. Width |-> g[k]]
    BY <1>7
  <2> QED BY <1>1, <1>7, <1>9, <2>1
<1>11. \A b \in 1 .. Width : g[b] = g[b - 1] \div 2
  <2>1. \A b \in 1 .. Width : b \in 0 .. Width /\ b # 0
    BY <1>1
  <2> QED BY <1>7, <2>1
<1> QED BY <1>8, <1>10, <1>11 DEF Halves

LEMMA DigitIsBit == ASSUME NEW n \in Nat, NEW b \in Places PROVE O!Digit(n, b) \in Bit
<1>1. PICK h : Halves(h, n)
  BY HalvesExist
<1>2. b \in 0 .. Width /\ h[b] \in Nat /\ O!Digit(n, b) = h[b] % 2
  BY <1>1, OptionsAssumption DEF Halves, Places
<1> QED BY <1>2 DEF Bit

\* What is put together of the bits from place b up.
Sums(g, digits) ==
  /\ g \in [0 .. Width -> Nat] /\ g[Width] = 0 /\ O!Number(digits) = g[0]
  /\ \A b \in Places : g[b] = digits[b] + 2 * g[b + 1]

LEMMA SumsExist == ASSUME NEW digits \in [Places -> Bit] PROVE \E g : Sums(g, digits)
<1> DEFINE S == Nat
           f == [b \in 0 .. Width - 1 |-> [x \in S |-> digits[b] + 2 * x]]
           Is(h) == h = [b \in 0 .. Width |-> IF b = Width THEN 0 ELSE digits[b] + 2 * h[b + 1]]
           g == CHOOSE h : Is(h)
<1>0. Width \in Nat /\ 0 \in S /\ \A b \in 0 .. Width - 1 : digits[b] \in Nat
  BY OptionsAssumption DEF Places, Bit
<1>1. f \in [0 .. Width - 1 -> [S -> S]]
  BY <1>0
<1>2. \A b \in 0 .. Width - 1, x \in S : f[b][x] = digits[b] + 2 * x
  OBVIOUS
<1> HIDE DEF f
<1>3. PICK h : Descends(h, S, 0, Width, f)
  <2> HIDE DEF S
  <2> QED BY <1>0, <1>1, DescentExists
<1>4. \A b \in 0 .. Width - 1 : b + 1 \in 0 .. Width /\ b # Width /\ b \in 0 .. Width
  BY <1>0
<1>5. Is(h)
  <2>1. ASSUME NEW b \in 0 .. Width PROVE h[b] = IF b = Width THEN 0 ELSE digits[b] + 2 * h[b + 1]
    <3>1. b = Width \/ b \in 0 .. Width - 1
      BY <1>0
    <3>2. h[Width] = 0
      BY <1>3 DEF Descends
    <3>3. ASSUME b \in 0 .. Width - 1 PROVE h[b] = digits[b] + 2 * h[b + 1] /\ b # Width
      <4>1. h[b] = f[b][h[b + 1]] /\ h[b + 1] \in S
        BY <1>3, <1>4, <3>3 DEF Descends
      <4> QED BY <1>2, <1>4, <3>3, <4>1
    <3> QED BY <3>1, <3>2, <3>3
  <2>2. h = [b \in 0 .. Width |-> h[b]]
    BY <1>3 DEF Descends
  <2> QED BY <2>1, <2>2
<1>6. Is(g)
  <2> HIDE DEF Is
  <2> QED BY <1>5
<1>7. g = [b \in 0 .. Width |-> IF b = Width THEN 0 ELSE digits[b] + 2 * g[b + 1]]
  BY <1>6
<1>8. O!Number(digits) = g[0]
  BY DEF O!Number
<1> HIDE DEF g
<1>9. \A b \in 0 .. Width - 1 : g[b] = digits[b] + 2 * g[b + 1]
  BY <1>4, <1>7
<1>10. Width \in 0 .. Width /\ g[Width] = 0
  BY <1>0, <1>7
<1>11. 0 .. Width \subseteq {b \in 0 .. Width : g[b] \in Nat}
  <2> DEFINE T == {b \in 0 .. Width : g[b] \in Nat}
  <2>1. Width \in T
    BY <1>10
  <2>2. ASSUME NEW b \in 0 .. Width - 1, b + 1 \in T PROVE b \in T
    BY <1>0, <1>4, <1>9, <2>2
  <2> HIDE DEF T
  <2>3. 0 .. Width \subseteq T
    <3>1. 0 \in Int /\ Width \in Int
      BY <1>0
    <3>2. \A b \in 0 .. Width - 1 : b + 1 \in T => b \in T
      BY <2>2
    <3> QED BY <2>1, <3>1, <3>2, Downwards
  <2> QED BY <2>3 DEF T
<1>12. g \in [0 .. Width -> Nat]
  <2>1. g = [k \in 0 .. Width |-> g[k]]
    BY <1>7
  <2> QED BY <1>11, <2>1
<1> QED BY <1>8, <1>9, <1>10, <1>12 DEF Sums, Places

\* A number of this width, with the bits it was made of.
LEMMA NumberHolds ==
  ASSUME NEW digits \in [Places -> Bit]
  PROVE  /\ O!Number(digits) \in O!Underlying
         /\ \A b \in Places : O!Digit(O!Number(digits), b) = digits[b]
<1>1. PICK g : Sums(g, digits)
  BY SumsExist
<1>2. Width \in Nat /\ \A b \in Places : /\ digits[b] \in Bit /\ b \in 0 .. Width /\ b + 1 \in 0 .. Width
                                         /\ b \in 0 .. Width - 1
  BY OptionsAssumption DEF Places
<1>3. \A b \in 0 .. Width : g[b] \in Nat
  BY <1>1 DEF Sums
<1>4. O!Number(digits) \in Nat /\ O!Number(digits) = g[0]
  BY <1>1, <1>2, <1>3 DEF Sums
<1>5. PICK h : Halves(h, O!Number(digits))
  BY <1>4, HalvesExist
<1>6. 0 .. Width \subseteq {b \in 0 .. Width : h[b] = g[b]}
  <2> DEFINE T == {b \in 0 .. Width : h[b] = g[b]}
  <2>1. 0 \in T
    BY <1>2, <1>4, <1>5 DEF Halves
  <2>2. ASSUME NEW b \in 0 .. Width - 1, b \in T PROVE b + 1 \in T
    <3>1. b \in Places /\ b + 1 \in 1 .. Width /\ b + 1 \in 0 .. Width /\ (b + 1) - 1 = b
      BY <1>2 DEF Places
    <3>2. h[b + 1] = g[b] \div 2
      BY <1>5, <2>2, <3>1 DEF Halves
    <3>3. g[b] = digits[b] + 2 * g[b + 1] /\ digits[b] \in {0, 1} /\ g[b + 1] \in Nat
      BY <1>1, <1>2, <1>3, <3>1 DEF Sums, Bit
    <3> QED BY <3>1, <3>2, <3>3
  <2> HIDE DEF T
  <2>3. 0 .. Width \subseteq T
    <3>1. 0 \in Int /\ Width \in Int
      BY <1>2
    <3>2. \A b \in 0 .. Width - 1 : b \in T => b + 1 \in T
      BY <2>2
    <3> QED BY <2>1, <3>1, <3>2, Upwards
  <2> QED BY <2>3 DEF T
<1>7. ASSUME NEW b \in Places PROVE O!Digit(O!Number(digits), b) = digits[b]
  <2>1. O!Digit(O!Number(digits), b) = g[b] % 2
    BY <1>2, <1>5, <1>6 DEF Halves
  <2>2. g[b] = digits[b] + 2 * g[b + 1] /\ digits[b] \in {0, 1} /\ g[b + 1] \in Nat
    BY <1>1, <1>2, <1>3 DEF Sums, Bit
  <2> QED BY <2>1, <2>2
<1>8. 0 .. Width \subseteq {b \in 0 .. Width : g[b] < O!Power[Width - b]}
  <2> DEFINE T == {b \in 0 .. Width : g[b] < O!Power[Width - b]}
  <2>1. Width \in T
    BY <1>1, <1>2, PowerIs DEF Sums
  <2>2. ASSUME NEW b \in 0 .. Width - 1, b + 1 \in T PROVE b \in T
    <3>1. b \in Places /\ Width - b \in 1 .. Width /\ (Width - b) - 1 = Width - (b + 1) /\ b \in 0 .. Width
          /\ Width - (b + 1) \in 0 .. Width
      BY <1>2 DEF Places
    <3>2. O!Power[Width - b] = 2 * O!Power[Width - (b + 1)] /\ O!Power[Width - (b + 1)] \in Nat
      BY <3>1, PowerIs
    <3>3. g[b] = digits[b] + 2 * g[b + 1] /\ digits[b] \in {0, 1} /\ g[b + 1] \in Nat
      BY <1>1, <1>2, <1>3, <3>1 DEF Sums, Bit
    <3> QED BY <2>2, <3>1, <3>2, <3>3
  <2> HIDE DEF T
  <2>3. 0 .. Width \subseteq T
    <3>1. 0 \in Int /\ Width \in Int
      BY <1>2
    <3>2. \A b \in 0 .. Width - 1 : b + 1 \in T => b \in T
      BY <2>2
    <3> QED BY <2>1, <3>1, <3>2, Downwards
  <2> QED BY <2>3 DEF T
<1>9. g[0] < O!Power[Width] /\ O!Power[Width] \in Nat
  BY <1>2, <1>8, PowerIs
<1> QED BY <1>4, <1>7, <1>9 DEF O!Underlying

\* Halving a number of this width leaves nothing.
LEMMA HalvesRunOut ==
  ASSUME NEW n \in O!Underlying, NEW h, Halves(h, n)
  PROVE  \A b \in 0 .. Width : h[b] \in Nat /\ h[b] < O!Power[Width - b]
<1>0. Width \in Nat
  BY OptionsAssumption
<1> DEFINE T == {b \in 0 .. Width : h[b] < O!Power[Width - b]}
<1>1. 0 \in T
  BY <1>0, PowerIs DEF Halves, O!Underlying
<1>2. ASSUME NEW b \in 0 .. Width - 1, b \in T PROVE b + 1 \in T
  <2>1. b \in 0 .. Width /\ b + 1 \in 1 .. Width /\ b + 1 \in 0 .. Width /\ (b + 1) - 1 = b
        /\ Width - b \in 1 .. Width /\ (Width - b) - 1 = Width - (b + 1)
        /\ Width - (b + 1) \in 0 .. Width
    BY <1>0
  <2>2. O!Power[Width - b] = 2 * O!Power[Width - (b + 1)] /\ O!Power[Width - (b + 1)] \in Nat
    BY <2>1, PowerIs
  <2>3. h[b + 1] = h[b] \div 2 /\ h[b] \in Nat
    BY <2>1 DEF Halves
  <2> QED BY <1>2, <2>1, <2>2, <2>3
<1> HIDE DEF T
<1>3. 0 .. Width \subseteq T
  <2>1. 0 \in Int /\ Width \in Int
    BY <1>0
  <2>2. \A b \in 0 .. Width - 1 : b \in T => b + 1 \in T
    BY <1>2
  <2> QED BY <1>1, <2>1, <2>2, Upwards
<1> QED BY <1>3 DEF T, Halves

\* The bits tell numbers apart.
LEMMA SameDigits ==
  ASSUME NEW n \in O!Underlying, NEW m \in O!Underlying,
         \A b \in Places : O!Digit(n, b) = O!Digit(m, b)
  PROVE  n = m
<1>0. Width \in Nat /\ n \in Nat /\ m \in Nat
  BY OptionsAssumption, PowerIs DEF O!Underlying
<1>1. PICK h : Halves(h, n)
  BY <1>0, HalvesExist
<1>2. PICK g : Halves(g, m)
  BY <1>0, HalvesExist
<1> DEFINE T == {b \in 0 .. Width : h[b] = g[b]}
<1>3. Width \in T
  <2>1. Width \in 0 .. Width /\ Width - Width = 0 /\ O!Power[0] = 1
    BY <1>0, PowerIs
  <2>2. h[Width] \in Nat /\ h[Width] < 1
    BY <1>1, <2>1, HalvesRunOut
  <2>3. g[Width] \in Nat /\ g[Width] < 1
    BY <1>2, <2>1, HalvesRunOut
  <2> QED BY <2>1, <2>2, <2>3
<1>4. ASSUME NEW b \in 0 .. Width - 1, b + 1 \in T PROVE b \in T
  <2>1. b \in Places /\ b \in 0 .. Width /\ b + 1 \in 1 .. Width /\ (b + 1) - 1 = b
    BY <1>0 DEF Places
  <2>2. h[b + 1] = h[b] \div 2 /\ h[b] \in Nat /\ O!Digit(n, b) = h[b] % 2
    BY <1>1, <2>1 DEF Halves
  <2>3. g[b + 1] = g[b] \div 2 /\ g[b] \in Nat /\ O!Digit(m, b) = g[b] % 2
    BY <1>2, <2>1 DEF Halves
  <2>4. h[b + 1] = g[b + 1] /\ O!Digit(n, b) = O!Digit(m, b)
    BY <1>4, <2>1
  <2>5. h[b] = g[b]
    BY <2>2, <2>3, <2>4
  <2> QED BY <2>1, <2>5
<1> HIDE DEF T
<1>5. 0 .. Width \subseteq T
  <2>1. 0 \in Int /\ Width \in Int
    BY <1>0
  <2>2. \A b \in 0 .. Width - 1 : b + 1 \in T => b \in T
    BY <1>4
  <2> QED BY <1>3, <2>1, <2>2, Downwards
<1> QED BY <1>0, <1>1, <1>2, <1>5 DEF T, Halves

\* Subtracting from the number whose bits are all set turns each of them round.
LEMMA ComplementTurns ==
  ASSUME NEW n \in O!Underlying
  PROVE  /\ O!Complement(n) \in O!Underlying
         /\ \A b \in Places : O!Digit(O!Complement(n), b) = 1 - O!Digit(n, b)
<1>0. Width \in Nat /\ n \in Nat /\ O!Power[Width] \in Nat /\ O!Complement(n) = O!Power[Width] - 1 - n
      /\ n < O!Power[Width]
  BY OptionsAssumption, PowerIs DEF O!Underlying, O!Complement
<1>1. O!Complement(n) \in O!Underlying /\ O!Complement(n) \in Nat
  BY <1>0 DEF O!Underlying
<1>2. PICK h : Halves(h, n)
  BY <1>0, HalvesExist
<1>3. PICK g : Halves(g, O!Complement(n))
  BY <1>1, HalvesExist
<1>4. \A b \in 0 .. Width : h[b] \in Nat /\ h[b] < O!Power[Width - b]
  BY <1>2, HalvesRunOut
<1> DEFINE T == {b \in 0 .. Width : g[b] = O!Power[Width - b] - 1 - h[b]}
<1>5. 0 \in T
  BY <1>0, <1>2, <1>3 DEF Halves
<1>6. ASSUME NEW b \in 0 .. Width - 1
      PROVE  /\ b \in Places /\ b + 1 \in 1 .. Width /\ b + 1 \in 0 .. Width /\ (b + 1) - 1 = b /\ b \in 0 .. Width
             /\ O!Power[Width - b] = 2 * O!Power[Width - (b + 1)] /\ O!Power[Width - (b + 1)] \in Nat
  <2>1. Width - b \in 1 .. Width /\ (Width - b) - 1 = Width - (b + 1) /\ Width - (b + 1) \in 0 .. Width
    BY <1>0
  <2>2. O!Power[Width - b] = 2 * O!Power[Width - (b + 1)] /\ O!Power[Width - (b + 1)] \in Nat
    BY <2>1, PowerIs
  <2> QED BY <1>0, <2>2 DEF Places
<1>7. ASSUME NEW b \in 0 .. Width - 1, b \in T PROVE b + 1 \in T
  <2>1. h[b + 1] = h[b] \div 2 /\ g[b + 1] = g[b] \div 2 /\ h[b] \in Nat /\ g[b] \in Nat
    BY <1>2, <1>3, <1>6 DEF Halves
  <2>2. g[b] = 2 * O!Power[Width - (b + 1)] - 1 - h[b] /\ O!Power[Width - (b + 1)] \in Nat
    BY <1>6, <1>7
  <2>3. g[b + 1] = O!Power[Width - (b + 1)] - 1 - h[b + 1]
    BY <2>1, <2>2
  <2> QED BY <1>6, <2>3
<1> HIDE DEF T
<1>8. 0 .. Width \subseteq T
  <2>1. 0 \in Int /\ Width \in Int
    BY <1>0
  <2>2. \A b \in 0 .. Width - 1 : b \in T => b + 1 \in T
    BY <1>7
  <2> QED BY <1>5, <2>1, <2>2, Upwards
<1>9. ASSUME NEW b \in Places PROVE O!Digit(O!Complement(n), b) = 1 - O!Digit(n, b)
  <2>1. b \in 0 .. Width - 1
    BY DEF Places
  <2>2. O!Digit(n, b) = h[b] % 2 /\ O!Digit(O!Complement(n), b) = g[b] % 2 /\ h[b] \in Nat /\ g[b] \in Nat
    BY <1>2, <1>3, <1>6, <2>1 DEF Halves
  <2>3. g[b] = 2 * O!Power[Width - (b + 1)] - 1 - h[b] /\ O!Power[Width - (b + 1)] \in Nat
    BY <1>6, <1>8, <2>1 DEF T
  <2> QED BY <2>2, <2>3
<1> QED BY <1>1, <1>9

LEMMA UnderlyingIs == O!Underlying \subseteq Nat /\ 0 \in O!Underlying /\ Enum \subseteq O!Underlying
<1>1. Width \in 0 .. Width
  BY OptionsAssumption
<1>2. O!Power[Width] \in Nat \ {0}
  BY <1>1, PowerIs
<1> QED BY <1>2, OptionsAssumption DEF O!Underlying

LEMMA BitsOfNumber ==
  ASSUME NEW digits \in [Places -> Bit]
  PROVE  O!Number(digits) \in O!Underlying /\ O!Bits(O!Number(digits)) = {b \in Places : digits[b] = 1}
BY NumberHolds DEF O!Bits, Places

LEMMA AndIs ==
  ASSUME NEW n \in O!Underlying, NEW m \in O!Underlying
  PROVE  O!And(n, m) \in O!Underlying /\ O!Bits(O!And(n, m)) = O!Bits(n) \cap O!Bits(m)
<1> DEFINE digits == [b \in Places |-> O!Digit(n, b) * O!Digit(m, b)]
<1>1. ASSUME NEW b \in Places
      PROVE  /\ O!Digit(n, b) * O!Digit(m, b) \in Bit
             /\ O!Digit(n, b) * O!Digit(m, b) = 1 <=> O!Digit(n, b) = 1 /\ O!Digit(m, b) = 1
  <2>1. O!Digit(n, b) \in {0, 1} /\ O!Digit(m, b) \in {0, 1}
    BY DigitIsBit, UnderlyingIs DEF Bit
  <2> QED BY <2>1 DEF Bit
<1>2. digits \in [Places -> Bit] /\ \A b \in Places : digits[b] = O!Digit(n, b) * O!Digit(m, b)
  BY <1>1
<1>3. O!And(n, m) = O!Number(digits)
  BY DEF O!And, Places
<1> HIDE DEF digits
<1>4. O!Bits(O!Number(digits)) = {b \in Places : digits[b] = 1} /\ O!Number(digits) \in O!Underlying
  BY <1>2, BitsOfNumber
<1>5. {b \in Places : digits[b] = 1} = O!Bits(n) \cap O!Bits(m)
  BY <1>1, <1>2 DEF O!Bits, Places
<1> QED BY <1>3, <1>4, <1>5

LEMMA OrIs ==
  ASSUME NEW n \in O!Underlying, NEW m \in O!Underlying
  PROVE  O!Or(n, m) \in O!Underlying /\ O!Bits(O!Or(n, m)) = O!Bits(n) \cup O!Bits(m)
<1> DEFINE digits == [b \in Places |-> IF O!Digit(n, b) = 1 THEN 1 ELSE O!Digit(m, b)]
<1>1. \A b \in Places : O!Digit(n, b) \in {0, 1} /\ O!Digit(m, b) \in {0, 1}
  BY DigitIsBit, UnderlyingIs DEF Bit
<1>2. digits \in [Places -> Bit]
      /\ \A b \in Places : digits[b] = 1 <=> O!Digit(n, b) = 1 \/ O!Digit(m, b) = 1
  BY <1>1 DEF Bit
<1>3. O!Or(n, m) = O!Number(digits)
  BY DEF O!Or, Places
<1> HIDE DEF digits
<1>4. O!Bits(O!Number(digits)) = {b \in Places : digits[b] = 1} /\ O!Number(digits) \in O!Underlying
  BY <1>2, BitsOfNumber
<1>5. {b \in Places : digits[b] = 1} = O!Bits(n) \cup O!Bits(m)
  BY <1>2 DEF O!Bits, Places
<1> QED BY <1>3, <1>4, <1>5

LEMMA JoinedIs ==
  ASSUME NEW values, values \subseteq O!Underlying
  PROVE  O!Joined(values) \in O!Underlying /\ O!Bits(O!Joined(values)) = UNION {O!Bits(v) : v \in values}
<1> DEFINE digits == [b \in Places |-> IF \E v \in values : O!Digit(v, b) = 1 THEN 1 ELSE 0]
<1>1. digits \in [Places -> Bit]
      /\ \A b \in Places : digits[b] = 1 <=> \E v \in values : O!Digit(v, b) = 1
  BY DEF Bit
<1>2. O!Joined(values) = O!Number(digits)
  BY DEF O!Joined, Places
<1> HIDE DEF digits
<1>3. O!Bits(O!Number(digits)) = {b \in Places : digits[b] = 1} /\ O!Number(digits) \in O!Underlying
  BY <1>1, BitsOfNumber
<1>4. {b \in Places : digits[b] = 1} = UNION {O!Bits(v) : v \in values}
  BY <1>1 DEF O!Bits, Places
<1> QED BY <1>2, <1>3, <1>4

LEMMA WithoutIs ==
  ASSUME NEW n \in O!Underlying, NEW f \in O!Underlying
  PROVE  O!Without(n, f) \in O!Underlying /\ O!Bits(O!Without(n, f)) = O!Bits(n) \ O!Bits(f)
<1>1. O!Complement(f) \in O!Underlying
  BY ComplementTurns
<1>2. ASSUME NEW b \in Places PROVE O!Digit(O!Complement(f), b) = 1 <=> O!Digit(f, b) # 1
  <2>1. O!Digit(f, b) \in {0, 1} /\ O!Digit(O!Complement(f), b) = 1 - O!Digit(f, b)
    BY ComplementTurns, DigitIsBit, UnderlyingIs DEF Bit
  <2> QED BY <2>1
<1>3. O!Bits(n) \cap O!Bits(O!Complement(f)) = O!Bits(n) \ O!Bits(f)
  BY <1>2 DEF O!Bits, Places
<1> QED BY <1>1, <1>3, AndIs DEF O!Without

LEMMA SameBits ==
  ASSUME NEW n \in O!Underlying, NEW m \in O!Underlying
  PROVE  n = m <=> O!Bits(n) = O!Bits(m)
<1> SUFFICES ASSUME O!Bits(n) = O!Bits(m) PROVE n = m
  OBVIOUS
<1>1. ASSUME NEW b \in Places PROVE O!Digit(n, b) = O!Digit(m, b)
  <2>1. O!Digit(n, b) \in {0, 1} /\ O!Digit(m, b) \in {0, 1}
    BY DigitIsBit, UnderlyingIs DEF Bit
  <2>2. O!Digit(n, b) = 1 <=> O!Digit(m, b) = 1
    BY DEF O!Bits, Places
  <2> QED BY <2>1, <2>2
<1> QED BY <1>1, SameDigits

LEMMA ZeroIs == O!Bits(0) = {}
<1>1. PICK h : Halves(h, 0)
  BY HalvesExist
<1>2. Width \in Nat
  BY OptionsAssumption
<1>3. 0 .. Width \subseteq {b \in 0 .. Width : h[b] = 0}
  <2> DEFINE T == {b \in 0 .. Width : h[b] = 0}
  <2>1. 0 \in T
    BY <1>1, <1>2 DEF Halves
  <2>2. ASSUME NEW b \in 0 .. Width - 1, b \in T PROVE b + 1 \in T
    <3>1. b + 1 \in 1 .. Width /\ b + 1 \in 0 .. Width /\ (b + 1) - 1 = b
      BY <1>2
    <3>2. h[b + 1] = 0 \div 2
      BY <1>1, <2>2, <3>1 DEF Halves
    <3> QED BY <3>1, <3>2
  <2> HIDE DEF T
  <2>3. 0 .. Width \subseteq T
    <3>1. 0 \in Int /\ Width \in Int
      BY <1>2
    <3>2. \A b \in 0 .. Width - 1 : b \in T => b + 1 \in T
      BY <2>2
    <3> QED BY <2>1, <3>1, <3>2, Upwards
  <2> QED BY <2>3 DEF T
<1>4. ASSUME NEW b \in Places PROVE O!Digit(0, b) = 0
  <2>1. b \in 0 .. Width
    BY <1>2 DEF Places
  <2>2. O!Digit(0, b) = 0 % 2
    BY <1>1, <1>3, <2>1 DEF Halves
  <2> QED BY <2>2
<1> QED BY <1>4 DEF O!Bits, Places

LEMMA HasIs ==
  ASSUME NEW n \in O!Underlying, NEW f \in O!Underlying
  PROVE  O!Has(n, f) <=> O!Bits(f) \subseteq O!Bits(n)
<1>1. O!And(n, f) \in O!Underlying /\ O!Bits(O!And(n, f)) = O!Bits(n) \cap O!Bits(f)
  BY AndIs
<1>2. O!And(n, f) = f <=> O!Bits(n) \cap O!Bits(f) = O!Bits(f)
  BY <1>1, SameBits
<1> QED BY <1>2 DEF O!Has

\* Each object holds a number of its width.
FlagsTyped == flag \in [Objects -> O!Underlying]

\* An assignment is seen as one of the set of its bits.
LEMMA BecomesBits ==
  ASSUME FlagsTyped, NEW o \in Objects, NEW n \in O!Underlying, O!Assign(o, n)
  PROVE  /\ FlagsTyped'
         /\ O!Sets!Become(o, O!Bits(n))
<1>1. flag' = [flag EXCEPT ![o] = n] /\ answer' = answer
  BY DEF O!Assign
<1>2. FlagsTyped'
  BY <1>1 DEF FlagsTyped
<1>3. [p \in Objects |-> O!Bits(flag'[p])]
        = [[p \in Objects |-> O!Bits(flag[p])] EXCEPT ![o] = O!Bits(n)]
  BY <1>1 DEF FlagsTyped
<1> QED BY <1>1, <1>2, <1>3 DEF O!Sets!Become

LEMMA CalledIs ==
  ASSUME NEW op, NEW given, O!Called(op, given)
  PROVE  O!Sets!Called(op, {O!Bits(v) : v \in given})
BY DEF O!Called, O!Sets!Called

LEMMA OptionsInit == ASSUME O!Init PROVE FlagsTyped /\ O!Sets!Init
<1>1. O!Joined(InitialValue) \in O!Underlying
      /\ O!Bits(O!Joined(InitialValue)) = UNION {O!Bits(v) : v \in InitialValue}
  BY JoinedIs, OptionsAssumption
<1>2. FlagsTyped
  BY <1>1 DEF O!Init, FlagsTyped
<1>3. [o \in Objects |-> O!Bits(flag[o])] = [o \in Objects |-> UNION {O!Bits(v) : v \in InitialValue}]
  BY <1>1 DEF O!Init
<1>4. call.op = "none" /\ {O!Bits(v) : v \in call.given} = {}
  BY DEF O!Init
<1> QED BY <1>2, <1>3, <1>4 DEF O!Init, O!Sets!Init

LEMMA OptionsStep == ASSUME FlagsTyped, O!Next PROVE FlagsTyped' /\ O!Sets!Next
<1> DEFINE Values == {O!Bits(v) : v \in Enum}
           Initial == UNION {O!Bits(v) : v \in InitialValue}
           on == [o \in Objects |-> O!Bits(flag[o])]
<1>0. /\ Enum \subseteq O!Underlying /\ InitialValue \subseteq Enum /\ 0 \in O!Underlying
      /\ \A p \in Objects : flag[p] \in O!Underlying /\ on[p] = O!Bits(flag[p])
  BY UnderlyingIs, OptionsAssumption DEF FlagsTyped
<1> HIDE DEF on
<1>1. PICK o \in Objects :
        \/ \E values \in SUBSET Enum : O!Construct(o, values)
        \/ \E f \in Enum : O!Add(o, f) \/ O!Remove(o, f) \/ O!Test(o, f)
        \/ \E lhs, rhs \in Objects : O!Unite(o, lhs, rhs) \/ O!Intersect(o, lhs, rhs)
        \/ \E u \in O!Underlying : O!UnsafeSetFlag(o, u)
        \/ \E rhs \in Objects : O!Equal(o, rhs)
        \/ O!Reset(o) \/ O!Empty(o)
  BY DEF O!Next
<1>2. ASSUME NEW values \in SUBSET Enum, O!Construct(o, values) PROVE FlagsTyped' /\ O!Sets!Next
  <2>1. O!Called("construct", values) /\ O!Assign(o, O!Joined(InitialValue \cup values))
    BY <1>2 DEF O!Construct
  <2>2. O!Joined(InitialValue \cup values) \in O!Underlying
        /\ O!Bits(O!Joined(InitialValue \cup values)) = UNION {O!Bits(v) : v \in InitialValue \cup values}
    BY <1>0, JoinedIs
  <2> DEFINE vs == {O!Bits(v) : v \in values}
  <2>3. UNION {O!Bits(v) : v \in InitialValue \cup values} = Initial \cup UNION vs /\ vs \in SUBSET Values
    OBVIOUS
  <2> HIDE DEF Initial, Values
  <2>4. FlagsTyped' /\ O!Sets!Become(o, Initial \cup UNION vs)
    BY <2>1, <2>2, <2>3, BecomesBits
  <2>5. O!Sets!Called("construct", vs)
    BY <2>1, CalledIs
  <2> HIDE DEF vs
  <2> QED BY <2>3, <2>4, <2>5 DEF O!Sets!Next, Initial, Values
<1>3. ASSUME NEW f \in Enum PROVE {O!Bits(v) : v \in {f}} = {O!Bits(f)} /\ O!Bits(f) \in Values
  OBVIOUS
<1>4. ASSUME NEW f \in Enum, O!Add(o, f) PROVE FlagsTyped' /\ O!Sets!Next
  <2>1. O!Sets!Called("add", {O!Bits(f)})
    BY <1>3, <1>4, CalledIs DEF O!Add
  <2>2. FlagsTyped' /\ O!Sets!Become(o, on[o] \cup O!Bits(f))
    <3>1. O!Or(flag[o], f) \in O!Underlying /\ O!Bits(O!Or(flag[o], f)) = on[o] \cup O!Bits(f)
      BY <1>0, OrIs
    <3>2. O!Assign(o, O!Or(flag[o], f))
      BY <1>4 DEF O!Add
    <3> QED BY <3>1, <3>2, BecomesBits
  <2> QED BY <1>3, <2>1, <2>2 DEF O!Sets!Next, on
<1>5. ASSUME NEW f \in Enum, O!Remove(o, f) PROVE FlagsTyped' /\ O!Sets!Next
  <2>1. O!Sets!Called("remove", {O!Bits(f)})
    BY <1>3, <1>5, CalledIs DEF O!Remove
  <2>2. FlagsTyped' /\ O!Sets!Become(o, on[o] \ O!Bits(f))
    <3>1. O!Without(flag[o], f) \in O!Underlying /\ O!Bits(O!Without(flag[o], f)) = on[o] \ O!Bits(f)
      BY <1>0, WithoutIs
    <3>2. O!Assign(o, O!Without(flag[o], f))
      BY <1>5 DEF O!Remove
    <3> QED BY <3>1, <3>2, BecomesBits
  <2> QED BY <1>3, <2>1, <2>2 DEF O!Sets!Next, on
<1>6. ASSUME flag' = flag PROVE FlagsTyped' /\ [p \in Objects |-> O!Bits(flag'[p])] = on
  BY <1>6 DEF FlagsTyped, on
<1>7. ASSUME NEW f \in Enum, O!Test(o, f) PROVE FlagsTyped' /\ O!Sets!Next
  <2>1. O!Sets!Called("test", {O!Bits(f)})
    BY <1>3, <1>7, CalledIs DEF O!Test
  <2>2. O!Has(flag[o], f) <=> O!Bits(f) \subseteq on[o]
    BY <1>0, HasIs
  <2>3. flag' = flag /\ answer' = O!Has(flag[o], f)
    BY <1>7 DEF O!Test, O!Return
  <2>4. O!Sets!Answer(O!Bits(f) \subseteq on[o])
    <3>1. answer' = (O!Bits(f) \subseteq on[o])
      BY <2>2, <2>3 DEF O!Has
    <3> QED BY <1>6, <2>3, <3>1 DEF O!Sets!Answer, on
  <2> QED BY <1>3, <1>6, <2>1, <2>3, <2>4 DEF O!Sets!Next, on
<1>8. {O!Bits(v) : v \in {}} = {}
  OBVIOUS
<1>9. ASSUME NEW lhs \in Objects, NEW rhs \in Objects, O!Unite(o, lhs, rhs) PROVE FlagsTyped' /\ O!Sets!Next
  <2>1. O!Sets!Called("unite", {})
    BY <1>8, <1>9, CalledIs DEF O!Unite
  <2>2. FlagsTyped' /\ O!Sets!Become(o, on[lhs] \cup on[rhs])
    <3>1. O!Or(flag[lhs], flag[rhs]) \in O!Underlying
          /\ O!Bits(O!Or(flag[lhs], flag[rhs])) = on[lhs] \cup on[rhs]
      BY <1>0, OrIs
    <3>2. O!Assign(o, O!Or(flag[lhs], flag[rhs]))
      BY <1>9 DEF O!Unite
    <3> QED BY <3>1, <3>2, BecomesBits
  <2> QED BY <2>1, <2>2 DEF O!Sets!Next, on
<1>10. ASSUME NEW lhs \in Objects, NEW rhs \in Objects, O!Intersect(o, lhs, rhs) PROVE FlagsTyped' /\ O!Sets!Next
  <2>1. O!Sets!Called("intersect", {})
    BY <1>8, <1>10, CalledIs DEF O!Intersect
  <2>2. FlagsTyped' /\ O!Sets!Become(o, on[lhs] \cap on[rhs])
    <3>1. O!And(flag[lhs], flag[rhs]) \in O!Underlying
          /\ O!Bits(O!And(flag[lhs], flag[rhs])) = on[lhs] \cap on[rhs]
      BY <1>0, AndIs
    <3>2. O!Assign(o, O!And(flag[lhs], flag[rhs]))
      BY <1>10 DEF O!Intersect
    <3> QED BY <3>1, <3>2, BecomesBits
  <2> QED BY <2>1, <2>2 DEF O!Sets!Next, on
<1>11. ASSUME NEW u \in O!Underlying, O!UnsafeSetFlag(o, u) PROVE FlagsTyped' /\ O!Sets!Next
  <2>1. {O!Bits(v) : v \in {u}} = {O!Bits(u)} /\ O!Bits(u) \in SUBSET (0 .. Width - 1)
    BY DEF O!Bits
  <2>2. O!Sets!Called("unsafe set", {O!Bits(u)})
    BY <1>11, <2>1, CalledIs DEF O!UnsafeSetFlag
  <2>3. FlagsTyped' /\ O!Sets!Become(o, O!Bits(u))
    BY <1>11, BecomesBits DEF O!UnsafeSetFlag
  <2> QED BY <2>1, <2>2, <2>3 DEF O!Sets!Next
<1>12. ASSUME NEW rhs \in Objects, O!Equal(o, rhs) PROVE FlagsTyped' /\ O!Sets!Next
  <2>1. O!Sets!Called("equal", {})
    BY <1>8, <1>12, CalledIs DEF O!Equal
  <2>2. flag' = flag /\ answer' = (flag[o] = flag[rhs])
    BY <1>12 DEF O!Equal, O!Return
  <2>3. flag[o] = flag[rhs] <=> on[o] = on[rhs]
    BY <1>0, SameBits
  <2>4. O!Sets!Answer(on[o] = on[rhs])
    <3>1. answer' = (on[o] = on[rhs])
      BY <2>2, <2>3
    <3> QED BY <1>6, <2>2, <3>1 DEF O!Sets!Answer, on
  <2> QED BY <1>6, <2>1, <2>2, <2>4 DEF O!Sets!Next, on
<1>13. ASSUME O!Reset(o) PROVE FlagsTyped' /\ O!Sets!Next
  <2>1. O!Sets!Called("reset", {})
    BY <1>8, <1>13, CalledIs DEF O!Reset
  <2>2. FlagsTyped' /\ O!Sets!Become(o, {})
    BY <1>0, <1>13, ZeroIs, BecomesBits DEF O!Reset
  <2> QED BY <2>1, <2>2 DEF O!Sets!Next
<1>14. ASSUME O!Empty(o) PROVE FlagsTyped' /\ O!Sets!Next
  <2>1. O!Sets!Called("empty", {})
    BY <1>8, <1>14, CalledIs DEF O!Empty
  <2>2. flag' = flag /\ answer' = (flag[o] = 0)
    BY <1>14 DEF O!Empty, O!Return
  <2>3. flag[o] = 0 <=> on[o] = {}
    BY <1>0, SameBits, ZeroIs
  <2>4. O!Sets!Answer(on[o] = {})
    <3>1. answer' = (on[o] = {})
      BY <2>2, <2>3
    <3> QED BY <1>6, <2>2, <3>1 DEF O!Sets!Answer, on
  <2> QED BY <1>6, <2>1, <2>2, <2>4 DEF O!Sets!Next, on
<1> QED BY <1>1, <1>2, <1>4, <1>5, <1>7, <1>9, <1>10, <1>11, <1>12, <1>13, <1>14

(***************************************************************************)
(* An Options object is a set of flags, whatever the width of its number   *)
(* and the values of its enumeration: every operation of Options.hpp is    *)
(* the one of OptionSet on the bits.                                       *)
(***************************************************************************)
THEOREM OptionsRefine == Spec => ImplementsOptionSet
<1>1. Init => FlagsTyped /\ O!Sets!Init
  BY OptionsInit DEF Init
<1>2. FlagsTyped /\ [Next]_vars => FlagsTyped' /\ [O!Sets!Next]_(O!Sets!vars)
  <2> SUFFICES ASSUME FlagsTyped, [Next]_vars PROVE FlagsTyped' /\ [O!Sets!Next]_(O!Sets!vars)
    OBVIOUS
  <2>1. CASE NextOptions
    BY <2>1, OptionsStep DEF NextOptions
  <2>2. CASE UNCHANGED options
    BY <2>2 DEF options, FlagsTyped, O!Sets!vars
  <2> QED BY <2>1, <2>2 DEF Next, vars, NextCodec, NextJson, NextPicker
<1> QED BY <1>1, <1>2, PTL DEF Spec, ImplementsOptionSet, O!ImplementsOptionSet, O!Sets!Spec

-------------------------------------------------------------------------------
(* RandomValuePicker *)

\* A picker that is not stale remembers the last element of a collection that had no fewer since.
PickersAttached ==
  /\ size \in Nat /\ attached \subseteq Pickers /\ last \in [Pickers -> Int]
  /\ \A p \in attached \ stale : 0 <= last[p] /\ last[p] < size

LEMMA PickerInit == ASSUME P!Init PROVE PickersAttached
<1>1. size = 0 /\ attached = {} /\ last = [p \in Pickers |-> 1]
  BY DEF P!Init
<1>2. last \in [Pickers -> Int]
  BY <1>1
<1> QED BY <1>1, <1>2 DEF PickersAttached

LEMMA PickerStep == ASSUME PickersAttached, P!Next PROVE PickersAttached'
<1>1. CASE P!Insert
  BY <1>1 DEF P!Insert, PickersAttached
<1>2. CASE P!Erase
  BY <1>2 DEF P!Erase, PickersAttached
<1>3. ASSUME NEW p \in Pickers, P!CreatePicker(p) PROVE PickersAttached'
  BY <1>3 DEF P!CreatePicker, P!LastIndex, PickersAttached
<1>4. ASSUME NEW p \in Pickers, P!Pick(p) PROVE PickersAttached'
  BY <1>4 DEF P!Pick, PickersAttached
<1>5. ASSUME NEW p \in Pickers, NEW q \in Pickers, P!Copy(p, q) PROVE PickersAttached'
  <2>1. /\ attached' = IF q \in attached THEN attached \cup {p} ELSE attached \ {p}
        /\ last' = [last EXCEPT ![p] = last[q]] /\ size' = size
        /\ stale' = IF q \in stale THEN stale \cup {p} ELSE stale \ {p}
    BY <1>5 DEF P!Copy
  <2>2. last' \in [Pickers -> Int] /\ last'[p] = last[q] /\ \A x \in Pickers \ {p} : last'[x] = last[x]
    BY <2>1 DEF PickersAttached
  <2>3. ASSUME NEW x \in attached' \ stale' PROVE 0 <= last'[x] /\ last'[x] < size'
    <3>1. CASE x = p
      <4>1. q \in attached \ stale
        BY <2>1, <2>3, <3>1
      <4> QED BY <2>1, <2>2, <3>1, <4>1 DEF PickersAttached
    <3>2. CASE x # p
      <4>1. x \in attached \ stale /\ x \in Pickers
        BY <2>1, <2>3, <3>2 DEF PickersAttached
      <4> QED BY <2>1, <2>2, <3>2, <4>1 DEF PickersAttached
    <3> QED BY <3>1, <3>2
  <2>4. attached' \subseteq Pickers /\ size' \in Nat
    BY <2>1 DEF PickersAttached
  <2> QED BY <2>2, <2>3, <2>4 DEF PickersAttached
<1> QED BY <1>1, <1>2, <1>3, <1>4, <1>5 DEF P!Next

LEMMA PickIsInside ==
  ASSUME PickersAttached, NEW p \in Pickers, P!Pick(p), p \notin stale
  PROVE  picked' = IF p \in attached THEN "element" ELSE "thrown"
<1>1. CASE p \notin attached
  BY <1>1 DEF P!Pick
<1>2. CASE p \in attached
  <2>1. PICK n \in P!Drawn(p) : picked' = IF n < size THEN "element" ELSE "outside"
    BY <1>2 DEF P!Pick
  <2>2. 0 <= last[p] /\ last[p] < size /\ last[p] \in Int /\ size \in Nat
    BY <1>2 DEF PickersAttached
  <2>3. n \in 0 .. last[p]
    BY <2>2 DEF P!Drawn
  <2>4. n < size
    BY <2>2, <2>3
  <2> QED BY <1>2, <2>1, <2>4
<1> QED BY <1>1, <1>2

(***************************************************************************)
(* A picker made from elements, and from which none was taken since, gives *)
(* an element, for any number of pickers, copied at will, over a           *)
(* collection of any size: RandomValuePicker::operator().                  *)
(***************************************************************************)
THEOREM PickerCorrect == Spec => PicksInside
<1>1. Init => PickersAttached
  BY PickerInit DEF Init
<1>2. PickersAttached /\ [Next]_vars => PickersAttached'
  <2> SUFFICES ASSUME PickersAttached, [Next]_vars PROVE PickersAttached'
    OBVIOUS
  <2>1. CASE NextPicker
    BY <2>1, PickerStep DEF NextPicker
  <2>2. CASE UNCHANGED picker
    BY <2>2 DEF picker, PickersAttached
  <2> QED BY <2>1, <2>2 DEF Next, vars, NextCodec, NextJson, NextOptions
<1>3. ASSUME PickersAttached
      PROVE  [\A p \in Pickers : P!Pick(p) /\ p \notin stale =>
                picked' = IF p \in attached THEN "element" ELSE "thrown"]_(P!vars)
  BY <1>3, PickIsInside
<1> QED BY <1>1, <1>2, <1>3, PTL DEF Spec, PicksInside, P!PicksInside

-------------------------------------------------------------------------------
(* escape_json_string *)

LEMMA JsonFlattens ==
  ASSUME NEW parts, Len(parts) \in Nat PROVE FlattensTo(J!FlattenSeq(parts), parts)
<1> DEFINE flatten == CHOOSE g : Flattens(g, parts, Len(parts))
<1>1. Flattens(flatten, parts, Len(parts))
  BY FlattensExists, Zenon
<1>2. Len(parts) # 0 => J!FlattenSeq(parts) = flatten[Len(parts)]
  BY DEF J!FlattenSeq, Flattens
<1>3. Len(parts) = 0 => J!FlattenSeq(parts) = parts
  BY DEF J!FlattenSeq
<1> HIDE DEF flatten
<1> QED BY <1>1, <1>2, <1>3 DEF FlattensTo

\* The escapes of the characters of a string.
Escapes(str) == [k \in DOMAIN str |-> J!Escape(str[k])]
Escaped(str) == J!FlattenSeq(Escapes(str))

LEMMA LettersAre ==
  /\ \A c \in Int : J!Letter(c) \in Int
  /\ \A c \in {34, 92} : J!Letter(c) = c
BY DEF J!Letter

LEMMA EscapeIs ==
  ASSUME NEW c \in JsonAlphabet
  PROVE  /\ c \in J!Short =>
              J!Escape(c) = <<92, J!Letter(c)>> /\ J!Letter(c) \in Int /\ J!Extra(c) = 1
         /\ c \in J!Control \ J!Short =>
              /\ J!Escape(c) = <<92, 117, 48, 48, J!HexChar(c \div 16), J!HexChar(c % 16)>>
              /\ J!HexChar(c \div 16) \in Int /\ J!HexChar(c % 16) \in Int
              /\ J!Extra(c) = 5
         /\ c \notin J!Control \cup J!Short => J!Escape(c) = <<c>> /\ J!Extra(c) = 0
         /\ c \in Int
<1>1. c \in Int
  BY CoreAssumption
<1>2. J!Letter(c) \in Int /\ (c \in {34, 92} => J!Letter(c) = c)
  BY <1>1, LettersAre
<1>3. J!HexChar(c \div 16) \in Int /\ J!HexChar(c % 16) \in Int
  BY <1>1 DEF J!HexChar
<1>4. CASE c \in J!Short
  <2>1. c \in {34, 92, 8, 12, 10, 13, 9} /\ (c \in {8, 9, 10, 12, 13} \/ c \in {34, 92})
    BY <1>4 DEF J!Short
  <2>2. J!Escape(c) = <<92, J!Letter(c)>>
    BY <1>2, <2>1 DEF J!Escape, J!Backslash, J!Quote
  <2> QED BY <1>1, <1>2, <1>4, <2>2 DEF J!Extra
<1>5. CASE c \in J!Control \ J!Short
  <2>1. c \notin {8, 9, 10, 12, 13} /\ c \notin {34, 92} /\ c \in 0 .. 31
    BY <1>5 DEF J!Short, J!Control
  <2>2. J!Escape(c) = <<92, 117, 48, 48, J!HexChar(c \div 16), J!HexChar(c % 16)>>
    BY <2>1 DEF J!Escape, J!Backslash, J!Quote
  <2> QED BY <1>1, <1>3, <1>5, <2>2 DEF J!Extra
<1>6. CASE c \notin J!Control \cup J!Short
  <2>1. c \notin {8, 9, 10, 12, 13} /\ c \notin {34, 92} /\ c \notin 0 .. 31
    BY <1>6 DEF J!Short, J!Control
  <2>2. J!Escape(c) = <<c>>
    BY <2>1 DEF J!Escape, J!Backslash, J!Quote
  <2> QED BY <1>1, <1>6, <2>2 DEF J!Extra
<1> QED BY <1>4, <1>5, <1>6

LEMMA EscapeTyped ==
  ASSUME NEW c \in JsonAlphabet
  PROVE  J!Escape(c) \in Seq(Int) /\ Len(J!Escape(c)) = 1 + J!Extra(c) /\ J!Extra(c) \in {0, 1, 5}
<1>1. CASE c \in J!Short
  <2>1. J!Escape(c) = <<92, J!Letter(c)>> /\ J!Letter(c) \in Int /\ J!Extra(c) = 1
    BY <1>1, EscapeIs
  <2> QED BY <2>1, ShortTuples
<1>2. CASE c \in J!Control \ J!Short
  <2>1. J!Escape(c) = <<92, 117, 48, 48, J!HexChar(c \div 16), J!HexChar(c % 16)>>
    BY <1>2, EscapeIs
  <2>2. J!HexChar(c \div 16) \in Int /\ J!HexChar(c % 16) \in Int /\ J!Extra(c) = 5
    BY <1>2, EscapeIs
  <2>3. PICK a \in Int, b \in Int : J!Escape(c) = <<92, 117, 48, 48, a, b>>
    BY <2>1, <2>2
  <2>4. J!Escape(c) \in Seq(Int) /\ Len(J!Escape(c)) = 6
    BY <2>3, ShortTuples
  <2> QED BY <2>2, <2>4
<1>3. CASE c \notin J!Control \cup J!Short
  <2>1. J!Escape(c) = <<c>> /\ c \in Int /\ J!Extra(c) = 0
    BY <1>3, EscapeIs
  <2>2. <<c>> \in Seq(Int) /\ Len(<<c>>) = 1
    BY <2>1
  <2> QED BY <2>1, <2>2
<1> QED BY <1>1, <1>2, <1>3

LEMMA EscapesLaidOut ==
  ASSUME NEW str \in Seq(JsonAlphabet)
  PROVE  /\ Escaped(str) \in Seq(Int)
         /\ \E off : LaidOut(Escaped(str), Escapes(str), off)
         /\ Len(Escapes(str)) = Len(str) /\ Len(str) \in Nat
         /\ \A k \in 1 .. Len(str) :
              /\ str[k] \in JsonAlphabet /\ Escapes(str)[k] = J!Escape(str[k])
              /\ Len(Escapes(str)[k]) = 1 + J!Extra(str[k])
<1>1. Len(str) \in Nat /\ DOMAIN str = 1 .. Len(str)
  BY LenProperties
<1>2. \A k \in 1 .. Len(str) : str[k] \in JsonAlphabet
  BY ElementOfSeq
<1>3. \A k \in 1 .. Len(str) : Escapes(str)[k] = J!Escape(str[k])
  BY <1>1 DEF Escapes
<1>4. Escapes(str) \in [1 .. Len(str) -> Seq(Int)]
  <2>1. \A k \in 1 .. Len(str) : J!Escape(str[k]) \in Seq(Int)
    BY <1>2, EscapeTyped
  <2> QED BY <1>1, <2>1 DEF Escapes
<1>5. Escapes(str) \in Seq(Seq(Int)) /\ Len(Escapes(str)) = Len(str)
  BY <1>1, <1>4
<1>6. FlattensTo(Escaped(str), Escapes(str))
  BY <1>1, <1>5, JsonFlattens DEF Escaped
<1>7. Escaped(str) \in Seq(Int) /\ \E off : LaidOut(Escaped(str), Escapes(str), off)
  BY <1>5, <1>6, FlattenLaysOut
<1> QED BY <1>1, <1>2, <1>3, <1>5, <1>7, EscapeTyped

\* The buffer holds w up to position p, and the backslashes of its allocation behind it.
Filled(buf, w, p, n) ==
  /\ buf \in [1 .. n + 1 -> Int]
  /\ \A j \in 1 .. p : buf[j] = w[j]
  /\ \A j \in p + 1 .. n : buf[j] = 92

LEMMA EscapeAt ==
  ASSUME NEW str \in Seq(JsonAlphabet), NEW off, LaidOut(Escaped(str), Escapes(str), off),
         NEW k \in 1 .. Len(str)
  PROVE  /\ off[k - 1] \in Nat /\ off[k] \in Nat /\ off[Len(str)] \in Nat
         /\ off[Len(str)] = Len(Escaped(str))
         /\ off[k] = off[k - 1] + 1 + J!Extra(str[k]) /\ off[k] <= off[Len(str)]
         /\ \A j \in 1 .. 1 + J!Extra(str[k]) : Escaped(str)[off[k - 1] + j] = J!Escape(str[k])[j]
         /\ str[k] \in JsonAlphabet
<1>1. /\ Len(Escapes(str)) = Len(str) /\ Len(str) \in Nat /\ str[k] \in JsonAlphabet
      /\ Escapes(str)[k] = J!Escape(str[k]) /\ Len(Escapes(str)[k]) = 1 + J!Extra(str[k])
  BY EscapesLaidOut
<1>2. \A m \in 1 .. Len(Escapes(str)) : Len(Escapes(str)[m]) \in Nat
  <2>1. \A m \in 1 .. Len(str) : Len(Escapes(str)[m]) = 1 + J!Extra(str[m]) /\ str[m] \in JsonAlphabet
    BY EscapesLaidOut
  <2> QED BY <1>1, <2>1, EscapeTyped
<1>3. /\ \A m \in 0 .. Len(str) : off[m] \in Nat
      /\ off[k] = off[k - 1] + Len(Escapes(str)[k])
      /\ Stands(Escapes(str)[k], Escaped(str), off[k - 1])
      /\ off[Len(str)] = Len(Escaped(str))
  BY <1>1 DEF LaidOut
<1>4. k \in 0 .. Len(str) /\ k - 1 \in 0 .. Len(str) /\ Len(str) \in 0 .. Len(str)
  BY <1>1
<1>5. off[k] <= off[Len(str)]
  <2>1. Len(str) \in 0 .. Len(Escapes(str)) /\ Len(Escapes(str)) \in Nat
    BY <1>1
  <2>2. \A m \in 0 .. Len(str) : off[m] <= off[Len(str)]
    BY <1>2, <2>1, OffsetsRise
  <2> QED BY <1>4, <2>2
<1>6. \A j \in 1 .. Len(Escapes(str)[k]) : Escaped(str)[off[k - 1] + j] = Escapes(str)[k][j]
  BY <1>3 DEF Stands
<1>7. J!Extra(str[k]) \in {0, 1, 5}
  BY <1>1, EscapeTyped
<1>8. off[k - 1] \in Nat /\ off[k] \in Nat /\ off[Len(str)] \in Nat
  BY <1>3, <1>4
<1>9. off[k] = off[k - 1] + 1 + J!Extra(str[k])
  BY <1>1, <1>3, <1>7, <1>8, SMTT(30)
<1>10. \A j \in 1 .. 1 + J!Extra(str[k]) : Escaped(str)[off[k - 1] + j] = J!Escape(str[k])[j]
  BY <1>1, <1>6
<1> QED BY <1>1, <1>3, <1>5, <1>8, <1>9, <1>10

LEMMA FillsShort ==
  ASSUME NEW str \in Seq(JsonAlphabet), NEW off, LaidOut(Escaped(str), Escapes(str), off),
         NEW k \in 1 .. Len(str), NEW buf, str[k] \in J!Short,
         Filled(buf, Escaped(str), off[k - 1], off[Len(str)])
  PROVE  /\ off[k] = off[k - 1] + 2
         /\ Filled(J!Put(buf, off[k - 1] + 1, <<J!Letter(str[k])>>), Escaped(str), off[k],
                   off[Len(str)])
<1> DEFINE w == Escaped(str)
           n == off[Len(str)]
           p == off[k - 1]
           l == J!Letter(str[k])
           new == J!Put(buf, p + 1, <<l>>)
<1>1. p \in Nat /\ n \in Nat /\ str[k] \in JsonAlphabet
  BY EscapeAt
<1>2. J!Escape(str[k]) = <<92, l>> /\ l \in Int /\ J!Extra(str[k]) = 1
  BY <1>1, EscapeIs
<1>3. off[k] = p + 2 /\ p + 2 <= n
  BY <1>1, <1>2, EscapeAt
<1>4. w[p + 1] = 92 /\ w[p + 2] = l
  <2>1. \A j \in 1 .. 1 + J!Extra(str[k]) : w[p + j] = J!Escape(str[k])[j]
    BY EscapeAt
  <2>2. \A j \in 1 .. 2 : w[p + j] = <<92, l>>[j]
    BY <1>2, <2>1
  <2> HIDE DEF w, p, l
  <2> QED BY <2>2
<1> HIDE DEF w, n, p, l
<1>5. /\ buf \in [1 .. n + 1 -> Int] /\ \A j \in 1 .. p : buf[j] = w[j]
      /\ \A j \in p + 1 .. n : buf[j] = 92
  BY DEF Filled, w, n, p
<1>6. new = [j \in 1 .. n + 1 |-> IF j = p + 2 THEN l ELSE buf[j]]
  <2>1. new = [j \in DOMAIN buf |-> IF j - (p + 1) \in DOMAIN <<l>> THEN <<l>>[j - (p + 1)] ELSE buf[j]]
    BY DEF J!Put
  <2>2. DOMAIN buf = 1 .. n + 1 /\ DOMAIN <<l>> = {1} /\ <<l>>[1] = l
    BY <1>5
  <2> HIDE DEF new
  <2>3. \A j \in 1 .. n + 1 : j - (p + 1) \in {1} <=> j = p + 2
    BY <1>1
  <2>4. \A j \in DOMAIN buf : (IF j - (p + 1) \in DOMAIN <<l>> THEN <<l>>[j - (p + 1)] ELSE buf[j])
                              = (IF j = p + 2 THEN l ELSE buf[j])
    BY <2>2, <2>3
  <2> QED BY <2>1, <2>2, <2>4
<1> HIDE DEF new
<1>7. Filled(new, w, p + 2, n)
  <2>1. new \in [1 .. n + 1 -> Int]
    BY <1>2, <1>5, <1>6
  <2>2. ASSUME NEW j \in 1 .. p + 2 PROVE new[j] = w[j]
    <3>1. j \in 1 .. n + 1 /\ (j \in 1 .. p \/ j = p + 1 \/ j = p + 2)
      BY <1>1, <1>3
    <3> QED BY <1>1, <1>3, <1>4, <1>5, <1>6, <3>1
  <2>3. ASSUME NEW j \in p + 2 + 1 .. n PROVE new[j] = 92
    BY <1>1, <1>5, <1>6
  <2> QED BY <2>1, <2>2, <2>3 DEF Filled
<1> QED BY <1>3, <1>7 DEF w, n, p, l, new

LEMMA FillsPlain ==
  ASSUME NEW str \in Seq(JsonAlphabet), NEW off, LaidOut(Escaped(str), Escapes(str), off),
         NEW k \in 1 .. Len(str), NEW buf, str[k] \notin J!Control \cup J!Short,
         Filled(buf, Escaped(str), off[k - 1], off[Len(str)])
  PROVE  /\ off[k] = off[k - 1] + 1
         /\ Filled(J!Put(buf, off[k - 1], <<str[k]>>), Escaped(str), off[k], off[Len(str)])
<1> DEFINE w == Escaped(str)
           n == off[Len(str)]
           p == off[k - 1]
           l == str[k]
           new == J!Put(buf, p, <<l>>)
<1>1. p \in Nat /\ n \in Nat /\ str[k] \in JsonAlphabet
  BY EscapeAt
<1>2. J!Escape(str[k]) = <<l>> /\ l \in Int /\ J!Extra(str[k]) = 0
  BY <1>1, EscapeIs
<1>3. off[k] = p + 1 /\ p + 1 <= n
  BY <1>1, <1>2, EscapeAt
<1>4. w[p + 1] = l
  <2>1. \A j \in 1 .. 1 + J!Extra(str[k]) : w[p + j] = J!Escape(str[k])[j]
    BY EscapeAt
  <2>2. \A j \in 1 .. 1 : w[p + j] = <<l>>[j]
    BY <1>2, <2>1
  <2> HIDE DEF w, p, l
  <2> QED BY <2>2
<1> HIDE DEF w, n, p, l
<1>5. /\ buf \in [1 .. n + 1 -> Int] /\ \A j \in 1 .. p : buf[j] = w[j]
      /\ \A j \in p + 1 .. n : buf[j] = 92
  BY DEF Filled, w, n, p
<1>6. new = [j \in 1 .. n + 1 |-> IF j = p + 1 THEN l ELSE buf[j]]
  <2>1. new = [j \in DOMAIN buf |-> IF j - p \in DOMAIN <<l>> THEN <<l>>[j - p] ELSE buf[j]]
    BY DEF J!Put
  <2>2. DOMAIN buf = 1 .. n + 1 /\ DOMAIN <<l>> = {1} /\ <<l>>[1] = l
    BY <1>5
  <2> HIDE DEF new
  <2>3. \A j \in 1 .. n + 1 : j - p \in {1} <=> j = p + 1
    BY <1>1
  <2>4. \A j \in DOMAIN buf : (IF j - p \in DOMAIN <<l>> THEN <<l>>[j - p] ELSE buf[j])
                              = (IF j = p + 1 THEN l ELSE buf[j])
    BY <2>2, <2>3
  <2> QED BY <2>1, <2>2, <2>4
<1> HIDE DEF new
<1>7. Filled(new, w, p + 1, n)
  <2>1. new \in [1 .. n + 1 -> Int]
    BY <1>2, <1>5, <1>6
  <2>2. ASSUME NEW j \in 1 .. p + 1 PROVE new[j] = w[j]
    <3>1. j \in 1 .. n + 1 /\ (j \in 1 .. p \/ j = p + 1)
      BY <1>1, <1>3
    <3> QED BY <1>1, <1>3, <1>4, <1>5, <1>6, <3>1
  <2>3. ASSUME NEW j \in p + 1 + 1 .. n PROVE new[j] = 92
    BY <1>1, <1>5, <1>6
  <2> QED BY <2>1, <2>2, <2>3 DEF Filled
<1> QED BY <1>3, <1>7 DEF w, n, p, l, new

LEMMA FillsControl ==
  ASSUME NEW str \in Seq(JsonAlphabet), NEW off, LaidOut(Escaped(str), Escapes(str), off),
         NEW k \in 1 .. Len(str), NEW buf, str[k] \in J!Control \ J!Short,
         Filled(buf, Escaped(str), off[k - 1], off[Len(str)])
  PROVE  /\ off[k] = off[k - 1] + 6
         /\ Filled(J!OverwriteNul(J!Put(buf, off[k - 1] + 1, J!Printed(str[k])), off[k - 1] + 6),
                   Escaped(str), off[k], off[Len(str)])
<1> DEFINE w == Escaped(str)
           n == off[Len(str)]
           p == off[k - 1]
           a == J!HexChar(str[k] \div 16)
           b == J!HexChar(str[k] % 16)
           u == J!Printed(str[k])
           put == J!Put(buf, p + 1, u)
           new == J!OverwriteNul(put, p + 6)
<1>1. p \in Nat /\ n \in Nat /\ str[k] \in JsonAlphabet
  BY EscapeAt
<1>2. J!Escape(str[k]) = <<92, 117, 48, 48, a, b>> /\ a \in Int /\ b \in Int /\ J!Extra(str[k]) = 5
  BY <1>1, EscapeIs
<1>3. off[k] = p + 6 /\ p + 6 <= n
  BY <1>1, <1>2, EscapeAt, SMTT(30)
<1>4. w[p + 1] = 92 /\ w[p + 2] = 117 /\ w[p + 3] = 48 /\ w[p + 4] = 48 /\ w[p + 5] = a /\ w[p + 6] = b
  <2>1. \A j \in 1 .. 1 + J!Extra(str[k]) : w[p + j] = J!Escape(str[k])[j]
    BY EscapeAt
  <2>2. \A j \in 1 .. 6 : w[p + j] = <<92, 117, 48, 48, a, b>>[j]
    BY <1>2, <2>1
  <2> HIDE DEF w, p, a, b
  <2> QED BY <2>2
<1>5. u = <<117, 48, 48, a, b, 0>>
  BY DEF J!Printed, J!Nul
<1> HIDE DEF w, n, p, a, b, u
<1>6. /\ DOMAIN u = 1 .. 6 /\ u[1] = 117 /\ u[2] = 48 /\ u[3] = 48 /\ u[4] = a /\ u[5] = b /\ u[6] = 0
      /\ \A j \in 1 .. 6 : u[j] \in Int
  BY <1>2, <1>5
<1>7. /\ buf \in [1 .. n + 1 -> Int] /\ \A j \in 1 .. p : buf[j] = w[j]
      /\ \A j \in p + 1 .. n : buf[j] = 92
  BY DEF Filled, w, n, p
<1>8. put = [j \in 1 .. n + 1 |-> IF j - (p + 1) \in 1 .. 6 THEN u[j - (p + 1)] ELSE buf[j]]
  BY <1>6, <1>7 DEF J!Put
<1>9. put \in [1 .. n + 1 -> Int]
  <2> HIDE DEF put
  <2>1. \A j \in 1 .. n + 1 : (IF j - (p + 1) \in 1 .. 6 THEN u[j - (p + 1)] ELSE buf[j]) \in Int
    BY <1>6, <1>7
  <2> QED BY <1>8, <2>1
<1> HIDE DEF put
<1>10. new = [put EXCEPT ![p + 7] = 92]
  <2>1. p + 6 + 1 = p + 7
    BY <1>1
  <2> QED BY <2>1 DEF J!OverwriteNul, J!Backslash
<1> HIDE DEF new
<1>11. Filled(new, w, p + 6, n)
  <2>0. p + 7 \in 1 .. n + 1
    BY <1>1, <1>3
  <2>1. new \in [1 .. n + 1 -> Int] /\ \A j \in 1 .. n + 1 : new[j] = IF j = p + 7 THEN 92 ELSE put[j]
    BY <1>9, <1>10, <2>0
  <2>2. ASSUME NEW j \in 1 .. p + 6 PROVE new[j] = w[j]
    <3>1. j \in 1 .. n + 1 /\ j # p + 7
      BY <1>1, <1>3
    <3>2. new[j] = IF j - (p + 1) \in 1 .. 6 THEN u[j - (p + 1)] ELSE buf[j]
      BY <1>8, <2>1, <3>1
    <3>3. CASE j \in 1 .. p
      BY <1>1, <1>7, <3>2, <3>3
    <3>4. CASE j = p + 1
      <4>1. j - (p + 1) = 0 /\ j \in p + 1 .. n
        BY <1>1, <1>3, <3>4
      <4> QED BY <1>4, <1>7, <3>2, <3>4, <4>1
    <3>5. CASE j \in p + 2 .. p + 6
      <4>1. j = p + 2 \/ j = p + 3 \/ j = p + 4 \/ j = p + 5 \/ j = p + 6
        BY <1>1, <3>5
      <4>2. (j - (p + 1)) \in 1 .. 5 /\ j = p + 1 + (j - (p + 1))
        BY <1>1, <3>5
      <4>3. new[j] = u[j - (p + 1)]
        BY <3>2, <4>2
      <4> QED BY <1>1, <1>4, <1>6, <4>1, <4>3
    <3> QED BY <1>1, <3>3, <3>4, <3>5
  <2>3. ASSUME NEW j \in p + 6 + 1 .. n PROVE new[j] = 92
    <3>1. CASE j = p + 7
      BY <2>0, <2>1, <3>1
    <3>2. CASE j # p + 7
      <4>1. j \in 1 .. n + 1 /\ j - (p + 1) \notin 1 .. 6 /\ j \in p + 1 .. n
        BY <1>1, <3>2
      <4> QED BY <1>7, <1>8, <2>1, <3>2, <4>1
    <3> QED BY <3>1, <3>2
  <2> QED BY <2>1, <2>2, <2>3 DEF Filled
<1> QED BY <1>3, <1>11 DEF w, n, p, u, put, new

\* Where the two loops are, off[k] being the end of escape k.
JsonAt(off) ==
  /\ pc \in {"count", "fill", "return"} /\ pos \in Nat /\ space \in Nat
  /\ pc # "return" => i \in 1 .. Len(s) + 1
  /\ pc = "count" =>
       /\ pos = 0 /\ space = off[i - 1] - (i - 1)
       /\ space = 0 => \A k \in 0 .. i - 1 : off[k] = k
  /\ pc = "fill" =>
       /\ space = off[Len(s)] - Len(s) /\ pos = off[i - 1]
       /\ Filled(result, Escaped(s), pos, off[Len(s)])
  /\ pc = "return" =>
       /\ pos = Len(s) + space /\ off[Len(s)] = Len(s) + space
       /\ result \in Seq(Int) /\ pos <= Len(result)
       /\ \A j \in 1 .. pos : result[j] = Escaped(s)[j]

JsonInv ==
  /\ s \in Seq(JsonAlphabet)
  /\ \A off : LaidOut(Escaped(s), Escapes(s), off) => JsonAt(off)

LEMMA JsonInit == Init => JsonInv
<1> SUFFICES ASSUME Init PROVE JsonInv
  OBVIOUS
<1>1. /\ s \in UNION {[1 .. m -> JsonAlphabet] : m \in 0 .. JsonMaxLen}
      /\ i = 1 /\ space = 0 /\ result = <<>> /\ pos = 0 /\ pc = "count"
  BY DEF Init, J!Init, J!BoundedSeq, J!SeqOf
<1>2. s \in Seq(JsonAlphabet) /\ Len(s) \in Nat
  BY <1>1, CoreAssumption, LenProperties
<1>3. ASSUME NEW off, LaidOut(Escaped(s), Escapes(s), off) PROVE JsonAt(off)
  <2>1. off[0] = 0
    BY <1>3 DEF LaidOut
  <2>2. \A k \in 0 .. 1 - 1 : k = 0
    OBVIOUS
  <2> QED BY <1>1, <1>2, <2>1, <2>2 DEF JsonAt
<1> QED BY <1>2, <1>3 DEF JsonInv

LEMMA JsonStep == ASSUME JsonInv, J!Next \/ UNCHANGED json PROVE JsonInv'
<1>1. s' = s
  BY DEF json, J!Next, J!CountChar, J!ReturnSame, J!Allocate, J!FillShort, J!FillControl,
         J!FillPlain, J!Return
<1>2. s \in Seq(JsonAlphabet) /\ Len(s) \in Nat
  BY LenProperties DEF JsonInv
<1>3. SUFFICES ASSUME NEW off, LaidOut(Escaped(s), Escapes(s), off) PROVE JsonAt(off)'
  BY <1>1, <1>2 DEF JsonInv
<1>4. JsonAt(off)
  BY <1>3 DEF JsonInv
<1>5. off[0] = 0 /\ \A k \in 0 .. Len(s) : off[k] \in Nat
  BY <1>2, <1>3, EscapesLaidOut DEF LaidOut
<1>6. CASE J!CountChar
  <2>1. /\ pc = "count" /\ i \in 1 .. Len(s) /\ i \in 1 .. Len(s) + 1
        /\ space' = space + J!Extra(s[i]) /\ i' = i + 1 /\ pc' = pc /\ pos' = pos
    BY <1>2, <1>4, <1>6 DEF J!CountChar, JsonAt
  <2>2. /\ off[i] = off[i - 1] + 1 + J!Extra(s[i]) /\ off[i - 1] \in Nat /\ s[i] \in JsonAlphabet
    BY <1>2, <1>3, <2>1, EscapeAt
  <2>3. J!Extra(s[i]) \in {0, 1, 5}
    BY <2>2, EscapeTyped
  <2>4. pos = 0 /\ space \in Nat /\ space = off[i - 1] - (i - 1)
    BY <1>4, <2>1 DEF JsonAt
  <2>5. i' \in 1 .. Len(s) + 1 /\ i' - 1 = i /\ space' = off[i' - 1] - (i' - 1) /\ space' \in Nat
    <3>1. i \in Nat /\ i' \in 1 .. Len(s) + 1 /\ i' - 1 = i
      BY <1>2, <2>1
    <3>2. J!Extra(s[i]) \in Nat
      BY <2>3
    <3>3. space' = off[i] - i /\ space' \in Nat
      BY <2>1, <2>2, <2>4, <3>1, <3>2, SMTT(30)
    <3> QED BY <3>1, <3>3
  <2>6. ASSUME space' = 0, NEW k \in 0 .. i' - 1 PROVE off[k] = k
    <3>1. space = 0 /\ J!Extra(s[i]) = 0
      BY <2>1, <2>3, <2>4, <2>6
    <3>2. \A m \in 0 .. i - 1 : off[m] = m
      BY <1>4, <2>1, <3>1 DEF JsonAt
    <3>3. off[i] = i
      <4>1. i \in Nat /\ i - 1 \in 0 .. i - 1 /\ off[i - 1] = i - 1
        BY <2>1, <3>2
      <4>2. off[i] = off[i - 1] + 1
        BY <2>2, <3>1
      <4> QED BY <4>1, <4>2
    <3>4. i \in Nat /\ (k \in 0 .. i - 1 \/ k = i)
      BY <2>1, <2>5
    <3> QED BY <3>2, <3>3, <3>4
  <2>7. space' = 0 => \A k \in 0 .. i' - 1 : off[k] = k
    BY <2>6
  <2>8. pc' = "count" /\ pos' = 0 /\ pos' \in Nat
    BY <2>1, <2>4
  <2> QED BY <1>1, <2>5, <2>7, <2>8 DEF JsonAt
<1>7. CASE J!ReturnSame
  <2>1. /\ pc = "count" /\ i = Len(s) + 1 /\ space = 0 /\ space' = space
        /\ result' = Append(s, 0) /\ pos' = Len(s) /\ pc' = "return"
    BY <1>2, <1>4, <1>7 DEF J!ReturnSame, J!Nul, JsonAt
  <2>2. \A k \in 0 .. Len(s) : off[k] = k
    BY <1>2, <1>4, <2>1 DEF JsonAt
  <2>3. s \in Seq(Int)
    <3>1. JsonAlphabet \subseteq Int
      BY CoreAssumption
    <3>2. s \in [1 .. Len(s) -> Int]
      <4>1. s \in [1 .. Len(s) -> JsonAlphabet]
        BY <1>2
      <4> QED BY <3>1, <4>1
    <3> QED BY <1>2, <3>2
  <2>4. /\ Append(s, 0) \in Seq(Int) /\ Len(Append(s, 0)) = Len(s) + 1
        /\ \A j \in 1 .. Len(s) : Append(s, 0)[j] = s[j]
    BY <1>2, <2>3, AppendProperties
  <2>5. ASSUME NEW j \in 1 .. Len(s) PROVE s[j] = Escaped(s)[j]
    <3>1. off[j] = j /\ off[j - 1] = j - 1
      BY <2>2
    <3>2. /\ off[j] = off[j - 1] + 1 + J!Extra(s[j]) /\ s[j] \in JsonAlphabet
          /\ \A m \in 1 .. 1 + J!Extra(s[j]) : Escaped(s)[off[j - 1] + m] = J!Escape(s[j])[m]
      BY <1>2, <1>3, EscapeAt
    <3>3. J!Extra(s[j]) = 0
      BY <3>1, <3>2, EscapeTyped
    <3>4. J!Escape(s[j]) = <<s[j]>>
      BY <3>2, <3>3, EscapeIs
    <3>5. Escaped(s)[(j - 1) + 1] = <<s[j]>>[1]
      BY <3>1, <3>2, <3>3, <3>4
    <3>6. (j - 1) + 1 = j
      OBVIOUS
    <3> QED BY <3>5, <3>6
  <2>6. Len(s) \in 0 .. Len(s)
    BY <1>2
  <2>7. off[Len(s)] = Len(s)
    BY <2>2, <2>6
  <2> QED BY <1>1, <1>2, <2>1, <2>4, <2>5, <2>7 DEF JsonAt
<1>8. CASE J!Allocate
  <2>1. /\ pc = "count" /\ i = Len(s) + 1 /\ space' = space /\ pos' = pos /\ i' = 1 /\ pc' = "fill"
        /\ result' = [k \in 1 .. Len(s) + space + 1 |-> IF k <= Len(s) + space THEN 92 ELSE 0]
    BY <1>2, <1>4, <1>8 DEF J!Allocate, J!Nul, J!Backslash, JsonAt
  <2>2. pos = 0 /\ space \in Nat /\ space = off[Len(s)] - Len(s)
    BY <1>2, <1>4, <2>1 DEF JsonAt
  <2>3. Len(s) \in 0 .. Len(s) /\ off[Len(s)] = Len(s) + space
    BY <1>2, <1>5, <2>2
  <2>4. Filled(result', Escaped(s), 0, Len(s) + space)
    <3>1. result' \in [1 .. Len(s) + space + 1 -> Int]
      BY <2>1
    <3>2. \A j \in 1 .. Len(s) + space : result'[j] = 92
      BY <1>2, <2>1, <2>2
    <3> QED BY <3>1, <3>2 DEF Filled
  <2>5. 1 \in 1 .. Len(s) + 1 /\ off[1 - 1] = 0
    BY <1>2, <1>5
  <2> QED BY <1>1, <1>2, <2>1, <2>2, <2>3, <2>4, <2>5 DEF JsonAt
<1>9. ASSUME J!FillShort \/ J!FillControl \/ J!FillPlain PROVE JsonAt(off)'
  <2>1. /\ pc = "fill" /\ i \in 1 .. Len(s) /\ i' = i + 1 /\ pc' = pc /\ space' = space
    BY <1>2, <1>4, <1>9 DEF J!FillShort, J!FillControl, J!FillPlain, JsonAt
  <2>2. /\ pos = off[i - 1] /\ space = off[Len(s)] - Len(s) /\ space \in Nat
        /\ Filled(result, Escaped(s), off[i - 1], off[Len(s)])
    BY <1>4, <2>1 DEF JsonAt
  <2>3. pos' = off[i] /\ Filled(result', Escaped(s), off[i], off[Len(s)])
    <3>1. CASE J!FillShort
      <4>1. /\ s[i] \in J!Short /\ pos' = pos + 2
            /\ result' = J!Put(result, pos + 1, <<J!Letter(s[i])>>)
        BY <3>1 DEF J!FillShort
      <4> QED BY <1>2, <1>3, <2>1, <2>2, <4>1, FillsShort
    <3>2. CASE J!FillControl
      <4>1. /\ s[i] \in J!Control \ J!Short /\ pos' = pos + 6
            /\ result' = J!OverwriteNul(J!Put(result, pos + 1, J!Printed(s[i])), pos + 6)
        BY <3>2 DEF J!FillControl
      <4> QED BY <1>2, <1>3, <2>1, <2>2, <4>1, FillsControl
    <3>3. CASE J!FillPlain
      <4>1. /\ s[i] \notin J!Control \cup J!Short /\ pos' = pos + 1
            /\ result' = J!Put(result, pos, <<s[i]>>)
        BY <3>3 DEF J!FillPlain
      <4> QED BY <1>2, <1>3, <2>1, <2>2, <4>1, FillsPlain
    <3> QED BY <1>9, <3>1, <3>2, <3>3
  <2>4. i' \in 1 .. Len(s) + 1 /\ i' - 1 = i /\ off[i] \in Nat
    BY <1>2, <1>5, <2>1
  <2> QED BY <1>1, <2>1, <2>2, <2>3, <2>4 DEF JsonAt
<1>10. CASE J!Return
  <2>1. /\ pc = "fill" /\ i = Len(s) + 1 /\ pc' = "return"
        /\ pos' = pos /\ space' = space /\ result' = result
    BY <1>2, <1>4, <1>10 DEF J!Return, JsonAt
  <2>2. /\ pos = off[Len(s)] /\ space = off[Len(s)] - Len(s) /\ space \in Nat
        /\ Filled(result, Escaped(s), off[Len(s)], off[Len(s)])
    BY <1>2, <1>4, <2>1 DEF JsonAt
  <2>3. Len(s) \in 0 .. Len(s) /\ off[Len(s)] \in Nat
    BY <1>2, <1>5
  <2>4. /\ result \in [1 .. off[Len(s)] + 1 -> Int]
        /\ \A j \in 1 .. off[Len(s)] : result[j] = Escaped(s)[j]
    BY <2>2 DEF Filled
  <2>5. result \in Seq(Int) /\ Len(result) = off[Len(s)] + 1
    BY <2>3, <2>4
  <2> QED BY <1>1, <1>2, <2>1, <2>2, <2>3, <2>4, <2>5 DEF JsonAt
<1>11. CASE UNCHANGED json
  BY <1>4, <1>11 DEF json, JsonAt
<1> QED BY <1>6, <1>7, <1>8, <1>9, <1>10, <1>11 DEF J!Next

LEMMA JsonIsEscaped == ASSUME JsonInv PROVE EscapesInOrder
<1>1. s \in Seq(JsonAlphabet) /\ Len(s) \in Nat
  BY LenProperties DEF JsonInv
<1>2. PICK off : LaidOut(Escaped(s), Escapes(s), off)
  BY <1>1, EscapesLaidOut
<1>3. JsonAt(off)
  BY <1>2 DEF JsonInv
<1>4. /\ off[0] = 0 /\ \A k \in 0 .. Len(s) : off[k] \in Nat
      /\ off[Len(s)] = Len(Escaped(s)) /\ Escaped(s) \in Seq(Int)
  BY <1>1, <1>2, EscapesLaidOut DEF LaidOut
<1>5. ASSUME pc = "fill" PROVE pos <= Len(s) + space /\ Len(result) = Len(s) + space + 1
  <2>1. /\ i \in 1 .. Len(s) + 1 /\ space = off[Len(s)] - Len(s) /\ pos = off[i - 1]
        /\ result \in [1 .. off[Len(s)] + 1 -> Int]
    BY <1>3, <1>5 DEF JsonAt, Filled
  <2>2. Len(s) \in 0 .. Len(s) /\ off[Len(s)] \in Nat /\ off[Len(s)] = Len(s) + space
    BY <1>1, <1>4, <2>1
  <2>3. off[i - 1] <= off[Len(s)]
    <3>1. CASE i = 1
      BY <1>4, <2>2, <3>1
    <3>2. CASE i # 1
      <4>1. i - 1 \in 1 .. Len(s)
        BY <1>1, <2>1, <3>2
      <4> QED BY <1>1, <1>2, <4>1, EscapeAt
    <3> QED BY <3>1, <3>2
  <2>4. Len(result) = off[Len(s)] + 1
    BY <2>1, <2>2
  <2> QED BY <2>1, <2>2, <2>3, <2>4
<1>6. ASSUME pc = "return" PROVE pos = Len(s) + space /\ SubSeq(result, 1, pos) = Escaped(s)
  <2>1. /\ pos = Len(s) + space /\ off[Len(s)] = pos /\ pos \in Nat
        /\ result \in Seq(Int) /\ pos <= Len(result)
        /\ \A j \in 1 .. pos : result[j] = Escaped(s)[j]
    BY <1>3, <1>6 DEF JsonAt
  <2>2. /\ SubSeq(result, 1, pos) \in Seq(Int) /\ Len(SubSeq(result, 1, pos)) = pos
        /\ \A j \in 1 .. pos : SubSeq(result, 1, pos)[j] = result[j]
    <3>1. Len(result) \in Nat
      BY <2>1, LenProperties
    <3>2. 1 \in 1 .. Len(result) + 1 /\ pos \in 1 - 1 .. Len(result)
      BY <2>1, <3>1
    <3>3. /\ SubSeq(result, 1, pos) \in Seq(Int)
          /\ Len(SubSeq(result, 1, pos)) = IF 1 <= pos THEN pos - 1 + 1 ELSE 0
          /\ \A j \in 1 .. pos - 1 + 1 : SubSeq(result, 1, pos)[j] = result[1 + j - 1]
      BY <2>1, <3>2, SubSeqProperties
    <3>4. \A j \in 1 .. pos : j \in 1 .. pos - 1 + 1 /\ 1 + j - 1 = j
      BY <2>1
    <3> HIDE DEF EscapesInOrder
    <3> QED BY <2>1, <3>3, <3>4
  <2>3. Len(Escaped(s)) = pos
    BY <1>4, <2>1
  <2> QED BY <1>4, <2>1, <2>2, <2>3, SeqEqual
<1> QED BY <1>5, <1>6 DEF EscapesInOrder, J!EscapesInOrder, Escaped, Escapes

(***************************************************************************)
(* The buffer of escape_json_string is filled to its last character with   *)
(* the escapes of all characters, for every string over every set of       *)
(* characters: the two loops agree on the length of each escape, and the   *)
(* terminators sprintf writes do not stay.                                 *)
(***************************************************************************)
THEOREM EscapesCorrect == Spec => []EscapesInOrder
<1>1. Init => JsonInv
  BY JsonInit
<1>2. JsonInv /\ [Next]_vars => JsonInv'
  <2>1. [Next]_vars => J!Next \/ UNCHANGED json
    BY DEF Next, NextCodec, NextJson, NextOptions, NextPicker, vars
  <2> QED BY <2>1, JsonStep
<1>3. JsonInv => EscapesInOrder
  BY JsonIsEscaped
<1> QED BY <1>1, <1>2, <1>3, PTL DEF Spec

-------------------------------------------------------------------------------
(* The codecs *)

\* The operators of module CodecCalls are those of module Codec.
LEMMA SameHex ==
  ASSUME NEW str
  PROVE  /\ C!HexEncode(str) = HexEncode(str) /\ C!HexDecode(str) = HexDecode(str)
         /\ C!HexDecodeThrows(str) = HexDecodeThrows(str)
<1>1. \A x : C!HexOf(x) = HexOf(x)
  BY DEF C!HexOf, HexOf, C!Digit, Digit
<1>2. \A q : C!FlattenSeq(q) = FlattenSeq(q)
  BY DEF C!FlattenSeq, FlattenSeq
<1>3. \A x, y : C!StrToByte(x, y) = StrToByte(x, y)
  BY DEF C!StrToByte, StrToByte, C!HexDigits, HexDigits, C!DigitValue, DigitValue,
         C!Plus, Plus, C!Space, Space, C!Minus, Minus
<1> QED BY <1>1, <1>2, <1>3
       DEF C!HexEncode, HexEncode, C!HexDecode, HexDecode, C!HexDecodeThrows, HexDecodeThrows

LEMMA SameUrl ==
  ASSUME NEW str
  PROVE  C!UrlEncode(str) = UrlEncode(str) /\ C!UrlDecode(str) = UrlDecode(str)
<1>1. \A x : C!HexOf(x) = HexOf(x)
  BY DEF C!HexOf, HexOf, C!Digit, Digit
<1>2. \A q : C!FlattenSeq(q) = FlattenSeq(q)
  BY DEF C!FlattenSeq, FlattenSeq
<1>3. /\ C!AllowedCharacters = AllowedCharacters /\ C!Percent = Percent
  BY DEF C!AllowedCharacters, AllowedCharacters, C!Alnum, Alnum, C!Extra, Extra, C!Nul, Nul,
         C!Percent, Percent
<1>4. C!UrlEncode(str) = UrlEncode(str)
  BY <1>1, <1>2, <1>3 DEF C!UrlEncode, UrlEncode
<1>5. C!UrlDecode(str) = UrlDecode(str)
  BY DEF C!UrlDecode, UrlDecode, C!EscapeLength, EscapeLength, C!Percent, Percent, C!Plus, Plus,
         C!Space, Space, C!CharAt, CharAt, C!Nul, Nul, C!StrToByte, StrToByte, C!HexDigits,
         HexDigits, C!DigitValue, DigitValue, C!Minus, Minus
<1> QED BY <1>4, <1>5

LEMMA SameBase64 ==
  ASSUME NEW str
  PROVE  /\ C!Base64Encode(str) = Base64Encode(str) /\ C!Base64Decode(str) = Base64Decode(str)
         /\ C!Base64DecodeThrows(str) = Base64DecodeThrows(str)
<1>1. \A q, a, b, n : C!Regroup(q, a, b, n) = Regroup(q, a, b, n)
  BY DEF C!Regroup, Regroup
<1>2. \A x : C!Base64Char(x) = Base64Char(x)
  BY DEF C!Base64Char, Base64Char, C!Plus, Plus
<1>3. \A x : C!Base64Value(x) = Base64Value(x)
  BY DEF C!Base64Value, Base64Value, C!Equal, Equal, C!Base64Char, Base64Char, C!Plus, Plus
<1>4. C!Base64Chars = Base64Chars
  BY <1>2 DEF C!Base64Chars, Base64Chars
<1>5. \A q : C!Unpadded(q) = Unpadded(q)
  BY DEF C!Unpadded, Unpadded, C!Equal, Equal
<1>6. \A n : C!Padding(n) = Padding(n)
  BY DEF C!Padding, Padding, C!Equal, Equal
<1>7. C!Base64Encode(str) = Base64Encode(str)
  BY <1>1, <1>2, <1>6 DEF C!Base64Encode, Base64Encode
<1>8. C!Base64Decode(str) = Base64Decode(str)
  BY <1>1, <1>3, <1>5 DEF C!Base64Decode, Base64Decode
<1>9. C!Base64DecodeThrows(str) = Base64DecodeThrows(str)
  BY <1>4, <1>5 DEF C!Base64DecodeThrows, Base64DecodeThrows, C!Equal, Equal, C!ToSet, ToSet
<1> QED BY <1>7, <1>8, <1>9

\* What is on the wire comes from the encoder, and what was decoded is the text.
CodecInv ==
  /\ text \in Seq(0 .. 255)
  /\ stage \in {"text", "hex", "url", "base64", "decoded", "foreign"}
  /\ stage = "hex" => wire = C!HexEncode(text)
  /\ stage = "url" => wire = C!UrlEncode(text)
  /\ stage = "base64" => wire = C!Base64Encode(text)
  /\ stage = "decoded" => back = text
  /\ stage = "foreign" => Small(back, Len(text))

LEMMA CodecInit == Init => CodecInv
<1> SUFFICES ASSUME Init PROVE CodecInv
  OBVIOUS
<1>1. text \in UNION {[1 .. m -> Alphabet] : m \in 0 .. MaxLen} /\ stage = "text"
  BY DEF Init, C!Init, C!BoundedSeq, C!SeqOf
<1>2. PICK m \in 0 .. MaxLen : text \in [1 .. m -> Alphabet]
  BY <1>1
<1>3. Alphabet \subseteq 0 .. 255 /\ MaxLen \in Nat
  BY CoreAssumption
<1>4. m \in Nat
  BY <1>3
<1>5. text \in [1 .. m -> 0 .. 255]
  <2>1. text = [k \in 1 .. m |-> text[k]] /\ \A k \in 1 .. m : text[k] \in Alphabet
    BY ONLY <1>2, Zenon
  <2>2. \A k \in 1 .. m : text[k] \in 0 .. 255
    <3> HIDE <1>2
    <3> QED BY <2>1, <1>3
  <2> DEFINE D == 1 .. m
             B == 0 .. 255
  <2>3. text = [k \in D |-> text[k]] /\ \A k \in D : text[k] \in B
    BY <2>1, <2>2
  <2> HIDE DEF D, B
  <2>4. text \in [D -> B]
    BY ONLY <2>3, Zenon
  <2> QED BY <2>4 DEF D, B
<1>6. text \in Seq(0 .. 255)
  BY <1>4, <1>5
<1> QED BY <1>1, <1>6 DEF CodecInv

LEMMA CodecStep == ASSUME CodecInv, C!Next \/ UNCHANGED codec PROVE CodecInv'
<1>1. text \in Seq(0 .. 255) /\ text' = text
  BY DEF CodecInv, codec, C!Next, C!EncodeHex, C!EncodeUrl, C!EncodeBase64,
         C!DecodeHex, C!DecodeUrl, C!DecodeBase64, C!DecodeForeign
<1>2. CASE C!EncodeHex
  BY <1>1, <1>2 DEF CodecInv, C!EncodeHex
<1>3. CASE C!EncodeUrl
  BY <1>1, <1>3 DEF CodecInv, C!EncodeUrl
<1>4. CASE C!EncodeBase64
  BY <1>1, <1>4 DEF CodecInv, C!EncodeBase64
<1>5. CASE C!DecodeHex
  <2>1. stage' = "decoded" /\ back' = text
    BY <1>1, <1>5, HexRoundTrip, SameHex DEF CodecInv, C!DecodeHex
  <2> QED BY <1>1, <2>1 DEF CodecInv
<1>6. CASE C!DecodeUrl
  <2>1. stage' = "decoded" /\ back' = text
    BY <1>1, <1>6, UrlRoundTrip, SameUrl DEF CodecInv, C!DecodeUrl
  <2> QED BY <1>1, <2>1 DEF CodecInv
<1>7. CASE C!DecodeBase64
  <2>1. stage' = "decoded" /\ back' = text
    BY <1>1, <1>7, Base64RoundTrip, SameBase64 DEF CodecInv, C!DecodeBase64
  <2> QED BY <1>1, <2>1 DEF CodecInv
<1>8. CASE C!DecodeForeign
  <2>1. /\ stage' = "foreign"
        /\ \/ back' = C!UrlDecode(text)
           \/ back' = C!HexDecode(text)
           \/ ~C!Base64DecodeThrows(text) /\ back' = C!Base64Decode(text)
    BY <1>8 DEF C!DecodeForeign
  <2>2. Small(back', Len(text))
    BY <1>1, <2>1, ForeignUrl, ForeignHex, ForeignBase64, SameUrl, SameHex, SameBase64
  <2> QED BY <1>1, <2>1, <2>2 DEF CodecInv
<1>9. CASE UNCHANGED codec
  BY <1>9 DEF CodecInv, codec
<1> QED BY <1>2, <1>3, <1>4, <1>5, <1>6, <1>7, <1>8, <1>9 DEF C!Next

LEMMA CodecAlways == Spec => []CodecInv
<1>1. [Next]_vars => C!Next \/ UNCHANGED codec
  BY DEF Next, NextCodec, NextJson, NextOptions, NextPicker, vars
<1>2. CodecInv /\ [Next]_vars => CodecInv'
  BY <1>1, CodecStep
<1> QED BY <1>2, CodecInit, PTL DEF Spec

(***************************************************************************)
(* For every sequence of bytes: hex_decode, url_decode and base64_decode   *)
(* do not throw on what hex_encode, url_encode and base64_encode made, and *)
(* give the bytes back; what they make of another text is no longer than   *)
(* the text.                                                               *)
(***************************************************************************)
THEOREM RoundTripCorrect == Spec => []RoundTrip
<1>1. ASSUME CodecInv PROVE RoundTrip
  <2>1. text \in Seq(0 .. 255)
    BY <1>1 DEF CodecInv
  <2>2. stage = "hex" => ~C!HexDecodeThrows(wire)
    BY <1>1, <2>1, HexRoundTrip, SameHex DEF CodecInv
  <2>3. stage = "base64" => /\ ~C!Base64DecodeThrows(wire)
                            /\ Len(wire) = 4 * ((Len(text) + 2) \div 3)
    BY <1>1, <2>1, Base64RoundTrip, SameBase64 DEF CodecInv
  <2>4. stage = "foreign" => Len(back) <= Len(text) /\ C!ToSet(back) \subseteq C!Byte
    <3> SUFFICES ASSUME stage = "foreign"
                 PROVE  Len(back) <= Len(text) /\ C!ToSet(back) \subseteq C!Byte
      OBVIOUS
    <3>1. back \in Seq(0 .. 255) /\ Len(back) <= Len(text)
      BY <1>1 DEF CodecInv, Small
    <3>2. DOMAIN back = 1 .. Len(back) /\ \A k \in 1 .. Len(back) : back[k] \in 0 .. 255
      BY <3>1, LenProperties, ElementOfSeq
    <3>3. C!ToSet(back) = {back[k] : k \in DOMAIN back}
      BY DEF C!ToSet
    <3>4. C!ToSet(back) \subseteq 0 .. 255
      <4> SUFFICES ASSUME NEW v \in C!ToSet(back) PROVE v \in 0 .. 255
        OBVIOUS
      <4>1. PICK k \in DOMAIN back : v = back[k]
        BY <3>3
      <4>2. k \in 1 .. Len(back)
        BY <3>2
      <4> QED BY <4>1, <4>2, <3>2
    <3> QED BY <3>1, <3>4 DEF C!Byte
  <2>5. stage = "decoded" => back = text
    BY <1>1 DEF CodecInv
  <2> QED BY <2>2, <2>3, <2>4, <2>5 DEF RoundTrip, C!RoundTrip
<1> QED BY <1>1, CodecAlways, PTL

(***************************************************************************)
(* What url_encode returns holds no separator and no lone %, whatever      *)
(* bytes it is given.                                                      *)
(***************************************************************************)
THEOREM WireSafe == Spec => []WireIsSafe
<1>1. ASSUME CodecInv PROVE WireIsSafe
  <2> SUFFICES ASSUME stage = "url", NEW j \in DOMAIN wire
               PROVE  /\ wire[j] \notin C!Separators
                      /\ wire[j] = 37 => /\ j + 2 <= Len(wire)
                                         /\ {wire[j + 1], wire[j + 2]} \subseteq C!HexDigits
    BY DEF WireIsSafe, C!WireIsSafe, C!Percent
  <2>1. text \in Seq(0 .. 255) /\ wire = C!UrlEncode(text)
    BY <1>1 DEF CodecInv
  <2>2. j \in 1 .. Len(C!UrlEncode(text))
    BY <2>1, UrlLaidOut, LenProperties, SameUrl
  <2>3. C!Separators = Reserved /\ C!HexDigits = HexDigits
    BY DEF C!Separators, Reserved, C!HexDigits, HexDigits
  <2> QED BY <2>1, <2>2, <2>3, UrlIsSafe, SameUrl
<1> QED BY <1>1, CodecAlways, PTL
===============================================================================
