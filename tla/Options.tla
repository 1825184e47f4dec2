-------------------------------- MODULE Options --------------------------------
(***************************************************************************)
(* Options<Enum, initial_value...> (Options.hpp): flags kept in one        *)
(* unsigned number, each operation a few instructions on its bits.         *)
(***************************************************************************)
EXTENDS Integers

CONSTANTS
  Objects,  \* Options objects
  Width,    \* bits of the underlying type
  Enum,     \* the values of the enumeration, as numbers
  InitialValue  \* initial_value..., as numbers

VARIABLES
  flag,    \* flag_ of each object
  answer,  \* what the last query returned
  call     \* history: the last call, and the values it was given

vars == <<flag, answer, call>>

\* 2 ^ b, by the doublings that make it.
Power[b \in 0 .. Width] == IF b = 0 THEN 1 ELSE 2 * Power[b - 1]

Underlying == 0 .. Power[Width] - 1

\* Bit b of n: what halving leaves of the number b times.
Digit(n, b) ==
  LET halved[k \in 0 .. Width] == IF k = 0 THEN n ELSE halved[k - 1] \div 2
  IN  halved[b] % 2

\* The number with these bits.
Number(digits) ==
  LET from[b \in 0 .. Width] == IF b = Width THEN 0 ELSE digits[b] + 2 * from[b + 1]
  IN  from[0]

And(n, m) == Number([b \in 0 .. Width - 1 |-> Digit(n, b) * Digit(m, b)])
Or(n, m)  == Number([b \in 0 .. Width - 1 |-> IF Digit(n, b) = 1 THEN 1 ELSE Digit(m, b)])
Xor(n, m) == Number([b \in 0 .. Width - 1 |-> (Digit(n, b) + Digit(m, b)) % 2])

\* ~ of a number of this width
Complement(n) == Power[Width] - 1 - n

\* set(values...): each joined to those before it.
Joined(values) ==
  Number([b \in 0 .. Width - 1 |-> IF \E v \in values : Digit(v, b) = 1 THEN 1 ELSE 0])

Init ==
  /\ flag = [o \in Objects |-> Joined(InitialValue)] /\ answer = FALSE
  /\ call = [op |-> "none", given |-> {}]

\* Faulty: a flag that is off is switched on.
WithoutToggled(n, f) == Xor(n, f)

\* operator-=
Without(n, f) == And(n, Complement(f))

\* operator&(Enum), operator[]: every bit of the value is on.
Has(n, f) == And(n, f) = f

Called(op, given) == call' = [op |-> op, given |-> given]

Assign(o, n) == flag' = [flag EXCEPT ![o] = n] /\ UNCHANGED answer

Construct(o, values) ==
  Called("construct", values) /\ Assign(o, Joined(InitialValue \cup values))

Add(o, f)    == Called("add", {f})    /\ Assign(o, Or(flag[o], f))
Remove(o, f) == Called("remove", {f}) /\ Assign(o, Without(flag[o], f))
Unite(o, lhs, rhs)     == Called("unite", {})     /\ Assign(o, Or(flag[lhs], flag[rhs]))
Intersect(o, lhs, rhs) == Called("intersect", {}) /\ Assign(o, And(flag[lhs], flag[rhs]))
UnsafeSetFlag(o, u)    == Called("unsafe set", {u}) /\ Assign(o, u)
Reset(o) == Called("reset", {}) /\ Assign(o, 0)

Return(b) == answer' = b /\ UNCHANGED flag

Test(o, f)    == Called("test", {f}) /\ Return(Has(flag[o], f))
Equal(o, rhs) == Called("equal", {}) /\ Return(flag[o] = flag[rhs])
Empty(o)      == Called("empty", {}) /\ Return(flag[o] = 0)

Next ==
  \E o \in Objects :
    \/ \E values \in SUBSET Enum : Construct(o, values)
    \/ \E f \in Enum : Add(o, f) \/ Remove(o, f) \/ Test(o, f)
    \/ \E lhs, rhs \in Objects : Unite(o, lhs, rhs) \/ Intersect(o, lhs, rhs)
    \/ \E u \in Underlying : UnsafeSetFlag(o, u)
    \/ \E rhs \in Objects : Equal(o, rhs)
    \/ Reset(o) \/ Empty(o)

Spec == Init /\ [][Next]_vars

-------------------------------------------------------------------------------
(* Properties *)

Bits(n) == {b \in 0 .. Width - 1 : Digit(n, b) = 1}

Sets == INSTANCE OptionSet WITH
  Values <- {Bits(v) : v \in Enum}, Flags <- 0 .. Width - 1,
  Initial <- UNION {Bits(v) : v \in InitialValue},
  on <- [o \in Objects |-> Bits(flag[o])],
  call <- [op |-> call.op, given |-> {Bits(v) : v \in call.given}]

(***************************************************************************)
(* An Options object behaves like a set of flags, for enumerations whose   *)
(* values stand for several flags or for none as well: each operation      *)
(* switches the flags of the value it is given and no other, and a         *)
(* question is about all of them.                                          *)
(***************************************************************************)
ImplementsOptionSet == Sets!Spec
===============================================================================
