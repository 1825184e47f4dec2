------------------------------- MODULE OptionSet -------------------------------
(***************************************************************************)
(* What Options<Enum> promises: each object holds a set of flags.  A value *)
(* of the enumeration stands for one flag, for several, or for none.       *)
(***************************************************************************)
CONSTANTS
  Objects,  \* the objects
  Values,   \* the values of the enumeration, as sets of flags
  Flags,    \* every flag
  Initial   \* those an object has from the start

VARIABLES
  on,      \* the flags of each object
  answer,  \* what the last question got
  call     \* the last call, and the values it was given

vars == <<on, answer, call>>

Init == on = [o \in Objects |-> Initial] /\ answer = FALSE /\ call = [op |-> "none", given |-> {}]

Called(op, given) == call' = [op |-> op, given |-> given]

Become(o, set) == on' = [on EXCEPT ![o] = set] /\ UNCHANGED answer
Answer(b) == answer' = b /\ UNCHANGED on

Next ==
  \E o \in Objects :
    \/ \E vs \in SUBSET Values : Called("construct", vs) /\ Become(o, Initial \cup UNION vs)
    \/ \E v \in Values : \/ Called("add", {v})    /\ Become(o, on[o] \cup v)
                         \/ Called("remove", {v}) /\ Become(o, on[o] \ v)
                         \/ Called("test", {v})   /\ Answer(v \subseteq on[o])
    \/ \E a, b \in Objects : \/ Called("unite", {})     /\ Become(o, on[a] \cup on[b])
                             \/ Called("intersect", {}) /\ Become(o, on[a] \cap on[b])
    \/ \E set \in SUBSET Flags : Called("unsafe set", {set}) /\ Become(o, set)
    \/ Called("reset", {}) /\ Become(o, {})
    \/ \E p \in Objects : Called("equal", {}) /\ Answer(on[o] = on[p])
    \/ Called("empty", {}) /\ Answer(on[o] = {})

Spec == Init /\ [][Next]_vars
===============================================================================
