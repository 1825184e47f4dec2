--------------------------- MODULE RandomValuePicker ---------------------------
(***************************************************************************)
(* RandomValuePicker and createPicker (RandomValuePicker.hpp): a picker    *)
(* remembers the address of a collection and the range its size gave when  *)
(* the picker was made; the program may change the collection afterwards.  *)
(***************************************************************************)
EXTENDS Integers

CONSTANTS
  Pickers,  \* picker objects
  MaxSize   \* elements of the collection (bound)

VARIABLES
  size,      \* elements of the collection
  attached,  \* pickers made from the collection
  last,      \* upper bound of the distribution of each picker
  picked,    \* what the last call got: "nothing yet", "element", "outside" or "thrown"
  stale      \* history: pickers older than a removal, or made from no element

vars == <<size, attached, last, picked, stale>>

Init ==
  /\ size = 0
  /\ attached = {} /\ stale = {}
  /\ last = [p \in Pickers |-> 1]
  /\ picked = "nothing yet"

Insert ==
  /\ size < MaxSize
  /\ size' = size + 1
  /\ UNCHANGED <<attached, last, picked, stale>>

Erase ==
  /\ size > 0
  /\ size' = size - 1
  /\ stale' = attached
  /\ UNCHANGED <<attached, last, picked>>

\* Faulty: the distribution includes its upper bound.
LastPastEnd == size

\* std::distance(begin, end) - 1
LastIndex == size - 1

CreatePicker(p) ==
  /\ attached' = attached \cup {p}
  /\ last' = [last EXCEPT ![p] = LastIndex]
  /\ stale' = IF size = 0 THEN stale \cup {p} ELSE stale \ {p}
  /\ UNCHANGED <<size, picked>>

\* p = q; the copy has a generator of its own, in the same state.
Copy(p, q) ==
  /\ attached' = IF q \in attached THEN attached \cup {p} ELSE attached \ {p}
  /\ last' = [last EXCEPT ![p] = last[q]]
  /\ stale' = IF q \in stale THEN stale \cup {p} ELSE stale \ {p}
  /\ UNCHANGED <<size, picked>>

\* A distribution over no number at all may give any.
Drawn(p) == IF last[p] < 0 THEN 0 .. MaxSize ELSE 0 .. last[p]

\* operator()
Pick(p) ==
  /\ IF p \notin attached THEN picked' = "thrown"
     ELSE \E n \in Drawn(p) : picked' = IF n < size THEN "element" ELSE "outside"
  /\ UNCHANGED <<size, attached, last, stale>>

Next ==
  \/ Insert \/ Erase
  \/ \E p \in Pickers : \/ CreatePicker(p) \/ Pick(p)
                        \/ \E q \in Pickers : Copy(p, q)

Spec == Init /\ [][Next]_vars

-------------------------------------------------------------------------------
(* Properties *)

(***************************************************************************)
(* A picker made from elements, and from which none was taken since, gives *)
(* an element of the collection, however much the collection has grown;    *)
(* one that was made from nothing throws.  "select a random value in a     *)
(* read only container" (Readme.md).                                       *)
(***************************************************************************)
PicksInside ==
  [][\A p \in Pickers : Pick(p) /\ p \notin stale =>
        picked' = IF p \in attached THEN "element" ELSE "thrown"]_vars
===============================================================================
