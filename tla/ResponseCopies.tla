---------------------------- MODULE ResponseCopies ----------------------------
(***************************************************************************)
(* Copies and moves of net::http::Response (Response.hpp): message_ and    *)
(* headers_ are views of the text in buffer_, and the members the compiler *)
(* generates take them over as they are.                                   *)
(*                                                                         *)
(* The text of a vector, or a long one of a string, is in a block of       *)
(* memory that can change hands; a short one is inside the string, and so  *)
(* inside the Response.  from() constructs its result in place.            *)
(***************************************************************************)
CONSTANTS
  Responses,  \* Response objects
  Blocks      \* blocks of memory

Kinds == {"vector", "long string", "short string"}
None == "none"

VARIABLES
  kind,     \* of the text in buffer_, None where there is no object
  place,    \* where that text is: a block, or the object itself
  view,     \* where message_ and headers_ point
  derived   \* history: objects that are copies, made by the move of a short text, or
            \* moved from

vars == <<kind, place, view, derived>>

Init ==
  /\ kind = [r \in Responses |-> None]
  /\ place = kind /\ view = kind
  /\ derived = {}

\* Where r may put a text of kind k: free memory.
Room(r, k) ==
  IF k = "short string" THEN {r} ELSE {b \in Blocks : \A q \in Responses : place[q] # b}

\* Faulty: the argument is parsed, and moved into buffer_ afterwards.
ParsedArgument(r, p) == IF p = r THEN None ELSE p

\* What from() parses: the text it has moved into buffer_.
Parsed(r, p) == p

From(r, k) ==
  /\ kind[r] = None
  /\ kind' = [kind EXCEPT ![r] = k]
  /\ \E p \in Room(r, k) : /\ place' = [place EXCEPT ![r] = p]
                           /\ view' = [view EXCEPT ![r] = Parsed(r, p)]
  /\ derived' = derived \ {r}

\* Response q(r), or q = r, which may write into the block q has.
Copy(q, r) ==
  /\ q # r /\ kind[r] # None
  /\ kind' = [kind EXCEPT ![q] = kind[r]]
  /\ \E p \in Room(q, kind[r]) \cup (IF kind[r] = kind[q] THEN {place[q]} \ {None} ELSE {}) :
       place' = [place EXCEPT ![q] = p]
  /\ view' = [view EXCEPT ![q] = view[r]]
  /\ derived' = derived \cup {q}

\* Response q(std::move(r)), or q = std::move(r)
Move(q, r) ==
  /\ q # r /\ kind[r] # None
  /\ kind' = [kind EXCEPT ![q] = kind[r]]
  /\ place' = IF kind[r] = "short string" THEN [place EXCEPT ![q] = q]
              ELSE [place EXCEPT ![q] = place[r], ![r] = None]
  /\ view' = [view EXCEPT ![q] = view[r]]
  /\ derived' = IF kind[r] = "short string" \/ r \in derived
                THEN derived \cup {q, r} ELSE (derived \ {q}) \cup {r}

Destroy(r) ==
  /\ kind[r] # None
  /\ kind' = [kind EXCEPT ![r] = None]
  /\ place' = [place EXCEPT ![r] = None]
  /\ view' = [view EXCEPT ![r] = None]
  /\ derived' = derived \ {r}

Next ==
  \E r \in Responses :
    \/ \E k \in Kinds : From(r, k)
    \/ \E q \in Responses : Copy(q, r) \/ Move(q, r)
    \/ Destroy(r)

Spec == Init /\ [][Next]_vars

-------------------------------------------------------------------------------
(* Properties *)

(***************************************************************************)
(* The views of a Response that from() returned, and of one its long text  *)
(* or its vector was moved to, stay views of the text it owns, whatever    *)
(* becomes of the other objects: nobody else frees or overwrites it.       *)
(* Response::from, and the views in headers_ and message_.                 *)
(***************************************************************************)
ViewsStayValid ==
  \A r \in Responses : kind[r] # None /\ r \notin derived =>
    /\ view[r] = place[r] /\ place[r] # None
    /\ \A q \in Responses \ {r} : place[q] # place[r]
===============================================================================
