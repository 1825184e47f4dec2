------------------------------ MODULE JsonEscape ------------------------------
(***************************************************************************)
(* extra_space and escape_json_string (json_escape.cpp): a first loop      *)
(* counts the characters that escaping adds, a second one fills a buffer   *)
(* of that size, position by position.                                     *)
(*                                                                         *)
(* A character is its code as a signed char.  The buffer is a std::string: *)
(* size characters and the terminator, all of which the loop may write.    *)
(***************************************************************************)
EXTENDS Integers, Sequences, SequencesExt

CONSTANTS
  Alphabet,   \* characters of the strings
  MaxLen      \* their length (bound)

VARIABLES
  s,       \* the string to escape
  i,       \* the next character of s
  space,   \* result of extra_space
  result,  \* the buffer, with its terminator at index Len(s) + space + 1
  pos,     \* the next character of result, counted from 0
  pc       \* "count", "fill" or "return"

vars == <<s, i, space, result, pos, pc>>

Backslash == 92   Quote == 34   Nul == 0

\* Characters with an escape of two characters, and its second character.
Short == {34, 92, 8, 12, 10, 13, 9}
Letter(c) == CASE c = 8 -> 98 [] c = 12 -> 102 [] c = 10 -> 110 [] c = 13 -> 114
               [] c = 9 -> 116 [] OTHER -> c

Control == 0 .. 31

Init ==
  /\ s \in BoundedSeq(Alphabet, MaxLen)
  /\ i = 1 /\ space = 0 /\ result = <<>> /\ pos = 0 /\ pc = "count"

-------------------------------------------------------------------------------
(* extra_space *)

\* Faulty: \uxxxx is taken for five characters.
ExtraShort(c) == IF c \in Short THEN 1 ELSE IF c \in Control THEN 4 ELSE 0

Extra(c) == IF c \in Short THEN 1 ELSE IF c \in Control THEN 5 ELSE 0

CountChar ==
  /\ pc = "count" /\ i <= Len(s)
  /\ space' = space + Extra(s[i])
  /\ i' = i + 1
  /\ UNCHANGED <<s, result, pos, pc>>

\* Nothing to escape: s itself is returned.
ReturnSame ==
  /\ pc = "count" /\ i > Len(s) /\ space = 0
  /\ result' = Append(s, Nul) /\ pos' = Len(s) /\ pc' = "return"
  /\ UNCHANGED <<s, i, space>>

\* std::string result(s.size() + space, '\\')
Allocate ==
  /\ pc = "count" /\ i > Len(s) /\ space > 0
  /\ result' = [k \in 1 .. Len(s) + space + 1 |->
                  IF k <= Len(s) + space THEN Backslash ELSE Nul]
  /\ i' = 1 /\ pc' = "fill"
  /\ UNCHANGED <<s, space, pos>>

-------------------------------------------------------------------------------
(* escape_json_string *)

HexChar(n) == IF n < 10 THEN 48 + n ELSE 87 + n

\* What sprintf("u%04x") writes, its terminator included.
Printed(c) == <<117, 48, 48, HexChar(c \div 16), HexChar(c % 16), Nul>>

\* Faulty: the terminator sprintf wrote stays.
NulStays(buf, p) == buf

\* result[pos] = '\\' after sprintf
OverwriteNul(buf, p) == [buf EXCEPT ![p + 1] = Backslash]

\* The characters of str, from position p on.
Put(buf, p, str) ==
  [k \in DOMAIN buf |-> IF k - p \in DOMAIN str THEN str[k - p] ELSE buf[k]]

FillShort ==
  /\ pc = "fill" /\ i <= Len(s) /\ s[i] \in Short
  /\ result' = Put(result, pos + 1, <<Letter(s[i])>>)
  /\ pos' = pos + 2
  /\ i' = i + 1
  /\ UNCHANGED <<s, space, pc>>

FillControl ==
  /\ pc = "fill" /\ i <= Len(s) /\ s[i] \in Control \ Short
  /\ result' = OverwriteNul(Put(result, pos + 1, Printed(s[i])), pos + 6)
  /\ pos' = pos + 6
  /\ i' = i + 1
  /\ UNCHANGED <<s, space, pc>>

FillPlain ==
  /\ pc = "fill" /\ i <= Len(s) /\ s[i] \notin Control \cup Short
  /\ result' = Put(result, pos, <<s[i]>>)
  /\ pos' = pos + 1
  /\ i' = i + 1
  /\ UNCHANGED <<s, space, pc>>

Return ==
  /\ pc = "fill" /\ i > Len(s)
  /\ pc' = "return"
  /\ UNCHANGED <<s, i, space, result, pos>>

Next ==
  \/ CountChar \/ ReturnSame \/ Allocate
  \/ FillShort \/ FillControl \/ FillPlain \/ Return

Spec == Init /\ [][Next]_vars

-------------------------------------------------------------------------------
(* Properties *)

\* JSON, RFC 8259 section 7: the escape of one character.
Escape(c) ==
  IF c \in {8, 9, 10, 12, 13} THEN <<Backslash, Letter(c)>>
  ELSE IF c \in {Quote, Backslash} THEN <<Backslash, c>>
  ELSE IF c \in 0 .. 31 THEN <<Backslash, 117, 48, 48, HexChar(c \div 16), HexChar(c % 16)>>
  ELSE <<c>>

(***************************************************************************)
(* The buffer is filled to its last character, and holds the escapes of    *)
(* the characters of s one after the other: the two loops agree on the     *)
(* length of every escape, and on the way no position is past the          *)
(* terminator.  extra_space, escape_json_string.                           *)
(***************************************************************************)
EscapesInOrder ==
  /\ pc = "fill" => pos <= Len(s) + space /\ Len(result) = Len(s) + space + 1
  /\ pc = "return" =>
       /\ pos = Len(s) + space
       /\ SubSeq(result, 1, pos) = FlattenSeq([k \in DOMAIN s |-> Escape(s[k])])

(***************************************************************************)
(* "create a result string of necessary size" (json_escape.cpp:105): the   *)
(* characters of the escapes fit in the size of the string, and its        *)
(* terminator stays one.                                                   *)
(***************************************************************************)
TerminatorStays == pc = "return" => result[Len(result)] = Nul
===============================================================================
