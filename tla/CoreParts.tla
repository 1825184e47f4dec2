------------------------------- MODULE CoreParts -------------------------------
(***************************************************************************)
(* The parts of commonpp::core that share no state with another: codecs,   *)
(* escaping for JSON, Options, RandomValuePicker.  A behaviour is one of a *)
(* program that uses one of them; the others stay as they are.             *)
(***************************************************************************)
EXTENDS Integers

CONSTANTS
  Alphabet, MaxLen, JsonAlphabet, JsonMaxLen,
  Objects, Width, Enum, InitialValue,
  Pickers, MaxSize

\* The codecs see unsigned bytes, escape_json_string sees characters with a sign.
ASSUME CoreAssumption ==
  /\ Alphabet \subseteq 0 .. 255 /\ MaxLen \in Nat
  /\ JsonAlphabet \subseteq -128 .. 127 /\ JsonMaxLen \in Nat
  /\ MaxSize \in Nat

VARIABLE part  \* "codec", "json", "options" or "picker"

VARIABLES text, wire, back, stage
codec == <<text, wire, back, stage>>
C == INSTANCE CodecCalls

VARIABLES s, i, space, result, pos, pc
json == <<s, i, space, result, pos, pc>>
J == INSTANCE JsonEscape WITH Alphabet <- JsonAlphabet, MaxLen <- JsonMaxLen

VARIABLES flag, answer, call
options == <<flag, answer, call>>
O == INSTANCE Options

ASSUME OptionsAssumption ==
  Width \in Nat /\ Enum \subseteq O!Underlying /\ InitialValue \subseteq Enum

VARIABLES size, attached, last, picked, stale
picker == <<size, attached, last, picked, stale>>
P == INSTANCE RandomValuePicker

vars == <<part, codec, json, options, picker>>

\* A text for the part that has one.
Init ==
  /\ part \in {"codec", "json", "options", "picker"}
  /\ part = "codec" \/ text = <<>>
  /\ part = "json" \/ s = <<>>
  /\ C!Init /\ J!Init /\ O!Init /\ P!Init

NextCodec   == part = "codec"   /\ C!Next /\ UNCHANGED <<part, json, options, picker>>
NextJson    == part = "json"    /\ J!Next /\ UNCHANGED <<part, codec, options, picker>>
NextOptions == part = "options" /\ O!Next /\ UNCHANGED <<part, codec, json, picker>>
NextPicker  == part = "picker"  /\ P!Next /\ UNCHANGED <<part, codec, json, options>>

Next == NextCodec \/ NextJson \/ NextOptions \/ NextPicker

Spec == Init /\ [][Next]_vars

-------------------------------------------------------------------------------
(* Properties *)

\* Decoding undoes encoding: module CodecCalls.
RoundTrip == C!RoundTrip

\* No separator in what url_encode returns: module CodecCalls.
WireIsSafe == C!WireIsSafe

\* The escapes of all characters, and no more: module JsonEscape.
EscapesInOrder == J!EscapesInOrder

\* An Options object is a set of flags: module Options.
ImplementsOptionSet == O!ImplementsOptionSet

\* A picker gives elements of its collection: module RandomValuePicker.
PicksInside == P!PicksInside
===============================================================================
