------------------------------ MODULE CodecCalls ------------------------------
(***************************************************************************)
(* A program that sends bytes through the codecs of module Codec and back, *)
(* and decodes texts that no encoder made.                                 *)
(***************************************************************************)
EXTENDS Codec

CONSTANTS
  Alphabet,   \* the bytes of the texts
  MaxLen      \* their length (bound)

VARIABLES
  text,   \* what is encoded, or the text that is decoded as it is
  wire,   \* the encoded form
  back,   \* what was decoded
  stage   \* the call that returned last

vars == <<text, wire, back, stage>>

Init ==
  /\ text \in BoundedSeq(Alphabet, MaxLen)
  /\ wire = <<>> /\ back = <<>> /\ stage = "text"

EncodeHex ==
  /\ stage = "text"
  /\ wire' = HexEncode(text) /\ stage' = "hex"
  /\ UNCHANGED <<text, back>>

EncodeUrl ==
  /\ stage = "text"
  /\ wire' = UrlEncode(text) /\ stage' = "url"
  /\ UNCHANGED <<text, back>>

EncodeBase64 ==
  /\ stage = "text"
  /\ wire' = Base64Encode(text) /\ stage' = "base64"
  /\ UNCHANGED <<text, back>>

DecodeHex ==
  /\ stage = "hex" /\ ~HexDecodeThrows(wire)
  /\ back' = HexDecode(wire) /\ stage' = "decoded"
  /\ UNCHANGED <<text, wire>>

DecodeUrl ==
  /\ stage = "url"
  /\ back' = UrlDecode(wire) /\ stage' = "decoded"
  /\ UNCHANGED <<text, wire>>

DecodeBase64 ==
  /\ stage = "base64" /\ ~Base64DecodeThrows(wire)
  /\ back' = Base64Decode(wire) /\ stage' = "decoded"
  /\ UNCHANGED <<text, wire>>

\* The text comes from elsewhere, perhaps cut inside an escape.
DecodeForeign ==
  /\ stage = "text"
  /\ \/ back' = UrlDecode(text)
     \/ ~HexDecodeThrows(text) /\ back' = HexDecode(text)
     \/ ~Base64DecodeThrows(text) /\ back' = Base64Decode(text)
  /\ stage' = "foreign"
  /\ UNCHANGED <<text, wire>>

Next ==
  \/ EncodeHex \/ EncodeUrl \/ EncodeBase64
  \/ DecodeHex \/ DecodeUrl \/ DecodeBase64 \/ DecodeForeign

Spec == Init /\ [][Next]_vars

-------------------------------------------------------------------------------
(* Properties *)

Separators == {13, 10, 32, 35, 38, 43, 47, 61, 63}

(***************************************************************************)
(* Decoding never throws on, and gives back, every byte that was encoded,  *)
(* those included that stand for something in an encoded text: %, +, and   *)
(* digits after a %; and base64 texts, of every length modulo three, are   *)
(* padded to whole groups of four characters.  A text that no encoder made *)
(* gives at most as many bytes as it has characters.                       *)
(* hex_decode(hex_encode(t)) = t, and so for base64_decode and url_decode. *)
(***************************************************************************)
RoundTrip ==
  /\ stage = "hex" => ~HexDecodeThrows(wire)
  /\ stage = "base64" => /\ ~Base64DecodeThrows(wire)
                        /\ Len(wire) = 4 * ((Len(text) + 2) \div 3)
  /\ stage = "decoded" => back = text
  /\ stage = "foreign" => Len(back) <= Len(text) /\ ToSet(back) \subseteq Byte

(***************************************************************************)
(* An encoded text holds no character that separates the parts of a URL or *)
(* of a request line, and a % only before two digits: encoded keys and     *)
(* values can be put side by side and told apart again.  url_encode.       *)
(***************************************************************************)
WireIsSafe ==
  stage = "url" => \A i \in DOMAIN wire :
    /\ wire[i] \notin Separators
    /\ wire[i] = Percent => /\ i + 2 <= Len(wire)
                            /\ {wire[i + 1], wire[i + 2]} \subseteq HexDigits
===============================================================================
