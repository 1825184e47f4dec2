--------------------------------- MODULE Codec ---------------------------------
(***************************************************************************)
(* The hex and base64 codecs (string_encode.cpp), url_encode and           *)
(* url_decode (URL.cpp) as operators on sequences of bytes.                *)
(***************************************************************************)
EXTENDS Naturals, Sequences, SequencesExt

Byte == 0 .. 255

\* The characters the code names.
Nul == 0     Space == 32   Percent == 37   Plus == 43   Minus == 45   Equal == 61

Digit(n) == IF n < 10 THEN 48 + n ELSE 87 + n

HexDigits == 48 .. 57 \cup 65 .. 70 \cup 97 .. 102

DigitValue(c) == CASE c \in 48 .. 57  -> c - 48
                   [] c \in 65 .. 70  -> c - 55
                   [] c \in 97 .. 102 -> c - 87

-------------------------------------------------------------------------------
(* string_encode.cpp *)

\* Faulty: no leading zero.
HexOfShort(b) == IF b < 16 THEN <<Digit(b)>> ELSE <<Digit(b \div 16), Digit(b % 16)>>

\* A row of HEXTABLE.
HexOf(b) == <<Digit(b \div 16), Digit(b % 16)>>

HexEncode(bytes) == FlattenSeq([i \in DOMAIN bytes |-> HexOf(bytes[i])])

\* strtoul(c d, 16), cut to a byte: blanks and a sign are skipped, the first
\* character that is no digit ends the number.
StrToByte(c, d) ==
  LET low == IF d \in HexDigits THEN DigitValue(d) ELSE 0 IN
  CASE c \in HexDigits ->
         IF d \in HexDigits THEN 16 * DigitValue(c) + low ELSE DigitValue(c)
    [] c \in {Plus, Space} \cup 9 .. 13 -> low
    [] c = Minus -> (256 - low) % 256
    [] OTHER -> 0

\* hex_decode throws on an odd length.
HexDecodeThrows(str) == Len(str) % 2 # 0

HexDecode(str) ==
  [i \in 1 .. Len(str) \div 2 |-> StrToByte(str[2 * i - 1], str[2 * i])]

\* transform_width: the bits of numbers `from` bits wide, the highest first, as
\* numbers `to` bits wide, filled up with zeros at the end.
Regroup(numbers, from, to, count) ==
  LET Bit(j) == IF j < from * Len(numbers)
                THEN (numbers[j \div from + 1] \div 2 ^ (from - 1 - (j % from))) % 2 ELSE 0
      Group(k) == LET upto[b \in 0 .. to] ==
                        IF b = 0 THEN 0 ELSE 2 * upto[b - 1] + Bit(k * to + b - 1)
                  IN  upto[to]
  IN  [k \in 1 .. count |-> Group(k - 1)]

\* base64_from_binary and binary_from_base64
Base64Char(n) ==
  CASE n < 26 -> 65 + n [] n \in 26 .. 51 -> 71 + n [] n \in 52 .. 61 -> n - 4
    [] n = 62 -> Plus [] OTHER -> 47
Base64Chars == {Base64Char(n) : n \in 0 .. 63}
Base64Value(c) == IF c = Equal THEN 0 ELSE CHOOSE n \in 0 .. 63 : Base64Char(n) = c

\* Faulty: the padding of a text one byte longer.
PaddingShifted(size) == <<<<Equal, Equal>>, <<Equal>>, <<>>>>[(size % 3) + 1]

Padding(size) == <<<<>>, <<Equal, Equal>>, <<Equal>>>>[(size % 3) + 1]

Base64Encode(bytes) ==
  LET sextets == Regroup(bytes, 8, 6, (8 * Len(bytes) + 5) \div 6)
  IN  [k \in DOMAIN sextets |-> Base64Char(sextets[k])] \o Padding(Len(bytes))

\* str without one or two '=' at its end
Unpadded(str) ==
  LET EqualAt(i) == i > 0 /\ str[i] = Equal
      size == Len(str)
  IN  SubSeq(str, 1, IF ~EqualAt(size) THEN size
                     ELSE IF EqualAt(size - 1) THEN size - 2 ELSE size - 1)

\* Boost reads '=' as a zero and throws at any other character, the terminator
\* included, which it reaches when a single sextet is left.
Base64DecodeThrows(str) ==
  \/ ~(ToSet(Unpadded(str)) \subseteq Base64Chars \cup {Equal})
  \/ Len(Unpadded(str)) % 4 = 1

Base64Decode(str) ==
  LET sextets == [k \in DOMAIN Unpadded(str) |-> Base64Value(str[k])]
  IN  Regroup(sextets, 6, 8, (6 * Len(sextets)) \div 8)

-------------------------------------------------------------------------------
(* URL.cpp *)

Alnum == 48 .. 57 \cup 65 .. 90 \cup 97 .. 122

\* "-_.!~*\()": strchr also finds the terminator of EXTRA.
Extra == {45, 95, 46, 33, 126, 42, 92, 40, 41, Nul}

\* Faulty: the escape character, or the one that stands for a blank, passes.
AllowedWithPercent == Alnum \cup Extra \cup {Percent}
AllowedWithPlus == Alnum \cup Extra \cup {Plus}

AllowedCharacters == Alnum \cup Extra

UrlEncode(text) ==
  FlattenSeq([i \in DOMAIN text |->
                IF text[i] \in AllowedCharacters THEN <<text[i]>>
                ELSE <<Percent>> \o HexOf(text[i])])

\* url[j]: a std::string ends with a Nul; what comes after it is never used,
\* because the Nul already ends the number.
CharAt(url, j) == IF j <= Len(url) THEN url[j] ELSE Nul

\* % and two digits.
EscapeLength == 3

UrlDecode(url) ==
  LET from[i \in 1 .. Len(url) + EscapeLength] ==
        IF i > Len(url) THEN <<>>
        ELSE IF url[i] = Percent
        THEN <<StrToByte(CharAt(url, i + 1), CharAt(url, i + 2))>> \o from[i + EscapeLength]
        ELSE <<IF url[i] = Plus THEN Space ELSE url[i]>> \o from[i + 1]
  IN  from[1]
===============================================================================
