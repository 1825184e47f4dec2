-------------------------- MODULE HttpMessagesProofs --------------------------
(***************************************************************************)
(* Proofs about HttpMessages: what Response::from() reads of a header,     *)
(* where the views of a Response point, and what a server reads of what    *)
(* Request::buildRequest() lays out.                                       *)
(*                                                                         *)
(* The header is a text of any length, with any number of fields.  Where   *)
(* its lines stand in it is found by induction over their number (module   *)
(* TextProofs, HeaderLaidOut); of a line it is said character by           *)
(* character what it shows as far as it was received (StatusAt, FieldAt),  *)
(* and where the parser's searches stop in it (StatusPlaces, FieldPlaces). *)
(* With that the invariant of the parser is short (ParserInv): it stands   *)
(* between two lines, with the fields of those before.                     *)
(*                                                                         *)
(* A request is put together of pieces that lack the character that ends   *)
(* them.  What is cut at that character is then what was put together      *)
(* (SplitIs, BeforeAfter): of the target (QueryReads), the start line      *)
(* (WordsRead), a field (HeaderReads), and of the lines up to the first    *)
(* blank one (NoBreakInLines, HeadReads).  The invariant holds of a        *)
(* request whatever it was given (RequestInv); when that is WellFormed,    *)
(* its pieces lack those characters (WellFormedReadable).                  *)
(***************************************************************************)
EXTENDS HttpMessages, TextProofs, FiniteSetTheorems

\* A text that the response module puts together of parts: module TextProofs.
LEMMA RespFlattens ==
  ASSUME NEW S, NEW parts \in Seq(Seq(S))
  PROVE  /\ Resp!FlattenSeq(parts) \in Seq(S)
         /\ \E off : LaidOut(Resp!FlattenSeq(parts), parts, off)
<1>1. Resp!FlattenSeq(parts) = FlattenSeq(parts)
  BY DEF Resp!FlattenSeq, FlattenSeq
<1>2. Len(parts) \in Nat
  BY LenProperties
<1>3. FlattensTo(FlattenSeq(parts), parts)
  BY <1>2, FlattenIs
<1>4. FlattenSeq(parts) \in Seq(S) /\ \E off : LaidOut(FlattenSeq(parts), parts, off)
  BY <1>3, FlattenLaysOut
<1> QED BY <1>1, <1>4

-------------------------------------------------------------------------------
(* The text that is parsed *)

Char == 0 .. 255
NonSpace == {c \in Char : ~Resp!IsSpace(c)}
NonDigit == {c \in Char : ~Resp!IsDigit(c)}
NonBlank == {c \in Char : ~Resp!IsBlank(c)}

LEMMA MinIsLeast ==
  ASSUME NEW I, I \subseteq Nat, I # {}
  PROVE  Resp!Min(I) \in I /\ \A i \in I : Resp!Min(I) <= i
<1>1. \E x \in I : \A y \in I : x <= y
  BY Least, Zenon
<1> QED BY <1>1 DEF Resp!Min

LEMMA TextIs ==
  ASSUME buf \in Seq(Char)
  PROVE  /\ Len(buf) \in Nat /\ Resp!End = Len(buf) + 1
         /\ \A j \in 1 .. Len(buf) : Resp!At(j) = buf[j] /\ buf[j] \in Char
         /\ \A j : j \notin 1 .. Len(buf) => Resp!At(j) = 0
BY LenProperties DEF Resp!End, Resp!At, Resp!Nul

\* m is the first place from j on whose character is in C, or the end.
FirstIn(m, j, C) ==
  /\ m \in j .. Resp!End
  /\ \A i \in j .. m - 1 : Resp!At(i) \notin C
  /\ m = Resp!End \/ Resp!At(m) \in C

LEMMA FirstIsUnique ==
  ASSUME buf \in Seq(Char), NEW C, NEW j \in Nat, NEW m, NEW n,
         FirstIn(m, j, C), FirstIn(n, j, C)
  PROVE  m = n
<1>1. Len(buf) \in Nat /\ Resp!End = Len(buf) + 1
  BY TextIs
<1>2. m \in Nat /\ n \in Nat /\ m >= j /\ n >= j /\ m <= Resp!End /\ n <= Resp!End
  BY <1>1 DEF FirstIn
<1>3. ~(m < n)
  BY <1>1, <1>2 DEF FirstIn
<1>4. ~(n < m)
  BY <1>1, <1>2 DEF FirstIn
<1> QED BY <1>2, <1>3, <1>4

\* Nothing of C stands before the place behind l.
LEMMA FirstAt ==
  ASSUME buf \in Seq(Char), NEW C, NEW j \in Nat, NEW l \in Nat, j <= l + 1, l + 1 <= Resp!End,
         \A i \in j .. l : Resp!At(i) \notin C, l + 1 = Resp!End \/ Resp!At(l + 1) \in C
  PROVE  FirstIn(l + 1, j, C)
<1>1. Resp!End \in Nat
  BY TextIs
<1>2. l + 1 \in j .. Resp!End
  BY <1>1
<1>3. \A i \in j .. l + 1 - 1 : i \in j .. l
  OBVIOUS
<1> QED BY <1>2, <1>3 DEF FirstIn

\* The places from j on whose character is in C.
Places(j, C) == {i \in j .. Len(buf) : Resp!At(i) \in C}
First(j, C) == IF Places(j, C) = {} THEN Resp!End ELSE Resp!Min(Places(j, C))

LEMMA FirstOfPlaces ==
  ASSUME buf \in Seq(Char), NEW C, NEW j \in Nat \ {0}, j <= Resp!End
  PROVE  FirstIn(First(j, C), j, C) /\ (Places(j, C) # {} => First(j, C) # 0)
<1> DEFINE I == Places(j, C)
           m == First(j, C)
<1>0. m = IF I = {} THEN Resp!End ELSE Resp!Min(I)
  BY DEF First
<1>1. Len(buf) \in Nat /\ Resp!End = Len(buf) + 1
  BY TextIs
<1>2. \A i \in j .. Len(buf) : i \in I <=> Resp!At(i) \in C
  BY DEF Places
<1>3. I \subseteq j .. Len(buf)
  BY DEF Places
<1> HIDE DEF I, m
<1>4. CASE I = {}
  <2>1. m = Resp!End
    BY <1>0, <1>4
  <2> QED BY <1>1, <1>2, <1>4, <2>1 DEF FirstIn, I, m
<1>5. CASE I # {}
  <2>1. m \in I /\ \A i \in I : m <= i
    <3>1. I \subseteq Nat
      BY <1>1, <1>3
    <3> QED BY <1>0, <1>5, <3>1, MinIsLeast
  <2>2. m \in j .. Resp!End /\ Resp!At(m) \in C /\ m # 0
    BY <1>1, <1>2, <1>3, <2>1
  <2>3. ASSUME NEW i \in j .. m - 1 PROVE Resp!At(i) \notin C
    <3>1. i \in j .. Len(buf) /\ ~(m <= i)
      BY <1>1, <2>2
    <3> QED BY <1>2, <2>1, <3>1
  <2> QED BY <2>2, <2>3 DEF FirstIn, m
<1> QED BY <1>4, <1>5

LEMMA FindIsFirst ==
  ASSUME buf \in Seq(Char), NEW C, NEW j \in Nat \ {0}, j <= Resp!End
  PROVE  FirstIn(Resp!Find(j, C), j, C)
<1>1. /\ Len(buf) \in Nat /\ Resp!End = Len(buf) + 1
      /\ \A i \in 1 .. Len(buf) : Resp!At(i) = buf[i]
  BY TextIs
<1>2. {i \in j .. Len(buf) : buf[i] \in C} = Places(j, C)
  BY <1>1 DEF Places
<1>3. Places(j, C) # {} => Resp!Min(Places(j, C)) # 0
  BY FirstOfPlaces DEF First
<1>4. Resp!Find(j, C) = First(j, C)
  BY <1>2, <1>3 DEF Resp!Find, Resp!SelectInSubSeq, First
<1> QED BY <1>4, FirstOfPlaces

LEMMA SkipSpaces ==
  ASSUME buf \in Seq(Char), NEW j \in Nat \ {0}, j <= Resp!End
  PROVE  FirstIn(Resp!SkipTo(j, Resp!IsSpace), j, NonSpace)
<1>1. /\ Len(buf) \in Nat /\ Resp!End = Len(buf) + 1
      /\ \A i \in 1 .. Len(buf) : Resp!At(i) = buf[i] /\ buf[i] \in Char
  BY TextIs
<1>2. {i \in j .. Len(buf) : ~Resp!IsSpace(buf[i])} = Places(j, NonSpace)
  BY <1>1 DEF Places, NonSpace
<1>3. Places(j, NonSpace) # {} => Resp!Min(Places(j, NonSpace)) # 0
  BY FirstOfPlaces DEF First
<1>4. Resp!SkipTo(j, Resp!IsSpace) = First(j, NonSpace)
  BY <1>2, <1>3 DEF Resp!SkipTo, Resp!SelectInSubSeq, First
<1> QED BY <1>4, FirstOfPlaces

LEMMA SkipDigits ==
  ASSUME buf \in Seq(Char), NEW j \in Nat \ {0}, j <= Resp!End
  PROVE  FirstIn(Resp!SkipTo(j, Resp!IsDigit), j, NonDigit)
<1>1. /\ Len(buf) \in Nat /\ Resp!End = Len(buf) + 1
      /\ \A i \in 1 .. Len(buf) : Resp!At(i) = buf[i] /\ buf[i] \in Char
  BY TextIs
<1>2. {i \in j .. Len(buf) : ~Resp!IsDigit(buf[i])} = Places(j, NonDigit)
  BY <1>1 DEF Places, NonDigit
<1>3. Places(j, NonDigit) # {} => Resp!Min(Places(j, NonDigit)) # 0
  BY FirstOfPlaces DEF First
<1>4. Resp!SkipTo(j, Resp!IsDigit) = First(j, NonDigit)
  BY <1>2, <1>3 DEF Resp!SkipTo, Resp!SelectInSubSeq, First
<1> QED BY <1>4, FirstOfPlaces

LEMMA SkipBlanks ==
  ASSUME buf \in Seq(Char), NEW j \in Nat \ {0}, j <= Resp!End
  PROVE  FirstIn(Resp!SkipTo(j, Resp!IsBlank), j, NonBlank)
<1>1. /\ Len(buf) \in Nat /\ Resp!End = Len(buf) + 1
      /\ \A i \in 1 .. Len(buf) : Resp!At(i) = buf[i] /\ buf[i] \in Char
  BY TextIs
<1>2. {i \in j .. Len(buf) : ~Resp!IsBlank(buf[i])} = Places(j, NonBlank)
  BY <1>1 DEF Places, NonBlank
<1>3. Places(j, NonBlank) # {} => Resp!Min(Places(j, NonBlank)) # 0
  BY FirstOfPlaces DEF First
<1>4. Resp!SkipTo(j, Resp!IsBlank) = First(j, NonBlank)
  BY <1>2, <1>3 DEF Resp!SkipTo, Resp!SelectInSubSeq, First
<1> QED BY <1>4, FirstOfPlaces

-------------------------------------------------------------------------------
(* What a server sends *)

\* What ResponseAssumption says of a field, and of a response.
IsField(f) ==
  /\ f[1] \in Seq(Char \ {Resp!Colon, Resp!Space, Resp!CR, Resp!Nul}) /\ f[1] # <<>>
  /\ f[2] \in Seq({Resp!Space}) /\ f[3] \in Seq({Resp!Space})
  /\ f[4] \in Seq(Char \ {Resp!CR}) /\ (f[4] # <<>> => f[4][1] # Resp!Space)

CodeText(r) == Resp!Digits(r.code)

IsResponse(r) ==
  /\ CodeText(r) \in Seq(48 .. 57) /\ CodeText(r) # <<>> /\ Resp!Number(CodeText(r)) = r.code
  /\ r.message \in Seq(Char \ {Resp!CR}) /\ (r.message # <<>> => ~Resp!IsSpace(r.message[1]))
  /\ Len(r.fields) \in Nat /\ DOMAIN r.fields = 1 .. Len(r.fields)
  /\ \A k \in 1 .. Len(r.fields) : IsField(r.fields[k])
  /\ r.rest \in Seq(Char)

\* The decimals of the response module: module TextProofs.
LEMMA RespDecimals ==
  ASSUME NEW n PROVE Resp!Digits(n) = Digits(n) /\ Resp!Number(n) = Number(n)
BY Zenon DEF Resp!Digits, Digits, Resp!Number, Number

LEMMA SentIsResponse == ASSUME NEW r \in Resp!Sendable PROVE IsResponse(r)
<1>1. /\ r.code \in Codes /\ r.message \in Messages /\ r.rest \in Rests
      /\ r.fields \in Resp!BoundedSeq(ResponseFields, MaxResponseFields)
  BY DEF Resp!Sendable
<1>2. PICK m \in 0 .. MaxResponseFields : r.fields \in [1 .. m -> ResponseFields]
  BY <1>1 DEF Resp!BoundedSeq, Resp!SeqOf
<1>3. m \in Nat
  BY <1>2, ResponseAssumption
<1>4. r.fields \in Seq(ResponseFields)
  BY <1>2, <1>3
<1>5. Len(r.fields) \in Nat /\ DOMAIN r.fields = 1 .. Len(r.fields)
  BY <1>4, LenProperties
<1>6. \A k \in 1 .. Len(r.fields) : r.fields[k] \in ResponseFields
  BY <1>4, ElementOfSeq
<1>7. \A f \in ResponseFields : IsField(f)
  BY ResponseAssumption DEF IsField, Char
<1>8. r.rest \in Seq(Char)
  BY <1>1, ResponseAssumption DEF Char, Text
<1>9. r.message \in Seq(Char \ {Resp!CR}) /\ (r.message # <<>> => ~Resp!IsSpace(r.message[1]))
  BY <1>1, ResponseAssumption DEF Char
<1>10. CodeText(r) \in Seq(48 .. 57) /\ CodeText(r) # <<>> /\ Resp!Number(CodeText(r)) = r.code
  <2>1. r.code \in 100 .. 999
    BY <1>1, ResponseAssumption
  <2>2. r.code \in Nat
    BY <2>1
  <2> QED BY <2>2, RespDecimals, DigitsRead DEF CodeText
<1> QED BY <1>5, <1>6, <1>7, <1>8, <1>9, <1>10 DEF IsResponse

\* Two sequences one behind the other.
LEMMA Joined ==
  ASSUME NEW S, NEW a \in Seq(S), NEW b \in Seq(S)
  PROVE  /\ a \o b \in Seq(S) /\ Len(a \o b) = Len(a) + Len(b)
         /\ Stands(b, a \o b, Len(a))
         /\ \A s, n : Stands(s, a, n) => Stands(s, a \o b, n)
<1>1. a \o b \in Seq(S) /\ Len(a \o b) = Len(a) + Len(b)
  BY ConcatProperties
<1>2. Stands(b, a \o b, Len(a))
  BY StandsRight
<1>3. ASSUME NEW s, NEW n, Stands(s, a, n) PROVE Stands(s, a \o b, n)
  BY <1>3, StandsLeft
<1> QED BY <1>1, <1>2, <1>3

LineLen(f) == Len(f[1]) + Len(f[2]) + 1 + Len(f[3]) + Len(f[4]) + 2

\* The line of field f stands in w behind the first n characters.
LineStands(f, w, n) ==
  /\ Stands(f[1], w, n)
  /\ Stands(f[2], w, n + Len(f[1]))
  /\ Stands(<<Resp!Colon>>, w, n + Len(f[1]) + Len(f[2]))
  /\ Stands(f[3], w, n + Len(f[1]) + Len(f[2]) + 1)
  /\ Stands(f[4], w, n + Len(f[1]) + Len(f[2]) + 1 + Len(f[3]))
  /\ Stands(Resp!EOL, w, n + Len(f[1]) + Len(f[2]) + 1 + Len(f[3]) + Len(f[4]))

LEMMA EolIs ==
  /\ Resp!EOL \in Seq(Char) /\ Len(Resp!EOL) = 2 /\ Resp!EOL[1] = 13 /\ Resp!EOL[2] = 10
  /\ <<Resp!Colon>> \in Seq(Char) /\ Len(<<Resp!Colon>>) = 1 /\ <<Resp!Colon>>[1] = 58
  /\ <<Resp!Space>> \in Seq(Char) /\ Len(<<Resp!Space>>) = 1 /\ <<Resp!Space>>[1] = 32
BY DEF Resp!EOL, Resp!CR, Resp!LF, Resp!Colon, Resp!Space, Char

LEMMA FieldTyped ==
  ASSUME NEW f, IsField(f)
  PROVE  /\ f[1] \in Seq(Char) /\ f[2] \in Seq(Char) /\ f[3] \in Seq(Char) /\ f[4] \in Seq(Char)
         /\ Len(f[1]) \in Nat \ {0} /\ Len(f[2]) \in Nat /\ Len(f[3]) \in Nat /\ Len(f[4]) \in Nat
<1>1. {Resp!Space} \subseteq Char
  BY DEF Resp!Space, Char
<1>2. f[1] \in Seq(Char) /\ f[2] \in Seq(Char) /\ f[3] \in Seq(Char) /\ f[4] \in Seq(Char)
  BY <1>1, SeqMonotonic DEF IsField
<1>3. Len(f[1]) # 0
  BY <1>2, EmptySeq DEF IsField
<1> QED BY <1>2, <1>3, LenProperties

LEMMA LineLenTyped == ASSUME NEW f, IsField(f) PROVE LineLen(f) \in Nat
<1>1. /\ Len(f[1]) \in Nat /\ Len(f[2]) \in Nat /\ Len(f[3]) \in Nat /\ Len(f[4]) \in Nat
  BY FieldTyped
<1>2. \A x, y, z, t \in Nat : x + y + 1 + z + t + 2 \in Nat
  OBVIOUS
<1> QED BY <1>1, <1>2, Zenon DEF LineLen

LEMMA LineLaysOut ==
  ASSUME NEW f, IsField(f)
  PROVE  /\ Resp!FieldLine(f) \in Seq(Char) /\ Len(Resp!FieldLine(f)) = LineLen(f)
         /\ LineStands(f, Resp!FieldLine(f), 0)
<1> DEFINE a == f[1] \o f[2]
           b == a \o <<Resp!Colon>>
           c == b \o f[3]
           d == c \o f[4]
           e == d \o Resp!EOL
<1>0. /\ f[1] \in Seq(Char) /\ f[2] \in Seq(Char) /\ f[3] \in Seq(Char) /\ f[4] \in Seq(Char)
      /\ Len(f[1]) \in Nat /\ Len(f[2]) \in Nat /\ Len(f[3]) \in Nat /\ Len(f[4]) \in Nat
  BY FieldTyped
<1>1. Stands(f[1], f[1], 0)
  BY <1>0 DEF Stands
<1>2. /\ a \in Seq(Char) /\ Len(a) = Len(f[1]) + Len(f[2])
      /\ Stands(f[2], a, Len(f[1])) /\ \A s, n : Stands(s, f[1], n) => Stands(s, a, n)
  BY <1>0, Joined
<1> HIDE DEF a
<1>3. /\ b \in Seq(Char) /\ Len(b) = Len(a) + 1
      /\ Stands(<<Resp!Colon>>, b, Len(a)) /\ \A s, n : Stands(s, a, n) => Stands(s, b, n)
  <2>1. <<Resp!Colon>> \in Seq(Char)
    BY EolIs
  <2>2. /\ b \in Seq(Char) /\ Len(b) = Len(a) + Len(<<Resp!Colon>>)
        /\ Stands(<<Resp!Colon>>, b, Len(a)) /\ \A s, n : Stands(s, a, n) => Stands(s, b, n)
    BY <1>2, <2>1, Joined, Zenon
  <2> HIDE DEF b
  <2> QED BY <2>2, EolIs
<1> HIDE DEF b
<1>4. /\ c \in Seq(Char) /\ Len(c) = Len(b) + Len(f[3])
      /\ Stands(f[3], c, Len(b)) /\ \A s, n : Stands(s, b, n) => Stands(s, c, n)
  BY <1>0, <1>3, Joined
<1> HIDE DEF c
<1>5. /\ d \in Seq(Char) /\ Len(d) = Len(c) + Len(f[4])
      /\ Stands(f[4], d, Len(c)) /\ \A s, n : Stands(s, c, n) => Stands(s, d, n)
  BY <1>0, <1>4, Joined
<1> HIDE DEF d
<1>6. /\ e \in Seq(Char) /\ Len(e) = Len(d) + 2
      /\ Stands(Resp!EOL, e, Len(d)) /\ \A s, n : Stands(s, d, n) => Stands(s, e, n)
  <2>1. Resp!EOL \in Seq(Char)
    BY EolIs
  <2>2. /\ e \in Seq(Char) /\ Len(e) = Len(d) + Len(Resp!EOL)
        /\ Stands(Resp!EOL, e, Len(d)) /\ \A s, n : Stands(s, d, n) => Stands(s, e, n)
    BY <1>5, <2>1, Joined, Zenon
  <2> HIDE DEF e
  <2> QED BY <2>2, EolIs
<1> HIDE DEF e
<1>7. Resp!FieldLine(f) = e
  BY DEF Resp!FieldLine, a, b, c, d, e
<1>8. Len(e) = LineLen(f)
  BY <1>0, <1>2, <1>3, <1>4, <1>5, <1>6 DEF LineLen
<1>9. LineStands(f, e, 0)
  <2>1. /\ Stands(f[1], e, 0) /\ Stands(f[2], e, Len(f[1])) /\ Stands(<<Resp!Colon>>, e, Len(a))
        /\ Stands(f[3], e, Len(b)) /\ Stands(f[4], e, Len(c)) /\ Stands(Resp!EOL, e, Len(d))
    BY <1>1, <1>2, <1>3, <1>4, <1>5, <1>6
  <2>2. /\ 0 + Len(f[1]) = Len(f[1]) /\ 0 + Len(f[1]) + Len(f[2]) = Len(a)
        /\ 0 + Len(f[1]) + Len(f[2]) + 1 = Len(b)
        /\ 0 + Len(f[1]) + Len(f[2]) + 1 + Len(f[3]) = Len(c)
        /\ 0 + Len(f[1]) + Len(f[2]) + 1 + Len(f[3]) + Len(f[4]) = Len(d)
    BY <1>0, <1>2, <1>3, <1>4, <1>5
  <2> QED BY <2>1, <2>2 DEF LineStands
<1> QED BY <1>6, <1>7, <1>8, <1>9

LEMMA LineStandsInText ==
  ASSUME NEW f, IsField(f), NEW w, NEW n, Stands(Resp!FieldLine(f), w, n), Len(w) \in Nat
  PROVE  LineStands(f, w, n) /\ n + LineLen(f) <= Len(w)
<1> DEFINE e == Resp!FieldLine(f)
<1>1. LineStands(f, e, 0) /\ Len(e) = LineLen(f)
  BY LineLaysOut
<1>2. n \in Nat /\ n + LineLen(f) <= Len(w)
  BY <1>1 DEF Stands
<1> HIDE DEF e
<1>3. \A s, m : Stands(s, e, m) => Stands(s, w, n + m)
  BY StandsInPart DEF e
<1>4. /\ Len(f[1]) \in Nat /\ Len(f[2]) \in Nat /\ Len(f[3]) \in Nat /\ Len(f[4]) \in Nat
  BY FieldTyped
<1> DEFINE m2 == Len(f[1])
           m3 == m2 + Len(f[2])
           m4 == m3 + 1
           m5 == m4 + Len(f[3])
           m6 == m5 + Len(f[4])
<1>5. /\ 0 + m2 = m2 /\ 0 + m2 + Len(f[2]) = m3 /\ 0 + m2 + Len(f[2]) + 1 = m4
      /\ 0 + m2 + Len(f[2]) + 1 + Len(f[3]) = m5
      /\ 0 + m2 + Len(f[2]) + 1 + Len(f[3]) + Len(f[4]) = m6
  BY <1>4
<1>6. /\ n + 0 = n /\ n + Len(f[1]) = n + m2 /\ n + Len(f[1]) + Len(f[2]) = n + m3
      /\ n + Len(f[1]) + Len(f[2]) + 1 = n + m4
      /\ n + Len(f[1]) + Len(f[2]) + 1 + Len(f[3]) = n + m5
      /\ n + Len(f[1]) + Len(f[2]) + 1 + Len(f[3]) + Len(f[4]) = n + m6
  <2> DEFINE Sums(x, y, z, t) ==
               /\ n + 0 = n /\ n + x + y = n + (x + y) /\ n + x + y + 1 = n + (x + y + 1)
               /\ n + x + y + 1 + z = n + (x + y + 1 + z)
               /\ n + x + y + 1 + z + t = n + (x + y + 1 + z + t)
  <2>1. \A x, y, z, t \in Nat : Sums(x, y, z, t)
    BY <1>2
  <2> HIDE DEF Sums
  <2>2. Sums(Len(f[1]), Len(f[2]), Len(f[3]), Len(f[4]))
    BY <1>4, <2>1
  <2> QED BY <2>2, Zenon DEF Sums
<1> HIDE DEF m2, m3, m4, m5, m6
<1>7. /\ Stands(f[1], e, 0) /\ Stands(f[2], e, m2) /\ Stands(<<Resp!Colon>>, e, m3)
      /\ Stands(f[3], e, m4) /\ Stands(f[4], e, m5) /\ Stands(Resp!EOL, e, m6)
  BY <1>1, <1>5 DEF LineStands, m2
<1>8. LineStands(f, w, n)
  <2>1. /\ Stands(f[1], w, n + 0) /\ Stands(f[2], w, n + m2) /\ Stands(<<Resp!Colon>>, w, n + m3)
        /\ Stands(f[3], w, n + m4) /\ Stands(f[4], w, n + m5) /\ Stands(Resp!EOL, w, n + m6)
    BY <1>3, <1>7
  <2> QED BY <1>6, <2>1 DEF LineStands
<1> QED BY <1>2, <1>8

CodeTo(r) == 9 + Len(CodeText(r))
MessageTo(r) == CodeTo(r) + 1 + Len(r.message)

\* The status line, the lines of the fields, line k behind at[k - 1] characters, and the
\* blank line stand in w.
Layout(r, w, at) ==
  /\ Stands(Resp!Protocol, w, 0)
  /\ Stands(<<49, Resp!Dot, 49, Resp!Space>>, w, 5)
  /\ Stands(CodeText(r), w, 9)
  /\ Stands(<<Resp!Space>>, w, CodeTo(r))
  /\ Stands(r.message, w, CodeTo(r) + 1)
  /\ Stands(Resp!EOL, w, MessageTo(r))
  /\ at \in [0 .. Len(r.fields) -> Nat] /\ at[0] = MessageTo(r) + 2
  /\ \A k \in 1 .. Len(r.fields) :
       at[k] = at[k - 1] + LineLen(r.fields[k]) /\ LineStands(r.fields[k], w, at[k - 1])
  /\ Stands(Resp!EOL, w, at[Len(r.fields)])

Lines(r) == [k \in DOMAIN r.fields |-> Resp!FieldLine(r.fields[k])]

LEMMA LinesLaidOut ==
  ASSUME NEW r, IsResponse(r)
  PROVE  /\ Lines(r) \in Seq(Seq(Char)) /\ Len(Lines(r)) = Len(r.fields)
         /\ \A k \in 1 .. Len(r.fields) :
              Lines(r)[k] = Resp!FieldLine(r.fields[k]) /\ Len(Lines(r)[k]) = LineLen(r.fields[k])
<1>1. Len(r.fields) \in Nat /\ DOMAIN r.fields = 1 .. Len(r.fields)
  BY DEF IsResponse
<1>2. \A k \in 1 .. Len(r.fields) :
        /\ Resp!FieldLine(r.fields[k]) \in Seq(Char)
        /\ Len(Resp!FieldLine(r.fields[k])) = LineLen(r.fields[k])
  BY LineLaysOut DEF IsResponse
<1>3. Lines(r) = [k \in 1 .. Len(r.fields) |-> Resp!FieldLine(r.fields[k])]
  BY <1>1 DEF Lines
<1>4. Lines(r) \in [1 .. Len(r.fields) -> Seq(Char)]
  BY <1>2, <1>3
<1>5. Lines(r) \in Seq(Seq(Char)) /\ Len(Lines(r)) = Len(r.fields)
  BY <1>1, <1>4
<1>6. \A k \in 1 .. Len(r.fields) : Lines(r)[k] = Resp!FieldLine(r.fields[k])
  BY <1>3
<1> QED BY <1>2, <1>5, <1>6

LEMMA HeaderLaidOut ==
  ASSUME NEW r, IsResponse(r)
  PROVE  /\ Resp!Header(r) \in Seq(Char)
         /\ \E at : /\ Layout(r, Resp!Header(r), at)
                    /\ Len(Resp!Header(r)) = at[Len(r.fields)] + 2
<1> DEFINE h == Resp!Header(r)
           lines == Resp!FlattenSeq(Lines(r))
           K == Len(r.fields)
           start == <<49, Resp!Dot, 49, Resp!Space>>
           parts == <<Resp!Protocol, start, CodeText(r), <<Resp!Space>>, r.message, Resp!EOL,
                      lines, Resp!EOL>>
<1>0. K \in Nat
  BY DEF IsResponse
<1>1. /\ Resp!Protocol \in Seq(Char) /\ Len(Resp!Protocol) = 5
      /\ start \in Seq(Char) /\ Len(start) = 4
  BY DEF Resp!Protocol, Resp!Dot, Resp!Space, Char
<1>2. /\ CodeText(r) \in Seq(Char) /\ Len(CodeText(r)) \in Nat
      /\ r.message \in Seq(Char) /\ Len(r.message) \in Nat
  <2>1. 48 .. 57 \subseteq Char
    BY DEF Char
  <2>2. CodeText(r) \in Seq(Char) /\ r.message \in Seq(Char)
    BY <2>1, SeqMonotonic DEF IsResponse
  <2> QED BY <2>2, LenProperties
<1>3. lines \in Seq(Char) /\ \E off : LaidOut(lines, Lines(r), off)
  BY LinesLaidOut, RespFlattens
<1> HIDE DEF lines, start
<1>4. parts \in Seq(Seq(Char)) /\ Len(parts) = 8
  BY <1>1, <1>2, <1>3, EolIs
<1>5. /\ parts[1] = Resp!Protocol /\ parts[2] = start /\ parts[3] = CodeText(r)
      /\ parts[4] = <<Resp!Space>> /\ parts[5] = r.message /\ parts[6] = Resp!EOL
      /\ parts[7] = lines /\ parts[8] = Resp!EOL
  OBVIOUS
<1>6. h = Resp!FlattenSeq(parts)
  BY Zenon DEF Resp!Header, Lines, CodeText, lines, start
<1> HIDE DEF parts, h
<1>7. h \in Seq(Char) /\ \E off : LaidOut(h, parts, off)
  BY <1>4, <1>6, RespFlattens
<1>8. PICK off : LaidOut(h, parts, off)
  BY <1>7
<1>9. PICK rel : LaidOut(lines, Lines(r), rel)
  BY <1>3
<1>10. /\ off[0] = 0 /\ off[8] = Len(h)
       /\ \A k \in 1 .. 8 : off[k] = off[k - 1] + Len(parts[k]) /\ Stands(parts[k], h, off[k - 1])
  BY <1>4, <1>8 DEF LaidOut
<1>11. /\ off[1] = off[0] + Len(parts[1]) /\ Stands(parts[1], h, off[0])
       /\ off[2] = off[1] + Len(parts[2]) /\ Stands(parts[2], h, off[1])
       /\ off[3] = off[2] + Len(parts[3]) /\ Stands(parts[3], h, off[2])
       /\ off[4] = off[3] + Len(parts[4]) /\ Stands(parts[4], h, off[3])
       /\ off[5] = off[4] + Len(parts[5]) /\ Stands(parts[5], h, off[4])
       /\ off[6] = off[5] + Len(parts[6]) /\ Stands(parts[6], h, off[5])
       /\ off[7] = off[6] + Len(parts[7]) /\ Stands(parts[7], h, off[6])
       /\ off[8] = off[7] + Len(parts[8]) /\ Stands(parts[8], h, off[7])
  BY <1>10
<1>12. /\ off[1] = 5 /\ off[2] = 9 /\ off[3] = CodeTo(r) /\ off[4] = CodeTo(r) + 1
       /\ off[5] = MessageTo(r) /\ off[6] = MessageTo(r) + 2
       /\ off[7] = MessageTo(r) + 2 + Len(lines) /\ off[8] = off[7] + 2
       /\ MessageTo(r) + 2 \in Nat /\ Len(h) \in Nat
  <2>1. Len(lines) \in Nat /\ Len(h) \in Nat
    BY <1>3, <1>7, LenProperties
  <2>2. /\ Len(parts[1]) = 5 /\ Len(parts[2]) = 4 /\ Len(parts[3]) = Len(CodeText(r))
        /\ Len(parts[4]) = 1 /\ Len(parts[5]) = Len(r.message) /\ Len(parts[6]) = 2
        /\ Len(parts[7]) = Len(lines) /\ Len(parts[8]) = 2
    BY <1>1, <1>5, EolIs
  <2>3. off[1] = 5 /\ off[2] = 9 /\ off[3] = CodeTo(r) /\ CodeTo(r) \in Nat
    BY <1>2, <1>10, <1>11, <2>2 DEF CodeTo
  <2>4. off[4] = CodeTo(r) + 1 /\ off[5] = MessageTo(r) /\ MessageTo(r) \in Nat
    <3>1. Len(r.message) \in Nat /\ CodeTo(r) \in Nat /\ off[3] = CodeTo(r)
      BY <1>2, <2>3
    <3>2. off[4] = off[3] + 1 /\ off[5] = off[4] + Len(r.message)
      BY <1>11, <2>2
    <3> QED BY <3>1, <3>2 DEF MessageTo
  <2>5. off[6] = MessageTo(r) + 2 /\ off[7] = MessageTo(r) + 2 + Len(lines) /\ off[8] = off[7] + 2
    BY <1>11, <2>1, <2>2, <2>4
  <2> QED BY <2>1, <2>3, <2>4, <2>5, SMTT(30)
<1>13. /\ rel \in [0 .. K -> Nat] /\ rel[0] = 0 /\ rel[K] = Len(lines)
       /\ \A k \in 1 .. K : /\ rel[k] = rel[k - 1] + LineLen(r.fields[k])
                            /\ Stands(Resp!FieldLine(r.fields[k]), lines, rel[k - 1])
  BY <1>9, LinesLaidOut DEF LaidOut
<1> DEFINE at == [k \in 0 .. K |-> (MessageTo(r) + 2) + rel[k]]
<1>14. at \in [0 .. K -> Nat] /\ at[0] = MessageTo(r) + 2 /\ at[K] = off[7]
  <2>1. 0 \in 0 .. K /\ K \in 0 .. K
    BY <1>0
  <2>2. ASSUME NEW k \in 0 .. K PROVE (MessageTo(r) + 2) + rel[k] \in Nat
    <3>1. rel[k] \in Nat /\ MessageTo(r) + 2 \in Nat
      BY <1>12, <1>13
    <3> QED BY <3>1
  <2>3. at[0] = (MessageTo(r) + 2) + rel[0] /\ at[K] = (MessageTo(r) + 2) + rel[K]
    BY <2>1
  <2>4. at \in [0 .. K -> Nat]
    BY <2>2
  <2>5. MessageTo(r) + 2 + 0 = MessageTo(r) + 2
    BY <1>12
  <2> QED BY <1>12, <1>13, <2>3, <2>4, <2>5
<1>15. ASSUME NEW k \in 1 .. K
       PROVE  at[k] = at[k - 1] + LineLen(r.fields[k]) /\ LineStands(r.fields[k], h, at[k - 1])
  <2>1. /\ k \in 0 .. K /\ k - 1 \in 0 .. K /\ rel[k] \in Nat /\ rel[k - 1] \in Nat
        /\ rel[k] = rel[k - 1] + LineLen(r.fields[k])
        /\ Stands(Resp!FieldLine(r.fields[k]), lines, rel[k - 1])
    BY <1>0, <1>13
  <2>2. Stands(lines, h, MessageTo(r) + 2)
    BY <1>5, <1>11, <1>12
  <2>3. Stands(Resp!FieldLine(r.fields[k]), h, (MessageTo(r) + 2) + rel[k - 1])
    BY <1>12, <2>1, <2>2, StandsInPart
  <2>4. IsField(r.fields[k])
    BY DEF IsResponse
  <2>5. LineStands(r.fields[k], h, (MessageTo(r) + 2) + rel[k - 1]) /\ LineLen(r.fields[k]) \in Nat
    <3>1. LineStands(r.fields[k], h, (MessageTo(r) + 2) + rel[k - 1])
      BY <1>12, <2>3, <2>4, LineStandsInText, Zenon
    <3>2. LineLen(r.fields[k]) \in Nat
      BY <2>4, LineLenTyped
    <3> QED BY <3>1, <3>2
  <2> QED BY <1>12, <2>1, <2>5, SMTT(30)
<1> HIDE DEF at
<1>16. Layout(r, h, at)
  <2>1. /\ Stands(Resp!Protocol, h, 0) /\ Stands(start, h, 5) /\ Stands(CodeText(r), h, 9)
        /\ Stands(<<Resp!Space>>, h, CodeTo(r)) /\ Stands(r.message, h, CodeTo(r) + 1)
        /\ Stands(Resp!EOL, h, MessageTo(r)) /\ Stands(Resp!EOL, h, at[K])
    BY <1>5, <1>10, <1>11, <1>12, <1>14
  <2> QED BY <1>14, <1>15, <2>1 DEF Layout, start
<1>17. Len(h) = at[K] + 2
  BY <1>10, <1>12, <1>14
<1> QED BY <1>7, <1>16, <1>17 DEF h

-------------------------------------------------------------------------------
(* What a client has received of it *)

\* As far as the text was received, s stands in it behind the first n characters.
Shown(s, n) ==
  /\ n \in Nat /\ Len(s) \in Nat
  /\ \A i \in 1 .. Len(s) : n + i <= Len(buf) => Resp!At(n + i) = s[i]

LineShown(f, n) ==
  /\ Shown(f[1], n)
  /\ Shown(f[2], n + Len(f[1]))
  /\ Shown(<<Resp!Colon>>, n + Len(f[1]) + Len(f[2]))
  /\ Shown(f[3], n + Len(f[1]) + Len(f[2]) + 1)
  /\ Shown(f[4], n + Len(f[1]) + Len(f[2]) + 1 + Len(f[3]))
  /\ Shown(Resp!EOL, n + Len(f[1]) + Len(f[2]) + 1 + Len(f[3]) + Len(f[4]))

Reads(r, at) ==
  /\ buf \in Seq(Char) /\ IsResponse(r)
  /\ Shown(Resp!Protocol, 0)
  /\ Shown(<<49, Resp!Dot, 49, Resp!Space>>, 5)
  /\ Shown(CodeText(r), 9)
  /\ Shown(<<Resp!Space>>, CodeTo(r))
  /\ Shown(r.message, CodeTo(r) + 1)
  /\ Shown(Resp!EOL, MessageTo(r))
  /\ at \in [0 .. Len(r.fields) -> Nat] /\ at[0] = MessageTo(r) + 2
  /\ \A k \in 1 .. Len(r.fields) :
       at[k] = at[k - 1] + LineLen(r.fields[k]) /\ LineShown(r.fields[k], at[k - 1])
  /\ Shown(Resp!EOL, at[Len(r.fields)])

LEMMA StandsIsShown ==
  ASSUME NEW s, NEW w, NEW n, Stands(s, w, n), buf \in Seq(Char), Len(w) \in Nat,
         \A j \in 1 .. Len(buf) : j <= Len(w) => buf[j] = w[j]
  PROVE  Shown(s, n)
<1>1. Len(buf) \in Nat /\ \A j \in 1 .. Len(buf) : Resp!At(j) = buf[j]
  BY TextIs
<1>2. ASSUME NEW i \in 1 .. Len(s), n + i <= Len(buf) PROVE Resp!At(n + i) = s[i]
  <2>1. n + i \in 1 .. Len(buf) /\ n + i <= Len(w) /\ w[n + i] = s[i]
    BY <1>1, <1>2 DEF Stands
  <2> QED BY <1>1, <2>1
<1> QED BY <1>2 DEF Shown, Stands

LEMMA ReceivedReads ==
  ASSUME NEW r, IsResponse(r), NEW at, Layout(r, Resp!Header(r), at), buf \in Seq(Char),
         Len(Resp!Header(r)) \in Nat,
         \A j \in 1 .. Len(buf) : j <= Len(Resp!Header(r)) => buf[j] = Resp!Header(r)[j]
  PROVE  Reads(r, at)
<1> DEFINE h == Resp!Header(r)
<1> HIDE DEF h
<1>1. \A s, n : Stands(s, h, n) => Shown(s, n)
  BY StandsIsShown DEF h
<1>2. \A f, n : LineStands(f, h, n) => LineShown(f, n)
  BY <1>1 DEF LineStands, LineShown
<1>3. Layout(r, h, at)
  BY DEF h
<1> QED BY <1>1, <1>2, <1>3 DEF Layout, Reads

LEMMA ReadsNumbers ==
  ASSUME NEW r, NEW at, Reads(r, at)
  PROVE  /\ Len(buf) \in Nat /\ Resp!End = Len(buf) + 1
         /\ Len(CodeText(r)) \in Nat \ {0} /\ Len(r.message) \in Nat
         /\ CodeTo(r) \in Nat /\ CodeTo(r) = 9 + Len(CodeText(r))
         /\ MessageTo(r) \in Nat /\ MessageTo(r) = CodeTo(r) + 1 + Len(r.message)
         /\ Len(r.fields) \in Nat
<1>1. Len(CodeText(r)) \in Nat \ {0} /\ Len(r.message) \in Nat
  <2>1. CodeText(r) \in Seq(48 .. 57) /\ CodeText(r) # <<>>
    BY DEF Reads, IsResponse
  <2>2. r.message \in Seq(Char \ {Resp!CR})
    BY DEF Reads, IsResponse
  <2> QED BY <2>1, <2>2, EmptySeq, LenProperties
<1>2. CodeTo(r) \in Nat /\ CodeTo(r) = 9 + Len(CodeText(r))
  <2>1. Len(CodeText(r)) \in Nat /\ \A x \in Nat : 9 + x \in Nat
    BY <1>1
  <2> QED BY <2>1, Zenon DEF CodeTo
<1>3. MessageTo(r) \in Nat /\ MessageTo(r) = CodeTo(r) + 1 + Len(r.message)
  <2>1. Len(r.message) \in Nat /\ \A x, y \in Nat : x + 1 + y \in Nat
    BY <1>1
  <2> QED BY <1>2, <2>1, Zenon DEF MessageTo
<1>4. /\ Len(buf) \in Nat /\ Resp!End = Len(buf) + 1 /\ Len(r.fields) \in Nat
  BY TextIs DEF Reads, IsResponse
<1> QED BY <1>1, <1>2, <1>3, <1>4

\* The lines follow one another.
LEMMA LinesFollow ==
  ASSUME NEW r, NEW at, Reads(r, at)
  PROVE  \A k \in 0 .. Len(r.fields) : \A j \in 0 .. k : at[j] \in Nat /\ at[j] <= at[k]
<1> DEFINE K == Len(r.fields)
           Good(k) == \A j \in 0 .. k : at[j] \in Nat /\ at[j] <= at[k]
           T == {k \in 0 .. K : ~Good(k)}
<1>1. K \in Nat /\ \A j \in 0 .. K : at[j] \in Nat
  BY ReadsNumbers DEF Reads
<1>2. \A k \in 1 .. K : at[k - 1] <= at[k]
  <2>1. SUFFICES ASSUME NEW k \in 1 .. K PROVE at[k - 1] <= at[k]
    OBVIOUS
  <2>2. at[k] = at[k - 1] + LineLen(r.fields[k]) /\ IsField(r.fields[k])
    BY DEF Reads, IsResponse
  <2>3. LineLen(r.fields[k]) \in Nat
    BY <2>2, LineLenTyped
  <2>4. at[k - 1] \in Nat
    BY <1>1
  <2> QED BY <2>2, <2>3, <2>4
<1>3. SUFFICES ASSUME T # {} PROVE FALSE
  OBVIOUS
<1>4. PICK m \in T : \A y \in T : m <= y
  <2>1. T \subseteq Nat
    BY <1>1
  <2> HIDE DEF T
  <2> QED BY <1>3, <2>1, Least, Zenon
<1>5. m \in 0 .. K /\ ~Good(m)
  BY <1>4
<1>6. m # 0
  BY <1>1, <1>5
<1>7. Good(m - 1)
  <2>1. m - 1 \in 0 .. K /\ ~(m <= m - 1)
    BY <1>1, <1>5, <1>6
  <2>2. m - 1 \notin T
    BY <1>4, <2>1
  <2> QED BY <2>1, <2>2
<1>8. Good(m)
  <2>1. m \in 1 .. K /\ m - 1 \in 0 .. K /\ at[m - 1] <= at[m] /\ at[m] \in Nat
    BY <1>1, <1>2, <1>5, <1>6
  <2>2. ASSUME NEW j \in 0 .. m PROVE at[j] \in Nat /\ at[j] <= at[m]
    <3>1. CASE j = m
      BY <2>1, <3>1
    <3>2. CASE j # m
      <4>1. j \in 0 .. m - 1
        BY <2>1, <3>2
      <4>2. at[j] \in Nat /\ at[j] <= at[m - 1] /\ at[m - 1] \in Nat
        BY <1>1, <1>7, <2>1, <4>1
      <4> QED BY <2>1, <4>2
    <3> QED BY <3>1, <3>2
  <2> QED BY <2>2
<1> QED BY <1>5, <1>8

\* Shown, counted in places of the text.
LEMMA ShownAt ==
  ASSUME NEW s, NEW n, Shown(s, n), NEW j \in Nat, n < j, j <= n + Len(s), j <= Len(buf),
         Len(buf) \in Nat
  PROVE  j - n \in 1 .. Len(s) /\ Resp!At(j) = s[j - n]
<1>1. n \in Nat /\ Len(s) \in Nat
  BY DEF Shown
<1> DEFINE l == Len(s)
<1>2. l \in Nat /\ j <= n + l
  BY <1>1
<1>3. j - n \in 1 .. l /\ n + (j - n) = j
  <2> HIDE DEF l
  <2> QED BY <1>1, <1>2
<1> QED BY <1>3 DEF Shown

\* The status line: the code ends at c, the reason phrase, which may be empty, at m.
StatusAt(c, m) ==
  /\ c \in Nat /\ m \in Nat /\ c >= 10 /\ m >= c + 1
  /\ \A k \in 1 .. 5 : k <= Len(buf) => Resp!At(k) = Resp!Protocol[k]
  /\ 6 <= Len(buf) => Resp!At(6) = 49
  /\ 7 <= Len(buf) => Resp!At(7) = 46
  /\ 8 <= Len(buf) => Resp!At(8) = 49
  /\ 9 <= Len(buf) => Resp!At(9) = 32
  /\ \A j \in 10 .. c : j <= Len(buf) => Resp!At(j) \in 48 .. 57
  /\ c + 1 <= Len(buf) => Resp!At(c + 1) = 32
  /\ c + 2 <= m /\ c + 2 <= Len(buf) => ~Resp!IsSpace(Resp!At(c + 2))
  /\ \A j \in c + 2 .. m : j <= Len(buf) => Resp!At(j) # 13
  /\ m + 1 <= Len(buf) => Resp!At(m + 1) = 13
  /\ m + 2 <= Len(buf) => Resp!At(m + 2) = 10

LEMMA StatusShown ==
  ASSUME NEW r, NEW at, Reads(r, at)
  PROVE  StatusAt(CodeTo(r), MessageTo(r))
<1> DEFINE c == CodeTo(r)
           m == MessageTo(r)
           l == Len(CodeText(r))
           n == Len(r.message)
           start == <<49, Resp!Dot, 49, Resp!Space>>
<1>1. /\ Len(buf) \in Nat /\ l \in Nat \ {0} /\ n \in Nat
      /\ c \in Nat /\ m \in Nat /\ c = 9 + l /\ m = c + 1 + n
  BY ReadsNumbers
<1>2. /\ CodeText(r) \in Seq(48 .. 57) /\ r.message \in Seq(Char \ {Resp!CR})
      /\ (r.message # <<>> => ~Resp!IsSpace(r.message[1]))
  BY DEF Reads, IsResponse
<1>3. /\ Shown(Resp!Protocol, 0) /\ Shown(start, 5) /\ Shown(CodeText(r), 9)
      /\ Shown(<<Resp!Space>>, c) /\ Shown(r.message, c + 1) /\ Shown(Resp!EOL, m)
  BY DEF Reads
<1>4. Len(Resp!Protocol) = 5
  BY DEF Resp!Protocol
<1>5. Len(start) = 4 /\ start[1] = 49 /\ start[2] = 46 /\ start[3] = 49 /\ start[4] = 32
  BY DEF Resp!Dot, Resp!Space
<1>6. \A i \in 1 .. l : CodeText(r)[i] \in 48 .. 57
  BY <1>2, ElementOfSeq
<1>7. \A i \in 1 .. n : r.message[i] # 13
  <2>1. \A i \in 1 .. n : r.message[i] \in Char \ {Resp!CR}
    BY <1>2, ElementOfSeq
  <2> QED BY <2>1 DEF Resp!CR
<1> HIDE DEF c, m, l, n, start
<1>8. \A k \in 1 .. 5 : k <= Len(buf) => Resp!At(k) = Resp!Protocol[k]
  <2>1. \A k \in 1 .. 5 : 0 + k <= Len(buf) => Resp!At(0 + k) = Resp!Protocol[k]
    BY <1>3, <1>4 DEF Shown
  <2> QED BY <1>1, <2>1
<1>9. /\ 6 <= Len(buf) => Resp!At(6) = 49
      /\ 7 <= Len(buf) => Resp!At(7) = 46
      /\ 8 <= Len(buf) => Resp!At(8) = 49
      /\ 9 <= Len(buf) => Resp!At(9) = 32
  <2>1. \A k \in 1 .. 4 : 5 + k <= Len(buf) => Resp!At(5 + k) = start[k]
    BY <1>3, <1>5 DEF Shown
  <2>2. /\ 5 + 1 = 6 /\ 5 + 2 = 7 /\ 5 + 3 = 8 /\ 5 + 4 = 9
    OBVIOUS
  <2>3. /\ 1 \in 1 .. 4 /\ 2 \in 1 .. 4 /\ 3 \in 1 .. 4 /\ 4 \in 1 .. 4
    OBVIOUS
  <2> QED BY <1>5, <2>1, <2>2, <2>3
<1>10. ASSUME NEW j \in 10 .. c, j <= Len(buf) PROVE Resp!At(j) \in 48 .. 57
  <2>1. j \in Nat /\ 9 < j /\ j <= 9 + l
    BY <1>1
  <2>2. j - 9 \in 1 .. l /\ Resp!At(j) = CodeText(r)[j - 9]
    BY <1>1, <1>3, <1>10, <2>1, ShownAt DEF l
  <2> QED BY <1>6, <2>2
<1>11. c + 1 <= Len(buf) => Resp!At(c + 1) = 32
  BY <1>3, EolIs DEF Shown
<1>12. ASSUME NEW j \in c + 2 .. m, j <= Len(buf)
       PROVE  Resp!At(j) # 13 /\ (j = c + 2 => ~Resp!IsSpace(Resp!At(j)))
  <2>1. j \in Nat /\ c + 1 < j /\ j <= c + 1 + n
    BY <1>1
  <2>2. j - (c + 1) \in 1 .. n /\ Resp!At(j) = r.message[j - (c + 1)]
    BY <1>1, <1>3, <1>12, <2>1, ShownAt DEF n
  <2>3. j = c + 2 => j - (c + 1) = 1
    BY <1>1
  <2>4. r.message # <<>>
    <3>1. n # 0
      BY <1>1, <2>2
    <3> QED BY <1>2, <3>1, EmptySeq DEF n
  <2> QED BY <1>2, <1>7, <2>2, <2>3, <2>4
<1>13. /\ m + 1 <= Len(buf) => Resp!At(m + 1) = 13
       /\ m + 2 <= Len(buf) => Resp!At(m + 2) = 10
  BY <1>3, EolIs DEF Shown
<1>14. c >= 10 /\ m >= c + 1 /\ (c + 2 <= m => c + 2 \in c + 2 .. m)
  BY <1>1
<1>15. StatusAt(c, m)
  BY <1>1, <1>8, <1>9, <1>10, <1>11, <1>12, <1>13, <1>14 DEF StatusAt
<1> QED BY <1>15 DEF c, m

\* The line of field f behind p characters: its name ends at a, the blanks at b, the blanks
\* behind the colon at d, the value at v.
FieldAt(f, p, a, b, d, v) ==
  /\ p \in Nat /\ a \in Nat /\ b \in Nat /\ d \in Nat /\ v \in Nat
  /\ p < a /\ a <= b /\ b + 1 <= d /\ d <= v
  /\ a = p + Len(f[1]) /\ v = d + Len(f[4])
  /\ \A j \in p + 1 .. a :
       j <= Len(buf) => Resp!At(j) = f[1][j - p] /\ Resp!At(j) \notin {58, 32, 13, 0}
  /\ \A j \in a + 1 .. b : j <= Len(buf) => Resp!At(j) = 32
  /\ b + 1 <= Len(buf) => Resp!At(b + 1) = 58
  /\ \A j \in b + 2 .. d : j <= Len(buf) => Resp!At(j) = 32
  /\ \A j \in d + 1 .. v : j <= Len(buf) => Resp!At(j) = f[4][j - d] /\ Resp!At(j) # 13
  /\ d + 1 <= v /\ d + 1 <= Len(buf) => Resp!At(d + 1) # 32
  /\ v + 1 <= Len(buf) => Resp!At(v + 1) = 13
  /\ v + 2 <= Len(buf) => Resp!At(v + 2) = 10

LEMMA FieldShown ==
  ASSUME NEW f, IsField(f), NEW p \in Nat, LineShown(f, p), Len(buf) \in Nat
  PROVE  \E a, b, d, v : FieldAt(f, p, a, b, d, v) /\ v + 2 = p + LineLen(f)
<1> DEFINE l == Len(f[1])
           m == Len(f[2])
           n == Len(f[3])
           o == Len(f[4])
<1>1. l \in Nat \ {0} /\ m \in Nat /\ n \in Nat /\ o \in Nat
  BY FieldTyped
<1>2. /\ Shown(f[1], p) /\ Shown(f[2], p + l) /\ Shown(<<Resp!Colon>>, p + l + m)
      /\ Shown(f[3], p + l + m + 1) /\ Shown(f[4], p + l + m + 1 + n)
      /\ Shown(Resp!EOL, p + l + m + 1 + n + o)
  BY DEF LineShown
<1>3. LineLen(f) = l + m + 1 + n + o + 2
  BY DEF LineLen
<1>4. /\ \A i \in 1 .. l : f[1][i] \notin {58, 32, 13, 0}
      /\ \A i \in 1 .. m : f[2][i] = 32
      /\ \A i \in 1 .. n : f[3][i] = 32
      /\ \A i \in 1 .. o : f[4][i] # 13
      /\ 1 <= o => f[4][1] # 32
  <2>1. /\ f[1] \in Seq(Char \ {58, 32, 13, 0}) /\ f[2] \in Seq({32}) /\ f[3] \in Seq({32})
        /\ f[4] \in Seq(Char \ {13}) /\ (f[4] # <<>> => f[4][1] # 32)
    BY DEF IsField, Resp!Colon, Resp!Space, Resp!CR, Resp!Nul
  <2>2. 1 <= o => f[4] # <<>>
    BY EmptySeq
  <2>3. \A i \in 1 .. l : f[1][i] \in Char \ {58, 32, 13, 0}
    BY <2>1, ElementOfSeq
  <2>4. (\A i \in 1 .. m : f[2][i] \in {32}) /\ (\A i \in 1 .. n : f[3][i] \in {32})
    BY <2>1, ElementOfSeq
  <2>5. \A i \in 1 .. o : f[4][i] \in Char \ {13}
    BY <2>1, ElementOfSeq
  <2> QED BY <2>1, <2>2, <2>3, <2>4, <2>5
<1> DEFINE a == p + l
           b == a + m
           d == b + 1 + n
           v == d + o
<1> HIDE DEF l, m, n, o
<1>5. /\ a \in Nat /\ b \in Nat /\ d \in Nat /\ v \in Nat
      /\ p < a /\ a <= b /\ b + 1 <= d /\ d <= v /\ a = p + l /\ v = d + o
      /\ v + 2 = p + (l + m + 1 + n + o + 2)
      /\ a + m = b /\ b + 1 + n = d
  BY <1>1
<1>6. /\ Shown(f[1], p) /\ Shown(f[2], a) /\ Shown(<<Resp!Colon>>, b)
      /\ Shown(f[3], b + 1) /\ Shown(f[4], d) /\ Shown(Resp!EOL, v)
  BY <1>2
<1> HIDE DEF a, b, d, v
<1>7. ASSUME NEW j \in p + 1 .. a, j <= Len(buf)
      PROVE  Resp!At(j) = f[1][j - p] /\ Resp!At(j) \notin {58, 32, 13, 0}
  <2>1. j \in Nat /\ p < j /\ j <= p + l
    BY <1>5
  <2>2. j - p \in 1 .. l /\ Resp!At(j) = f[1][j - p]
    BY <1>6, <1>7, <2>1, ShownAt DEF l
  <2> QED BY <1>4, <2>2
<1>8. ASSUME NEW j \in a + 1 .. b, j <= Len(buf) PROVE Resp!At(j) = 32
  <2>1. j \in Nat /\ a < j /\ j <= a + m
    BY <1>5
  <2>2. j - a \in 1 .. m /\ Resp!At(j) = f[2][j - a]
    BY <1>6, <1>8, <2>1, ShownAt DEF m
  <2> QED BY <1>4, <2>2
<1>9. b + 1 <= Len(buf) => Resp!At(b + 1) = 58
  BY <1>6, EolIs, SMTT(30) DEF Shown
<1>10. ASSUME NEW j \in b + 2 .. d, j <= Len(buf) PROVE Resp!At(j) = 32
  <2>1. j \in Nat /\ b + 1 < j /\ j <= b + 1 + n
    BY <1>5
  <2>2. j - (b + 1) \in 1 .. n /\ Resp!At(j) = f[3][j - (b + 1)]
    BY <1>6, <1>10, <2>1, ShownAt DEF n
  <2> QED BY <1>4, <2>2
<1>11. ASSUME NEW j \in d + 1 .. v, j <= Len(buf)
       PROVE  Resp!At(j) = f[4][j - d] /\ Resp!At(j) # 13 /\ (j = d + 1 => Resp!At(j) # 32)
  <2>1. j \in Nat /\ d < j /\ j <= d + o
    BY <1>5
  <2>2. j - d \in 1 .. o /\ Resp!At(j) = f[4][j - d]
    BY <1>6, <1>11, <2>1, ShownAt DEF o
  <2>3. j = d + 1 => j - d = 1
    BY <1>5
  <2>4. 1 <= o
    BY <1>1, <2>2
  <2> QED BY <1>4, <2>2, <2>3, <2>4
<1>12. /\ v + 1 <= Len(buf) => Resp!At(v + 1) = 13
       /\ v + 2 <= Len(buf) => Resp!At(v + 2) = 10
  BY <1>6, EolIs DEF Shown
<1>13. d + 1 <= v => d + 1 \in d + 1 .. v
  BY <1>5
<1>14. FieldAt(f, p, a, b, d, v)
  <2>1. a = p + Len(f[1]) /\ v = d + Len(f[4])
    BY <1>5 DEF l, o
  <2> QED BY <1>5, <1>7, <1>8, <1>9, <1>10, <1>11, <1>12, <1>13, <2>1 DEF FieldAt
<1> QED BY <1>3, <1>5, <1>14

-------------------------------------------------------------------------------
(* parse_status_line() *)

\* A part of the text that was received is what was sent.
LEMMA TextShown ==
  ASSUME buf \in Seq(Char), NEW s \in Seq(Char), NEW n, Shown(s, n), NEW l, l = n + Len(s),
         l <= Len(buf)
  PROVE  Resp!Text(n + 1, l + 1) = s
<1>1. Len(buf) \in Nat /\ \A j \in 1 .. Len(buf) : Resp!At(j) = buf[j] /\ buf[j] \in Char
  BY TextIs
<1>2. n \in Nat /\ Len(s) \in Nat
  BY DEF Shown
<1> DEFINE m == Len(s)
           t == SubSeq(buf, n + 1, l)
<1>3. m \in Nat /\ l = n + m /\ l \in Nat /\ l + 1 - 1 = l
  <2>1. m \in Nat
    BY <1>2
  <2> HIDE DEF m
  <2>2. l = n + m
    BY DEF m
  <2> QED BY <1>2, <2>1, <2>2
<1> HIDE DEF m
<1>4. \A i \in n + 1 .. l : buf[i] \in Char
  BY <1>1, <1>2, <1>3
<1>5. /\ t \in Seq(Char) /\ Len(t) = IF n + 1 <= l THEN l - (n + 1) + 1 ELSE 0
      /\ \A i \in 1 .. l - (n + 1) + 1 : t[i] = buf[n + 1 + i - 1]
  <2>1. n + 1 \in Int /\ l \in Int
    BY <1>2, <1>3
  <2> QED BY <1>4, <2>1, SubSeqProperties
<1>6. Len(t) = m
  BY <1>2, <1>3, <1>5
<1>7. ASSUME NEW i \in 1 .. m PROVE t[i] = s[i]
  <2>1. i \in 1 .. l - (n + 1) + 1 /\ n + 1 + i - 1 = n + i /\ n + i \in 1 .. Len(buf)
    BY <1>1, <1>2, <1>3
  <2>2. t[i] = buf[n + i]
    BY <1>5, <2>1
  <2> QED BY <1>1, <2>1, <2>2 DEF Shown, m
<1>8. t = s
  BY <1>5, <1>6, <1>7, SeqEqual DEF m
<1>9. Resp!Text(n + 1, l + 1) = t
  <2>1. Resp!Text(n + 1, l + 1) = SubSeq(buf, n + 1, (l + 1) - 1)
    BY Zenon DEF Resp!Text
  <2>2. (l + 1) - 1 = l
    BY <1>3
  <2> QED BY <2>1, <2>2, Zenon
<1> QED BY <1>8, <1>9

LEMMA StatusPlaces ==
  ASSUME buf \in Seq(Char), NEW c, NEW m, StatusAt(c, m), m + 1 <= Len(buf)
  PROVE  /\ Resp!DotAt = 7 /\ Resp!CodeAt = 10 /\ Resp!CodeEnd = c + 1
         /\ Resp!MessageEnd = m + 1 /\ Resp!MessageAt = c + 2
<1>1. /\ Len(buf) \in Nat /\ Resp!End = Len(buf) + 1
      /\ \A j \in 1 .. Len(buf) : Resp!At(j) \in Char
  BY TextIs
<1>2. /\ c \in Nat /\ m \in Nat /\ c >= 10 /\ m >= c + 1 /\ m + 2 <= Resp!End
  BY <1>1 DEF StatusAt
<1>3. Resp!DotAt = 7
  <2>1. Len(Resp!Protocol) = 5 /\ 1 + 5 < Resp!End
    BY <1>1, <1>2 DEF Resp!Protocol
  <2> QED BY <2>1 DEF Resp!DotAt
<1>4. Resp!CodeAt = 10
  <2>1. Resp!CodeAt = Resp!SkipTo(9, Resp!IsSpace)
    BY <1>1, <1>2, <1>3 DEF Resp!CodeAt
  <2>2. Resp!At(9) = 32 /\ Resp!At(10) \in 48 .. 57
    <3>1. /\ 9 <= Len(buf) => Resp!At(9) = 32
          /\ \A j \in 10 .. c : j <= Len(buf) => Resp!At(j) \in 48 .. 57
      BY DEF StatusAt
    <3>2. 9 <= Len(buf) /\ 10 <= Len(buf) /\ 10 \in 10 .. c
      BY <1>1, <1>2
    <3> QED BY <3>1, <3>2
  <2>3. Resp!At(9) \notin NonSpace /\ Resp!At(10) \in NonSpace
    BY <2>2 DEF NonSpace, Resp!IsSpace, Resp!Space, Char
  <2>4. FirstIn(10, 9, NonSpace)
    <3>1. 10 \in 9 .. Resp!End /\ 9 .. 10 - 1 = {9}
      BY <1>1, <1>2
    <3> QED BY <2>3, <3>1 DEF FirstIn
  <2>5. FirstIn(Resp!CodeAt, 9, NonSpace)
    BY <1>1, <1>2, <2>1, SkipSpaces
  <2> QED BY <2>4, <2>5, FirstIsUnique
<1>5. Resp!CodeEnd = c + 1
  <2>1. FirstIn(Resp!CodeEnd, 10, NonDigit)
    BY <1>1, <1>2, <1>4, SkipDigits DEF Resp!CodeEnd
  <2>2. \A j \in 10 .. c : Resp!At(j) \notin NonDigit
    <3>1. \A j \in 10 .. c : Resp!At(j) \in 48 .. 57
      BY <1>1, <1>2 DEF StatusAt
    <3> QED BY <3>1 DEF NonDigit, Resp!IsDigit
  <2>3. Resp!At(c + 1) \in NonDigit
    <3>1. Resp!At(c + 1) = 32
      BY <1>1, <1>2 DEF StatusAt
    <3> QED BY <3>1 DEF NonDigit, Resp!IsDigit, Char
  <2>4. FirstIn(c + 1, 10, NonDigit)
    <3>1. 10 <= c + 1 /\ c + 1 <= Resp!End
      BY <1>1, <1>2
    <3> QED BY <1>2, <2>2, <2>3, <3>1, FirstAt
  <2> QED BY <2>1, <2>4, FirstIsUnique
<1>6. Resp!MessageEnd = m + 1
  <2>1. FirstIn(Resp!MessageEnd, c + 1, {13})
    <3>1. c + 1 \in Nat \ {0} /\ c + 1 <= Resp!End
      BY <1>1, <1>2
    <3> QED BY <1>5, <3>1, FindIsFirst DEF Resp!MessageEnd, Resp!CR
  <2>2. FirstIn(m + 1, c + 1, {13})
    <3>1. c + 1 \in Nat /\ c + 1 <= m + 1 /\ m + 1 <= Resp!End
      BY <1>1, <1>2
    <3>2. Resp!At(m + 1) = 13 /\ Resp!At(c + 1) = 32
      BY <1>1, <1>2 DEF StatusAt
    <3>3. \A j \in c + 1 .. m : Resp!At(j) # 13
      <4>1. \A j \in c + 2 .. m : Resp!At(j) # 13
        BY <1>1, <1>2 DEF StatusAt
      <4>2. \A j \in c + 1 .. m : j = c + 1 \/ j \in c + 2 .. m
        BY <1>2
      <4> QED BY <3>2, <4>1, <4>2
    <3> QED BY <1>2, <3>1, <3>2, <3>3, FirstAt
  <2> QED BY <1>2, <2>1, <2>2, FirstIsUnique
<1>7. Resp!MessageAt = c + 2
  <2>1. FirstIn(Resp!SkipTo(c + 1, Resp!IsSpace), c + 1, NonSpace)
    <3>1. c + 1 \in Nat \ {0} /\ c + 1 <= Resp!End
      BY <1>1, <1>2
    <3> QED BY <3>1, SkipSpaces
  <2> DEFINE n == Resp!SkipTo(c + 1, Resp!IsSpace)
  <2>2. Resp!At(c + 1) = 32 /\ Resp!At(c + 1) \notin NonSpace
    <3>1. Resp!At(c + 1) = 32
      BY <1>1, <1>2 DEF StatusAt
    <3> QED BY <3>1 DEF NonSpace, Resp!IsSpace, Resp!Space
  <2>3. CASE m # c + 1
    <3>1. Resp!At(c + 2) \in NonSpace
      <4>1. ~Resp!IsSpace(Resp!At(c + 2)) /\ Resp!At(c + 2) \in Char
        BY <1>1, <1>2, <2>3 DEF StatusAt
      <4> QED BY <4>1 DEF NonSpace
    <3>2. /\ c + 1 \in Nat /\ c + 1 <= c + 1 + 1 /\ c + 1 + 1 <= Resp!End /\ c + 1 + 1 = c + 2
          /\ \A i \in c + 1 .. c + 1 : i = c + 1
      BY <1>1, <1>2
    <3>3. FirstIn(c + 1 + 1, c + 1, NonSpace)
      BY <2>2, <3>1, <3>2, FirstAt
    <3>4. n = c + 2
      BY <2>1, <3>2, <3>3, FirstIsUnique
    <3> HIDE DEF n
    <3> QED BY <1>2, <1>5, <1>6, <2>3, <3>4 DEF Resp!MessageAt, n
  <2>4. CASE m = c + 1
    <3>1. Resp!At(c + 2) = 13 /\ Resp!At(c + 2) \notin NonSpace
      <4>1. Resp!At(m + 1) = 13 /\ m + 1 = c + 2
        BY <1>2, <2>4 DEF StatusAt
      <4> QED BY <4>1 DEF NonSpace, Resp!IsSpace
    <3>2. n \in c + 1 .. Resp!End /\ (n = Resp!End \/ Resp!At(n) \in NonSpace)
      BY <2>1 DEF FirstIn
    <3> HIDE DEF n
    <3>3. n > c + 2
      BY <1>1, <1>2, <2>2, <2>4, <3>1, <3>2
    <3>4. Resp!MessageEnd = c + 2 /\ n > Resp!MessageEnd
      BY <1>2, <1>6, <2>4, <3>3
    <3> QED BY <1>5, <3>4 DEF Resp!MessageAt, n
  <2> QED BY <2>3, <2>4
<1> QED BY <1>3, <1>4, <1>5, <1>6, <1>7

\* The status line is read when it was received, with its end, unless its reason phrase is
\* empty or a Nul follows.
LEMMA WholeStatusIsValid ==
  ASSUME buf \in Seq(Char), NEW c, NEW m, StatusAt(c, m), m + 2 <= Len(buf),
         m + 3 <= Len(buf) => Resp!At(m + 3) # 0
  PROVE  /\ Resp!CodeEnd # Resp!End
         /\ ~Resp!RunsOn(1, Resp!Protocol) /\ ~Resp!RunsOn(Resp!DotAt, <<Resp!Dot>>)
         /\ ~Resp!RunsOn(Resp!MessageEnd, Resp!EOL)
         /\ m # c + 1 => Resp!StatusLineIsValid
<1>1. /\ Len(buf) \in Nat /\ Resp!End = Len(buf) + 1
      /\ \A j \in 1 .. Len(buf) : Resp!At(j) = buf[j]
  BY TextIs
<1>2. c \in Nat /\ m \in Nat /\ c >= 10 /\ m >= c + 1 /\ m + 1 <= Len(buf)
  BY <1>1 DEF StatusAt
<1>3. /\ Resp!DotAt = 7 /\ Resp!CodeAt = 10 /\ Resp!CodeEnd = c + 1
      /\ Resp!MessageEnd = m + 1 /\ Resp!MessageAt = c + 2
  BY <1>2, StatusPlaces
<1>4. Resp!Shows(1, Resp!Protocol) /\ ~Resp!RunsOn(1, Resp!Protocol)
  <2>1. DOMAIN Resp!Protocol = 1 .. 5 /\ Len(Resp!Protocol) = 5 /\ \A k \in 1 .. 5 : 1 + k - 1 = k
    BY DEF Resp!Protocol
  <2>2. \A k \in 1 .. 5 : Resp!At(k) = Resp!Protocol[k]
    BY <1>1, <1>2 DEF StatusAt
  <2>3. 6 \in 1 .. Len(buf) /\ buf[6] = 49 /\ 1 + 5 = 6
    BY <1>1, <1>2 DEF StatusAt
  <2> QED BY <2>1, <2>2, <2>3 DEF Resp!Shows, Resp!RunsOn, Resp!Nul
<1>5. Resp!Shows(Resp!DotAt, <<Resp!Dot>>) /\ ~Resp!RunsOn(Resp!DotAt, <<Resp!Dot>>)
  <2>1. Resp!At(7) = 46
    BY <1>1, <1>2 DEF StatusAt
  <2>2. 8 \in 1 .. Len(buf) /\ buf[8] = 49 /\ 7 + 1 = 8 /\ Len(<<Resp!Dot>>) = 1
    BY <1>1, <1>2 DEF StatusAt
  <2> QED BY <1>3, <2>1, <2>2 DEF Resp!Shows, Resp!RunsOn, Resp!Dot, Resp!Nul
<1>6. Resp!Shows(Resp!MessageEnd, Resp!EOL) /\ ~Resp!RunsOn(Resp!MessageEnd, Resp!EOL)
  <2>1. Resp!At(m + 1) = 13 /\ Resp!At(m + 2) = 10
    BY <1>2 DEF StatusAt
  <2>2. m + 1 + 1 - 1 = m + 1 /\ m + 1 + 2 - 1 = m + 2 /\ m + 1 + 2 = m + 3
    BY <1>2
  <2>3. \A k \in DOMAIN Resp!EOL : k = 1 \/ k = 2
    BY DEF Resp!EOL
  <2>4. m + 3 \in DOMAIN buf => buf[m + 3] # 0
    <3>1. DOMAIN buf = 1 .. Len(buf)
      BY LenProperties
    <3> QED BY <1>1, <1>2, <3>1
  <2>5. Resp!Shows(Resp!MessageEnd, Resp!EOL)
    BY <1>3, <2>1, <2>2, <2>3, EolIs DEF Resp!Shows
  <2>6. Resp!MessageEnd + Len(Resp!EOL) = m + 3
    BY <1>3, <2>2, EolIs
  <2> QED BY <2>4, <2>5, <2>6 DEF Resp!RunsOn, Resp!Nul
<1>7. /\ Resp!CodeEnd > Resp!CodeAt /\ Resp!MessageEnd < Resp!End
      /\ m # c + 1 => Resp!MessageAt < Resp!MessageEnd
  BY <1>1, <1>2, <1>3
<1>8. Resp!CodeEnd # Resp!End
  BY <1>1, <1>2, <1>3
<1> QED BY <1>4, <1>5, <1>6, <1>7, <1>8
           DEF Resp!StatusLineIsValid, Resp!MessageIsValid, Resp!Expects

\* What is not a Nul is in the text.
LEMMA InText ==
  ASSUME buf \in Seq(Char), NEW j, Resp!At(j) # 0
  PROVE  j \in 1 .. Len(buf)
BY TextIs

\* It is not read before.
LEMMA ValidStatusIsWhole ==
  ASSUME buf \in Seq(Char), NEW c, NEW m, StatusAt(c, m), Resp!StatusLineIsValid
  PROVE  m + 2 <= Len(buf) /\ m # c + 1
<1>1. Len(buf) \in Nat /\ Resp!End = Len(buf) + 1
  BY TextIs
<1>2. c \in Nat /\ m \in Nat /\ c >= 10 /\ m >= c + 1
  BY DEF StatusAt
<1>3. 5 <= Len(buf)
  <2>1. Resp!At(1 + 5 - 1) = 47
    BY DEF Resp!StatusLineIsValid, Resp!MessageIsValid, Resp!Expects, Resp!Shows, Resp!Protocol
  <2>2. Resp!At(5) # 0
    BY <2>1
  <2> QED BY <1>1, <2>2, InText
<1>4. Resp!DotAt = IF 6 < Resp!End THEN 7 ELSE 6
  BY DEF Resp!DotAt, Resp!Protocol
<1>5. Resp!At(Resp!DotAt) # 0
  BY <1>4 DEF Resp!StatusLineIsValid, Resp!MessageIsValid, Resp!Expects, Resp!Shows, Resp!Dot
<1>6. Resp!DotAt = 7 /\ 7 <= Len(buf)
  <2>1. Resp!DotAt \in 1 .. Len(buf)
    BY <1>5, InText
  <2> QED BY <1>1, <1>4, <2>1
<1>7. Resp!CodeAt \in 8 .. Resp!End
  <2> DEFINE j == IF Resp!DotAt + 1 < Resp!End THEN Resp!DotAt + 2 ELSE Resp!DotAt + 1
  <2>1. j \in 8 .. 9 /\ j <= Resp!End
    BY <1>1, <1>6
  <2>2. Resp!CodeAt = Resp!SkipTo(j, Resp!IsSpace)
    BY DEF Resp!CodeAt
  <2> HIDE DEF j
  <2>3. FirstIn(Resp!CodeAt, j, NonSpace)
    BY <2>1, <2>2, SkipSpaces
  <2> QED BY <1>1, <2>1, <2>3 DEF FirstIn
<1>8. Resp!CodeEnd \in 8 .. Resp!End
  <2>1. FirstIn(Resp!CodeEnd, Resp!CodeAt, NonDigit)
    BY <1>1, <1>7, SkipDigits DEF Resp!CodeEnd
  <2> QED BY <1>1, <1>7, <2>1 DEF FirstIn
<1>9. Resp!MessageEnd \in 8 .. Len(buf) /\ Resp!At(Resp!MessageEnd) = 13
  <2>1. FirstIn(Resp!MessageEnd, Resp!CodeEnd, {13})
    BY <1>1, <1>8, FindIsFirst DEF Resp!MessageEnd, Resp!CR
  <2>2. Resp!MessageEnd < Resp!End
    BY DEF Resp!StatusLineIsValid, Resp!MessageIsValid
  <2> QED BY <1>1, <1>8, <2>1, <2>2 DEF FirstIn
<1>10. ~(Resp!MessageEnd <= m)
  <2>1. SUFFICES ASSUME Resp!MessageEnd <= m PROVE FALSE
    OBVIOUS
  <2> DEFINE e == Resp!MessageEnd
  <2>2. e \in 8 .. 9 \/ e \in 10 .. c \/ e = c + 1 \/ e \in c + 2 .. m
    BY <1>2, <1>9, <2>1
  <2>3. e <= Len(buf) /\ Resp!At(e) = 13
    BY <1>9
  <2> HIDE DEF e
  <2>4. e \notin 8 .. 9
    <3>1. e \in 8 .. 9 => e = 8 \/ e = 9
      OBVIOUS
    <3>2. (8 <= Len(buf) => Resp!At(8) = 49) /\ (9 <= Len(buf) => Resp!At(9) = 32)
      BY DEF StatusAt
    <3>3. e # 8
      BY <2>3, <3>2
    <3>4. e # 9
      BY <2>3, <3>2
    <3> QED BY <3>1, <3>3, <3>4
  <2>5. e \notin 10 .. c
    <3>1. \A j \in 10 .. c : j <= Len(buf) => Resp!At(j) \in 48 .. 57
      BY DEF StatusAt
    <3>2. 13 \notin 48 .. 57
      OBVIOUS
    <3> QED BY <2>3, <3>1, <3>2, Zenon
  <2>6. e # c + 1 /\ e \notin c + 2 .. m
    <3>1. c + 1 <= Len(buf) => Resp!At(c + 1) = 32
      BY DEF StatusAt
    <3>2. \A j \in c + 2 .. m : j <= Len(buf) => Resp!At(j) # 13
      BY DEF StatusAt
    <3> QED BY <2>3, <3>1, <3>2
  <2> QED BY <2>2, <2>4, <2>5, <2>6
<1>11. m + 1 <= Len(buf)
  BY <1>1, <1>2, <1>9, <1>10
<1>12. Resp!MessageEnd = m + 1 /\ Resp!MessageAt = c + 2
  BY <1>11, StatusPlaces
<1>13. Resp!At(m + 1 + 2 - 1) = 10
  BY <1>12 DEF Resp!StatusLineIsValid, Resp!MessageIsValid, Resp!Expects, Resp!Shows, Resp!EOL, Resp!LF
<1>14. m + 1 + 2 - 1 = m + 2
  BY <1>2
<1>15. m # c + 1
  BY <1>2, <1>12 DEF Resp!StatusLineIsValid, Resp!MessageIsValid
<1> QED BY <1>13, <1>14, <1>15, InText

-------------------------------------------------------------------------------
(* parse_headers() *)

KeyEnds == {58, 32, 13, 0}

LEMMA KeyEndIsFirst ==
  ASSUME buf \in Seq(Char), it \in Nat \ {0}, it <= Resp!End
  PROVE  FirstIn(Resp!KeyEnd, it, KeyEnds)
<1>1. Resp!KeyEnd = Resp!Find(it, KeyEnds)
  BY DEF Resp!KeyEnd, KeyEnds, Resp!Colon, Resp!Space, Resp!CR, Resp!Nul
<1> QED BY <1>1, FindIsFirst

LEMMA FieldPlaces ==
  ASSUME buf \in Seq(Char), NEW f, NEW p, NEW a, NEW b, NEW d, NEW v, FieldAt(f, p, a, b, d, v),
         it = p + 1, v + 1 <= Len(buf)
  PROVE  /\ Resp!KeyEnd = a + 1 /\ Resp!ColonAt = b + 1
         /\ Resp!ValueAt = d + 1 /\ Resp!ValueEnd = v + 1
<1>1. /\ Len(buf) \in Nat /\ Resp!End = Len(buf) + 1
      /\ \A j \in 1 .. Len(buf) : Resp!At(j) \in Char
  BY TextIs
<1>2. /\ p \in Nat /\ a \in Nat /\ b \in Nat /\ d \in Nat /\ v \in Nat
      /\ p < a /\ a <= b /\ b + 1 <= d /\ d <= v
  BY DEF FieldAt
<1>3. Resp!KeyEnd = a + 1
  <2>1. FirstIn(Resp!KeyEnd, p + 1, KeyEnds)
    BY <1>1, <1>2, KeyEndIsFirst
  <2>2. \A j \in p + 1 .. a : Resp!At(j) \notin KeyEnds
    <3>1. \A j \in p + 1 .. a : j <= Len(buf)
      BY <1>1, <1>2
    <3> QED BY <3>1 DEF FieldAt, KeyEnds
  <2>3. Resp!At(a + 1) \in KeyEnds
    <3>1. CASE a = b
      <4>1. Resp!At(b + 1) = 58
        BY <1>1, <1>2 DEF FieldAt
      <4> QED BY <3>1, <4>1 DEF KeyEnds
    <3>2. CASE a # b
      <4>1. a + 1 \in a + 1 .. b /\ a + 1 <= Len(buf)
        BY <1>1, <1>2, <3>2
      <4>2. \A j \in a + 1 .. b : j <= Len(buf) => Resp!At(j) = 32
        BY DEF FieldAt
      <4> QED BY <4>1, <4>2 DEF KeyEnds
    <3> QED BY <3>1, <3>2
  <2>4. p + 1 \in Nat /\ p + 1 <= a + 1 /\ a + 1 <= Resp!End
    BY <1>1, <1>2
  <2>5. FirstIn(a + 1, p + 1, KeyEnds)
    BY <1>2, <2>2, <2>3, <2>4, FirstAt
  <2> QED BY <2>1, <2>4, <2>5, FirstIsUnique
<1>4. Resp!ColonAt = b + 1
  <2>1. a + 1 \in Nat \ {0} /\ a + 1 <= Resp!End /\ a + 1 <= b + 1 /\ b + 1 <= Resp!End
    BY <1>1, <1>2
  <2>2. FirstIn(Resp!ColonAt, a + 1, NonSpace)
    <3>1. Resp!ColonAt = Resp!SkipTo(a + 1, Resp!IsSpace)
      BY <1>3 DEF Resp!ColonAt
    <3> QED BY <2>1, <3>1, SkipSpaces
  <2>3. \A j \in a + 1 .. b : Resp!At(j) \notin NonSpace
    <3>1. \A j \in a + 1 .. b : j <= Len(buf)
      BY <1>1, <1>2
    <3>2. \A j \in a + 1 .. b : Resp!At(j) = 32
      BY <3>1 DEF FieldAt
    <3> QED BY <3>2 DEF NonSpace, Resp!IsSpace, Resp!Space
  <2>4. Resp!At(b + 1) \in NonSpace
    <3>1. Resp!At(b + 1) = 58
      BY <1>1, <1>2 DEF FieldAt
    <3> QED BY <3>1 DEF NonSpace, Resp!IsSpace, Resp!Space, Char
  <2>5. FirstIn(b + 1, a + 1, NonSpace)
    BY <1>2, <2>1, <2>3, <2>4, FirstAt
  <2> QED BY <2>1, <2>2, <2>5, FirstIsUnique
<1>5. Resp!ValueAt = d + 1
  <2>1. b + 2 \in Nat \ {0} /\ b + 2 <= Resp!End /\ b + 2 <= d + 1 /\ d + 1 <= Resp!End
    BY <1>1, <1>2
  <2>2. FirstIn(Resp!ValueAt, b + 2, NonBlank)
    <3>1. Resp!ValueAt = Resp!SkipTo(b + 2, Resp!IsBlank)
      <4>1. b + 1 + 1 = b + 2
        BY <1>2
      <4> QED BY <1>4, <4>1 DEF Resp!ValueAt
    <3> QED BY <2>1, <3>1, SkipBlanks
  <2>3. \A j \in b + 2 .. d : Resp!At(j) \notin NonBlank
    <3>1. \A j \in b + 2 .. d : j <= Len(buf)
      BY <1>1, <1>2
    <3>2. \A j \in b + 2 .. d : Resp!At(j) = 32
      BY <3>1 DEF FieldAt
    <3> QED BY <3>2 DEF NonBlank, Resp!IsBlank, Resp!Space
  <2>4. Resp!At(d + 1) \in NonBlank
    <3>1. Resp!At(d + 1) # 32
      <4>1. CASE d = v
        <5>1. Resp!At(v + 1) = 13
          BY DEF FieldAt
        <5> QED BY <4>1, <5>1
      <4>2. CASE d # v
        <5>1. d + 1 <= v /\ d + 1 <= Len(buf)
          BY <1>1, <1>2, <4>2
        <5> QED BY <5>1 DEF FieldAt
      <4> QED BY <4>1, <4>2
    <3>2. d + 1 \in 1 .. Len(buf)
      BY <1>1, <1>2
    <3> QED BY <1>1, <3>1, <3>2 DEF NonBlank, Resp!IsBlank, Resp!Space
  <2>5. FirstIn(d + 1, b + 2, NonBlank)
    BY <1>2, <2>1, <2>3, <2>4, FirstAt
  <2> QED BY <2>1, <2>2, <2>5, FirstIsUnique
<1>6. Resp!ValueEnd = v + 1
  <2>1. d + 1 \in Nat \ {0} /\ d + 1 <= Resp!End /\ d + 1 <= v + 1 /\ v + 1 <= Resp!End
    BY <1>1, <1>2
  <2>2. FirstIn(Resp!ValueEnd, d + 1, {13})
    BY <1>5, <2>1, FindIsFirst DEF Resp!ValueEnd, Resp!CR
  <2>3. \A j \in d + 1 .. v : Resp!At(j) \notin {13}
    <3>1. \A j \in d + 1 .. v : j <= Len(buf)
      BY <1>1, <1>2
    <3> QED BY <3>1 DEF FieldAt
  <2>4. Resp!At(v + 1) \in {13}
    BY DEF FieldAt
  <2>5. FirstIn(v + 1, d + 1, {13})
    BY <1>2, <2>1, <2>3, <2>4, FirstAt
  <2> QED BY <2>1, <2>2, <2>5, FirstIsUnique
<1> QED BY <1>3, <1>4, <1>5, <1>6

\* A field is read when its line was received, with its end.
LEMMA WholeFieldIsValid ==
  ASSUME buf \in Seq(Char), NEW f, NEW p, NEW a, NEW b, NEW d, NEW v, FieldAt(f, p, a, b, d, v),
         it = p + 1, v + 2 <= Len(buf)
  PROVE  /\ it < Resp!KeyEnd /\ Resp!FieldIsValid
         /\ Resp!ColonAt # Resp!End /\ ~(Resp!ValueEnd + 1 >= Resp!End)
<1>1. Len(buf) \in Nat /\ Resp!End = Len(buf) + 1
  BY TextIs
<1>2. /\ p \in Nat /\ a \in Nat /\ b \in Nat /\ d \in Nat /\ v \in Nat
      /\ p < a /\ a <= b /\ b + 1 <= d /\ d <= v
  BY DEF FieldAt
<1>3. /\ Resp!KeyEnd = a + 1 /\ Resp!ColonAt = b + 1 /\ Resp!ValueEnd = v + 1
  <2>1. v + 1 <= Len(buf)
    BY <1>1, <1>2
  <2> QED BY <2>1, FieldPlaces
<1>4. Resp!At(b + 1) = 58 /\ Resp!At(v + 1) = 13 /\ Resp!At(v + 2) = 10
  <2>1. b + 1 <= Len(buf) /\ v + 1 <= Len(buf)
    BY <1>1, <1>2
  <2> QED BY <2>1 DEF FieldAt
<1>5. Resp!Shows(Resp!ValueEnd, Resp!EOL)
  <2>1. v + 1 + 1 - 1 = v + 1 /\ v + 1 + 2 - 1 = v + 2
    BY <1>2
  <2>2. \A k \in DOMAIN Resp!EOL : k = 1 \/ k = 2
    BY DEF Resp!EOL
  <2> QED BY <1>3, <1>4, <2>1, <2>2, EolIs DEF Resp!Shows
<1>6. Resp!FieldIsValid
  BY <1>3, <1>4, <1>5 DEF Resp!FieldIsValid, Resp!FieldEnds, Resp!Colon
<1>7. it < Resp!KeyEnd /\ Resp!ColonAt # Resp!End /\ ~(Resp!ValueEnd + 1 >= Resp!End)
  BY <1>1, <1>2, <1>3
<1> QED BY <1>6, <1>7

\* There is no CR in the line of a field before its end.
LEMMA NoBreakInField ==
  ASSUME NEW f, NEW p, NEW a, NEW b, NEW d, NEW v, FieldAt(f, p, a, b, d, v), Len(buf) \in Nat,
         NEW j \in p + 1 .. v, j <= Len(buf)
  PROVE  Resp!At(j) # 13
<1>1. /\ p \in Nat /\ a \in Nat /\ b \in Nat /\ d \in Nat /\ v \in Nat
      /\ p < a /\ a <= b /\ b + 1 <= d /\ d <= v
  BY DEF FieldAt
<1>2. j \in p + 1 .. a \/ j \in a + 1 .. b \/ j = b + 1 \/ j \in b + 2 .. d \/ j \in d + 1 .. v
  BY <1>1
<1>3. CASE j \in p + 1 .. a
  BY <1>3 DEF FieldAt
<1>4. CASE j \in a + 1 .. b
  <2>1. Resp!At(j) = 32
    BY <1>4 DEF FieldAt
  <2> QED BY <2>1
<1>5. CASE j = b + 1
  <2>1. Resp!At(b + 1) = 58
    BY <1>5 DEF FieldAt
  <2> QED BY <1>5, <2>1
<1>6. CASE j \in b + 2 .. d
  <2>1. Resp!At(j) = 32
    BY <1>6 DEF FieldAt
  <2> QED BY <2>1
<1>7. CASE j \in d + 1 .. v
  BY <1>7 DEF FieldAt
<1> QED BY <1>2, <1>3, <1>4, <1>5, <1>6, <1>7

\* It is not read before.
LEMMA ValidFieldIsWhole ==
  ASSUME buf \in Seq(Char), NEW f, NEW p, NEW a, NEW b, NEW d, NEW v, FieldAt(f, p, a, b, d, v),
         it = p + 1, it <= Resp!End, Resp!FieldIsValid
  PROVE  v + 2 <= Len(buf)
<1>1. Len(buf) \in Nat /\ Resp!End = Len(buf) + 1
  BY TextIs
<1>2. /\ p \in Nat /\ a \in Nat /\ b \in Nat /\ d \in Nat /\ v \in Nat
      /\ p < a /\ a <= b /\ b + 1 <= d /\ d <= v
  BY DEF FieldAt
<1>3. Resp!KeyEnd \in p + 1 .. Resp!End
  <2>1. FirstIn(Resp!KeyEnd, it, KeyEnds)
    BY <1>2, KeyEndIsFirst
  <2> QED BY <2>1 DEF FirstIn
<1>4. Resp!ColonAt \in p + 1 .. Len(buf)
  <2>1. FirstIn(Resp!ColonAt, Resp!KeyEnd, NonSpace)
    <3>1. Resp!KeyEnd \in Nat \ {0} /\ Resp!KeyEnd <= Resp!End
      BY <1>1, <1>2, <1>3
    <3> QED BY <3>1, SkipSpaces DEF Resp!ColonAt
  <2>2. Resp!ColonAt \in Resp!KeyEnd .. Resp!End
    BY <2>1 DEF FirstIn
  <2>3. Resp!At(Resp!ColonAt) # 0
    BY DEF Resp!FieldIsValid, Resp!Colon
  <2>4. Resp!ColonAt \in 1 .. Len(buf)
    BY <2>3, InText
  <2> QED BY <1>1, <1>2, <1>3, <2>2, <2>4
<1>5. Resp!ValueAt \in p + 1 .. Resp!End
  <2>1. FirstIn(Resp!ValueAt, Resp!ColonAt + 1, NonBlank)
    <3>1. Resp!ColonAt + 1 \in Nat \ {0} /\ Resp!ColonAt + 1 <= Resp!End
      BY <1>1, <1>2, <1>4
    <3> QED BY <3>1, SkipBlanks DEF Resp!ValueAt
  <2>2. Resp!ValueAt \in Resp!ColonAt + 1 .. Resp!End
    BY <2>1 DEF FirstIn
  <2> QED BY <1>1, <1>2, <1>4, <2>2
<1>6. Resp!ValueEnd \in p + 1 .. Resp!End
  <2>1. FirstIn(Resp!ValueEnd, Resp!ValueAt, {13})
    <3>1. Resp!ValueAt \in Nat \ {0} /\ Resp!ValueAt <= Resp!End
      BY <1>1, <1>2, <1>5
    <3> QED BY <3>1, FindIsFirst DEF Resp!ValueEnd, Resp!CR
  <2>2. Resp!ValueEnd \in Resp!ValueAt .. Resp!End
    BY <2>1 DEF FirstIn
  <2> QED BY <1>1, <1>2, <1>5, <2>2
<1>7. Resp!At(Resp!ValueEnd + 1 - 1) = 13 /\ Resp!At(Resp!ValueEnd + 2 - 1) = 10
  BY DEF Resp!FieldIsValid, Resp!FieldEnds, Resp!Shows, Resp!EOL, Resp!CR, Resp!LF
<1>8. Resp!ValueEnd + 1 - 1 = Resp!ValueEnd /\ Resp!ValueEnd + 2 - 1 = Resp!ValueEnd + 1
  BY <1>1, <1>2, <1>6
<1>9. Resp!At(Resp!ValueEnd) = 13 /\ Resp!ValueEnd + 1 \in 1 .. Len(buf)
  <2>1. Resp!At(Resp!ValueEnd + 1) # 0
    BY <1>7, <1>8
  <2> QED BY <1>7, <1>8, <2>1, InText
<1>10. ~(Resp!ValueEnd <= v)
  <2>1. SUFFICES ASSUME Resp!ValueEnd <= v PROVE FALSE
    OBVIOUS
  <2>2. Resp!ValueEnd \in p + 1 .. v /\ Resp!ValueEnd <= Len(buf)
    BY <1>1, <1>2, <1>6, <1>9, <2>1
  <2> QED BY <1>1, <1>9, <2>2, NoBreakInField
<1>11. v + 1 <= Len(buf)
  BY <1>1, <1>2, <1>6, <1>9, <1>10
<1>12. Resp!ValueEnd = v + 1
  BY <1>11, FieldPlaces
<1> QED BY <1>1, <1>2, <1>9, <1>12

\* A name ends behind its first character, and an end of line is no name.
LEMMA NameIsFound ==
  ASSUME buf \in Seq(Char), NEW f, NEW p, NEW a, NEW b, NEW d, NEW v, FieldAt(f, p, a, b, d, v),
         it = p + 1, it <= Len(buf)
  PROVE  it < Resp!KeyEnd /\ Resp!At(it) # 13
<1>1. Len(buf) \in Nat /\ Resp!End = Len(buf) + 1
  BY TextIs
<1>2. p \in Nat /\ a \in Nat /\ p < a
  BY DEF FieldAt
<1>3. Resp!At(it) \notin KeyEnds
  <2>1. it \in p + 1 .. a
    BY <1>2
  <2> QED BY <2>1 DEF FieldAt, KeyEnds
<1>4. FirstIn(Resp!KeyEnd, it, KeyEnds)
  BY <1>1, <1>2, KeyEndIsFirst
<1>5. Resp!KeyEnd # it
  BY <1>1, <1>2, <1>3, <1>4 DEF FirstIn
<1> QED BY <1>1, <1>2, <1>3, <1>4, <1>5 DEF FirstIn, KeyEnds

LEMMA NoNameIsFound ==
  ASSUME buf \in Seq(Char), it \in Nat \ {0}, it <= Resp!End, it = Resp!End \/ Resp!At(it) = 13
  PROVE  Resp!KeyEnd = it
<1>1. Len(buf) \in Nat /\ Resp!End = Len(buf) + 1
  BY TextIs
<1>2. FirstIn(Resp!KeyEnd, it, KeyEnds)
  BY KeyEndIsFirst
<1>3. FirstIn(it, it, KeyEnds)
  <2>1. it \in it .. Resp!End /\ \A i \in it .. it - 1 : FALSE
    BY <1>1
  <2> QED BY <2>1 DEF FirstIn, KeyEnds
<1> QED BY <1>2, <1>3, FirstIsUnique

-------------------------------------------------------------------------------
(* The invariant of the parser *)

\* Of every name among the first k fields, the last value.
FieldsOf(r, k) ==
  {<<r.fields[i][1], r.fields[i][4]>> :
     i \in {l \in 1 .. k : \A j \in l + 1 .. k : r.fields[j][1] # r.fields[l][1]}}

LinesAt(r) ==
  CHOOSE at : Layout(r, Resp!Header(r), at) /\ Len(Resp!Header(r)) = at[Len(r.fields)] + 2

LEMMA LinesAtIs ==
  ASSUME NEW r, IsResponse(r)
  PROVE  /\ Layout(r, Resp!Header(r), LinesAt(r))
         /\ Len(Resp!Header(r)) = LinesAt(r)[Len(r.fields)] + 2
BY HeaderLaidOut, Zenon DEF LinesAt

\* The parser is behind k lines, and has their fields.
AtLine(k) ==
  /\ k \in 0 .. Len(sent.fields)
  /\ it = LinesAt(sent)[k] + 1 /\ it <= Resp!End
  /\ parsedHeaders = FieldsOf(sent, k)

\* The status line was read.
StatusRead == code = sent.code /\ message = sent.message /\ sent.message # <<>>

ParserInv ==
  /\ sent \in Resp!Sendable
  /\ pc \in {"receive", "status", "headers", "end", "parsed", "thrown", "outside"}
  /\ pc = "receive" => buf = <<>>
  /\ pc # "receive" => Reads(sent, LinesAt(sent))
  /\ pc \in {"receive", "status"} => it = 1 /\ parsedHeaders = {}
  /\ pc \in {"headers", "end", "parsed"} => StatusRead
  /\ pc \in {"headers", "end"} => \E k : AtLine(k)
  /\ pc = "end" => it = Resp!End \/ it = LinesAt(sent)[Len(sent.fields)] + 1
  /\ pc = "parsed" => /\ it = Len(Resp!Header(sent)) + 1 /\ it <= Resp!End
                      /\ parsedHeaders = FieldsOf(sent, Len(sent.fields))
                      /\ ~Resp!NulFollows
  /\ pc \in {"thrown", "outside"} => it <= Resp!End
  /\ pc = "thrown" => Len(buf) < Len(Resp!Header(sent)) \/ sent.message = <<>>
  /\ pc = "outside" => Len(buf) < Len(Resp!Header(sent)) \/ Resp!NulFollows

LEMMA InitParser == Resp!Init => ParserInv
BY DEF Resp!Init, ParserInv

LEMMA ReadsStay ==
  ASSUME UNCHANGED <<sent, buf>>
  PROVE  /\ Reads(sent, LinesAt(sent)) <=> Reads(sent, LinesAt(sent))'
         /\ Resp!End' = Resp!End
         /\ \A j : Resp!At(j)' = Resp!At(j)
         /\ Resp!NulFollows' <=> Resp!NulFollows
<1>0. Resp!NulFollows' <=> Resp!NulFollows
  BY DEF Resp!NulFollows
<1>1. Resp!End' = Resp!End /\ \A j : Resp!At(j)' = Resp!At(j)
  BY DEF Resp!End, Resp!At
<1>2. \A s, n : Shown(s, n)' <=> Shown(s, n)
  BY <1>1 DEF Shown
<1>3. \A f, n : LineShown(f, n)' <=> LineShown(f, n)
  BY <1>2 DEF LineShown
<1>4. LinesAt(sent)' = LinesAt(sent)
  OBVIOUS
<1>5. Reads(sent, LinesAt(sent)) <=> Reads(sent, LinesAt(sent))'
  BY <1>2, <1>3, <1>4 DEF Reads
<1> QED BY <1>0, <1>1, <1>5

LEMMA ReceivedReadsAll ==
  \A r, at :
    /\ IsResponse(r) /\ Layout(r, Resp!Header(r), at) /\ buf \in Seq(Char)
    /\ Len(Resp!Header(r)) \in Nat
    /\ \A j \in 1 .. Len(buf) : j <= Len(Resp!Header(r)) => buf[j] = Resp!Header(r)[j]
    => Reads(r, at)
BY ReceivedReads

LEMMA ReceiveKeeps ==
  ASSUME ParserInv, NEW n \in 0 .. Len(Resp!Header(sent)) + Len(sent.rest), NEW b, Resp!Receive(n, b)
  PROVE  ParserInv'
<1> DEFINE h == Resp!Header(sent)
           w == h \o sent.rest
<1>1. /\ pc = "receive" /\ n <= Len(w) /\ buf' = SubSeq(w, 1, n) /\ pc' = "status"
      /\ sent' = sent /\ it' = it /\ parsedHeaders' = parsedHeaders
  BY DEF Resp!Receive
<1>2. IsResponse(sent)
  BY SentIsResponse DEF ParserInv
<1>3. h \in Seq(Char) /\ sent.rest \in Seq(Char)
  BY <1>2, HeaderLaidOut DEF IsResponse
<1> HIDE DEF h
<1>4. /\ w \in Seq(Char) /\ Len(w) = Len(h) + Len(sent.rest)
      /\ \A i \in 1 .. Len(h) + Len(sent.rest) :
           (h \o sent.rest)[i] = IF i <= Len(h) THEN h[i] ELSE sent.rest[i - Len(h)]
  BY <1>3, ConcatProperties
<1>5. Len(h) \in Nat /\ Len(sent.rest) \in Nat /\ Len(w) \in Nat
  BY <1>3, <1>4, LenProperties
<1>6. /\ buf' \in Seq(Char) /\ Len(buf') = n
      /\ \A i \in 1 .. n : buf'[i] = w[i]
  <2>1. n \in Nat /\ 1 \in Int /\ n \in Int /\ \A i \in 1 .. n : w[i] \in Char
    BY <1>1, <1>4, <1>5, ElementOfSeq
  <2> HIDE DEF w
  <2>2. /\ SubSeq(w, 1, n) \in Seq(Char)
        /\ Len(SubSeq(w, 1, n)) = IF 1 <= n THEN n - 1 + 1 ELSE 0
        /\ \A i \in 1 .. n - 1 + 1 : SubSeq(w, 1, n)[i] = w[1 + i - 1]
    BY <2>1, SubSeqProperties
  <2>3. \A i \in 1 .. n : i \in 1 .. n - 1 + 1 /\ 1 + i - 1 = i
    BY <2>1
  <2> QED BY <1>1, <2>1, <2>2, <2>3
<1>7. Reads(sent, LinesAt(sent))'
  <2>1. \A j \in 1 .. Len(buf') : j <= Len(h) => buf'[j] = h[j]
    <3>1. SUFFICES ASSUME NEW j \in 1 .. Len(buf'), j <= Len(h) PROVE buf'[j] = h[j]
      OBVIOUS
    <3>2. j \in 1 .. n /\ j \in 1 .. Len(h) + Len(sent.rest)
      BY <1>1, <1>4, <1>5, <1>6
    <3> QED BY <1>4, <1>6, <3>1, <3>2
  <2>2. Layout(sent, Resp!Header(sent), LinesAt(sent))
    BY <1>2, LinesAtIs
  <2>3. (\A r, at :
           /\ IsResponse(r) /\ Layout(r, Resp!Header(r), at) /\ buf \in Seq(Char)
           /\ Len(Resp!Header(r)) \in Nat
           /\ \A j \in 1 .. Len(buf) : j <= Len(Resp!Header(r)) => buf[j] = Resp!Header(r)[j]
           => Reads(r, at))'
    BY ReceivedReadsAll, PTL
  <2>4. PICK r, at : r = sent /\ at = LinesAt(sent)
    OBVIOUS
  <2>5. /\ IsResponse(r) /\ Layout(r, Resp!Header(r), at) /\ buf' \in Seq(Char)
        /\ Len(Resp!Header(r)) \in Nat
        /\ \A j \in 1 .. Len(buf') : j <= Len(Resp!Header(r)) => buf'[j] = Resp!Header(r)[j]
    BY <1>2, <1>5, <1>6, <2>1, <2>2, <2>4 DEF h
  <2>6. Reads(r, at)'
    BY <2>3, <2>5, Zenon
  <2>7. sent' = r /\ LinesAt(sent)' = at
    BY <1>1, <2>4
  <2> QED BY <2>6, <2>7
<1> QED BY <1>1, <1>7 DEF ParserInv

LEMMA LineOf ==
  ASSUME NEW r, NEW at, Reads(r, at), NEW k \in 1 .. Len(r.fields)
  PROVE  \E a, b, d, v : FieldAt(r.fields[k], at[k - 1], a, b, d, v) /\ v + 2 = at[k]
<1>1. /\ IsField(r.fields[k]) /\ LineShown(r.fields[k], at[k - 1])
      /\ at[k] = at[k - 1] + LineLen(r.fields[k]) /\ buf \in Seq(Char)
  BY DEF Reads, IsResponse
<1>2. at[k - 1] \in Nat /\ Len(buf) \in Nat
  <2>1. k - 1 \in 0 .. Len(r.fields) /\ Len(buf) \in Nat
    BY ReadsNumbers
  <2> QED BY <2>1 DEF Reads
<1> QED BY <1>1, <1>2, FieldShown

LEMMA NextLine ==
  ASSUME NEW r, NEW at, Reads(r, at), NEW k \in 0 .. Len(r.fields), k # Len(r.fields)
  PROVE  \E a, b, d, v : FieldAt(r.fields[k + 1], at[k], a, b, d, v) /\ v + 2 = at[k + 1]
<1> DEFINE K == Len(r.fields)
<1>1. K \in Nat /\ k \in 0 .. K /\ k # K
  BY ReadsNumbers
<1> HIDE DEF K
<1>2. k + 1 \in 1 .. K /\ (k + 1) - 1 = k
  BY <1>1
<1>3. PICK n : n = k + 1
  OBVIOUS
<1>4. n \in 1 .. Len(r.fields) /\ n - 1 = k
  BY <1>2, <1>3 DEF K
<1>5. \E a, b, d, v : FieldAt(r.fields[n], at[n - 1], a, b, d, v) /\ v + 2 = at[n]
  BY <1>4, LineOf, Zenon
<1> QED BY <1>3, <1>4, <1>5, Zenon

\* What is shown of the end of a line.
LEMMA EolShown ==
  ASSUME NEW n, Shown(Resp!EOL, n), Len(buf) \in Nat
  PROVE  /\ n \in Nat
         /\ n + 1 <= Len(buf) => Resp!At(n + 1) = 13
         /\ n + 2 <= Len(buf) => Resp!At(n + 2) = 10
BY EolIs DEF Shown

\* No Nul follows a line.
LEMMA NoNulBehindLine ==
  ASSUME NEW r, NEW at, Reads(r, at), NEW k \in 0 .. Len(r.fields), at[k] + 1 <= Len(buf)
  PROVE  Resp!At(at[k] + 1) # 0
<1>1. CASE k = Len(r.fields)
  <2>1. Shown(Resp!EOL, at[k])
    BY <1>1 DEF Reads
  <2> QED BY <2>1, ReadsNumbers, EolShown
<1>2. CASE k # Len(r.fields)
  <2>1. PICK a, b, d, v : FieldAt(r.fields[k + 1], at[k], a, b, d, v)
    BY <1>2, NextLine, Zenon
  <2>2. at[k] + 1 \in at[k] + 1 .. a
    BY <2>1 DEF FieldAt
  <2> QED BY <2>1, <2>2 DEF FieldAt
<1> QED BY <1>1, <1>2

\* The parser stands between the status line and the end of the header.
LEMMA AtLineIs ==
  ASSUME ParserInv, pc # "receive", NEW k, AtLine(k)
  PROVE  /\ Reads(sent, LinesAt(sent)) /\ buf \in Seq(Char) /\ Len(buf) \in Nat
         /\ Resp!End = Len(buf) + 1
         /\ Len(sent.fields) \in Nat /\ k \in 0 .. Len(sent.fields)
         /\ LinesAt(sent)[k] \in Nat /\ LinesAt(sent)[Len(sent.fields)] \in Nat
         /\ LinesAt(sent)[k] <= LinesAt(sent)[Len(sent.fields)]
         /\ it = LinesAt(sent)[k] + 1 /\ it \in Nat \ {0} /\ it <= Resp!End
         /\ Len(Resp!Header(sent)) = LinesAt(sent)[Len(sent.fields)] + 2
<1>1. Reads(sent, LinesAt(sent)) /\ IsResponse(sent) /\ buf \in Seq(Char)
  BY DEF ParserInv, Reads
<1>2. Len(buf) \in Nat /\ Resp!End = Len(buf) + 1 /\ Len(sent.fields) \in Nat
  BY <1>1, ReadsNumbers
<1>3. k \in 0 .. Len(sent.fields) /\ it = LinesAt(sent)[k] + 1 /\ it <= Resp!End
  BY DEF AtLine
<1>4. /\ LinesAt(sent)[k] \in Nat /\ LinesAt(sent)[k] <= LinesAt(sent)[Len(sent.fields)]
      /\ LinesAt(sent)[Len(sent.fields)] \in Nat
  <2>1. Len(sent.fields) \in 0 .. Len(sent.fields)
    BY <1>2
  <2> QED BY <1>1, <1>3, <2>1, LinesFollow
<1>5. Len(Resp!Header(sent)) = LinesAt(sent)[Len(sent.fields)] + 2
  BY <1>1, LinesAtIs
<1> QED BY <1>1, <1>2, <1>3, <1>4, <1>5

LEMMA StatusKeeps == ASSUME ParserInv, Resp!ParseStatusLine PROVE ParserInv'
<1> DEFINE at == LinesAt(sent)
           c == CodeTo(sent)
           m == MessageTo(sent)
<1>1. /\ pc = "status" /\ Resp!StatusLineIsValid /\ pc' = "headers"
      /\ code' = Resp!Number(Resp!Text(Resp!CodeAt, Resp!CodeEnd))
      /\ message' = Resp!Text(Resp!MessageAt, Resp!MessageEnd)
      /\ it' = Resp!MessageEnd + 2
      /\ UNCHANGED <<sent, buf, parsedHeaders>>
  BY DEF Resp!ParseStatusLine
<1>2. Reads(sent, at) /\ parsedHeaders = {} /\ IsResponse(sent) /\ buf \in Seq(Char)
  BY <1>1 DEF ParserInv, Reads
<1>3. /\ Len(buf) \in Nat /\ Resp!End = Len(buf) + 1
      /\ c \in Nat /\ m \in Nat /\ Len(sent.fields) \in Nat
  BY <1>2, ReadsNumbers
<1>n. c = 9 + Len(CodeText(sent)) /\ m = c + 1 + Len(sent.message)
  BY <1>2, ReadsNumbers
<1>4. StatusAt(c, m)
  BY <1>2, StatusShown
<1>5. m + 2 <= Len(buf) /\ m # c + 1
  BY <1>1, <1>2, <1>4, ValidStatusIsWhole
<1>6. /\ Resp!CodeAt = 10 /\ Resp!CodeEnd = c + 1
      /\ Resp!MessageEnd = m + 1 /\ Resp!MessageAt = c + 2
  <2>1. m + 1 <= Len(buf)
    <3> HIDE DEF m
    <3> QED BY <1>3, <1>5
  <2> QED BY <1>2, <1>4, <2>1, StatusPlaces
<1>7. /\ CodeText(sent) \in Seq(Char) /\ Shown(CodeText(sent), 9)
      /\ sent.message \in Seq(Char) /\ Shown(sent.message, c + 1)
  <2>1. 48 .. 57 \subseteq Char /\ Char \ {Resp!CR} \subseteq Char
    BY DEF Char
  <2>2. CodeText(sent) \in Seq(48 .. 57) /\ sent.message \in Seq(Char \ {Resp!CR})
    BY <1>2 DEF IsResponse
  <2>3. CodeText(sent) \in Seq(Char) /\ sent.message \in Seq(Char)
    BY <2>1, <2>2, SeqMonotonic
  <2> QED BY <1>2, <2>3 DEF Reads
<1>8. c <= Len(buf) /\ m <= Len(buf)
  <2>1. c <= m
    BY <1>4 DEF StatusAt
  <2> HIDE DEF c, m
  <2> QED BY <1>3, <1>5, <2>1
<1>9. Resp!Text(9 + 1, c + 1) = CodeText(sent)
  BY <1>2, <1>n, <1>7, <1>8, TextShown, Zenon
<1>10. Resp!Text((c + 1) + 1, m + 1) = sent.message
  BY <1>2, <1>n, <1>7, <1>8, TextShown, Zenon
<1>e. sent.message # <<>>
  <2>1. sent.message = <<>> => m = c + 1 + 0
    BY <1>n
  <2> HIDE DEF c, m
  <2> QED BY <1>3, <1>5, <2>1
<1> HIDE DEF c, m, at
<1>11. 9 + 1 = 10 /\ (c + 1) + 1 = c + 2 /\ (m + 1) + 2 = (m + 2) + 1 /\ m + 2 + 1 <= Len(buf) + 1
  BY <1>3, <1>5
<1>12. code' = sent.code /\ message' = sent.message
  <2>1. Resp!Number(CodeText(sent)) = sent.code
    BY <1>2 DEF IsResponse
  <2> QED BY <1>1, <1>6, <1>9, <1>10, <1>11, <2>1
<1>13. at[0] = m + 2 /\ 0 \in 0 .. Len(sent.fields)
  BY <1>2, <1>3 DEF Reads, m
<1>14. FieldsOf(sent, 0) = {}
  BY DEF FieldsOf
<1>15. Reads(sent, LinesAt(sent))' /\ Resp!End' = Resp!End
  BY <1>1, <1>2, ReadsStay DEF at
<1>16. AtLine(0)'
  <2>1. LinesAt(sent)' = at /\ it' = at[0] + 1 /\ it' <= Resp!End'
    BY <1>1, <1>3, <1>6, <1>11, <1>13, <1>15 DEF at
  <2> QED BY <1>1, <1>2, <1>13, <1>14, <2>1 DEF AtLine
<1>17. StatusRead'
  BY <1>1, <1>e, <1>12 DEF StatusRead
<1> QED BY <1>1, <1>15, <1>16, <1>17 DEF ParserInv

LEMMA NoMoreKeeps == ASSUME ParserInv, Resp!NoMoreFields PROVE ParserInv'
<1>1. /\ pc = "headers" /\ it = Resp!KeyEnd /\ pc' = "end"
      /\ UNCHANGED <<sent, buf, buffer, it, code, message, parsedHeaders>>
  BY DEF Resp!NoMoreFields
<1>2. PICK k : AtLine(k)
  BY <1>1 DEF ParserInv
<1> DEFINE at == LinesAt(sent)
           K == Len(sent.fields)
<1>3. /\ Reads(sent, at) /\ buf \in Seq(Char) /\ Len(buf) \in Nat /\ Resp!End = Len(buf) + 1
      /\ K \in Nat /\ k \in 0 .. K /\ at[k] \in Nat /\ it = at[k] + 1 /\ it <= Resp!End
  BY <1>1, <1>2, AtLineIs
<1> HIDE DEF at, K
<1>4. it = Resp!End \/ it = at[K] + 1
  <2>1. SUFFICES ASSUME k # K, it # Resp!End PROVE FALSE
    BY <1>3
  <2>2. k + 1 \in 1 .. K /\ (k + 1) - 1 = k /\ it <= Len(buf)
    BY <1>3, <2>1
  <2>3. PICK a, b, d, v : FieldAt(sent.fields[k + 1], at[k], a, b, d, v)
    BY <1>3, <2>1, NextLine, Zenon DEF K
  <2>4. it < Resp!KeyEnd
    BY <1>3, <2>2, <2>3, NameIsFound
  <2> QED BY <1>1, <1>3, <2>4
<1>5. Reads(sent, LinesAt(sent))' /\ Resp!End' = Resp!End
  BY <1>1, <1>3, ReadsStay DEF at
<1>6. AtLine(k)' /\ LinesAt(sent)' = at
  BY <1>1, <1>2, <1>5 DEF AtLine, at
<1>7. (it = Resp!End \/ it = LinesAt(sent)[Len(sent.fields)] + 1)'
  BY <1>1, <1>4, <1>5, <1>6 DEF K
<1>8. sent' \in Resp!Sendable /\ StatusRead'
  BY <1>1 DEF ParserInv, StatusRead
<1> QED BY <1>1, <1>5, <1>6, <1>7, <1>8 DEF ParserInv

LEMMA BlankLineKeeps == ASSUME ParserInv, Resp!ExpectBlankLine PROVE ParserInv'
<1>1. /\ pc = "end" /\ Resp!Expects(it, Resp!EOL) /\ pc' = "parsed" /\ it' = it + 2
      /\ UNCHANGED <<sent, buf, buffer, code, message, parsedHeaders>>
  BY DEF Resp!ExpectBlankLine
<1>2. PICK k : AtLine(k)
  BY <1>1 DEF ParserInv
<1> DEFINE at == LinesAt(sent)
           K == Len(sent.fields)
<1>3. /\ Reads(sent, at) /\ buf \in Seq(Char) /\ Len(buf) \in Nat /\ Resp!End = Len(buf) + 1
      /\ K \in Nat /\ k \in 0 .. K /\ at[k] \in Nat /\ it = at[k] + 1 /\ it <= Resp!End
      /\ it \in Nat \ {0} /\ at[K] \in Nat /\ Len(Resp!Header(sent)) = at[K] + 2
  BY <1>1, <1>2, AtLineIs
<1> HIDE DEF at, K
<1>4. Resp!At(it) = 13 /\ it + 1 \in 1 .. Len(buf)
  <2>1. Resp!At(it + 1 - 1) = 13 /\ Resp!At(it + 2 - 1) = 10
    BY <1>1 DEF Resp!Expects, Resp!Shows, Resp!EOL, Resp!CR, Resp!LF
  <2>2. it + 1 - 1 = it /\ it + 2 - 1 = it + 1
    BY <1>3
  <2>3. Resp!At(it + 1) # 0
    BY <2>1, <2>2
  <2> QED BY <1>3, <2>1, <2>2, <2>3, InText
<1>5. k = K
  <2>1. SUFFICES ASSUME k # K PROVE FALSE
    OBVIOUS
  <2>2. k + 1 \in 1 .. K /\ (k + 1) - 1 = k /\ it <= Len(buf)
    BY <1>3, <1>4, <2>1
  <2>3. PICK a, b, d, v : FieldAt(sent.fields[k + 1], at[k], a, b, d, v)
    BY <1>3, <2>1, NextLine, Zenon DEF K
  <2>4. Resp!At(it) # 13
    BY <1>3, <2>2, <2>3, NameIsFound
  <2> QED BY <1>4, <2>4
<1>6. /\ Reads(sent, LinesAt(sent))' /\ Resp!End' = Resp!End
      /\ Resp!NulFollows' <=> Resp!NulFollows
  BY <1>1, <1>3, ReadsStay DEF at
<1>7. it' = Len(Resp!Header(sent)) + 1 /\ it' <= Resp!End
  <2> DEFINE l == Len(buf)
             h == Len(Resp!Header(sent))
  <2>1. /\ l \in Nat /\ Resp!End = l + 1 /\ it + 1 \in 1 .. l /\ it \in Nat
        /\ it = at[K] + 1 /\ at[K] \in Nat /\ h = at[K] + 2
    BY <1>3, <1>4, <1>5
  <2>2. it' = it + 2
    BY <1>1
  <2> HIDE DEF l, h
  <2>3. it' = h + 1 /\ it' <= Resp!End
    BY <2>1, <2>2
  <2> QED BY <2>3 DEF h
<1>10. ~Resp!NulFollows
  <2>1. it + 2 = Len(Resp!Header(sent)) + 1
    BY <1>3, <1>5
  <2>2. ~Resp!RunsOn(it, Resp!EOL) /\ Resp!Shows(it, Resp!EOL)
    BY <1>1 DEF Resp!Expects
  <2> QED BY <2>1, <2>2, EolIs DEF Resp!RunsOn, Resp!NulFollows
<1>8. parsedHeaders = FieldsOf(sent, Len(sent.fields))
  BY <1>2, <1>5 DEF AtLine, K
<1>9. sent' \in Resp!Sendable /\ StatusRead'
  BY <1>1 DEF ParserInv, StatusRead
<1> QED BY <1>1, <1>6, <1>7, <1>8, <1>9, <1>10 DEF ParserInv

\* What was received of a field is its name and its value.
LEMMA FieldTexts ==
  ASSUME buf \in Seq(Char), NEW f, IsField(f), NEW p, NEW a, NEW b, NEW d, NEW v,
         FieldAt(f, p, a, b, d, v), v <= Len(buf)
  PROVE  Resp!Text(p + 1, a + 1) = f[1] /\ Resp!Text(d + 1, v + 1) = f[4]
<1>1. /\ p \in Nat /\ a \in Nat /\ b \in Nat /\ d \in Nat /\ v \in Nat
      /\ p < a /\ a <= b /\ b + 1 <= d /\ d <= v
      /\ a = p + Len(f[1]) /\ v = d + Len(f[4])
  BY DEF FieldAt
<1>2. /\ f[1] \in Seq(Char) /\ f[4] \in Seq(Char)
      /\ Len(f[1]) \in Nat /\ Len(f[4]) \in Nat /\ Len(buf) \in Nat
  BY FieldTyped, TextIs
<1>3. a <= Len(buf)
  <2> DEFINE l == Len(buf)
  <2>1. l \in Nat /\ v <= l
    BY <1>2
  <2> HIDE DEF l
  <2>2. a <= l
    BY <1>1, <2>1
  <2> QED BY <2>2 DEF l
<1>4. Shown(f[1], p)
  <2>1. ASSUME NEW i \in 1 .. Len(f[1]), p + i <= Len(buf) PROVE Resp!At(p + i) = f[1][i]
    <3>1. p + i \in p + 1 .. a /\ (p + i) - p = i
      BY <1>1, <1>2
    <3>2. Resp!At(p + i) = f[1][(p + i) - p]
      BY <2>1, <3>1 DEF FieldAt
    <3> QED BY <3>1, <3>2
  <2> QED BY <1>1, <1>2, <2>1 DEF Shown
<1>5. Shown(f[4], d)
  <2>1. ASSUME NEW i \in 1 .. Len(f[4]), d + i <= Len(buf) PROVE Resp!At(d + i) = f[4][i]
    <3>1. d + i \in d + 1 .. v /\ (d + i) - d = i
      BY <1>1, <1>2
    <3>2. Resp!At(d + i) = f[4][(d + i) - d]
      BY <2>1, <3>1 DEF FieldAt
    <3> QED BY <3>1, <3>2
  <2> QED BY <1>1, <1>2, <2>1 DEF Shown
<1>6. Resp!Text(p + 1, a + 1) = f[1]
  BY <1>1, <1>2, <1>3, <1>4, TextShown, Zenon
<1>7. Resp!Text(d + 1, v + 1) = f[4]
  BY <1>1, <1>2, <1>5, TextShown, Zenon
<1> QED BY <1>6, <1>7

\* headers_[key] = value adds the field to those before it.
LEMMA StoredIsNext ==
  ASSUME NEW r, Len(r.fields) \in Nat, NEW k \in 0 .. Len(r.fields), k # Len(r.fields),
         parsedHeaders = FieldsOf(r, k)
  PROVE  Resp!Stored(r.fields[k + 1][1], r.fields[k + 1][4]) = FieldsOf(r, k + 1)
<1> DEFINE F == r.fields
           key == F[k + 1][1]
           Lasts(n) == {l \in 1 .. n : \A j \in l + 1 .. n : F[j][1] # F[l][1]}
<1>1. k \in Nat
  OBVIOUS
<1>2. Lasts(k + 1) = {l \in Lasts(k) : F[l][1] # key} \cup {k + 1}
  <2>1. \A l \in 1 .. k + 1 : l # k + 1 =>
          /\ l \in 1 .. k
          /\ \A j : j \in l + 1 .. k + 1 <=> j = k + 1 \/ j \in l + 1 .. k
    BY <1>1
  <2>2. k + 1 \in Lasts(k + 1)
    BY <1>1
  <2>3. k + 1 \notin 1 .. k /\ 1 .. k \subseteq 1 .. k + 1
    BY <1>1
  <2> QED BY <2>1, <2>2, <2>3
<1>3. \A n : FieldsOf(r, n) = {<<F[i][1], F[i][4]>> : i \in Lasts(n)}
  BY DEF FieldsOf
<1> HIDE DEF Lasts, F
<1>4. FieldsOf(r, k + 1)
        = {<<F[i][1], F[i][4]>> : i \in {l \in Lasts(k) : F[l][1] # key}} \cup {<<key, F[k + 1][4]>>}
  BY <1>2, <1>3
<1>5. {h \in FieldsOf(r, k) : h[1] # key}
        = {<<F[i][1], F[i][4]>> : i \in {l \in Lasts(k) : F[l][1] # key}}
  <2>1. FieldsOf(r, k) = {<<F[i][1], F[i][4]>> : i \in Lasts(k)}
    BY <1>3
  <2> QED BY <2>1
<1> QED BY <1>4, <1>5 DEF Resp!Stored, F

LEMMA FieldKeeps == ASSUME ParserInv, Resp!ParseField PROVE ParserInv'
<1> DEFINE at == LinesAt(sent)
           K == Len(sent.fields)
<1>1. /\ pc = "headers" /\ it < Resp!KeyEnd /\ Resp!FieldIsValid /\ pc' = "headers"
      /\ parsedHeaders' = Resp!Stored(Resp!Text(it, Resp!KeyEnd), Resp!Text(Resp!ValueAt, Resp!ValueEnd))
      /\ it' = Resp!ValueEnd + 2
      /\ UNCHANGED <<sent, buf, buffer, code, message>>
  BY DEF Resp!ParseField
<1>2. PICK k : AtLine(k)
  BY <1>1 DEF ParserInv
<1>3. /\ Reads(sent, at) /\ buf \in Seq(Char) /\ Len(buf) \in Nat /\ Resp!End = Len(buf) + 1
      /\ K \in Nat /\ k \in 0 .. K /\ at[k] \in Nat /\ it = at[k] + 1 /\ it <= Resp!End
      /\ it \in Nat \ {0} /\ at[K] \in Nat /\ Len(Resp!Header(sent)) = at[K] + 2
      /\ at \in [0 .. K -> Nat]
  <2>1. at \in [0 .. K -> Nat]
    BY <1>1, <1>2, AtLineIs DEF Reads
  <2> QED BY <1>1, <1>2, <2>1, AtLineIs
<1>4. k # K
  <2>1. SUFFICES ASSUME k = K PROVE FALSE
    OBVIOUS
  <2>2. Shown(Resp!EOL, at[K])
    BY <1>3 DEF Reads
  <2> HIDE DEF at, K
  <2>3. it = Resp!End \/ Resp!At(it) = 13
    <3>1. CASE it = Resp!End
      BY <3>1
    <3>2. CASE it # Resp!End
      <4>1. at[K] + 1 <= Len(buf)
        BY <1>3, <2>1, <3>2
      <4>2. Resp!At(at[K] + 1) = Resp!EOL[1]
        <5>1. 1 \in 1 .. Len(Resp!EOL)
          BY EolIs
        <5> QED BY <2>2, <4>1, <5>1 DEF Shown
      <4> QED BY <1>3, <2>1, <4>2, EolIs
    <3> QED BY <3>1, <3>2
  <2>4. Resp!KeyEnd = it
    BY <1>3, <2>3, NoNameIsFound
  <2> QED BY <1>1, <1>3, <2>4
<1>5. PICK a, b, d, v : FieldAt(sent.fields[k + 1], at[k], a, b, d, v) /\ v + 2 = at[k + 1]
  BY <1>3, <1>4, NextLine, Zenon DEF K
<1> DEFINE f == sent.fields[k + 1]
<1>6. IsField(f) /\ k + 1 \in 0 .. K
  <2>1. IsResponse(sent)
    BY <1>3 DEF Reads
  <2>2. \A n \in 1 .. K : IsField(sent.fields[n])
    BY <2>1 DEF IsResponse
  <2>3. k + 1 \in 1 .. K /\ k + 1 \in 0 .. K
    <3> HIDE DEF K
    <3> QED BY <1>3, <1>4
  <2> QED BY <2>2, <2>3
<1> HIDE DEF at
<1>7. v + 2 <= Len(buf)
  BY <1>1, <1>3, <1>5, ValidFieldIsWhole
<1>8. v \in Nat /\ v + 1 <= Len(buf) /\ v <= Len(buf)
  <2>1. v \in Nat
    BY <1>5 DEF FieldAt
  <2> QED BY <1>3, <1>7, <2>1
<1>9. /\ Resp!KeyEnd = a + 1 /\ Resp!ColonAt = b + 1
      /\ Resp!ValueAt = d + 1 /\ Resp!ValueEnd = v + 1
  BY <1>3, <1>5, <1>8, FieldPlaces
<1>10. Resp!Text(at[k] + 1, a + 1) = f[1] /\ Resp!Text(d + 1, v + 1) = f[4]
  <2>1. buf \in Seq(Char)
    BY <1>3
  <2>2. FieldAt(f, at[k], a, b, d, v) /\ IsField(f) /\ v <= Len(buf)
    BY <1>5, <1>6, <1>8
  <2> HIDE DEF f
  <2>3. PICK p : p = at[k]
    OBVIOUS
  <2>4. Resp!Text(p + 1, a + 1) = f[1] /\ Resp!Text(d + 1, v + 1) = f[4]
    BY <2>1, <2>2, <2>3, FieldTexts
  <2> QED BY <2>3, <2>4
<1>11. parsedHeaders' = FieldsOf(sent, k + 1)
  <2>1. parsedHeaders' = Resp!Stored(f[1], f[4])
    BY <1>1, <1>3, <1>9, <1>10
  <2>2. parsedHeaders = FieldsOf(sent, k)
    BY <1>2 DEF AtLine
  <2>3. Resp!Stored(f[1], f[4]) = FieldsOf(sent, k + 1)
    BY <1>3, <1>4, <2>2, StoredIsNext DEF K
  <2> QED BY <2>1, <2>3
<1>12. it' = at[k + 1] + 1 /\ it' <= Resp!End
  <2> DEFINE l == Len(buf)
  <2>1. l \in Nat /\ v + 2 <= l /\ Resp!End = l + 1
    BY <1>3, <1>7
  <2> HIDE DEF l
  <2>2. v + 1 + 2 = (v + 2) + 1 /\ v + 1 + 2 <= l + 1
    BY <1>8, <2>1
  <2>3. it' = v + 1 + 2
    BY <1>1, <1>9
  <2> QED BY <1>5, <2>1, <2>2, <2>3
<1>13. Reads(sent, LinesAt(sent))' /\ Resp!End' = Resp!End
  BY <1>1, <1>3, ReadsStay DEF at
<1>14. AtLine(k + 1)'
  <2>1. LinesAt(sent)' = at
    BY <1>1 DEF at
  <2> QED BY <1>1, <1>6, <1>11, <1>12, <1>13, <2>1 DEF AtLine, K
<1>15. sent' \in Resp!Sendable /\ StatusRead'
  BY <1>1 DEF ParserInv, StatusRead
<1>16. \E l : AtLine(l)'
  BY <1>14
<1> QED BY <1>1, <1>13, <1>15, <1>16 DEF ParserInv

\* When the whole header was received, nothing of it is refused but an empty reason phrase,
\* and nothing is read outside unless a Nul follows.
LEMMA WholeIsRead ==
  ASSUME ParserInv, pc \in {"status", "headers", "end"}, Len(Resp!Header(sent)) <= Len(buf)
  PROVE  /\ Resp!ReadsOutside => Resp!NulFollows
         /\ pc = "status" /\ sent.message # <<>> => Resp!StatusLineIsValid
         /\ pc = "headers" /\ it < Resp!KeyEnd => Resp!FieldIsValid
         /\ pc = "end" => Resp!Shows(it, Resp!EOL)
<1> DEFINE at == LinesAt(sent)
           K == Len(sent.fields)
<1>1. /\ Reads(sent, at) /\ buf \in Seq(Char) /\ Len(buf) \in Nat /\ Resp!End = Len(buf) + 1
      /\ K \in Nat /\ at[0] \in Nat /\ at[K] \in Nat /\ at[0] <= at[K]
      /\ Len(Resp!Header(sent)) = at[K] + 2 /\ Shown(Resp!EOL, at[K])
      /\ at[0] = MessageTo(sent) + 2
  <2>1. Reads(sent, at)
    BY DEF ParserInv
  <2>2. IsResponse(sent) /\ buf \in Seq(Char) /\ Shown(Resp!EOL, at[K]) /\ at[0] = MessageTo(sent) + 2
    BY <2>1 DEF Reads
  <2>3. Len(buf) \in Nat /\ Resp!End = Len(buf) + 1 /\ K \in Nat
    BY <2>1, ReadsNumbers
  <2>4. \A k \in 0 .. K : \A j \in 0 .. k : at[j] \in Nat /\ at[j] <= at[k]
    BY <2>1, LinesFollow
  <2>5. K \in 0 .. K /\ 0 \in 0 .. K
    BY <2>3
  <2>6. at[0] \in Nat /\ at[K] \in Nat /\ at[0] <= at[K]
    BY <2>4, <2>5
  <2> QED BY <2>1, <2>2, <2>3, <2>6, LinesAtIs
<1>2. at[K] + 2 <= Len(buf)
  BY <1>1
<1>3. Resp!At(at[K] + 1) = 13 /\ Resp!At(at[K] + 2) = 10
  <2>1. at[K] + 1 <= Len(buf)
    <3> DEFINE l == Len(buf)
    <3>1. l \in Nat /\ at[K] + 2 <= l
      BY <1>1, <1>2
    <3> HIDE DEF l, at, K
    <3>2. at[K] + 1 <= l
      BY <1>1, <3>1
    <3> QED BY <3>2 DEF l
  <2> QED BY <1>1, <1>2, <2>1, EolShown
<1>4. CASE pc = "status"
  <2> DEFINE c == CodeTo(sent)
             m == MessageTo(sent)
  <2>1. StatusAt(c, m) /\ m \in Nat /\ c \in Nat /\ m = c + 1 + Len(sent.message)
    BY <1>1, StatusShown, ReadsNumbers
  <2>2. m + 2 <= Len(buf)
    <3> DEFINE l == Len(buf)
    <3>1. l \in Nat /\ at[K] + 2 <= l
      BY <1>1, <1>2
    <3>2. at[0] = m + 2
      BY <1>1
    <3> HIDE DEF l, at, K, m
    <3>3. m + 2 <= l
      BY <1>1, <2>1, <3>1, <3>2
    <3> QED BY <3>3 DEF l
  <2>3. m + 3 <= Len(buf) => Resp!At(m + 3) # 0
    <3>1. 0 \in 0 .. K /\ Reads(sent, at)
      BY <1>1
    <3>2. at[0] + 1 = m + 3
      <4>1. at[0] = m + 2
        BY <1>1
      <4> HIDE DEF at, m
      <4> QED BY <2>1, <4>1
    <3> QED BY <3>1, <3>2, NoNulBehindLine
  <2>4. sent.message # <<>> => m # c + 1
    <3>1. sent.message # <<>> => Len(sent.message) \in Nat \ {0}
      <4>1. sent.message \in Seq(Char \ {Resp!CR})
        BY <1>1 DEF Reads, IsResponse
      <4> QED BY <4>1, EmptySeq, LenProperties
    <3> DEFINE l == Len(sent.message)
    <3>2. c \in Nat /\ m = c + 1 + l /\ (sent.message # <<>> => l \in Nat \ {0})
      BY <2>1, <3>1
    <3> HIDE DEF m, c, l
    <3> QED BY <3>2
  <2>5. /\ Resp!CodeEnd # Resp!End
        /\ ~Resp!RunsOn(1, Resp!Protocol) /\ ~Resp!RunsOn(Resp!DotAt, <<Resp!Dot>>)
        /\ ~Resp!RunsOn(Resp!MessageEnd, Resp!EOL)
        /\ m # c + 1 => Resp!StatusLineIsValid
    <3>1. buf \in Seq(Char)
      BY <1>1
    <3> HIDE DEF m, c
    <3> QED BY <2>1, <2>2, <2>3, <3>1, WholeStatusIsValid
  <2> QED BY <1>4, <2>4, <2>5 DEF Resp!ReadsOutside, Resp!ReadsBehindLiteral, Resp!ReadsBehindText
<1>5. ASSUME pc \in {"headers", "end"}
      PROVE  \E k : AtLine(k) /\ k \in 0 .. K /\ at[k] \in Nat /\ at[k] <= at[K] /\ it = at[k] + 1
  <2>1. PICK k : AtLine(k)
    BY <1>5 DEF ParserInv
  <2>2. k \in 0 .. K /\ at[k] \in Nat /\ at[k] <= at[K] /\ it = at[k] + 1
    BY <1>5, <2>1, AtLineIs
  <2> QED BY <2>1, <2>2
<1>6. CASE pc = "headers"
  <2>1. PICK k : AtLine(k) /\ k \in 0 .. K /\ at[k] \in Nat /\ at[k] <= at[K] /\ it = at[k] + 1
    BY <1>5, <1>6
  <2>2. CASE k = K
    <3> HIDE DEF at, K
    <3>1. it \in Nat \ {0} /\ it <= Resp!End /\ Resp!At(it) = 13
      <4> DEFINE l == Len(buf)
      <4>1. l \in Nat /\ at[K] + 2 <= l /\ Resp!End = l + 1
        BY <1>1, <1>2
      <4> HIDE DEF l
      <4> QED BY <1>1, <1>3, <2>1, <2>2, <4>1
    <3>2. Resp!KeyEnd = it
      BY <1>1, <3>1, NoNameIsFound
    <3>3. ~(it < Resp!KeyEnd)
      BY <3>1, <3>2
    <3> QED BY <1>6, <3>3 DEF Resp!ReadsOutside, Resp!ReadsBehindLiteral, Resp!ReadsBehindText
  <2>3. CASE k # K
    <3>1. PICK a, b, d, v : FieldAt(sent.fields[k + 1], at[k], a, b, d, v) /\ v + 2 = at[k + 1]
      BY <1>1, <2>1, <2>3, NextLine, Zenon DEF K
    <3>2. at[k + 1] <= at[K]
      <4>1. \A n \in 0 .. K : \A j \in 0 .. n : at[j] \in Nat /\ at[j] <= at[n]
        BY <1>1, LinesFollow
      <4> HIDE DEF K, at
      <4>2. K \in 0 .. K /\ k + 1 \in 0 .. K
        BY <1>1, <2>1, <2>3
      <4> QED BY <4>1, <4>2
    <3> HIDE DEF at, K
    <3>3. v + 2 <= Len(buf)
      <4> DEFINE l == Len(buf)
      <4>1. l \in Nat /\ at[K] + 2 <= l /\ v \in Nat
        BY <1>1, <1>2, <3>1 DEF FieldAt
      <4> HIDE DEF l
      <4>2. v + 2 <= l
        BY <1>1, <3>1, <3>2, <4>1
      <4> QED BY <4>2 DEF l
    <3>4. Resp!FieldIsValid /\ Resp!ColonAt # Resp!End /\ ~(Resp!ValueEnd + 1 >= Resp!End)
      BY <1>1, <2>1, <3>1, <3>3, WholeFieldIsValid
    <3> QED BY <1>6, <3>4 DEF Resp!ReadsOutside, Resp!ReadsBehindLiteral, Resp!ReadsBehindText
  <2> QED BY <2>2, <2>3
<1>7. CASE pc = "end"
  <2>1. PICK k : AtLine(k) /\ k \in 0 .. K /\ at[k] \in Nat /\ at[k] <= at[K] /\ it = at[k] + 1
    BY <1>5, <1>7
  <2>2. it = Resp!End \/ it = at[K] + 1
    BY <1>7 DEF ParserInv
  <2> HIDE DEF at, K
  <2>3. it # Resp!End
    <3> DEFINE l == Len(buf)
    <3>1. l \in Nat /\ at[K] + 2 <= l /\ Resp!End = l + 1
      BY <1>1, <1>2
    <3> HIDE DEF l
    <3> QED BY <1>1, <2>1, <3>1
  <2>4. it = at[K] + 1 /\ at[K] \in Nat
    BY <1>1, <2>2, <2>3
  <2>5. it + 1 - 1 = at[K] + 1 /\ it + 2 - 1 = at[K] + 2
    BY <2>4
  <2>6. \A j \in DOMAIN Resp!EOL : j = 1 \/ j = 2
    BY DEF Resp!EOL
  <2>7. Resp!Shows(it, Resp!EOL)
    BY <1>3, <2>5, <2>6, EolIs DEF Resp!Shows
  <2>8. Resp!RunsOn(it, Resp!EOL) => Resp!NulFollows
    <3>1. it + 2 = Len(Resp!Header(sent)) + 1
      BY <1>1, <2>4
    <3> QED BY <3>1, EolIs DEF Resp!RunsOn, Resp!NulFollows
  <2> QED BY <1>7, <2>7, <2>8 DEF Resp!ReadsOutside, Resp!ReadsBehindLiteral, Resp!ReadsBehindText
<1> QED BY <1>4, <1>6, <1>7

\* A response is refused only when a part of its header or the reason phrase is missing, and
\* read outside only when a part is missing or a Nul follows.
LEMMA StopKeeps ==
  ASSUME ParserInv, Resp!Throw \/ Resp!ReadOutside
  PROVE  ParserInv'
<1>1. /\ pc \in {"status", "headers", "end"} /\ pc' \in {"thrown", "outside"}
      /\ UNCHANGED <<sent, buf, buffer, it, code, message, parsedHeaders>>
      /\ pc' = "outside" => Resp!ReadsOutside
      /\ pc' = "thrown" => ~(/\ pc = "status" => Resp!StatusLineIsValid
                             /\ pc = "headers" /\ it < Resp!KeyEnd => Resp!FieldIsValid
                             /\ pc = "end" => Resp!Shows(it, Resp!EOL))
  <2>1. CASE Resp!Throw
    BY <2>1 DEF Resp!Throw, Resp!Expects, Resp!ReadsOutside, Resp!ReadsBehindLiteral
  <2>2. CASE Resp!ReadOutside
    BY <2>2 DEF Resp!ReadOutside, Resp!ReadsOutside, Resp!ReadsBehindLiteral, Resp!ReadsBehindText
  <2> QED BY <2>1, <2>2
<1>2. Reads(sent, LinesAt(sent))
  BY <1>1 DEF ParserInv
<1>3. /\ pc' = "thrown" => Len(buf) < Len(Resp!Header(sent)) \/ sent.message = <<>>
      /\ pc' = "outside" => Len(buf) < Len(Resp!Header(sent)) \/ Resp!NulFollows
  <2> DEFINE l == Len(buf)
             h == Len(Resp!Header(sent))
  <2>1. h <= l /\ pc' = "thrown" => sent.message = <<>>
    BY <1>1, WholeIsRead
  <2>2. h <= l /\ pc' = "outside" => Resp!NulFollows
    BY <1>1, WholeIsRead
  <2>3. l \in Nat /\ h \in Nat
    <3>1. IsResponse(sent)
      BY <1>2 DEF Reads
    <3> QED BY <1>2, <3>1, ReadsNumbers, HeaderLaidOut, LenProperties
  <2> HIDE DEF l, h
  <2>4. l < h \/ h <= l
    BY <2>3
  <2> QED BY <2>1, <2>2, <2>4 DEF l, h
<1>4. it <= Resp!End
  <2>1. CASE pc = "status"
    <3>1. it = 1
      BY <2>1 DEF ParserInv
    <3> QED BY <1>2, <3>1, ReadsNumbers
  <2>2. CASE pc # "status"
    BY <1>1, <2>2 DEF ParserInv, AtLine
  <2> QED BY <2>1, <2>2
<1>5. /\ Reads(sent, LinesAt(sent))' /\ Resp!End' = Resp!End
      /\ Resp!NulFollows' <=> Resp!NulFollows
  BY <1>1, <1>2, ReadsStay
<1>6. sent' \in Resp!Sendable /\ it' <= Resp!End'
  BY <1>1, <1>4, <1>5 DEF ParserInv
<1>7. /\ pc' = "thrown" => Len(buf') < Len(Resp!Header(sent')) \/ sent'.message = <<>>
      /\ pc' = "outside" => Len(buf') < Len(Resp!Header(sent')) \/ Resp!NulFollows'
  BY <1>1, <1>3, <1>5
<1> QED BY <1>1, <1>5, <1>6, <1>7 DEF ParserInv

LEMMA NextParser == ParserInv /\ [Resp!Next]_response => ParserInv'
<1> SUFFICES ASSUME ParserInv, [Resp!Next]_response PROVE ParserInv'
  OBVIOUS
<1>1. CASE UNCHANGED response
  <2>1. UNCHANGED <<sent, buf, it, code, message, parsedHeaders, pc>>
    BY <1>1 DEF response
  <2>2. /\ Reads(sent, LinesAt(sent)) <=> Reads(sent, LinesAt(sent))'
        /\ Resp!End' = Resp!End /\ (Resp!NulFollows' <=> Resp!NulFollows)
    BY <2>1, ReadsStay
  <2>3. LinesAt(sent)' = LinesAt(sent) /\ Resp!Header(sent)' = Resp!Header(sent)
    BY <2>1
  <2>4. \A k : AtLine(k)' <=> AtLine(k)
    BY <2>1, <2>2, <2>3 DEF AtLine
  <2>5. StatusRead' <=> StatusRead
    BY <2>1 DEF StatusRead
  <2> QED BY <2>1, <2>2, <2>3, <2>4, <2>5 DEF ParserInv
<1>2. CASE \E n \in 0 .. Len(Resp!Header(sent)) + Len(sent.rest), b \in {"string", "vector"} :
             Resp!Receive(n, b)
  BY <1>2, ReceiveKeeps
<1>3. CASE Resp!ParseStatusLine
  BY <1>3, StatusKeeps
<1>4. CASE Resp!ParseField
  BY <1>4, FieldKeeps
<1>5. CASE Resp!NoMoreFields
  BY <1>5, NoMoreKeeps
<1>6. CASE Resp!ExpectBlankLine
  BY <1>6, BlankLineKeeps
<1>7. CASE Resp!ReadOutside \/ Resp!Throw
  BY <1>7, StopKeeps
<1> QED BY <1>1, <1>2, <1>3, <1>4, <1>5, <1>6, <1>7 DEF Resp!Next

-------------------------------------------------------------------------------
(* isCompleteHeader() *)

LEMMA CompleteIs ==
  ASSUME buf \in Seq(Char)
  PROVE  Resp!IsCompleteHeader <=>
           \E k \in 1 .. Len(buf) - 3 : /\ Resp!At(k) = 13 /\ Resp!At(k + 1) = 10
                                        /\ Resp!At(k + 2) = 13 /\ Resp!At(k + 3) = 10
<1>1. /\ Len(buf) \in Nat
      /\ \A j \in 1 .. Len(buf) : Resp!At(j) = buf[j] /\ buf[j] \in Char
  BY TextIs
<1>2. ASSUME NEW k \in 1 .. Len(buf) - 3
      PROVE  SubSeq(buf, k, k + 3) = Resp!EOL \o Resp!EOL <=>
               /\ Resp!At(k) = 13 /\ Resp!At(k + 1) = 10
               /\ Resp!At(k + 2) = 13 /\ Resp!At(k + 3) = 10
  <2> DEFINE s == SubSeq(buf, k, k + 3)
             t == Resp!EOL \o Resp!EOL
  <2>1. k \in Int /\ k + 3 \in Int /\ \A i \in k .. k + 3 : i \in 1 .. Len(buf) /\ buf[i] \in Char
    BY <1>1
  <2>2. /\ s \in Seq(Char)
        /\ Len(s) = IF k <= k + 3 THEN k + 3 - k + 1 ELSE 0
        /\ \A i \in 1 .. k + 3 - k + 1 : s[i] = buf[k + i - 1]
    BY <2>1, SubSeqProperties
  <2>3. /\ t \in Seq(Char) /\ Len(t) = 2 + 2
        /\ \A i \in 1 .. 2 + 2 : t[i] = IF i <= 2 THEN Resp!EOL[i] ELSE Resp!EOL[i - 2]
    <3>1. /\ t \in Seq(Char) /\ Len(t) = Len(Resp!EOL) + Len(Resp!EOL)
          /\ \A i \in 1 .. Len(Resp!EOL) + Len(Resp!EOL) :
               t[i] = IF i <= Len(Resp!EOL) THEN Resp!EOL[i] ELSE Resp!EOL[i - Len(Resp!EOL)]
      <4>1. Resp!EOL \in Seq(Char)
        BY EolIs
      <4> QED BY <4>1, ConcatProperties
    <3> QED BY <3>1, EolIs
  <2>4. t \in Seq(Char) /\ Len(t) = 4
    BY <2>3
  <2>7. t[1] = 13 /\ t[2] = 10 /\ t[3] = 13 /\ t[4] = 10
    BY <2>3, EolIs
  <2> HIDE DEF s
  <2>5. Len(s) = 4 /\ s[1] = buf[k] /\ s[2] = buf[k + 1] /\ s[3] = buf[k + 2] /\ s[4] = buf[k + 3]
    <3>1. k <= k + 3 /\ k + 3 - k + 1 = 4 /\ k + 1 - 1 = k /\ k + 2 - 1 = k + 1
          /\ k + 3 - 1 = k + 2 /\ k + 4 - 1 = k + 3
      OBVIOUS
    <3> QED BY <2>2, <3>1
  <2>6. /\ Resp!At(k) = buf[k] /\ Resp!At(k + 1) = buf[k + 1]
        /\ Resp!At(k + 2) = buf[k + 2] /\ Resp!At(k + 3) = buf[k + 3]
    BY <1>1, <2>1
  <2> HIDE DEF t
  <2>8. ASSUME s[1] = 13, s[2] = 10, s[3] = 13, s[4] = 10 PROVE s = t
    <3>1. \A i \in 1 .. 4 : i = 1 \/ i = 2 \/ i = 3 \/ i = 4
      OBVIOUS
    <3>2. \A i \in 1 .. Len(s) : s[i] = t[i]
      BY <2>5, <2>7, <2>8, <3>1
    <3> QED BY <2>2, <2>4, <2>5, <3>2, SeqEqual
  <2> QED BY <2>5, <2>6, <2>7, <2>8 DEF s, t
<1> QED BY <1>2, Zenon DEF Resp!IsCompleteHeader

\* Where a line ends.
LEMMA LineEnds ==
  ASSUME NEW r, NEW at, Reads(r, at), NEW k \in 0 .. Len(r.fields)
  PROVE  /\ at[k] \in Nat /\ at[k] >= 2
         /\ at[k] - 1 <= Len(buf) => Resp!At(at[k] - 1) = 13
         /\ at[k] <= Len(buf) => Resp!At(at[k]) = 10
<1> DEFINE K == Len(r.fields)
<1>1. K \in Nat /\ k \in 0 .. K
  BY ReadsNumbers
<1>2. CASE k = 0
  <2>1. StatusAt(CodeTo(r), MessageTo(r)) /\ MessageTo(r) \in Nat /\ at[0] = MessageTo(r) + 2
    BY StatusShown, ReadsNumbers DEF Reads
  <2> DEFINE m == MessageTo(r)
  <2>2. /\ m \in Nat /\ at[0] = m + 2
        /\ m + 1 <= Len(buf) => Resp!At(m + 1) = 13
        /\ m + 2 <= Len(buf) => Resp!At(m + 2) = 10
    BY <2>1 DEF StatusAt
  <2> HIDE DEF m
  <2>3. at[0] - 1 = m + 1
    BY <2>2
  <2> QED BY <1>2, <2>2, <2>3
<1>3. CASE k # 0
  <2>1. k \in 1 .. K
    <3> HIDE DEF K
    <3> QED BY <1>1, <1>3
  <2>2. PICK a, b, d, v : FieldAt(r.fields[k], at[k - 1], a, b, d, v) /\ v + 2 = at[k]
    BY <2>1, LineOf, Zenon
  <2>3. /\ v \in Nat
        /\ v + 1 <= Len(buf) => Resp!At(v + 1) = 13
        /\ v + 2 <= Len(buf) => Resp!At(v + 2) = 10
    BY <2>2 DEF FieldAt
  <2>4. at[k] - 1 = v + 1
    BY <2>2, <2>3
  <2> QED BY <2>2, <2>3, <2>4
<1> QED BY <1>2, <1>3

\* There is no CR in the status line before its end.
LEMMA NoBreakInStatus ==
  ASSUME NEW c, NEW m, StatusAt(c, m), Len(buf) \in Nat, NEW j \in 1 .. m, j <= Len(buf)
  PROVE  Resp!At(j) # 13
<1>1. c \in Nat /\ m \in Nat /\ c >= 10 /\ m >= c + 1
  BY DEF StatusAt
<1>2. j \in 1 .. 5 \/ j \in {6, 7, 8, 9} \/ j \in 10 .. c \/ j = c + 1 \/ j \in c + 2 .. m
  BY <1>1
<1>3. CASE j \in 1 .. 5
  <2>1. Resp!At(j) = Resp!Protocol[j]
    BY <1>3 DEF StatusAt
  <2>2. \A i \in 1 .. 5 : Resp!Protocol[i] # 13
    BY DEF Resp!Protocol
  <2> QED BY <1>3, <2>1, <2>2
<1>4. CASE j \in {6, 7, 8, 9}
  <2>1. /\ 6 <= Len(buf) => Resp!At(6) = 49
        /\ 7 <= Len(buf) => Resp!At(7) = 46
        /\ 8 <= Len(buf) => Resp!At(8) = 49
        /\ 9 <= Len(buf) => Resp!At(9) = 32
    BY DEF StatusAt
  <2> QED BY <1>4, <2>1
<1>5. CASE j \in 10 .. c
  <2>1. Resp!At(j) \in 48 .. 57
    BY <1>5 DEF StatusAt
  <2> QED BY <2>1
<1>6. CASE j = c + 1
  <2>1. c + 1 <= Len(buf) => Resp!At(c + 1) = 32
    BY DEF StatusAt
  <2> QED BY <1>6, <2>1
<1>7. CASE j \in c + 2 .. m
  BY <1>7 DEF StatusAt
<1> QED BY <1>2, <1>3, <1>4, <1>5, <1>6, <1>7

LEMMA LinesOf ==
  ASSUME NEW r, NEW at, Reads(r, at)
  PROVE  \A k \in 1 .. Len(r.fields) :
           \E a, b, d, v : FieldAt(r.fields[k], at[k - 1], a, b, d, v) /\ v + 2 = at[k]
BY LineOf, Zenon

\* A CR before the blank line ends a line.
LEMMA BreakEndsLine ==
  ASSUME NEW r, NEW at, Reads(r, at), NEW j \in Nat \ {0}, j <= at[Len(r.fields)], j <= Len(buf),
         Resp!At(j) = 13
  PROVE  \E k \in 0 .. Len(r.fields) : j = at[k] - 1
<1> DEFINE K == Len(r.fields)
           T == {k \in 0 .. K : j <= at[k]}
<1>1. K \in Nat /\ Len(buf) \in Nat /\ j <= at[K]
  BY ReadsNumbers
<1>2. PICK n \in T : \A y \in T : n <= y
  <2> HIDE DEF K
  <2>1. T \subseteq Nat /\ K \in T
    <3>1. K \in Nat /\ j <= at[K]
      BY <1>1 DEF K
    <3> QED BY <3>1
  <2>2. T # {}
    BY <2>1
  <2> HIDE DEF T
  <2> QED BY <2>1, <2>2, Least, Zenon
<1>3. n \in 0 .. K /\ j <= at[n]
  BY <1>2
<1>4. at[n] \in Nat /\ (at[n] <= Len(buf) => Resp!At(at[n]) = 10)
  BY <1>3, LineEnds
<1>5. j # at[n]
  BY <1>4
<1>6. CASE n = 0
  <2> DEFINE c == CodeTo(r)
             m == MessageTo(r)
  <2>1. StatusAt(c, m) /\ m \in Nat /\ at[0] = m + 2
    BY StatusShown, ReadsNumbers DEF Reads
  <2> HIDE DEF c, m
  <2>2. j \notin 1 .. m
    BY <1>1, <2>1, NoBreakInStatus
  <2>3. j = at[n] - 1
    BY <1>3, <1>5, <1>6, <2>1, <2>2
  <2> QED BY <1>3, <2>3
<1>7. CASE n # 0
  <2>1. n \in 1 .. K /\ n - 1 \in 0 .. K /\ ~(n <= n - 1)
    <3> HIDE DEF K
    <3> QED BY <1>1, <1>3, <1>7
  <2>2. ~(j <= at[n - 1])
    BY <1>2, <2>1
  <2>3. PICK a, b, d, v : FieldAt(r.fields[n], at[n - 1], a, b, d, v) /\ v + 2 = at[n]
    <3>1. \A k \in 1 .. Len(r.fields) :
            \E a, b, d, v : FieldAt(r.fields[k], at[k - 1], a, b, d, v) /\ v + 2 = at[k]
      BY LinesOf
    <3>2. n \in 1 .. Len(r.fields)
      BY <2>1 DEF K
    <3> HIDE DEF K, T
    <3> QED BY <3>1, <3>2
  <2>4. v \in Nat /\ at[n - 1] \in Nat
    BY <2>3 DEF FieldAt
  <2>5. j \notin at[n - 1] + 1 .. v
    BY <1>1, <2>3, NoBreakInField
  <2>6. j = at[n] - 1
    BY <1>3, <1>5, <2>2, <2>3, <2>4, <2>5
  <2> QED BY <1>3, <2>6
<1> QED BY <1>6, <1>7

\* The header is complete when all of it was received.
LEMMA CompleteIff ==
  ASSUME NEW r, NEW at, Reads(r, at)
  PROVE  Resp!IsCompleteHeader <=> at[Len(r.fields)] + 2 <= Len(buf)
<1> DEFINE K == Len(r.fields)
           l == Len(buf)
<1>1. /\ K \in Nat /\ l \in Nat /\ buf \in Seq(Char) /\ Shown(Resp!EOL, at[K])
      /\ K \in 0 .. K
  BY ReadsNumbers DEF Reads
<1>2. /\ at[K] \in Nat /\ at[K] >= 2
      /\ at[K] - 1 <= l => Resp!At(at[K] - 1) = 13
      /\ at[K] <= l => Resp!At(at[K]) = 10
      /\ at[K] + 1 <= l => Resp!At(at[K] + 1) = 13
      /\ at[K] + 2 <= l => Resp!At(at[K] + 2) = 10
  BY <1>1, LineEnds, EolShown
<1>3. ASSUME at[K] + 2 <= l PROVE Resp!IsCompleteHeader
  <2> DEFINE k == at[K] - 1
  <2> HIDE DEF l, K
  <2>1. k \in 1 .. l - 3 /\ k + 1 = at[K] /\ k + 2 = at[K] + 1 /\ k + 3 = at[K] + 2
    BY <1>1, <1>2, <1>3, SMTT(30)
  <2>2. Resp!At(k) = 13 /\ Resp!At(at[K]) = 10 /\ Resp!At(at[K] + 1) = 13 /\ Resp!At(at[K] + 2) = 10
    BY <1>1, <1>2, <1>3
  <2>3. Resp!At(k) = 13 /\ Resp!At(k + 1) = 10 /\ Resp!At(k + 2) = 13 /\ Resp!At(k + 3) = 10
    BY <2>1, <2>2
  <2> HIDE DEF k
  <2> QED BY <1>1, <2>1, <2>3, CompleteIs DEF l
<1>4. ASSUME Resp!IsCompleteHeader, ~(at[K] + 2 <= l) PROVE FALSE
  <2>1. PICK k \in 1 .. l - 3 : Resp!At(k) = 13 /\ Resp!At(k + 2) = 13
    BY <1>1, <1>4, CompleteIs
  <2>2. k \in Nat \ {0} /\ k <= l /\ k <= at[K] /\ k + 2 <= l /\ k + 3 <= at[K] + 1
    <3> HIDE DEF l, K
    <3> QED BY <1>1, <1>2, <1>4, <2>1
  <2>3. PICK n \in 0 .. K : k = at[n] - 1
    BY <2>1, <2>2, BreakEndsLine
  <2>4. at[n] \in Nat /\ k + 2 = at[n] + 1
    <3>1. at[n] \in Nat
      BY <2>3, LineEnds
    <3> QED BY <2>3, <3>1
  <2>5. n # K
    BY <1>2, <2>2, <2>3, <2>4, SMTT(30)
  <2>6. PICK a, b, d, v : FieldAt(r.fields[n + 1], at[n], a, b, d, v)
    BY <2>3, <2>5, NextLine, Zenon
  <2>7. at[n] + 1 \in at[n] + 1 .. a /\ at[n] + 1 <= l
    <3>1. at[n] + 1 <= l
      BY <2>2, <2>4
    <3>2. at[n] < a /\ a \in Nat
      BY <2>6 DEF FieldAt
    <3>3. at[n] + 1 \in at[n] + 1 .. a
      BY <2>4, <3>2
    <3> QED BY <3>1, <3>3
  <2>8. Resp!At(at[n] + 1) # 13
    BY <2>6, <2>7 DEF FieldAt
  <2> QED BY <2>1, <2>4, <2>8
<1> QED BY <1>3, <1>4

-------------------------------------------------------------------------------
(* What the invariant shows *)

LEMMA InvAccepts == ParserInv => Resp!AcceptsWhenComplete
<1> SUFFICES ASSUME ParserInv PROVE Resp!AcceptsWhenComplete
  OBVIOUS
<1> DEFINE l == Len(buf)
           h == Len(Resp!Header(sent))
<1>1. CASE pc = "receive"
  <2>1. it = 1 /\ buf = <<>>
    BY <1>1 DEF ParserInv
  <2>2. it <= Resp!End
    BY <2>1 DEF Resp!End
  <2> QED BY <1>1, <2>2 DEF Resp!AcceptsWhenComplete
<1>2. CASE pc # "receive"
  <2>1. Reads(sent, LinesAt(sent)) /\ IsResponse(sent)
    BY <1>2 DEF ParserInv, Reads
  <2>2. l \in Nat /\ Resp!End = l + 1
    BY <2>1, ReadsNumbers
  <2>3. h \in Nat
    BY <2>1, HeaderLaidOut, LenProperties
  <2>4. Resp!IsCompleteHeader <=> h <= l
    <3>1. Resp!IsCompleteHeader <=> LinesAt(sent)[Len(sent.fields)] + 2 <= l
      BY <2>1, CompleteIff
    <3>2. h = LinesAt(sent)[Len(sent.fields)] + 2
      BY <2>1, LinesAtIs
    <3> QED BY <3>1, <3>2
  <2>5. it <= Resp!End
    <3>1. CASE pc = "status"
      <4>1. it = 1
        BY <3>1 DEF ParserInv
      <4> HIDE DEF l
      <4> QED BY <2>2, <4>1
    <3>2. CASE pc \in {"headers", "end"}
      BY <3>2 DEF ParserInv, AtLine
    <3>3. CASE pc \in {"parsed", "thrown", "outside"}
      BY <3>3 DEF ParserInv
    <3> QED BY <1>2, <3>1, <3>2, <3>3 DEF ParserInv
  <2>6. pc = "parsed" => h <= l /\ sent.message # <<>> /\ ~Resp!NulFollows
    <3>1. pc = "parsed" => it = h + 1 /\ sent.message # <<>> /\ ~Resp!NulFollows
      BY DEF ParserInv, StatusRead
    <3> HIDE DEF l, h
    <3> QED BY <2>2, <2>3, <2>5, <3>1
  <2>7. /\ pc = "thrown" => ~(h <= l) \/ sent.message = <<>>
        /\ pc = "outside" => ~(h <= l) \/ Resp!NulFollows
    <3>1. /\ pc = "thrown" => l < h \/ sent.message = <<>>
          /\ pc = "outside" => l < h \/ Resp!NulFollows
      BY DEF ParserInv
    <3> HIDE DEF l, h
    <3> QED BY <2>2, <2>3, <3>1
  <2> QED BY <2>4, <2>5, <2>6, <2>7 DEF Resp!AcceptsWhenComplete
<1> QED BY <1>1, <1>2

\* The greatest number of a nonempty set that is bounded.
LEMMA MaxIsGreatest ==
  ASSUME NEW n \in Nat, NEW I, I \subseteq 1 .. n, I # {}
  PROVE  Resp!Max(I) \in I /\ \A i \in I : Resp!Max(I) >= i
<1> DEFINE T == {n - i : i \in I}
<1>1. PICK d \in T : \A e \in T : d <= e
  <2>1. T \subseteq Nat /\ T # {}
    <3>1. \A i \in I : i \in 1 .. n /\ n - i \in Nat
      OBVIOUS
    <3> QED BY <3>1
  <2> HIDE DEF T
  <2> QED BY <2>1, Least, Zenon
<1>2. PICK x \in I : d = n - x
  BY <1>1
<1>3. \A y \in I : x >= y
  <2>1. SUFFICES ASSUME NEW y \in I PROVE x >= y
    OBVIOUS
  <2>2. n - x <= n - y
    BY <1>1, <1>2
  <2>3. x \in Nat /\ y \in Nat
    OBVIOUS
  <2> QED BY <2>2, <2>3
<1> QED BY <1>3 DEF Resp!Max

\* The last field of a name among all of them.
LEMMA LastIs ==
  ASSUME Len(sent.fields) \in Nat, NEW key, NEW i \in 1 .. Len(sent.fields),
         sent.fields[i][1] = key,
         \A j \in i + 1 .. Len(sent.fields) : sent.fields[j][1] # key
  PROVE  Resp!LastOf(key) = sent.fields[i][4]
<1> DEFINE K == Len(sent.fields)
           I == {l \in 1 .. K : sent.fields[l][1] = key}
           m == Resp!Max(I)
<1>1. i \in I /\ I \subseteq 1 .. K /\ K \in Nat
  OBVIOUS
<1>2. \A j \in I : j <= i
  <2>1. SUFFICES ASSUME NEW j \in I, ~(j <= i) PROVE FALSE
    OBVIOUS
  <2>2. j \in i + 1 .. K
    BY <1>1, <2>1
  <2> QED BY <2>2
<1>3. m \in I /\ \A j \in I : m >= j
  <2> HIDE DEF I, K
  <2> QED BY <1>1, MaxIsGreatest
<1>4. m = i
  <2>1. m \in 1 .. K /\ i \in 1 .. K /\ m <= i /\ m >= i
    <3> HIDE DEF I, m
    <3> QED BY <1>1, <1>2, <1>3
  <2> HIDE DEF m, K
  <2> QED BY <1>1, <2>1
<1>5. Resp!LastOf(key) = sent.fields[m][4]
  BY <1>1 DEF Resp!LastOf, Resp!SelectLastInSeq
<1> QED BY <1>4, <1>5

LEMMA LastExists ==
  ASSUME Len(sent.fields) \in Nat, NEW key, NEW k \in 1 .. Len(sent.fields), sent.fields[k][1] = key
  PROVE  \E i \in 1 .. Len(sent.fields) :
           /\ sent.fields[i][1] = key
           /\ \A j \in i + 1 .. Len(sent.fields) : sent.fields[j][1] # key
<1> DEFINE K == Len(sent.fields)
           I == {l \in 1 .. K : sent.fields[l][1] = key}
<1>1. k \in I /\ I \subseteq 1 .. K /\ K \in Nat
  OBVIOUS
<1>2. PICK i \in I : \A j \in I : i >= j
  <2> HIDE DEF I, K
  <2> QED BY <1>1, MaxIsGreatest
<1>3. ASSUME NEW j \in i + 1 .. K PROVE sent.fields[j][1] # key
  <2>1. j \in 1 .. K /\ ~(i >= j)
    BY <1>1
  <2> QED BY <1>2, <2>1
<1> QED BY <1>3

\* Of every name the last value: the fields that were read, and those that were sent.
LEMMA AllFields ==
  ASSUME IsResponse(sent)
  PROVE  FieldsOf(sent, Len(sent.fields)) =
           {<<key, Resp!LastOf(key)>> :
              key \in {sent.fields[k][1] : k \in DOMAIN sent.fields}}
<1> DEFINE K == Len(sent.fields)
           L == {l \in 1 .. K : \A j \in l + 1 .. K : sent.fields[j][1] # sent.fields[l][1]}
           Names == {sent.fields[k][1] : k \in DOMAIN sent.fields}
<1>1. K \in Nat /\ DOMAIN sent.fields = 1 .. K
  BY DEF IsResponse
<1>2. \A i \in L : sent.fields[i][1] \in Names /\ Resp!LastOf(sent.fields[i][1]) = sent.fields[i][4]
  BY <1>1, LastIs
<1>3. \A key \in Names : \E i \in L : sent.fields[i][1] = key
  BY <1>1, LastExists
<1>4. FieldsOf(sent, K) = {<<sent.fields[i][1], sent.fields[i][4]>> : i \in L}
  BY DEF FieldsOf
<1> HIDE DEF K, L, Names
<1>5. FieldsOf(sent, K) = {<<key, Resp!LastOf(key)>> : key \in Names}
  BY <1>2, <1>3, <1>4
<1> QED BY <1>5 DEF K, Names

LEMMA InvReads == ParserInv => Resp!ReadsWhatWasSent
<1> SUFFICES ASSUME ParserInv, pc = "parsed"
             PROVE  /\ code = sent.code /\ message = sent.message
                    /\ parsedHeaders = {<<key, Resp!LastOf(key)>> :
                         key \in {sent.fields[k][1] : k \in DOMAIN sent.fields}}
                    /\ it = Len(Resp!Header(sent)) + 1
  BY DEF Resp!ReadsWhatWasSent
<1>1. /\ code = sent.code /\ message = sent.message /\ it = Len(Resp!Header(sent)) + 1
      /\ parsedHeaders = FieldsOf(sent, Len(sent.fields)) /\ Reads(sent, LinesAt(sent))
  BY DEF ParserInv, StatusRead
<1>2. IsResponse(sent)
  BY <1>1 DEF Reads
<1> QED BY <1>1, <1>2, AllFields

-------------------------------------------------------------------------------
(* ResponseCopies *)

\* Memory is no object, and None is neither.
Memory ==
  /\ Copies!None \notin Responses \cup Blocks \cup Copies!Kinds
  /\ Blocks \cap Responses = {}

LEMMA MemoryIs == Memory
BY HttpAssumption DEF Memory, Copies!None, Copies!Kinds

PlacesTyped ==
  /\ kind \in [Responses -> Copies!Kinds \cup {Copies!None}]
  /\ place \in [Responses -> Blocks \cup Responses \cup {Copies!None}]
  /\ view \in [Responses -> Blocks \cup Responses \cup {Copies!None}]

Apart ==
  /\ \A r \in Responses : place[r] \in Responses => place[r] = r
  /\ \A r \in Responses : kind[r] = Copies!None => place[r] = Copies!None
  /\ \A r \in Responses : place[r] = r <=> kind[r] = "short string"
  /\ \A q, r \in Responses : place[q] = place[r] /\ place[r] # Copies!None => q = r

Placed == PlacesTyped /\ Apart

CopiesInv == Placed /\ Copies!ViewsStayValid

LEMMA InitCopies == Memory /\ Copies!Init => CopiesInv
BY DEF Memory, Copies!Init, CopiesInv, Placed, PlacesTyped, Apart, Copies!ViewsStayValid, Copies!Kinds

\* Where Room puts a text, no other one is.
LEMMA RoomIsFree ==
  ASSUME Memory, Placed, NEW r \in Responses, NEW k \in Copies!Kinds, NEW p \in Copies!Room(r, k)
  PROVE  /\ p \in Blocks \cup Responses
         /\ p = r \/ p \in Blocks
         /\ p = r <=> k = "short string"
         /\ \A q \in Responses \ {r} : place[q] # p
<1>1. CASE k = "short string"
  BY <1>1 DEF Memory, Placed, PlacesTyped, Apart, Copies!Room
<1>2. CASE k # "short string"
  BY <1>2 DEF Memory, Placed, PlacesTyped, Apart, Copies!Room
<1> QED BY <1>1, <1>2

\* A text that is put where no other one is leaves every text in its place.
LEMMA PutInv ==
  ASSUME Memory, CopiesInv, NEW r \in Responses, NEW k \in Copies!Kinds,
         NEW p, p = r \/ p \in Blocks, p = r <=> k = "short string",
         \A q \in Responses \ {r} : place[q] # p,
         kind' = [kind EXCEPT ![r] = k], place' = [place EXCEPT ![r] = p],
         NEW v \in Blocks \cup Responses \cup {Copies!None}, view' = [view EXCEPT ![r] = v],
         derived \ {r} \subseteq derived', v = p \/ r \in derived'
  PROVE  CopiesInv'
<1> USE DEF Memory, CopiesInv
<1>1. /\ kind'[r] = k /\ place'[r] = p /\ view'[r] = v
      /\ p \in Blocks \cup Responses /\ p # Copies!None /\ k # Copies!None
      /\ \A q \in Responses \ {r} : kind'[q] = kind[q] /\ place'[q] = place[q] /\ view'[q] = view[q]
  BY ZenonT(40) DEF Placed, PlacesTyped, Apart
<1>2. Placed'
  <2>1. /\ kind' \in [Responses -> Copies!Kinds \cup {Copies!None}]
        /\ place' \in [Responses -> Blocks \cup Responses \cup {Copies!None}]
        /\ view' \in [Responses -> Blocks \cup Responses \cup {Copies!None}]
    BY <1>1 DEF Placed, PlacesTyped, Apart
  <2>2. \A q \in Responses : /\ place'[q] \in Responses => place'[q] = q
                             /\ kind'[q] = Copies!None => place'[q] = Copies!None
                             /\ place'[q] = q <=> kind'[q] = "short string"
    BY <1>1 DEF Placed, PlacesTyped, Apart
  <2>3. \A q, u \in Responses : place'[q] = place'[u] /\ place'[q] # Copies!None => q = u
    BY <1>1, ZenonT(40) DEF Placed, PlacesTyped, Apart
  <2> QED BY <2>1, <2>2, <2>3 DEF Placed, PlacesTyped, Apart
<1>3. Copies!ViewsStayValid'
  <2>1. SUFFICES ASSUME NEW q \in Responses, kind'[q] # Copies!None, q \notin derived'
                 PROVE  /\ view'[q] = place'[q] /\ place'[q] # Copies!None
                        /\ \A u \in Responses \ {q} : place'[u] # place'[q]
    BY DEF Copies!ViewsStayValid
  <2>2. view'[q] = place'[q] /\ place'[q] # Copies!None
    BY <1>1, <2>1 DEF Copies!ViewsStayValid
  <2> QED BY <1>2, <2>2 DEF Placed, PlacesTyped, Apart
<1> QED BY <1>2, <1>3

\* from() puts its text where no other one is, and parses it there.
LEMMA FromKeeps ==
  ASSUME Memory, CopiesInv, NEW r \in Responses, NEW k \in Copies!Kinds, Copies!From(r, k)
  PROVE  CopiesInv'
<1>1. PICK p \in Copies!Room(r, k) : /\ place' = [place EXCEPT ![r] = p]
                              /\ view' = [view EXCEPT ![r] = p]
  BY DEF Copies!From, Copies!Parsed
<1>2. /\ p = r \/ p \in Blocks
      /\ p = r <=> k = "short string"
      /\ \A q \in Responses \ {r} : place[q] # p
  BY <1>1, RoomIsFree DEF CopiesInv
<1> QED BY <1>1, <1>2, PutInv DEF Copies!From

\* A copy has a place of its own, or writes into the one it had.
LEMMA CopyKeeps ==
  ASSUME Memory, CopiesInv, NEW q \in Responses, NEW r \in Responses, Copies!Copy(q, r)
  PROVE  CopiesInv'
<1>1. PICK p \in Copies!Room(q, kind[r]) \cup (IF kind[r] = kind[q] THEN {place[q]} \ {Copies!None} ELSE {}) :
        place' = [place EXCEPT ![q] = p]
  BY DEF Copies!Copy
<1>2. kind[r] \in Copies!Kinds /\ view[r] \in Blocks \cup Responses \cup {Copies!None}
  <2>1. kind[r] # Copies!None
    BY DEF Copies!Copy
  <2> QED BY <2>1 DEF CopiesInv, Placed, PlacesTyped, Copies!Kinds
<1>3. /\ p = q \/ p \in Blocks
      /\ p = q <=> kind[r] = "short string"
      /\ \A u \in Responses \ {q} : place[u] # p
  <2>1. CASE p \in Copies!Room(q, kind[r])
    BY <1>2, <2>1, RoomIsFree DEF CopiesInv
  <2>2. CASE kind[r] = kind[q] /\ p = place[q] /\ p # Copies!None
    BY <2>2 DEF Memory, CopiesInv, Placed, PlacesTyped, Apart
  <2> QED BY <1>1, <2>1, <2>2
<1> QED BY <1>1, <1>2, <1>3, PutInv DEF Copies!Copy

\* A block changes hands with the views of it; a short text does not.
LEMMA MoveKeeps ==
  ASSUME Memory, CopiesInv, NEW q \in Responses, NEW r \in Responses, Copies!Move(q, r)
  PROVE  CopiesInv'
<1>1. CASE kind[r] = "short string"
  <2>1. /\ view[r] \in Blocks \cup Responses \cup {Copies!None}
        /\ \A u \in Responses \ {q} : place[u] # q
        /\ kind[r] \in Copies!Kinds
    BY <1>1 DEF Memory, CopiesInv, Placed, PlacesTyped, Apart, Copies!Kinds
  <2>2. /\ kind' = [kind EXCEPT ![q] = kind[r]] /\ place' = [place EXCEPT ![q] = q]
        /\ view' = [view EXCEPT ![q] = view[r]] /\ derived' = derived \cup {q, r}
    BY <1>1 DEF Copies!Move
  <2> QED BY <1>1, <2>1, <2>2, PutInv
<1>2. CASE kind[r] # "short string"
  <2>1. /\ q # r /\ kind'[q] = kind[r] /\ place'[q] = place[r] /\ place'[r] = Copies!None
        /\ view'[q] = view[r] /\ view'[r] = view[r] /\ kind'[r] = kind[r]
        /\ kind[r] \in Copies!Kinds /\ kind[r] # Copies!None
        /\ \A u \in Responses \ {q, r} :
             kind'[u] = kind[u] /\ place'[u] = place[u] /\ view'[u] = view[u]
        /\ place[r] \notin Responses
        /\ derived' = IF r \in derived THEN derived \cup {q, r} ELSE (derived \ {q}) \cup {r}
    BY <1>2, ZenonT(40) DEF Memory, CopiesInv, Placed, PlacesTyped, Apart, Copies!Move
  <2>2. Placed'
    <3>1. /\ kind' \in [Responses -> Copies!Kinds \cup {Copies!None}]
          /\ place' \in [Responses -> Blocks \cup Responses \cup {Copies!None}]
          /\ view' \in [Responses -> Blocks \cup Responses \cup {Copies!None}]
      BY <1>2 DEF CopiesInv, Placed, PlacesTyped, Apart, Copies!Move
    <3>2. Apart
      BY DEF CopiesInv, Placed
    <3>3. ASSUME NEW u \in Responses
          PROVE  /\ place'[u] \in Responses => place'[u] = u
                 /\ kind'[u] = Copies!None => place'[u] = Copies!None
                 /\ place'[u] = u <=> kind'[u] = "short string"
      <4>1. CASE u = q
        BY <1>2, <2>1, <4>1
      <4>2. CASE u = r
        BY <1>2, <2>1, <4>2 DEF Memory
      <4>3. CASE u \notin {q, r}
        <5>1. kind'[u] = kind[u] /\ place'[u] = place[u]
          BY <2>1, <4>3
        <5> QED BY <3>2, <5>1 DEF Apart
      <4> QED BY <4>1, <4>2, <4>3
    <3>4. ASSUME NEW u \in Responses, NEW v \in Responses,
                 place'[u] = place'[v], place'[u] # Copies!None
          PROVE  u = v
      <4>1. u # r /\ v # r
        BY <2>1, <3>4
      <4>2. /\ place'[u] = IF u = q THEN place[r] ELSE place[u]
            /\ place'[v] = IF v = q THEN place[r] ELSE place[v]
        BY <2>1, <4>1
      <4>3. \A w, x \in Responses : place[w] = place[x] /\ place[w] # Copies!None => w = x
        BY <3>2 DEF Apart
      <4> QED BY <3>4, <4>1, <4>2, <4>3
    <3> QED BY <3>1, <3>3, <3>4 DEF Placed, PlacesTyped, Apart
  <2>3. Copies!ViewsStayValid'
    <3>1. SUFFICES ASSUME NEW u \in Responses, kind'[u] # Copies!None, u \notin derived'
                   PROVE  /\ view'[u] = place'[u] /\ place'[u] # Copies!None
                          /\ \A v \in Responses \ {u} : place'[v] # place'[u]
      BY DEF Copies!ViewsStayValid
    <3>2. view'[u] = place'[u] /\ place'[u] # Copies!None
      BY <2>1, <3>1 DEF CopiesInv, Copies!ViewsStayValid
    <3> QED BY <2>2, <3>2 DEF Placed, PlacesTyped, Apart
  <2> QED BY <2>2, <2>3 DEF CopiesInv
<1> QED BY <1>1, <1>2

LEMMA DestroyKeeps == ASSUME Memory, CopiesInv, NEW r \in Responses, Copies!Destroy(r) PROVE CopiesInv'
BY ZenonT(40) DEF Memory, CopiesInv, Placed, PlacesTyped, Apart, Copies!Kinds, Copies!Destroy, Copies!ViewsStayValid

LEMMA NextCopiesInv == Memory /\ CopiesInv /\ [Copies!Next]_copies => CopiesInv'
<1> SUFFICES ASSUME Memory, CopiesInv, [Copies!Next]_copies PROVE CopiesInv'
  OBVIOUS
<1>1. CASE \E r \in Responses, k \in Copies!Kinds : Copies!From(r, k)
  BY <1>1, FromKeeps
<1>2. CASE \E q, r \in Responses : Copies!Copy(q, r) \/ Copies!Move(q, r)
  BY <1>2, CopyKeeps, MoveKeeps
<1>3. CASE \E r \in Responses : Copies!Destroy(r)
  BY <1>3, DestroyKeeps
<1>4. CASE UNCHANGED copies
  BY <1>4 DEF copies, CopiesInv, Placed, PlacesTyped, Apart, Copies!ViewsStayValid
<1> QED BY <1>1, <1>2, <1>3, <1>4 DEF Copies!Next

-------------------------------------------------------------------------------
(* How a server takes a text apart *)

LEMMA StandsIsAt ==
  ASSUME NEW str, NEW S, NEW sep \in Seq(S), NEW n \in Nat
  PROVE  Stands(sep, str, n) <=> n + Len(sep) <= Len(str) /\ Req!IsAt(str, sep, n + 1)
<1>1. Len(sep) \in Nat /\ DOMAIN sep = 1 .. Len(sep)
  BY LenProperties
<1>2. \A k \in 1 .. Len(sep) : (n + 1) + k - 1 = n + k
  OBVIOUS
<1>3. Req!IsAt(str, sep, n + 1) <=>
        (n + 1) + Len(sep) <= Len(str) + 1 /\ \A k \in 1 .. Len(sep) : str[n + k] = sep[k]
  BY <1>1, <1>2 DEF Req!IsAt
<1> QED BY <1>1, <1>3 DEF Stands

LEMMA FirstPlace ==
  ASSUME NEW I, I \subseteq Nat, I # {}
  PROVE  Req!Min(I) \in I /\ \A i \in I : Req!Min(I) <= i
<1>1. \E x \in I : \A y \in I : x <= y
  BY Least, Zenon
<1> QED BY <1>1 DEF Req!Min

LEMMA FindRange ==
  ASSUME NEW str, Len(str) \in Nat, NEW sep, Len(sep) \in Nat \ {0}, NEW i \in 1 .. Len(str) + 1
  PROVE  /\ Req!Find(str, sep, i) \in i .. Len(str) + 1
         /\ Req!Find(str, sep, i) <= Len(str) =>
              Req!Find(str, sep, i) + Len(sep) \in i + 1 .. Len(str) + 1
<1> DEFINE I == {j \in i .. Len(str) : Req!IsAt(str, sep, j)}
<1>1. Req!Find(str, sep, i) = IF I = {} THEN Len(str) + 1 ELSE Req!Min(I)
  BY DEF Req!Find
<1>2. CASE I = {}
  <2> HIDE DEF I
  <2> QED BY <1>1, <1>2
<1>3. CASE I # {}
  <2>1. I \subseteq Nat
    OBVIOUS
  <2>2. Req!Min(I) \in I
    BY <1>3, <2>1, FirstPlace
  <2>3. Req!Find(str, sep, i) \in I
    BY <1>1, <1>3, <2>2
  <2>4. \A j \in I : j \in i .. Len(str) /\ j + Len(sep) <= Len(str) + 1
    BY DEF Req!IsAt
  <2> HIDE DEF I
  <2>5. PICK j : j = Req!Find(str, sep, i) /\ j \in i .. Len(str) /\ j + Len(sep) <= Len(str) + 1
    BY <2>3, <2>4
  <2> QED BY <2>5
<1> QED BY <1>2, <1>3

LEMMA FindIs ==
  ASSUME NEW str, Len(str) \in Nat, NEW sep, NEW i \in Nat \ {0}, NEW m \in i .. Len(str) + 1,
         \A j \in i .. m - 1 : ~Req!IsAt(str, sep, j),
         m = Len(str) + 1 \/ Req!IsAt(str, sep, m)
  PROVE  Req!Find(str, sep, i) = m
<1> DEFINE I == {j \in i .. Len(str) : Req!IsAt(str, sep, j)}
<1>1. Req!Find(str, sep, i) = IF I = {} THEN Len(str) + 1 ELSE Req!Min(I)
  BY DEF Req!Find
<1>2. \A j \in I : j \in Nat /\ j >= m /\ j <= Len(str)
  <2>1. ASSUME NEW j \in I PROVE j \in Nat /\ j >= m /\ j <= Len(str)
    <3>1. j \in i .. Len(str) /\ j \notin i .. m - 1
      OBVIOUS
    <3> QED BY <3>1
  <2> QED BY <2>1
<1>3. CASE I = {}
  <2>1. m \notin i .. Len(str)
    BY <1>3
  <2>2. m = Len(str) + 1
    BY <2>1
  <2> QED BY <1>1, <1>3, <2>2
<1>4. CASE I # {}
  <2>1. m \in I
    <3>1. m <= Len(str)
      BY <1>2, <1>4
    <3> QED BY <3>1
  <2> HIDE DEF I
  <2>2. Req!Min(I) \in I /\ Req!Min(I) <= m
    BY <1>2, <1>4, <2>1, FirstPlace
  <2>3. Req!Min(I) \in Nat /\ Req!Min(I) >= m
    BY <1>2, <2>2
  <2> QED BY <1>1, <1>4, <2>2, <2>3
<1> QED BY <1>3, <1>4

\* Behind a part without the separator's first character, the separator or the end is found.
LEMMA FindBehind ==
  ASSUME NEW S, NEW str \in Seq(S), NEW sep \in Seq(S), Len(sep) # 0, NEW u, NEW n,
         Stands(u, str, n), \A j \in 1 .. Len(u) : u[j] # sep[1],
         NEW m, m = n + Len(u), m = Len(str) \/ Stands(sep, str, m)
  PROVE  Req!Find(str, sep, n + 1) = m + 1
<1>1. /\ Len(str) \in Nat /\ Len(sep) \in Nat \ {0} /\ DOMAIN sep = 1 .. Len(sep)
      /\ n \in Nat /\ Len(u) \in Nat /\ n + Len(u) <= Len(str)
  BY LenProperties DEF Stands
<1>2. n + 1 \in Nat \ {0} /\ m \in Nat /\ m + 1 \in n + 1 .. Len(str) + 1
  BY <1>1
<1>3. ASSUME NEW j \in n + 1 .. (m + 1) - 1 PROVE ~Req!IsAt(str, sep, j)
  <2>1. j - n \in 1 .. Len(u) /\ n + (j - n) = j /\ 1 \in DOMAIN sep /\ j + 1 - 1 = j
    BY <1>1
  <2>2. str[j] = u[j - n]
    BY <2>1 DEF Stands
  <2> QED BY <2>1, <2>2 DEF Req!IsAt
<1>4. m + 1 = Len(str) + 1 \/ Req!IsAt(str, sep, m + 1)
  BY <1>2, StandsIsAt
<1> QED BY <1>1, <1>2, <1>3, <1>4, FindIs

\* What stands in a text is the text between its places.
LEMMA StandsCut ==
  ASSUME NEW S, NEW str \in Seq(S), NEW u \in Seq(S), NEW n, Stands(u, str, n)
  PROVE  SubSeq(str, n + 1, n + Len(u)) = u
<1> DEFINE v == SubSeq(str, n + 1, n + Len(u))
<1>1. n \in Nat /\ Len(u) \in Nat /\ n + Len(u) <= Len(str) /\ Len(str) \in Nat
  BY LenProperties DEF Stands
<1>2. \A j \in n + 1 .. n + Len(u) : str[j] \in S
  <2>1. \A j \in n + 1 .. n + Len(u) : j \in 1 .. Len(str)
    BY <1>1
  <2> QED BY <2>1, ElementOfSeq
<1>3. /\ v \in Seq(S)
      /\ Len(v) = IF n + 1 <= n + Len(u) THEN (n + Len(u)) - (n + 1) + 1 ELSE 0
      /\ \A j \in 1 .. (n + Len(u)) - (n + 1) + 1 : v[j] = str[(n + 1) + j - 1]
  <2>1. n + 1 \in Int /\ n + Len(u) \in Int
    BY <1>1
  <2> QED BY <1>2, <2>1, SubSeqProperties
<1> HIDE DEF v
<1>4. Len(v) = Len(u)
  BY <1>1, <1>3
<1>5. ASSUME NEW j \in 1 .. Len(u) PROVE v[j] = u[j]
  <2>1. j \in 1 .. (n + Len(u)) - (n + 1) + 1 /\ (n + 1) + j - 1 = n + j
    BY <1>1
  <2>2. v[j] = str[n + j]
    BY <1>3, <2>1
  <2> QED BY <2>2 DEF Stands
<1>6. v = u
  BY <1>3, <1>4, <1>5, SeqEqual
<1> QED BY <1>6 DEF v

\* The parts of str, by the places they are looked for at.
Cuts(g, str, sep, a) ==
  g = [i \in a .. Len(str) + 1 |->
         <<SubSeq(str, i, Req!Find(str, sep, i) - 1)>> \o
           IF Req!Find(str, sep, i) > Len(str) THEN <<>>
           ELSE g[Req!Find(str, sep, i) + Len(sep)]]

LEMMA CutsExists ==
  ASSUME NEW str, Len(str) \in Nat, NEW sep, Len(sep) \in Nat \ {0}
  PROVE  \E g : Cuts(g, str, sep, 1)
<1> DEFINE N == Len(str) + 1
           At(i) == Req!Find(str, sep, i)
           Piece(i) == <<SubSeq(str, i, At(i) - 1)>>
           T == {a \in 1 .. N + 1 : \E g : Cuts(g, str, sep, a)}
<1>0. \A i \in 1 .. N : At(i) > Len(str) \/ (At(i) + Len(sep) \in i + 1 .. N)
  BY FindRange, SMTT(30)
<1> HIDE DEF At
<1>1. N + 1 \in T
  <2> DEFINE g == [i \in N + 1 .. N |-> <<>>]
  <2>1. N + 1 .. Len(str) + 1 = {}
    OBVIOUS
  <2>2. Cuts(g, str, sep, N + 1)
    BY <2>1 DEF Cuts
  <2>3. N + 1 \in 1 .. N + 1
    OBVIOUS
  <2> HIDE DEF g, N
  <2> QED BY <2>2, <2>3
<1>2. ASSUME NEW a \in 1 .. N, a + 1 \in T PROVE a \in T
  <2>1. PICK h : Cuts(h, str, sep, a + 1)
    BY <1>2
  <2> DEFINE Right(i) == IF At(i) > Len(str) THEN <<>> ELSE h[At(i) + Len(sep)]
             g == [i \in a .. N |-> IF i = a THEN Piece(a) \o Right(a) ELSE h[i]]
  <2>2. ASSUME NEW i \in a .. N
        PROVE  g[i] = Piece(i) \o IF At(i) > Len(str) THEN <<>> ELSE g[At(i) + Len(sep)]
    <3>1. ASSUME ~(At(i) > Len(str)) PROVE g[At(i) + Len(sep)] = h[At(i) + Len(sep)]
      <4>1. At(i) + Len(sep) \in i + 1 .. N
        BY <1>0, <3>1
      <4>2. At(i) + Len(sep) \in a .. N /\ At(i) + Len(sep) # a
        BY <4>1
      <4> QED BY <4>2
    <3>2. CASE i = a
      <4>1. g[i] = Piece(i) \o Right(i)
        BY <3>2
      <4> HIDE DEF g, Piece
      <4> QED BY <3>1, <4>1
    <3>3. CASE i # a
      <4>1. i \in a + 1 .. N /\ g[i] = h[i]
        BY <3>3
      <4>2. h[i] = Piece(i) \o IF At(i) > Len(str) THEN <<>> ELSE h[At(i) + Len(sep)]
        BY <2>1, <4>1 DEF Cuts, At
      <4> HIDE DEF g, Piece
      <4> QED BY <3>1, <4>1, <4>2
    <3> QED BY <3>2, <3>3
  <2>3. Cuts(g, str, sep, a)
    BY <2>2, ZenonT(30) DEF Cuts, At
  <2>4. a \in 1 .. N + 1
    OBVIOUS
  <2> HIDE DEF g
  <2> QED BY <2>3, <2>4
<1> HIDE DEF T
<1>3. 1 .. N + 1 \subseteq T
  <2>1. 1 \in Int /\ N + 1 \in Int /\ (N + 1) - 1 = N
    OBVIOUS
  <2>2. \A a \in 1 .. (N + 1) - 1 : a + 1 \in T => a \in T
    BY <1>2, <2>1
  <2> HIDE DEF N
  <2> QED BY <1>1, <2>1, <2>2, Downwards
<1>4. 1 \in T
  BY <1>3
<1> QED BY <1>4 DEF T

LEMMA SplitCuts ==
  ASSUME NEW str, Len(str) \in Nat, NEW sep, Len(sep) \in Nat \ {0}
  PROVE  \E g : Cuts(g, str, sep, 1) /\ Req!Split(str, sep) = g[1]
<1> DEFINE g == CHOOSE h : Cuts(h, str, sep, 1)
<1>1. Cuts(g, str, sep, 1)
  BY CutsExists, Zenon
<1>2. Req!Split(str, sep) = g[1]
  BY DEF Req!Split, Cuts
<1> HIDE DEF g
<1> QED BY <1>1, <1>2

\* str is the pieces with sep between them, piece k behind at[k] characters.
Spaced(str, sep, pieces, at) ==
  /\ at \in [1 .. Len(pieces) -> Nat] /\ at[1] = 0
  /\ \A k \in 1 .. Len(pieces) :
       Stands(pieces[k], str, at[k]) /\ \A j \in 1 .. Len(pieces[k]) : pieces[k][j] # sep[1]
  /\ \A k \in 1 .. Len(pieces) - 1 :
       /\ Stands(sep, str, at[k] + Len(pieces[k]))
       /\ at[k + 1] = at[k] + Len(pieces[k]) + Len(sep)
  /\ at[Len(pieces)] + Len(pieces[Len(pieces)]) = Len(str)

LEMMA SplitIs ==
  ASSUME NEW S, NEW str \in Seq(S), NEW sep \in Seq(S), Len(sep) # 0,
         NEW pieces \in Seq(Seq(S)), Len(pieces) # 0, NEW at, Spaced(str, sep, pieces, at)
  PROVE  Req!Split(str, sep) = pieces
<1> DEFINE n == Len(pieces)
\* q is the pieces from the k-th on.
           Rest(q, k) == /\ q \in Seq(Seq(S)) /\ Len(q) = n - k + 1
                         /\ \A j \in 1 .. n - k + 1 : q[j] = pieces[(k - 1) + j]
<1>1. /\ Len(str) \in Nat /\ Len(sep) \in Nat \ {0} /\ n \in Nat \ {0}
      /\ \A k \in 1 .. n : pieces[k] \in Seq(S) /\ Len(pieces[k]) \in Nat /\ at[k] \in Nat
  <2>1. \A k \in 1 .. n : pieces[k] \in Seq(S) /\ at[k] \in Nat
    BY ElementOfSeq DEF Spaced
  <2> QED BY <2>1, LenProperties
<1>2. PICK g : Cuts(g, str, sep, 1) /\ Req!Split(str, sep) = g[1]
  BY <1>1, SplitCuts
<1>3. ASSUME NEW k \in 1 .. n
      PROVE  g[at[k] + 1] = <<pieces[k]>> \o IF k = n THEN <<>> ELSE g[at[k + 1] + 1]
  <2> DEFINE m == at[k] + Len(pieces[k]) + 1
  <2>1. /\ Stands(pieces[k], str, at[k]) /\ at[k] + Len(pieces[k]) <= Len(str)
        /\ \A j \in 1 .. Len(pieces[k]) : pieces[k][j] # sep[1]
    BY DEF Spaced, Stands
  <2>2. k # n => /\ Stands(sep, str, at[k] + Len(pieces[k]))
                 /\ at[k + 1] = at[k] + Len(pieces[k]) + Len(sep)
                 /\ at[k] + Len(pieces[k]) + Len(sep) <= Len(str)
    <3>1. k # n => k \in 1 .. n - 1
      BY <1>1
    <3> QED BY <3>1 DEF Spaced, Stands
  <2>3. k = n => at[k] + Len(pieces[k]) = Len(str)
    BY DEF Spaced
  <2>4. Req!Find(str, sep, at[k] + 1) = m
    <3>1. at[k] + Len(pieces[k]) = Len(str) \/ Stands(sep, str, at[k] + Len(pieces[k]))
      BY <2>2, <2>3
    <3> DEFINE u == pieces[k]
               o == at[k]
               p == o + Len(u)
    <3>2. /\ Stands(u, str, o) /\ \A j \in 1 .. Len(u) : u[j] # sep[1]
          /\ p = o + Len(u) /\ (p = Len(str) \/ Stands(sep, str, p))
      BY <2>1, <3>1
    <3>3. m = p + 1
      OBVIOUS
    <3> HIDE DEF u, o, p, m
    <3>4. Len(sep) # 0
      BY <1>1
    <3>5. Req!Find(str, sep, o + 1) = p + 1
      BY <3>2, <3>4, FindBehind
    <3> QED BY <3>3, <3>5 DEF o
  <2>5. SubSeq(str, at[k] + 1, m - 1) = pieces[k]
    <3>1. m - 1 = at[k] + Len(pieces[k])
      BY <1>1
    <3>2. SubSeq(str, at[k] + 1, at[k] + Len(pieces[k])) = pieces[k]
      BY <1>1, <2>1, StandsCut
    <3> QED BY <3>1, <3>2
  <2>6. at[k] + 1 \in 1 .. Len(str) + 1
    BY <1>1, <2>1
  <2>7. g[at[k] + 1] = <<pieces[k]>> \o IF m > Len(str) THEN <<>> ELSE g[m + Len(sep)]
    BY <1>2, <2>4, <2>5, <2>6, ZenonT(40) DEF Cuts
  <2>8. k = n => m > Len(str)
    BY <1>1, <2>3
  <2>9. k # n => ~(m > Len(str)) /\ m + Len(sep) = at[k + 1] + 1
    BY <1>1, <2>2, SMTT(30)
  <2> QED BY <2>7, <2>8, <2>9
<1> DEFINE T == {k \in 1 .. n : Rest(g[at[k] + 1], k)}
<1>4. n \in T
  <2>1. <<pieces[n]>> \in Seq(Seq(S)) /\ <<pieces[n]>> \o <<>> = <<pieces[n]>>
    BY <1>1, ConcatEmptySeq
  <2>2. g[at[n] + 1] = <<pieces[n]>>
    <3> HIDE DEF n
    <3>1. n \in 1 .. n
      BY <1>1
    <3>2. g[at[n] + 1] = <<pieces[n]>> \o IF n = n THEN <<>> ELSE g[at[n + 1] + 1]
      BY <1>3, <3>1
    <3> QED BY <2>1, <3>2
  <2>3. Rest(<<pieces[n]>>, n)
    <3>1. Len(<<pieces[n]>>) = 1 /\ n - n + 1 = 1 /\ <<pieces[n]>>[1] = pieces[n] /\ (n - 1) + 1 = n
      BY <1>1
    <3>2. \A j \in 1 .. 1 : j = 1
      OBVIOUS
    <3> HIDE DEF n
    <3> QED BY <2>1, <3>1, <3>2
  <2> HIDE DEF n, Rest
  <2>4. n \in 1 .. n
    BY <1>1
  <2>5. Rest(g[at[n] + 1], n)
    BY <2>2, <2>3, Zenon
  <2> QED BY <2>4, <2>5
<1>5. ASSUME NEW k \in 1 .. n - 1, k + 1 \in T PROVE k \in T
  <2> DEFINE q == g[at[k + 1] + 1]
             r == g[at[k] + 1]
  <2>1. k \in 1 .. n /\ k # n /\ k + 1 \in 1 .. n
    BY <1>1
  <2>2. Rest(q, k + 1) /\ r = <<pieces[k]>> \o q
    BY <1>3, <1>5, <2>1
  <2> HIDE DEF q, r
  <2>3. /\ r \in Seq(Seq(S)) /\ Len(r) = Len(q) + 1 /\ r[1] = pieces[k]
        /\ \A j \in 1 .. Len(q) : r[j + 1] = q[j]
    <3> DEFINE U == Seq(S)
               x == pieces[k]
    <3>1. q \in Seq(U) /\ x \in U /\ r = <<x>> \o q
      BY <1>1, <2>1, <2>2
    <3> HIDE DEF U, x, n, T, Rest
    <3>2. /\ <<x>> \o q \in Seq(U) /\ Len(<<x>> \o q) = Len(q) + 1 /\ (<<x>> \o q)[1] = x
          /\ \A j \in 1 .. Len(q) : (<<x>> \o q)[j + 1] = q[j]
      BY <3>1, ConsIs
    <3> QED BY <3>1, <3>2 DEF U, x
  <2>4. /\ Len(q) = n - (k + 1) + 1
        /\ \A j \in 1 .. n - (k + 1) + 1 : q[j] = pieces[((k + 1) - 1) + j]
    BY <2>2
  <2> HIDE DEF n
  <2>5. Len(q) = n - k /\ Len(r) = n - k + 1
    BY <1>1, <2>3, <2>4
  <2>6. ASSUME NEW j \in 1 .. n - k + 1 PROVE r[j] = pieces[(k - 1) + j]
    <3>1. CASE j = 1
      BY <2>3, <3>1
    <3>2. CASE j # 1
      <4>1. j - 1 \in 1 .. Len(q) /\ (j - 1) + 1 = j /\ ((k + 1) - 1) + (j - 1) = (k - 1) + j
        BY <1>1, <2>5, <3>2
      <4>2. r[(j - 1) + 1] = q[j - 1] /\ q[j - 1] = pieces[((k + 1) - 1) + (j - 1)]
        BY <2>3, <2>4, <2>5, <4>1
      <4> QED BY <4>1, <4>2
    <3> QED BY <3>1, <3>2
  <2>7. Rest(r, k)
    BY <2>3, <2>5, <2>6
  <2> HIDE DEF Rest
  <2> QED BY <2>1, <2>7 DEF r
<1> HIDE DEF T
<1>6. 1 .. n \subseteq T
  <2>1. 1 \in Int /\ n \in Int
    BY <1>1
  <2>2. \A k \in 1 .. n - 1 : k + 1 \in T => k \in T
    BY <1>5
  <2> HIDE DEF n
  <2> QED BY <1>4, <2>1, <2>2, Downwards
<1>7. 1 \in T
  <2> HIDE DEF n
  <2> QED BY <1>1, <1>6
<1>8. g[1] \in Seq(Seq(S)) /\ Len(g[1]) = n /\ \A j \in 1 .. n : g[1][j] = pieces[j]
  <2>1. at[1] + 1 = 1 /\ n - 1 + 1 = n /\ \A j \in 1 .. n : (1 - 1) + j = j
    BY <1>1 DEF Spaced
  <2>2. Rest(g[at[1] + 1], 1)
    BY <1>7 DEF T
  <2> HIDE DEF n
  <2> QED BY <2>1, <2>2
<1>9. g[1] = pieces
  BY <1>8, SeqEqual
<1> QED BY <1>2, <1>9

\* A separator behind a text without its first character; the text alone.
LEMMA BeforeAfter ==
  ASSUME NEW S, NEW u \in Seq(S), NEW sep \in Seq(S), NEW v \in Seq(S), Len(sep) # 0,
         \A j \in 1 .. Len(u) : u[j] # sep[1]
  PROVE  /\ u \o sep \o v \in Seq(S)
         /\ Req!Find(u \o sep \o v, sep, 1) = Len(u) + 1
         /\ Len(u) + 1 <= Len(u \o sep \o v)
         /\ Req!Before(u \o sep \o v, sep) = u
         /\ Req!After(u \o sep \o v, sep) = v
         /\ Req!Find(u, sep, 1) = Len(u) + 1 /\ Req!Before(u, sep) = u
<1> DEFINE a == u \o sep
           w == a \o v
<1>1. Len(u) \in Nat /\ Len(sep) \in Nat \ {0} /\ Len(v) \in Nat
  BY LenProperties
<1>2. Stands(u, u, 0)
  BY <1>1 DEF Stands
<1>3. /\ a \in Seq(S) /\ Len(a) = Len(u) + Len(sep) /\ Stands(u, a, 0) /\ Stands(sep, a, Len(u))
  BY <1>2, ConcatProperties, StandsLeft, StandsRight
<1> HIDE DEF a
<1>4. /\ w \in Seq(S) /\ Len(w) = Len(a) + Len(v) /\ Stands(u, w, 0) /\ Stands(sep, w, Len(u))
      /\ Stands(v, w, Len(a))
  BY <1>3, ConcatProperties, StandsLeft, StandsRight
<1> HIDE DEF w
<1>5. Req!Find(w, sep, 1) = Len(u) + 1
  <2>1. ASSUME NEW n, n = 0 PROVE Req!Find(w, sep, n + 1) = Len(u) + 1
    <3>1. Len(u) = n + Len(u) /\ Stands(u, w, n)
      BY <1>1, <1>4, <2>1
    <3> QED BY <1>4, <3>1, FindBehind
  <2> QED BY <2>1
<1>6. Req!Before(w, sep) = u
  <2>1. SubSeq(w, 0 + 1, 0 + Len(u)) = u
    BY <1>4, StandsCut
  <2>2. 0 + Len(u) = (Len(u) + 1) - 1 /\ 0 + 1 = 1
    BY <1>1
  <2> QED BY <1>5, <2>1, <2>2 DEF Req!Before
<1>7. Req!After(w, sep) = v
  <2>1. SubSeq(w, Len(a) + 1, Len(a) + Len(v)) = v
    BY <1>4, StandsCut
  <2>2. Len(a) + 1 = (Len(u) + 1) + Len(sep)
    BY <1>1, <1>3
  <2> QED BY <1>4, <1>5, <2>1, <2>2 DEF Req!After
<1>8. Req!Find(u, sep, 1) = Len(u) + 1
  <2>1. ASSUME NEW n, n = 0 PROVE Req!Find(u, sep, n + 1) = Len(u) + 1
    <3>1. Len(u) = n + Len(u) /\ Stands(u, u, n)
      BY <1>1, <1>2, <2>1
    <3> QED BY <1>2, <3>1, FindBehind
  <2> QED BY <2>1
<1>9. Req!Before(u, sep) = u
  <2>1. SubSeq(u, 1, Len(u)) = u
    BY SubSeqFull
  <2>2. (Len(u) + 1) - 1 = Len(u)
    BY <1>1
  <2> QED BY <1>8, <2>1, <2>2 DEF Req!Before
<1>10. Len(u) + 1 <= Len(w)
  BY <1>1, <1>3, <1>4
<1> QED BY <1>4, <1>5, <1>6, <1>7, <1>8, <1>9, <1>10 DEF w, a

-------------------------------------------------------------------------------
(* What a request is made of *)

\* The texts without the characters of C.
Without(C) == Seq(Int \ C)

LEMMA WithoutLess == ASSUME NEW C, NEW D, D \subseteq C, NEW u \in Without(C) PROVE u \in Without(D)
<1>1. Int \ C \subseteq Int \ D
  OBVIOUS
<1> QED BY <1>1, SeqMonotonic DEF Without

LEMMA WithoutIs ==
  ASSUME NEW C, NEW u \in Without(C)
  PROVE  Len(u) \in Nat /\ \A j \in 1 .. Len(u) : u[j] \in Int /\ u[j] \notin C
<1>1. Len(u) \in Nat /\ \A j \in 1 .. Len(u) : u[j] \in Int \ C
  BY LenProperties, ElementOfSeq DEF Without
<1> QED BY <1>1

\* A text of bytes that lacks the characters of C.
LEMMA LacksIs ==
  ASSUME NEW C, NEW u \in Seq(Char), Req!Lacks(u, C) PROVE u \in Without(C)
<1>1. Len(u) \in Nat /\ DOMAIN u = 1 .. Len(u) /\ \A j \in 1 .. Len(u) : u[j] \in Char
  BY LenProperties, ElementOfSeq
<1>2. \A j \in 1 .. Len(u) : u[j] \notin C
  BY <1>1 DEF Req!Lacks
<1>3. \A x \in Char : x \in Int
  BY DEF Char
<1>4. \A j \in 1 .. Len(u) : u[j] \in Int \ C
  BY <1>1, <1>2, <1>3, Zenon
<1>5. u = [j \in 1 .. Len(u) |-> u[j]]
  BY <1>1
<1> DEFINE S == Int \ C
<1>6. \A j \in 1 .. Len(u) : u[j] \in S
  BY <1>4
<1> HIDE DEF S
<1>7. u \in [1 .. Len(u) -> S]
  BY <1>5, <1>6
<1>8. u \in Seq(S)
  BY <1>1, <1>7
<1> QED BY <1>8 DEF S, Without

LEMMA RequestChars ==
  /\ Req!Space = 32 /\ Req!CR = 13 /\ Req!LF = 10 /\ Req!Question = 63 /\ Req!Ampersand = 38
  /\ Req!Colon = 58 /\ Req!Equal = 61 /\ Req!Dot = 46
BY DEF Req!Space, Req!CR, Req!LF, Req!Question, Req!Ampersand, Req!Colon, Req!Equal, Req!Dot

LEMMA OneChar ==
  ASSUME NEW C, NEW c \in Int, c \notin C
  PROVE  <<c>> \in Without(C) /\ Len(<<c>>) = 1 /\ <<c>>[1] = c
<1>1. c \in Int \ C
  OBVIOUS
<1> QED BY <1>1 DEF Without

LEMMA JoinedWithout ==
  ASSUME NEW C, NEW u \in Without(C), NEW v \in Without(C) PROVE u \o v \in Without(C)
BY ConcatProperties DEF Without

LEMMA UrlWithout ==
  ASSUME NEW str \in Seq(0 .. 255)
  PROVE  Req!UrlEncode(str) \in Without(Reserved) /\ Req!UrlDecode(Req!UrlEncode(str)) = str
<1>1. \A x : Req!HexOf(x) = HexOf(x)
  BY DEF Req!HexOf, HexOf, Req!Digit, Digit
<1>2. \A q : Req!FlattenSeq(q) = FlattenSeq(q)
  BY DEF Req!FlattenSeq, FlattenSeq
<1>3. Req!AllowedCharacters = AllowedCharacters /\ Req!Percent = Percent
  BY DEF Req!AllowedCharacters, AllowedCharacters, Req!Alnum, Alnum, Req!Extra, Extra, Req!Nul, Nul,
         Req!Percent, Percent
<1>4. Req!UrlEncode(str) = UrlEncode(str)
  BY <1>1, <1>2, <1>3 DEF Req!UrlEncode, UrlEncode
<1>5. Req!UrlDecode(UrlEncode(str)) = UrlDecode(UrlEncode(str))
  BY DEF Req!UrlDecode, UrlDecode, Req!EscapeLength, EscapeLength, Req!Percent, Percent,
         Req!Plus, Plus, Req!Space, Space, Req!CharAt, CharAt, Req!Nul, Nul, Req!StrToByte,
         StrToByte, Req!HexDigits, HexDigits, Req!DigitValue, DigitValue, Req!Minus, Minus
<1>6. UrlEncode(str) \in Without(Reserved)
  <2> DEFINE w == UrlEncode(str)
  <2>1. w \in Seq(Int) /\ \A j \in 1 .. Len(w) : w[j] \notin Reserved
    BY UrlLaidOut, UrlIsSafe
  <2> HIDE DEF w
  <2>2. Len(w) \in Nat /\ w \in [1 .. Len(w) -> Int]
    BY <2>1, LenProperties
  <2>3. w \in [1 .. Len(w) -> Int \ Reserved]
    BY <2>1, <2>2
  <2>4. w \in Seq(Int \ Reserved)
    BY <2>2, <2>3
  <2> QED BY <2>4 DEF w, Without
<1> QED BY <1>4, <1>5, <1>6, UrlRoundTrip

\* A pair of the query, encoded.
IsPair(p) == p[1] \in Without(Reserved) /\ p[2] \in Without(Reserved)

LEMMA PairReads ==
  ASSUME NEW p, IsPair(p)
  PROVE  /\ Req!PairOf(p) \in Without({13, 32, 38, 63})
         /\ Req!Before(Req!PairOf(p), <<Req!Equal>>) = p[1]
         /\ Req!After(Req!PairOf(p), <<Req!Equal>>) = p[2]
<1> DEFINE C == {13, 32, 38, 63}
<1>1. p[1] \in Without(C) /\ p[2] \in Without(C)
  <2>1. C \subseteq Reserved
    BY DEF Reserved
  <2> QED BY <2>1, WithoutLess DEF IsPair
<1>2. <<61>> \in Without(C) /\ Len(<<61>>) # 0 /\ <<61>>[1] = 61
  BY OneChar
<1>3. \A j \in 1 .. Len(p[1]) : p[1][j] # <<61>>[1]
  <2>1. 61 \in Reserved
    BY DEF Reserved
  <2> QED BY <1>2, <2>1, WithoutIs DEF IsPair
<1>4. /\ p[1] \o <<61>> \o p[2] \in Seq(Int \ C)
      /\ Req!Before(p[1] \o <<61>> \o p[2], <<61>>) = p[1]
      /\ Req!After(p[1] \o <<61>> \o p[2], <<61>>) = p[2]
  <2> DEFINE a == p[1]
             b == p[2]
             sep == <<61>>
  <2>1. /\ a \in Seq(Int \ C) /\ b \in Seq(Int \ C) /\ sep \in Seq(Int \ C) /\ Len(sep) # 0
        /\ \A j \in 1 .. Len(a) : a[j] # sep[1]
    BY <1>1, <1>2, <1>3 DEF Without
  <2> HIDE DEF a, b, sep, C
  <2>2. /\ a \o sep \o b \in Seq(Int \ C)
        /\ Req!Before(a \o sep \o b, sep) = a /\ Req!After(a \o sep \o b, sep) = b
    BY <2>1, BeforeAfter
  <2> QED BY <2>2 DEF a, b, sep
<1> QED BY <1>4, RequestChars DEF Req!PairOf, Without

\* What stands between the pairs.
QueryParts(q) ==
  [k \in DOMAIN q |-> (IF k = 1 THEN <<>> ELSE <<Req!Ampersand>>) \o Req!PairOf(q[k])]

LEMMA QueryReads ==
  ASSUME NEW q, Len(q) \in Nat \ {0}, DOMAIN q = 1 .. Len(q),
         \A k \in 1 .. Len(q) : IsPair(q[k])
  PROVE  /\ Req!QueryOf(q) \in Without({13, 32, 63})
         /\ Req!Split(Req!QueryOf(q), <<Req!Ampersand>>) = [k \in 1 .. Len(q) |-> Req!PairOf(q[k])]
<1> DEFINE n == Len(q)
           w == Req!QueryOf(q)
           S == Int \ {13, 32, 63}
           pairs == [k \in 1 .. n |-> Req!PairOf(q[k])]
           parts == QueryParts(q)
<1>1. \A k \in 1 .. n : pairs[k] \in Seq(S) /\ Len(pairs[k]) \in Nat
                         /\ \A j \in 1 .. Len(pairs[k]) : pairs[k][j] # 38
  <2>1. ASSUME NEW k \in 1 .. n
        PROVE  pairs[k] \in Seq(S) /\ Len(pairs[k]) \in Nat
               /\ \A j \in 1 .. Len(pairs[k]) : pairs[k][j] # 38
    <3>1. pairs[k] = Req!PairOf(q[k]) /\ pairs[k] \in Without({13, 32, 38, 63})
      BY PairReads
    <3>2. {13, 32, 63} \subseteq {13, 32, 38, 63} /\ 38 \in {13, 32, 38, 63}
      OBVIOUS
    <3> HIDE DEF pairs
    <3> QED BY <3>1, <3>2, WithoutLess, WithoutIs DEF Without
  <2> QED BY <2>1
<1>2. <<38>> \in Seq(S) /\ Len(<<38>>) = 1 /\ <<38>>[1] = 38
  BY OneChar DEF Without
<1>3. /\ DOMAIN parts = 1 .. n
      /\ \A k \in 1 .. n : parts[k] = (IF k = 1 THEN <<>> ELSE <<38>>) \o pairs[k]
  BY RequestChars DEF QueryParts
<1> HIDE DEF pairs, S
<1>4. parts[1] = pairs[1]
  <2>1. 1 \in 1 .. n
    OBVIOUS
  <2>2. <<>> \o pairs[1] = pairs[1]
    BY <1>1, <2>1, ConcatEmptySeq
  <2> QED BY <1>3, <2>1, <2>2
<1>5. \A k \in 2 .. n : /\ parts[k] = <<38>> \o pairs[k] /\ parts[k] \in Seq(S)
                        /\ Len(parts[k]) = 1 + Len(pairs[k])
                        /\ Stands(pairs[k], parts[k], 1) /\ Stands(<<38>>, parts[k], 0)
  <2>1. ASSUME NEW k \in 2 .. n
        PROVE  /\ parts[k] = <<38>> \o pairs[k] /\ parts[k] \in Seq(S)
               /\ Len(parts[k]) = 1 + Len(pairs[k])
               /\ Stands(pairs[k], parts[k], 1) /\ Stands(<<38>>, parts[k], 0)
    <3>1. k \in 1 .. n /\ k # 1
      OBVIOUS
    <3>2. parts[k] = <<38>> \o pairs[k] /\ pairs[k] \in Seq(S)
      BY <1>1, <1>3, <3>1
    <3>3. Stands(<<38>>, <<38>>, 0)
      BY <1>2 DEF Stands
    <3>4. /\ <<38>> \o pairs[k] \in Seq(S)
          /\ Len(<<38>> \o pairs[k]) = Len(<<38>>) + Len(pairs[k])
          /\ Stands(pairs[k], <<38>> \o pairs[k], Len(<<38>>))
          /\ Stands(<<38>>, <<38>> \o pairs[k], 0)
      BY <1>2, <3>2, <3>3, Joined, Zenon
    <3> HIDE DEF parts
    <3> QED BY <1>2, <3>2, <3>4
  <2> QED BY <2>1
<1>6. parts \in Seq(Seq(S)) /\ Len(parts) = n
  <2>1. \A k \in 1 .. n : parts[k] \in Seq(S)
    <3>1. \A k \in 1 .. n : k = 1 \/ k \in 2 .. n
      OBVIOUS
    <3> HIDE DEF parts, n
    <3> QED BY <1>1, <1>4, <1>5, <3>1
  <2>2. parts \in [1 .. n -> Seq(S)]
    BY <1>3, <2>1 DEF QueryParts
  <2> HIDE DEF parts
  <2> QED BY <2>2
<1>7. w \in Seq(S) /\ \E off : LaidOut(w, parts, off)
  <2>1. w = FlattenSeq(parts)
    <3>1. \A x : Req!FlattenSeq(x) = FlattenSeq(x)
      BY DEF Req!FlattenSeq, FlattenSeq
    <3> QED BY <3>1 DEF Req!QueryOf, QueryParts
  <2> HIDE DEF w, parts
  <2> QED BY <1>6, <2>1, FlattenIs, FlattenLaysOut
<1> HIDE DEF w, parts
<1>8. PICK off : LaidOut(w, parts, off)
  BY <1>7
<1> DEFINE at == [k \in 1 .. n |-> IF k = 1 THEN 0 ELSE off[k - 1] + 1]
<1>9. /\ off[0] = 0 /\ off[n] = Len(w) /\ \A k \in 0 .. n : off[k] \in Nat
      /\ \A k \in 1 .. n : off[k] = off[k - 1] + Len(parts[k]) /\ Stands(parts[k], w, off[k - 1])
  BY <1>6, <1>8 DEF LaidOut
<1>10. \A k \in 1 .. n : /\ at[k] \in Nat /\ at[k] + Len(pairs[k]) = off[k]
                         /\ Stands(pairs[k], w, at[k])
                         /\ k # 1 => Stands(<<38>>, w, off[k - 1])
  <2>1. ASSUME NEW k \in 1 .. n
        PROVE  /\ at[k] \in Nat /\ at[k] + Len(pairs[k]) = off[k]
               /\ Stands(pairs[k], w, at[k])
               /\ k # 1 => Stands(<<38>>, w, off[k - 1])
    <3>1. /\ k - 1 \in 0 .. n /\ off[k - 1] \in Nat /\ off[k] = off[k - 1] + Len(parts[k])
          /\ Stands(parts[k], w, off[k - 1]) /\ Len(w) \in Nat /\ Len(pairs[k]) \in Nat
      BY <1>1, <1>7, <1>9, LenProperties
    <3>2. at[k] = IF k = 1 THEN 0 ELSE off[k - 1] + 1
      OBVIOUS
    <3> HIDE DEF at
    <3>3. CASE k = 1
      BY <1>4, <1>9, <3>1, <3>2, <3>3
    <3>4. CASE k # 1
      <4>1. /\ Len(parts[k]) = 1 + Len(pairs[k])
            /\ Stands(pairs[k], parts[k], 1) /\ Stands(<<38>>, parts[k], 0)
        <5>1. k \in 2 .. n
          BY <3>4
        <5> QED BY <1>5, <5>1
      <4>2. Stands(pairs[k], w, off[k - 1] + 1) /\ Stands(<<38>>, w, off[k - 1] + 0)
        BY <3>1, <4>1, StandsInPart, Zenon
      <4>3. off[k - 1] + 0 = off[k - 1]
        BY <3>1
      <4>4. at[k] = off[k - 1] + 1
        BY <3>2, <3>4
      <4>5. off[k - 1] + 1 \in Nat /\ (off[k - 1] + 1) + Len(pairs[k]) = off[k]
        <5>1. off[k - 1] \in Nat /\ Len(pairs[k]) \in Nat /\ off[k] = off[k - 1] + (1 + Len(pairs[k]))
          BY <3>1, <4>1
        <5>2. \A x, y \in Nat : x + 1 \in Nat /\ (x + 1) + y = x + (1 + y)
          OBVIOUS
        <5> QED BY <5>1, <5>2, Zenon
      <4>6. Stands(<<38>>, w, off[k - 1]) /\ Stands(pairs[k], w, at[k])
        BY <4>2, <4>3, <4>4, Zenon
      <4>7. at[k] \in Nat /\ at[k] + Len(pairs[k]) = off[k]
        BY <4>4, <4>5
      <4> QED BY <4>6, <4>7
    <3> QED BY <3>3, <3>4
  <2> QED BY <2>1
<1>11. Spaced(w, <<38>>, pairs, at)
  <2>1. Len(pairs) = n /\ 1 \in 1 .. n /\ n \in 1 .. n
    BY DEF pairs
  <2>2. at \in [1 .. n -> Nat] /\ at[1] = 0
    <3>1. \A k \in 1 .. n : at[k] \in Nat
      BY <1>10
    <3> QED BY <2>1, <3>1
  <2>3. \A k \in 1 .. n - 1 : k \in 1 .. n /\ k + 1 \in 1 .. n /\ k + 1 # 1 /\ (k + 1) - 1 = k
    OBVIOUS
  <2>4. \A k \in 1 .. n - 1 : at[k + 1] = off[k] + 1
    <3>1. ASSUME NEW k \in 1 .. n - 1 PROVE at[k + 1] = off[k] + 1
      <4>1. k + 1 \in 1 .. n /\ k + 1 # 1 /\ (k + 1) - 1 = k
        BY <2>3
      <4>2. at[k + 1] = off[(k + 1) - 1] + 1
        BY <4>1
      <4> QED BY <4>1, <4>2
    <3> QED BY <3>1
  <2> HIDE DEF at, n
  <2>5. \A k \in 1 .. n - 1 : /\ Stands(<<38>>, w, at[k] + Len(pairs[k]))
                              /\ at[k + 1] = at[k] + Len(pairs[k]) + Len(<<38>>)
    <3>1. ASSUME NEW k \in 1 .. n - 1
          PROVE  /\ Stands(<<38>>, w, at[k] + Len(pairs[k]))
                 /\ at[k + 1] = at[k] + Len(pairs[k]) + Len(<<38>>)
      <4>1. /\ k \in 1 .. n /\ k + 1 \in 1 .. n /\ k + 1 # 1 /\ (k + 1) - 1 = k
            /\ at[k + 1] = off[k] + 1
        BY <2>3, <2>4
      <4>2. at[k] + Len(pairs[k]) = off[k]
        BY <1>10, <4>1
      <4>3. Stands(<<38>>, w, off[(k + 1) - 1])
        BY <1>10, <4>1
      <4> QED BY <1>2, <4>1, <4>2, <4>3
    <3> QED BY <3>1
  <2> QED BY <1>1, <1>2, <1>9, <1>10, <2>1, <2>2, <2>5 DEF Spaced
<1>12. Req!Split(w, <<38>>) = pairs
  <2>1. pairs \in Seq(Seq(S)) /\ Len(pairs) # 0
    <3>1. pairs \in [1 .. n -> Seq(S)]
      BY <1>1 DEF pairs
    <3> QED BY <3>1
  <2>2. Len(<<38>>) # 0
    BY <1>2
  <2> HIDE DEF at
  <2> QED BY <1>2, <1>7, <1>11, <2>1, <2>2, SplitIs
<1> QED BY <1>7, <1>12, RequestChars DEF w, pairs, S, Without

\* A field of a header.
IsHeader(f) ==
  /\ f = <<f[1], f[2]>> /\ f[1] \in Without({13, 58}) /\ f[2] \in Without({13})

LEMMA HeaderReads ==
  ASSUME NEW f, IsHeader(f)
  PROVE  /\ Req!FieldLine(f) \in Without({13}) /\ Len(Req!FieldLine(f)) # 0
         /\ Req!Before(Req!FieldLine(f), <<Req!Colon, Req!Space>>) = f[1]
         /\ Req!After(Req!FieldLine(f), <<Req!Colon, Req!Space>>) = f[2]
<1> DEFINE S == Int \ {13}
           a == f[1]
           b == f[2]
           sep == <<58, 32>>
           w == a \o sep \o b
<1>1. a \in Seq(S) /\ b \in Seq(S)
  <2>1. {13} \subseteq {13, 58}
    OBVIOUS
  <2> QED BY <2>1, WithoutLess DEF IsHeader, Without
<1>2. sep \in Seq(S) /\ Len(sep) # 0 /\ sep[1] = 58
  OBVIOUS
<1>3. \A j \in 1 .. Len(a) : a[j] # sep[1]
  BY <1>2, WithoutIs DEF IsHeader
<1>4. Req!FieldLine(f) = w
  BY RequestChars DEF Req!FieldLine
<1> HIDE DEF a, b, sep, S
<1>5. /\ w \in Seq(S) /\ Req!Before(w, sep) = a /\ Req!After(w, sep) = b
      /\ Len(a) + 1 <= Len(w)
  <2>1. /\ a \in Seq(S) /\ b \in Seq(S) /\ sep \in Seq(S) /\ Len(sep) # 0
        /\ \A j \in 1 .. Len(a) : a[j] # sep[1]
    BY <1>1, <1>2, <1>3
  <2>2. w \in Seq(S) /\ Len(a) + 1 <= Len(w)
    BY <2>1, BeforeAfter
  <2>3. Req!Before(w, sep) = a /\ Req!After(w, sep) = b
    BY <2>1, BeforeAfter
  <2> QED BY <2>2, <2>3
<1>6. Len(a) \in Nat
  BY <1>1, LenProperties
<1> HIDE DEF w
<1>7. Len(w) # 0
  BY <1>5, <1>6
<1> QED BY <1>4, <1>5, <1>7, RequestChars DEF a, b, sep, S, Without

\* The decimals of the request module: module TextProofs.
LEMMA ReqDecimals ==
  ASSUME NEW n
  PROVE  /\ Req!Digits(n) = Digits(n) /\ Req!Number(n) = Number(n)
         /\ Req!Decimal(n) = IF n < 0 THEN <<45>> \o Digits(-n) ELSE Digits(n)
<1>1. \A m : Req!Digits(m) = Digits(m)
  BY Zenon DEF Req!Digits, Digits
<1>2. Req!Number(n) = Number(n)
  BY Zenon DEF Req!Number, Number
<1>3. Req!Hyphen = 45
  BY DEF Req!Hyphen
<1> QED BY <1>1, <1>2, <1>3, Zenon DEF Req!Decimal

LEMMA DecimalWithout ==
  ASSUME NEW n \in Int, NEW C, C \cap 48 .. 57 = {}, 45 \notin C PROVE Req!Decimal(n) \in Without(C)
<1>1. ASSUME NEW m \in Nat PROVE Digits(m) \in Without(C)
  <2>1. \A x \in 48 .. 57 : x \in Int
    OBVIOUS
  <2>2. 48 .. 57 \subseteq Int \ C
    BY <2>1, Zenon
  <2> QED BY <2>2, DigitsRead, SeqMonotonic DEF Without
<1>2. CASE n < 0
  <2>1. -n \in Nat
    BY <1>2
  <2>2. <<45>> \in Without(C)
    BY OneChar
  <2>3. <<45>> \o Digits(-n) \in Without(C)
    BY <1>1, <2>1, <2>2, JoinedWithout
  <2> QED BY <1>2, <2>3, ReqDecimals
<1>3. CASE ~(n < 0)
  <2>1. n \in Nat
    BY <1>3
  <2> QED BY <1>1, <1>3, <2>1, ReqDecimals
<1> QED BY <1>2, <1>3

LEMMA VersionWithout ==
  ASSUME NEW line, line.major \in Int, line.minor \in Int
  PROVE  Req!Version(line) \in Without({13, 32})
<1> DEFINE C == {13, 32}
<1>1. Req!Protocol \in Without(C)
  BY DEF Req!Protocol, Without
<1>2. <<Req!Dot>> \in Without(C)
  BY OneChar, RequestChars
<1>3. C \cap 48 .. 57 = {} /\ 45 \notin C
  OBVIOUS
<1>4. Req!Decimal(line.major) \in Without(C) /\ Req!Decimal(line.minor) \in Without(C)
  BY <1>3, DecimalWithout
<1> HIDE DEF C
<1>5. Req!Protocol \o Req!Decimal(line.major) \in Without(C)
  BY <1>1, <1>4, JoinedWithout
<1>6. Req!Protocol \o Req!Decimal(line.major) \o <<Req!Dot>> \in Without(C)
  BY <1>2, <1>5, JoinedWithout
<1>7. Req!Version(line) \in Without(C)
  BY <1>4, <1>6, JoinedWithout DEF Req!Version
<1> QED BY <1>7 DEF C

\* Three words, with a blank between them.
LEMMA WordsRead ==
  ASSUME NEW m \in Without({13, 32}), NEW t \in Without({13, 32}), NEW v \in Without({13, 32})
  PROVE  /\ m \o <<32>> \o t \o <<32>> \o v \in Without({13})
         /\ Len(m \o <<32>> \o t \o <<32>> \o v) # 0
         /\ Req!Split(m \o <<32>> \o t \o <<32>> \o v, <<32>>) = <<m, t, v>>
<1> DEFINE S == Int \ {13}
           sep == <<32>>
           a == m \o sep
           b == a \o t
           c == b \o sep
           w == c \o v
           p == Len(m) + 1
           q == p + Len(t) + 1
           at == [k \in 1 .. 3 |-> IF k = 1 THEN 0 ELSE IF k = 2 THEN p ELSE q]
           pieces == <<m, t, v>>
<1>1. /\ m \in Seq(S) /\ t \in Seq(S) /\ v \in Seq(S)
      /\ Len(m) \in Nat /\ Len(t) \in Nat /\ Len(v) \in Nat
  <2>1. {13} \subseteq {13, 32}
    OBVIOUS
  <2>2. m \in Without({13}) /\ t \in Without({13}) /\ v \in Without({13})
    BY <2>1, WithoutLess
  <2> QED BY <2>2, WithoutIs DEF Without
<1>2. sep \in Seq(S) /\ Len(sep) = 1 /\ sep[1] = 32
  BY OneChar DEF Without
<1>3. /\ \A j \in 1 .. Len(m) : m[j] # sep[1]
      /\ \A j \in 1 .. Len(t) : t[j] # sep[1]
      /\ \A j \in 1 .. Len(v) : v[j] # sep[1]
  BY <1>2, WithoutIs
<1> HIDE DEF S, sep
<1>4. Stands(m, m, 0)
  BY <1>1 DEF Stands
<1>5. /\ a \in Seq(S) /\ Len(a) = p /\ Stands(m, a, 0) /\ Stands(sep, a, Len(m))
  BY <1>1, <1>2, <1>4, Joined
<1> HIDE DEF a
<1>6. /\ b \in Seq(S) /\ Len(b) = p + Len(t) /\ Stands(m, b, 0) /\ Stands(sep, b, Len(m))
      /\ Stands(t, b, p)
  BY <1>1, <1>5, Joined
<1> HIDE DEF b
<1>7. /\ c \in Seq(S) /\ Len(c) = q /\ Stands(m, c, 0) /\ Stands(sep, c, Len(m))
      /\ Stands(t, c, p) /\ Stands(sep, c, p + Len(t))
  <2>1. /\ c \in Seq(S) /\ Len(c) = Len(b) + Len(sep) /\ Stands(sep, c, Len(b))
        /\ \A s, n : Stands(s, b, n) => Stands(s, c, n)
    BY <1>2, <1>6, Joined
  <2> HIDE DEF c
  <2>2. Len(c) = q
    BY <1>2, <1>6, <2>1
  <2> HIDE DEF p, q
  <2> QED BY <1>6, <2>1, <2>2
<1> HIDE DEF c
<1>8. /\ w \in Seq(S) /\ Len(w) = q + Len(v) /\ Stands(m, w, 0) /\ Stands(sep, w, Len(m))
      /\ Stands(t, w, p) /\ Stands(sep, w, p + Len(t)) /\ Stands(v, w, q)
  BY <1>1, <1>7, Joined
<1> HIDE DEF w
<1>9. p \in Nat /\ q \in Nat /\ q > 0
  BY <1>1
<1>10. /\ pieces \in Seq(Seq(S)) /\ Len(pieces) = 3
       /\ pieces[1] = m /\ pieces[2] = t /\ pieces[3] = v
  BY <1>1
<1>11. at \in [1 .. 3 -> Nat] /\ at[1] = 0 /\ at[2] = p /\ at[3] = q
  <2> HIDE DEF p, q
  <2> QED BY <1>9
<1> HIDE DEF at, pieces
<1>12. Spaced(w, sep, pieces, at)
  <2>1. \A k \in 1 .. 3 : /\ Stands(pieces[k], w, at[k])
                          /\ \A j \in 1 .. Len(pieces[k]) : pieces[k][j] # sep[1]
    <3>1. \A k \in 1 .. 3 : k = 1 \/ k = 2 \/ k = 3
      OBVIOUS
    <3> HIDE DEF p, q
    <3> QED BY <1>3, <1>8, <1>10, <1>11, <3>1
  <2>2. \A k \in 1 .. 3 - 1 : /\ Stands(sep, w, at[k] + Len(pieces[k]))
                              /\ at[k + 1] = at[k] + Len(pieces[k]) + Len(sep)
    <3>1. \A k \in 1 .. 3 - 1 : k = 1 \/ k = 2
      OBVIOUS
    <3>2. at[1] + Len(pieces[1]) = Len(m) /\ at[2] + Len(pieces[2]) = p + Len(t)
      BY <1>1, <1>10, <1>11
    <3>3. at[1 + 1] = Len(m) + Len(sep) /\ at[2 + 1] = p + Len(t) + Len(sep)
      BY <1>1, <1>2, <1>11
    <3> HIDE DEF p, q
    <3> QED BY <1>8, <3>1, <3>2, <3>3
  <2>3. at[3] + Len(pieces[3]) = Len(w)
    BY <1>8, <1>10, <1>11
  <2> HIDE DEF p, q
  <2> QED BY <1>10, <1>11, <2>1, <2>2, <2>3 DEF Spaced
<1>13. Req!Split(w, sep) = pieces
  <2>1. Len(sep) # 0 /\ Len(pieces) # 0
    BY <1>2, <1>10
  <2> QED BY <1>2, <1>8, <1>10, <1>12, <2>1, SplitIs
<1>14. Len(w) # 0
  BY <1>1, <1>8, <1>9
<1> QED BY <1>8, <1>13, <1>14 DEF w, c, b, a, sep, S, pieces, Without

\* A text behind another one, each put together of its parts.
LEMMA LaidOutJoined ==
  ASSUME NEW S, NEW a \in Seq(S), NEW b \in Seq(S), NEW P \in Seq(Seq(S)), NEW Q \in Seq(Seq(S)),
         NEW f, NEW g, LaidOut(a, P, f), LaidOut(b, Q, g)
  PROVE  \E off : LaidOut(a \o b, P \o Q, off)
<1> DEFINE p == Len(P)
           q == Len(Q)
           w == a \o b
           R == P \o Q
           off == [k \in 0 .. p + q |-> IF k <= p THEN f[k] ELSE Len(a) + g[k - p]]
<1>1. p \in Nat /\ q \in Nat /\ Len(a) \in Nat /\ Len(b) \in Nat
  BY LenProperties
<1>2. /\ f[0] = 0 /\ f[p] = Len(a) /\ g[0] = 0 /\ g[q] = Len(b)
      /\ \A k \in 0 .. p : f[k] \in Nat
      /\ \A k \in 0 .. q : g[k] \in Nat
      /\ \A k \in 1 .. p : f[k] = f[k - 1] + Len(P[k]) /\ Stands(P[k], a, f[k - 1])
      /\ \A k \in 1 .. q : g[k] = g[k - 1] + Len(Q[k]) /\ Stands(Q[k], b, g[k - 1])
  BY DEF LaidOut
<1>3. /\ w \in Seq(S) /\ Len(w) = Len(a) + Len(b) /\ Stands(b, w, Len(a))
      /\ \A s, n : Stands(s, a, n) => Stands(s, w, n)
  BY Joined
<1>4. /\ Len(R) = p + q
      /\ \A k \in 1 .. p + q : R[k] = IF k <= p THEN P[k] ELSE Q[k - p]
  BY ConcatProperties
<1> HIDE DEF w, R
<1>5. \A k \in 0 .. p : off[k] = f[k]
  BY <1>1
<1>6. \A k \in 0 .. q : off[p + k] = Len(a) + g[k]
  <2>1. ASSUME NEW k \in 0 .. q PROVE off[p + k] = Len(a) + g[k]
    <3>1. CASE k = 0
      <4>1. off[p + k] = f[p] /\ Len(a) + g[k] = Len(a)
        BY <1>1, <1>2, <3>1
      <4> QED BY <1>2, <4>1
    <3>2. CASE k # 0
      <4>1. p + k \in 0 .. p + q /\ ~(p + k <= p) /\ (p + k) - p = k
        BY <1>1, <3>2
      <4> QED BY <4>1
    <3> QED BY <3>1, <3>2
  <2> QED BY <2>1
<1>7. off \in [0 .. p + q -> Nat]
  <2>1. ASSUME NEW k \in 0 .. p + q PROVE (IF k <= p THEN f[k] ELSE Len(a) + g[k - p]) \in Nat
    <3>1. CASE k <= p
      <4>1. k \in 0 .. p
        BY <1>1, <3>1
      <4> QED BY <1>2, <3>1, <4>1
    <3>2. CASE ~(k <= p)
      <4>1. k - p \in 0 .. q
        BY <1>1, <3>2
      <4>2. g[k - p] \in Nat
        BY <1>2, <4>1
      <4> QED BY <1>1, <3>2, <4>2
    <3> QED BY <3>1, <3>2
  <2> QED BY <2>1
<1> HIDE DEF off
<1>8. ASSUME NEW k \in 1 .. p + q
      PROVE  off[k] = off[k - 1] + Len(R[k]) /\ Stands(R[k], w, off[k - 1])
  <2>1. CASE k <= p
    <3>1. k \in 1 .. p /\ k \in 0 .. p /\ k - 1 \in 0 .. p
      BY <1>1, <2>1
    <3>2. off[k] = f[k] /\ off[k - 1] = f[k - 1] /\ R[k] = P[k]
      BY <1>4, <1>5, <2>1, <3>1
    <3>3. f[k] = f[k - 1] + Len(P[k]) /\ Stands(P[k], a, f[k - 1])
      BY <1>2, <3>1
    <3>4. Stands(P[k], w, f[k - 1])
      BY <1>3, <3>3
    <3> QED BY <3>2, <3>3, <3>4
  <2>2. CASE ~(k <= p)
    <3> DEFINE m == k - p
    <3>1. m \in 1 .. q /\ m \in 0 .. q /\ m - 1 \in 0 .. q /\ p + m = k /\ p + (m - 1) = k - 1
      BY <1>1, <2>2
    <3>2. R[k] = Q[m]
      BY <1>4, <2>2
    <3> HIDE DEF m
    <3>3. off[k] = Len(a) + g[m] /\ off[k - 1] = Len(a) + g[m - 1]
      BY <1>6, <3>1
    <3>4. g[m] = g[m - 1] + Len(Q[m]) /\ Stands(Q[m], b, g[m - 1])
      BY <1>2, <3>1
    <3>5. Stands(Q[m], w, Len(a) + g[m - 1])
      <4>1. Len(w) \in Nat
        BY <1>1, <1>3
      <4> QED BY <1>3, <3>4, <4>1, StandsInPart, Zenon
    <3>6. Len(a) + g[m] = (Len(a) + g[m - 1]) + Len(Q[m])
      <4>1. g[m - 1] \in Nat /\ Len(Q[m]) \in Nat
        BY <1>2, <3>1, <3>4 DEF Stands
      <4> QED BY <1>1, <3>4, <4>1
    <3> QED BY <3>2, <3>3, <3>5, <3>6
  <2> QED BY <2>1, <2>2
<1>9. off[0] = 0 /\ off[p + q] = Len(w)
  <2>1. off[0] = f[0] /\ off[p + q] = Len(a) + g[q]
    BY <1>1, <1>5, <1>6
  <2> QED BY <1>2, <1>3, <2>1
<1>10. LaidOut(w, R, off)
  BY <1>4, <1>7, <1>8, <1>9 DEF LaidOut
<1> QED BY <1>10 DEF w, R

LEMMA BreakIs ==
  /\ Req!EOL = <<13, 10>> /\ Req!EOL \in Seq(Int) /\ Len(Req!EOL) = 2
  /\ Req!EOL[1] = 13 /\ Req!EOL[2] = 10
  /\ Req!EOL \o Req!EOL \in Seq(Int) /\ Len(Req!EOL \o Req!EOL) = 4
  /\ (Req!EOL \o Req!EOL)[1] = 13 /\ (Req!EOL \o Req!EOL)[2] = 10
  /\ (Req!EOL \o Req!EOL)[3] = 13 /\ (Req!EOL \o Req!EOL)[4] = 10
<1>1. /\ Req!EOL = <<13, 10>> /\ Req!EOL \in Seq(Int) /\ Len(Req!EOL) = 2
      /\ Req!EOL[1] = 13 /\ Req!EOL[2] = 10
  BY RequestChars DEF Req!EOL
<1> DEFINE e == Req!EOL
<1> HIDE DEF e
<1>2. /\ e \o e \in Seq(Int) /\ Len(e \o e) = 2 + 2
      /\ \A i \in 1 .. 2 + 2 : (e \o e)[i] = IF i <= 2 THEN e[i] ELSE e[i - 2]
  BY <1>1, ConcatProperties DEF e
<1>3. (e \o e)[1] = e[1] /\ (e \o e)[2] = e[2] /\ (e \o e)[3] = e[1] /\ (e \o e)[4] = e[2]
  BY <1>2
<1> QED BY <1>1, <1>2, <1>3 DEF e

\* The lines of a header, each with its end behind it, stand in a.
LinesStand(a, lines, off) ==
  /\ lines \in Seq(Seq(Int)) /\ Len(lines) \in Nat \ {0}
  /\ \A k \in 1 .. Len(lines) : lines[k] \in Without({13}) /\ Len(lines[k]) \in Nat \ {0}
  /\ off[0] = 0 /\ off[Len(lines)] = Len(a)
  /\ \A k \in 0 .. Len(lines) : off[k] \in Nat /\ off[k] <= Len(a)
  /\ \A k \in 1 .. Len(lines) :
       /\ off[k] = off[k - 1] + Len(lines[k]) + 2
       /\ Stands(lines[k], a, off[k - 1]) /\ Stands(Req!EOL, a, off[k] - 2)
  /\ \A j \in 1 .. Len(a) : \E k \in 1 .. Len(lines) : j \in off[k - 1] + 1 .. off[k]

LEMMA LinesDoStand ==
  ASSUME NEW lines \in Seq(Seq(Int)), Len(lines) # 0,
         \A k \in 1 .. Len(lines) : lines[k] \in Without({13}) /\ Len(lines[k]) # 0,
         NEW a \in Seq(Int), NEW off, NEW parts, Len(parts) = Len(lines),
         \A k \in 1 .. Len(lines) : parts[k] = lines[k] \o Req!EOL, LaidOut(a, parts, off)
  PROVE  LinesStand(a, lines, off)
<1> DEFINE n == Len(lines)
<1>1. /\ n \in Nat \ {0} /\ Len(a) \in Nat
      /\ \A k \in 1 .. n : lines[k] \in Seq(Int) /\ Len(lines[k]) \in Nat \ {0}
  BY LenProperties, ElementOfSeq
<1>2. \A k \in 1 .. n : /\ Len(parts[k]) = Len(lines[k]) + 2
                        /\ Stands(lines[k], parts[k], 0)
                        /\ Stands(Req!EOL, parts[k], Len(lines[k]))
  <2>1. ASSUME NEW k \in 1 .. n
        PROVE  /\ Len(parts[k]) = Len(lines[k]) + 2
               /\ Stands(lines[k], parts[k], 0)
               /\ Stands(Req!EOL, parts[k], Len(lines[k]))
    <3>1. Stands(lines[k], lines[k], 0)
      BY <1>1 DEF Stands
    <3>2. parts[k] = lines[k] \o Req!EOL /\ lines[k] \in Seq(Int)
      BY <1>1
    <3> DEFINE u == lines[k]
               e == Req!EOL
    <3>3. u \in Seq(Int) /\ e \in Seq(Int) /\ Stands(u, u, 0)
      BY <3>1, <3>2, BreakIs
    <3> HIDE DEF u, e
    <3>4. Len(u \o e) = Len(u) + Len(e) /\ Stands(e, u \o e, Len(u)) /\ Stands(u, u \o e, 0)
      BY <3>3, Joined
    <3> QED BY <3>2, <3>4, BreakIs DEF u, e
  <2> QED BY <2>1
<1>3. /\ off[0] = 0 /\ off[n] = Len(a)
      /\ \A k \in 0 .. n : off[k] \in Nat
      /\ \A k \in 1 .. n : off[k] = off[k - 1] + Len(parts[k]) /\ Stands(parts[k], a, off[k - 1])
  BY DEF LaidOut
<1>4. \A k \in 0 .. n : off[k] <= Len(a)
  <2>1. \A k \in 1 .. Len(parts) : Len(parts[k]) \in Nat
    BY <1>1, <1>2
  <2>2. n \in 0 .. Len(parts) /\ Len(parts) \in Nat
    BY <1>1
  <2>3. \A k \in 0 .. n : off[k] <= off[n]
    BY <2>1, <2>2, OffsetsRise
  <2> QED BY <1>3, <2>3
<1>5. \A k \in 1 .. n : /\ off[k] = off[k - 1] + Len(lines[k]) + 2
                        /\ Stands(lines[k], a, off[k - 1]) /\ Stands(Req!EOL, a, off[k] - 2)
  <2>1. ASSUME NEW k \in 1 .. n
        PROVE  /\ off[k] = off[k - 1] + Len(lines[k]) + 2
               /\ Stands(lines[k], a, off[k - 1]) /\ Stands(Req!EOL, a, off[k] - 2)
    <3>1. k - 1 \in 0 .. n /\ off[k - 1] \in Nat /\ Len(lines[k]) \in Nat
      BY <1>1, <1>3
    <3>2. Stands(lines[k], a, off[k - 1] + 0) /\ Stands(Req!EOL, a, off[k - 1] + Len(lines[k]))
      BY <1>1, <1>2, <1>3, StandsInPart, Zenon
    <3>3. off[k] = off[k - 1] + (Len(lines[k]) + 2)
      BY <1>2, <1>3, Zenon
    <3> DEFINE Sum(x, y, z) == x + 0 = x /\ x + y = z - 2 /\ z = x + y + 2
    <3>4. \A x, y \in Nat : Sum(x, y, x + (y + 2))
      OBVIOUS
    <3> HIDE DEF Sum
    <3>5. Sum(off[k - 1], Len(lines[k]), off[k])
      BY <3>1, <3>3, <3>4
    <3>6. /\ off[k - 1] + 0 = off[k - 1] /\ off[k - 1] + Len(lines[k]) = off[k] - 2
          /\ off[k] = off[k - 1] + Len(lines[k]) + 2
      BY <3>5, Zenon DEF Sum
    <3> QED BY <3>2, <3>6, Zenon
  <2> QED BY <2>1
<1>6. \A j \in 1 .. Len(a) : \E k \in 1 .. n : j \in off[k - 1] + 1 .. off[k]
  BY <1>1, PartAt
<1> QED BY <1>1, <1>3, <1>4, <1>5, <1>6 DEF LinesStand

\* No blank line begins within the lines, before the end of the last one.
LEMMA NoBreakInLines ==
  ASSUME NEW a, NEW lines, NEW off, LinesStand(a, lines, off), Len(a) \in Nat,
         NEW j \in 1 .. Len(a) - 2
  PROVE  a[j] # 13 \/ a[j + 2] # 13
<1> SUFFICES ASSUME a[j] = 13, a[j + 2] = 13 PROVE FALSE
  OBVIOUS
<1> DEFINE n == Len(lines)
<1>1. n \in Nat \ {0} /\ j \in 1 .. Len(a)
  BY DEF LinesStand
<1>2. PICK k \in 1 .. n : j \in off[k - 1] + 1 .. off[k]
  BY <1>1 DEF LinesStand
<1>3. PICK o \in Nat : o = off[k - 1]
  <2>1. k - 1 \in 0 .. n
    BY <1>1
  <2> QED BY <2>1 DEF LinesStand
<1>4. PICK l \in Nat \ {0} : l = Len(lines[k])
  BY DEF LinesStand
<1>5. PICK e \in Nat : e = off[k] /\ e <= Len(a)
  <2>1. k \in 0 .. n
    BY <1>1
  <2> QED BY <2>1 DEF LinesStand
<1>6. e = o + l + 2 /\ Stands(lines[k], a, o) /\ Stands(Req!EOL, a, e - 2)
  BY <1>3, <1>4, <1>5, Zenon DEF LinesStand
<1>7. j \in o + 1 .. e
  BY <1>2, <1>3, <1>5
<1>8. \A i \in 1 .. l : a[o + i] # 13
  <2>1. Stands(lines[k], a, o)
    BY <1>6
  <2>2. \A i \in 1 .. Len(lines[k]) : a[o + i] = lines[k][i]
    BY <2>1, Zenon DEF Stands
  <2>3. \A i \in 1 .. Len(lines[k]) : lines[k][i] # 13
    <3>1. lines[k] \in Without({13})
      BY Zenon DEF LinesStand
    <3> QED BY <3>1, WithoutIs
  <2>4. \A i \in 1 .. Len(lines[k]) : a[o + i] # 13
    BY <2>2, <2>3, Zenon
  <2> QED BY <1>4, <2>4, Zenon
<1>9. a[e] = 10
  <2>1. a[(e - 2) + 2] = 10
    <3>1. \A i \in 1 .. Len(Req!EOL) : a[(e - 2) + i] = Req!EOL[i]
      BY <1>6, Zenon DEF Stands
    <3>2. 2 \in 1 .. Len(Req!EOL) /\ Req!EOL[2] = 10
      BY BreakIs
    <3> QED BY <3>1, <3>2, Zenon
  <2>2. (e - 2) + 2 = e
    OBVIOUS
  <2> QED BY <2>1, <2>2
<1>10. j = e - 1
  <2>1. j \in o + 1 .. o + l \/ j = e - 1 \/ j = e
    BY <1>6, <1>7
  <2>2. j \notin o + 1 .. o + l
    <3>1. ASSUME j \in o + 1 .. o + l PROVE j - o \in 1 .. l /\ o + (j - o) = j
      BY <3>1
    <3> QED BY <1>8, <3>1
  <2> QED BY <1>9, <2>1, <2>2
<1>11. k # n
  <2>1. k = n => e = Len(a)
    BY <1>5 DEF LinesStand
  <2> QED BY <1>10, <2>1
<1>12. k + 1 \in 1 .. n /\ (k + 1) - 1 = k
  BY <1>1, <1>11
<1>13. Stands(lines[k + 1], a, e) /\ lines[k + 1][1] # 13 /\ 1 \in 1 .. Len(lines[k + 1])
  <2>1. Stands(lines[k + 1], a, off[(k + 1) - 1])
    BY <1>12 DEF LinesStand
  <2>2. lines[k + 1] \in Without({13}) /\ 1 \in 1 .. Len(lines[k + 1])
    <3>1. lines[k + 1] \in Without({13}) /\ Len(lines[k + 1]) \in Nat \ {0}
      BY <1>12, Zenon DEF LinesStand
    <3> QED BY <3>1
  <2>3. lines[k + 1][1] # 13
    BY <2>2, WithoutIs
  <2> QED BY <1>5, <1>12, <2>1, <2>2, <2>3
<1>14. a[e + 1] # 13
  BY <1>13 DEF Stands
<1>15. e + 1 = j + 2
  BY <1>10
<1> QED BY <1>14, <1>15

\* A server reads the lines and what is behind the blank line.
LEMMA HeadReads ==
  ASSUME NEW a \in Seq(Int), NEW lines, NEW off, LinesStand(a, lines, off), NEW b \in Seq(Int)
  PROVE  /\ Req!LinesOf(a \o Req!EOL \o b) = lines
         /\ Req!BodyOf(a \o Req!EOL \o b) = b
<1> DEFINE n == Len(lines)
           N == Len(a)
           sep == Req!EOL \o Req!EOL
           c == a \o Req!EOL
           w == c \o b
           head == SubSeq(w, 1, N - 2)
<1>1. /\ n \in Nat \ {0} /\ N \in Nat /\ Len(b) \in Nat
      /\ \A k \in 0 .. n : off[k] \in Nat /\ off[k] <= N
      /\ \A k \in 1 .. n : Len(lines[k]) \in Nat \ {0}
  BY LenProperties DEF LinesStand
<1>2. N >= 3 /\ off[n - 1] \in Nat
  <2>1. n \in 1 .. n /\ n - 1 \in 0 .. n
    BY <1>1
  <2>2. PICK o \in Nat : o = off[n - 1]
    BY <1>1, <2>1
  <2>3. PICK l \in Nat \ {0} : l = Len(lines[n])
    BY <1>1, <2>1
  <2>4. N = o + l + 2
    BY <2>1, <2>2, <2>3 DEF LinesStand
  <2> QED BY <2>2, <2>4
<1>3. /\ c \in Seq(Int) /\ Len(c) = N + 2 /\ Stands(a, c, 0) /\ Stands(Req!EOL, c, N)
  <2>1. Stands(a, a, 0)
    BY <1>1 DEF Stands
  <2>2. /\ c \in Seq(Int) /\ Len(c) = N + Len(Req!EOL) /\ Stands(a, c, 0) /\ Stands(Req!EOL, c, N)
    BY <2>1, BreakIs, Joined
  <2> HIDE DEF c, N
  <2> QED BY <2>2, BreakIs
<1> HIDE DEF c
<1>4. /\ w \in Seq(Int) /\ Len(w) = N + 2 + Len(b)
      /\ Stands(a, w, 0) /\ Stands(Req!EOL, w, N) /\ Stands(b, w, N + 2)
  BY <1>3, Joined
<1> HIDE DEF w
<1>5. /\ \A j \in 1 .. N : w[j] = a[j]
      /\ w[N + 1] = 13 /\ w[N + 2] = 10
  <2>1. \A j \in 1 .. N : w[0 + j] = a[j]
    BY <1>4 DEF Stands
  <2>2. \A j \in 1 .. N : 0 + j = j
    OBVIOUS
  <2>3. w[N + 1] = 13 /\ w[N + 2] = 10
    BY <1>4, BreakIs DEF Stands
  <2> QED BY <2>1, <2>2, <2>3
<1>6. w[N - 1] = 13 /\ w[N] = 10
  <2>1. n \in 1 .. n /\ off[n] = N
    BY <1>1 DEF LinesStand
  <2>2. Stands(Req!EOL, a, N - 2)
    BY <2>1 DEF LinesStand
  <2>3. a[(N - 2) + 1] = 13 /\ a[(N - 2) + 2] = 10
    BY <2>2, BreakIs DEF Stands
  <2>4. (N - 2) + 1 = N - 1 /\ (N - 2) + 2 = N /\ N - 1 \in 1 .. N /\ N \in 1 .. N
    BY <1>1, <1>2
  <2> QED BY <1>5, <2>3, <2>4
<1>7. sep \in Seq(Int) /\ Len(sep) = 4 /\ sep[1] = 13 /\ sep[2] = 10 /\ sep[3] = 13 /\ sep[4] = 10
      /\ DOMAIN sep = 1 .. 4
  BY BreakIs, LenProperties
<1> HIDE DEF sep, N, n
<1>8. Req!IsAt(w, sep, N - 1)
  <2>1. (N - 1) + 4 <= Len(w) + 1
    BY <1>1, <1>4
  <2>2. /\ (N - 1) + 1 - 1 = N - 1 /\ (N - 1) + 2 - 1 = N
        /\ (N - 1) + 3 - 1 = N + 1 /\ (N - 1) + 4 - 1 = N + 2
    BY <1>1
  <2>3. \A k \in 1 .. 4 : k = 1 \/ k = 2 \/ k = 3 \/ k = 4
    OBVIOUS
  <2>4. \A k \in 1 .. 4 : w[(N - 1) + k - 1] = sep[k]
    BY <1>5, <1>6, <1>7, <2>2, <2>3
  <2> QED BY <1>7, <2>1, <2>4 DEF Req!IsAt
<1>9. ASSUME NEW j \in 1 .. (N - 1) - 1 PROVE ~Req!IsAt(w, sep, j)
  <2>1. SUFFICES ASSUME Req!IsAt(w, sep, j) PROVE FALSE
    OBVIOUS
  <2>2. w[j + 1 - 1] = 13 /\ w[j + 3 - 1] = 13
    BY <1>7, <2>1 DEF Req!IsAt
  <2>3. j + 1 - 1 = j /\ j + 3 - 1 = j + 2 /\ j \in 1 .. N - 2 /\ j \in 1 .. N /\ j + 2 \in 1 .. N
    BY <1>1
  <2>4. a[j] = 13 /\ a[j + 2] = 13
    BY <1>5, <2>2, <2>3
  <2>5. N = Len(a)
    BY DEF N
  <2> QED BY <1>1, <2>3, <2>4, <2>5, NoBreakInLines
<1>10. Req!Find(w, sep, 1) = N - 1
  <2>1. N - 1 \in 1 .. Len(w) + 1 /\ Len(w) \in Nat /\ 1 \in Nat \ {0}
    BY <1>1, <1>2, <1>4
  <2> QED BY <1>8, <1>9, <2>1, FindIs
<1>11. Req!BodyOf(w) = b
  <2>1. SubSeq(w, (N + 2) + 1, (N + 2) + Len(b)) = b
    BY <1>4, StandsCut
  <2>2. (N + 2) + 1 = (N - 1) + 4 /\ (N + 2) + Len(b) = Len(w)
    BY <1>1, <1>4
  <2>3. Req!After(w, sep) = SubSeq(w, (N - 1) + 4, Len(w))
    BY <1>7, <1>10 DEF Req!After
  <2> QED BY <2>1, <2>2, <2>3 DEF Req!BodyOf, sep
<1>12. Req!Before(w, sep) = head
  <2>1. (N - 1) - 1 = N - 2
    BY <1>1
  <2> QED BY <1>10, <2>1 DEF Req!Before
<1>13. /\ head \in Seq(Int) /\ Len(head) = N - 2
       /\ \A j \in 1 .. N - 2 : head[j] = a[j]
  <2>1. \A j \in 1 .. N - 2 : w[j] \in Int
    <3>1. \A j \in 1 .. N - 2 : j \in 1 .. Len(w)
      BY <1>1, <1>4
    <3> QED BY <1>4, <3>1, ElementOfSeq
  <2>2. /\ head \in Seq(Int)
        /\ Len(head) = IF 1 <= N - 2 THEN (N - 2) - 1 + 1 ELSE 0
        /\ \A j \in 1 .. (N - 2) - 1 + 1 : head[j] = w[1 + j - 1]
    <3>1. N - 2 \in Int
      BY <1>1
    <3> QED BY <2>1, <3>1, SubSeqProperties
  <2> HIDE DEF head
  <2>3. Len(head) = N - 2
    BY <1>1, <1>2, <2>2
  <2>4. ASSUME NEW j \in 1 .. N - 2 PROVE head[j] = a[j]
    <3>1. j \in 1 .. (N - 2) - 1 + 1 /\ 1 + j - 1 = j /\ j \in 1 .. N
      BY <1>1
    <3> QED BY <1>5, <2>2, <3>1
  <2> QED BY <2>2, <2>3, <2>4
<1> HIDE DEF head
<1>14. \A u, m : Stands(u, a, m) /\ m + Len(u) <= N - 2 => Stands(u, head, m)
  <2>1. ASSUME NEW u, NEW m, Stands(u, a, m), m + Len(u) <= N - 2 PROVE Stands(u, head, m)
    <3>1. m \in Nat /\ Len(u) \in Nat
      BY <2>1 DEF Stands
    <3>2. ASSUME NEW j \in 1 .. Len(u) PROVE head[m + j] = u[j]
      <4>1. m + j \in 1 .. N - 2
        BY <1>1, <2>1, <3>1
      <4> QED BY <1>13, <2>1, <4>1 DEF Stands
    <3> QED BY <1>13, <2>1, <3>1, <3>2 DEF Stands
  <2> QED BY <2>1
<1> DEFINE at == [k \in 1 .. n |-> off[k - 1]]
<1>15. \A k \in 1 .. n : /\ at[k] = off[k - 1] /\ at[k] \in Nat
                         /\ at[k] + Len(lines[k]) = off[k] - 2
                         /\ Stands(lines[k], a, at[k]) /\ Stands(Req!EOL, a, off[k] - 2)
  <2>1. ASSUME NEW k \in 1 .. n
        PROVE  /\ at[k] = off[k - 1] /\ at[k] \in Nat
               /\ at[k] + Len(lines[k]) = off[k] - 2
               /\ Stands(lines[k], a, at[k]) /\ Stands(Req!EOL, a, off[k] - 2)
    <3>1. at[k] = off[k - 1] /\ k - 1 \in 0 .. n
      BY <1>1
    <3> HIDE DEF at
    <3>2. PICK o \in Nat : o = off[k - 1]
      BY <1>1, <3>1
    <3>3. PICK l \in Nat : l = Len(lines[k])
      BY <1>1
    <3>4. off[k] = o + l + 2 /\ Stands(lines[k], a, o) /\ Stands(Req!EOL, a, off[k] - 2)
      BY <3>2, <3>3, Zenon DEF LinesStand, n
    <3> QED BY <3>1, <3>2, <3>3, <3>4
  <2> QED BY <2>1
<1>16. at \in [1 .. n -> Nat] /\ at[1] = 0
  <2>1. 1 \in 1 .. n /\ 1 - 1 = 0 /\ off[0] = 0
    BY <1>1 DEF LinesStand
  <2>2. at \in [1 .. n -> Nat]
    BY <1>15
  <2>3. at[1] = off[1 - 1]
    BY <2>1
  <2> QED BY <2>1, <2>2, <2>3
<1> HIDE DEF at
<1>17. \A k \in 1 .. n - 1 : /\ k \in 1 .. n /\ off[k] \in Nat /\ at[k + 1] = off[k]
                             /\ off[k] <= N - 2
  <2>1. ASSUME NEW k \in 1 .. n - 1
        PROVE  k \in 1 .. n /\ off[k] \in Nat /\ at[k + 1] = off[k] /\ off[k] <= N - 2
    <3>1. k \in 1 .. n /\ k \in 0 .. n /\ k + 1 \in 1 .. n /\ k + 1 \in 0 .. n /\ (k + 1) - 1 = k
      BY <1>1
    <3>2. at[k + 1] = off[k]
      BY <1>15, <3>1
    <3>3. PICK o \in Nat : o = off[k]
      BY <1>1, <3>1
    <3>4. PICK l \in Nat : l = Len(lines[k + 1])
      BY <1>1, <3>1
    <3>5. PICK e \in Nat : e = off[k + 1] /\ e <= N
      BY <1>1, <3>1
    <3>6. o + l = e - 2
      BY <1>15, <3>1, <3>2, <3>3, <3>4, <3>5
    <3>7. o <= N - 2
      BY <1>1, <3>5, <3>6
    <3> QED BY <3>1, <3>2, <3>3, <3>7
  <2> QED BY <2>1
<1>18. \A k \in 1 .. n : Stands(lines[k], head, at[k])
  <2>1. ASSUME NEW k \in 1 .. n PROVE off[k] - 2 <= N - 2
    <3>1. k \in 0 .. n
      BY <1>1
    <3>2. PICK e \in Nat : e = off[k] /\ e <= N
      BY <1>1, <3>1
    <3> QED BY <1>1, <3>2
  <2> QED BY <1>14, <1>15, <2>1
<1>19. \A k \in 1 .. n - 1 : /\ Stands(Req!EOL, head, at[k] + Len(lines[k]))
                             /\ at[k + 1] = at[k] + Len(lines[k]) + Len(Req!EOL)
  <2>1. ASSUME NEW k \in 1 .. n - 1
        PROVE  /\ Stands(Req!EOL, head, at[k] + Len(lines[k]))
               /\ at[k + 1] = at[k] + Len(lines[k]) + Len(Req!EOL)
    <3>1. PICK e \in Nat : e = off[k] /\ at[k + 1] = e /\ e <= N - 2
      BY <1>17
    <3>2. k \in 1 .. n
      BY <1>17
    <3>3. at[k] + Len(lines[k]) = e - 2 /\ Stands(Req!EOL, a, e - 2)
      BY <1>15, <3>1, <3>2
    <3>4. (e - 2) + 2 <= N - 2 /\ e = (e - 2) + 2
      BY <3>1
    <3>5. Stands(Req!EOL, head, e - 2)
      BY <1>14, <3>3, <3>4, BreakIs
    <3> QED BY <3>1, <3>3, <3>4, <3>5, BreakIs
  <2> QED BY <2>1
<1>20. Spaced(head, Req!EOL, lines, at)
  <2>1. \A k \in 1 .. n : \A j \in 1 .. Len(lines[k]) : lines[k][j] # Req!EOL[1]
    BY BreakIs, WithoutIs, SMTT(30) DEF LinesStand, n
  <2>2. at[n] + Len(lines[n]) = Len(head)
    <3>1. n \in 1 .. n /\ off[n] = N
      BY <1>1 DEF LinesStand, n, N
    <3> QED BY <1>13, <1>15, <3>1
  <2> QED BY <1>16, <1>18, <1>19, <2>1, <2>2 DEF Spaced, n
<1>21. Req!Split(head, Req!EOL) = lines
  <2>1. Len(lines) # 0 /\ Len(Req!EOL) # 0 /\ lines \in Seq(Seq(Int))
    BY BreakIs DEF LinesStand
  <2> QED BY <1>13, <1>20, <2>1, BreakIs, SplitIs, ZenonT(40)
<1>22. Req!LinesOf(w) = lines
  BY <1>12, <1>21 DEF Req!LinesOf, sep
<1> QED BY <1>11, <1>22 DEF w, c

\* The lines, each with its end behind it, make up a.
MadeOf(a, lines) ==
  /\ a \in Seq(Int) /\ lines \in Seq(Seq(Int))
  /\ \A k \in 1 .. Len(lines) : lines[k] \in Without({13}) /\ Len(lines[k]) # 0
  /\ \E parts \in Seq(Seq(Int)) :
       /\ Len(parts) = Len(lines)
       /\ \A k \in 1 .. Len(lines) : parts[k] = lines[k] \o Req!EOL
       /\ \E off : LaidOut(a, parts, off)

LEMMA NoLine == MadeOf(<<>>, <<>>)
<1>1. LaidOut(<<>>, <<>>, [k \in 0 .. 0 |-> 0])
  BY DEF LaidOut
<1>2. <<>> \in Seq(Seq(Int)) /\ <<>> \in Seq(Int) /\ Len(<<>>) = 0
  BY EmptySeq
<1> QED BY <1>1, <1>2 DEF MadeOf

LEMMA OneLine ==
  ASSUME NEW u \in Without({13}), Len(u) # 0 PROVE MadeOf(u \o Req!EOL, <<u>>)
<1> DEFINE a == u \o Req!EOL
           lines == <<u>>
           parts == <<a>>
           off == [k \in 0 .. 1 |-> IF k = 0 THEN 0 ELSE Len(a)]
<1>1. u \in Seq(Int)
  <2>1. Int \ {13} \subseteq Int
    OBVIOUS
  <2> QED BY <2>1, SeqMonotonic DEF Without
<1>2. a \in Seq(Int) /\ Len(a) \in Nat
  BY <1>1, BreakIs, ConcatProperties, LenProperties
<1> HIDE DEF a
<1>3. Stands(a, a, 0)
  BY <1>2 DEF Stands
<1>4. parts \in Seq(Seq(Int)) /\ Len(parts) = 1 /\ parts[1] = a
  BY <1>2
<1>5. lines \in Seq(Seq(Int)) /\ Len(lines) = 1 /\ lines[1] = u
  BY <1>1
<1> HIDE DEF lines, parts
<1>6. LaidOut(a, parts, off)
  <2>1. off \in [0 .. 1 -> Nat] /\ off[0] = 0 /\ off[1] = Len(a)
    BY <1>2
  <2> HIDE DEF off
  <2>2. \A k \in 1 .. 1 : k = 1 /\ k - 1 = 0
    OBVIOUS
  <2>3. off[1] = off[0] + Len(parts[1]) /\ Stands(parts[1], a, off[0])
    BY <1>2, <1>3, <1>4, <2>1
  <2>4. \A k \in 1 .. 1 : off[k] = off[k - 1] + Len(parts[k]) /\ Stands(parts[k], a, off[k - 1])
    BY <2>2, <2>3
  <2> QED BY <1>4, <2>1, <2>4 DEF LaidOut
<1>7. \A k \in 1 .. 1 : k = 1
  OBVIOUS
<1>8. /\ \A k \in 1 .. Len(lines) : lines[k] \in Without({13}) /\ Len(lines[k]) # 0
      /\ \A k \in 1 .. Len(lines) : parts[k] = lines[k] \o Req!EOL
  BY <1>4, <1>5, <1>7 DEF a
<1>9. MadeOf(a, lines)
  BY <1>2, <1>4, <1>5, <1>6, <1>8 DEF MadeOf
<1> QED BY <1>9 DEF a, lines

LEMMA MadeJoined ==
  ASSUME NEW a, NEW u, MadeOf(a, u), NEW b, NEW v, MadeOf(b, v) PROVE MadeOf(a \o b, u \o v)
<1>1. PICK P \in Seq(Seq(Int)) :
        /\ Len(P) = Len(u)
        /\ \A k \in 1 .. Len(u) : P[k] = u[k] \o Req!EOL
        /\ \E off : LaidOut(a, P, off)
  BY DEF MadeOf
<1>2. PICK Q \in Seq(Seq(Int)) :
        /\ Len(Q) = Len(v)
        /\ \A k \in 1 .. Len(v) : Q[k] = v[k] \o Req!EOL
        /\ \E off : LaidOut(b, Q, off)
  BY DEF MadeOf
<1>3. PICK f : LaidOut(a, P, f)
  BY <1>1
<1>4. PICK g : LaidOut(b, Q, g)
  BY <1>2
<1>5. a \in Seq(Int) /\ b \in Seq(Int) /\ u \in Seq(Seq(Int)) /\ v \in Seq(Seq(Int))
  BY DEF MadeOf
<1>6. a \o b \in Seq(Int)
  BY <1>5, ConcatProperties
<1>7. \E off : LaidOut(a \o b, P \o Q, off)
  BY <1>3, <1>4, <1>5, LaidOutJoined
<1> DEFINE R == P \o Q
           w == u \o v
<1>8. /\ w \in Seq(Seq(Int)) /\ Len(w) = Len(u) + Len(v)
      /\ \A k \in 1 .. Len(u) + Len(v) : w[k] = IF k <= Len(u) THEN u[k] ELSE v[k - Len(u)]
  BY <1>5, ConcatProperties
<1>9. /\ R \in Seq(Seq(Int)) /\ Len(R) = Len(P) + Len(Q)
      /\ \A k \in 1 .. Len(P) + Len(Q) : R[k] = IF k <= Len(P) THEN P[k] ELSE Q[k - Len(P)]
  BY ConcatProperties
<1>10. Len(u) \in Nat /\ Len(v) \in Nat
  BY <1>5, LenProperties
<1> HIDE DEF R, w
<1>11. ASSUME NEW k \in 1 .. Len(w)
       PROVE  w[k] \in Without({13}) /\ Len(w[k]) # 0 /\ R[k] = w[k] \o Req!EOL
  <2>1. CASE k <= Len(u)
    <3>1. k \in 1 .. Len(u)
      BY <1>8, <1>10, <2>1
    <3>2. w[k] = u[k] /\ R[k] = P[k]
      BY <1>1, <1>2, <1>8, <1>9, <2>1
    <3>3. u[k] \in Without({13}) /\ Len(u[k]) # 0
      BY <3>1, Zenon DEF MadeOf
    <3> QED BY <1>1, <3>1, <3>2, <3>3
  <2>2. CASE ~(k <= Len(u))
    <3>1. PICK m \in 1 .. Len(v) : m = k - Len(u)
      <4>1. k \in 1 .. Len(u) + Len(v)
        BY <1>8
      <4>2. k - Len(u) \in 1 .. Len(v)
        BY <1>10, <2>2, <4>1
      <4> QED BY <4>2, Zenon
    <3>2. w[k] = v[m] /\ R[k] = Q[m]
      <4>1. k \in 1 .. Len(u) + Len(v) /\ Len(P) = Len(u) /\ Len(Q) = Len(v)
        BY <1>1, <1>2, <1>8
      <4>2. w[k] = v[k - Len(u)]
        BY <1>8, <2>2, <4>1
      <4>3. R[k] = Q[k - Len(u)]
        BY <1>9, <2>2, <4>1
      <4> QED BY <3>1, <4>2, <4>3
    <3>3. v[m] \in Without({13}) /\ Len(v[m]) # 0
      BY <3>1, Zenon DEF MadeOf
    <3> QED BY <1>2, <3>1, <3>2, <3>3
  <2> QED BY <2>1, <2>2
<1>12. Len(R) = Len(w) /\ \E off : LaidOut(a \o b, R, off)
  BY <1>1, <1>2, <1>7, <1>8, <1>9 DEF R
<1>13. MadeOf(a \o b, w)
  BY <1>6, <1>8, <1>9, <1>11, <1>12 DEF MadeOf
<1> QED BY <1>13 DEF w

FieldLines(hs) == [k \in 1 .. Len(hs) |-> Req!FieldLine(hs[k])]

LEMMA HeaderMade ==
  ASSUME NEW hs, Len(hs) \in Nat, DOMAIN hs = 1 .. Len(hs), \A k \in 1 .. Len(hs) : IsHeader(hs[k])
  PROVE  MadeOf(Req!HeaderLines(hs), FieldLines(hs))
<1> DEFINE n == Len(hs)
           lines == FieldLines(hs)
           parts == [k \in 1 .. n |-> Req!FieldLine(hs[k]) \o Req!EOL]
<1>1. ASSUME NEW k \in 1 .. n
      PROVE  /\ Req!FieldLine(hs[k]) \in Without({13}) /\ Len(Req!FieldLine(hs[k])) # 0
             /\ Req!FieldLine(hs[k]) \in Seq(Int) /\ Req!FieldLine(hs[k]) \o Req!EOL \in Seq(Int)
  <2>1. Req!FieldLine(hs[k]) \in Without({13}) /\ Len(Req!FieldLine(hs[k])) # 0
    BY HeaderReads
  <2>2. Int \ {13} \subseteq Int
    OBVIOUS
  <2>3. Req!FieldLine(hs[k]) \in Seq(Int)
    BY <2>1, <2>2, SeqMonotonic DEF Without
  <2> QED BY <2>1, <2>3, BreakIs, ConcatProperties
<1>2. lines \in Seq(Seq(Int)) /\ Len(lines) = n /\ \A k \in 1 .. n : lines[k] = Req!FieldLine(hs[k])
  <2>1. lines \in [1 .. n -> Seq(Int)]
    BY <1>1 DEF FieldLines
  <2>2. lines \in Seq(Seq(Int)) /\ Len(lines) = n
    BY <2>1
  <2> QED BY <2>2 DEF FieldLines
<1>3. parts \in Seq(Seq(Int)) /\ Len(parts) = n
      /\ \A k \in 1 .. n : parts[k] = Req!FieldLine(hs[k]) \o Req!EOL
  <2>1. parts \in [1 .. n -> Seq(Int)]
    BY <1>1
  <2>2. parts \in Seq(Seq(Int)) /\ Len(parts) = n
    BY <2>1
  <2> QED BY <2>2
<1>4. Req!HeaderLines(hs) = FlattenSeq(parts)
  BY DEF Req!HeaderLines, Req!FlattenSeq, FlattenSeq
<1> HIDE DEF parts, lines
<1>5. FlattensTo(FlattenSeq(parts), parts)
  BY <1>3, FlattenIs
<1>6. FlattenSeq(parts) \in Seq(Int) /\ \E off : LaidOut(FlattenSeq(parts), parts, off)
  BY <1>3, <1>5, FlattenLaysOut
<1>7. /\ \A k \in 1 .. Len(lines) : lines[k] \in Without({13}) /\ Len(lines[k]) # 0
      /\ \A k \in 1 .. Len(lines) : parts[k] = lines[k] \o Req!EOL
  BY <1>1, <1>2, <1>3
<1>8. MadeOf(FlattenSeq(parts), lines)
  BY <1>2, <1>3, <1>6, <1>7 DEF MadeOf
<1> QED BY <1>4, <1>8 DEF lines

\* What a server reads of lines with a blank line and a body behind them.
LEMMA MadeReads ==
  ASSUME NEW a, NEW lines, MadeOf(a, lines), Len(lines) # 0, NEW b \in Seq(Int)
  PROVE  /\ Req!LinesOf(a \o Req!EOL \o b) = lines
         /\ Req!BodyOf(a \o Req!EOL \o b) = b
<1>1. PICK parts \in Seq(Seq(Int)) :
        /\ Len(parts) = Len(lines)
        /\ \A k \in 1 .. Len(lines) : parts[k] = lines[k] \o Req!EOL
        /\ \E off : LaidOut(a, parts, off)
  BY DEF MadeOf
<1>2. PICK off : LaidOut(a, parts, off)
  BY <1>1
<1>3. /\ a \in Seq(Int) /\ lines \in Seq(Seq(Int))
      /\ \A k \in 1 .. Len(lines) : lines[k] \in Without({13}) /\ Len(lines[k]) # 0
  BY DEF MadeOf
<1>4. LinesStand(a, lines, off)
  BY <1>1, <1>2, <1>3, LinesDoStand
<1> QED BY <1>3, <1>4, HeadReads

\* The line of the length.
LengthLine(b) == IF b = <<>> THEN <<>> ELSE <<Req!FieldLine(Req!LengthOf(b))>>

LEMMA TextAssociative == \A u, v, w \in Seq(Int) : (u \o v) \o w = u \o (v \o w)
<1> SUFFICES ASSUME NEW u \in Seq(Int), NEW v \in Seq(Int), NEW w \in Seq(Int)
             PROVE  (u \o v) \o w = u \o (v \o w)
  OBVIOUS
<1> QED BY ConcatAssociative, SMTT(30)

\* w is the start line s, the fields hs, and the body b, as buildRequest() lays them out.
Sends(s, hs, b, w) ==
  /\ s \in Without({13}) /\ Len(s) # 0
  /\ Len(hs) \in Nat /\ DOMAIN hs = 1 .. Len(hs) /\ \A k \in 1 .. Len(hs) : IsHeader(hs[k])
  /\ b \in Seq(Int) /\ IsHeader(Req!LengthOf(b))
  /\ w = s \o Req!EOL \o Req!HeaderLines(hs) \o Req!BodyPart(b)

\* A server reads the start line, a line of each field, and the body.
LEMMA WireReads ==
  ASSUME NEW s, NEW hs, NEW b, NEW w, Sends(s, hs, b, w)
  PROVE  /\ Req!LinesOf(w) = <<s>> \o FieldLines(hs) \o LengthLine(b)
         /\ Req!BodyOf(w) = b
<1> USE DEF LengthLine, Sends
<1> DEFINE e == Req!EOL
           h == Req!HeaderLines(hs)
           l == Req!FieldLine(Req!LengthOf(b))
           t == s \o e \o h
           lines == <<s>> \o FieldLines(hs)
<1>1. MadeOf(t, lines)
  <2>1. MadeOf(s \o e, <<s>>) /\ MadeOf(h, FieldLines(hs))
    BY OneLine, HeaderMade
  <2> QED BY <2>1, MadeJoined
<1>2. lines # <<>> /\ t \in Seq(Int) /\ lines \in Seq(Seq(Int)) /\ Len(lines) \in Nat \ {0}
  <2>1. t \in Seq(Int) /\ lines \in Seq(Seq(Int))
    BY <1>1 DEF MadeOf
  <2>2. <<s>> \in Seq(Seq(Int)) /\ Len(<<s>>) = 1 /\ FieldLines(hs) \in Seq(Seq(Int))
    <3>1. <<s>> \in Seq(Seq(Int)) /\ FieldLines(hs) \in Seq(Seq(Int))
      BY OneLine, HeaderMade DEF MadeOf
    <3> QED BY <3>1
  <2>3. Len(lines) = 1 + Len(FieldLines(hs)) /\ Len(FieldLines(hs)) \in Nat
    BY <2>2, ConcatProperties, LenProperties
  <2>4. Len(lines) \in Nat \ {0}
    BY <2>3
  <2> QED BY <2>1, <2>4
<1>3. e \in Seq(Int)
  BY BreakIs
<1>4. w = t \o Req!BodyPart(b)
  OBVIOUS
<1>5. CASE b = <<>>
  <2>1. Req!BodyPart(b) = e
    BY <1>5 DEF Req!BodyPart
  <2>2. (t \o e) \o <<>> = t \o e
    BY <1>2, <1>3, ConcatProperties, ConcatEmptySeq
  <2>3. w = (t \o e) \o b
    BY <1>4, <1>5, <2>1, <2>2
  <2>4. lines \o <<>> = lines
    BY <1>2, ConcatEmptySeq
  <2> HIDE DEF t, lines
  <2>5. Req!LinesOf(w) = lines /\ Req!BodyOf(w) = b
    BY <1>1, <1>2, <2>3, MadeReads
  <2> QED BY <1>5, <2>4, <2>5 DEF lines
<1>6. CASE b # <<>>
  <2>1. Req!BodyPart(b) = l \o e \o e \o b
    BY <1>6 DEF Req!BodyPart
  <2>2. l \in Without({13}) /\ Len(l) # 0
    BY HeaderReads
  <2>3. MadeOf(l \o e, <<l>>)
    BY <2>2, OneLine
  <2> DEFINE g == l \o e
  <2>4. g \in Seq(Int) /\ <<l>> \in Seq(Seq(Int))
    BY <2>3 DEF MadeOf
  <2> HIDE DEF t, g, lines, e
  <2>5. MadeOf(t \o g, lines \o <<l>>)
    BY <1>1, <2>3, MadeJoined DEF g
  <2>6. t \o (g \o e \o b) = (t \o g) \o e \o b
    <3>1. t \in Seq(Int) /\ g \in Seq(Int) /\ e \in Seq(Int) /\ b \in Seq(Int)
      BY <1>2, <1>3, <2>4
    <3>2. g \o e \in Seq(Int)
      BY <3>1, ConcatProperties
    <3>3. (t \o (g \o e)) \o b = t \o ((g \o e) \o b)
      BY <3>1, <3>2, TextAssociative, ZenonT(30)
    <3>4. (t \o g) \o e = t \o (g \o e)
      BY <3>1, TextAssociative, Zenon
    <3> QED BY <3>3, <3>4
  <2>7. w = (t \o g) \o e \o b
    BY <1>4, <2>1, <2>6 DEF g
  <2>8. Len(lines \o <<l>>) # 0
    <3>1. Len(lines \o <<l>>) = Len(lines) + Len(<<l>>) /\ Len(<<l>>) = 1
      BY <1>2, <2>4, ConcatProperties
    <3> QED BY <1>2, <3>1
  <2>9. Req!LinesOf(w) = lines \o <<l>> /\ Req!BodyOf(w) = b
    BY <2>5, <2>7, <2>8, MadeReads DEF e
  <2> QED BY <1>6, <2>9 DEF lines
<1> QED BY <1>5, <1>6

-------------------------------------------------------------------------------
(* The request *)

\* What a program may give to a request, see RequestAssumption, and the fields it may give that
\* a server can read.
Pairs        == Seq(Char) \X Seq(Char)
EncodedPairs == Without(Reserved) \X Without(Reserved)
GivenFields  == {f \in Pairs : Req!Validate(f)}
HeaderFields == {f \in Without({13, 58}) \X Without({13}) : Req!Validate(f)}

LEMMA GivenIs ==
  /\ Methods \subseteq Seq(Char) /\ Paths \subseteq Seq(Char) /\ Bodies \subseteq Seq(Char)
  /\ Versions \subseteq Int
  /\ Params \subseteq Pairs
  /\ \A f \in Fields : Req!Validate(f) => f \in GivenFields
BY RequestAssumption, HttpAssumption DEF Text, Char, Pairs, GivenFields

LEMMA SerializedIs ==
  ASSUME NEW p \in Pairs
  PROVE  /\ Req!Serialized(p) \in EncodedPairs
         /\ IsPair(Req!Serialized(p))
         /\ Req!UrlDecode(Req!Serialized(p)[1]) = p[1]
         /\ Req!UrlDecode(Req!Serialized(p)[2]) = p[2]
<1>1. p[1] \in Seq(0 .. 255) /\ p[2] \in Seq(0 .. 255)
  BY DEF Pairs, Char
<1> DEFINE k == Req!UrlEncode(p[1])
           v == Req!UrlEncode(p[2])
<1>2. /\ k \in Without(Reserved) /\ Req!UrlDecode(k) = p[1]
      /\ v \in Without(Reserved) /\ Req!UrlDecode(v) = p[2]
  BY <1>1, UrlWithout
<1>3. Req!Serialized(p) = <<k, v>>
  BY DEF Req!Serialized
<1> HIDE DEF k, v
<1> QED BY <1>2, <1>3 DEF EncodedPairs, IsPair

LEMMA HeaderFieldIs ==
  ASSUME NEW f \in HeaderFields PROVE IsHeader(f) /\ Req!Validate(f)
BY DEF HeaderFields, IsHeader

LEMMA LengthIs ==
  ASSUME NEW b \in Seq(Char)
  PROVE  /\ IsHeader(Req!LengthOf(b)) /\ Req!LengthOf(b)[1] = Req!ContentLength
         /\ Req!Number(Req!LengthOf(b)[2]) = Len(b)
<1>1. Req!ContentLength \in Without({13, 58})
  BY DEF Req!ContentLength, Without
<1> DEFINE d == Req!Decimal(Len(b))
<1>2. d \in Without({13}) /\ Req!Number(d) = Len(b)
  <2>1. PICK n \in Nat : n = Len(b)
    BY LenProperties
  <2>2. {13} \cap 48 .. 57 = {} /\ 45 \notin {13} /\ n \in Int /\ ~(n < 0)
    OBVIOUS
  <2>3. Req!Decimal(n) \in Without({13})
    BY <2>2, DecimalWithout
  <2>4. Req!Decimal(n) = Digits(n) /\ Req!Number(Digits(n)) = n
    BY <2>2, ReqDecimals, DigitsRead
  <2> QED BY <2>1, <2>3, <2>4
<1>3. Req!LengthOf(b) = <<Req!ContentLength, d>>
  BY DEF Req!LengthOf
<1> HIDE DEF d
<1> QED BY <1>1, <1>2, <1>3 DEF IsHeader

\* The request holds what a program may give it, and buildRequest() returned it laid out.
StartGiven   == startLine \in [method : Seq(Char), major : Int, minor : Int]
PathGiven    == path \in Seq(Char)
QueryTyped   == /\ params \in Seq(Pairs) /\ query \in Seq(EncodedPairs)
                /\ Len(query) = Len(params)
                /\ \A k \in 1 .. Len(params) : query[k] = Req!Serialized(params[k])
HeadersGiven == headers \in Seq(GivenFields)
BodyTyped    == body \in Seq(Char)
BuiltIs == built => wire = Req!StartLine(startLine, path, query) \o Req!EOL
                             \o Req!HeaderLines(headers) \o Req!BodyPart(body)

RequestInv == StartGiven /\ PathGiven /\ QueryTyped /\ HeadersGiven /\ BodyTyped /\ BuiltIs

\* A server can read it.
StartTyped   == startLine \in [method : Without({13, 32}), major : Int, minor : Int]
PathTyped    == path \in Without({13, 32, 63})
HeadersTyped == headers \in Seq(HeaderFields)
Filled == StartTyped /\ PathTyped /\ QueryTyped /\ HeadersTyped /\ BodyTyped

Readable == Filled /\ BuiltIs

LEMMA WellFormedReadable == RequestInv /\ Req!WellFormed => Readable
<1> SUFFICES ASSUME RequestInv, Req!WellFormed PROVE Readable
  OBVIOUS
<1>1. StartGiven /\ PathGiven /\ QueryTyped /\ HeadersGiven /\ BodyTyped /\ BuiltIs
  BY DEF RequestInv
<1>2. /\ Req!Lacks(startLine.method, {32, 13}) /\ Req!Lacks(path, {32, 63, 13})
      /\ \A k \in DOMAIN headers :
           Req!Lacks(headers[k][1], {58, 13}) /\ Req!Lacks(headers[k][2], {13})
  BY RequestChars DEF Req!WellFormed
<1>3. {32, 13} = {13, 32} /\ {32, 63, 13} = {13, 32, 63} /\ {58, 13} = {13, 58}
  OBVIOUS
<1>4. StartTyped
  <2>1. startLine.method \in Seq(Char)
    BY <1>1 DEF StartGiven
  <2>2. startLine.method \in Without({13, 32})
    BY <1>2, <1>3, <2>1, LacksIs
  <2> QED BY <1>1, <2>2 DEF StartGiven, StartTyped
<1>5. PathTyped
  BY <1>1, <1>2, <1>3, LacksIs DEF PathGiven, PathTyped
<1>6. HeadersTyped
  <2> DEFINE n == Len(headers)
  <2>1. headers \in Seq(GivenFields) /\ n \in Nat /\ DOMAIN headers = 1 .. n
    BY <1>1, LenProperties DEF HeadersGiven
  <2>2. ASSUME NEW k \in 1 .. n PROVE headers[k] \in HeaderFields
    <3>1. headers[k] \in GivenFields
      BY <2>1, ElementOfSeq
    <3>2. PICK f \in GivenFields : f = headers[k]
      BY <3>1
    <3>3. /\ f[1] \in Seq(Char) /\ f[2] \in Seq(Char) /\ f = <<f[1], f[2]>> /\ Req!Validate(f)
      BY DEF GivenFields, Pairs
    <3>4. Req!Lacks(f[1], {13, 58}) /\ Req!Lacks(f[2], {13})
      BY <1>2, <1>3, <2>1, <3>2
    <3>5. f[1] \in Without({13, 58}) /\ f[2] \in Without({13})
      BY <3>3, <3>4, LacksIs
    <3>6. f \in Without({13, 58}) \X Without({13})
      BY <3>3, <3>5
    <3> QED BY <3>2, <3>3, <3>6 DEF HeaderFields
  <2>3. headers = [k \in 1 .. n |-> headers[k]]
    BY <2>1
  <2> HIDE DEF n
  <2>4. headers \in [1 .. n -> HeaderFields]
    BY <2>2, <2>3
  <2> QED BY <2>1, <2>4 DEF HeadersTyped
<1> QED BY <1>1, <1>4, <1>5, <1>6 DEF Readable, Filled

LEMMA InitRequest == Req!Init => RequestInv
<1> SUFFICES ASSUME Req!Init PROVE RequestInv
  OBVIOUS
<1>1. StartGiven
  <2>1. \A i \in {71, 69, 84} : i \in Char
    BY DEF Char
  <2>2. Req!Get \in Seq(Char)
    BY <2>1 DEF Req!Get
  <2> QED BY <2>2 DEF Req!Init, StartGiven
<1>2. PathGiven /\ HeadersGiven /\ BodyTyped
  BY EmptySeq DEF Req!Init, PathGiven, HeadersGiven, BodyTyped
<1>3. QueryTyped
  BY EmptySeq DEF Req!Init, QueryTyped
<1> QED BY <1>1, <1>2, <1>3 DEF Req!Init, RequestInv, BuiltIs

LEMMA NextRequestInv == RequestInv /\ [Req!Next]_request => RequestInv'
<1> SUFFICES ASSUME RequestInv, [Req!Next]_request PROVE RequestInv'
  OBVIOUS
<1> USE DEF RequestInv, BuiltIs
<1> DEFINE StartLines == [method : Seq(Char), major : Int, minor : Int]
<1>1. ASSUME NEW line \in StartLines, Req!SetStartLine(line)
      PROVE  RequestInv'
  BY <1>1 DEF Req!SetStartLine, StartGiven, PathGiven, QueryTyped, HeadersGiven, BodyTyped
<1>2. ASSUME NEW m \in Methods, Req!SetMethod(m) PROVE RequestInv'
  <2>1. [startLine EXCEPT !.method = m] \in StartLines
    BY GivenIs DEF StartGiven
  <2> QED BY <1>1, <1>2, <2>1 DEF Req!SetMethod
<1>3. ASSUME NEW v \in Versions, Req!SetMajor(v) \/ Req!SetMinor(v) PROVE RequestInv'
  <2>1. [startLine EXCEPT !.major = v] \in StartLines /\ [startLine EXCEPT !.minor = v] \in StartLines
    BY GivenIs DEF StartGiven
  <2> QED BY <1>1, <1>3, <2>1 DEF Req!SetMajor, Req!SetMinor
<1>4. ASSUME NEW p \in Paths, Req!SetPath(p) PROVE RequestInv'
  BY <1>4, GivenIs DEF Req!SetPath, StartGiven, PathGiven, QueryTyped, HeadersGiven, BodyTyped
<1>5. ASSUME NEW p \in Params, Req!AddQuery(p) PROVE RequestInv'
  <2>1. QueryTyped'
    <3>1. p \in Pairs /\ Req!Serialized(p) \in EncodedPairs
      BY GivenIs, SerializedIs
    <3>2. /\ params' = Append(params, p) /\ query' = Append(query, Req!Serialized(p))
          /\ params \in Seq(Pairs) /\ query \in Seq(EncodedPairs) /\ Len(query) = Len(params)
          /\ Len(params) \in Nat
      BY <1>5, LenProperties DEF Req!AddQuery, QueryTyped
    <3>3. /\ params' \in Seq(Pairs) /\ Len(params') = Len(params) + 1
          /\ \A k \in 1 .. Len(params) : params'[k] = params[k]
          /\ params'[Len(params) + 1] = p
      BY <3>1, <3>2, AppendProperties
    <3>4. /\ query' \in Seq(EncodedPairs) /\ Len(query') = Len(params) + 1
          /\ \A k \in 1 .. Len(params) : query'[k] = query[k]
          /\ query'[Len(params) + 1] = Req!Serialized(p)
      BY <3>1, <3>2, AppendProperties
    <3>5. \A k \in 1 .. Len(params) + 1 : k \in 1 .. Len(params) \/ k = Len(params) + 1
      BY <3>2
    <3>6. \A k \in 1 .. Len(params') : query'[k] = Req!Serialized(params'[k])
      BY <3>3, <3>4, <3>5 DEF QueryTyped
    <3> QED BY <3>3, <3>4, <3>6 DEF QueryTyped
  <2> QED BY <1>5, <2>1 DEF Req!AddQuery, StartGiven, PathGiven, HeadersGiven, BodyTyped
<1>6. ASSUME NEW f \in Fields, Req!AddHeader(f) PROVE RequestInv'
  <2>1. HeadersGiven'
    <3>1. f \in GivenFields
      BY <1>6, GivenIs DEF Req!AddHeader
    <3> QED BY <1>6, <3>1, AppendProperties DEF Req!AddHeader, HeadersGiven
  <2> QED BY <1>6, <2>1 DEF Req!AddHeader, StartGiven, PathGiven, QueryTyped, BodyTyped
<1>7. ASSUME NEW b \in Bodies, Req!SetBody(b) PROVE RequestInv'
  BY <1>7, GivenIs DEF Req!SetBody, StartGiven, PathGiven, QueryTyped, HeadersGiven, BodyTyped
<1>8. ASSUME NEW b \in Bodies, Req!AppendBody(b) PROVE RequestInv'
  <2>1. BodyTyped'
    <3>1. b \in Seq(Char) /\ body \in Seq(Char) /\ body' = body \o b
      BY <1>8, GivenIs DEF Req!AppendBody, BodyTyped
    <3> QED BY <3>1, ConcatProperties DEF BodyTyped
  <2> QED BY <1>8, <2>1 DEF Req!AppendBody, StartGiven, PathGiven, QueryTyped, HeadersGiven
<1>9. CASE Req!BuildRequest
  BY <1>9 DEF Req!BuildRequest, StartGiven, PathGiven, QueryTyped, HeadersGiven, BodyTyped
<1>10. CASE UNCHANGED request
  BY <1>10 DEF request, StartGiven, PathGiven, QueryTyped, HeadersGiven, BodyTyped
<1> QED BY <1>2, <1>3, <1>4, <1>5, <1>6, <1>7, <1>8, <1>9, <1>10 DEF Req!Next

\* The target has no blank, and a server finds the path and the pairs in it.
TargetOf == Req!Target(path, query)

LEMMA PathReads ==
  ASSUME PathTyped
  PROVE  /\ path \in Seq(Int)
         /\ Len(path) \in Nat
         /\ Req!Find(path, <<63>>, 1) = Len(path) + 1 /\ Req!Before(path, <<63>>) = path
         /\ \A v \in Seq(Int) :
              /\ Req!Find(path \o <<63>> \o v, <<63>>, 1) = Len(path) + 1
              /\ Len(path) + 1 <= Len(path \o <<63>> \o v)
              /\ Req!Before(path \o <<63>> \o v, <<63>>) = path
              /\ Req!After(path \o <<63>> \o v, <<63>>) = v
<1> DEFINE sep == <<63>>
<1>1. /\ path \in Seq(Int) /\ sep \in Seq(Int) /\ Len(sep) # 0 /\ Len(path) \in Nat
      /\ \A j \in 1 .. Len(path) : path[j] # sep[1]
  <2>1. path \in Without({13, 32, 63})
    BY DEF PathTyped
  <2>2. Int \ {13, 32, 63} \subseteq Int
    OBVIOUS
  <2>3. path \in Seq(Int)
    BY <2>1, <2>2, SeqMonotonic DEF Without
  <2>4. Len(path) \in Nat /\ \A j \in 1 .. Len(path) : path[j] # 63
    BY <2>1, WithoutIs
  <2> QED BY <2>3, <2>4
<1>2. <<>> \in Seq(Int)
  BY EmptySeq
<1> HIDE DEF sep
<1>3. Req!Find(path, sep, 1) = Len(path) + 1 /\ Req!Before(path, sep) = path
  BY <1>1, <1>2, BeforeAfter
<1>4. ASSUME NEW v \in Seq(Int)
      PROVE  /\ Req!Find(path \o sep \o v, sep, 1) = Len(path) + 1
             /\ Len(path) + 1 <= Len(path \o sep \o v)
             /\ Req!Before(path \o sep \o v, sep) = path
             /\ Req!After(path \o sep \o v, sep) = v
  BY <1>1, BeforeAfter
<1> QED BY <1>1, <1>3, <1>4 DEF sep

LEMMA QueryPairs ==
  ASSUME QueryTyped, query # <<>>
  PROVE  /\ Len(query) \in Nat \ {0} /\ DOMAIN query = 1 .. Len(query)
         /\ Req!QueryOf(query) \in Without({13, 32, 63})
         /\ Req!Split(Req!QueryOf(query), <<38>>) = [k \in 1 .. Len(query) |-> Req!PairOf(query[k])]
         /\ \A k \in 1 .. Len(query) :
              <<Req!UrlDecode(Req!Before(Req!PairOf(query[k]), <<61>>)),
                Req!UrlDecode(Req!After(Req!PairOf(query[k]), <<61>>))>> = params[k]
<1>1. Len(query) \in Nat \ {0} /\ DOMAIN query = 1 .. Len(query)
  BY EmptySeq, LenProperties DEF QueryTyped
<1>2. ASSUME NEW k \in 1 .. Len(query)
      PROVE  /\ IsPair(query[k]) /\ params[k] = <<params[k][1], params[k][2]>>
             /\ Req!UrlDecode(query[k][1]) = params[k][1] /\ Req!UrlDecode(query[k][2]) = params[k][2]
  <2>1. k \in 1 .. Len(params) /\ query[k] = Req!Serialized(params[k]) /\ params \in Seq(Pairs)
    BY DEF QueryTyped
  <2>2. params[k] \in Pairs
    BY <2>1, ElementOfSeq
  <2>3. params[k] = <<params[k][1], params[k][2]>>
    BY <2>2 DEF Pairs
  <2> QED BY <2>1, <2>2, <2>3, SerializedIs
<1>3. /\ Req!QueryOf(query) \in Without({13, 32, 63})
      /\ Req!Split(Req!QueryOf(query), <<38>>) = [k \in 1 .. Len(query) |-> Req!PairOf(query[k])]
  BY <1>1, <1>2, QueryReads, RequestChars
<1>4. ASSUME NEW k \in 1 .. Len(query)
      PROVE  <<Req!UrlDecode(Req!Before(Req!PairOf(query[k]), <<61>>)),
               Req!UrlDecode(Req!After(Req!PairOf(query[k]), <<61>>))>> = params[k]
  <2>1. /\ Req!Before(Req!PairOf(query[k]), <<61>>) = query[k][1]
        /\ Req!After(Req!PairOf(query[k]), <<61>>) = query[k][2]
    BY <1>2, PairReads, RequestChars
  <2> QED BY <1>2, <2>1
<1> QED BY <1>1, <1>3, <1>4

LEMMA TargetWithout == ASSUME PathTyped, QueryTyped PROVE TargetOf \in Without({13, 32})
<1>1. path \in Without({13, 32})
  <2>1. {13, 32} \subseteq {13, 32, 63}
    OBVIOUS
  <2> QED BY <2>1, WithoutLess DEF PathTyped
<1>2. CASE query = <<>>
  BY <1>1, <1>2 DEF TargetOf, Req!Target
<1>3. CASE query # <<>>
  <2>1. Req!QueryOf(query) \in Without({13, 32})
    <3>1. {13, 32} \subseteq {13, 32, 63}
      OBVIOUS
    <3> QED BY <1>3, <3>1, QueryPairs, WithoutLess
  <2>2. <<63>> \in Without({13, 32})
    BY OneChar
  <2>3. path \o <<63>> \in Without({13, 32})
    BY <1>1, <2>2, JoinedWithout
  <2>4. path \o <<63>> \o Req!QueryOf(query) \in Without({13, 32})
    BY <2>1, <2>3, JoinedWithout
  <2> QED BY <1>3, <2>4, RequestChars DEF TargetOf, Req!Target
<1> QED BY <1>2, <1>3

LEMMA TargetReads ==
  ASSUME PathTyped, QueryTyped, NEW str, Req!ReadTarget(str) = TargetOf
  PROVE  Req!Before(TargetOf, <<63>>) = path /\ Req!ReadQuery(str) = params
<1> DEFINE t == TargetOf
           pairs == Req!Split(Req!After(t, <<63>>), <<38>>)
           read == [k \in DOMAIN pairs |-> <<Req!UrlDecode(Req!Before(pairs[k], <<61>>)),
                                             Req!UrlDecode(Req!After(pairs[k], <<61>>))>>]
<1>1. Req!ReadQuery(str) = IF Req!Find(t, <<63>>, 1) > Len(t) THEN <<>> ELSE read
  BY RequestChars DEF Req!ReadQuery
<1>2. CASE query = <<>>
  <2>1. t = path
    BY <1>2 DEF TargetOf, Req!Target
  <2>2. Req!Find(t, <<63>>, 1) > Len(t) /\ Req!Before(t, <<63>>) = path
    BY <2>1, PathReads
  <2>3. params = <<>>
    <3>1. Len(params) = 0 /\ params \in Seq(Pairs)
      BY <1>2, EmptySeq DEF QueryTyped
    <3> QED BY <3>1, EmptySeq
  <2> HIDE DEF t, read
  <2>4. Req!ReadQuery(str) = <<>>
    BY <1>1, <2>2
  <2> QED BY <2>2, <2>3, <2>4 DEF t
<1>3. CASE query # <<>>
  <2> DEFINE v == Req!QueryOf(query)
             n == Len(query)
  <2>1. t = path \o <<63>> \o v
    BY <1>3, RequestChars DEF TargetOf, Req!Target
  <2>2. v \in Seq(Int)
    <3>1. Int \ {13, 32, 63} \subseteq Int
      OBVIOUS
    <3> QED BY <1>3, <3>1, QueryPairs, SeqMonotonic DEF Without
  <2> HIDE DEF t, v
  <2>3. /\ Req!Find(t, <<63>>, 1) = Len(path) + 1 /\ Len(path) + 1 <= Len(t)
        /\ Req!Before(t, <<63>>) = path /\ Req!After(t, <<63>>) = v
    BY <2>1, <2>2, PathReads
  <2>4. pairs = [k \in 1 .. n |-> Req!PairOf(query[k])]
    BY <1>3, <2>3, QueryPairs DEF v
  <2>5. read = params
    <3>1. /\ params \in [1 .. n -> Pairs]
      BY LenProperties DEF QueryTyped
    <3>2. DOMAIN pairs = 1 .. n /\ \A k \in 1 .. n : pairs[k] = Req!PairOf(query[k])
      BY <2>4
    <3> HIDE DEF pairs, n
    <3>3. \A k \in 1 .. n :
            <<Req!UrlDecode(Req!Before(pairs[k], <<61>>)),
              Req!UrlDecode(Req!After(pairs[k], <<61>>))>> = params[k]
      BY <1>3, <3>2, QueryPairs DEF n
    <3>4. read = [k \in 1 .. n |-> params[k]]
      BY <3>2, <3>3
    <3> QED BY <3>1, <3>4
  <2> HIDE DEF read
  <2>6. ~(Req!Find(t, <<63>>, 1) > Len(t))
    <3>1. t \in Seq(Int)
      BY <2>1, <2>2, PathReads, ConcatProperties
    <3> QED BY <2>3, <3>1, PathReads, LenProperties
  <2> QED BY <1>1, <2>3, <2>5, <2>6 DEF t
<1> QED BY <1>2, <1>3

\* The start line, and the fields: those of the program, then the length.
FirstLine == Req!StartLine(startLine, path, query)
SentFields == headers \o IF body = <<>> THEN <<>> ELSE <<Req!LengthOf(body)>>

LEMMA FirstLineReads ==
  ASSUME StartTyped, PathTyped, QueryTyped
  PROVE  /\ FirstLine \in Without({13}) /\ Len(FirstLine) # 0
         /\ Req!Split(FirstLine, <<32>>) = <<startLine.method, TargetOf, Req!Version(startLine)>>
<1>1. startLine.method \in Without({13, 32}) /\ Req!Version(startLine) \in Without({13, 32})
  BY VersionWithout DEF StartTyped
<1>2. TargetOf \in Without({13, 32})
  BY TargetWithout
<1>3. FirstLine = startLine.method \o <<32>> \o TargetOf \o <<32>> \o Req!Version(startLine)
  BY RequestChars DEF FirstLine, Req!StartLine, TargetOf
<1> QED BY <1>1, <1>2, <1>3, WordsRead

LEMMA SentFieldsAre ==
  ASSUME HeadersTyped, BodyTyped
  PROVE  /\ SentFields \in Seq(Without({13, 58}) \X Without({13}))
         /\ Len(SentFields) = Len(headers) + (IF body = <<>> THEN 0 ELSE 1)
         /\ \A k \in 1 .. Len(headers) : SentFields[k] = headers[k]
         /\ body # <<>> => SentFields[Len(headers) + 1] = Req!LengthOf(body)
         /\ \A k \in 1 .. Len(SentFields) : IsHeader(SentFields[k])
         /\ Len(headers) \in Nat
<1> DEFINE Field == Without({13, 58}) \X Without({13})
           l == Req!LengthOf(body)
<1>1. headers \in Seq(Field) /\ Len(headers) \in Nat
  <2>1. HeaderFields \subseteq Field
    BY DEF HeaderFields
  <2> QED BY <2>1, SeqMonotonic, LenProperties DEF HeadersTyped
<1>2. IsHeader(l)
  BY LengthIs DEF BodyTyped
<1>3. l \in Field
  BY <1>2 DEF IsHeader
<1>4. \A f \in Field : IsHeader(f)
  BY DEF IsHeader
<1> HIDE DEF Field, l
<1>5. /\ SentFields \in Seq(Field)
      /\ Len(SentFields) = Len(headers) + (IF body = <<>> THEN 0 ELSE 1)
      /\ \A k \in 1 .. Len(headers) : SentFields[k] = headers[k]
      /\ body # <<>> => SentFields[Len(headers) + 1] = l
  <2>1. CASE body = <<>>
    <3>1. SentFields = headers
      BY <1>1, <2>1, ConcatEmptySeq DEF SentFields
    <3> QED BY <1>1, <2>1, <3>1
  <2>2. CASE body # <<>>
    <3>1. SentFields = headers \o <<l>>
      BY <2>2 DEF SentFields, l
    <3>2. <<l>> \in Seq(Field) /\ Len(<<l>>) = 1 /\ <<l>>[1] = l
      BY <1>3
    <3>3. /\ SentFields \in Seq(Field) /\ Len(SentFields) = Len(headers) + 1
          /\ \A k \in 1 .. Len(headers) + 1 :
               SentFields[k] = IF k <= Len(headers) THEN headers[k] ELSE <<l>>[k - Len(headers)]
      BY <1>1, <3>1, <3>2, ConcatProperties
    <3>4. Len(headers) + 1 \in 1 .. Len(headers) + 1 /\ ~(Len(headers) + 1 <= Len(headers))
          /\ (Len(headers) + 1) - Len(headers) = 1
      BY <1>1
    <3>5. SentFields[Len(headers) + 1] = l
      BY <3>2, <3>3, <3>4
    <3>6. \A k \in 1 .. Len(headers) : SentFields[k] = headers[k]
      BY <1>1, <3>3
    <3> QED BY <2>2, <3>3, <3>5, <3>6
  <2> QED BY <2>1, <2>2
<1>6. \A k \in 1 .. Len(SentFields) : IsHeader(SentFields[k])
  BY <1>4, <1>5, ElementOfSeq
<1> QED BY <1>1, <1>5, <1>6 DEF Field, l

\* The lines a server finds, and the body.
LEMMA LinesRead ==
  ASSUME Readable, built
  PROVE  /\ Req!LinesOf(wire)[1] = FirstLine
         /\ Len(Req!LinesOf(wire)) = Len(SentFields) + 1
         /\ \A k \in 1 .. Len(SentFields) : Req!LinesOf(wire)[k + 1] = Req!FieldLine(SentFields[k])
         /\ Req!BodyOf(wire) = body
<1> DEFINE n == Len(headers)
           l == Req!FieldLine(Req!LengthOf(body))
           last == IF body = <<>> THEN <<>> ELSE <<l>>
           lines == <<FirstLine>> \o FieldLines(headers)
           all == lines \o last
<1>1. StartTyped /\ PathTyped /\ QueryTyped /\ HeadersTyped /\ BodyTyped
  BY DEF Readable, Filled
<1>2. FirstLine \in Without({13}) /\ Len(FirstLine) # 0 /\ FirstLine \in Seq(Int)
  <2>1. Int \ {13} \subseteq Int
    OBVIOUS
  <2> QED BY <1>1, <2>1, FirstLineReads, SeqMonotonic DEF Without
<1>3. n \in Nat /\ DOMAIN headers = 1 .. n /\ \A k \in 1 .. n : IsHeader(headers[k])
  <2>1. headers \in Seq(HeaderFields)
    BY <1>1 DEF HeadersTyped
  <2> QED BY <2>1, LenProperties, ElementOfSeq, HeaderFieldIs
<1>4. body \in Seq(Int) /\ IsHeader(Req!LengthOf(body))
  <2>1. Char \subseteq Int
    BY DEF Char
  <2> QED BY <1>1, <2>1, SeqMonotonic, LengthIs DEF BodyTyped
<1>5. wire = FirstLine \o Req!EOL \o Req!HeaderLines(headers) \o Req!BodyPart(body)
  BY DEF Readable, BuiltIs, FirstLine
<1>6. Req!LinesOf(wire) = all /\ Req!BodyOf(wire) = body
  <2>1. Sends(FirstLine, headers, body, wire)
    BY <1>2, <1>3, <1>4, <1>5, Zenon DEF Sends
  <2> HIDE DEF lines, last, l
  <2>2. /\ Req!LinesOf(wire) = <<FirstLine>> \o FieldLines(headers) \o LengthLine(body)
        /\ Req!BodyOf(wire) = body
    BY <2>1, WireReads, Zenon
  <2> QED BY <2>2, Zenon DEF lines, last, l, LengthLine
<1>7. /\ FieldLines(headers) \in Seq(Seq(Int)) /\ Len(FieldLines(headers)) = n
      /\ \A k \in 1 .. n : FieldLines(headers)[k] = Req!FieldLine(headers[k])
  <2>1. FieldLines(headers) \in Seq(Seq(Int))
    BY <1>3, HeaderMade DEF MadeOf
  <2>2. \A k \in 1 .. n : FieldLines(headers)[k] = Req!FieldLine(headers[k])
    BY DEF FieldLines
  <2>3. DOMAIN FieldLines(headers) = 1 .. n
    BY DEF FieldLines
  <2>4. Len(FieldLines(headers)) = n
    BY <1>3, <2>1, <2>3, LenProperties
  <2> QED BY <2>1, <2>2, <2>4
<1>8. l \in Seq(Int)
  <2>1. Int \ {13} \subseteq Int
    OBVIOUS
  <2> QED BY <1>4, <2>1, HeaderReads, SeqMonotonic DEF Without
<1>9. /\ lines \in Seq(Seq(Int)) /\ Len(lines) = n + 1 /\ lines[1] = FirstLine
      /\ \A k \in 1 .. n : lines[k + 1] = Req!FieldLine(headers[k])
  <2> DEFINE fl == FieldLines(headers)
             one == <<FirstLine>>
  <2>1. one \in Seq(Seq(Int)) /\ Len(one) = 1 /\ one[1] = FirstLine
    BY <1>2
  <2> HIDE DEF one, fl
  <2>2. /\ one \o fl \in Seq(Seq(Int)) /\ Len(one \o fl) = 1 + n
        /\ \A k \in 1 .. 1 + n : (one \o fl)[k] = IF k <= 1 THEN one[k] ELSE fl[k - 1]
    <3>1. fl \in Seq(Seq(Int)) /\ Len(fl) = n
      BY <1>7 DEF fl
    <3> HIDE DEF n
    <3>2. /\ one \o fl \in Seq(Seq(Int)) /\ Len(one \o fl) = Len(one) + Len(fl)
          /\ \A k \in 1 .. Len(one) + Len(fl) :
               (one \o fl)[k] = IF k <= Len(one) THEN one[k] ELSE fl[k - Len(one)]
      BY <2>1, <3>1, ConcatProperties
    <3> QED BY <2>1, <3>1, <3>2
  <2>3. (one \o fl)[1] = FirstLine
    BY <1>3, <2>1, <2>2
  <2>4. \A k \in 1 .. n : k + 1 \in 1 .. 1 + n /\ ~(k + 1 <= 1) /\ (k + 1) - 1 = k
    BY <1>3
  <2>5. \A k \in 1 .. n : (one \o fl)[k + 1] = fl[k]
    BY <2>2, <2>4
  <2>6. 1 + n = n + 1
    BY <1>3
  <2> QED BY <1>7, <2>2, <2>3, <2>5, <2>6 DEF one, fl
<1> HIDE DEF lines, l
<1>10. CASE body = <<>>
  <2>1. all = lines
    BY <1>9, <1>10, ConcatEmptySeq
  <2>2. /\ Len(SentFields) = n
        /\ \A k \in 1 .. n : SentFields[k] = headers[k]
    BY <1>1, <1>10, SentFieldsAre
  <2> HIDE DEF n
  <2> QED BY <1>6, <1>9, <2>1, <2>2
<1>11. CASE body # <<>>
  <2> DEFINE one == <<l>>
  <2>1. one \in Seq(Seq(Int)) /\ Len(one) = 1 /\ one[1] = l
    BY <1>8
  <2>2. all = lines \o one
    BY <1>11
  <2> HIDE DEF one
  <2>3. /\ Len(lines \o one) = (n + 1) + 1
        /\ \A k \in 1 .. (n + 1) + 1 :
             (lines \o one)[k] = IF k <= n + 1 THEN lines[k] ELSE one[k - (n + 1)]
    <3>1. lines \in Seq(Seq(Int)) /\ Len(lines) = n + 1
      BY <1>9
    <3> HIDE DEF n
    <3>2. /\ Len(lines \o one) = Len(lines) + Len(one)
          /\ \A k \in 1 .. Len(lines) + Len(one) :
               (lines \o one)[k] = IF k <= Len(lines) THEN lines[k] ELSE one[k - Len(lines)]
      BY <2>1, <3>1, ConcatProperties
    <3> QED BY <2>1, <3>1, <3>2
  <2>4. /\ Len(SentFields) = n + 1
        /\ \A k \in 1 .. n : SentFields[k] = headers[k]
        /\ SentFields[n + 1] = Req!LengthOf(body)
    BY <1>1, <1>11, SentFieldsAre
  <2>5. /\ Len(all) = (n + 1) + 1 /\ all[1] = FirstLine
        /\ \A k \in 1 .. n : all[k + 1] = Req!FieldLine(headers[k])
        /\ all[(n + 1) + 1] = l
    <3>1. 1 \in 1 .. (n + 1) + 1 /\ 1 <= n + 1
      BY <1>3
    <3>2. \A k \in 1 .. n : k + 1 \in 1 .. (n + 1) + 1 /\ k + 1 <= n + 1
      BY <1>3
    <3>3. (n + 1) + 1 \in 1 .. (n + 1) + 1 /\ ~((n + 1) + 1 <= n + 1)
          /\ ((n + 1) + 1) - (n + 1) = 1
      BY <1>3
    <3> HIDE DEF all
    <3>4. all[1] = lines[1]
      BY <2>2, <2>3, <3>1
    <3>5. \A k \in 1 .. n : all[k + 1] = lines[k + 1]
      BY <2>2, <2>3, <3>2
    <3>6. all[(n + 1) + 1] = one[1]
      BY <2>2, <2>3, <3>3
    <3> QED BY <1>9, <2>1, <2>2, <2>3, <3>4, <3>5, <3>6
  <2> HIDE DEF all
  <2>6. ASSUME NEW k \in 1 .. n + 1 PROVE all[k + 1] = Req!FieldLine(SentFields[k])
    <3>1. CASE k \in 1 .. n
      BY <2>4, <2>5, <3>1
    <3>2. CASE k = n + 1
      BY <2>4, <2>5, <3>2 DEF l
    <3> QED BY <1>3, <3>1, <3>2
  <2> QED BY <1>6, <2>4, <2>5, <2>6
<1> QED BY <1>10, <1>11

LEMMA FieldsRead == ASSUME Readable, built PROVE Req!ReadFields(wire) = SentFields
<1> DEFINE F == SentFields
           n == Len(F)
           lines == Req!LinesOf(wire)
           sep == <<Req!Colon, Req!Space>>
<1>1. /\ F \in Seq(Without({13, 58}) \X Without({13}))
      /\ \A k \in 1 .. Len(F) : IsHeader(F[k])
  BY SentFieldsAre DEF Readable, Filled
<1>2. /\ n \in Nat /\ F \in [1 .. n -> Without({13, 58}) \X Without({13})]
  BY <1>1, LenProperties
<1>3. Len(lines) = n + 1 /\ \A k \in 1 .. n : lines[k + 1] = Req!FieldLine(F[k])
  BY LinesRead
<1>4. Req!ReadFields(wire) =
        [k \in 1 .. Len(lines) - 1 |-> <<Req!Before(lines[k + 1], sep), Req!After(lines[k + 1], sep)>>]
  BY DEF Req!ReadFields
<1> HIDE DEF F, lines, sep
<1>5. ASSUME NEW k \in 1 .. n
      PROVE  <<Req!Before(lines[k + 1], sep), Req!After(lines[k + 1], sep)>> = F[k]
  <2>1. IsHeader(F[k]) /\ lines[k + 1] = Req!FieldLine(F[k])
    BY <1>1, <1>3
  <2>2. Req!Before(lines[k + 1], sep) = F[k][1] /\ Req!After(lines[k + 1], sep) = F[k][2]
    BY <2>1, HeaderReads DEF sep
  <2>3. F[k] = <<F[k][1], F[k][2]>>
    BY <2>1 DEF IsHeader
  <2> QED BY <2>2, <2>3
<1>6. Len(lines) - 1 = n
  BY <1>2, <1>3
<1>7. Req!ReadFields(wire) = [k \in 1 .. n |-> F[k]]
  BY <1>4, <1>5, <1>6
<1>8. Req!ReadFields(wire) = F
  BY <1>2, <1>7
<1> QED BY <1>8 DEF F

LEMMA InvReadsBack == RequestInv => Req!RequestReadsBack
<1> SUFFICES ASSUME Readable, built PROVE Req!TargetReadsBack /\ Req!FieldsReadBack
  BY WellFormedReadable DEF Req!RequestReadsBack
<1>1. StartTyped /\ PathTyped /\ QueryTyped /\ HeadersTyped /\ BodyTyped
  BY DEF Readable, Filled
<1>2. Req!ReadStart(wire) = <<startLine.method, TargetOf, Req!Version(startLine)>>
  BY <1>1, LinesRead, FirstLineReads, RequestChars DEF Req!ReadStart
<1>3. Req!ReadTarget(wire) = TargetOf
  BY <1>2 DEF Req!ReadTarget
<1>4. Req!Before(TargetOf, <<63>>) = path /\ Req!ReadQuery(wire) = params
  BY <1>1, <1>3, TargetReads
<1>5. Req!TargetReadsBack
  BY <1>2, <1>3, <1>4, RequestChars DEF Req!TargetReadsBack
<1>6. Req!FieldsReadBack
  <2>1. /\ Req!ReadFields(wire) = headers \o IF body = <<>> THEN <<>> ELSE <<Req!LengthOf(body)>>
        /\ Req!BodyOf(wire) = body
    BY FieldsRead, LinesRead DEF SentFields
  <2>2. body # <<>> => Req!ReadFields(wire)[Len(headers) + 1] = Req!LengthOf(body)
    BY <1>1, FieldsRead, SentFieldsAre
  <2>3. Req!Number(Req!LengthOf(body)[2]) = Len(body)
    BY <1>1, LengthIs DEF BodyTyped
  <2>4. body # <<>> => Req!Number(Req!ReadFields(wire)[Len(headers) + 1][2]) = Len(body)
    BY <2>2, <2>3
  <2> QED BY <2>1, <2>4 DEF Req!FieldsReadBack
<1> QED BY <1>5, <1>6

LEMMA InvOneLength == RequestInv => Req!OneLength
<1> DEFINE IsLength(f) == Req!Lower(f[1]) = Req!Lower(Req!ContentLength)
           K == {k \in DOMAIN SentFields : IsLength(SentFields[k])}
           n == Len(headers)
<1> SUFFICES ASSUME Readable, built
             PROVE  Req!Cardinality(K) = IF body = <<>> THEN 0 ELSE 1
  BY FieldsRead, WellFormedReadable DEF Req!OneLength
<1>1. HeadersTyped /\ BodyTyped
  BY DEF Readable, Filled
<1>2. /\ Len(SentFields) = n + (IF body = <<>> THEN 0 ELSE 1)
      /\ \A k \in 1 .. n : SentFields[k] = headers[k]
      /\ body # <<>> => SentFields[n + 1] = Req!LengthOf(body)
      /\ n \in Nat /\ DOMAIN SentFields = 1 .. Len(SentFields)
  BY <1>1, SentFieldsAre, LenProperties
<1>3. \A k \in 1 .. n : ~IsLength(SentFields[k])
  <2>1. \A k \in 1 .. n : headers[k] \in HeaderFields
    BY <1>1, ElementOfSeq DEF HeadersTyped
  <2>2. \A k \in 1 .. n : Req!Validate(headers[k])
    BY <2>1, HeaderFieldIs
  <2> QED BY <1>2, <2>2 DEF Req!Validate
<1>4. IsLength(Req!LengthOf(body))
  BY <1>1, LengthIs DEF BodyTyped
<1> HIDE DEF IsLength, n
<1>5. \A T : Req!Cardinality(T) = Cardinality(T)
  BY DEF Req!Cardinality, Cardinality
<1>6. CASE body = <<>>
  <2>1. K = {}
    BY <1>2, <1>3, <1>6
  <2>2. Cardinality({}) = 0
    BY FS_EmptySet
  <2> QED BY <1>5, <1>6, <2>1, <2>2
<1>7. CASE body # <<>>
  <2>1. DOMAIN SentFields = 1 .. n + 1 /\ n + 1 \in 1 .. n + 1
    BY <1>2, <1>7
  <2>2. \A k \in 1 .. n + 1 : k \in 1 .. n \/ k = n + 1
    BY <1>2
  <2>3. K = {n + 1}
    BY <1>2, <1>3, <1>4, <1>7, <2>1, <2>2
  <2>4. Cardinality({n + 1}) = 1
    BY FS_Singleton
  <2> QED BY <1>5, <1>7, <2>3, <2>4
<1> QED BY <1>6, <1>7

-------------------------------------------------------------------------------
(* The theorems *)

\* A program builds a request, reads a response or copies one, and does nothing else.
LEMMA PartsStep ==
  [Next]_vars => [Req!Next]_request /\ [Resp!Next]_response /\ [Copies!Next]_copies
BY DEF Next, vars, NextRequest, NextResponse, NextCopies

\* What Request::buildRequest() returns, a server that takes it apart at the characters that
\* separate its parts finds to be what the program gave: method, version, path, the keys and
\* values of the query, every field, a Content-Length exactly when there is a body, with the
\* number of its bytes, and the body.  Versions are any integers; query and body are any bytes.
\* So are method, path and fields, but only WellFormed ones are read back: the code does not
\* look for blanks, '?', ':' and the end of a line in them.
THEOREM RequestCorrect == Spec => []RequestReadsBack
<1>1. Init => RequestInv
  BY InitRequest DEF Init
<1>2. RequestInv /\ [Next]_vars => RequestInv'
  BY NextRequestInv, PartsStep
<1>3. RequestInv => RequestReadsBack
  BY InvReadsBack DEF RequestReadsBack
<1> QED BY <1>1, <1>2, <1>3, PTL DEF Spec

\* A request has one Content-Length when it has a body and none when it has no body, however
\* the program spells the fields it adds: HeaderValidator refuses every spelling.  Method, path
\* and fields are WellFormed.
THEOREM LengthCorrect == Spec => []OneLength
<1>1. Init => RequestInv
  BY InitRequest DEF Init
<1>2. RequestInv /\ [Next]_vars => RequestInv'
  BY NextRequestInv, PartsStep
<1>3. RequestInv => OneLength
  BY InvOneLength DEF OneLength
<1> QED BY <1>1, <1>2, <1>3, PTL DEF Spec

\* Response::from() and isCompleteHeader() agree but for two cases: from() accepts no part of a
\* header for the whole; it refuses a whole one only when the reason phrase is empty, and reads
\* behind its text or a literal only when a Nul follows the header.
THEOREM AcceptsCorrect == Spec => []AcceptsWhenComplete
<1>1. Init => ParserInv
  BY InitParser DEF Init
<1>2. ParserInv /\ [Next]_vars => ParserInv'
  BY NextParser, PartsStep
<1>3. ParserInv => AcceptsWhenComplete
  BY InvAccepts DEF AcceptsWhenComplete
<1> QED BY <1>1, <1>2, <1>3, PTL DEF Spec

\* What Response::from() finds in a header it accepts is what the server put there: the number
\* of the code, the reason phrase, of every field name the last value, and the place behind the
\* header.
THEOREM ReadsCorrect == Spec => []ReadsWhatWasSent
<1>1. Init => ParserInv
  BY InitParser DEF Init
<1>2. ParserInv /\ [Next]_vars => ParserInv'
  BY NextParser, PartsStep
<1>3. ParserInv => ReadsWhatWasSent
  BY InvReads DEF ReadsWhatWasSent
<1> QED BY <1>1, <1>2, <1>3, PTL DEF Spec

\* The views of a Response that from() returned, and of one its long text or its vector was
\* moved to, stay inside the text it owns.
THEOREM ViewsStay == Spec => []ViewsStayValid
<1>1. Init => CopiesInv
  BY InitCopies, MemoryIs DEF Init
<1>2. CopiesInv /\ [Next]_vars => CopiesInv'
  BY NextCopiesInv, MemoryIs, PartsStep
<1>3. CopiesInv => ViewsStayValid
  BY DEF CopiesInv, ViewsStayValid
<1> QED BY <1>1, <1>2, <1>3, PTL DEF Spec
===============================================================================
