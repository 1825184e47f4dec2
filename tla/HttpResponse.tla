------------------------------ MODULE HttpResponse ------------------------------
(***************************************************************************)
(* net::http::Response (Response.cpp): the parser of the header of a       *)
(* response, and isCompleteHeader(), which tells a client that keeps       *)
(* receiving whether the whole header has come.                            *)
(*                                                                         *)
(* A server sends a response; the client has received some part of it.     *)
(* The text is a std::string, at whose end stands a Nul, or a std::vector, *)
(* behind whose last character there is nothing to read.                   *)
(***************************************************************************)
EXTENDS Naturals, Sequences, SequencesExt, Decimals

CONSTANTS
  Codes,      \* status codes, of three digits
  Messages,   \* reason phrases, none with a blank in front; the empty one is refused
  Fields,     \* <<name, blanks around the ':', value>>, see FieldLine
  MaxFields,  \* fields of a response (bound)
  Rests       \* what follows the header

VARIABLES
  sent,     \* the response the server sent
  buf,      \* what the client has received of it
  buffer,   \* buffer_: "string" or "vector"
  it,       \* the parser's place in buf, counted from 1
  code, message, headers,   \* code_, message_, headers_
  pc        \* "receive", "status", "headers", "end", and then "parsed", "thrown" or
            \* "outside": a character behind the text, or behind a literal, was read

vars == <<sent, buf, buffer, it, code, message, headers, pc>>

CR == 13   LF == 10   Space == 32   Colon == 58   Dot == 46   Nul == 0
EOL == <<CR, LF>>
Protocol == <<72, 84, 84, 80, 47>>
IsSpace(c) == c = Space \/ c \in 9 .. 13
IsDigit(c) == c \in 48 .. 57
IsBlank(c) == c = Space

-------------------------------------------------------------------------------
(* The server *)

\* A field has blanks before and after its colon: none, one or two.
FieldLine(f) == f[1] \o f[2] \o <<Colon>> \o f[3] \o f[4] \o EOL

Header(r) ==
  FlattenSeq(<<Protocol, <<49, Dot, 49, Space>>, Digits(r.code), <<Space>>, r.message, EOL,
               FlattenSeq([k \in DOMAIN r.fields |-> FieldLine(r.fields[k])]), EOL>>)

Sendable == [code : Codes, message : Messages,
             fields : BoundedSeq(Fields, MaxFields), rest : Rests]

Init ==
  /\ sent \in Sendable
  /\ buf = <<>> /\ buffer = "string" /\ it = 1
  /\ code = 200 /\ message = <<>> /\ headers = {}
  /\ pc = "receive"

-------------------------------------------------------------------------------
(* Text *)

\* The character at place j; the terminator at the end.
At(j) == IF j \in DOMAIN buf THEN buf[j] ELSE Nul
End == Len(buf) + 1
Text(from, to) == SubSeq(buf, from, to - 1)

\* The first place from j on whose character is in C, or the end (std::find_if).
Find(j, C) == LET at == SelectInSubSeq(buf, j, Len(buf), LAMBDA c : c \in C)
              IN  IF at = 0 THEN End ELSE at

\* The first place from j on that does not satisfy Skip, or the end.
SkipTo(j, Skip(_)) == LET at == SelectInSubSeq(buf, j, Len(buf), LAMBDA c : ~Skip(c))
                      IN  IF at = 0 THEN End ELSE at

\* Faulty: a prefix is enough.
ExpectsPrefix(j, lit) == \A k \in DOMAIN lit : j + k - 1 < End => At(j + k - 1) = lit[k]

\* The literal stands in the text at place j.
Shows(j, lit) == \A k \in DOMAIN lit : At(j + k - 1) = lit[k]

\* The loop of expect() stops at the first difference: a Nul in the text behind the literal
\* is none from the terminator of the literal, and the loop goes on behind that.
RunsOn(j, lit) == Shows(j, lit) /\ j + Len(lit) \in DOMAIN buf /\ buf[j + Len(lit)] = Nul

\* expect() returns.
Expects(j, lit) == Shows(j, lit) /\ ~RunsOn(j, lit)

-------------------------------------------------------------------------------
(* isCompleteHeader() *)

IsCompleteHeader == \E k \in 1 .. Len(buf) - 3 : SubSeq(buf, k, k + 3) = EOL \o EOL

-------------------------------------------------------------------------------
(* parse_status_line() *)

\* The '.' after the major version, and strtol's first digit after the minor.
DotAt  == IF 1 + Len(Protocol) < End THEN 2 + Len(Protocol) ELSE 1 + Len(Protocol)
CodeAt == SkipTo(IF DotAt + 1 < End THEN DotAt + 2 ELSE DotAt + 1, IsSpace)
CodeEnd == SkipTo(CodeAt, IsDigit)
MessageEnd == Find(CodeEnd, {CR})

\* while (isspace(*it) && it < msg_end)
MessageAt == LET at == SkipTo(CodeEnd, IsSpace) IN IF at > MessageEnd THEN MessageEnd ELSE at

\* Up to the last expect()
MessageIsValid ==
  /\ Expects(1, Protocol) /\ Expects(DotAt, <<Dot>>)
  /\ CodeEnd > CodeAt
  /\ MessageEnd < End
  /\ MessageAt < MessageEnd

StatusLineIsValid == MessageIsValid /\ Expects(MessageEnd, EOL)

ParseStatusLine ==
  /\ pc = "status" /\ StatusLineIsValid
  /\ code' = Number(Text(CodeAt, CodeEnd))
  /\ message' = Text(MessageAt, MessageEnd)
  /\ it' = MessageEnd + 2
  /\ pc' = "headers"
  /\ UNCHANGED <<sent, buf, buffer, headers>>

-------------------------------------------------------------------------------
(* parse_headers(), one turn of the loop *)

KeyEnd  == Find(it, {Colon, Space, CR, Nul})
ColonAt == SkipTo(KeyEnd, IsSpace)

ValueAt  == SkipTo(ColonAt + 1, IsBlank)
ValueEnd == Find(ValueAt, {CR})

\* Faulty: only the end of a value is looked for.
FieldEndsAtCR == ValueEnd < End

FieldEnds == Shows(ValueEnd, EOL)

FieldIsValid == At(ColonAt) = Colon /\ FieldEnds

\* Faulty: the first of two fields of the same name stays.
FirstStored(key, value) ==
  IF \E h \in headers : h[1] = key THEN headers ELSE headers \cup {<<key, value>>}

\* headers_[key] = value
Stored(key, value) == {h \in headers : h[1] # key} \cup {<<key, value>>}

ParseField ==
  /\ pc = "headers" /\ it < KeyEnd /\ FieldIsValid
  /\ headers' = Stored(Text(it, KeyEnd), Text(ValueAt, ValueEnd))
  /\ it' = ValueEnd + 2
  /\ UNCHANGED <<sent, buf, buffer, code, message, pc>>

\* An empty key, or nothing at all.
NoMoreFields ==
  /\ pc = "headers" /\ it = KeyEnd
  /\ pc' = "end"
  /\ UNCHANGED <<sent, buf, buffer, it, code, message, headers>>

\* expect("\r\n") of Response::from
ExpectBlankLine ==
  /\ pc = "end" /\ Expects(it, EOL)
  /\ it' = it + 2 /\ pc' = "parsed"
  /\ UNCHANGED <<sent, buf, buffer, code, message, headers>>

\* An expect() reads behind its literal.
ReadsBehindLiteral ==
  \/ pc = "status" /\ RunsOn(1, Protocol)
  \/ pc = "status" /\ Expects(1, Protocol) /\ RunsOn(DotAt, <<Dot>>)
  \/ pc = "status" /\ MessageIsValid /\ RunsOn(MessageEnd, EOL)
  \/ pc = "end" /\ RunsOn(it, EOL)

\* What strtol, the test for ':' and the one for "\r\n" read before they know
\* whether there is anything.
ReadsBehindText ==
  /\ buffer = "vector"
  /\ \/ pc = "status" /\ Expects(1, Protocol) /\ Expects(DotAt, <<Dot>>) /\ CodeEnd = End
     \/ /\ pc = "headers" /\ it < KeyEnd
        /\ \/ ColonAt = End
           \/ At(ColonAt) = Colon /\ ValueEnd + 1 >= End

ReadsOutside == ReadsBehindLiteral \/ ReadsBehindText

\* Nothing is known of what follows.
ReadOutside ==
  /\ ReadsOutside
  /\ pc' = "outside"
  /\ UNCHANGED <<sent, buf, buffer, it, code, message, headers>>

Throw ==
  /\ ~ReadsOutside
  /\ \/ pc = "status" /\ ~StatusLineIsValid
     \/ pc = "headers" /\ it < KeyEnd /\ ~FieldIsValid
     \/ pc = "end" /\ ~Expects(it, EOL)
  /\ pc' = "thrown"
  /\ UNCHANGED <<sent, buf, buffer, it, code, message, headers>>

\* The client calls Response::from() on what it has, however much that is.
Receive(n, b) ==
  /\ pc = "receive" /\ n <= Len(Header(sent) \o sent.rest)
  /\ buf' = SubSeq(Header(sent) \o sent.rest, 1, n)
  /\ buffer' = b
  /\ pc' = "status"
  /\ UNCHANGED <<sent, it, code, message, headers>>

Next ==
  \/ \E n \in 0 .. Len(Header(sent)) + Len(sent.rest), b \in {"string", "vector"} : Receive(n, b)
  \/ ParseStatusLine \/ ParseField \/ NoMoreFields \/ ExpectBlankLine
  \/ ReadOutside \/ Throw

Spec == Init /\ [][Next]_vars

-------------------------------------------------------------------------------
(* Properties *)

\* The rest begins with a Nul, and some of it has come.
NulFollows ==
  Len(Header(sent)) + 1 \in DOMAIN buf /\ buf[Len(Header(sent)) + 1] = Nul

(***************************************************************************)
(* Response::from() accepts a text exactly when isCompleteHeader() says    *)
(* that the header has come, with two exceptions: a client that asks first *)
(* sees it throw on an empty reason phrase only, and makes it read behind  *)
(* the text or a literal only when the body begins with a Nul; one that    *)
(* does not ask never takes a part of a header for the whole.              *)
(***************************************************************************)
AcceptsWhenComplete ==
  /\ it <= End
  /\ pc = "parsed" => IsCompleteHeader /\ sent.message # <<>> /\ ~NulFollows
  /\ pc = "thrown" => ~IsCompleteHeader \/ sent.message = <<>>
  /\ pc = "outside" => ~IsCompleteHeader \/ NulFollows

LastOf(key) ==
  LET k == SelectLastInSeq(sent.fields, LAMBDA f : f[1] = key) IN sent.fields[k][4]

(***************************************************************************)
(* What is accepted is what was sent: the number of the code, the reason   *)
(* phrase, and of every field name the last value, without the blanks      *)
(* around the colon; the parser stops where the rest begins.               *)
(***************************************************************************)
ReadsWhatWasSent ==
  pc = "parsed" =>
    /\ code = sent.code /\ message = sent.message
    /\ headers = {<<key, LastOf(key)>> : key \in {sent.fields[k][1] : k \in DOMAIN sent.fields}}
    /\ it = Len(Header(sent)) + 1
===============================================================================
