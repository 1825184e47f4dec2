------------------------------ MODULE HttpRequest ------------------------------
(***************************************************************************)
(* net::http::Request (Request.hpp, Request.cpp): a request is filled in   *)
(* any order, and buildRequest() lays it out as the bytes to send.         *)
(***************************************************************************)
EXTENDS Codec, Decimals

CONSTANTS
  Methods,        \* arguments of method()
  Versions,       \* arguments of major() and minor()
  Paths,          \* arguments of path()
  Params,         \* pairs given to query()
  Fields,         \* pairs given to headers()
  Bodies,         \* arguments of body() and bodyAppend()
  MaxParams, MaxFields, MaxBody  \* how much is added (bounds)

VARIABLES
  startLine, \* [method_, major_, minor_]
  path,      \* path_
  query,     \* query_, whose keys and values are encoded
  headers,   \* headers_
  body,      \* body_
  wire,      \* what buildRequest() returned
  built,     \* it was called (bound: once; it changes nothing in the request)
  params     \* history: the pairs that were given to query()

vars == <<startLine, path, query, headers, body, wire, built, params>>

\* "GET", the method of a Request by default; "HTTP/", "\r\n", ...
Get == <<71, 69, 84>>
Protocol == <<72, 84, 84, 80, 47>>
CR == 13     LF == 10     EOL == <<CR, LF>>
Question == 63   Ampersand == 38   Colon == 58   Dot == 46
ContentLength == <<67, 111, 110, 116, 101, 110, 116, 45, 76, 101, 110, 103, 116, 104>>

Init ==
  /\ startLine = [method |-> Get, major |-> 1, minor |-> 1]
  /\ path = <<>> /\ query = <<>> /\ headers = <<>> /\ body = <<>>
  /\ wire = <<>> /\ built = FALSE /\ params = <<>>

-------------------------------------------------------------------------------
(* Filling the request *)

\* method(), major() and minor()
SetStartLine(line) ==
  /\ ~built
  /\ startLine' = line
  /\ UNCHANGED <<path, query, headers, body, wire, built, params>>

SetMethod(m) == SetStartLine([startLine EXCEPT !.method = m])
SetMajor(v)  == SetStartLine([startLine EXCEPT !.major = v])
SetMinor(v)  == SetStartLine([startLine EXCEPT !.minor = v])

SetPath(p) ==
  /\ ~built
  /\ path' = p
  /\ UNCHANGED <<startLine, query, headers, body, wire, built, params>>

\* QuerySerializer
Serialized(p) == <<UrlEncode(p[1]), UrlEncode(p[2])>>

AddQuery(p) ==
  /\ ~built
  /\ Len(query) < MaxParams
  /\ query' = Append(query, Serialized(p))
  /\ params' = Append(params, p)
  /\ UNCHANGED <<startLine, path, headers, body, wire, built>>

Lower(name) == [i \in DOMAIN name |-> IF name[i] \in 65 .. 90 THEN name[i] + 32 ELSE name[i]]

\* Faulty: the case of the name matters.
ValidateExactly(f) == f[1] # ContentLength

\* HeaderValidator: boost::iequals(key, "Content-Length") makes += throw.
Validate(f) == Lower(f[1]) # Lower(ContentLength)

AddHeader(f) ==
  /\ ~built
  /\ Len(headers) < MaxFields
  /\ Validate(f)
  /\ headers' = Append(headers, f)
  /\ UNCHANGED <<startLine, path, query, body, wire, built, params>>

SetBody(b) ==
  /\ ~built
  /\ body' = b
  /\ UNCHANGED <<startLine, path, query, headers, wire, built, params>>

AppendBody(b) ==
  /\ ~built
  /\ Len(body) + Len(b) <= MaxBody
  /\ body' = body \o b
  /\ UNCHANGED <<startLine, path, query, headers, wire, built, params>>

-------------------------------------------------------------------------------
(* buildRequest() *)

\* << " HTTP/" << major_ << "." << minor_
Version(line) == Protocol \o Decimal(line.major) \o <<Dot>> \o Decimal(line.minor)

PairOf(p) == p[1] \o <<Equal>> \o p[2]

\* Faulty: no separator between the pairs.
QueryOfUnseparated(q) == FlattenSeq([i \in DOMAIN q |-> PairOf(q[i])])

\* operator<< of QueryParams
QueryOf(q) ==
  FlattenSeq([i \in DOMAIN q |-> (IF i = 1 THEN <<>> ELSE <<Ampersand>>) \o PairOf(q[i])])

FieldLine(f) == f[1] \o <<Colon, Space>> \o f[2]

\* operator<< of Headers
HeaderLines(hs) == FlattenSeq([i \in DOMAIN hs |-> FieldLine(hs[i]) \o EOL])

LengthOf(b) == <<ContentLength, Decimal(Len(b))>>

BodyPart(b) ==
  IF b = <<>> THEN EOL ELSE FieldLine(LengthOf(b)) \o EOL \o EOL \o b

\* A '?' when there is a query.
Target(p, q) == IF q = <<>> THEN p ELSE p \o <<Question>> \o QueryOf(q)

StartLine(line, p, q) == line.method \o <<Space>> \o Target(p, q) \o <<Space>> \o Version(line)

BuildRequest ==
  /\ ~built /\ built' = TRUE
  /\ wire' = StartLine(startLine, path, query) \o EOL \o HeaderLines(headers) \o BodyPart(body)
  /\ UNCHANGED <<startLine, path, query, headers, body, params>>

Next ==
  \/ \E m \in Methods : SetMethod(m)
  \/ \E v \in Versions : SetMajor(v) \/ SetMinor(v)
  \/ \E p \in Paths : SetPath(p)
  \/ \E p \in Params : AddQuery(p)
  \/ \E f \in Fields : AddHeader(f)
  \/ \E b \in Bodies : SetBody(b) \/ AppendBody(b)
  \/ BuildRequest

Spec == Init /\ [][Next]_vars

-------------------------------------------------------------------------------
(* How a server reads a request (RFC 7230, RFC 3986) *)

\* sep is in str at place j.
IsAt(str, sep, j) ==
  j + Len(sep) <= Len(str) + 1 /\ \A k \in DOMAIN sep : str[j + k - 1] = sep[k]

\* The first place from i on where sep is, or the end.
Find(str, sep, i) == LET places == {j \in i .. Len(str) : IsAt(str, sep, j)}
                     IN  IF places = {} THEN Len(str) + 1 ELSE Min(places)

\* The parts of str between the separators.
Split(str, sep) ==
  LET from[i \in 1 .. Len(str) + 1] ==
        LET j == Find(str, sep, i)
        IN  <<SubSeq(str, i, j - 1)>> \o IF j > Len(str) THEN <<>> ELSE from[j + Len(sep)]
  IN  from[1]

\* str before and after its first sep, which need not occur.
Before(str, sep) == SubSeq(str, 1, Find(str, sep, 1) - 1)
After(str, sep)  == SubSeq(str, Find(str, sep, 1) + Len(sep), Len(str))

\* The lines of the header, and where the body begins.
LinesOf(str) == Split(Before(str, EOL \o EOL), EOL)
BodyOf(str)  == After(str, EOL \o EOL)

ReadStart(str)  == Split(LinesOf(str)[1], <<Space>>)
ReadTarget(str) == ReadStart(str)[2]
ReadQuery(str) ==
  IF Find(ReadTarget(str), <<Question>>, 1) > Len(ReadTarget(str)) THEN <<>>
  ELSE LET pairs == Split(After(ReadTarget(str), <<Question>>), <<Ampersand>>)
       IN  [k \in DOMAIN pairs |-> <<UrlDecode(Before(pairs[k], <<Equal>>)),
                                     UrlDecode(After(pairs[k], <<Equal>>))>>]
ReadFields(str) ==
  LET lines == LinesOf(str)
  IN  [k \in 1 .. Len(lines) - 1 |-> <<Before(lines[k + 1], <<Colon, Space>>),
                                       After(lines[k + 1], <<Colon, Space>>)>>]

-------------------------------------------------------------------------------
(* Properties *)

\* The characters that end a word, a name or a line on the wire are not in the method, the
\* path and the fields.  The code does not look for them there.
Lacks(str, C) == \A i \in DOMAIN str : str[i] \notin C

WellFormed ==
  /\ Lacks(startLine.method, {Space, CR})
  /\ Lacks(path, {Space, Question, CR})
  /\ \A k \in DOMAIN headers : Lacks(headers[k][1], {Colon, CR}) /\ Lacks(headers[k][2], {CR})

TargetReadsBack ==
  /\ Len(ReadStart(wire)) = 3
  /\ ReadStart(wire)[1] = startLine.method
  /\ ReadStart(wire)[3] = Version(startLine)
  /\ Before(ReadTarget(wire), <<Question>>) = path
  /\ ReadQuery(wire) = params

FieldsReadBack ==
  /\ ReadFields(wire) = headers \o IF body = <<>> THEN <<>> ELSE <<LengthOf(body)>>
  /\ BodyOf(wire) = body
  /\ body # <<>> => Number(ReadFields(wire)[Len(headers) + 1][2]) = Len(body)

(***************************************************************************)
(* A server that reads what buildRequest() returned finds the method, the  *)
(* version, the path, and the keys and values given to query(), in their   *)
(* order and whatever characters they hold; the header fields in their     *)
(* order, a Content-Length exactly when there is a body, with its length,  *)
(* and the body, of any characters.  Method, path and fields are           *)
(* WellFormed: the code leaves that to its caller.                         *)
(* Request::buildRequest, QuerySerializer.                                 *)
(***************************************************************************)
RequestReadsBack == built /\ WellFormed => TargetReadsBack /\ FieldsReadBack

(***************************************************************************)
(* A request has one length: however the program spells the name of a      *)
(* field, the one buildRequest() computes is the only Content-Length.      *)
(* Method, path and fields are WellFormed.                                 *)
(***************************************************************************)
OneLength ==
  built /\ WellFormed =>
    Cardinality({k \in DOMAIN ReadFields(wire) :
                   Lower(ReadFields(wire)[k][1]) = Lower(ContentLength)})
      = IF body = <<>> THEN 0 ELSE 1
===============================================================================
