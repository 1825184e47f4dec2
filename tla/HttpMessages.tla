----------------------------- MODULE HttpMessages -----------------------------
(***************************************************************************)
(* The parts of commonpp::net::http: requests are built, responses read,   *)
(* and responses copied.  A behaviour is one of a program that does one of *)
(* these; the others stay as they are.                                     *)
(***************************************************************************)
EXTENDS Integers, Sequences

CONSTANTS
  Methods, Versions, Paths, Params, Fields, Bodies, MaxParams, MaxFields, MaxBody,
  Codes, Messages, ResponseFields, MaxResponseFields, Rests,
  Responses, Blocks

\* A version is an integer; memory is no object.
ASSUME HttpAssumption ==
  /\ Versions \subseteq Int
  /\ Blocks \cap Responses = {} /\ "none" \notin Blocks \cup Responses

VARIABLE part  \* "request", "response" or "copies"

VARIABLES startLine, path, query, headers, body, wire, built, params
request == <<startLine, path, query, headers, body, wire, built, params>>
Req == INSTANCE HttpRequest

VARIABLES sent, buf, buffer, it, code, message, parsedHeaders, pc
response == <<sent, buf, buffer, it, code, message, parsedHeaders, pc>>
Resp == INSTANCE HttpResponse WITH
  Fields <- ResponseFields, MaxFields <- MaxResponseFields, headers <- parsedHeaders

VARIABLES kind, place, view, derived
copies == <<kind, place, view, derived>>
Copies == INSTANCE ResponseCopies

vars == <<part, request, response, copies>>

Text == Seq(0 .. 255)

\* What a program may give to a Request: any bytes.
ASSUME RequestAssumption ==
  /\ Methods \subseteq Text /\ Paths \subseteq Text /\ Bodies \subseteq Text
  /\ Params \subseteq Text \X Text /\ Fields \subseteq Text \X Text

\* What a server may send: a code of three digits, a reason phrase, empty or not, and fields
\* whose names and values are not broken off by the characters that separate them.
ASSUME ResponseAssumption ==
  LET Without(C) == Seq((0 .. 255) \ C)
  IN  /\ Codes \subseteq 100 .. 999
      /\ \A m \in Messages : m \in Without({Resp!CR}) /\ (m # <<>> => ~Resp!IsSpace(m[1]))
      /\ \A f \in ResponseFields :
           /\ f[1] \in Without({Resp!Colon, Resp!Space, Resp!CR, Resp!Nul}) /\ f[1] # <<>>
           /\ f[2] \in Seq({Resp!Space}) /\ f[3] \in Seq({Resp!Space})
           /\ f[4] \in Without({Resp!CR}) /\ (f[4] # <<>> => f[4][1] # Resp!Space)
      /\ MaxResponseFields \in Nat
      /\ Rests \subseteq Text

\* A program that reads no response is sent any one.
Init ==
  /\ part \in {"request", "response", "copies"}
  /\ Req!Init /\ Resp!Init /\ Copies!Init
  /\ part = "response" \/ sent = CHOOSE r \in Resp!Sendable : TRUE

NextRequest  == part = "request"  /\ Req!Next    /\ UNCHANGED <<part, response, copies>>
NextResponse == part = "response" /\ Resp!Next   /\ UNCHANGED <<part, request, copies>>
NextCopies   == part = "copies"   /\ Copies!Next /\ UNCHANGED <<part, request, response>>

Next == NextRequest \/ NextResponse \/ NextCopies

Spec == Init /\ [][Next]_vars

-------------------------------------------------------------------------------
(* Properties *)

\* What buildRequest() lays out reads back: module HttpRequest.
RequestReadsBack == Req!RequestReadsBack

\* One Content-Length at most: module HttpRequest.
OneLength == Req!OneLength

\* from() accepts what isCompleteHeader() accepts: module HttpResponse.
AcceptsWhenComplete == Resp!AcceptsWhenComplete

\* What from() finds is what the server sent: module HttpResponse.
ReadsWhatWasSent == Resp!ReadsWhatWasSent

\* A Response owns what its views show: module ResponseCopies.
ViewsStayValid == Copies!ViewsStayValid
===============================================================================
