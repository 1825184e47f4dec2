\* A request of two query pairs, two fields, a body of up to ten bytes (a length of two digits).
\* A response of up to two fields, of the same name or not, cut at every place; three objects.
CONSTANTS
  Methods <- SomeMethods
  Versions = {0, 1}
  Paths <- SomePaths
  Params <- SomeParams
  Fields <- SomeFields
  Bodies <- SomeBodies
  MaxParams = 2
  MaxFields = 2
  MaxBody = 10
  Codes = {204, 500}
  Messages <- SomeMessages
  ResponseFields <- SomeResponseFields
  MaxResponseFields = 2
  Rests <- SomeRests
  Responses = {r1, r2, r3}
  Blocks = {b1, b2, b3}
SPECIFICATION Spec
INVARIANTS
  RequestReadsBack
  OneLength
  AcceptsWhenComplete
  ReadsWhatWasSent
  ViewsStayValid
\* The request is built, or Response::from() has returned or thrown.
CHECK_DEADLOCK FALSE
