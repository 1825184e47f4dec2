\* Codecs: Nul, LF, blank, %, &, +, -, 0, =, a, x, \ and a byte above 127: every case of the
\* tables and of strtol.  JSON: every pair of neighbours, both ends.  Options: values of no
\* bit, of one, of the next and of both.  Pickers: a collection that grows and shrinks.
CONSTANTS
  Alphabet = {0, 10, 32, 37, 38, 43, 45, 48, 61, 97, 120, 92, 255}
  MaxLen = 3
  JsonAlphabet <- Chars
  JsonMaxLen = 3
  Objects = {o1, o2}
  Width = 3
  Enum = {0, 1, 2, 6}
  InitialValue = {1}
  Pickers = {k1, k2}
  MaxSize = 3
SPECIFICATION Spec
INVARIANTS
  RoundTrip
  WireIsSafe
  EscapesInOrder
PROPERTIES
  ImplementsOptionSet
  PicksInside
\* A program ends after its last call.
CHECK_DEADLOCK FALSE
