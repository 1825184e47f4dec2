\* Strings of up to two characters: every pair of neighbours, both ends.
CONSTANTS
  Alphabet <- Chars
  MaxLen = 2
SPECIFICATION Spec
INVARIANTS
  TerminatorStays
\* The function returns.
CHECK_DEADLOCK FALSE
