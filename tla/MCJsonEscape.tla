----------------------------- MODULE MCJsonEscape -----------------------------
EXTENDS JsonEscape
\* A byte above 127, DEL's neighbours and every kind of control character.
Chars == {-1, 0, 8, 10, 27, 31, 32, 34, 65, 92, 127}
===============================================================================
