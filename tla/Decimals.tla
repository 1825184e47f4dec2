-------------------------------- MODULE Decimals --------------------------------
(***************************************************************************)
(* Numbers as text: what string::stringify writes for an integer, and      *)
(* strtol reads.                                                           *)
(***************************************************************************)
EXTENDS Integers, Sequences

Hyphen == 45

\* The digits of a natural number.
Digits(n) ==
  LET d[k \in 0 .. n] == IF k < 10 THEN <<48 + k>> ELSE Append(d[k \div 10], 48 + (k % 10))
  IN  d[n]

Decimal(n) == IF n < 0 THEN <<Hyphen>> \o Digits(-n) ELSE Digits(n)

\* The number a text of digits stands for.  No number read here is too large for an int.
Number(text) ==
  LET v[k \in 0 .. Len(text)] == IF k = 0 THEN 0 ELSE 10 * v[k - 1] + (text[k] - 48)
  IN  v[Len(text)]
===============================================================================
