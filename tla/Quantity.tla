------------------------------ MODULE Quantity ------------------------------
(***************************************************************************)
(* The arithmetic the program is written with: None of Python, its min and *)
(* max of two numbers, its sum and its round.                              *)
(***************************************************************************)
EXTENDS Integers, FiniteSetsExt

Unknown == -1

Least(a, b)    == IF a <= b THEN a ELSE b
Greatest(a, b) == IF a >= b THEN a ELSE b
Clip(lo, hi, n) == Greatest(lo, Least(hi, n))

\* round(n / d) for a fraction; a half goes up, in Python to the even number.
Nearest(n, d) == (2 * n + d) \div (2 * d)

\* What part of a supply is held, compared with a percentage.  A share that is not
\* known is neither above nor below one.
NoShare == [held |-> 0, supply |-> 0]
Above(share, pct) == 100 * share.held > pct * share.supply
Below(share, pct) == 100 * share.held < pct * share.supply

\* The sum of f over a finite set.
SumOf(f, S) == MapThenSumSet(LAMBDA x : f[x], S)
=============================================================================
