------------------------- MODULE MCForwardValidation -------------------------
EXTENDS ForwardValidation, TLC

CONSTANTS m1, m2, m3, m4

Sound  == [amount |-> 100, costs |-> 2, stop |-> -5, target |-> 15, hold |-> 2]
Costly == [amount |-> 100, costs |-> 5, stop |-> -5, target |-> 15, hold |-> 2]

OnePlan      == {Sound}
Plans        == {Sound, Costly}
\* A collapse, a stop, a drift and a target.
Observations == {-99, -6, 1, 16}
Prices       == {-6, 1}
Symmetry     == Permutations(Mint)
=============================================================================
