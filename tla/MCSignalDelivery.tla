-------------------------- MODULE MCSignalDelivery --------------------------
(* Small instances of SignalDelivery for TLC. *)
EXTENDS SignalDelivery, TLC

CONSTANTS m1, m2

EqualScores  == [m \in Mint |-> 0]              \* any order of ranking
StrictScores == [m \in Mint |-> IF m = m1 THEN 2 ELSE 1]

Interchangeable == Permutations(Session)
=============================================================================
