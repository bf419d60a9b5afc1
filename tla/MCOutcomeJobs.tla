--------------------------- MODULE MCOutcomeJobs ---------------------------
(* Small instances of OutcomeJobs for TLC. *)
EXTENDS OutcomeJobs, TLC

\* Capture windows of one tick, and of two: long enough to lease a job twice.
Windows == [h \in Horizon |-> 1]
Wider   == [h \in Horizon |-> 2]

Interchangeable == Permutations(Worker) \cup Permutations(Slot)
=============================================================================
