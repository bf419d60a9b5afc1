CONSTANTS
  MaxRun = 4
  MaxAttempt = 2
SPECIFICATION Spec
INVARIANTS HistoryInv KeptWithoutRerun RefusedForCause
CHECK_DEADLOCK FALSE
