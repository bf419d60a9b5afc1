CONSTANTS
  MaxRun = 3
  MaxAttempt = 2
SPECIFICATION Spec
INVARIANT NoRollback
CHECK_DEADLOCK FALSE
