CONSTANTS
  Candidate = {1}
  Horizon = {0, 2}
  Window <- Windows
  Lease = 1
  RetryDelay = 1
  Worker = {w1, w2}
  Slot = {a, b}
  MaxTime = 4
  MaxLife = 1
SPECIFICATION Spec
SYMMETRY Interchangeable
INVARIANTS CapturedInWindow ReturnNeedsBoth LedgerInv
PROPERTY SettledIsFinal
