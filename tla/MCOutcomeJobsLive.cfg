CONSTANTS
  Candidate = {1}
  Horizon = {0}
  Window <- Wider
  Lease = 1
  RetryDelay = 1
  Worker = {w1, w2}
  Slot = {a}
  MaxTime = 4
  MaxLife = 1
SPECIFICATION FairSpec
INVARIANTS OneVerdict
PROPERTY EverySettles
