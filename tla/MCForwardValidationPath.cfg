CONSTANTS
  m1 = m1
  m2 = m2
  m3 = m3
  m4 = m4
  Mint = {m1, m2}
  Plan <- OnePlan
  Gross <- Prices
  Start = 1100
  Reserve = 500
  MaxAmount = 200
  DailyLimit = 100
  Streak = 3
  MaxGap = 2
  MaxHold = 4
  Day = 3
  MaxClock = 5
  LastEntry = 2
  MaxStops = 1
  MaxSteps = 1
SPECIFICATION FairSpec
INVARIANT OnePosition
PROPERTIES NoHiddenGap NothingIsCleared EveryPathResolves
CHECK_DEADLOCK FALSE
