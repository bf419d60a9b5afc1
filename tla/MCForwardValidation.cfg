CONSTANTS
  m1 = m1
  m2 = m2
  m3 = m3
  m4 = m4
  Mint = {m1, m2, m3, m4}
  Plan <- Plans
  Gross <- Observations
  Start = 789
  Reserve = 500
  MaxAmount = 200
  DailyLimit = 100
  Streak = 2
  MaxGap = 1
  MaxHold = 4
  Day = 2
  MaxClock = 5
  LastEntry = 4
  MaxStops = 0
  MaxSteps = 0
SPECIFICATION Spec
SYMMETRY Symmetry
INVARIANTS TypeOK ReserveKept DayLossBounded
PROPERTY HaltIsFinal
CHECK_DEADLOCK FALSE
