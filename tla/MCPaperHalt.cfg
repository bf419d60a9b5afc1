CONSTANTS
  old = old
  m1 = m1
  m2 = m2
  m3 = m3
  Mint = {m1, m2}
  LegacyMint = {}
  StartingBalance = 110
  Size = 10
  Cost = 1
  Reserve = 50
  DailyLoss = 10
  LossStreak = 2
  Gain <- Quotes
  Stop = 5
  Target = 5
  LegacyTarget = 4
  StopLoss <- Half
  HardStop <- All
  MaxDay = 0
  MaxFaults = 0
  MaxRestarts = 0
SPECIFICATION Spec
PROPERTY HaltForCause
