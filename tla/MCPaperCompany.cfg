CONSTANTS
  old = old
  m1 = m1
  m2 = m2
  m3 = m3
  Mint = {old, m1, m2}
  LegacyMint = {old}
  StartingBalance = 110
  Size = 10
  Cost = 1
  Reserve = 50
  DailyLoss = 10
  LossStreak = 2
  Gain <- Quotes
  Stop = 5
  Target = 5
  LegacyTarget = 4
  StopLoss <- Half
  HardStop <- All
  MaxDay = 1
  MaxFaults = 1
  MaxRestarts = 1
SPECIFICATION LiveSpec
INVARIANTS
  EntryInv
  QuietBooks
  DayLossBounded
PROPERTIES
  KeepsEntryPromise
  EntryOnSoundBooks
  SlotFreed
