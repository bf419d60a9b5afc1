CONSTANTS
  m1 = m1
  m2 = m2
  Session = {s1, s2}
  Mint = {m1, m2}
  Legacy = {m1}
  Score <- EqualScores
SPECIFICATION Spec
SYMMETRY Interchangeable
INVARIANTS TraceBeforeMessage HistoryIsTrue IndexNeverRefuses DeliveryInv
PROPERTIES KeepsPromise OnlyHolderSettles
