CONSTANTS
  m1 = m1
  m2 = m2
  Session = {s1}
  Mint = {m1, m2}
  Legacy = {m1}
  Score <- StrictScores
SPECIFICATION FairSpec
PROPERTY NotSuppressed
