CONSTANTS
  m1 = m1
  m2 = m2
  m3 = m3
  sol = sol
  creator = creator
  w1 = w1
  w2 = w2
  w3 = w3
  pool1 = pool1
  pool2 = pool2
  hook = hook
  bank = bank
  NoMint = none
  Quote = {sol}
  Allowed = {hook}
  MaxFee = 100
  Mint = {m1, m2, m3, sol}
  Source <- MCSource
  Feeds <- MCFeeds
  Quotes <- MCQuotes
  Tokens <- MCTokens
  Outages <- MCOutages
  Creator = creator
  Searches <- MCSearches
  Pools <- MCPools
  Filters <- MCFilters
  MaxAttempts = 3
  MaxChecks = 1
  MaxMarket = 2
  MaxMoves = 1
  MaxLate = 1
SPECIFICATION FairSpec
INVARIANTS OnlySafeQualify LadderOrdered BuyIsSound
PROPERTIES NothingDropped StarvationFree
