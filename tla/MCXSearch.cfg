CONSTANTS
  Backend = {"tavily", "xai"}
  Query = {bubblemaps, insightx}
  Main = mentions
  Cooldown = 1
  Quiet = 1
SPECIFICATION FairSpec
INVARIANTS BreakerInv ScamRejects AlarmsBounded
PROPERTIES OperatorLearns AskedAgain
