SPECIFICATION FairSpec
CONSTANTS
  MaxSeq = 3
  Clicks <- MCClicks
  NoKey = NoKey
  k1 = k1
  Watched = {1}
  MaxRuns = 1
  Sizes <- MCSizes
  MaxGates = 2
INVARIANTS NoOverlap SlotsConserved
PROPERTY EveryRunEnds
CHECK_DEADLOCK FALSE
