SPECIFICATION StreamFairSpec
CONSTANTS
  Consumers = {c1, c2}
  Window = 2
  MaxEvents = 4
  MaxDrops = 2
INVARIANT EndsWithTheEnd
PROPERTIES OnlyTrimmedIsSkipped EveryStreamEnds
CHECK_DEADLOCK FALSE
