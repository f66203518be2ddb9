SPECIFICATION FairSpec
CONSTANTS
  Jobs = {j1}
  Runs = {r1, r2, r3}
INVARIANT StateMatchesRuns
PROPERTIES ImplementsPacketClaim OutcomeIsFinal TailoringEnds
CHECK_DEADLOCK FALSE
