SPECIFICATION SuperviseSpec
CONSTANTS
  c1 = c1
  CliCalls <- MCCalls
  MaxOut = 3
  PipeSize = 1
  MaxFaults = 2
INVARIANTS NoChildOutlivesItsCall AnswerIsWhole
PROPERTIES OwnerGoneEndsTheGroup EveryCallEnds
CHECK_DEADLOCK FALSE
