SPECIFICATION LiveSpec
CONSTANTS
  j1 = j1
  j2 = j2
  Jobs <- MCJobs
  Statuses <- MCStatuses
  MaxDay = 1
  MaxCopy = 2
  MaxWork = 3
  MaxChanges = 2
  MaxWrites = 1
INVARIANTS WriterKeepsItsFolder
PROPERTIES OnlyALateHoldSplits FiledInTheEnd
CHECK_DEADLOCK FALSE
