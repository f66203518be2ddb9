SPECIFICATION Spec
CONSTANTS
  MaxRevs = 3
  MaxFaults = 1
  MaxCrashes = 1
  MaxReleases = 1
INVARIANTS FailClosed NoFailedDownload AlwaysAResume
PROPERTIES OnlyReleasedIsLost
CHECK_DEADLOCK FALSE
