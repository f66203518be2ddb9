SPECIFICATION Spec
CONSTANTS
  Jobs = {j1}
  Role <- OneRole
  Menu = {"drafted", "applied"}
  Docs = {d1}
  Recruiters = {r1}
  MaxSends = 2
  MaxIds = 1
  Passes = {TRUE, FALSE}
INVARIANTS ParkedIsRestorable OneApplication OneOpenAttempt NeverBothUnawares
PROPERTY ImplementsLifecycle
CHECK_DEADLOCK FALSE
