SPECIFICATION MatchSpec
CONSTANTS
  Jobs <- MCJobs
  RoleOf <- MCRoleOf
  Texts = {t1, t2}
  Short = {}
  Far = {3}
  Unplaced = {2}
  Dropped = {}
  Unreadable = {t2}
  Answers = {"below", "above"}
  BatchSize = 2
  FallbackJobBudget = 2
  Clickers = {c1}
  Named <- MCNamed
  MaxActs = 2
INVARIANTS ScoreIsTrue TwinsAgree
PROPERTIES ScoredInTheEnd FlaggedRolesLeave
CHECK_DEADLOCK FALSE
