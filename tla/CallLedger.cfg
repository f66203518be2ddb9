SPECIFICATION Spec
CONSTANTS
  Procs = {cockpit, daily}
  Calls = {c1, c2}
  Rows = {r1, r2, r3}
  Pids = {p1, p2}
  Origins = {clicked}
  Callers = {k1}
  Cap <- OnePerDay
  PsReadable = TRUE
  MaxDay = 1
  MaxBoots = 3
  MaxLost = 1
SYMMETRY Symmetry
INVARIANTS CapHolds LiveCallNeverAbandoned PredecessorsRowsClosed
CHECK_DEADLOCK FALSE
