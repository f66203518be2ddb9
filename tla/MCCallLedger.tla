--------------------------- MODULE MCCallLedger ---------------------------
EXTENDS CallLedger, TLC

\* The smallest cap at which two callers race for the last slot.
OnePerDay == [o \in Origins |-> 1]

Symmetry ==
  Permutations(Procs) \cup Permutations(Calls) \cup Permutations(Rows) \cup Permutations(Pids)
=============================================================================
