SPECIFICATION LeaseSpec
CONSTANTS
  p1 = p1
  p2 = p2
  p3 = p3
  Procs <- MCProcs
  LockAttempts = 3
  MaxFiles = 5
SYMMETRY Symmetry
INVARIANT OneRevision
