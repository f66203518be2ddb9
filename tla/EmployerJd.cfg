SPECIFICATION Spec
CONSTANTS
  Jobs = {j1}
  Workers = {w1, w2}
  l1 = l1
  s1 = s1
  f1 = f1
  e1 = e1
  e2 = e2
  Links = {l1}
  Texts = {s1, f1, e1, e2, p1}
  Short = {s1, p1}
  Sent = {s1, f1}
  Says <- MCSays
  Typed = {p1}
  MaxActs = 2
SYMMETRY Symmetry
INVARIANTS Provenance RejectedStaysOut
PROPERTY ScoreFollowsText
CHECK_DEADLOCK FALSE
