SPECIFICATION FairSpec
CONSTANTS
  d1 = d1
  d2 = d2
  c1 = c1
  r1 = r1
  r2 = r2
  a1 = a1
  t1 = t1
  y1 = y1
  x1 = x1
  Timer = {d1}
  ByHand = {d2}
  Cockpit = {c1}
  Items = {r1, r2, a1, t1, y1, x1}
  Kind <- KindOf
  Rank <- RankOf
  MaxShown = 1
  Movable = {}
  MaxDate = 2
  MaxMoves = 1
  MaxFaults = 1
  MaxSkips = 1
  Nobody = Nobody
INVARIANTS NothingBuried
PROPERTIES AnnouncedOnce DueIsTold
CHECK_DEADLOCK FALSE
