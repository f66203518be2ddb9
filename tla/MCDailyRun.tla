----------------------------- MODULE MCDailyRun -----------------------------
\* Two runs of blastjob-daily and a clicked pass; two roles for a window of one,
\* an ask, a touch, a reply and a closure.
EXTENDS DailyRun, TLC
CONSTANTS d1, d2, c1, r1, r2, a1, t1, y1, x1
KindOf == [i \in Items |-> CASE i \in {r1, r2} -> "role" [] i = a1 -> "ask" [] i = t1 -> "touch"
                              [] i = y1 -> "reply" [] i = x1 -> "closed"]
RankOf == [i \in Items |-> IF i = r2 THEN 1 ELSE 0]
=============================================================================
