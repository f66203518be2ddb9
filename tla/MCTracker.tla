----------------------------- MODULE MCTracker -----------------------------
EXTENDS Tracker, TLC

OneRole == [j \in Jobs |-> Jobs]
=============================================================================
