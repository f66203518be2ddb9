----------------------------- MODULE MCSupervise -----------------------------
EXTENDS Supervise

CONSTANTS c1

MCCalls == {c1}
=============================================================================
