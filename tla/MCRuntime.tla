----------------------------- MODULE MCRuntime -----------------------------
EXTENDS Runtime

CONSTANT k1

\* The two names of one group, and a name that runs are keyed under.
MCClicks == {<<"discovery", NoKey>>, <<"matching", NoKey>>, <<"prep", k1>>}
MCSizes == {1, 2}
=============================================================================
