--------------------------- MODULE MCBuildClaims ---------------------------
EXTENDS BuildClaims, TLC

Symmetry == Permutations(Runs)
=============================================================================
