---------------------------- MODULE MCEmployerJd ----------------------------
EXTENDS EmployerJd, TLC

CONSTANTS s1, f1, e1, e2, l1

\* The employer has revised its posting.
MCSays == [l \in Links |-> {e1, e2}]

Symmetry == Permutations(Workers)
=============================================================================
