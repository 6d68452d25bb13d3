------------------------------ MODULE MCLearning ------------------------------
EXTENDS Learning, TLC

CONSTANTS u1, u2, r1, r2

MCSymmetry == Permutations({u1, u2}) \cup Permutations({r1, r2})
=============================================================================
