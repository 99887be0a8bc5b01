------------------------------ MODULE MCAccess ------------------------------
EXTENDS Access, TLC

Symmetry == Permutations(Requests \ {First, Second}) \cup Permutations(Subjects)
=============================================================================
