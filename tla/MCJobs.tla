------------------------------- MODULE MCJobs -------------------------------
(* Instances of Jobs for TLC.                                               *)
EXTENDS Jobs, TLC

CONSTANTS w1, w2

\* Every professional is a vendor of their own.
OwnVendor == [w \in {w1, w2} |-> w]

Symmetry == Permutations({w1, w2})
=============================================================================
