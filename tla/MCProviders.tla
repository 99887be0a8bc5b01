----------------------------- MODULE MCProviders ----------------------------
(* Instances of Providers for TLC.                                          *)
EXTENDS Providers, TLC

CONSTANTS s1, s2, d1

\* The service that needs no approval and the one that does, on any day
MCCoverage == {{s1, s2, d1}}

Symmetry == Permutations(Requests)
=============================================================================
