------------------------------ MODULE MCBooking -----------------------------
(* Instances of Booking for TLC.                                            *)
EXTENDS Booking, TLC

\* One booking session makes every request.
OneOwner == CHOOSE o \in Owners : TRUE
SameOwner == [h \in Holds |-> OneOwner]

Symmetry == Permutations(Holds) \cup Permutations(Workers)
=============================================================================
