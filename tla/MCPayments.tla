----------------------------- MODULE MCPayments -----------------------------
(* Instances of Payments for TLC.                                           *)
EXTENDS Payments, TLC

CONSTANTS p1, p2, s1, r1, r2

\* One payment, or two payments for one subject
OneSubject == [p \in {p1} |-> s1]
SameSubject == [p \in {p1, p2} |-> s1]

NoRefund == [r \in {} |-> p1]
OneRefund == [r \in {r1} |-> p1]
TwoRefunds == [r \in {r1, r2} |-> p1]
RefundSymmetry == Permutations({r1, r2})
=============================================================================
