----------------------------- MODULE MCPayouts ------------------------------
(* Instances of Payouts for TLC.                                            *)
EXTENDS Payouts

\* A share that is rounded down, and a fixed amount
MCPlans == {[method |-> "PERCENTAGE", value |-> 5000], [method |-> "FIXED_MINOR", value |-> 2]}

\* A dispute about one unit, and a correction in the vendor's favour
MCAdjustments == {"dispute", "correction"}
MCChange == [k \in MCAdjustments |-> IF k = "dispute" THEN -1 ELSE 1]
=============================================================================
