------------------------------ MODULE MCOutbox ------------------------------
(* Instances of Outbox for TLC.                                             *)
EXTENDS Outbox, TLC

MCEvents == {1, 2}

\* The event of a public form
FormKind == [e \in {1} |-> "submission"]

\* A submission and an e-mail in one batch
MixedKind == [e \in MCEvents |-> IF e = 1 THEN "submission" ELSE "email"]

\* Worker processes are interchangeable (safety runs only).
WorkerSymmetry == Permutations(Workers)
=============================================================================
