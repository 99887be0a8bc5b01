------------------------------ MODULE Traffic -------------------------------
(***************************************************************************)
(* The HTTP requests that the public site and the administration of zones  *)
(* have in flight.  Each is served on a database session of its own, and   *)
(* between two of its awaited statements the others run.  A request is a   *)
(* record: op says which statement it runs next, the other fields what it  *)
(* has read.  Row and advisory locks are derived from where requests are.  *)
(***************************************************************************)
EXTENDS Naturals, FiniteSets

CONSTANTS
    Requests,   \* sessions that the API serves at a time
    NULL

VARIABLE req    \* [Requests -> record with the field op]

Idle == [op |-> "idle"]
At(r, op) == req[r].op = op
Continue(r, record) == req' = [req EXCEPT ![r] = record]
Begin(r, record) == At(r, "idle") /\ Continue(r, record)
End(r) == Continue(r, Idle)
=============================================================================
