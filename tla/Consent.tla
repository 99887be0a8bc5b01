------------------------------ MODULE Consent -------------------------------
(***************************************************************************)
(* What one destination has agreed to be sent: domains/compliance.  A row  *)
(* of communication_suppressions forbids one purpose while it is active;   *)
(* rows are selected without a lock and written when the request commits.  *)
(***************************************************************************)
EXTENDS Traffic

CONSTANTS
    Preferences,    \* purposes of the preference centre that apply to the destination
    Revocable,      \* the one that an inbound SMS revokes
    PrivacyPurposes \* purposes that a privacy opt-out suppresses

Purposes == Preferences \cup PrivacyPurposes

ASSUME ConsentAssumption == Revocable \in Preferences

VARIABLES
    suppressed, \* [Purposes -> active of the row of communication_suppressions, or NULL]
    withdrawn   \* ghost: purposes whose withdrawal was acknowledged, no grant since

cvars == <<suppressed, withdrawn>>

-----------------------------------------------------------------------------
Granting(p) == \E q \in Requests: At(q, "consent") /\ p \in req[q].grant

\* stop, grant: the purposes that the request suppresses and reactivates; read: what
\* it has selected; alone: ghost, those of stop that no grant has overlapped.
BeginConsent(r, stop, grant) ==
    /\ At(r, "idle")
    /\ req' = [q \in Requests |->
          IF q = r THEN [op |-> "consent", stop |-> stop, grant |-> grant, read |-> <<>>,
                         alone |-> {p \in stop: ~Granting(p)}]
          ELSE IF At(q, "consent") THEN [req[q] EXCEPT !.alone = @ \ grant]
          ELSE req[q]]
    /\ withdrawn' = withdrawn \ grant
    /\ UNCHANGED suppressed

SetPreferences(r, grant) == BeginConsent(r, Preferences \ grant, grant)
RevokeBySms(r) == BeginConsent(r, {Revocable}, {})
OptOut(r) == BeginConsent(r, PrivacyPurposes, {})

\* suppress and reactivate select one purpose after the other.
Select(r, p) ==
    /\ At(r, "consent")
    /\ p \in (req[r].stop \cup req[r].grant) \ DOMAIN req[r].read
    /\ Continue(r, [req[r] EXCEPT !.read =
          [x \in DOMAIN @ \cup {p} |-> IF x = p THEN suppressed[p] ELSE @[x]]])
    /\ UNCHANGED cvars

AllRead(r) == DOMAIN req[r].read = req[r].stop \cup req[r].grant

\* The unique constraint refuses a row that another request has inserted meanwhile.
Inserts(r) == {p \in req[r].stop: req[r].read[p] = NULL}

\* A plausible mistake: a row that exists is not activated again.
InsertedOnly(r) ==
    [p \in Purposes |->
        IF p \in Inserts(r) THEN TRUE
        ELSE IF p \in req[r].grant /\ req[r].read[p] = TRUE THEN FALSE
        ELSE suppressed[p]]

\* The session writes what differs from what it has read.
AfterConsent(r) ==
    [p \in Purposes |->
        IF p \in req[r].stop /\ req[r].read[p] # TRUE THEN TRUE
        ELSE IF p \in req[r].grant /\ req[r].read[p] = TRUE THEN FALSE
        ELSE suppressed[p]]

SaveConsent(r) ==
    /\ At(r, "consent") /\ AllRead(r)
    /\ \/ /\ \A p \in Inserts(r): suppressed[p] = NULL
          /\ suppressed' = AfterConsent(r)
          /\ withdrawn' = withdrawn \cup req[r].alone
       \/ /\ \E p \in Inserts(r): suppressed[p] # NULL
          /\ UNCHANGED cvars
    /\ End(r)
=============================================================================
