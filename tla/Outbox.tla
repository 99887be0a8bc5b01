------------------------------- MODULE Outbox -------------------------------
(***************************************************************************)
(* The transactional outbox: rows of integration_events, the Celery        *)
(* workers that run publish_outbox, the operator's retry and the           *)
(* downstream_status that a public submission keeps about its event.       *)
(*                                                                         *)
(* One action is one database transaction, or the external call between    *)
(* two of them: claim commits before the slow network work and every       *)
(* delivered event is committed on its own, so other workers act between   *)
(* those steps.  A worker keeps, in memory, the rows as it claimed them.   *)
(*                                                                         *)
(* Time is abstracted to what the queries compare with now: due[e] is      *)
(* next_attempt_at <= now, lease[e] tells whether lease_expires_at is      *)
(* NULL, in the future or in the past.  claim_token is modelled by the     *)
(* worker whose claim wrote it.  Events are numbered by created_at.        *)
(***************************************************************************)
EXTENDS Naturals, FiniteSets

CONSTANTS
    Events,            \* rows, numbered in created_at order
    Workers,           \* Celery worker processes
    NULL,              \* the SQL NULL of claim_token and downstream_status
    Kind,              \* Kind[e]: which branch of deliver_outbox_event e takes
    Legacy,            \* statuses of rows written before the schema upgrade
    MaxAttempts,       \* MAX_ATTEMPTS
    Limit,             \* rows one claim takes at most
    MaxCrashes,        \* bound: how many times a worker may die
    OdooEnabled,       \* settings.odoo_enabled of the API process
    Rolling            \* may a deployment change middleware_enabled meanwhile?

Kinds == {"email", "submission", "dispute", "unhandled"}

DownstreamStatus == {"PENDING", "PENDING_CONFIGURATION", "DELIVERED"}

ASSUME EventsAssumption == Events \subseteq Nat
ASSUME NullAssumption == NULL \notin Workers \cup DownstreamStatus
ASSUME KindAssumption == Kind \in [Events -> Kinds]
ASSUME LegacyAssumption ==
    Legacy \subseteq {"FAILED_RETRYABLE", "FAILED", "DEAD_LETTER"}
ASSUME AttemptsAssumption == MaxAttempts \in Nat \ {0}
ASSUME BoundsAssumption == Limit \in Nat /\ MaxCrashes \in Nat
ASSUME FlagsAssumption ==
    /\ OdooEnabled \in BOOLEAN
    /\ Rolling \in BOOLEAN

VARIABLES
    status,      \* IntegrationEvent.status, "ABSENT" before the row exists
    attempts,    \* attempt_count
    due,         \* next_attempt_at <= now
    lease,       \* lease_expires_at: "none", "running" or "lapsed"
    owner,       \* claim_token
    downstream,  \* PublicSubmission.downstream_status of the event's submission
    accepted,    \* history: the receiver has accepted the event
    enabled,     \* settings.middleware_enabled of each worker process
    pc,          \* where a worker stands in publish_outbox
    batch,       \* the claimed rows a worker has still to deliver
    seen,        \* attempt_count of those rows in the worker's memory
    outcome,     \* how the call to deliver ended
    read,        \* downstream_status that session.get returned
    crashes,     \* worker deaths so far
    overrun,     \* history: the lease ended while a worker still had the row
    withdrawn    \* history: the row was parked while a worker still had it

row   == <<status, attempts, due, lease, owner>>
local == <<pc, batch, seen, outcome, read>>
taken == <<overrun, withdrawn>>
vars  == <<status, attempts, due, lease, owner, downstream, accepted, enabled,
           pc, batch, seen, outcome, read, crashes, overrun, withdrawn>>

EventStatus ==
    {"PENDING", "PENDING_CONFIGURATION", "PROCESSING", "DELIVERED", "RETRYING",
     "FAILED_RETRYABLE", "FAILED_TERMINAL", "FAILED", "DEAD_LETTER"}
Outcomes == {"ok", "lost_ack", "retryable", "terminal", "unconfigured"}

\* One past MAX_ATTEMPTS stands for every larger count: the code only asks
\* whether attempt_count >= MAX_ATTEMPTS.
Bump(n) == IF n <= MaxAttempts THEN n + 1 ELSE n

Open == {"PENDING", "RETRYING", "FAILED_RETRYABLE"}
RetriableOrDelivered ==
    {"DEAD_LETTER", "FAILED", "FAILED_TERMINAL", "PENDING_CONFIGURATION", "DELIVERED"}
Retriable == {"DEAD_LETTER", "FAILED", "FAILED_TERMINAL", "PENDING_CONFIGURATION"}

Init ==
    /\ status \in [Events -> {"ABSENT"} \cup Legacy]
    /\ attempts = [e \in Events |-> IF status[e] = "ABSENT" THEN 0 ELSE MaxAttempts]
    /\ due = [e \in Events |-> TRUE]
    /\ lease = [e \in Events |-> "none"]
    /\ owner = [e \in Events |-> NULL]
    /\ downstream = [e \in Events |->
          IF status[e] # "ABSENT" /\ Kind[e] = "submission" THEN "PENDING" ELSE NULL]
    /\ accepted = [e \in Events |-> FALSE]
    /\ enabled \in [Workers -> BOOLEAN]
    /\ Rolling \/ \A w, v \in Workers : enabled[w] = enabled[v]
    /\ pc = [w \in Workers |-> "idle"]
    /\ batch = [w \in Workers |-> {}]
    /\ seen = [w \in Workers |-> [e \in Events |-> 0]]
    /\ outcome = [w \in Workers |-> "ok"]
    /\ read = [w \in Workers |-> NULL]
    /\ crashes = 0
    /\ overrun = {}
    /\ withdrawn = {}

\* Some worker has still to deliver the row, or to write the result.
Held(e) == \E w \in Workers : e \in batch[w]

-----------------------------------------------------------------------------
(* Producers *)

\* The statuses a producer may give a new row: PublicSubmissionService.accept
\* follows the API's middleware_enabled (which a deployment may change), dispute
\* follows odoo_enabled, the other producers take the column's default.
Initial(e) ==
    CASE Kind[e] = "submission" -> {"PENDING", "PENDING_CONFIGURATION"}
      [] Kind[e] = "dispute" ->
            {IF OdooEnabled THEN "PENDING" ELSE "PENDING_CONFIGURATION"}
      [] OTHER -> {"PENDING"}

\* A domain transaction commits its event; a public submission is inserted in
\* the same transaction with the same status.
Publish(e) ==
    /\ status[e] = "ABSENT"
    /\ \E s \in Initial(e) :
          /\ status' = [status EXCEPT ![e] = s]
          /\ downstream' = [downstream EXCEPT ![e] =
                IF Kind[e] = "submission" THEN s ELSE NULL]
    /\ UNCHANGED <<attempts, due, lease, owner, accepted, enabled, local, crashes, taken>>

-----------------------------------------------------------------------------
(* publish_outbox, one step per transaction or external call *)

ParkedDispute(e) == Kind[e] = "dispute" /\ status[e] = "PENDING_CONFIGURATION"

\* The rows activate_pending_configuration selects: public submissions only
Parked(e) == Kind[e] = "submission" /\ status[e] = "PENDING_CONFIGURATION"

\* activate_pending_configuration
Activate(w) ==
    /\ pc[w] = "idle"
    /\ enabled[w]
    /\ status' = [e \in Events |-> IF Parked(e) THEN "PENDING" ELSE status[e]]
    /\ due' = [e \in Events |-> Parked(e) \/ due[e]]
    /\ downstream' = [e \in Events |-> IF Parked(e) THEN "PENDING" ELSE downstream[e]]
    /\ pc' = [pc EXCEPT ![w] = "claim"]
    /\ UNCHANGED <<attempts, lease, owner, accepted, enabled, batch, seen, outcome,
                   read, crashes, taken>>

\* The rows park_unconfigured selects
Parkable(e) == Kind[e] = "submission" /\ status[e] \in Open \cup {"PROCESSING"}

\* park_unconfigured: it also takes rows another worker is delivering
Park(w) ==
    /\ pc[w] = "idle"
    /\ ~enabled[w]
    /\ status' = [e \in Events |->
          IF Parkable(e) THEN "PENDING_CONFIGURATION" ELSE status[e]]
    /\ lease' = [e \in Events |-> IF Parkable(e) THEN "none" ELSE lease[e]]
    /\ owner' = [e \in Events |-> IF Parkable(e) THEN NULL ELSE owner[e]]
    /\ downstream' = [e \in Events |->
          IF Parkable(e) THEN "PENDING_CONFIGURATION" ELSE downstream[e]]
    /\ pc' = [pc EXCEPT ![w] = "claim"]
    /\ withdrawn' = withdrawn \cup {e \in Events : Parkable(e) /\ Held(e)}
    /\ UNCHANGED <<attempts, due, accepted, enabled, batch, seen, outcome, read,
                   crashes, overrun>>

ClaimableAnyLease(e) ==
    \/ status[e] \in Open /\ due[e]
    \/ status[e] = "PROCESSING"
ClaimableNoReclaim(e) == status[e] \in Open /\ due[e]

\* The rows claim's query selects: due, or abandoned by a claim whose lease ended
Claimable(e) ==
    \/ status[e] \in Open /\ due[e]
    \/ status[e] = "PROCESSING" /\ lease[e] = "lapsed"

\* claim: S leaves out rows that SKIP LOCKED skipped.  The worker remembers the
\* attempt_count it wrote.
Claim(w, S) ==
    /\ pc[w] = "claim"
    /\ S \subseteq {e \in Events : Claimable(e)}
    /\ Cardinality(S) <= Limit
    /\ status' = [e \in Events |-> IF e \in S THEN "PROCESSING" ELSE status[e]]
    /\ lease' = [e \in Events |-> IF e \in S THEN "running" ELSE lease[e]]
    /\ owner' = [e \in Events |-> IF e \in S THEN w ELSE owner[e]]
    /\ attempts' = [e \in Events |-> IF e \in S THEN Bump(attempts[e]) ELSE attempts[e]]
    /\ batch' = [batch EXCEPT ![w] = S]
    /\ seen' = [seen EXCEPT ![w] = [e \in Events |-> IF e \in S THEN attempts'[e] ELSE 0]]
    /\ pc' = [pc EXCEPT ![w] = IF S = {} THEN "idle" ELSE "deliver"]
    /\ UNCHANGED <<due, downstream, accepted, enabled, outcome, read, crashes, taken>>

\* How delivering e can end, by the branches of deliver_outbox_event, of
\* MiddlewareAdapter.deliver and of EmailAdapter.send.  A timeout after the
\* receiver has taken the event ("lost_ack") looks like any retryable error.
PossibleOutcomes(w, e) ==
    CASE Kind[e] = "email" -> {"ok", "lost_ack", "retryable", "unconfigured"}
      [] Kind[e] \in {"submission", "dispute"} ->
            IF enabled[w] THEN {"ok", "lost_ack", "retryable", "terminal"}
                          ELSE {"terminal"}
      [] Kind[e] = "unhandled" -> {"terminal"}

\* The row at the head of the batch: claim returns them by created_at.
First(w, e) == e \in batch[w] /\ \A f \in batch[w] : e <= f

\* result = await deliver(event), outside any lock on the row
Deliver(w, e) ==
    /\ pc[w] = "deliver"
    /\ First(w, e)
    /\ \E o \in PossibleOutcomes(w, e) :
          /\ outcome' = [outcome EXCEPT ![w] = o]
          /\ accepted' = [accepted EXCEPT ![e] = @ \/ o \in {"ok", "lost_ack"}]
    /\ read' = [read EXCEPT ![w] = downstream[e]]
    /\ pc' = [pc EXCEPT ![w] = "commit"]
    /\ UNCHANGED <<row, downstream, enabled, batch, seen, crashes, taken>>

VerdictForgotten(w, e) ==
    IF outcome[w] = "ok" THEN "DELIVERED" ELSE "PROCESSING"
VerdictSwallowed(w, e) ==
    IF outcome[w] = "terminal" THEN "FAILED_TERMINAL" ELSE "DELIVERED"
VerdictLate(w, e) ==
    CASE outcome[w] = "ok" -> "DELIVERED"
      [] outcome[w] = "unconfigured" -> "PENDING_CONFIGURATION"
      [] outcome[w] = "terminal" \/ (outcome[w] \in {"retryable", "lost_ack"}
                                     /\ seen[w][e] > MaxAttempts) -> "FAILED_TERMINAL"
      [] OTHER -> "RETRYING"

\* The status that process gives the row, from the outcome and from the
\* attempt_count the worker remembers.
Verdict(w, e) ==
    CASE outcome[w] = "ok" -> "DELIVERED"
      [] outcome[w] = "unconfigured" -> "PENDING_CONFIGURATION"
      [] outcome[w] = "terminal" \/ (outcome[w] \in {"retryable", "lost_ack"}
                                     /\ seen[w][e] >= MaxAttempts) -> "FAILED_TERMINAL"
      [] OTHER -> "RETRYING"

\* The commit that ends one iteration of process.  The row is written whatever
\* it holds by now; downstream_status is written if the worker saw it differ.
Commit(w, e) ==
    /\ pc[w] = "commit"
    /\ First(w, e)
    /\ status' = [status EXCEPT ![e] = Verdict(w, e)]
    /\ due' = [due EXCEPT ![e] = @ /\ Verdict(w, e) # "RETRYING"]
    /\ lease' = [lease EXCEPT ![e] = "none"]
    /\ owner' = [owner EXCEPT ![e] = NULL]
    /\ downstream' = [downstream EXCEPT ![e] =
          IF Kind[e] = "submission" /\ outcome[w] = "ok" /\ read[w] # "DELIVERED"
          THEN "DELIVERED" ELSE @]
    /\ batch' = [batch EXCEPT ![w] = @ \ {e}]
    /\ pc' = [pc EXCEPT ![w] = IF batch[w] = {e} THEN "idle" ELSE "deliver"]
    /\ seen' = [seen EXCEPT ![w][e] = 0]
    /\ outcome' = [outcome EXCEPT ![w] = "ok"]
    /\ read' = [read EXCEPT ![w] = NULL]
    /\ UNCHANGED <<attempts, accepted, enabled, crashes, taken>>

-----------------------------------------------------------------------------
(* The operator, the clock, the deployment *)

\* OutboxService.retry
Retry(e) ==
    /\ status[e] \in Retriable
    /\ status' = [status EXCEPT ![e] = "PENDING"]
    /\ attempts' = [attempts EXCEPT ![e] = 0]
    /\ due' = [due EXCEPT ![e] = TRUE]
    /\ lease' = [lease EXCEPT ![e] = "none"]
    /\ owner' = [owner EXCEPT ![e] = NULL]
    /\ UNCHANGED <<downstream, accepted, enabled, local, crashes, taken>>

\* The backoff of a RETRYING row has elapsed
BackoffElapses(e) ==
    /\ ~due[e]
    /\ due' = [due EXCEPT ![e] = TRUE]
    /\ UNCHANGED <<status, attempts, lease, owner, downstream, accepted, enabled,
                   local, crashes, taken>>

\* lease_expires_at is reached, whether or not the worker that claimed the row is
\* still at its batch: 50 deliveries may take longer than 300 seconds.
LeaseExpires(e) ==
    /\ lease[e] = "running"
    /\ lease' = [lease EXCEPT ![e] = "lapsed"]
    /\ overrun' = IF Held(e) THEN overrun \cup {e} ELSE overrun
    /\ UNCHANGED <<status, attempts, due, owner, downstream, accepted, enabled,
                   local, crashes, withdrawn>>

\* A worker dies between two of its steps and loses its memory; the process that
\* replaces it may have been deployed with the other setting.
Crash(w) ==
    /\ pc[w] # "idle"
    /\ crashes < MaxCrashes
    /\ crashes' = crashes + 1
    /\ pc' = [pc EXCEPT ![w] = "idle"]
    /\ batch' = [batch EXCEPT ![w] = {}]
    /\ \E b \in BOOLEAN :
          /\ b # enabled[w] => Rolling
          /\ enabled' = [enabled EXCEPT ![w] = b]
    /\ seen' = [seen EXCEPT ![w] = [e \in Events |-> 0]]
    /\ outcome' = [outcome EXCEPT ![w] = "ok"]
    /\ read' = [read EXCEPT ![w] = NULL]
    /\ UNCHANGED <<row, downstream, accepted, taken>>

PublishOutbox(w) ==
    \/ Activate(w)
    \/ Park(w)
    \/ \E S \in SUBSET Events : Claim(w, S)
    \/ \E e \in Events : Deliver(w, e) \/ Commit(w, e)

Next ==
    \/ \E e \in Events : \/ Publish(e)
                         \/ Retry(e)
                         \/ BackoffElapses(e)
                         \/ LeaseExpires(e)
    \/ \E w \in Workers : PublishOutbox(w) \/ Crash(w)

Spec == Init /\ [][Next]_vars

\* Beat starts publish_outbox every 10 seconds, so a live worker keeps running
\* it, the clock advances, and the claim query serves the oldest rows first, so
\* a row that stays claimable is claimed.
Fairness ==
    /\ \A w \in Workers :
          /\ WF_vars(Activate(w) \/ Park(w))
          /\ WF_vars(\E S \in SUBSET Events : Claim(w, S))
          /\ WF_vars(\E e \in Events : Deliver(w, e) \/ Commit(w, e))
    /\ \A e \in Events :
          /\ WF_vars(BackoffElapses(e))
          /\ WF_vars(LeaseExpires(e))
          /\ SF_vars(\E w \in Workers, S \in SUBSET Events : e \in S /\ Claim(w, S))

FairSpec == Spec /\ Fairness
-----------------------------------------------------------------------------
(* Properties *)

TypeOK ==
    /\ status \in [Events -> {"ABSENT"} \cup EventStatus]
    /\ attempts \in [Events -> 0 .. MaxAttempts + 1]
    /\ due \in [Events -> BOOLEAN]
    /\ lease \in [Events -> {"none", "running", "lapsed"}]
    /\ owner \in [Events -> Workers \cup {NULL}]
    /\ downstream \in [Events -> DownstreamStatus \cup {NULL}]
    /\ accepted \in [Events -> BOOLEAN]
    /\ enabled \in [Workers -> BOOLEAN]
    /\ pc \in [Workers -> {"idle", "claim", "deliver", "commit"}]
    /\ batch \in [Workers -> SUBSET Events]
    /\ seen \in [Workers -> [Events -> 0 .. MaxAttempts + 1]]
    /\ outcome \in [Workers -> Outcomes]
    /\ read \in [Workers -> DownstreamStatus \cup {NULL}]
    /\ crashes \in 0 .. MaxCrashes
    /\ overrun \subseteq Events /\ withdrawn \subseteq Events

\* No event is stranded: a row is PROCESSING exactly while it carries a lease
\* and a claim token, so claim's query finds it again once the lease expires,
\* whichever worker died, parked it or overwrote it.  (A PROCESSING row whose
\* lease_expires_at is NULL matches neither branch of the query, for ever.)
ProcessingIsLeased ==
    \A e \in Events :
        /\ status[e] = "PROCESSING" <=> lease[e] # "none"
        /\ status[e] = "PROCESSING" <=> owner[e] # NULL

\* "A no-op is not delivery" (tasks.py): neither an event nor its submission
\* says DELIVERED unless the receiver accepted the event, and a type without a
\* handler is never DELIVERED, even when stale workers write late.
DeliveredWasAccepted ==
    \A e \in Events :
        (status[e] = "DELIVERED" \/ downstream[e] = "DELIVERED")
            => accepted[e] /\ Kind[e] # "unhandled"

\* Taken from a worker that had it: by a lapse of its lease, or by a worker with
\* the middleware off that parked it.
Taken(e) == e \in overrun \cup withdrawn

\* A worker owns what it has still to deliver, until a lapse or a parking takes the
\* row from it; nothing else (a crash, a retry by the operator, another worker's
\* commit, activation, claim) does.
HeldIsOwned ==
    \A w \in Workers : \A e \in batch[w] :
        Taken(e) \/ (status[e] = "PROCESSING" /\ owner[e] = w)

\* Only a late result, of a worker from which the row had been taken, can undo a
\* delivery: no crash, parking, activation, claim or retry sends it again.
DeliveredIsFinal ==
    [][\A e \in Events :
         status[e] = "DELIVERED" /\ ~Taken(e) => status'[e] = "DELIVERED"]_vars

\* The submission's copy of the status, which is written only when it differs from
\* what was read before the delivery.  An event that is DELIVERED has a submission
\* that says so, however many workers write it late, as long as nobody parked it
\* under them; and none says so of an event that is not, unless it was taken.
DownstreamAgrees ==
    \A e \in Events : Kind[e] = "submission" =>
        /\ status[e] = "DELIVERED" /\ e \notin withdrawn => downstream[e] = "DELIVERED"
        /\ downstream[e] = "DELIVERED" /\ ~Taken(e) => status[e] = "DELIVERED"

\* An event that waits for another attempt has had fewer than MAX_ATTEMPTS of
\* them, in spite of crashes between claim and result, unless a worker wrote the
\* result after the row was taken from it.
RetryBudget ==
    \A e \in Events : status[e] = "RETRYING" /\ ~Taken(e) => attempts[e] < MaxAttempts

Settled == {"DELIVERED", "FAILED_TERMINAL", "PENDING_CONFIGURATION"}

\* Every event that waits or is being delivered is eventually delivered, failed
\* for good or parked: no crash, lapse or overwritten claim leaves it in limbo.
EventuallySettled ==
    \A e \in Events : status[e] \in Open \cup {"PROCESSING"} ~> status[e] \in Settled

\* Once the middleware stays enabled in every worker, a parked submission is
\* activated and ends delivered or failed.
ParkedIsActivated ==
    <>[](\A w \in Workers : enabled[w]) =>
        \A e \in Events :
            Kind[e] = "submission" /\ status[e] = "PENDING_CONFIGURATION"
                ~> status[e] \in {"DELIVERED", "FAILED_TERMINAL"}
=============================================================================
