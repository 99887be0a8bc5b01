------------------------------ MODULE Booking -------------------------------
(***************************************************************************)
(* Capacity holds, booking requests, the operator's confirmation, manual   *)
(* dispatch, cancellation and rescheduling, over one day of a few          *)
(* professionals.                                                          *)
(*                                                                         *)
(* A request is one PostgreSQL transaction (READ COMMITTED).  It is one    *)
(* action where a row lock protects all it reads, and is split at the      *)
(* point where what it has read may become stale before it commits.  A     *)
(* lock is not a variable: it is held by whoever is between two such       *)
(* steps.  A request reads the candidates before it takes the slot's       *)
(* advisory lock and again afterwards; only the second reading decides, so *)
(* taking the lock and reading again are one step.                         *)
(*                                                                         *)
(* Every interval has the length Duration.  A hold is named by its         *)
(* idempotency key, and the booking a hold creates by that hold (its key   *)
(* is "hold:<id>").  Every professional is otherwise eligible for every    *)
(* slot, and the score that ranks candidates is a free choice.             *)
(***************************************************************************)
EXTENDS Integers, FiniteSets

CONSTANTS
    Holds,          \* idempotency keys of hold requests
    Workers,        \* professionals
    Owners,         \* booking sessions
    Owner,          \* Owner[h]: the session that uses key h
    Starts,         \* slot starts
    Duration,       \* length of a slot, buffers included
    NULL,
    MaxHolds,       \* MAX_ACTIVE_HOLDS_PER_OWNER
    MaxDaily,       \* max_jobs_daily
    Reserve,        \* emergency_reserved_jobs
    MaxConcurrent,  \* max_concurrent_jobs
    HoursCapacity,  \* ProviderWorkingHours.capacity
    Routes          \* which of "confirm" and "reschedule" are in use

ASSUME FiniteAssumption == IsFiniteSet(Holds)
ASSUME OwnerAssumption == Owner \in [Holds -> Owners]
ASSUME NullAssumption == NULL \notin Holds \cup Workers \cup Starts
ASSUME TimeAssumption == Starts \subseteq Nat /\ Duration \in Nat \ {0}
ASSUME LimitAssumption ==
    /\ MaxHolds \in Nat /\ MaxDaily \in Nat /\ Reserve \in Nat
    /\ MaxConcurrent \in Nat /\ HoursCapacity \in Nat
ASSUME RoutesAssumption == Routes \subseteq {"confirm", "reschedule"}

VARIABLES
    hstatus,    \* BookingCapacityHold.status, "NONE" before the row exists
    hworker,    \* professional_candidate_id
    hstart,     \* slot_start_utc
    hexpired,   \* expires_at <= now
    hbooking,   \* booking_id
    bstatus,    \* Booking.status
    bstart,     \* window_start
    bworker,    \* provider_worker_id
    announced,  \* the booking.confirmed event of the booking exists
    jstatus,    \* status of the booking's Job
    jstart,     \* scheduled_start
    jworker,    \* Job.worker_id
    assigned,   \* worker of the job's ACTIVE Assignment
    pc,         \* the request that creates or converts the hold
    target,     \* the booking a conversion is for
    expiring,   \* a GET has read the hold as HELD and expired
    op,         \* the dispatch transaction that holds the booking's row lock
    opworker,   \* the professional it is for
    opseen,     \* the job status it has read
    late,       \* history: the holds whose conversion was overtaken by their expiry
    unchecked   \* history: the jobs whose professional and window the matcher did not see

holds    == <<hstatus, hworker, hstart, hexpired, hbooking>>
bookings == <<bstatus, bstart, bworker, announced>>
jobs     == <<jstatus, jstart, jworker, assigned>>
requests == <<pc, target, expiring>>
ops      == <<op, opworker, opseen>>
history  == <<late, unchecked>>
vars     == <<hstatus, hworker, hstart, hexpired, hbooking, bstatus, bstart, bworker,
              announced, jstatus, jstart, jworker, assigned, pc, target, expiring,
              op, opworker, opseen, late, unchecked>>

CapacityHoldStatus == {"HELD", "CONVERTED", "EXPIRED", "RELEASED"}
BookingStatus == {"PENDING_MANUAL_DISPATCH", "PROVIDER_ASSIGNED", "CONFIRMED",
                  "REASSIGNMENT_REQUIRED", "CANCELLED"}

\* MATCHING stands for CREATED, MATCHING and OFFERED, UNDERWAY for the statuses
\* from EN_ROUTE to IN_PROGRESS.
JobStatus == {"MATCHING", "ASSIGNED", "UNDERWAY", "COMPLETED", "CANCELLED"}

Init ==
    /\ hstatus = [h \in Holds |-> "NONE"]
    /\ hworker = [h \in Holds |-> NULL]
    /\ hstart = [h \in Holds |-> NULL]
    /\ hexpired = [h \in Holds |-> FALSE]
    /\ hbooking = [h \in Holds |-> NULL]
    /\ bstatus = [b \in Holds |-> "NONE"]
    /\ bstart = [b \in Holds |-> NULL]
    /\ bworker = [b \in Holds |-> NULL]
    /\ announced = [b \in Holds |-> FALSE]
    /\ jstatus = [b \in Holds |-> "NONE"]
    /\ jstart = [b \in Holds |-> NULL]
    /\ jworker = [b \in Holds |-> NULL]
    /\ assigned = [b \in Holds |-> NULL]
    /\ pc = [h \in Holds |-> "idle"]
    /\ target = [h \in Holds |-> NULL]
    /\ expiring = [h \in Holds |-> FALSE]
    /\ op = [b \in Holds |-> "idle"]
    /\ opworker = [b \in Holds |-> NULL]
    /\ opseen = [b \in Holds |-> "NONE"]
    /\ late = {}
    /\ unchecked = {}

-----------------------------------------------------------------------------
(* ProviderMatcher._usage and ensure_capacity *)

Overlap(s, t) == s < t + Duration /\ t < s + Duration

\* The professional's jobs that count as usage
JobsOf(w) == {b \in Holds : jworker[b] = w /\ jstatus[b] \in {"MATCHING", "ASSIGNED", "UNDERWAY"}}

\* A hold counts while it is HELD and has not expired, and, once converted,
\* while its booking is alive and has no job yet.
Consumes(h) ==
    \/ hstatus[h] = "HELD" /\ ~hexpired[h]
    \/ /\ hstatus[h] = "CONVERTED"
       /\ bstatus[hbooking[h]] # "CANCELLED"
       /\ jstatus[hbooking[h]] = "NONE"

\* The holds on the professional that count as usage
HoldsOf(w) == {h \in Holds : hworker[h] = w /\ Consumes(h)}

Usage(w) == Cardinality(JobsOf(w)) + Cardinality(HoldsOf(w))
Overlaps(w, s) == Cardinality({b \in JobsOf(w) : Overlap(jstart[b], s)})
                  + Cardinality({h \in HoldsOf(w) : Overlap(hstart[h], s)})

\* w is a candidate for the slot at s when at most max visits a day are allowed
Available(w, s, max) == Usage(w) < max /\ Overlaps(w, s) < MaxConcurrent

SlotLockedForHolds(w, s) ==
    \E h \in Holds : pc[h] \in {"matched", "counted"} /\ hworker[h] = w /\ hstart[h] = s

\* lock_provider_slot: the advisory lock is keyed by professional and start
SlotLocked(w, s) ==
    \/ \E h \in Holds : pc[h] \in {"matched", "counted"} /\ hworker[h] = w /\ hstart[h] = s
    \/ \E b \in Holds : op[b] # "idle" /\ opworker[b] = w /\ bstart[b] = s

\* The booking's row lock (SELECT ... FOR UPDATE)
BookingLocked(b) ==
    op[b] # "idle" \/ \E h \in Holds : h # b /\ pc[h] = "converting" /\ target[h] = b

-----------------------------------------------------------------------------
(* CapacityHoldService *)

\* create, up to the second reading of the candidates.  The idempotency lock
\* admits one request per key, and a key that has a hold returns it.
Match(h, w, s) ==
    /\ pc[h] = "idle"
    /\ hstatus[h] = "NONE"
    /\ ~SlotLocked(w, s)
    /\ Available(w, s, MaxDaily)
    /\ pc' = [pc EXCEPT ![h] = "matched"]
    /\ hworker' = [hworker EXCEPT ![h] = w]
    /\ hstart' = [hstart EXCEPT ![h] = s]
    /\ UNCHANGED <<hstatus, hexpired, hbooking, bookings, jobs, target, expiring, ops, history>>

ActiveHolds(o) == {h \in Holds : Owner[h] = o /\ hstatus[h] = "HELD" /\ ~hexpired[h]}

\* create counts the active holds of the session ...
CountOwner(h) ==
    /\ pc[h] = "matched"
    /\ Cardinality(ActiveHolds(Owner[h])) < MaxHolds
    /\ pc' = [pc EXCEPT ![h] = "counted"]
    /\ UNCHANGED <<holds, bookings, jobs, target, expiring, ops, history>>

\* ... and commits the hold
InsertHold(h) ==
    /\ pc[h] = "counted"
    /\ pc' = [pc EXCEPT ![h] = "idle"]
    /\ hstatus' = [hstatus EXCEPT ![h] = "HELD"]
    /\ UNCHANGED <<hworker, hstart, hexpired, hbooking, bookings, jobs, target, expiring, ops, history>>

\* The request is refused or dies, and its transaction is rolled back.
Abort(h) ==
    /\ pc[h] # "idle"
    /\ pc' = [pc EXCEPT ![h] = "idle"]
    /\ target' = [target EXCEPT ![h] = NULL]
    /\ hworker' = [hworker EXCEPT ![h] = IF hstatus[h] = "NONE" THEN NULL ELSE @]
    /\ hstart' = [hstart EXCEPT ![h] = IF hstatus[h] = "NONE" THEN NULL ELSE @]
    /\ UNCHANGED <<hstatus, hexpired, hbooking, bookings, jobs, expiring, ops, history>>

\* expires_at, 30 minutes after the hold was made, is reached.
HoldExpires(h) ==
    /\ hstatus[h] = "HELD"
    /\ ~hexpired[h]
    /\ hexpired' = [hexpired EXCEPT ![h] = TRUE]
    /\ UNCHANGED <<hstatus, hworker, hstart, hbooking, bookings, jobs, requests, ops, history>>

\* get reads the row without a lock ...
ReadExpired(h) ==
    /\ hstatus[h] = "HELD"
    /\ hexpired[h]
    /\ ~expiring[h]
    /\ expiring' = [expiring EXCEPT ![h] = TRUE]
    /\ UNCHANGED <<holds, bookings, jobs, pc, target, ops, history>>

\* ... and writes EXPIRED over whatever the row says when it gets the row lock.
WriteExpired(h) ==
    /\ expiring[h]
    /\ pc[h] # "converting"
    /\ expiring' = [expiring EXCEPT ![h] = FALSE]
    /\ hstatus' = [hstatus EXCEPT ![h] = "EXPIRED"]
    /\ UNCHANGED <<hworker, hstart, hexpired, hbooking, bookings, jobs, pc, target, ops, history>>

ReleaseAnyway(h) ==
    /\ hstatus[h] \in {"HELD", "CONVERTED"}
    /\ pc[h] # "converting"
    /\ hstatus' = [hstatus EXCEPT ![h] = "RELEASED"]
    /\ UNCHANGED <<hworker, hstart, hexpired, hbooking, bookings, jobs, requests, ops, history>>

\* release: row lock, then the status
Release(h) ==
    /\ hstatus[h] = "HELD"
    /\ pc[h] # "converting"
    /\ hstatus' = [hstatus EXCEPT ![h] = "RELEASED"]
    /\ UNCHANGED <<hworker, hstart, hexpired, hbooking, bookings, jobs, requests, ops, history>>

-----------------------------------------------------------------------------
(* BookingRequestService.create and reschedule_booking *)

\* Both lock the hold's row and require it HELD and not expired.
Convertible(h) == pc[h] = "idle" /\ hstatus[h] = "HELD" /\ ~hexpired[h]

\* create checks the hold; the customer's account is made before the commit.
BeginRequest(h) ==
    /\ Convertible(h)
    /\ pc' = [pc EXCEPT ![h] = "converting"]
    /\ target' = [target EXCEPT ![h] = h]
    /\ UNCHANGED <<holds, bookings, jobs, expiring, ops, history>>

\* create commits the booking and the converted hold.
CommitRequest(h) ==
    /\ pc[h] = "converting"
    /\ target[h] = h
    /\ bstatus' = [bstatus EXCEPT ![h] = "PENDING_MANUAL_DISPATCH"]
    /\ bstart' = [bstart EXCEPT ![h] = hstart[h]]
    /\ hstatus' = [hstatus EXCEPT ![h] = "CONVERTED"]
    /\ hbooking' = [hbooking EXCEPT ![h] = h]
    /\ late' = IF hexpired[h] THEN late \cup {h} ELSE late
    /\ pc' = [pc EXCEPT ![h] = "idle"]
    /\ target' = [target EXCEPT ![h] = NULL]
    /\ UNCHANGED <<hworker, hstart, hexpired, bworker, announced, jobs, expiring, ops, unchecked>>

\* reschedule_booking locks the booking, then the new hold.
BeginReschedule(h, b) ==
    /\ "reschedule" \in Routes
    /\ ~BookingLocked(b)
    /\ bstatus[b] \in {"PENDING_MANUAL_DISPATCH", "PROVIDER_ASSIGNED", "CONFIRMED"}
    /\ Convertible(h)
    /\ pc' = [pc EXCEPT ![h] = "converting"]
    /\ target' = [target EXCEPT ![h] = b]
    /\ UNCHANGED <<holds, bookings, jobs, expiring, ops, history>>

\* HELD holds that carry the booking's id are released (requests never leave one)
ReleaseHeldOf(b) ==
    [g \in Holds |-> IF hbooking[g] = b /\ hstatus[g] = "HELD" THEN "RELEASED" ELSE hstatus[g]]

\* reschedule_booking commits: the window moves, the job does not.
CommitReschedule(h, b) ==
    /\ pc[h] = "converting"
    /\ target[h] = b
    /\ b # h
    /\ bstatus' = [bstatus EXCEPT ![b] = "PENDING_MANUAL_DISPATCH"]
    /\ bstart' = [bstart EXCEPT ![b] = hstart[h]]
    /\ bworker' = [bworker EXCEPT ![b] = NULL]
    /\ hstatus' = [ReleaseHeldOf(b) EXCEPT ![h] = "CONVERTED"]
    /\ hbooking' = [hbooking EXCEPT ![h] = b]
    /\ late' = IF hexpired[h] THEN late \cup {h} ELSE late
    /\ pc' = [pc EXCEPT ![h] = "idle"]
    /\ target' = [target EXCEPT ![h] = NULL]
    /\ UNCHANGED <<hworker, hstart, hexpired, announced, jobs, expiring, ops, unchecked>>

\* cancel_booking: refused once a professional is on the job
Cancel(b) ==
    /\ ~BookingLocked(b)
    /\ bstatus[b] \in {"PENDING_MANUAL_DISPATCH", "PROVIDER_ASSIGNED", "CONFIRMED"}
    /\ jstatus[b] \in {"NONE", "MATCHING"}
    /\ bstatus' = [bstatus EXCEPT ![b] = "CANCELLED"]
    /\ jstatus' = [jstatus EXCEPT ![b] = IF @ = "NONE" THEN "NONE" ELSE "CANCELLED"]
    /\ hstatus' = ReleaseHeldOf(b)
    /\ UNCHANGED <<hworker, hstart, hexpired, hbooking, bstart, bworker, announced,
                   jstart, jworker, assigned, requests, ops, history>>

-----------------------------------------------------------------------------
(* AdminDispatchService *)

Assignable == {"PENDING_MANUAL_DISPATCH", "PROVIDER_ASSIGNED", "REASSIGNMENT_REQUIRED"}

\* assign, up to its last read: booking row lock, slot lock, candidates, job
BeginAssign(b, w) ==
    /\ ~BookingLocked(b)
    /\ bstatus[b] \in Assignable
    /\ ~SlotLocked(w, bstart[b])
    /\ Available(w, bstart[b], MaxDaily - Reserve)
    /\ op' = [op EXCEPT ![b] = "assign"]
    /\ opworker' = [opworker EXCEPT ![b] = w]
    /\ opseen' = [opseen EXCEPT ![b] = jstatus[b]]
    /\ UNCHANGED <<holds, bookings, jobs, requests, history>>

Done(b) ==
    /\ op' = [op EXCEPT ![b] = "idle"]
    /\ opworker' = [opworker EXCEPT ![b] = NULL]
    /\ opseen' = [opseen EXCEPT ![b] = "NONE"]

\* A job is created for the booking's window; an existing one keeps its own.
JobStart(b) == IF opseen[b] = "NONE" THEN bstart[b] ELSE jstart[b]

CommitAssignOverActive(b) ==
    /\ op[b] = "assign"
    /\ bworker' = [bworker EXCEPT ![b] = opworker[b]]
    /\ bstatus' = [bstatus EXCEPT ![b] = "PROVIDER_ASSIGNED"]
    /\ jworker' = [jworker EXCEPT ![b] = opworker[b]]
    /\ jstatus' = [jstatus EXCEPT ![b] = IF opseen[b] = "ASSIGNED" THEN @ ELSE "ASSIGNED"]
    /\ jstart' = [jstart EXCEPT ![b] = JobStart(b)]
    /\ assigned' = [assigned EXCEPT ![b] = IF @ = NULL THEN opworker[b] ELSE @]
    /\ Done(b)
    /\ unchecked' = IF JobStart(b) = bstart[b] THEN unchecked \ {b} ELSE unchecked \cup {b}
    /\ UNCHANGED <<holds, bstart, announced, requests, late>>

\* assign commits.  The ORM writes only what differs from what it read: the
\* status of a job it read as ASSIGNED is left as it is by then.
CommitAssign(b) ==
    /\ op[b] = "assign"
    /\ bworker' = [bworker EXCEPT ![b] = opworker[b]]
    /\ bstatus' = [bstatus EXCEPT ![b] = "PROVIDER_ASSIGNED"]
    /\ jworker' = [jworker EXCEPT ![b] = opworker[b]]
    /\ jstatus' = [jstatus EXCEPT ![b] = IF opseen[b] = "ASSIGNED" THEN @ ELSE "ASSIGNED"]
    /\ jstart' = [jstart EXCEPT ![b] = JobStart(b)]
    /\ assigned' = [assigned EXCEPT ![b] = opworker[b]]
    /\ Done(b)
    /\ unchecked' = IF JobStart(b) = bstart[b] THEN unchecked \ {b} ELSE unchecked \cup {b}
    /\ UNCHANGED <<holds, bstart, announced, requests, late>>

\* unassign
Unassign(b) ==
    /\ ~BookingLocked(b)
    /\ bstatus[b] = "PROVIDER_ASSIGNED"
    /\ bstatus' = [bstatus EXCEPT ![b] = "REASSIGNMENT_REQUIRED"]
    /\ bworker' = [bworker EXCEPT ![b] = NULL]
    /\ jworker' = [jworker EXCEPT ![b] = NULL]
    /\ jstatus' = [jstatus EXCEPT ![b] = "MATCHING"]
    /\ assigned' = [assigned EXCEPT ![b] = NULL]
    /\ UNCHANGED <<holds, bstart, announced, jstart, requests, ops, history>>

-----------------------------------------------------------------------------
(* OperatorSchedulingService *)

\* The jobs that _qualified_worker counts.  The subquery for the booking's own
\* job is NULL when there is none, and comparing with NULL excludes every row.
OverlappingJobs(b, w) ==
    {c \in JobsOf(w) : jstatus[b] # "NONE" /\ c # b /\ Overlap(jstart[c], bstart[b])}

\* confirm, up to its last read
BeginConfirm(b, w) ==
    /\ "confirm" \in Routes
    /\ ~BookingLocked(b)
    /\ bstatus[b] \in {"PENDING_MANUAL_DISPATCH", "PROVIDER_ASSIGNED"}
    /\ ~SlotLocked(w, bstart[b])
    /\ Cardinality(OverlappingJobs(b, w)) < HoursCapacity
    /\ jstatus[b] # "NONE" => jworker[b] = w
    /\ op' = [op EXCEPT ![b] = "confirm"]
    /\ opworker' = [opworker EXCEPT ![b] = w]
    /\ opseen' = [opseen EXCEPT ![b] = jstatus[b]]
    /\ UNCHANGED <<holds, bookings, jobs, requests, history>>

\* confirm commits.  The event booking.confirmed:<id> is unique, so a booking is
\* confirmed once: afterwards the insert fails and everything is rolled back.
CommitConfirm(b) ==
    /\ op[b] = "confirm"
    /\ ~announced[b]
    /\ announced' = [announced EXCEPT ![b] = TRUE]
    /\ bworker' = [bworker EXCEPT ![b] = opworker[b]]
    /\ bstatus' = [bstatus EXCEPT ![b] = "CONFIRMED"]
    /\ jstatus' = [jstatus EXCEPT ![b] = IF opseen[b] = "NONE" THEN "ASSIGNED" ELSE @]
    /\ jstart' = [jstart EXCEPT ![b] = JobStart(b)]
    /\ jworker' = [jworker EXCEPT ![b] = opworker[b]]
    /\ assigned' = [assigned EXCEPT ![b] = IF opseen[b] = "NONE" THEN opworker[b] ELSE @]
    /\ Done(b)
    /\ unchecked' = IF opseen[b] = "NONE" THEN unchecked \cup {b} ELSE unchecked
    /\ UNCHANGED <<holds, bstart, requests, late>>

\* A dispatch transaction fails and is rolled back.
AbortOp(b) ==
    /\ op[b] # "idle"
    /\ Done(b)
    /\ UNCHANGED <<holds, bookings, jobs, requests, history>>

-----------------------------------------------------------------------------
(* Jobs move under their own row lock, whatever the booking is doing. *)

JobSteps == {<<"ASSIGNED", "UNDERWAY">>, <<"UNDERWAY", "COMPLETED">>, <<"MATCHING", "ASSIGNED">>,
             <<"MATCHING", "CANCELLED">>, <<"ASSIGNED", "CANCELLED">>, <<"UNDERWAY", "CANCELLED">>}

\* JobService.apply_transition; completion needs a professional
JobAdvances(b) ==
    \E s \in JobStatus :
        /\ <<jstatus[b], s>> \in JobSteps
        /\ s = "COMPLETED" => jworker[b] # NULL
        /\ jstatus' = [jstatus EXCEPT ![b] = s]
        /\ UNCHANGED <<holds, bookings, jstart, jworker, assigned, requests, ops, history>>

Next ==
    \E h \in Holds :
        \/ \E w \in Workers, s \in Starts : Match(h, w, s)
        \/ CountOwner(h) \/ InsertHold(h) \/ Abort(h)
        \/ HoldExpires(h) \/ ReadExpired(h) \/ WriteExpired(h) \/ Release(h)
        \/ BeginRequest(h) \/ CommitRequest(h)
        \/ \E b \in Holds : BeginReschedule(h, b) \/ CommitReschedule(h, b)
        \/ Cancel(h)
        \/ \E w \in Workers : BeginAssign(h, w) \/ BeginConfirm(h, w)
        \/ CommitAssign(h) \/ Unassign(h) \/ CommitConfirm(h) \/ AbortOp(h)
        \/ JobAdvances(h)

Spec == Init /\ [][Next]_vars
-----------------------------------------------------------------------------
(* Properties *)

TypeOK ==
    /\ hstatus \in [Holds -> {"NONE"} \cup CapacityHoldStatus]
    /\ hworker \in [Holds -> Workers \cup {NULL}]
    /\ hstart \in [Holds -> Starts \cup {NULL}]
    /\ hexpired \in [Holds -> BOOLEAN]
    /\ hbooking \in [Holds -> Holds \cup {NULL}]
    /\ bstatus \in [Holds -> {"NONE"} \cup BookingStatus]
    /\ bstart \in [Holds -> Starts \cup {NULL}]
    /\ bworker \in [Holds -> Workers \cup {NULL}]
    /\ announced \in [Holds -> BOOLEAN]
    /\ jstatus \in [Holds -> {"NONE"} \cup JobStatus]
    /\ jstart \in [Holds -> Starts \cup {NULL}]
    /\ jworker \in [Holds -> Workers \cup {NULL}]
    /\ assigned \in [Holds -> Workers \cup {NULL}]
    /\ pc \in [Holds -> {"idle", "matched", "counted", "converting"}]
    /\ target \in [Holds -> Holds \cup {NULL}]
    /\ expiring \in [Holds -> BOOLEAN]
    /\ op \in [Holds -> {"idle", "assign", "confirm"}]
    /\ opworker \in [Holds -> Workers \cup {NULL}]
    /\ opseen \in [Holds -> {"NONE"} \cup JobStatus]
    /\ late \subseteq Holds /\ unchecked \subseteq Holds

\* What the matcher reserved of w for the slot at s: jobs it has seen there, and
\* holds that were not converted after they had lapsed
JobsAt(w, s) == {b \in JobsOf(w) \ unchecked : jstart[b] = s}
HoldsAt(w, s) == {h \in HoldsOf(w) \ late : hstart[h] = s}
Reserved(w, s) == Cardinality(JobsAt(w, s)) + Cardinality(HoldsAt(w, s))

\* The slot lock does what it is for: the reading of the candidates behind it is
\* still true when the hold or the assignment commits, however the requests of both
\* interleave with expiries, conversions, cancellations and the other routes.  It
\* bounds what begins at one instant; what only overlaps is read under another key.
SlotIsBounded == \A w \in Workers, s \in Starts : Reserved(w, s) <= MaxConcurrent

\* docs/breero-booking-architecture.md: locks "protect against concurrent
\* overbooking".  (The lock's key is the start instant, and starts are offered every
\* 30 minutes for visits that are longer.)
NotOverbooked ==
    \A w \in Workers, t \in Starts :
        Cardinality({b \in JobsOf(w) : jstart[b] <= t /\ t < jstart[b] + Duration})
        + Cardinality({h \in HoldsOf(w) : hstart[h] <= t /\ t < hstart[h] + Duration})
            <= MaxConcurrent

\* A live booking is backed by the hold that was converted for the very window it
\* shows.  No release, reschedule or cancellation takes it away; a GET that read the
\* hold as lapsed may write EXPIRED over it, but only where the expiry overtook the
\* conversion between its check and its commit.
BookingIsBacked ==
    \A b \in Holds :
        bstatus[b] \notin {"NONE", "CANCELLED"} =>
            \E h \in Holds : /\ hbooking[h] = b
                             /\ hstart[h] = bstart[b]
                             /\ \/ hstatus[h] = "CONVERTED"
                                \/ hstatus[h] = "EXPIRED" /\ h \in late

\* Booking, job and ACTIVE assignment name the same professional whenever the
\* booking says that one is assigned, whichever route assigned it.
AssignmentAgrees ==
    \A b \in Holds :
        bstatus[b] \in {"PROVIDER_ASSIGNED", "CONFIRMED"} =>
            bworker[b] # NULL /\ jworker[b] = bworker[b] /\ assigned[b] = bworker[b]

\* No work is left for a cancelled booking, although dispatch, cancellation and
\* job updates run in different transactions.
NoWorkForCancelled ==
    \A b \in Holds : bstatus[b] = "CANCELLED" => jstatus[b] \in {"NONE", "CANCELLED"}

\* What dispatch, the customer and the professional each see of a booking fits
\* together, whichever of the four routes wrote last.
RoutesAgree == AssignmentAgrees /\ NoWorkForCancelled
=============================================================================
