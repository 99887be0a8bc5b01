-------------------------------- MODULE Jobs --------------------------------
(***************************************************************************)
(* The life of one job: dispatch offers, assignment by vendors, operations *)
(* and administrators, the technician's commands, additional work, and the *)
(* completion that earns the vendor money.                                 *)
(*                                                                         *)
(* Commands lock the job's row, except that                                *)
(*  - a technician's command first reads the job without a lock, and the   *)
(*    session's identity map returns that reading again when the row is    *)
(*    locked, so the command is judged by what was read first;             *)
(*  - AdminDispatchService locks the booking's row and reads the job and   *)
(*    its assignment without a lock;                                       *)
(*  - accepting an offer locks the job's row and reads the booking without *)
(*    a lock.                                                              *)
(* These are split where what they read may become stale.  Matching scores *)
(* and eligibility are a free choice of professional; the job's history,   *)
(* the audit log and outbox events are left out.                           *)
(***************************************************************************)
EXTENDS Integers, FiniteSets

CONSTANTS
    Workers,          \* professionals
    VendorOf,         \* VendorOf[w]: the vendor w works for
    Requests,         \* additional-work requests
    Commands,         \* technicians' commands that may be under way at once
    MaxRounds,        \* bound: rounds of offers
    PaymentsEnabled,  \* settings.payments_enabled
    PayoutEnabled,    \* settings.payout_enabled
    NULL

ASSUME RoundAssumption == MaxRounds \in Nat
ASSUME JobNullAssumption == NULL \notin Workers
ASSUME VendorAssumption == \A w \in Workers : VendorOf[w] # NULL   \* Worker.vendor_id is not nullable
ASSUME SettingAssumption == PaymentsEnabled \in BOOLEAN /\ PayoutEnabled \in BOOLEAN

VARIABLES
    bstatus,     \* Booking.status
    provider,    \* Booking.provider_worker_id
    announced,   \* the booking.confirmed event exists
    jstatus,     \* Job.status
    jworker,     \* Job.worker_id; vendor_id is VendorOf[jworker]
    assigned,    \* worker of the job's ACTIVE Assignment
    diagnostic,  \* are diagnostic_notes written?
    completion,  \* are completion_notes written?
    earning,     \* vendor of the job's VendorEarning
    finisher,    \* history: whose ACTIVE assignment it was when the job was first completed
    round,       \* rounds of offers made
    offer,       \* DispatchOffer.status by professional and round
    request,     \* WorkRequest.status
    tech,        \* the status that a technician's command is about to write
    accept,      \* who is being given the job under its row lock
    viaOffer,    \* the round of the offer that is being accepted, 0 if by hand
    bseen,       \* the booking's status which that transaction has read
    op,          \* the dispatch transaction under the booking's row lock
    opworker,    \* the professional it is for
    opwrites,    \* did it read another job status than the one it sets?
    opactive     \* the ACTIVE assignment's worker it has read

booking  == <<bstatus, provider, announced>>
job      == <<jstatus, jworker, assigned, diagnostic, completion, earning, finisher>>
offers   == <<round, offer>>
accepts  == <<accept, viaOffer, bseen>>
dispatch == <<op, opworker, opwrites, opactive>>
vars     == <<bstatus, provider, announced, jstatus, jworker, assigned, diagnostic,
              completion, earning, finisher, round, offer, request, tech, accept, viaOffer,
              bseen, op, opworker, opwrites, opactive>>

JobStatus == {"CREATED", "MATCHING", "OFFERED", "ASSIGNED", "EN_ROUTE", "ON_SITE",
              "DIAGNOSING", "AWAITING_APPROVAL", "IN_PROGRESS", "COMPLETED", "CANCELLED"}
BookingStatus == {"PENDING_PROVIDER_CONFIRMATION", "CONFIRMED", "PENDING_MANUAL_DISPATCH",
                  "PROVIDER_ASSIGNED", "REASSIGNMENT_REQUIRED", "CANCELLED", "EXPIRED"}

\* CLOSED stands for DECLINED, EXPIRED and WITHDRAWN.
OfferStatus == {"PENDING", "ACCEPTED", "CLOSED"}

WorkRequestStatus == {"SUBMITTED", "PENDING_CUSTOMER", "APPROVED_PENDING_PAYMENT",
                      "APPROVED", "DECLINED"}
Rounds == 1 .. MaxRounds

TRANSITIONS ==
    [CREATED |-> {"MATCHING", "CANCELLED"},
     MATCHING |-> {"OFFERED", "ASSIGNED", "CANCELLED"},
     OFFERED |-> {"MATCHING", "ASSIGNED", "CANCELLED"},
     ASSIGNED |-> {"EN_ROUTE", "CANCELLED"},
     EN_ROUTE |-> {"ON_SITE", "CANCELLED"},
     ON_SITE |-> {"DIAGNOSING", "IN_PROGRESS", "CANCELLED"},
     DIAGNOSING |-> {"AWAITING_APPROVAL", "IN_PROGRESS", "CANCELLED"},
     AWAITING_APPROVAL |-> {"IN_PROGRESS", "CANCELLED"},
     IN_PROGRESS |-> {"COMPLETED", "AWAITING_APPROVAL", "CANCELLED"},
     COMPLETED |-> {},
     CANCELLED |-> {}]

\* A job that payment has created for a booking whose slot may be reserved for a
\* professional, or one that a first assignment has created.
Init ==
    /\ \/ /\ bstatus = "PENDING_PROVIDER_CONFIRMATION"
          /\ provider \in Workers \cup {NULL}
          /\ jstatus = "CREATED"
          /\ jworker = NULL
       \/ /\ bstatus = "PROVIDER_ASSIGNED"
          /\ provider \in Workers
          /\ jstatus = "ASSIGNED"
          /\ jworker = provider
    /\ assigned = jworker
    /\ announced = FALSE
    /\ diagnostic = FALSE
    /\ completion = FALSE
    /\ earning = NULL
    /\ finisher = NULL
    /\ round = 0
    /\ offer = [w \in Workers |-> [n \in Rounds |-> "NONE"]]
    /\ request = [q \in Requests |-> "NONE"]
    /\ tech = [c \in Commands |-> "NONE"]
    /\ accept = NULL
    /\ viaOffer = 0
    /\ bseen = "NONE"
    /\ op = "idle"
    /\ opworker = NULL
    /\ opwrites = FALSE
    /\ opactive = NULL

\* The row locks (SELECT ... FOR UPDATE)
JobLocked == accept # NULL
BookingLocked == op # "idle"

-----------------------------------------------------------------------------
(* JobService *)

\* apply_transition raises for any other target.
MayBecome(s) == s = jstatus \/ s \in TRANSITIONS[jstatus]

\* _validate_completion, once the notes of this command are written
Completable(notes) == jworker # NULL /\ diagnostic /\ notes

EarnEachTime == IF PayoutEnabled THEN VendorOf[jworker] ELSE earning

\* _record_completion_effects: one earning per job
Earn == IF PayoutEnabled /\ earning = NULL THEN VendorOf[jworker] ELSE earning

\* apply_transition to COMPLETED with its effects, or to any other status
Transition(s, notes) ==
    /\ MayBecome(s)
    /\ s = "COMPLETED" /\ s # jstatus => Completable(notes)
    /\ jstatus' = s
    /\ earning' = IF s = "COMPLETED" /\ s # jstatus THEN Earn ELSE earning
    /\ finisher' = IF s = "COMPLETED" /\ finisher = NULL THEN assigned ELSE finisher

\* transition by operations or an administrator
OperationsTransition(s) ==
    /\ ~JobLocked
    /\ s # jstatus
    /\ Transition(s, completion)
    /\ UNCHANGED <<booking, jworker, assigned, diagnostic, completion, offers, request,
                   tech, accepts, dispatch>>

\* technician_command of the job's professional reads the job without a lock ...
ReadCommand(c, s) ==
    /\ tech[c] = "NONE"
    /\ jworker # NULL
    /\ s \in TRANSITIONS[jstatus] \cap {"EN_ROUTE", "ON_SITE", "DIAGNOSING", "IN_PROGRESS"}
    /\ tech' = [tech EXCEPT ![c] = s]
    /\ UNCHANGED <<booking, job, offers, request, accepts, dispatch>>

\* ... and writes the status that follows from what it has read.
WriteCommand(c) ==
    /\ ~JobLocked
    /\ tech[c] # "NONE"
    /\ jstatus' = tech[c]
    /\ tech' = [tech EXCEPT ![c] = "NONE"]
    /\ UNCHANGED <<booking, jworker, assigned, diagnostic, completion, earning, finisher, offers,
                   request, accepts, dispatch>>

\* technician_note_transition for diagnostic and for completion notes
RecordDiagnostic(w) ==
    /\ ~JobLocked
    /\ jworker = w
    /\ Transition("DIAGNOSING", completion)
    /\ diagnostic' = TRUE
    /\ UNCHANGED <<booking, jworker, assigned, completion, offers, request, tech,
                   accepts, dispatch>>

CompleteWithNotes(w) ==
    /\ ~JobLocked
    /\ jworker = w
    /\ Transition("COMPLETED", TRUE)
    /\ completion' = TRUE
    /\ UNCHANGED <<booking, jworker, assigned, diagnostic, offers, request, tech,
                   accepts, dispatch>>

\* create_work_request: ON_SITE is among the statuses it accepts, but there is
\* no transition from there.
CreateWorkRequest(q) ==
    /\ ~JobLocked
    /\ request[q] = "NONE"
    /\ jworker # NULL
    /\ jstatus \in {"ON_SITE", "DIAGNOSING", "IN_PROGRESS"}
    /\ Transition("AWAITING_APPROVAL", completion)
    /\ request' = [request EXCEPT ![q] = "SUBMITTED"]
    /\ UNCHANGED <<booking, jworker, assigned, diagnostic, completion, offers, tech,
                   accepts, dispatch>>

\* review_work_request: operations reject the request or send it to the customer.
ReviewWorkRequest(q, approve) ==
    /\ ~JobLocked
    /\ request[q] = "SUBMITTED"
    /\ request' = [request EXCEPT ![q] = IF approve THEN "PENDING_CUSTOMER" ELSE "DECLINED"]
    /\ jstatus' = IF ~approve /\ jstatus = "AWAITING_APPROVAL" THEN "IN_PROGRESS" ELSE jstatus
    /\ UNCHANGED <<booking, jworker, assigned, diagnostic, completion, earning, finisher, offers,
                   tech, accepts, dispatch>>

\* decide_work_request: an approval that must be paid for leaves the job alone.
DecideWorkRequest(q, approve) ==
    /\ ~JobLocked
    /\ request[q] = "PENDING_CUSTOMER"
    /\ IF approve /\ PaymentsEnabled
       THEN /\ request' = [request EXCEPT ![q] = "APPROVED_PENDING_PAYMENT"]
            /\ UNCHANGED <<jstatus, earning, finisher>>
       ELSE /\ request' = [request EXCEPT ![q] = IF approve THEN "APPROVED" ELSE "DECLINED"]
            /\ Transition("IN_PROGRESS", completion)
    /\ UNCHANGED <<booking, jworker, assigned, diagnostic, completion, offers, tech,
                   accepts, dispatch>>

\* PaymentService._settle for an additional-work quote
SettleQuote(q) ==
    /\ ~JobLocked
    /\ request[q] = "APPROVED_PENDING_PAYMENT"
    /\ request' = [request EXCEPT ![q] = "APPROVED"]
    /\ jstatus' = IF jstatus = "AWAITING_APPROVAL" THEN "IN_PROGRESS" ELSE jstatus
    /\ UNCHANGED <<booking, jworker, assigned, diagnostic, completion, earning, finisher, offers,
                   tech, accepts, dispatch>>

-----------------------------------------------------------------------------
(* DispatchService *)

\* candidate_workers: the booking's professional if it has one.  The table admits
\* one offer per vendor and round.
Candidates ==
    {C \in SUBSET Workers :
        /\ provider # NULL => C \subseteq {provider}
        /\ \A v, w \in C : VendorOf[v] = VendorOf[w] => v = w}

\* match: without candidates the job waits in MATCHING.
Match(C) ==
    /\ ~JobLocked
    /\ jstatus \in {"CREATED", "MATCHING", "OFFERED"}
    /\ IF C = {}
       THEN /\ jstatus' = "MATCHING"
            /\ UNCHANGED offers
       ELSE /\ round < MaxRounds
            /\ round' = round + 1
            /\ offer' = [w \in Workers |-> [n \in Rounds |->
                  IF w \in C /\ n = round + 1 THEN "PENDING" ELSE offer[w][n]]]
            /\ jstatus' = "OFFERED"
    /\ UNCHANGED <<booking, jworker, assigned, diagnostic, completion, earning, finisher, request,
                   tech, accepts, dispatch>>

\* decide_offer when the vendor declines or the offer has expired; the offer's
\* row is locked while it is being accepted.
CloseOffer(w, n) ==
    /\ offer[w][n] = "PENDING"
    /\ viaOffer = n => VendorOf[w] # VendorOf[accept]
    /\ offer' = [offer EXCEPT ![w][n] = "CLOSED"]
    /\ UNCHANGED <<booking, job, round, request, tech, accepts, dispatch>>

\* What decide_offer and manual_assign ask of job and booking
Acceptable(w) ==
    /\ jstatus \in {"MATCHING", "OFFERED"}
    /\ provider = w

BeginAccept(w, n) ==
    /\ ~JobLocked
    /\ Acceptable(w)
    /\ accept' = w
    /\ viaOffer' = n
    /\ bseen' = bstatus
    /\ UNCHANGED <<booking, job, offers, request, tech, dispatch>>

\* decide_offer for the offer to v in round n, which the vendor gives to w
BeginDecideOffer(v, n, w) ==
    /\ offer[v][n] = "PENDING"
    /\ VendorOf[v] = VendorOf[w]
    /\ BeginAccept(w, n)

\* manual_assign: CREATED is among the statuses it accepts, but there is no
\* transition from there.
BeginManualAssign(w) == BeginAccept(w, 0)

EndAccept == accept' = NULL /\ viaOffer' = 0 /\ bseen' = "NONE"

\* The offer of the vendor is accepted, the others that are pending withdrawn.
Withdraw(w, n) ==
    [v \in Workers |-> [m \in Rounds |->
        IF n = 0 \/ offer[v][m] # "PENDING" THEN offer[v][m]
        ELSE IF m = n /\ VendorOf[v] = VendorOf[w] THEN "ACCEPTED" ELSE "CLOSED"]]

\* The commit.  A second ACTIVE assignment would violate the unique index.
CommitAccept ==
    /\ JobLocked
    /\ assigned = NULL
    /\ bseen = "PENDING_PROVIDER_CONFIRMATION" => ~BookingLocked
    /\ bstatus' = IF bseen = "PENDING_PROVIDER_CONFIRMATION" THEN "CONFIRMED" ELSE bstatus
    /\ jworker' = accept
    /\ assigned' = accept
    /\ jstatus' = "ASSIGNED"
    /\ offer' = Withdraw(accept, viaOffer)
    /\ EndAccept
    /\ UNCHANGED <<provider, announced, diagnostic, completion, earning, finisher, round, request,
                   tech, dispatch>>

\* The worker is not available, a deadlock is broken, or the process dies.
AbortAccept ==
    /\ JobLocked
    /\ EndAccept
    /\ UNCHANGED <<booking, job, offers, request, tech, dispatch>>

-----------------------------------------------------------------------------
(* AdminDispatchService and OperatorSchedulingService *)

BeginDispatch(kind, w, s) ==
    /\ op' = kind
    /\ opworker' = w
    /\ opwrites' = (jstatus # s)
    /\ opactive' = assigned
    /\ UNCHANGED <<booking, job, offers, request, tech, accepts>>

\* assign, up to its last read
BeginAssign(w) ==
    /\ ~BookingLocked
    /\ bstatus \in {"PENDING_MANUAL_DISPATCH", "REASSIGNMENT_REQUIRED", "PROVIDER_ASSIGNED"}
    /\ BeginDispatch("assign", w, "ASSIGNED")

\* unassign, up to its last read
BeginUnassign ==
    /\ ~BookingLocked
    /\ bstatus = "PROVIDER_ASSIGNED"
    /\ BeginDispatch("unassign", NULL, "MATCHING")

EndDispatch == op' = "idle" /\ opworker' = NULL /\ opwrites' = FALSE /\ opactive' = NULL

CommitAssignKeepingWorker ==
    /\ op = "assign"
    /\ ~JobLocked
    /\ bstatus' = "PROVIDER_ASSIGNED"
    /\ provider' = opworker
    /\ jworker' = IF jworker = NULL THEN opworker ELSE jworker
    /\ jstatus' = "ASSIGNED"
    /\ assigned' = opworker
    /\ EndDispatch
    /\ UNCHANGED <<announced, diagnostic, completion, earning, finisher, offers, request, tech, accepts>>

\* assign commits: the status is set without apply_transition, and is written if
\* it was read as something else.
CommitAssign ==
    /\ op = "assign"
    /\ ~JobLocked
    /\ assigned \in {opactive, NULL}
    /\ bstatus' = "PROVIDER_ASSIGNED"
    /\ provider' = opworker
    /\ jworker' = opworker
    /\ jstatus' = IF opwrites THEN "ASSIGNED" ELSE jstatus
    /\ assigned' = opworker
    /\ EndDispatch
    /\ UNCHANGED <<announced, diagnostic, completion, earning, finisher, offers, request, tech, accepts>>

\* unassign commits: it releases the assignment it has read.
CommitUnassign ==
    /\ op = "unassign"
    /\ ~JobLocked
    /\ bstatus' = "REASSIGNMENT_REQUIRED"
    /\ provider' = NULL
    /\ jworker' = NULL
    /\ jstatus' = IF opwrites THEN "MATCHING" ELSE jstatus
    /\ assigned' = IF assigned = opactive THEN NULL ELSE assigned
    /\ EndDispatch
    /\ UNCHANGED <<announced, diagnostic, completion, earning, finisher, offers, request, tech, accepts>>

AbortDispatch ==
    /\ BookingLocked
    /\ EndDispatch
    /\ UNCHANGED <<booking, job, offers, request, tech, accepts>>

ConfirmAnyone(w) ==
    /\ ~BookingLocked
    /\ ~announced
    /\ bstatus \in {"PENDING_MANUAL_DISPATCH", "PROVIDER_ASSIGNED"}
    /\ bstatus' = "CONFIRMED"
    /\ provider' = w
    /\ announced' = TRUE
    /\ UNCHANGED <<job, offers, request, tech, accepts, dispatch>>

\* confirm, for a booking that has a job; its event is unique.
Confirm(w) ==
    /\ ~BookingLocked
    /\ ~announced
    /\ bstatus \in {"PENDING_MANUAL_DISPATCH", "PROVIDER_ASSIGNED"}
    /\ jworker = w
    /\ bstatus' = "CONFIRMED"
    /\ provider' = w
    /\ announced' = TRUE
    /\ UNCHANGED <<job, offers, request, tech, accepts, dispatch>>

-----------------------------------------------------------------------------
(* The customer and the expiry task *)

\* cancel_booking
CancelBooking ==
    /\ ~BookingLocked
    /\ ~JobLocked
    /\ bstatus \in {"PENDING_MANUAL_DISPATCH", "PROVIDER_ASSIGNED",
                    "PENDING_PROVIDER_CONFIRMATION", "CONFIRMED"}
    /\ jstatus \in {"CREATED", "MATCHING", "OFFERED"}
    /\ bstatus' = "CANCELLED"
    /\ Transition("CANCELLED", completion)
    /\ UNCHANGED <<provider, announced, jworker, assigned, diagnostic, completion, offers,
                   request, tech, accepts, dispatch>>

\* reschedule_booking
RescheduleBooking ==
    /\ ~BookingLocked
    /\ bstatus \in {"PENDING_MANUAL_DISPATCH", "PROVIDER_ASSIGNED", "CONFIRMED"}
    /\ bstatus' = "PENDING_MANUAL_DISPATCH"
    /\ provider' = NULL
    /\ UNCHANGED <<announced, job, offers, request, tech, accepts, dispatch>>

\* expire_booking_holds: the job is left alone.
ExpireBooking ==
    /\ ~BookingLocked
    /\ bstatus = "PENDING_PROVIDER_CONFIRMATION"
    /\ bstatus' = "EXPIRED"
    /\ UNCHANGED <<provider, announced, job, offers, request, tech, accepts, dispatch>>

Next ==
    \/ \E s \in JobStatus : OperationsTransition(s)
    \/ \E c \in Commands : WriteCommand(c) \/ \E s \in JobStatus : ReadCommand(c, s)
    \/ \E w \in Workers :
          \/ RecordDiagnostic(w) \/ CompleteWithNotes(w)
          \/ \E v \in Workers, n \in Rounds : BeginDecideOffer(v, n, w)
          \/ \E n \in Rounds : CloseOffer(w, n)
          \/ BeginManualAssign(w) \/ BeginAssign(w) \/ Confirm(w)
    \/ \E q \in Requests :
          \/ CreateWorkRequest(q) \/ SettleQuote(q)
          \/ \E b \in BOOLEAN : ReviewWorkRequest(q, b) \/ DecideWorkRequest(q, b)
    \/ \E C \in Candidates : Match(C)
    \/ CommitAccept \/ AbortAccept
    \/ BeginUnassign \/ CommitAssign \/ CommitUnassign \/ AbortDispatch
    \/ CancelBooking \/ RescheduleBooking \/ ExpireBooking

Spec == Init /\ [][Next]_vars
-----------------------------------------------------------------------------
(* Properties *)

TypeOK ==
    /\ bstatus \in BookingStatus
    /\ provider \in Workers \cup {NULL}
    /\ announced \in BOOLEAN
    /\ jstatus \in JobStatus
    /\ jworker \in Workers \cup {NULL}
    /\ assigned \in Workers \cup {NULL}
    /\ diagnostic \in BOOLEAN
    /\ completion \in BOOLEAN
    /\ earning \in {VendorOf[w] : w \in Workers} \cup {NULL}
    /\ finisher \in Workers \cup {NULL}
    /\ round \in 0 .. MaxRounds
    /\ offer \in [Workers -> [Rounds -> {"NONE"} \cup OfferStatus]]
    /\ request \in [Requests -> {"NONE"} \cup WorkRequestStatus]
    /\ tech \in [Commands -> {"NONE"} \cup JobStatus]
    /\ accept \in Workers \cup {NULL}
    /\ viaOffer \in 0 .. MaxRounds
    /\ bseen \in {"NONE"} \cup BookingStatus
    /\ op \in {"idle", "assign", "unassign"}
    /\ opworker \in Workers \cup {NULL}
    /\ opwrites \in BOOLEAN
    /\ opactive \in Workers \cup {NULL}

\* The job's professional is the one of its ACTIVE assignment, although vendors,
\* operations and administrators assign under different locks.
AssignmentAgrees == jworker = assigned

\* A job that is completed has a professional and both notes.  The earning is the
\* vendor's whose professional had the ACTIVE assignment when the job was first
\* completed, and nobody's before: neither a stale command, nor an assignment that
\* takes the completed job to another vendor, nor that vendor's completion of it
\* gives the earning away.
CompletedIsEarned ==
    /\ jstatus = "COMPLETED" => finisher # NULL /\ jworker # NULL /\ diagnostic /\ completion
    /\ earning = IF PayoutEnabled /\ finisher # NULL THEN VendorOf[finisher] ELSE NULL

\* docs/architecture/NATIONWIDE-BOOKING-POLICY.md: only the explicit assignment of
\* the provider who holds the slot confirms a booking.
ConfirmedIsServed ==
    bstatus = "CONFIRMED" => provider # NULL /\ jworker = provider

\* A cancelled booking leaves no work: a technician's stale command or a late
\* acceptance does not bring its job back.
NoWorkForCancelled == bstatus = "CANCELLED" => jstatus = "CANCELLED"

\* One vendor at most is told that its offer was accepted.
OneAcceptance ==
    \A v, w \in Workers : \A m, n \in Rounds :
        offer[v][m] = "ACCEPTED" /\ offer[w][n] = "ACCEPTED" => v = w /\ m = n

\* What a booking, its job and its offers say fits together, whichever of the
\* routes of customers, operations, vendors and technicians wrote last.
RoutesAgree == ConfirmedIsServed /\ NoWorkForCancelled /\ OneAcceptance
=============================================================================
