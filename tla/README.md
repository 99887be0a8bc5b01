# A TLA+ model of the BREERO platform

BREERO is a marketplace for home services. Its API (`apps/api/app`, FastAPI,
SQLAlchemy and PostgreSQL, with Celery workers on Redis) takes customers' requests,
reserves a professional's time, dispatches the job, takes payment through Stripe, pays
the vendors, and tells other systems about all of it through an outbox. The repository
also holds the control of its own releases (`.codestra`): a required check that reads
every workflow of a commit, and a validator that admits a release phase by phase. This
directory holds a specification of the parts where several actors change shared state:
TLA+ modules translated from the Python code, TLC configurations, and proofs checked
by TLAPS.

Paths below are relative to `apps/api/app` unless they begin with `docs/`, `.codestra/`
or `.github/`.

## 1. Inventory

### Components, their state and their operations

| Component | State | Operations | Module |
|---|---|---|---|
| Transactional outbox (`domains/common/outbox*.py`, `workers/tasks.py`) | rows of `integration_events` with status, attempts, lease and claim token; each worker's batch in memory | publish, activate, park, claim, deliver, commit, retry | `Outbox` |
| Middleware and e-mail adapters (`integrations/`) | none | deliver one event: accepted, lost answer, retryable, terminal, unconfigured | `Outbox` (outcomes) |
| Public submissions (`domains/public_submissions`) | submission rows with `downstream_status` | accept, with an event in the same transaction | `Outbox` (producer) |
| Capacity holds and booking requests (`domains/booking/hold_service.py`, `matching.py`, `capacity.py`, `public_service.py`) | holds, bookings, advisory locks | create, read, release, expire, convert | `Booking` |
| Scheduling, dispatch and customer changes (`booking/scheduling.py`, `dispatch/admin_service.py`, `api/v1/customer/bookings.py`) | bookings, jobs, assignments | confirm, assign, unassign, cancel, reschedule | `Booking`, `Jobs` |
| Job lifecycle (`domains/jobs`, `api/v1/jobs/transitions.py`) | job status, notes, work requests | transition, technician's commands, notes, additional work | `Jobs` |
| Dispatch offers (`domains/dispatch/service.py`) | offers by vendor and round, assignments | match, decide an offer, assign by hand | `Jobs` |
| Payments (`domains/payments`, `integrations/stripe.py`) | payments, refunds, processed webhooks, lead purchases | create an intent, capture, refund, process a webhook, settle | `Payments` |
| Professional leads (`domains/professional_leads`) | leads and purchases | purchase, dispute | `Payments`, `Outbox` |
| Finance (`domains/finance`, `integrations/payouts.py`) | plans, earnings, adjustments, batches | recognise, release, adjust, batch, approve, submit | `Payouts` |
| Booking intents (`domains/booking_intents`, `booking/service.py`) | intents, addresses, bookings with a tentative hold, advisory locks of keys and slots | create, update, abandon, submit in two commits; book directly; expire | `Intents`, `Public` |
| Geography (`domains/geography`) | zones, postal rows, offered services, the legacy list, imports | create, read, update, import, deactivate; validate an address | `Geography`, `Public` |
| Compliance (`domains/compliance`) | suppressions of a destination by purpose | preferences, SMS revocation, privacy opt-out | `Consent`, `Public` |
| Authentication and access (`domains/auth`) | users, refresh-token families, one-time codes, access profiles and assignments, identity links | register, log in, rotate, replay, log out, change, set and reset the password, verify; replace assignments, provision, link | `Sessions`, `Access` |
| Onboarding, provider catalogue and coverage (`domains/workforce`, `domains/provider_catalog`, `api/v1/operations/workforce.py`) | vendor, application, selected services and skills, professionals, what each covers | register, edit, submit, decide, select, remove, add a professional, replace the coverage, set the status | `Providers` |
| Release control (`.codestra/*.py`, `.github/workflows/manual-release-intent.yml`, `release-images.yml`) | commits with their checks, the controller's candidate files, attested images, settings, workflow runs and their evidence | check a commit; dispatch, verify, approve, recheck, interrupt, re-run | `Signer`, `SourceBinding`, `ContractCheck`, `Release`, `Rollout` |
| Rate limiting (`core/rate_limit.py`) | token buckets | consume | not modelled (section 7) |
| HTTP layer, settings, migrations, front ends, deployment | | | not modelled |

### How they interact

* Everything shares PostgreSQL. A command is one transaction at READ COMMITTED, and
  components exclude each other with row locks (`FOR UPDATE`), advisory locks (a
  professional's slot) and unique indexes (one ACTIVE assignment per job, one
  `booking.confirmed` event per booking, one purchase per lead).
* A booking's settlement by Stripe's webhook creates its job; a quote's settlement
  resumes the job; completion of the job recognises the vendor's earning in the same
  transaction; every component adds outbox rows in the transaction that changes its
  state.
* Celery beat starts `publish_outbox` every 10 s, `expire_bookings` every minute,
  `release_earnings` every hour and the payout candidates every week.
* Stripe, the payout provider, the middleware and the mail server are called over
  HTTP, with idempotency keys, in the middle of a command.
* Addresses and intents are routed by the zones that administrators edit; an intent
  becomes a booking through the service that direct bookings use. Every request passes
  the access context that sessions and assignments determine.
* The release validator runs from the commit it judges, and the required check of that
  commit is what binds the validator's text: neither means anything without the other.

### What is hard here

1. **Reads without the lock.** `AdminDispatchService` locks the booking and reads the job
   without a lock; a technician's command reads the job and then locks it, and the
   session's identity map keeps the first reading; a GET writes EXPIRED to a hold it
   read without a lock.
2. **Work that outlives its claim.** An outbox batch may take longer than its lease; a
   hold may expire while it is converted; a payment intent outlives the reservation it
   was made for.
3. **External calls between two commits**, with a crash, a second request or the
   provider's webhook in between.
4. **Events in any order and more than once**, from Stripe.
5. **Two transactions or two statements for one thing**: an intent and its booking, a page
   and its version, a profile and its assignments, a deletion and its insertions.
6. **Reading a world nobody locks**: the release validator reads two branch heads, settings
   and evidence over the network while they change.
7. **Something must happen eventually**: events are sent, paid things are settled, earnings
   reach a batch.

What makes the components correct is stated as properties of the modules (section 3);
`PROJECT.json` lists the hazards at their lines with the properties that guard them.

## 2. Modules

```
Outbox      <- MCOutbox,   OutboxProofs
Booking     <- MCBooking,  BookingProofs
Payments    <- MCPayments, FinanceProofs
Payouts     <- MCPayouts,  FinanceProofs
Jobs        <- MCJobs,     JobsProofs
Sessions    <- Access     <- MCAccess, AccessProofs
Providers   <- MCProviders, ProvidersProofs
Traffic     <- Geography  <- Intents   }
Traffic     <- Consent                 } Public  <- MCPublic, PublicProofs
Signer, SourceBinding <- ContractCheck <- Release (implements Rollout)  <- MCRelease, ReleaseProofs
```

The `MC` modules only define values of constants for TLC. Operators that stand before
a definition and carry its name with a suffix (`VerdictSwallowed` before `Verdict`)
are mistaken versions of it; no specification uses them. They document which mistake
each property detects.

**Granularity.** One action is one transaction where a lock protects what it reads, or
the part of a transaction up to the point where its readings may become stale. A lock
is not a variable: it is held by whoever is between two such steps (`SlotLocked`,
`BookingLocked`, `JobLocked`). Error returns that change nothing are actions that are not
enabled. Audit rows, history rows, log lines and the payloads of events are left out.
Timestamps are reduced to what the queries compare: due or not, lapsed or not.

### Outbox

`status`, `attempts`, `due`, `lease`, `owner` are a row; `pc`, `batch`, `seen`,
`outcome`, `read` a worker inside `publish_outbox`. A worker runs `Activate` or `Park`
(by its own `middleware_enabled`), `Claim`, and then `Deliver` and `Commit` for each row in
`created_at` order. `seen` is the attempt count the ORM has in memory, `read` the
submission's status that `session.get` returned: the ORM writes `downstream_status` only
if it differs from that. `Crash` loses the local state. `Rolling` lets workers disagree
about the setting. A lease of 300 s may lapse at any moment, also under a worker that is still at its batch.
`overrun` and `withdrawn` are history: the rows whose lease lapsed, or that were parked,
while a worker still had them. `Kind` distinguishes the branches of `deliver_outbox_event`.

### Booking

Several hold requests, named by their idempotency keys, for a few professionals and
slots of one day. `Match`, `CountOwner` and `InsertHold` are the steps of
`CapacityHoldService.create`; a booking has the name of the hold that created it.
`BeginRequest`/`CommitRequest` are the conversion, whose middle part creates an account
and may take long: a hold that lapses meanwhile is converted all the same, and may have been given away. Two histories
record what a reservation cannot count on: `late` has the holds whose conversion was overtaken by their expiry, `unchecked` the jobs
whose professional or window the matcher has not seen (a confirmation, or a booking whose window moved while its job stayed).
Windows have a `Duration` and may overlap. Minutes, working
hours, qualification and scores are abstracted to a free choice of professional, and
the technician's progress to `JobAdvances`, since `Jobs` has it in detail.

### Payments

Two payments may be for one booking, quote or lead. `intent`, `received`, `refund`,
`answer` and `sent` are Stripe's state (external); the others are the database's. A request that
calls Stripe is split into `Begin...` (checks and call) and `Commit...`; `Abort` is a
crash or an error in between. An intent may wait for authentication or be processing, a failed attempt leaves it open
for another card, and a refund may be pending, fail or be canceled. Events are numbered as Stripe sends them and
processed in any order. `WorkMoves` is what technicians and operations do to the job without asking for payment. `Webhook` is `process_webhook`: `Ignored` for rows that are
not known, `IntentEnded` for failure and cancellation, `IntentChanged` with settlement,
`RefundChanged`. An exception during settlement rolls back and is recorded as failed,
and Stripe delivers again: the action is not enabled.

### Jobs

One booking with its job from matching to completion, and everyone who changes them:
operations (`OperationsTransition`), the technician (`ReadCommand`, then `WriteCommand`
of what follows from the reading), vendors (`BeginDecideOffer`, `CommitAccept`), dispatch
by hand (`BeginManualAssign`), administrators (`BeginAssign`, `CommitAssign`,
`BeginUnassign`, `CommitUnassign`), the operator's `Confirm`, the customer
(`CancelBooking`, `RescheduleBooking`, `DecideWorkRequest`) and the expiry task. The three
commands that read without a lock are split; `opwrites` says whether the ORM will write
the job's status, which it does only if the reading differed from the new value.
`CLOSED` stands for the three ways in which an offer ends unaccepted. `finisher` is history: the professional who was assigned
when the job was completed for the first time, whose vendor earns.

### Payouts

Earnings with the rule of their compensation snapshot, adjustments by idempotency key,
batches, and submissions in three steps: `BeginSubmit` commits the key and thereby
gives up the row lock, `CallGateway` is the provider, `CommitSubmit` records the
transfer. `AbortSubmit` is a crash or an error at any point. The provider (no live one is
configured) is modelled by `FakePayoutGateway`: a repeated key gets its first answer. An earning has its balance and, apart from it,
the rows that explain it: the snapshot's `rule` and the keys `recorded`; `counted` is history, the keys that had a row when
the earning went into its batch.

### Sessions and Access

A request identifier is used once and names what its request creates: a refresh token, a
code or a password. `sess` is `auth_sessions` with `family`, `rotated`, `revoked` and
`expired`; `era` is the credential the issuing request had read. Requests are split where the code
awaits the password hash in a thread, a row lock, or an UPDATE of many rows: such an UPDATE
takes its snapshot first and then waits for the rows others have locked (`Waits`). `Access` adds
the access profile and assignments, read by two queries (`BeginContext`, `ReadAssignments`), the
accounts an administrator provisions and the link of a Keycloak identity, whose insertion may lose
to another one and goes on with what it finds (`AfterConflict`).

### Providers

One organisation. The row of `vendors` is the lock of the provider's own writes, which then lock the
application; a decision locks the application first. A transaction is split where it holds its first
lock (`BeginOnboarding`, `BeginDecide`, `BeginCatalogue`), and `Abort` is the request that the
database aborts or that dies. Operations replace a professional's coverage without a lock, by two deletions
(`BeginCoverage`, `DeleteHours`) that find what is committed when they start, and by insertions that unique constraints may refuse
(`ReplaceCoverage`). `Eligible` is the query that offers professionals, with its outer join: a service needs an active and approved
catalogue row, or no row at all. The history variables `submitted` and `reviewed` remember what an
application listed when it was submitted and approved.

### Traffic, Geography, Intents, Consent and Public

`Traffic` is what the requests of the public site have in common: a record with the statement a
request runs next. `Geography` has a zone with its postal rows, `Legacy` is the list that
`sync_legacy_postal_codes` derives from them; `GetZone` and `GetRows` are the two statements of a
page, whose version comes back with `BeginUpdateZone`. `Intents` extends it with addresses routed by the zone,
the intents' states, and `BookingService.create` in its steps (key lock, slot lock and count, insert and
commit), after which a submission writes its intent in a second transaction or is lost. `Consent` has the
suppressions of one destination, selected without a lock and written at the commit. `Public` composes
the three; `Loads` says which parts a behaviour calls at once.

### Signer, SourceBinding, ContractCheck, Release and Rollout

`ContractCheck` is the required check as a function of the files of a commit: workflows call each other
and run scripts, scripts call scripts, import modules, run package scripts with their hooks and collect
tests, and each is followed as the code follows it (`ScriptMutates`, `ImportMutates`, `WorkflowMutates`), reviewed
texts excepted: scripts held to a hash, calls approved as read-only, script targets that a build generates, and steps approved as
offline. A module is scanned for what importing it does and for the functions whose names its importer calls (`Body`, `Called`); what is on
the path is not scanned again, and an import that names no file of the repository is skipped. `Inert` is the reference it is measured against: what a job executes is computed as a
closure, without the scan's order and cut-offs; of functions it claims those that a script calls by name in a module it imports itself. `Signer` is the part about images, with
`PublishedIsAttested` over all runs of the image workflow as its reference. `IntentValid` and `OperationsValid` are
its checks of the release-intent workflow and of the validator's own code, with `IntentInert` as their reference. How a
text is split into commands is abstracted to the set of kinds of commands in it.

`SourceBinding` is what the release validator demands before it believes a conclusion of that check: the digest of
the whole tree, the digests of the check's workflow and program, and references that name content, followed through local
actions and the stages of their Dockerfiles. A check that is not so bound may conclude anything (`ConcludesSuccess`, by
the reference `CheckIsPinned`). That the pinned digests are the reviewed ones is a premise: the contract check leaves
their values out of the validator's fingerprint, because they depend on each other.

`Release` is the workflow with its two jobs. `Step` performs the next read or check of the validator
(`VerifySteps`, `RecheckSteps`), one network read at a time, while `Merge`, `Conclude`, `Build`, `PublishFile`,
`Reconclude` and `Configure` change the repository, the controller and the settings. `Rollout` is the
abstract specification: a subject is admitted to a phase only after the very same subject was admitted to the
phase before. `Release` implements it, with the evidence of finished runs as the mapping of `admitted`.

## 3. Runs

| Run | Properties | Distinct states |
|---|---|---|
| `Outbox_stale` | `ProcessingIsLeased`, `DeliveredWasAccepted`, `HeldIsOwned`, `DownstreamAgrees`, `DeliveredIsFinal` | 3.0 million |
| `Outbox_live` | `RetryBudget`, `EventuallySettled`, `ParkedIsActivated` | 145 thousand |
| `Booking_routes` | `SlotIsBounded`, `RoutesAgree` (`AssignmentAgrees`, `NoWorkForCancelled`), `BookingIsBacked` | 529 thousand |
| `Booking_overlap` | `NotOverbooked`: expected to be violated | |
| `Payments_open` | `HandedOver` (`SettledWasPaid`, `SoldOnce`), `PaidIsSettled` | 31 thousand |
| `Payments_refunds` | `RefundedIsTrue`, `CaptureIsKept`, `SoldIsFinal` | 1.2 million |
| `Payouts_batch` | `BatchIsOwed`, `PaidOnce`, `IncludedOnce`, `EarningIsBatched` | 418 thousand |
| `Jobs_routes` | `RoutesAgree` (`ConfirmedIsServed`, `NoWorkForCancelled`, `OneAcceptance`), `AssignmentAgrees`, `CompletedIsEarned` | 2.3 million |
| `Access_requests` | `SingleUse` (`OneUsablePerFamily`, `CodeIsUsedOnce`), `StaleIsRaced`, `ContextIsAtomic`, `ActsAsLinked`, `NeverStuck` | 306 thousand |
| `Providers_review` | `LiveWasReviewed`, `CatalogueNeverDeadlocks` | 846 thousand |
| `Public_site` | `LegacyAgrees`, `ReplacesWhatWasSeen`, `SlotWithinCapacity`, `WithdrawalHolds`, `RetryIsSafe` | 745 thousand |
| `Release_phases` | `JointAfterChecks`, `AdmittedIsInert`, `RolloutRefined` | 604 thousand |

### What they show

* **Outbox.** Without any assumption about time or deployment no row is stranded and
  nothing is called delivered that was not accepted. A batch may outlive its lease; where that happened, or where a row was parked
  under its worker, a second worker may deliver the event again, and a late result may overwrite
  a delivery, the submission's copy or the retry budget. The properties say that nothing else can: not crashes, retries,
  activations, other workers' results. Under fairness every event is settled, whatever was taken from whom.
* **Booking.** On windows that overlap, and with every route in use, the slot's advisory lock keeps what begins at one instant within
  `max_concurrent_jobs`, as far as the matcher has seen it. What only overlaps is read under another key, and
  `Booking_overlap` finds the double booking that follows, against the documented protection
  (section 6). Whatever the order of the routes, booking, job and
  assignment agree and a booking rests on a converted hold, which only a GET that read it before an overtaken conversion can take away.
* **Payments.** With events in any order and repeated, no booking, quote or lead is settled and no booking's job created without money,
  and no lead is sold twice. A capture is forgotten in one way only, by the first delivery of a report that the success overtook; what
  is called refunded was refunded unless a refund failed; received money settles what it was paid for, a lead unless an earlier
  failure was processed first. The exceptions are what the code does (section 6).
* **Payouts.** What a batch pays is what the snapshots' rules and the adjustments' rows of its earnings give, although the code adds up
  balances that completions, repeated adjustments and earlier runs left. A batch is transferred once although `submit_batch` gives up its lock; an
  earning is in one batch although adjustments change its status at any time.
* **Jobs.** Although three kinds of transaction assign under different locks, the job's
  professional is the assignment's, a confirmed booking is served by its professional,
  and no stale technician's command revives the job of a cancelled booking or completes a
  job without notes and earning. The one earning is that of the vendor who was assigned at the first completion; a reassigned job
  that is completed again leaves it there.
* **Access.** However refreshes, replays, logouts and code presentations overlap, a token family has one usable
  token and a code is used once. A token of a former credential survives a password change only if the
  request that issued it overlapped the change. The two queries of a context never yield roles the
  account did not have at some moment of the request, and racing identity links never cross accounts. Requests
  that wait for each other are always revocations, so that no valid refresh is aborted to break a deadlock.
* **Providers.** A service that needs approval is offered only if an approved application listed it when it was submitted, or if the
  organisation never touched it in the catalogue, so that operations' coverage alone decides;
  a catalogue change is refused before it could deadlock with a decision.
* **Public site.** The legacy list follows the rows through every edit; a replacement removes what was shown and nothing
  else; capacity holds for both booking routes together; the retry of a submission whose second commit was lost finds
  its booking; an acknowledged withdrawal stays in force unless a grant overlapped or followed it.
* **Release.** When evidence is uploaded there was a moment after all slow validation at which both heads were the
  validated ones; every enabled job of an admitted commit is inert in its scripts, in what their imports do however deep, and in the functions they
  call by name in modules they import; its release-intent workflow reads only evidence, and what its image workflow pushes is attested;
  and the evidence is a rollout, whatever is merged, reconfigured, interrupted or re-run meanwhile.

### Bounds

Two outbox events and two workers are enough for one event to be held twice and for a batch with a
rest; `MaxAttempts = 2` has an attempt that is retried and one that is not. The liveness run has one event, two workers and two crashes.
Two holds with overlapping windows compete for one of two professionals, and a second hold is what a booking is rescheduled to; with
`MaxConcurrent = 1` every uncounted reservation shows. Two payments compete for one subject; amount 2 with two refunds has a
partial and a final one. `MaxSent` bounds the attempts to pay that fail or are processing, one beside the final success, failure or cancellation
of each intent. Two earnings, batches and submissions have every overlap of
batch runs and submissions; `Gross = 3` at 50% is rounded down. In `Jobs`, two rounds and two vendors
give offers that outlive their round; one technician's command at a time is under way,
which is enough for it to be stale. `MaxRounds`, `MaxSent`, `MaxCrashes`, `MaxVersion` (of a zone) and
`MaxChanges` (of the world around a release) are the only counters that are bounded. `Outbox` collapses attempts beyond `MAX_ATTEMPTS` to one value,
which the code does not distinguish.

`Access` starts from a login and its refresh, so that three further requests can replay the spent token, rotate the
live one and change the password at once. In `Providers` one of two services needs approval, and two
requests are every pair of lock orders. `Public_site` has a ZIP and a ZIP+4 code, two
services, one slot with room for one booking and two keys; the three loads are explored one at a time, each with two
requests, because they meet only in the zone that `CreateStep` builds in every load but the consent's. `Release_phases` has
two runs, so a plan and a staging phase with two changes of the world between any two reads, and eleven commits: a ready one, one with
blockers, and nine whose scripts, imported functions, bound sources, actions, validator, release-intent workflow or attestations differ in one respect.

Of the four kinds of events the runs have submissions and e-mails. A lead dispute's event is delivered as a submission's is, but is
parked at birth and never activated; an event type without a handler fails at once. The proofs cover all four.

`CHECK_DEADLOCK FALSE` is set where the finite sets of keys (holds, payments, offers) are
used up and nothing remains to be done; the outbox and the payouts never stop.
Symmetry is used for workers, holds, requests and accounts in runs without liveness properties.

## 4. Fairness

* `Outbox`: beat starts `publish_outbox` every 10 seconds, so each worker's steps are weakly
  fair, and so is the clock (`BackoffElapses`, `LeaseExpires`). The claim query takes the
  oldest rows first with `SKIP LOCKED`, so a row that is claimable again and again is claimed:
  strong fairness for each event. Crashes are bounded, and no fairness is assumed for producers or for retries.
* `Payments`: a transaction that has begun ends, and Stripe repeats a delivery until it is
  acknowledged. A webhook may find the row locked at any moment but PostgreSQL queues
  it: strong fairness for each event. A webhook takes the payment's lock and then the subject's, and is one step here; so that two
  requests which die again and again cannot keep it from finding both free at once, as they could not in the database, a creation
  that is repeated is assumed to commit at last. Customers owe no step.
* `Access`, `Providers`, `Public` and `Release` state safety only: no scheduler promises that a client, an
  administrator or a reviewer takes another step.
* `Payouts`: the clock, the hourly release and the weekly batch are weakly fair, each for all
  rows it finds. Staff owe no step.

## 5. Proofs

A theorem holds for every value of the constants that the named assumptions of its module allow: any number of
events, workers, holds, payments, requests, runs. Each rests on an inductive invariant, which was checked with TLC
before it was proved; what it adds to the property is what the code relies on without saying so, mostly that a reading taken
earlier is still true when it is used.

`OutboxProofs`:

| Theorem | Statement | Argument |
|---|---|---|
| `TypeCorrect` | `Spec => []TypeOK` | inductive as it stands |
| `NoStrandedEvent` | `Spec => []ProcessingIsLeased` | inductive relative to `TypeOK`: each action that sets or clears PROCESSING sets or clears lease and token with it |
| `NoFalseDelivery` | `Spec => []DeliveredWasAccepted` | strengthened by `OutcomeIsReal`: a worker about to commit "ok" for the row at the head of its batch has had it accepted |
| `SingleDeliverer` | `Spec => []HeldIsOwned` | `HeldInv`: workers that have not claimed hold nothing (`IdleHoldsNothing`), and a lease that lapsed under a worker is recorded (`LapsedIsFree`), so that a second claim finds only rows that are recorded as taken |
| `DeliveredForGood` | `Spec => DeliveredIsFinal` | from `HeldInv`: who writes a result owns the row, which was therefore PROCESSING, or it had been taken |
| `BudgetIsKept` | `Spec => []RetryBudget` | `SeenIsCurrent`: a worker remembers the attempt count of the rows that are still its own |
| `SubmissionAgrees` | `Spec => []DownstreamAgrees` | `ReadKnows`: who commits a submission's event has read DELIVERED only if the row was taken and the copy still says so, so that the ORM writes it otherwise; `HeldIsConfigured`: only a parking makes a held submission wait for configuration |

No assumption on the length of a batch or on a stable setting is left in them: what used to need one is said by `Taken`.

`JobsProofs`:

| Theorem | Statement | Argument |
|---|---|---|
| `OneAssignment` | `Spec => []AssignmentAgrees` | An unassignment releases the assignment it *read*, and clears the job's professional in any case. `AssignmentInv` adds that it has read the assignment that is ACTIVE now (`UnassignKnows`), which follows from a booking that says PROVIDER_ASSIGNED having one (`AssignedIsBacked`) and the unique index |
| `RoutesFit` | `Spec => []RoutesAgree` | `RoutesInv`, relative to `AssignmentInv`: an acceptance under way has read what is still true of the job, and of the booking unless the expiry task overtook it (`AcceptKnows`); dispatch knows the booking it locked (`DispatchKnows`); a technician's command is of a job that has had a professional, whose booking is therefore neither waiting nor cancelled (`CommandIsOfWork`), so that a stale command cannot revive a cancelled booking's job; nobody has accepted before the first acceptance (`BeforeAcceptance`), and a vendor has one offer per round (`OneOfferPerVendor`) |
| `CompletionIsEarned` | `Spec => []CompletedIsEarned` | inductive relative to both: notes and earning are never removed, no command under way starts from COMPLETED, whoever takes the professional away writes another status with the same commit, and a completion recognises an earning only where there is none, for the ACTIVE assignment's vendor, which is the job's professional's by `AssignmentAgrees` |

`BookingProofs`:

| Theorem | Statement | Argument |
|---|---|---|
| `RoutesFit` | `Spec => []RoutesAgree` | `JobIsAssigned`, and `OpKnows`: what dispatch read under the booking's lock is still so when it commits |
| `BookingStaysBacked` | `Spec => []BookingIsBacked` | `RequestKnows`: a hold being converted is HELD; `HoldKnows`: a hold carries a booking once it is converted, and then no expiry that was read earlier is on its way unless the conversion was late; only an open booking is dispatched (`OpIsOpen`) |
| `LockBoundsSlot` | `Spec => []SlotIsBounded` | `CapacityInv`: the advisory lock of a slot has one holder (`OneHolder`), below it there is room for one more reservation (`RoomUnderLock`), and what dispatch read of the booking's job is still so (`WindowKnows`). The lemmas about cardinalities say that a step adds at most one reservation, and only where it ends the lock; confirmations, reschedulings and late conversions move theirs to `unchecked` or `late` |

`FinanceProofs`, of which the first four are about `Payments` and the others about `Payouts`. `Payouts` has names of its own
for its variables and specification (`PayoutSpec`), so that one module can prove the lemmas about sums for both:

| Theorem | Statement | Argument |
|---|---|---|
| `NothingUnpaid` | `Spec => []HandedOver` | `HandedInv`: money is with Stripe exactly when the intent succeeded (`ReceivedKnows`), a success is reported only of such an intent (`SuccessIsTrue`), a lead is unsold and locked while its payment is created (`CreateKnows`), and has one purchase (`OnePurchase`) |
| `SaleIsFinal` | `Spec => SoldIsFinal` | from `HandedInv` and the moves a subject's status can make |
| `CaptureStays` | `Spec => CaptureIsKept` | `KeptInv`: events are numbered (`Numbered`), after the success nothing but refunds is reported of an intent (`SuccessIsLast`), and what is captured has a success that was reported (`SuccessReported`); so the only reports that take a capture away are the ones it overtook, and `Fresh` lets each be processed once |
| `RefundedWasReturned` | `Spec => []RefundedIsTrue` | `RefundInv`: a refund has its row only if Stripe knows it, row, answer and report say that it succeeded only if it did (`RowsKnow`), and a payment called refunded has the captured amount in Stripe's pending and succeeded refunds unless one failed (`BackIsTrue`). A request that died after Stripe's answer leaves a refund without a row, so the sums over Stripe's refunds and over the rows differ; what `refund` compares is the latter |
| `NoDoubleInclusion` | `PayoutSpec => IncludedOnce` | `BatchedIsPast`: an earning that is in a batch is BATCHED, HELD or REVERSED, and no action leads from these to PENDING or AVAILABLE, from which alone batches are made |
| `NoDoublePayment` | `PayoutSpec => []PaidOnce` | `PaidInv`: a submission under way is for an approved batch, every transfer carries the key and the total of its batch, and one key has one transfer. The total does not change because `create_batch` only writes to a batch that does not exist |
| `BatchesPayTheLedger` | `PayoutSpec => []BatchIsOwed` | `LedgerInv`: an earning's net amount is what its snapshot's rule gives, its adjustment balance is the sum over the keys that have a row (`RowsAgree`), and a batch gets its earnings when it is made (`NewIsEmpty`). The code keeps balances, the property sums rows: that they meet is what a repeated key, a second completion or a second batch run could break |

The theorems about payouts rest on `Shape`, the part of the type invariant they need. That the provider answers a
repeated key with its first answer is an assumption about an external system, built into `CallGateway`.

`ProvidersProofs` proves `OnlyReviewedGoesLive` (`Spec => []LiveWasReviewed`) and `CatalogueIsDeadlockFree`
(`Spec => []CatalogueNeverDeadlocks`) from one invariant, `ProvidersInv`. The row
locks exclude their holders (`LocksExclude`); between submission and decision no lock is held at all, and what protects
the review is that a catalogue change has found no pending application under a lock which a submission needs too
(`ChangesUnreviewed`). Hence what is active while an application is pending is what it was submitted with
(`PendingIsSubmitted`), and what is approved was reviewed (`ApprovedWasReviewed`).

`AccessProofs`, all from `AccessInv`:

| Theorem | Statement | Argument |
|---|---|---|
| `UsedOnce` | `Spec => []SingleUse` | `FamilyInv`: a family has one token that is neither rotated nor revoked, and the request that exchanges it holds its lock, so it stays so; a family is named after a request that has answered, so no two begin the same. `CodeInv`: a reset under way has a code nobody used and no other reset has |
| `OldTokensEnd` | `Spec => []StaleIsRaced` | `StaleInv`: while a password is set, every session of the account is among the rows its UPDATE found or was marked by it as overlapping, and so is every request that is about to make one; no other request of the account sets one at that time |
| `ContextIsReal` | `Spec => []ContextIsAtomic` | `ContextInv`: what the second query can find was in force at some moment since the first |
| `SubjectsAreApart` | `Spec => []ActsAsLinked` | `LinkInv`: a link, once made, stays, and the loser of an insertion goes on with the link it finds |
| `WaitsEnd` | `Spec => []NeverStuck` | `ReplayInv`: among the replays of a family there is a last one, such that all that an earlier one still waits for is in the last one's rows too. A circle of replays in which each waits for the next would have a last one that waits for an earlier one and is waited for by it: two requests that wait for each other, which the database resolves. A refresh holds the row it rotates and waits for nothing (`CanRotate`), so that it is never in a circle |

`WaitsEnd` covers circles of any length; the run's five requests reach circles of two only.

`PublicProofs`, all from `PublicInv`, the conjunction of one invariant for each of the three loads. Each load leaves the
requests of the others alone, which is said once (`Untouched`):

| Theorem | Statement | Argument |
|---|---|---|
| `RoutingFollowsRows` | `Spec => []LegacyAgrees` | `ShownInv`: the zone's lock has one holder among zone edits and imports, an edit under way is of the zone that exists, and every edit that commits rewrites the list from the rows it leaves |
| `ReplacementIsOfShown` | `Spec => []ReplacesWhatWasSeen` | `ShownInv`: what a request was shown is still so as long as the version it was shown is the zone's, because the version was read before the rows and every edit raises it |
| `WindowsAreNotOverbooked` | `Spec => []SlotWithinCapacity` | `BookingsInv`: a key has one booking, and none while a request that looked it up holds its lock (`KeyInv`); a request about to insert still has the room it found, and is alone with its window (`RoomInv`), whether it came from an intent or directly |
| `WithdrawalStays` | `Spec => []WithdrawalHolds` | `WithdrawalInv`: no grant overlaps a withdrawal that is acknowledged or that a request under way will acknowledge, so that what the request found suppressed, and does not write again, is suppressed still |
| `SubmissionCanBeRepeated` | `Spec => RetryIsSafe` | from `KeyInv`: a key has one booking, so a submission that meets one has not got past the lookup, which answers with it before the slot is searched |

`ReleaseProofs`:

| Theorem | Statement | Argument |
|---|---|---|
| `BoundIsPinned` | `CheckSourcesBound(t) => CheckIsPinned(t)` for every tree | the validator's recursive scan, which cuts cycles off, refuses whatever the closure of `SourceBinding` calls replaceable |
| `ValidIsInert` | `ValidTree(t) => Inert(t) /\ IntentInert(t) /\ PublishedIsAttested(t.signer)` for every tree | a script, import, workflow or job that a scan passes has only passed ones below it (`ImportScan`, `ScriptScan`, `WorkflowScan`, `BlockedScan`), so that what is passed is closed and holds the closure that the reference computes (`ReachableIsClosed`). An import is passed for the names its importer calls: what importing it does is scanned whatever the names, at any depth; the functions called are those of the first importer on the path, which is why the reference claims no more of functions than that. For the signer: a step that runs in some run of the workflow has conditions which can hold (`HoldsIsPossible`) in jobs which can start (`StartedIsFree`), and these are what the check looked at |
| `HeadsMeet` | `Spec => []JointAfterChecks` | `AdmissionInv`: a check that concluded did so on what it is bound to (`Concluded`, by `BoundIsPinned`), a protected job runs, and a run ends, only for a commit that the contract check accepts (`Evidenced`), and what the reads behind a job have shown (`Passed`): a head read between two candidate reads saw both heads in place, or the second candidate read will refuse |
| `AdmittedStaysInert` | `Spec => []AdmittedIsInert` | from `AdmissionInv`, whose `Evidenced` says that a finished run is of a valid tree, and `ValidIsInert` |
| `RolloutIsImplemented` | `Spec => RolloutRefined` | `Init` maps to `Rollout`'s, the step that uploads evidence to an `Admit` after the phase before, and every other step to a stutter, since finished runs never change |

**Recursive definitions without induction.** The prover has no induction over data. Three arguments stand in for it:

* every nonempty set of naturals has a least element (`LeastOf`). A first round in which `ActionsUsed` or `Reachable` left a closed
  set would be one, and so would be the size of the smallest set over which `MapThenSumSet` were not defined
  (`SumsExist`, `FinanceProofs`); from it follow the lemmas about the sum over the empty set, over a set with one element more, and over a subset;
* a monotone equation has a greatest solution, the union of its post-fixed sets (`FollowExists`, `GreatestSolution`). So the recursive
  functions of the scans exist, although a scan that meets a text pinned as scanned starts anew with an empty path and no measure decreases;
* what is shown of a scan is shown of every solution of its equation, so that it does not matter which one the definition denotes.

The models were fitted to the provers in a few places without changing what they say: arms of a CASE that overlapped are
IF/ELSE in `Jobs.Withdraw`, `ContractCheck.TestTargets` and `Payments.CommitRefund`, and the recursive functions of
`SourceBinding`, `ContractCheck` and `Signer` take the path met so far as their one argument and have functions or sets as values.

**Assumptions.** Those named in the modules; TLC evaluates them in the runs. Beside types and finiteness they say that `NULL` is
no row and no identifier, that a professional has a vendor (`VendorAssumption`: `Worker.vendor_id` is not
nullable), that a zone's row is not the missing one (`ZoneAssumption`) and a field that is absent from a request not one that is
null (`IntentsAssumption`). Of release control, `ScriptAssumption` and `StepAssumption` say what the kinds of files and steps can hold:
a shell text has shell commands, importing a Python module executes part of what running it does and imports Python only, discovery finds
Python, what a function of a file does is part of what all of it does, and only a callable can be stored or passed on; and `ValidatorAssumption` says that a commit's validator, however it was rewritten,
uploads evidence at its end and reads the checks in its first job. Without the last, nothing but the review of the
protected branch would stand against a validator that reads nothing.

**Only model-checked:** the liveness properties (`EventuallySettled`, `ParkedIsActivated`, `PaidIsSettled`, `EarningIsBatched`), since the
proof system handles neither fairness nor ENABLED. Every invariant, every property of steps and the refinement that a passing
run checks is also a theorem. The type invariants of the modules other than `Outbox` are proved as far as
an invariant needs them.

## 6. Where code and documents disagree

The modules contain the behaviour that follows; the passing runs check what holds in spite of it, and one run, `Booking_overlap`,
shows a document contradicted by the code.

* *Outbox.* A lease of 300 s can end before a batch of 50 deliveries, after which a second worker
  claims rows the first still holds, against the comment at `outbox_service.py:130`. With
  `ODOO_ENABLED=false`, as documented, a lead dispute's event is parked at birth and no
  activation selects it. `docs/finance-integrations.md:23` calls exhausted rows `DEAD_LETTER`; the code says
  `FAILED_TERMINAL`.
* *Booking.* `docs/breero-booking-architecture.md:69-72` says that locks of a professional's interval "protect against
  concurrent overbooking"; `lock_provider_slot` (`repository.py:166`) is keyed by the start instant only, so two requests for overlapping
  intervals with different starts overbook (`NotOverbooked` fails in the run `Booking_overlap`). Lines 27-28 promise
  "overlap detection"; the operator's overlap query (`scheduling.py:99`) compares with a subquery that is NULL while a booking has
  no job, and counts nothing. A hold that expires during its conversion may already be someone else's
  (`public_service.py:240`). The daily limit and the session's quota are counted under
  locks that do not cover them. Rescheduling leaves the job's window. With
  `max_concurrent_jobs = 1` a booking's converted hold counts against the professional it reserved.
* *Payments.* `docs/professional-lead-domain.md:10` says "signed webhook capture makes the purchase paid"; after a failed card
  released the lead, the success of a second card on the same intent raises `InvalidPaymentState` at every delivery
  (`service.py:406`), and the money is kept while the purchase stays FAILED; `PaidIsSettled` makes that exception. A `payment_failed` event that is processed late overwrites a capture. A released lead can not be
  bought again, since `lead_purchases.lead_id` is unique. The refund of the rest marks a payment refunded while an
  earlier part is pending. A refund's webhook that overtakes the refund's own commit is recorded
  as processed and never applied. Two intents of one booking may both be captured. A quote's job is resumed
  unpaid by a technician's start or an operations transition from AWAITING_APPROVAL to IN_PROGRESS (`jobs/service.py:26`, `transitions.py:50`):
  `HandedOver` claims nothing of the job's status.
* *Jobs.* `docs/final-staging-boundaries.md:10` says "All application job status mutations use
  `JobService.apply_transition`"; administrators' assignment and unassignment set the status directly
  (`admin_service.py:104`, `:191`). A technician's stale command can overwrite a status set meanwhile. A reassignment takes a
  completed job back to ASSIGNED while its earning stays with the first vendor; completed again, it announces `job.completed` for the
  second vendor, who earns nothing. `start` leaves
  AWAITING_APPROVAL without the customer's decision. `manual_assign` lists CREATED and
  `create_work_request` lists ON_SITE, but neither has a transition from there. Offers made after an
  unassignment can not be accepted, because the booking reserves nobody.
* *Payouts.* Parallel submissions publish `payout.submitted` twice. An earning that is disputed or
  reversed after it was batched is paid with its batch. Nothing sets PAID
  (`docs/finance-integrations.md:8`), and the weekly task batches USD only.
* *Access.* `docs/breero-authentication.md:5` says "Password change/reset increments the credential version and revokes
  active sessions."; a login or refresh that overlaps the change leaves a usable session of the former credential
  (`auth/service.py:401`), which is why `StaleIsRaced` makes that exception. `verify_email` always refuses customers who registered
  themselves (`service.py:352`). The credential version is read, incremented and written without a lock. The
  rehash of a legacy password at login may overwrite a password set meanwhile (`service.py:231`). A replay's family
  revocation misses a successor inserted at the same time. Logging out after a refresh does not close the
  Keycloak session. `hash_password` is called without `await` at `keycloak.py:159` and
  `booking/public_service.py:154`.
* *Providers.* A decision and a submission lock in opposite order; the database aborts one of them. A service that
  needs approval and is selected after approval can never be approved, and professionals added then stay
  INVITED. Nothing sets `approval_status` of provider services and areas to APPROVED although
  `matching.py:73` requires it. `docs/architecture/NATIONWIDE-BOOKING-POLICY.md:14` says "Provider coverage is replaced
  atomically"; two overlapping replacements leave the union of both (`operations/workforce.py:45`), and so do two of a weekly
  availability (`provider_service.py:196`).
* *Public site.* The comment of `sync_legacy_postal_codes` says an emergency-only row "must not leak" into the
  legacy list; when the list is empty `service_area_at` reads it as unrestricted. A ZIP+4 row widens legacy routing to its ZIP. Editing a row
  and editing its zone lock in opposite order. An update that clears an intent's slot leaves it
  AVAILABILITY_FOUND, and its submission fails on the missing slot. Two submissions with different keys make
  two bookings; a change of the intent between the two commits is overwritten; a retry after the second commit is
  refused with 409.
* *Release.* The contract of this commit lists a blocker, so that only the plan phase can be admitted now. A publication
  with `if: always()` is accepted with an attestation that runs on success only, so that `PublishedIsAttested` considers runs in which no step fails.
  The scan of an import does not repeat for a module already on the path (`validate-production-orchestrator-contract.py:2890`), although
  another importer may call other functions of it: `Inert` claims nothing of functions called across further modules.

## 7. Plan

Done: all modules of section 2, their runs, and the proofs of section 5. Every safety property the runs check is proved; what
remains is to model the provider portal, and the converse of `ValidIsInert`, which says that
the contract check refuses no more than it has to: it does refuse harmless commits, by design, and no document says which.

Not modelled, and why:

* the HTTP layer and settings (validation and routing), the catalogue's administration (single-row edits), migrations
  (their constraints are guards of the modules), the front ends, the Odoo add-on and the deployment scripts;
* rate limiting: a token bucket over a real-valued clock, atomic in Redis and under one lock in its fallback;
* in release control, the splitting of shell, Python and JavaScript texts into commands and the regression tables the check runs on itself:
  they are about texts, and a model of them would be a second parser;
* the provider portal's weekly schedule, areas, exceptions, capacity rules and credentials; of their replacements only the one operations
  make of a provider's coverage is modelled.
