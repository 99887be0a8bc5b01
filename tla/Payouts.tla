------------------------------ MODULE Payouts -------------------------------
(***************************************************************************)
(* FinanceService: what a professional's vendor earns with a completed     *)
(* job, how earnings are adjusted and collected in payout batches, and how *)
(* a batch is approved and submitted to the payout provider.               *)
(*                                                                         *)
(* Every command is one transaction under the row locks of what it reads,  *)
(* except submit_batch: it commits before it calls the provider, which     *)
(* ends its lock, and commits again afterwards.  It is three steps, so     *)
(* that a second submission or a crash can come between them.              *)
(*                                                                         *)
(* The provider is external: it answers a repeated idempotency key with    *)
(* its first answer.  All earnings have one currency.                      *)
(***************************************************************************)
EXTENDS Integers, FiniteSetsExt

CONSTANTS
    Earnings,     \* completed jobs: each has at most one VendorEarning
    Batches,      \* payout batches
    Requests,     \* requests that may submit a batch at the same time
    Plans,        \* compensation plans that may be active
    Gross,        \* gross_minor of every job
    Adjustments,  \* idempotency keys of adjustments
    Change,       \* Change[k]: amount_minor of the adjustment with key k
    Disputes,     \* keys of the adjustments of type DISPUTE
    NULL

Methods == {"FIXED_MINOR", "PERCENTAGE", "SERVICE_RATE"}

ASSUME PlanAssumption ==
    /\ Plans \subseteq [method : Methods, value : Nat]
    /\ \A p \in Plans : p.method = "PERCENTAGE" => p.value <= 10000
    /\ Gross \in Nat
ASSUME AdjustmentAssumption ==
    Change \in [Adjustments -> Int] /\ Disputes \subseteq Adjustments
ASSUME PayoutNullAssumption == NULL \notin Batches \cup Plans
ASSUME FiniteAssumption ==
    IsFiniteSet(Earnings) /\ IsFiniteSet(Adjustments) /\ IsFiniteSet(Requests)

VARIABLES
    enabled,    \* settings.payout_enabled
    plan,       \* the vendor's active compensation plan
    estatus,    \* VendorEarning.status, "NONE" before the row exists
    rule,       \* the compensation snapshot's rule
    net,        \* net_minor
    adjusted,   \* adjustment_total_minor
    recorded,   \* keys of the earning's EarningAdjustment rows
    due,        \* available_at <= now
    ebatch,     \* payout_batch_id
    counted,    \* history: the keys recorded when a batch included the earning
    bstatus,    \* PayoutBatch.status, "NONE" before the row exists
    total,      \* total_minor
    transfer,   \* is provider_transfer_id set?
    announced,  \* number of payout.submitted events
    stage,      \* where a submission is
    sub,        \* the batch it submits
    paid        \* the provider's transfers

earnings == <<estatus, rule, net, adjusted, recorded, due, ebatch, counted>>
batches  == <<bstatus, total, transfer, announced>>
requests == <<stage, sub>>
pvars    == <<enabled, plan, estatus, rule, net, adjusted, recorded, due, ebatch, counted,
              bstatus, total, transfer, announced, stage, sub, paid>>

EarningStatus == {"PENDING", "AVAILABLE", "HELD", "BATCHED", "REVERSED"}
PayoutStatus  == {"PENDING_APPROVAL", "APPROVED", "PROCESSING"}

PayoutInit ==
    /\ enabled \in BOOLEAN
    /\ plan = NULL
    /\ estatus = [e \in Earnings |-> "NONE"]
    /\ rule = [e \in Earnings |-> NULL]
    /\ net = [e \in Earnings |-> 0]
    /\ adjusted = [e \in Earnings |-> 0]
    /\ recorded = [e \in Earnings |-> {}]
    /\ due = [e \in Earnings |-> FALSE]
    /\ ebatch = [e \in Earnings |-> NULL]
    /\ counted = [e \in Earnings |-> {}]
    /\ bstatus = [b \in Batches |-> "NONE"]
    /\ total = [b \in Batches |-> 0]
    /\ transfer = [b \in Batches |-> FALSE]
    /\ announced = [b \in Batches |-> 0]
    /\ stage = [r \in Requests |-> "idle"]
    /\ sub = [r \in Requests |-> NULL]
    /\ paid = {}

-----------------------------------------------------------------------------
(* Compensation *)

\* calculate_compensation
Compensation(p) ==
    IF p.method = "PERCENTAGE" THEN (Gross * p.value) \div 10000 ELSE p.value

\* VendorEarning.payable_minor
payable == [e \in Earnings |-> net[e] + adjusted[e]]

\* A deployment changes settings.payout_enabled.
Toggle ==
    /\ enabled' = ~enabled
    /\ UNCHANGED <<plan, earnings, batches, requests, paid>>

\* create_compensation_plan: the plan with the latest effective_from is active.
CreatePlan(p) ==
    /\ plan' = p
    /\ UNCHANGED <<enabled, earnings, batches, requests, paid>>

\* _record_completion_effects and recognize_earning.  Without a plan the job's
\* completion is refused.
Recognize(e) ==
    /\ enabled
    /\ estatus[e] = "NONE"
    /\ plan # NULL
    /\ estatus' = [estatus EXCEPT ![e] = "PENDING"]
    /\ rule' = [rule EXCEPT ![e] = plan]
    /\ net' = [net EXCEPT ![e] = Compensation(plan)]
    /\ UNCHANGED <<enabled, plan, adjusted, recorded, due, ebatch, counted, batches,
                   requests, paid>>

\* The plan's hold_days are over.
HoldEnds(e) ==
    /\ estatus[e] # "NONE"
    /\ ~due[e]
    /\ due' = [due EXCEPT ![e] = TRUE]
    /\ UNCHANGED <<enabled, plan, estatus, rule, net, adjusted, recorded, ebatch, counted,
                   batches, requests, paid>>

ReleasableEarly(e) == estatus[e] = "PENDING" /\ ~due[e]
ReleasableHeld(e) == estatus[e] \in {"PENDING", "HELD"} /\ due[e]

\* The rows release_eligible selects
Releasable(e) == estatus[e] = "PENDING" /\ due[e]

\* release_eligible; S leaves out rows that SKIP LOCKED skipped.
ReleaseEligible(S) ==
    /\ enabled
    /\ S # {}
    /\ \A e \in S : Releasable(e)
    /\ estatus' = [e \in Earnings |-> IF e \in S THEN "AVAILABLE" ELSE estatus[e]]
    /\ UNCHANGED <<enabled, plan, rule, net, adjusted, recorded, due, ebatch, counted,
                   batches, requests, paid>>

NewAlways(e, k) == estatus[e] # "NONE"

\* A key that is recorded for the earning returns its first adjustment.
New(e, k) == estatus[e] # "NONE" /\ k \notin recorded[e]

\* The earning's status once the adjustment has been added
StatusAfter(e, k) ==
    IF payable[e] + Change[k] <= 0 THEN "REVERSED"
    ELSE IF k \in Disputes THEN "HELD" ELSE estatus[e]

\* adjust_earning, whatever has become of the earning and without asking whether
\* payouts are enabled
Adjust(e, k) ==
    /\ New(e, k)
    /\ recorded' = [recorded EXCEPT ![e] = @ \cup {k}]
    /\ adjusted' = [adjusted EXCEPT ![e] = @ + Change[k]]
    /\ estatus' = [estatus EXCEPT ![e] = StatusAfter(e, k)]
    /\ UNCHANGED <<enabled, plan, rule, net, due, ebatch, counted, batches, requests, paid>>

-----------------------------------------------------------------------------
(* Payout batches *)

\* The rows available_earnings selects
Available(e) == estatus[e] = "AVAILABLE" /\ due[e]

\* create_batch, by finance staff or by the weekly task.  S leaves out rows that
\* SKIP LOCKED skipped, and other vendors' when one vendor is asked for.
CreateBatch(b, S) ==
    /\ enabled
    /\ bstatus[b] = "NONE"
    /\ S # {}
    /\ \A e \in S : Available(e)
    /\ bstatus' = [bstatus EXCEPT ![b] = "PENDING_APPROVAL"]
    /\ total' = [total EXCEPT ![b] = MapThenSumSet(LAMBDA e : payable[e], S)]
    /\ estatus' = [e \in Earnings |-> IF e \in S THEN "BATCHED" ELSE estatus[e]]
    /\ ebatch' = [e \in Earnings |-> IF e \in S THEN b ELSE ebatch[e]]
    /\ counted' = [e \in Earnings |-> IF e \in S THEN recorded[e] ELSE counted[e]]
    /\ UNCHANGED <<enabled, plan, rule, net, adjusted, recorded, due, transfer, announced,
                   requests, paid>>

\* approve_batch
Approve(b) ==
    /\ enabled
    /\ bstatus[b] = "PENDING_APPROVAL"
    /\ bstatus' = [bstatus EXCEPT ![b] = "APPROVED"]
    /\ UNCHANGED <<enabled, plan, earnings, total, transfer, announced, requests, paid>>

\* The checks of submit_batch
Submittable(b) == bstatus[b] = "APPROVED" /\ ~transfer[b]

\* submit_batch commits the key and calls the provider without a lock.
BeginSubmit(r, b) ==
    /\ enabled
    /\ stage[r] = "idle"
    /\ Submittable(b)
    /\ stage' = [stage EXCEPT ![r] = "calling"]
    /\ sub' = [sub EXCEPT ![r] = b]
    /\ UNCHANGED <<enabled, plan, earnings, batches, paid>>

KeyPerRequest(r) == r

\* "payout-batch:{id}"
Key(r) == sub[r]

\* create_transfer (external)
CallGateway(r) ==
    /\ stage[r] = "calling"
    /\ stage' = [stage EXCEPT ![r] = "called"]
    /\ paid' = IF \E t \in paid : t.key = Key(r) THEN paid
               ELSE paid \cup {[key |-> Key(r), batch |-> sub[r], amount |-> total[sub[r]]]}
    /\ UNCHANGED <<enabled, plan, earnings, batches, sub>>

\* submit_batch records the transfer; it does not look at the batch again.
CommitSubmit(r) ==
    /\ stage[r] = "called"
    /\ stage' = [stage EXCEPT ![r] = "idle"]
    /\ sub' = [sub EXCEPT ![r] = NULL]
    /\ bstatus' = [bstatus EXCEPT ![sub[r]] = "PROCESSING"]
    /\ transfer' = [transfer EXCEPT ![sub[r]] = TRUE]
    /\ announced' = [announced EXCEPT ![sub[r]] = @ + 1]
    /\ UNCHANGED <<enabled, plan, earnings, total, paid>>

\* The provider is not configured, the call fails, or the process dies.
AbortSubmit(r) ==
    /\ stage[r] # "idle"
    /\ stage' = [stage EXCEPT ![r] = "idle"]
    /\ sub' = [sub EXCEPT ![r] = NULL]
    /\ UNCHANGED <<enabled, plan, earnings, batches, paid>>

PayoutNext ==
    \/ Toggle
    \/ \E p \in Plans : CreatePlan(p)
    \/ \E e \in Earnings : \/ Recognize(e) \/ HoldEnds(e)
                           \/ \E k \in Adjustments : Adjust(e, k)
    \/ \E S \in SUBSET Earnings : ReleaseEligible(S) \/ \E b \in Batches : CreateBatch(b, S)
    \/ \E b \in Batches : Approve(b) \/ \E r \in Requests : BeginSubmit(r, b)
    \/ \E r \in Requests : CallGateway(r) \/ CommitSubmit(r) \/ AbortSubmit(r)

PayoutSpec == PayoutInit /\ [][PayoutNext]_pvars

\* Time passes, and the beat schedule starts release_earnings every hour and
\* generate_weekly_payout_candidates every week.  A row is skipped only while
\* another transaction has it, so some run takes all there are.
PayoutFairness ==
    /\ \A e \in Earnings : WF_pvars(HoldEnds(e))
    /\ WF_pvars(ReleaseEligible({e \in Earnings : Releasable(e)}))
    /\ WF_pvars(\E b \in Batches : CreateBatch(b, {e \in Earnings : Available(e)}))

FairPayoutSpec == PayoutSpec /\ PayoutFairness
-----------------------------------------------------------------------------
(* Properties *)

PayoutTypeOK ==
    /\ enabled \in BOOLEAN
    /\ plan \in Plans \cup {NULL}
    /\ estatus \in [Earnings -> {"NONE"} \cup EarningStatus]
    /\ rule \in [Earnings -> Plans \cup {NULL}]
    /\ net \in [Earnings -> Nat]
    /\ adjusted \in [Earnings -> Int]
    /\ recorded \in [Earnings -> SUBSET Adjustments]
    /\ due \in [Earnings -> BOOLEAN]
    /\ ebatch \in [Earnings -> Batches \cup {NULL}]
    /\ counted \in [Earnings -> SUBSET Adjustments]
    /\ bstatus \in [Batches -> {"NONE"} \cup PayoutStatus]
    /\ total \in [Batches -> Int]
    /\ transfer \in [Batches -> BOOLEAN]
    /\ announced \in [Batches -> Nat]
    /\ stage \in [Requests -> {"idle", "calling", "called"}]
    /\ sub \in [Requests -> Batches \cup {NULL}]
    /\ \A t \in paid : t.batch \in Batches /\ t.amount \in Int

\* What is owed for the jobs in batches: what each snapshot's rule gives, and once
\* each adjustment of which there was a row when the batch was made
owed ==
    [e \in {x \in Earnings : ebatch[x] # NULL} |->
        Compensation(rule[e]) + MapThenSumSet(LAMBDA k : Change[k], counted[e])]

\* What a batch pays out is what its earnings' snapshots and adjustment rows give: a
\* batch run adds up sums that completions, repeated adjustments and earlier runs
\* have left in the earnings, and nothing recomputes them.  It pays no earning that
\* another batch pays, and no later plan or adjustment changes it.
BatchIsOwed ==
    \A b \in Batches :
        total[b] = MapThenSumSet(LAMBDA e : owed[e], {e \in Earnings : ebatch[e] = b})

\* An earning stays in the batch that included it: no release, adjustment or
\* second batch run includes it again.
IncludedOnce ==
    [][\A e \in Earnings : ebatch[e] # NULL => ebatch'[e] = ebatch[e]]_pvars

\* The provider transfers a batch's total at most once, and only if the batch was
\* approved, although submissions run in parallel and die after the call.
PaidOnce ==
    /\ \A t, u \in paid : t.batch = u.batch => t = u
    /\ \A t \in paid : /\ bstatus[t.batch] \in {"APPROVED", "PROCESSING"}
                       /\ t.amount = total[t.batch]

\* If payouts stay enabled, every earning ends in a batch unless it is disputed
\* or reversed: the hourly release and the weekly batch forget none.
EarningIsBatched ==
    <>[]enabled =>
        \A e \in Earnings : estatus[e] # "NONE" ~> estatus[e] \in {"BATCHED", "HELD", "REVERSED"}
=============================================================================
