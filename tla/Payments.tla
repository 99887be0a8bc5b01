------------------------------ MODULE Payments ------------------------------
(***************************************************************************)
(* PaymentService: payment intents for bookings, additional-work quotes    *)
(* and professional leads, capture, refunds, and the webhooks by which     *)
(* Stripe reports what became of them.                                     *)
(*                                                                         *)
(* A request that calls Stripe keeps its row lock during the call and      *)
(* commits afterwards.  It is two steps, Begin (the checks and the call)   *)
(* and Commit, so that Stripe, its webhooks and a crash can come between   *)
(* them.  A webhook is one transaction.  When settlement raises, the       *)
(* webhook is rolled back and recorded as failed, and Stripe delivers it   *)
(* again: that is the action not being enabled.                            *)
(*                                                                         *)
(* Stripe is external: it keeps intents and refunds, answers a repeated    *)
(* idempotency key with its first answer, and delivers every event at      *)
(* least once, in any order.  A payment is named by the idempotency key of *)
(* its creation, a refund by its own key.                                  *)
(***************************************************************************)
EXTENDS Integers, FiniteSetsExt

CONSTANTS
    Payments,   \* idempotency keys of payments
    Subjects,   \* bookings, quotes (work requests) and leads
    Subject,    \* Subject[p]: what p pays for
    Kinds,      \* what the subjects may be: "booking", "quote", "lead"
    Manual,     \* payments made with capture_method "manual"
    Refunds,    \* idempotency keys of refunds
    Of,         \* Of[r]: the payment r refunds
    Amount,     \* amount_minor of every payment
    MaxSent     \* bound: no attempt to pay is reported once Stripe has sent so many events

ASSUME SubjectAssumption == Subject \in [Payments -> Subjects]
ASSUME KindAssumption == Kinds \subseteq {"booking", "quote", "lead"}
ASSUME ManualAssumption == Manual \subseteq Payments
ASSUME RefundAssumption ==
    /\ Of \in [Refunds -> Payments] /\ IsFiniteSet(Refunds)
    /\ {"idle", "create", "capture"} \cap Refunds = {}
ASSUME AmountAssumption == Amount \in Nat \ {0} /\ MaxSent \in Nat

VARIABLES
    status,    \* Payment.status, "none" before the row exists
    captured,  \* captured_amount_minor
    purchase,  \* LeadPurchase.status of a lead's payment
    subject,   \* status of the Booking, WorkRequest or ProfessionalLead
    job,       \* status of the subject's Job
    rstatus,   \* Refund.status, "none" before the row exists
    pc,        \* the request that waits for Stripe and holds the payment's lock
    intent,    \* status of the intent at Stripe
    received,  \* amount_received at Stripe
    refund,    \* status of the refund at Stripe
    amount,    \* amount of the refund
    answer,    \* Stripe's first answer to the refund's key
    sent,      \* the events Stripe has sent
    done       \* the events recorded as processed

database == <<status, captured, purchase, subject, job, rstatus>>
stripe   == <<intent, received, refund, amount, answer, sent>>
vars     == <<status, captured, purchase, subject, job, rstatus, pc, intent, received,
              refund, amount, answer, sent, done>>

PaymentStatus == {"created", "requires_action", "authorized", "captured", "failed", "canceled",
                  "refunded", "partially_refunded"}
RefundStatus  == {"pending", "succeeded", "failed", "canceled"}
LeadPurchaseStatus == {"PENDING_PAYMENT", "PAID", "FAILED", "REFUNDED"}

\* The statuses of an intent that the customer may still pay.  The browser confirms,
\* so that none waits for the server's confirmation (requires_confirmation).
Open == {"requires_payment_method", "requires_action", "processing"}

StripeStatusEager ==
    [requires_payment_method |-> "created", requires_confirmation |-> "created",
     requires_action |-> "requires_action", processing |-> "captured",
     requires_capture |-> "authorized", succeeded |-> "captured", canceled |-> "canceled"]
StripeStatusUnknown ==
    [requires_payment_method |-> "created", requires_confirmation |-> "created",
     requires_action |-> "requires_action", processing |-> "authorized",
     requires_capture |-> "authorized", succeeded |-> "authorized", canceled |-> "canceled"]

\* STRIPE_STATUS
StripeStatus ==
    [requires_payment_method |-> "created", requires_confirmation |-> "created",
     requires_action |-> "requires_action", processing |-> "authorized",
     requires_capture |-> "authorized", succeeded |-> "captured", canceled |-> "canceled"]

\* A subject's status before an intent exists, before and after settlement
Purchasable == [booking |-> "PENDING_PAYMENT", quote |-> "APPROVED_PENDING_PAYMENT",
                lead |-> "AVAILABLE"]
Unsettled == [booking |-> "PENDING_PAYMENT", quote |-> "APPROVED_PENDING_PAYMENT",
              lead |-> "RESERVED"]
Settled   == [booking |-> "PENDING_PROVIDER_CONFIRMATION", quote |-> "APPROVED",
              lead |-> "PURCHASED"]

\* Payment.payment_purpose: the subjects' statuses tell them apart.
Purpose(s) ==
    CASE subject[s] \in {"AVAILABLE", "RESERVED", "PURCHASED"} -> "lead"
      [] subject[s] \in {"APPROVED_PENDING_PAYMENT", "APPROVED"} -> "quote"
      [] OTHER -> "booking"

\* capture_method "manual"; a lead is always captured automatically.
ByHand(p) == p \in Manual /\ Purpose(Subject[p]) # "lead"

Init ==
    /\ status = [p \in Payments |-> "none"]
    /\ captured = [p \in Payments |-> 0]
    /\ purchase = [p \in Payments |-> "NONE"]
    /\ subject \in [Subjects -> {Purchasable[k] : k \in Kinds}]
    /\ job = [s \in Subjects |-> IF Purpose(s) = "quote" THEN "AWAITING_APPROVAL" ELSE "NONE"]
    /\ rstatus = [r \in Refunds |-> "none"]
    /\ pc = [p \in Payments |-> "idle"]
    /\ intent = [p \in Payments |-> "none"]
    /\ received = [p \in Payments |-> 0]
    /\ refund = [r \in Refunds |-> "none"]
    /\ amount = [r \in Refunds |-> 0]
    /\ answer = [r \in Refunds |-> "none"]
    /\ sent = {}
    /\ done = {}

-----------------------------------------------------------------------------
(* Stripe and the customer (external) *)

\* Stripe sends an event about payment or refund x, numbered in Stripe's order.
Send(x, type, st) ==
    sent' = sent \cup {[n |-> Cardinality(sent), of |-> x, type |-> type, status |-> st]}

\* An attempt to pay goes on: the card is authenticated, or the payment processed.
Attempts(p) ==
    /\ status[p] # "none"
    /\ intent[p] \in Open
    /\ Cardinality(sent) < MaxSent
    /\ \E st \in Open \ {"requires_payment_method", intent[p]} :
          /\ intent' = [intent EXCEPT ![p] = st]
          /\ Send(p, "intent", st)
    /\ UNCHANGED <<database, pc, received, refund, amount, answer, done>>

\* An attempt to pay fails.  The intent stays open for another card.
PaymentFails(p) ==
    /\ status[p] # "none"
    /\ intent[p] \in Open
    /\ Cardinality(sent) < MaxSent
    /\ intent' = [intent EXCEPT ![p] = "requires_payment_method"]
    /\ Send(p, "payment_failed", "requires_payment_method")
    /\ UNCHANGED <<database, pc, received, refund, amount, answer, done>>

\* The customer pays: a manual intent is authorized, an automatic one captured.
Pays(p) ==
    /\ status[p] # "none"
    /\ intent[p] \in Open
    /\ intent' = [intent EXCEPT ![p] = IF ByHand(p) THEN "requires_capture" ELSE "succeeded"]
    /\ received' = [received EXCEPT ![p] = IF ByHand(p) THEN 0 ELSE Amount]
    /\ Send(p, "intent", intent'[p])
    /\ UNCHANGED <<database, pc, refund, amount, answer, done>>

\* An open intent is canceled, or its authorization runs out.
IntentCanceled(p) ==
    /\ intent[p] \in Open \cup {"requires_capture"}
    /\ intent' = [intent EXCEPT ![p] = "canceled"]
    /\ Send(p, "canceled", "canceled")
    /\ UNCHANGED <<database, pc, received, refund, amount, answer, done>>

\* A pending refund succeeds, fails or is canceled.
RefundEnds(r) ==
    /\ refund[r] = "pending"
    /\ \E st \in RefundStatus \ {"pending"} :
          /\ refund' = [refund EXCEPT ![r] = st]
          /\ Send(r, "refund", st)
    /\ UNCHANGED <<database, pc, intent, received, amount, answer, done>>

-----------------------------------------------------------------------------
(* create_intent, create_professional_lead_intent and the leads' purchase *)

\* The subject's row lock (SELECT ... FOR UPDATE), held during the call to Stripe
SubjectLocked(s) == \E q \in Payments : Subject[q] = s /\ pc[q] = "create"

\* A lead has at most one purchase: LeadPurchase.lead_id is unique.
Unpurchased(s) == \A q \in Payments : Subject[q] = s => purchase[q] = "NONE"

CanCreate(p) ==
    /\ status[p] = "none"
    /\ subject[Subject[p]] = Purchasable[Purpose(Subject[p])]
    /\ Purpose(Subject[p]) = "lead" => Unpurchased(Subject[p])

\* The checks and the call.  The same key gets the same intent.
BeginCreate(p) ==
    /\ pc[p] = "idle"
    /\ CanCreate(p)
    /\ ~SubjectLocked(Subject[p])
    /\ pc' = [pc EXCEPT ![p] = "create"]
    /\ intent' = [intent EXCEPT ![p] = IF @ = "none" THEN "requires_payment_method" ELSE @]
    /\ UNCHANGED <<database, received, refund, amount, answer, sent, done>>

\* The commit of the payment and, for a lead, of the purchase and reservation
CommitCreate(p) ==
    /\ pc[p] = "create"
    /\ pc' = [pc EXCEPT ![p] = "idle"]
    /\ status' = [status EXCEPT ![p] = StripeStatus["requires_payment_method"]]
    /\ IF Purpose(Subject[p]) = "lead"
       THEN /\ purchase' = [purchase EXCEPT ![p] = "PENDING_PAYMENT"]
            /\ subject' = [subject EXCEPT ![Subject[p]] = "RESERVED"]
       ELSE UNCHANGED <<purchase, subject>>
    /\ UNCHANGED <<captured, job, rstatus, stripe, done>>

-----------------------------------------------------------------------------
(* _settle *)

\* Settlement raises for any other status of the subject.
CanSettle(p) ==
    /\ subject[Subject[p]] \in {Unsettled[Purpose(Subject[p])], Settled[Purpose(Subject[p])]}
    /\ ~SubjectLocked(Subject[p])

Settle(p) ==
    LET s == Subject[p] IN
    /\ CanSettle(p)
    /\ subject' = [subject EXCEPT ![s] = Settled[Purpose(s)]]
    /\ purchase' = [purchase EXCEPT ![p] = IF Purpose(s) = "lead" THEN "PAID" ELSE @]
    /\ job' = [job EXCEPT ![s] =
          IF subject[s] = Settled[Purpose(s)] THEN @
          ELSE CASE Purpose(s) = "booking" /\ @ = "NONE" -> "CREATED"
                 [] Purpose(s) = "quote" /\ @ = "AWAITING_APPROVAL" -> "IN_PROGRESS"
                 [] OTHER -> @]

-----------------------------------------------------------------------------
(* capture *)

\* The checks and the call, for the amount a or again with the same key
BeginCapture(p, a) ==
    /\ pc[p] = "idle"
    /\ status[p] = "authorized"
    /\ pc' = [pc EXCEPT ![p] = "capture"]
    /\ \/ /\ intent[p] = "requires_capture"
          /\ intent' = [intent EXCEPT ![p] = "succeeded"]
          /\ received' = [received EXCEPT ![p] = a]
          /\ Send(p, "intent", "succeeded")
       \/ /\ intent[p] = "succeeded" /\ ByHand(p)
          /\ UNCHANGED <<intent, received, sent>>
    /\ UNCHANGED <<database, refund, amount, answer, done>>

CommitCapture(p) ==
    /\ pc[p] = "capture"
    /\ pc' = [pc EXCEPT ![p] = "idle"]
    /\ status' = [status EXCEPT ![p] = StripeStatus["succeeded"]]
    /\ captured' = [captured EXCEPT ![p] = received[p]]
    /\ Settle(p)
    /\ UNCHANGED <<rstatus, stripe, done>>

-----------------------------------------------------------------------------
(* refund *)

Total(p, row, S) ==
    MapThenSumSet(LAMBDA r : amount[r], {r \in Refunds : Of[r] = p /\ row[r] \in S})

\* What is left to refund: pending refunds are counted as well.
Remaining(p) == captured[p] - Total(p, rstatus, {"pending", "succeeded"})

\* Stripe refuses to refund more than it received.
Accepted(p, n) == Total(p, refund, {"pending", "succeeded"}) + n <= received[p]

\* The checks and the call
BeginRefund(r) ==
    /\ pc[Of[r]] = "idle"
    /\ rstatus[r] = "none"
    /\ status[Of[r]] \in {"captured", "partially_refunded"}
    /\ \E n \in 1 .. Remaining(Of[r]) :
          \/ /\ refund[r] = "none"
             /\ Accepted(Of[r], n)
             /\ \E st \in RefundStatus :
                   /\ refund' = [refund EXCEPT ![r] = st]
                   /\ answer' = [answer EXCEPT ![r] = st]
                   /\ Send(r, "refund", st)
             /\ amount' = [amount EXCEPT ![r] = n]
          \/ /\ refund[r] # "none"
             /\ n = amount[r]
             /\ UNCHANGED <<refund, answer, amount, sent>>
    /\ pc' = [pc EXCEPT ![Of[r]] = r]
    /\ UNCHANGED <<database, intent, received, done>>

FullWhenLast(r) == amount[r] <= Remaining(Of[r])

\* requested == remaining
Full(r) == amount[r] = Remaining(Of[r])

\* _mark_lead_purchase_refunded
MarkRefunded(p) ==
    purchase' = [purchase EXCEPT ![p] =
        IF Purpose(Subject[p]) = "lead" /\ status'[p] = "refunded" THEN "REFUNDED" ELSE @]

CommitRefund(r) ==
    LET p == Of[r] IN
    /\ pc[p] = r
    /\ pc' = [pc EXCEPT ![p] = "idle"]
    /\ rstatus' = [rstatus EXCEPT ![r] = answer[r]]
    /\ status' = [status EXCEPT ![p] =
          IF answer[r] # "succeeded" THEN @
          ELSE IF Full(r) THEN "refunded" ELSE "partially_refunded"]
    /\ MarkRefunded(p)
    /\ UNCHANGED <<captured, subject, job, stripe, done>>

\* A request that called Stripe dies before its commit, or cannot settle.
Abort(p) ==
    /\ pc[p] # "idle"
    /\ pc' = [pc EXCEPT ![p] = "idle"]
    /\ UNCHANGED <<database, stripe, done>>

-----------------------------------------------------------------------------
(* process_webhook *)

PaymentOf(e) == IF e.type = "refund" THEN Of[e.of] ELSE e.of

\* The row the event is about is looked up by Stripe's id.
Known(e) == IF e.type = "refund" THEN rstatus[e.of] # "none" ELSE status[e.of] # "none"

FreshAlways(e) == TRUE

\* An event recorded as processed is a duplicate.
Fresh(e) == e \notin done

\* An event is delivered, maybe again, and is not a duplicate.
Delivered(e) ==
    /\ e \in sent
    /\ Fresh(e)

\* The event concerns no row: it is recorded as processed all the same.
Ignored(e) ==
    /\ Delivered(e)
    /\ ~Known(e)
    /\ done' = done \cup {e}
    /\ UNCHANGED <<database, pc, stripe>>

\* The transaction of an event that concerns a row
Processed(e) ==
    /\ Delivered(e)
    /\ Known(e)
    /\ pc[PaymentOf(e)] = "idle"
    /\ done' = done \cup {e}
    /\ UNCHANGED <<pc, stripe>>

ReleaseSold(p) ==
    IF Purpose(Subject[p]) = "lead"
    THEN /\ purchase' = [purchase EXCEPT ![p] = "FAILED"]
         /\ subject' = [subject EXCEPT ![Subject[p]] = "AVAILABLE"]
    ELSE UNCHANGED <<purchase, subject>>

\* _release_failed_lead_purchase: a sold lead is not released
Release(p) ==
    IF Purpose(Subject[p]) = "lead"
    THEN /\ purchase' = [purchase EXCEPT ![p] = "FAILED"]
         /\ subject' = [subject EXCEPT ![Subject[p]] = IF @ = "RESERVED" THEN "AVAILABLE" ELSE @]
    ELSE UNCHANGED <<purchase, subject>>

\* payment_intent.payment_failed and payment_intent.canceled
IntentEnded(e) ==
    /\ e.type \in {"payment_failed", "canceled"}
    /\ Processed(e)
    /\ status' = [status EXCEPT ![e.of] = IF e.type = "canceled" THEN "canceled" ELSE "failed"]
    /\ Release(e.of)
    /\ UNCHANGED <<captured, job, rstatus>>

\* amount_received in the event's object
AmountReceived(e) == IF e.status = "succeeded" THEN received[e.of] ELSE 0

\* Any other payment_intent event: the status in the event's object is taken.
IntentChanged(e) ==
    /\ e.type = "intent"
    /\ Processed(e)
    /\ status' = [status EXCEPT ![e.of] = StripeStatus[e.status]]
    /\ captured' = [captured EXCEPT ![e.of] = AmountReceived(e)]
    /\ IF status'[e.of] = "captured" THEN Settle(e.of) ELSE UNCHANGED <<purchase, subject, job>>
    /\ UNCHANGED rstatus

\* A refund's event: a success also recomputes the payment's status.
RefundChanged(e) ==
    /\ e.type = "refund"
    /\ Processed(e)
    /\ rstatus' = [rstatus EXCEPT ![e.of] = e.status]
    /\ LET p == Of[e.of] IN
       IF e.status = "succeeded"
       THEN /\ status' = [status EXCEPT ![p] =
                  IF Total(p, rstatus', {"succeeded"}) >= captured[p]
                  THEN "refunded" ELSE "partially_refunded"]
            /\ MarkRefunded(p)
       ELSE UNCHANGED <<status, purchase>>
    /\ UNCHANGED <<captured, subject, job>>

Webhook(e) == Ignored(e) \/ IntentEnded(e) \/ IntentChanged(e) \/ RefundChanged(e)

-----------------------------------------------------------------------------
(* What else happens to the subjects *)

\* cancel_booking and the expiry of an unpaid booking (CANCELLED stands for both)
BookingEnds(s) ==
    /\ Purpose(s) = "booking"
    /\ subject[s] \in {"PENDING_PAYMENT", "PENDING_PROVIDER_CONFIRMATION"}
    /\ ~SubjectLocked(s)
    /\ subject' = [subject EXCEPT ![s] = "CANCELLED"]
    /\ job' = [job EXCEPT ![s] = IF @ = "NONE" THEN @ ELSE "CANCELLED"]
    /\ UNCHANGED <<status, captured, purchase, rstatus, pc, stripe, done>>

\* The job's own transitions, by its technician or by operations: they do not ask
\* what is paid.  CREATED stands for all that a booking's job goes through.
WorkMoves(s) ==
    /\ \E st \in CASE job[s] = "CREATED" -> {"CANCELLED"}
                    [] job[s] = "AWAITING_APPROVAL" -> {"IN_PROGRESS", "CANCELLED"}
                    [] job[s] = "IN_PROGRESS" -> {"AWAITING_APPROVAL", "COMPLETED", "CANCELLED"}
                    [] OTHER -> {} :
          job' = [job EXCEPT ![s] = st]
    /\ UNCHANGED <<status, captured, purchase, subject, rstatus, pc, stripe, done>>

Next ==
    \/ \E p \in Payments :
          \/ Attempts(p) \/ PaymentFails(p) \/ Pays(p) \/ IntentCanceled(p)
          \/ BeginCreate(p) \/ CommitCreate(p)
          \/ \E a \in 1 .. Amount : BeginCapture(p, a)
          \/ CommitCapture(p) \/ Abort(p)
    \/ \E r \in Refunds : RefundEnds(r) \/ BeginRefund(r) \/ CommitRefund(r)
    \/ \E e \in sent : Webhook(e)
    \/ \E s \in Subjects : BookingEnds(s) \/ WorkMoves(s)

Spec == Init /\ [][Next]_vars

\* A transaction ends, PostgreSQL grants a lock to those who wait for it, and
\* Stripe repeats a delivery until it is accepted.  A creation that is repeated
\* does not die each time: a webhook, which is one step here, would otherwise wait
\* for the payment's lock and the subject's in turn, and never find both free.
\* Beside the attempts to pay there are at most two reports of a payment (authorized,
\* then captured or canceled) and two of a refund (pending, then how it ended).
Fairness ==
    /\ \A p \in Payments :
          WF_vars(CommitCreate(p) \/ CommitCapture(p) \/ Abort(p)
                  \/ \E r \in Refunds : Of[r] = p /\ CommitRefund(r))
    /\ \A p \in Payments : SF_vars(CommitCreate(p))
    /\ \A n \in 0 .. MaxSent + 2 * Cardinality(Payments \cup Refunds) - 1 :
          SF_vars(\E e \in sent : e.n = n /\ Webhook(e))

FairSpec == Spec /\ Fairness
-----------------------------------------------------------------------------
(* Properties *)

Events == [n : Nat, of : Payments \cup Refunds,
           type : {"payment_failed", "canceled", "intent", "refund"},
           status : DOMAIN StripeStatus \cup RefundStatus]

TypeOK ==
    /\ status \in [Payments -> {"none"} \cup PaymentStatus]
    /\ captured \in [Payments -> 0 .. Amount]
    /\ purchase \in [Payments -> {"NONE"} \cup LeadPurchaseStatus]
    /\ subject \in [Subjects -> {"AVAILABLE", "RESERVED", "PURCHASED", "PENDING_PAYMENT",
                                 "PENDING_PROVIDER_CONFIRMATION", "CANCELLED",
                                 "APPROVED_PENDING_PAYMENT", "APPROVED"}]
    /\ job \in [Subjects -> {"NONE", "CREATED", "AWAITING_APPROVAL", "IN_PROGRESS",
                             "COMPLETED", "CANCELLED"}]
    /\ rstatus \in [Refunds -> {"none"} \cup RefundStatus]
    /\ pc \in [Payments -> {"idle", "create", "capture"} \cup Refunds]
    /\ intent \in [Payments -> {"none"} \cup DOMAIN StripeStatus]
    /\ received \in [Payments -> 0 .. Amount]
    /\ refund \in [Refunds -> {"none"} \cup RefundStatus]
    /\ amount \in [Refunds -> 0 .. Amount]
    /\ answer \in [Refunds -> {"none"} \cup RefundStatus]
    /\ sent \subseteq Events
    /\ done \subseteq sent

PaidFor(s) == \E p \in Payments : Subject[p] = s /\ received[p] > 0

\* Nothing is handed over unpaid: a booking or quote is settled, a booking's job
\* created or a lead sold only if Stripe has received money for it, in whatever order
\* the webhooks, the capture requests and their failures come.  A quote's job resumes
\* by its own transitions as well, which ask for no payment.
SettledWasPaid ==
    \A s \in Subjects :
        subject[s] = Settled[Purpose(s)] \/ (Purpose(s) = "booking" /\ job[s] # "NONE")
            => PaidFor(s)

\* A sold lead is never offered again, although a failure that Stripe reported
\* earlier may be processed after the sale.
SoldIsFinal ==
    [][\A s \in Subjects : subject[s] = "PURCHASED" => subject'[s] = "PURCHASED"]_vars

\* One lead is sold to one provider only.
SoldOnce ==
    \A p, q \in Payments :
        p # q /\ Subject[p] = Subject[q] /\ Purpose(Subject[p]) = "lead"
            => received[p] = 0 \/ received[q] = 0

\* A booking, quote or lead is handed over against money, a lead to one
\* payer only.
HandedOver == SettledWasPaid /\ SoldOnce

Paid == {"captured", "partially_refunded", "refunded"}
Bought == {"PAID", "REFUNDED"}

\* A payment whose money Stripe has, as the database knows it
Kept(p) == status[p] \in Paid /\ (Purpose(Subject[p]) = "lead" => purchase[p] \in Bought)

\* Stripe reported the intent's success after it sent this event.
Overtaken(e) ==
    \E f \in sent : f.of = e.of /\ f.type = "intent" /\ f.status = "succeeded" /\ e.n < f.n

\* A capture is forgotten in one way only: by the first delivery of a report that
\* Stripe made before the success and that the success overtook.  No repeated
\* delivery, request, refund or later report undoes it.
CaptureIsKept ==
    [][\A p \in Payments :
          Kept(p) => Kept(p)' \/ \E e \in done' \ done : e.of = p /\ Overtaken(e)]_vars

\* A payment or purchase that says it is refunded has its whole captured amount in
\* refunds that Stripe has made or is making, unless one of its refunds failed: the
\* commit counts pending refunds, and a failure that is reported later leaves the
\* payment refunded.
RefundedIsTrue ==
    \A p \in Payments :
        status[p] = "refunded" \/ purchase[p] = "REFUNDED" =>
            \/ \E r \in Refunds : Of[r] = p /\ refund[r] \in {"failed", "canceled"}
            \/ Total(p, refund, {"pending", "succeeded"}) >= captured[p]

\* Money that Stripe received settles the booking or quote it was paid for, unless
\* that was cancelled first, whatever requests die on the way; and it pays for the
\* lead, unless an earlier attempt to pay failed and released it, after which every
\* delivery of the success raises.  (docs/professional-lead-domain.md knows no such
\* exception: "signed webhook capture makes the purchase paid".)
PaidIsSettled ==
    \A p \in Payments :
        received[p] > 0
            ~> IF Purpose(Subject[p]) = "lead"
               THEN purchase[p] \in Bought \/ \E e \in done : e.of = p /\ e.type = "payment_failed"
               ELSE subject[Subject[p]] \in {Settled[Purpose(Subject[p])], "CANCELLED"}
=============================================================================
