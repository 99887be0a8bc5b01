---------------------------- MODULE OutboxProofs ----------------------------
(***************************************************************************)
(* Theorems about the outbox, for any number of events and workers, any    *)
(* mixture of event kinds and any number of attempts and crashes.          *)
(***************************************************************************)
EXTENDS Outbox, TLAPS

USE EventsAssumption, NullAssumption, KindAssumption, LegacyAssumption,
    AttemptsAssumption, BoundsAssumption, FlagsAssumption
    DEF taken

\* What process can make of a claimed row, and when it is DELIVERED.
LEMMA VerdictFacts ==
    ASSUME NEW w \in Workers, NEW e \in Events, TypeOK
    PROVE  /\ Verdict(w, e) \in {"DELIVERED", "PENDING_CONFIGURATION",
                                 "FAILED_TERMINAL", "RETRYING"}
           /\ Verdict(w, e) = "DELIVERED" <=> outcome[w] = "ok"
  <1>1. outcome[w] \in Outcomes
    BY DEF TypeOK
  <1>2. CASE outcome[w] = "ok"
    BY <1>2 DEF Verdict
  <1>3. CASE outcome[w] = "unconfigured"
    BY <1>3 DEF Verdict
  <1>4. CASE outcome[w] = "terminal"
    BY <1>4 DEF Verdict
  <1>5. CASE outcome[w] \in {"retryable", "lost_ack"} /\ seen[w][e] >= MaxAttempts
    BY <1>5 DEF Verdict
  <1>6. CASE outcome[w] \in {"retryable", "lost_ack"} /\ ~(seen[w][e] >= MaxAttempts)
    BY <1>6 DEF Verdict
  <1> QED
    BY <1>1, <1>2, <1>3, <1>4, <1>5, <1>6 DEF Outcomes

\* attempt_count stays within the model's counting range.
LEMMA BumpFacts ==
    ASSUME NEW n \in 0 .. MaxAttempts + 1
    PROVE  Bump(n) \in 0 .. MaxAttempts + 1
  BY DEF Bump

\* The outcomes of a delivery are outcomes, and one that may be "ok" is for a
\* kind with a handler.
LEMMA OutcomeFacts ==
    ASSUME NEW w \in Workers, NEW e \in Events, NEW o \in PossibleOutcomes(w, e)
    PROVE  /\ o \in Outcomes
           /\ o = "ok" => Kind[e] # "unhandled"
           /\ o = "ok" /\ Kind[e] = "submission" => enabled[w]
  <1>1. Kind[e] \in Kinds
    OBVIOUS
  <1>2. CASE Kind[e] = "email"
    BY <1>2 DEF PossibleOutcomes, Outcomes
  <1>3. CASE Kind[e] \in {"submission", "dispute"}
    BY <1>3 DEF PossibleOutcomes, Outcomes
  <1>4. CASE Kind[e] = "unhandled"
    BY <1>4 DEF PossibleOutcomes, Outcomes
  <1> QED
    BY <1>1, <1>2, <1>3, <1>4 DEF Kinds

\* The statuses a producer may write.
LEMMA InitialFacts ==
    ASSUME NEW e \in Events
    PROVE  Initial(e) \subseteq {"PENDING", "PENDING_CONFIGURATION"}
  <1>1. Kind[e] \in Kinds
    OBVIOUS
  <1> QED
    BY <1>1 DEF Initial, Kinds

-----------------------------------------------------------------------------

LEMMA TypeInit == Init => TypeOK
  <1> SUFFICES ASSUME Init PROVE TypeOK
    OBVIOUS
  <1>1. status \in [Events -> {"ABSENT"} \cup EventStatus]
    BY DEF Init, EventStatus
  <1>2. attempts \in [Events -> 0 .. MaxAttempts + 1]
    BY DEF Init
  <1>3. downstream \in [Events -> DownstreamStatus \cup {NULL}]
    BY DEF Init, DownstreamStatus
  <1>4. seen \in [Workers -> [Events -> 0 .. MaxAttempts + 1]]
    BY DEF Init
  <1>5. /\ due \in [Events -> BOOLEAN]
        /\ lease \in [Events -> {"none", "running", "lapsed"}]
        /\ owner \in [Events -> Workers \cup {NULL}]
        /\ accepted \in [Events -> BOOLEAN]
        /\ enabled \in [Workers -> BOOLEAN]
        /\ pc \in [Workers -> {"idle", "claim", "deliver", "commit"}]
    BY DEF Init
  <1>6. /\ batch \in [Workers -> SUBSET Events]
        /\ outcome \in [Workers -> Outcomes]
        /\ read \in [Workers -> DownstreamStatus \cup {NULL}]
        /\ crashes \in 0 .. MaxCrashes
        /\ overrun \subseteq Events /\ withdrawn \subseteq Events
    BY DEF Init, Outcomes
  <1> QED
    BY <1>1, <1>2, <1>3, <1>4, <1>5, <1>6 DEF TypeOK

LEMMA TypeNext == TypeOK /\ [Next]_vars => TypeOK'
  <1> SUFFICES ASSUME TypeOK, [Next]_vars PROVE TypeOK'
    OBVIOUS
  <1> USE DEF TypeOK
  <1>1. ASSUME NEW e \in Events, Publish(e) PROVE TypeOK'
    BY <1>1, InitialFacts DEF Publish, local, EventStatus, DownstreamStatus
  <1>2. ASSUME NEW e \in Events, Retry(e) PROVE TypeOK'
    BY <1>2 DEF Retry, local, EventStatus
  <1>3. ASSUME NEW e \in Events, BackoffElapses(e) PROVE TypeOK'
    BY <1>3 DEF BackoffElapses, local
  <1>4. ASSUME NEW e \in Events, LeaseExpires(e) PROVE TypeOK'
    BY <1>4 DEF LeaseExpires, local
  <1>5. ASSUME NEW w \in Workers, Activate(w) PROVE TypeOK'
    BY <1>5 DEF Activate, EventStatus, DownstreamStatus
  <1>6. ASSUME NEW w \in Workers, Park(w) PROVE TypeOK'
    BY <1>6 DEF Park, EventStatus, DownstreamStatus
  <1>7. ASSUME NEW w \in Workers, NEW S \in SUBSET Events, Claim(w, S) PROVE TypeOK'
    <2>1. attempts' \in [Events -> 0 .. MaxAttempts + 1]
      BY <1>7, BumpFacts DEF Claim
    <2>2. seen' \in [Workers -> [Events -> 0 .. MaxAttempts + 1]]
      BY <1>7, <2>1 DEF Claim
    <2> QED
      BY <1>7, <2>1, <2>2 DEF Claim, EventStatus
  <1>8. ASSUME NEW w \in Workers, NEW e \in Events, Deliver(w, e) PROVE TypeOK'
    BY <1>8, OutcomeFacts DEF Deliver, row
  <1>9. ASSUME NEW w \in Workers, NEW e \in Events, Commit(w, e) PROVE TypeOK'
    <2>1. status' \in [Events -> {"ABSENT"} \cup EventStatus]
      BY <1>9, VerdictFacts DEF Commit, EventStatus
    <2>2. downstream' \in [Events -> DownstreamStatus \cup {NULL}]
      BY <1>9 DEF Commit, DownstreamStatus
    <2>3. due' \in [Events -> BOOLEAN]
      BY <1>9 DEF Commit
    <2> QED
      BY <1>9, <2>1, <2>2, <2>3 DEF Commit, Outcomes
  <1>10. ASSUME NEW w \in Workers, Crash(w) PROVE TypeOK'
    BY <1>10 DEF Crash, row, Outcomes
  <1>11. CASE UNCHANGED vars
    BY <1>11 DEF vars
  <1> QED
    BY <1>1, <1>2, <1>3, <1>4, <1>5, <1>6, <1>7, <1>8, <1>9, <1>10, <1>11
       DEF Next, PublishOutbox

\* Every reachable state has the types the columns and the workers' locals have.
THEOREM TypeCorrect == Spec => []TypeOK
  BY TypeInit, TypeNext, PTL DEF Spec

-----------------------------------------------------------------------------
(* No stranded event *)

LEMMA LeasedInit == Init => ProcessingIsLeased
  BY DEF Init, ProcessingIsLeased

LEMMA LeasedNext == TypeOK /\ ProcessingIsLeased /\ [Next]_vars => ProcessingIsLeased'
  <1> SUFFICES ASSUME TypeOK, ProcessingIsLeased, [Next]_vars
               PROVE  ProcessingIsLeased'
    OBVIOUS
  <1> USE DEF TypeOK, ProcessingIsLeased
  <1>1. ASSUME NEW e \in Events, Publish(e) PROVE ProcessingIsLeased'
    BY <1>1, InitialFacts DEF Publish
  <1>2. ASSUME NEW e \in Events, Retry(e) PROVE ProcessingIsLeased'
    BY <1>2 DEF Retry
  <1>3. ASSUME NEW e \in Events, BackoffElapses(e) PROVE ProcessingIsLeased'
    BY <1>3 DEF BackoffElapses
  <1>4. ASSUME NEW e \in Events, LeaseExpires(e) PROVE ProcessingIsLeased'
    BY <1>4 DEF LeaseExpires
  <1>5. ASSUME NEW w \in Workers, Activate(w) PROVE ProcessingIsLeased'
    BY <1>5 DEF Activate, Parked
  <1>6. ASSUME NEW w \in Workers, Park(w) PROVE ProcessingIsLeased'
    BY <1>6 DEF Park
  <1>7. ASSUME NEW w \in Workers, NEW S \in SUBSET Events, Claim(w, S)
        PROVE  ProcessingIsLeased'
    BY <1>7 DEF Claim
  <1>8. ASSUME NEW w \in Workers, NEW e \in Events, Deliver(w, e)
        PROVE  ProcessingIsLeased'
    BY <1>8 DEF Deliver, row
  <1>9. ASSUME NEW w \in Workers, NEW e \in Events, Commit(w, e)
        PROVE  ProcessingIsLeased'
    BY <1>9, VerdictFacts DEF Commit
  <1>10. ASSUME NEW w \in Workers, Crash(w) PROVE ProcessingIsLeased'
    BY <1>10 DEF Crash, row
  <1>11. CASE UNCHANGED vars
    BY <1>11 DEF vars
  <1> QED
    BY <1>1, <1>2, <1>3, <1>4, <1>5, <1>6, <1>7, <1>8, <1>9, <1>10, <1>11
       DEF Next, PublishOutbox

\* Whatever the workers, the clock, the operator and the deployment do, a row is
\* PROCESSING only with a lease that expires, so claim finds it again.
THEOREM NoStrandedEvent == Spec => []ProcessingIsLeased
  BY TypeInit, TypeNext, LeasedInit, LeasedNext, PTL DEF Spec

-----------------------------------------------------------------------------
(* No false delivery *)

\* A worker about to commit "ok" got that answer for the row at the head of its
\* batch, which a handler delivered.
OutcomeIsReal ==
    \A w \in Workers, e \in Events :
        pc[w] = "commit" /\ outcome[w] = "ok" /\ First(w, e)
            => accepted[e] /\ Kind[e] # "unhandled"

AcceptedInv == OutcomeIsReal /\ DeliveredWasAccepted

LEMMA AcceptedInit == Init => AcceptedInv
  BY DEF Init, DownstreamStatus, AcceptedInv, OutcomeIsReal, DeliveredWasAccepted

LEMMA AcceptedNext == TypeOK /\ AcceptedInv /\ [Next]_vars => AcceptedInv'
  <1> SUFFICES ASSUME TypeOK, AcceptedInv, [Next]_vars
               PROVE  AcceptedInv'
    OBVIOUS
  <1> USE DEF TypeOK, AcceptedInv, OutcomeIsReal, DeliveredWasAccepted, First
  <1>1. ASSUME NEW e \in Events, Publish(e) PROVE AcceptedInv'
    <2>1. PICK s \in {"PENDING", "PENDING_CONFIGURATION"} :
             /\ status' = [status EXCEPT ![e] = s]
             /\ downstream' = [downstream EXCEPT ![e] =
                   IF Kind[e] = "submission" THEN s ELSE NULL]
      BY <1>1, InitialFacts DEF Publish
    <2>2. DeliveredWasAccepted'
      <3> SUFFICES ASSUME NEW f \in Events,
                          status'[f] = "DELIVERED" \/ downstream'[f] = "DELIVERED"
                   PROVE  accepted'[f] /\ Kind[f] # "unhandled"
        OBVIOUS
      <3>1. CASE f = e
        <4>1. status'[e] # "DELIVERED"
          BY <2>1
        <4>2. CASE Kind[e] = "submission"
          BY <4>1, <4>2, <3>1, <2>1
        <4>3. CASE Kind[e] # "submission"
          <5>1. downstream'[e] = NULL
            BY <2>1, <4>3
          <5> QED
            BY <4>1, <5>1, <3>1 DEF DownstreamStatus
        <4> QED
          BY <4>2, <4>3
      <3>2. CASE f # e
        BY <2>1, <3>2, <1>1 DEF Publish
      <3> QED
        BY <3>1, <3>2
    <2> QED
      BY <1>1, <2>2 DEF Publish, local
  <1>2. ASSUME NEW e \in Events, Retry(e) PROVE AcceptedInv'
    BY <1>2 DEF Retry, local
  <1>3. ASSUME NEW e \in Events, BackoffElapses(e) PROVE AcceptedInv'
    BY <1>3 DEF BackoffElapses, local
  <1>4. ASSUME NEW e \in Events, LeaseExpires(e) PROVE AcceptedInv'
    BY <1>4 DEF LeaseExpires, local
  <1>5. ASSUME NEW w \in Workers, Activate(w) PROVE AcceptedInv'
    BY <1>5 DEF Activate
  <1>6. ASSUME NEW w \in Workers, Park(w) PROVE AcceptedInv'
    BY <1>6 DEF Park
  <1>7. ASSUME NEW w \in Workers, NEW S \in SUBSET Events, Claim(w, S)
        PROVE  AcceptedInv'
    BY <1>7 DEF Claim
  <1>8. ASSUME NEW w \in Workers, NEW e \in Events, Deliver(w, e)
        PROVE  AcceptedInv'
    <2>1. PICK o \in PossibleOutcomes(w, e) :
             /\ outcome' = [outcome EXCEPT ![w] = o]
             /\ accepted' = [accepted EXCEPT ![e] = @ \/ o \in {"ok", "lost_ack"}]
      BY <1>8 DEF Deliver
    <2>2. \A f \in Events : accepted[f] => accepted'[f]
      BY <2>1
    <2>3. DeliveredWasAccepted'
      BY <1>8, <2>2 DEF Deliver, row
    <2>4. OutcomeIsReal'
      <3> SUFFICES ASSUME NEW v \in Workers, NEW f \in Events,
                          pc'[v] = "commit", outcome'[v] = "ok", First(v, f)'
                   PROVE  accepted'[f] /\ Kind[f] # "unhandled"
        OBVIOUS
      <3>1. CASE v # w
        <4>1. pc[v] = "commit" /\ outcome[v] = "ok" /\ First(v, f)
          BY <1>8, <2>1, <3>1 DEF Deliver
        <4> QED
          BY <4>1, <2>2
      <3>2. CASE v = w
        <4>1. f = e
          BY <1>8, <3>2 DEF Deliver
        <4>2. o = "ok"
          BY <2>1, <3>2
        <4> QED
          BY <4>1, <4>2, <2>1, OutcomeFacts
      <3> QED
        BY <3>1, <3>2
    <2> QED
      BY <2>3, <2>4
  <1>9. ASSUME NEW w \in Workers, NEW e \in Events, Commit(w, e)
        PROVE  AcceptedInv'
    <2>1. outcome[w] = "ok" => accepted[e] /\ Kind[e] # "unhandled"
      BY <1>9 DEF Commit
    <2>2. DeliveredWasAccepted'
      <3> SUFFICES ASSUME NEW f \in Events,
                          status'[f] = "DELIVERED" \/ downstream'[f] = "DELIVERED"
                   PROVE  accepted'[f] /\ Kind[f] # "unhandled"
        OBVIOUS
      <3>1. CASE f # e
        BY <1>9, <3>1 DEF Commit
      <3>2. CASE f = e /\ outcome[w] = "ok"
        BY <1>9, <2>1, <3>2 DEF Commit
      <3>3. CASE f = e /\ outcome[w] # "ok"
        BY <1>9, <3>3, VerdictFacts DEF Commit
      <3> QED
        BY <3>1, <3>2, <3>3
    <2>3. OutcomeIsReal'
      BY <1>9 DEF Commit
    <2> QED
      BY <2>2, <2>3
  <1>10. ASSUME NEW w \in Workers, Crash(w) PROVE AcceptedInv'
    BY <1>10 DEF Crash, row
  <1>11. CASE UNCHANGED vars
    BY <1>11 DEF vars
  <1> QED
    BY <1>1, <1>2, <1>3, <1>4, <1>5, <1>6, <1>7, <1>8, <1>9, <1>10, <1>11
       DEF Next, PublishOutbox

\* Neither a stale worker, nor parking, nor a retry makes the outbox claim a
\* delivery that did not happen.
THEOREM NoFalseDelivery == Spec => []DeliveredWasAccepted
  <1>1. AcceptedInv => DeliveredWasAccepted
    BY DEF AcceptedInv
  <1> QED
    BY <1>1, TypeInit, TypeNext, AcceptedInit, AcceptedNext, PTL DEF Spec
-----------------------------------------------------------------------------
(* Who holds a row, until it is taken *)

\* A worker that has not claimed holds nothing, and what is held exists.
IdleHoldsNothing ==
    \A w \in Workers :
        /\ pc[w] \in {"idle", "claim"} => batch[w] = {}
        /\ \A e \in batch[w] : status[e] # "ABSENT"

\* A lease that ended under a worker is recorded.
LapsedIsFree ==
    \A e \in Events : lease[e] = "lapsed" /\ Held(e) => e \in overrun

HeldInv == IdleHoldsNothing /\ LapsedIsFree /\ HeldIsOwned

LEMMA HeldInit == Init => HeldInv
  BY DEF Init, HeldInv, IdleHoldsNothing, LapsedIsFree, HeldIsOwned, Held

LEMMA HeldNext ==
    ASSUME TypeOK, HeldInv, [Next]_vars
    PROVE  HeldInv'
  <1> USE DEF TypeOK, HeldInv, IdleHoldsNothing, LapsedIsFree, HeldIsOwned, Held, Taken
  <1>1. ASSUME NEW e \in Events, Publish(e) PROVE HeldInv'
    BY <1>1, InitialFacts DEF Publish, local
  <1>2. ASSUME NEW e \in Events, Retry(e) PROVE HeldInv'
    BY <1>2 DEF Retry, Retriable, local
  <1>3. ASSUME NEW e \in Events, BackoffElapses(e) PROVE HeldInv'
    BY <1>3 DEF BackoffElapses, local
  <1>4. ASSUME NEW e \in Events, LeaseExpires(e) PROVE HeldInv'
    BY <1>4 DEF LeaseExpires, local
  <1>5. ASSUME NEW w \in Workers, Activate(w) PROVE HeldInv'
    BY <1>5 DEF Activate, Parked
  <1>6. ASSUME NEW w \in Workers, Park(w) PROVE HeldInv'
    <2>1. \A v \in Workers : \A e \in batch'[v] :
            ~Taken(e)' => ~Taken(e) /\ ~Parkable(e) /\ e \in batch[v]
      BY <1>6 DEF Park
    <2>2. HeldIsOwned'
      BY <1>6, <2>1 DEF Park
    <2>3. LapsedIsFree'
      BY <1>6 DEF Park
    <2>4. IdleHoldsNothing'
      BY <1>6 DEF Park
    <2> QED
      BY <2>2, <2>3, <2>4
  <1>7. ASSUME NEW w \in Workers, NEW S \in SUBSET Events, Claim(w, S)
        PROVE  HeldInv'
    <2>1. \A e \in S : status[e] \in Open \/ lease[e] = "lapsed"
      BY <1>7 DEF Claim, Claimable
    <2>2. batch[w] = {}
      BY <1>7 DEF Claim
    <2>3. HeldIsOwned'
      <3>a. UNCHANGED <<overrun, withdrawn>>
        BY <1>7 DEF Claim
      <3> SUFFICES ASSUME NEW v \in Workers, NEW e \in batch'[v], ~Taken(e)
                   PROVE  status'[e] = "PROCESSING" /\ owner'[e] = v
        BY <3>a
      <3>1. CASE v = w
        BY <1>7, <3>1 DEF Claim
      <3>2. CASE v # w
        <4>1. /\ e \in batch[v]
              /\ status[e] = "PROCESSING"
              /\ owner[e] = v
          BY <1>7, <3>2 DEF Claim
        <4>2. e \notin S
          BY <2>1, <4>1 DEF Open
        <4> QED
          BY <1>7, <4>1, <4>2 DEF Claim
      <3> QED
        BY <3>1, <3>2
    <2>4. LapsedIsFree'
      BY <1>7 DEF Claim
    <2>5. IdleHoldsNothing'
      <3>1. \A v \in Workers : v # w => pc'[v] = pc[v] /\ batch'[v] = batch[v]
        BY <1>7 DEF Claim
      <3>2. batch'[w] = S /\ pc'[w] = (IF S = {} THEN "idle" ELSE "deliver")
        BY <1>7 DEF Claim
      <3>3. \A e \in Events : status'[e] \in {status[e], "PROCESSING"}
        BY <1>7 DEF Claim
      <3>4. \A e \in S : status'[e] = "PROCESSING"
        BY <1>7 DEF Claim
      <3>5. (pc'[w] \in {"idle", "claim"} => batch'[w] = {}) /\ \A e \in batch'[w] : status'[e] # "ABSENT"
        BY <3>2, <3>4
      <3>6. ASSUME NEW v \in Workers, v # w
            PROVE  /\ pc'[v] \in {"idle", "claim"} => batch'[v] = {}
                   /\ \A e \in batch'[v] : status'[e] # "ABSENT"
        <4>1. pc'[v] = pc[v] /\ batch'[v] = batch[v]
          BY <3>1, <3>6
        <4>2. ASSUME NEW e \in batch[v] PROVE status'[e] # "ABSENT"
          <5>1. e \in Events /\ status[e] # "ABSENT"
            OBVIOUS
          <5> QED
            BY <3>3, <5>1
        <4>3. pc[v] \in {"idle", "claim"} => batch[v] = {}
          OBVIOUS
        <4> QED
          BY <4>1, <4>2, <4>3
      <3> SUFFICES ASSUME NEW v \in Workers
                   PROVE  /\ pc'[v] \in {"idle", "claim"} => batch'[v] = {}
                          /\ \A e \in batch'[v] : status'[e] # "ABSENT"
        OBVIOUS
      <3>7. CASE v = w
        BY <3>5, <3>7
      <3>8. CASE v # w
        BY <3>6, <3>8
      <3> QED
        BY <3>7, <3>8
    <2> QED
      BY <2>3, <2>4, <2>5
  <1>8. ASSUME NEW w \in Workers, NEW e \in Events, Deliver(w, e)
        PROVE  HeldInv'
    BY <1>8 DEF Deliver, row
  <1>9. ASSUME NEW w \in Workers, NEW e \in Events, Commit(w, e)
        PROVE  HeldInv'
    <2>1. \A v \in Workers : batch'[v] = IF v = w THEN batch[w] \ {e} ELSE batch[v]
      BY <1>9 DEF Commit
    <2>2. HeldIsOwned'
      <3>a. UNCHANGED <<overrun, withdrawn>>
        BY <1>9 DEF Commit
      <3> SUFFICES ASSUME NEW v \in Workers, NEW f \in batch'[v], ~Taken(f)
                   PROVE  status'[f] = "PROCESSING" /\ owner'[f] = v
        BY <3>a
      <3>0. f \in batch[v]
        BY <2>1
      <3>1. status[f] = "PROCESSING" /\ owner[f] = v
        BY <3>0
      <3>2. f # e
        BY <1>9, <2>1, <3>1 DEF Commit, First
      <3> QED
        BY <1>9, <3>0, <3>1, <3>2 DEF Commit
    <2>3. LapsedIsFree'
      BY <1>9, <2>1 DEF Commit
    <2>4. IdleHoldsNothing'
      <3>1. \A v \in Workers : v # w => pc'[v] = pc[v]
        BY <1>9 DEF Commit
      <3>2. pc'[w] = (IF batch[w] = {e} THEN "idle" ELSE "deliver")
        BY <1>9 DEF Commit
      <3>3. \A f \in Events : status'[f] = status[f] \/ status'[f] = Verdict(w, e)
        BY <1>9 DEF Commit
      <3>4. Verdict(w, e) # "ABSENT"
        BY VerdictFacts
      <3>5. \A v \in Workers : pc'[v] \in {"idle", "claim"} => batch'[v] = {}
        BY <2>1, <3>1, <3>2
      <3>6. ASSUME NEW v \in Workers, NEW f \in batch'[v] PROVE status'[f] # "ABSENT"
        <4>1. f \in batch[v] /\ f \in Events
          BY <2>1
        <4> QED
          BY <3>3, <3>4, <4>1
      <3> QED
        BY <3>5, <3>6
    <2> QED
      BY <2>2, <2>3, <2>4
  <1>10. ASSUME NEW w \in Workers, Crash(w) PROVE HeldInv'
    BY <1>10 DEF Crash, row
  <1>11. CASE UNCHANGED vars
    BY <1>11 DEF vars
  <1> QED
    BY <1>1, <1>2, <1>3, <1>4, <1>5, <1>6, <1>7, <1>8, <1>9, <1>10, <1>11
       DEF Next, PublishOutbox

\* Nothing but a lapse or a parking takes a row from the worker that claimed it,
\* for any number of workers, crashes and retries, and however settings change.
THEOREM SingleDeliverer == Spec => []HeldIsOwned
  <1>1. TypeOK /\ HeldInv /\ [Next]_vars => HeldInv'
    BY HeldNext
  <1>2. HeldInv => HeldIsOwned
    BY DEF HeldInv
  <1> QED
    BY <1>1, <1>2, TypeInit, TypeNext, HeldInit, PTL DEF Spec

\* A delivery is undone by a late result of a taken row and by nothing else.
THEOREM DeliveredForGood == Spec => DeliveredIsFinal
  <1>1. TypeOK /\ HeldInv /\ [Next]_vars => HeldInv'
    BY HeldNext
  <1>2. ASSUME TypeOK, HeldInv, [Next]_vars, NEW e \in Events, status[e] = "DELIVERED",
               ~Taken(e)
        PROVE  status'[e] = "DELIVERED"
    <2> USE <1>2 DEF TypeOK
    <2>1. CASE \E f \in Events : Publish(f)
      BY <2>1 DEF Publish
    <2>2. CASE \E f \in Events : Retry(f)
      BY <2>2 DEF Retry, Retriable
    <2>3. CASE \E f \in Events : BackoffElapses(f) \/ LeaseExpires(f)
      BY <2>3 DEF BackoffElapses, LeaseExpires
    <2>4. CASE \E w \in Workers : Activate(w)
      BY <2>4 DEF Activate, Parked
    <2>5. CASE \E w \in Workers : Park(w)
      BY <2>5 DEF Park, Parkable, Open
    <2>6. ASSUME NEW w \in Workers, NEW S \in SUBSET Events, Claim(w, S)
          PROVE  status'[e] = "DELIVERED"
      <3>1. e \notin S
        BY <2>6 DEF Claim, Claimable, Open
      <3> QED
        BY <2>6, <3>1 DEF Claim
    <2>7. CASE \E w \in Workers, f \in Events : Deliver(w, f)
      BY <2>7 DEF Deliver, row
    <2>8. ASSUME NEW w \in Workers, NEW f \in Events, Commit(w, f)
          PROVE  status'[e] = "DELIVERED"
      <3>1. f # e
        BY <2>8 DEF Commit, First, HeldInv, HeldIsOwned
      <3> QED
        BY <2>8, <3>1 DEF Commit
    <2>9. CASE \E w \in Workers : Crash(w)
      BY <2>9 DEF Crash, row
    <2>10. CASE UNCHANGED vars
      BY <2>10 DEF vars
    <2> QED
      BY <2>1, <2>2, <2>3, <2>4, <2>5, <2>6, <2>7, <2>8, <2>9, <2>10
         DEF Next, PublishOutbox
  <1>3. TypeOK /\ HeldInv /\ [Next]_vars
            => [\A e \in Events :
                  status[e] = "DELIVERED" /\ ~Taken(e) => status'[e] = "DELIVERED"]_vars
    BY <1>2
  <1> QED
    BY <1>1, <1>3, TypeInit, TypeNext, HeldInit, PTL DEF Spec, DeliveredIsFinal
-----------------------------------------------------------------------------
(* The retry budget and the submission's copy of the status *)

\* A worker that owns a row remembers the row's attempt_count.
SeenIsCurrent ==
    \A w \in Workers, e \in Events :
        e \in batch[w] /\ ~Taken(e) => seen[w][e] = attempts[e]

BudgetInv == SeenIsCurrent /\ RetryBudget

\* Only a worker that remembers fewer than MAX_ATTEMPTS asks for another one.
LEMMA RetryingFacts ==
    ASSUME NEW w \in Workers, NEW e \in Events, TypeOK, Verdict(w, e) = "RETRYING"
    PROVE  outcome[w] \in {"retryable", "lost_ack"} /\ seen[w][e] < MaxAttempts
  <1>1. outcome[w] \in Outcomes /\ seen[w][e] \in 0 .. MaxAttempts + 1
    BY DEF TypeOK
  <1>2. outcome[w] \notin {"ok", "unconfigured", "terminal"}
    BY DEF Verdict
  <1>3. outcome[w] \in {"retryable", "lost_ack"}
    BY <1>1, <1>2 DEF Outcomes
  <1>4. ~(seen[w][e] >= MaxAttempts)
    BY <1>2, <1>3 DEF Verdict
  <1> QED
    BY <1>1, <1>3, <1>4

LEMMA BudgetInit == Init => BudgetInv
  BY DEF Init, BudgetInv, SeenIsCurrent, RetryBudget

LEMMA BudgetNext ==
    ASSUME TypeOK, HeldInv, BudgetInv, [Next]_vars
    PROVE  BudgetInv'
  <1> USE DEF TypeOK, BudgetInv, SeenIsCurrent, RetryBudget, First, Taken
  <1>1. ASSUME NEW e \in Events, Publish(e) PROVE BudgetInv'
    BY <1>1, InitialFacts DEF Publish, local
  <1>2. ASSUME NEW e \in Events, Retry(e) PROVE BudgetInv'
    BY <1>2 DEF Retry, Retriable, local, HeldInv, HeldIsOwned
  <1>3. ASSUME NEW e \in Events, BackoffElapses(e) PROVE BudgetInv'
    BY <1>3 DEF BackoffElapses, local
  <1>4. ASSUME NEW e \in Events, LeaseExpires(e) PROVE BudgetInv'
    BY <1>4 DEF LeaseExpires, local
  <1>5. ASSUME NEW w \in Workers, Activate(w) PROVE BudgetInv'
    BY <1>5 DEF Activate
  <1>6. ASSUME NEW w \in Workers, Park(w) PROVE BudgetInv'
    BY <1>6 DEF Park
  <1>7. ASSUME NEW w \in Workers, NEW S \in SUBSET Events, Claim(w, S)
        PROVE  BudgetInv'
    <2>1. ASSUME NEW v \in Workers, NEW e \in Events, v # w, e \in batch[v], ~Taken(e)
          PROVE  e \notin S
      BY <1>7, <2>1 DEF Claim, Claimable, Open, HeldInv, HeldIsOwned, LapsedIsFree, Held
    <2>2. SeenIsCurrent'
      <3> SUFFICES ASSUME NEW v \in Workers, NEW e \in Events, e \in batch'[v], ~Taken(e)
                   PROVE  seen'[v][e] = attempts'[e]
        BY <1>7 DEF Claim
      <3>1. CASE v = w
        BY <1>7, <3>1 DEF Claim
      <3>2. CASE v # w
        <4>1. e \in batch[v] /\ seen'[v] = seen[v]
          BY <1>7, <3>2 DEF Claim
        <4> QED
          BY <1>7, <2>1, <3>2, <4>1 DEF Claim
      <3> QED
        BY <3>1, <3>2
    <2>3. RetryBudget'
      BY <1>7 DEF Claim
    <2> QED
      BY <2>2, <2>3
  <1>8. ASSUME NEW w \in Workers, NEW e \in Events, Deliver(w, e)
        PROVE  BudgetInv'
    BY <1>8 DEF Deliver, row
  <1>9. ASSUME NEW w \in Workers, NEW e \in Events, Commit(w, e)
        PROVE  BudgetInv'
    <2>1. SeenIsCurrent'
      <3> SUFFICES ASSUME NEW v \in Workers, NEW f \in Events, f \in batch'[v], ~Taken(f)
                   PROVE  seen'[v][f] = attempts'[f]
        BY <1>9 DEF Commit
      <3>1. f \in batch[v] /\ ~(v = w /\ f = e)
        BY <1>9 DEF Commit
      <3>2. seen'[v][f] = seen[v][f]
        BY <1>9, <3>1 DEF Commit
      <3> QED
        BY <1>9, <3>1, <3>2 DEF Commit
    <2>2. RetryBudget'
      <3> SUFFICES ASSUME NEW f \in Events, status'[f] = "RETRYING", ~Taken(f)
                   PROVE  attempts'[f] < MaxAttempts
        BY <1>9 DEF Commit
      <3>1. CASE f # e
        BY <1>9, <3>1 DEF Commit
      <3>2. CASE f = e
        <4>1. Verdict(w, e) = "RETRYING"
          BY <1>9, <3>2 DEF Commit
        <4>2. seen[w][e] < MaxAttempts
          BY <4>1, RetryingFacts
        <4> QED
          BY <1>9, <3>2, <4>2 DEF Commit
      <3> QED
        BY <3>1, <3>2
    <2> QED
      BY <2>1, <2>2
  <1>10. ASSUME NEW w \in Workers, Crash(w) PROVE BudgetInv'
    BY <1>10 DEF Crash, row
  <1>11. CASE UNCHANGED vars
    BY <1>11 DEF vars
  <1> QED
    BY <1>1, <1>2, <1>3, <1>4, <1>5, <1>6, <1>7, <1>8, <1>9, <1>10, <1>11
       DEF Next, PublishOutbox

\* An event that waits for another attempt has had fewer than MAX_ATTEMPTS, from
\* the count that the claiming worker remembers, however workers crash.
THEOREM BudgetIsKept == Spec => []RetryBudget
  <1>1. TypeOK /\ HeldInv /\ BudgetInv /\ [Next]_vars => HeldInv' /\ BudgetInv'
    BY HeldNext, BudgetNext
  <1>2. BudgetInv => RetryBudget
    BY DEF BudgetInv
  <1> QED
    BY <1>1, <1>2, TypeInit, TypeNext, HeldInit, BudgetInit, PTL DEF Spec

\* What the worker that commits a submission's event has read: not DELIVERED, while
\* it owns the row; and if it did, it is so still, unless the row was parked.
ReadKnows ==
    \A w \in Workers, e \in Events :
        pc[w] = "commit" /\ First(w, e) /\ Kind[e] = "submission" =>
            /\ outcome[w] # "unconfigured"
            /\ read[w] = "DELIVERED" =>
                 Taken(e) /\ (e \in withdrawn \/ downstream[e] = "DELIVERED")

\* Only Park makes a held submission wait for configuration.
HeldIsConfigured ==
    \A w \in Workers, e \in Events :
        e \in batch[w] /\ Kind[e] = "submission" /\ e \notin withdrawn
            => status[e] # "PENDING_CONFIGURATION"

AgreesInv == ReadKnows /\ HeldIsConfigured /\ DownstreamAgrees

LEMMA AgreesInit == Init => AgreesInv
  BY DEF Init, AgreesInv, ReadKnows, HeldIsConfigured, DownstreamAgrees, DownstreamStatus

LEMMA AgreesNext ==
    ASSUME TypeOK, HeldInv, AgreesInv, [Next]_vars
    PROVE  AgreesInv'
  <1> USE DEF TypeOK, AgreesInv, ReadKnows, HeldIsConfigured, DownstreamAgrees, First, Taken
  <1>1. ASSUME NEW e \in Events, Publish(e) PROVE AgreesInv'
    <2>1. PICK s \in {"PENDING", "PENDING_CONFIGURATION"} :
             /\ status' = [status EXCEPT ![e] = s]
             /\ downstream' = [downstream EXCEPT ![e] =
                   IF Kind[e] = "submission" THEN s ELSE NULL]
      BY <1>1, InitialFacts DEF Publish
    <2>2. \A w \in Workers : e \notin batch[w]
      BY <1>1 DEF Publish, HeldInv, IdleHoldsNothing
    <2>3. \A f \in Events : f # e => status'[f] = status[f] /\ downstream'[f] = downstream[f]
      BY <2>1
    <2>4. status'[e] = s /\ (Kind[e] = "submission" => downstream'[e] = s)
      BY <2>1
    <2>5. UNCHANGED <<pc, batch, outcome, read, overrun, withdrawn>>
      BY <1>1 DEF Publish, local
    <2>6. DownstreamAgrees'
      BY <2>3, <2>4, <2>5
    <2>7. (ReadKnows /\ HeldIsConfigured)'
      BY <2>2, <2>3, <2>5
    <2> QED
      BY <2>6, <2>7
  <1>2. ASSUME NEW e \in Events, Retry(e) PROVE AgreesInv'
    BY <1>2 DEF Retry, Retriable, local
  <1>3. ASSUME NEW e \in Events, BackoffElapses(e) PROVE AgreesInv'
    BY <1>3 DEF BackoffElapses, local
  <1>4. ASSUME NEW e \in Events, LeaseExpires(e) PROVE AgreesInv'
    BY <1>4 DEF LeaseExpires, local
  <1>5. ASSUME NEW w \in Workers, Activate(w) PROVE AgreesInv'
    BY <1>5 DEF Activate, Parked
  <1>6. ASSUME NEW w \in Workers, Park(w) PROVE AgreesInv'
    <2>1. UNCHANGED <<batch, outcome, read, overrun>> /\ \A v \in Workers : pc'[v] = "commit" => pc[v] = "commit"
      BY <1>6 DEF Park
    <2>2. \A e \in Events : Parkable(e) =>
            /\ status'[e] = "PENDING_CONFIGURATION" /\ downstream'[e] = "PENDING_CONFIGURATION"
            /\ Held(e) => e \in withdrawn'
      BY <1>6 DEF Park
    <2>3. \A e \in Events : ~Parkable(e) => status'[e] = status[e] /\ downstream'[e] = downstream[e]
      BY <1>6 DEF Park
    <2>4. withdrawn \subseteq withdrawn'
      BY <1>6 DEF Park
    <2>5. DownstreamAgrees'
      BY <2>1, <2>2, <2>3, <2>4
    <2>6. HeldIsConfigured'
      BY <2>1, <2>2, <2>3, <2>4 DEF Held
    <2>7. ReadKnows'
      BY <2>1, <2>2, <2>3, <2>4 DEF Held
    <2> QED
      BY <2>5, <2>6, <2>7
  <1>7. ASSUME NEW w \in Workers, NEW S \in SUBSET Events, Claim(w, S) PROVE AgreesInv'
    <2>1. \A e \in S : status[e] # "DELIVERED"
      BY <1>7 DEF Claim, Claimable, Open
    <2>2. DownstreamAgrees'
      BY <1>7, <2>1 DEF Claim
    <2>3. ReadKnows'
      BY <1>7 DEF Claim
    <2>4. HeldIsConfigured'
      <3>1. \A e \in Events : status'[e] = IF e \in S THEN "PROCESSING" ELSE status[e]
        BY <1>7 DEF Claim
      <3>2. \A v \in Workers : batch'[v] = IF v = w THEN S ELSE batch[v]
        BY <1>7 DEF Claim
      <3> QED
        BY <1>7, <3>1, <3>2 DEF Claim
    <2> QED
      BY <2>2, <2>3, <2>4
  <1>8. ASSUME NEW w \in Workers, NEW e \in Events, Deliver(w, e) PROVE AgreesInv'
    <2>1. status[e] = "DELIVERED" => Taken(e)
      BY <1>8 DEF Deliver, HeldInv, HeldIsOwned
    <2>2. PICK o \in PossibleOutcomes(w, e) : outcome' = [outcome EXCEPT ![w] = o]
      BY <1>8 DEF Deliver
    <2>3. Kind[e] = "submission" => o # "unconfigured"
      BY <2>2 DEF PossibleOutcomes
    <2>4. ReadKnows'
      <3> SUFFICES ASSUME NEW v \in Workers, NEW f \in Events, pc'[v] = "commit",
                          First(v, f)', Kind[f] = "submission"
                   PROVE  /\ outcome'[v] # "unconfigured"
                          /\ read'[v] = "DELIVERED" =>
                               Taken(f) /\ (f \in withdrawn \/ downstream[f] = "DELIVERED")
        BY <1>8 DEF Deliver
      <3>1. CASE v = w
        <4>1. f = e
          BY <1>8, <3>1 DEF Deliver
        <4> QED
          BY <1>8, <2>1, <2>2, <2>3, <3>1, <4>1 DEF Deliver
      <3>2. CASE v # w
        BY <1>8, <2>2, <3>2 DEF Deliver
      <3> QED
        BY <3>1, <3>2
    <2> QED
      BY <1>8, <2>4 DEF Deliver, row
  <1>9. ASSUME NEW w \in Workers, NEW e \in Events, Commit(w, e) PROVE AgreesInv'
    <2>1. status[e] = "DELIVERED" => Taken(e)
      BY <1>9 DEF Commit, First, HeldInv, HeldIsOwned
    <2>2. status'[e] = Verdict(w, e) /\ (status'[e] = "DELIVERED" <=> outcome[w] = "ok")
      BY <1>9, VerdictFacts DEF Commit
    <2>3. Kind[e] = "submission" => status'[e] # "PENDING_CONFIGURATION"
      <3> SUFFICES ASSUME Kind[e] = "submission" PROVE Verdict(w, e) # "PENDING_CONFIGURATION"
        BY <2>2
      <3>1. outcome[w] # "unconfigured"
        BY <1>9 DEF Commit
      <3> QED
        BY <3>1 DEF Verdict
    <2>4. downstream'[e] = IF Kind[e] = "submission" /\ outcome[w] = "ok" /\ read[w] # "DELIVERED"
                           THEN "DELIVERED" ELSE downstream[e]
      BY <1>9 DEF Commit
    <2>5. \A f \in Events : f # e => status'[f] = status[f] /\ downstream'[f] = downstream[f]
      BY <1>9 DEF Commit
    <2>6. UNCHANGED <<overrun, withdrawn>>
      BY <1>9 DEF Commit
    <2>7. DownstreamAgrees'
      <3> SUFFICES ASSUME NEW f \in Events, Kind[f] = "submission"
                   PROVE  /\ status'[f] = "DELIVERED" /\ f \notin withdrawn => downstream'[f] = "DELIVERED"
                          /\ downstream'[f] = "DELIVERED" /\ ~Taken(f) => status'[f] = "DELIVERED"
        BY <2>6
      <3>1. CASE f # e
        BY <2>5, <3>1
      <3>2. CASE f = e
        <4>1. outcome[w] = "ok" /\ read[w] = "DELIVERED" /\ e \notin withdrawn => downstream[e] = "DELIVERED"
          BY <1>9, <3>2 DEF Commit
        <4> QED
          BY <2>1, <2>2, <2>4, <3>2, <4>1
      <3> QED
        BY <3>1, <3>2
    <2>8. \A v \in Workers : batch'[v] = IF v = w THEN batch[w] \ {e} ELSE batch[v]
      BY <1>9 DEF Commit
    <2>9. HeldIsConfigured'
      BY <2>3, <2>5, <2>6, <2>8
    <2>10. ReadKnows'
      <3> SUFFICES ASSUME NEW v \in Workers, NEW f \in Events, pc'[v] = "commit",
                          First(v, f)', Kind[f] = "submission"
                   PROVE  /\ outcome'[v] # "unconfigured"
                          /\ read'[v] = "DELIVERED" =>
                               Taken(f) /\ (f \in withdrawn \/ downstream'[f] = "DELIVERED")
        BY <2>6
      <3>1. v # w
        BY <1>9 DEF Commit
      <3>2. pc[v] = "commit" /\ First(v, f) /\ outcome'[v] = outcome[v] /\ read'[v] = read[v]
        BY <1>9, <3>1 DEF Commit
      <3>3. downstream[f] = "DELIVERED" => downstream'[f] = "DELIVERED"
        BY <2>4, <2>5
      <3> QED
        BY <3>2, <3>3
    <2> QED
      BY <2>7, <2>9, <2>10
  <1>10. ASSUME NEW w \in Workers, Crash(w) PROVE AgreesInv'
    BY <1>10 DEF Crash, row
  <1>11. CASE UNCHANGED vars
    BY <1>11 DEF vars
  <1> QED
    BY <1>1, <1>2, <1>3, <1>4, <1>5, <1>6, <1>7, <1>8, <1>9, <1>10, <1>11
       DEF Next, PublishOutbox

\* The submission of a delivered event says so, however many workers wrote it late
\* and whichever of them read what before (_sync_public_submission_status, process).
THEOREM SubmissionAgrees == Spec => []DownstreamAgrees
  <1>1. TypeOK /\ HeldInv /\ AgreesInv /\ [Next]_vars => HeldInv' /\ AgreesInv'
    BY HeldNext, AgreesNext
  <1>2. AgreesInv => DownstreamAgrees
    BY DEF AgreesInv
  <1> QED
    BY <1>1, <1>2, TypeInit, TypeNext, HeldInit, AgreesInit, PTL DEF Spec
=============================================================================
