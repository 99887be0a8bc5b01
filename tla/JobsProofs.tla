----------------------------- MODULE JobsProofs -----------------------------
(***************************************************************************)
(* Proofs about Jobs, for any number of professionals, vendors, rounds of  *)
(* offers, work requests and technicians' commands.                        *)
(***************************************************************************)
EXTENDS Jobs, TLAPS

\* The transaction that unassigns has read the assignment that is ACTIVE when it
\* commits: it holds the booking's lock, and nobody else can release or add one.
UnassignKnows == op = "unassign" => opactive # NULL /\ assigned = opactive

\* A booking that says PROVIDER_ASSIGNED has an ACTIVE assignment.
AssignedIsBacked == bstatus = "PROVIDER_ASSIGNED" => assigned # NULL

\* The transaction that assigns is for a professional.
AssignIsForWorker == op = "assign" => opworker # NULL

AssignmentInv == AssignmentAgrees /\ UnassignKnows /\ AssignedIsBacked /\ AssignIsForWorker

LEMMA AssignmentInit == Init => AssignmentInv
  BY JobNullAssumption
     DEF Init, AssignmentInv, AssignmentAgrees, UnassignKnows, AssignedIsBacked,
         AssignIsForWorker

\* The steps that leave assignments and the booking's status alone
Elsewhere == UNCHANGED <<bstatus, jworker, assigned, op, opworker, opactive>>

LEMMA AssignmentNext == AssignmentInv /\ [Next]_vars => AssignmentInv'
  <1> SUFFICES ASSUME AssignmentInv, [Next]_vars PROVE AssignmentInv'
    OBVIOUS
  <1> USE DEF AssignmentInv, AssignmentAgrees, UnassignKnows, AssignedIsBacked,
              AssignIsForWorker
  <1>1. CASE Elsewhere
    BY <1>1 DEF Elsewhere
  <1>2. ASSUME NEW s \in JobStatus, OperationsTransition(s) PROVE Elsewhere
    BY <1>2 DEF OperationsTransition, booking, dispatch, Elsewhere
  <1>3. ASSUME NEW c \in Commands, WriteCommand(c) \/ \E s \in JobStatus : ReadCommand(c, s)
        PROVE  Elsewhere
    BY <1>3 DEF WriteCommand, ReadCommand, booking, job, dispatch, Elsewhere
  <1>4. ASSUME NEW w \in Workers, RecordDiagnostic(w) \/ CompleteWithNotes(w)
        PROVE  Elsewhere
    BY <1>4 DEF RecordDiagnostic, CompleteWithNotes, booking, dispatch, Elsewhere
  <1>5. ASSUME NEW w \in Workers,
               \/ \E v \in Workers, n \in Rounds : BeginDecideOffer(v, n, w)
               \/ \E n \in Rounds : CloseOffer(w, n)
               \/ BeginManualAssign(w)
        PROVE  Elsewhere
    BY <1>5 DEF BeginDecideOffer, CloseOffer, BeginManualAssign, BeginAccept, booking, job,
                dispatch, Elsewhere
  <1>6. ASSUME NEW q \in Requests,
               \/ CreateWorkRequest(q) \/ SettleQuote(q)
               \/ \E b \in BOOLEAN : ReviewWorkRequest(q, b) \/ DecideWorkRequest(q, b)
        PROVE  Elsewhere
    BY <1>6 DEF CreateWorkRequest, SettleQuote, ReviewWorkRequest, DecideWorkRequest,
                booking, dispatch, Elsewhere
  <1>7. ASSUME NEW C \in Candidates, Match(C) PROVE Elsewhere
    BY <1>7 DEF Match, booking, dispatch, Elsewhere
  <1>8. CASE AbortAccept
    BY <1>8 DEF AbortAccept, booking, job, dispatch
  <1>9. ASSUME NEW w \in Workers, BeginAssign(w) PROVE AssignmentInv'
    BY <1>9, JobNullAssumption DEF BeginAssign, BeginDispatch, booking, job
  <1>10. CASE BeginUnassign
    BY <1>10 DEF BeginUnassign, BeginDispatch, booking, job
  <1>11. CASE CommitAccept
    BY <1>11 DEF CommitAccept, JobLocked, dispatch
  <1>12. CASE CommitAssign
    BY <1>12 DEF CommitAssign, EndDispatch
  <1>13. CASE CommitUnassign
    BY <1>13 DEF CommitUnassign, EndDispatch
  <1>14. CASE AbortDispatch
    BY <1>14 DEF AbortDispatch, EndDispatch, booking, job
  <1>15. ASSUME NEW w \in Workers, Confirm(w) PROVE AssignmentInv'
    BY <1>15 DEF Confirm, job, dispatch
  <1>16. CASE CancelBooking \/ RescheduleBooking \/ ExpireBooking
    BY <1>16 DEF CancelBooking, RescheduleBooking, ExpireBooking, job, dispatch
  <1>17. CASE UNCHANGED vars
    BY <1>17 DEF vars
  <1> QED
    BY <1>1, <1>2, <1>3, <1>4, <1>5, <1>6, <1>7, <1>8, <1>9, <1>10, <1>11, <1>12, <1>13,
       <1>14, <1>15, <1>16, <1>17 DEF Next

\* Vendors accept offers under the job's lock and administrators assign and
\* unassign under the booking's; nevertheless the job's worker_id is always the
\* worker of its ACTIVE assignment.
THEOREM OneAssignment == Spec => []AssignmentAgrees
  <1>1. AssignmentInv => AssignmentAgrees
    BY DEF AssignmentInv
  <1> QED
    BY <1>1, AssignmentInit, AssignmentNext, PTL DEF Spec
-----------------------------------------------------------------------------
(* What booking, job, offers and commands say of each other *)

Early == {"CREATED", "MATCHING", "OFFERED"}

\* A job nobody works on yet, or no more, is one of a booking that still waits for
\* its first acceptance, that has expired doing so, or that must be reassigned.
EarlyIsUnassigned ==
    jstatus \in Early =>
        /\ jworker = NULL
        /\ bstatus \in {"PENDING_PROVIDER_CONFIRMATION", "EXPIRED", "REASSIGNMENT_REQUIRED"}

\* Until the first acceptance nobody has been told of one; and as long as the
\* booking waits for it, the job has no professional who could send a command.
BeforeAcceptance ==
    /\ bstatus \in {"PENDING_PROVIDER_CONFIRMATION", "EXPIRED"} /\ jworker = NULL =>
          \A w \in Workers : \A n \in Rounds : offer[w][n] # "ACCEPTED"
    /\ bstatus = "PENDING_PROVIDER_CONFIRMATION" => jworker = NULL

\* The transaction that holds the job's lock keeps what it has read of the job
\* true, and of the booking what matters: only the expiry task may overtake it.
AcceptKnows ==
    accept # NULL =>
        /\ jstatus \in {"MATCHING", "OFFERED"}
        /\ provider = accept
        /\ bstatus \in {"PENDING_PROVIDER_CONFIRMATION", "EXPIRED"}
        /\ bstatus = "PENDING_PROVIDER_CONFIRMATION" => bseen = bstatus

\* What the transaction that holds the booking's lock has read remains true of the
\* booking; of the job it remains true that it has left the early statuses.
DispatchKnows ==
    /\ op # "idle" =>
          bstatus \in {"PENDING_MANUAL_DISPATCH", "REASSIGNMENT_REQUIRED", "PROVIDER_ASSIGNED"}
    /\ op = "unassign" => bstatus = "PROVIDER_ASSIGNED" /\ opwrites
    /\ op = "assign" /\ ~opwrites => jstatus \notin Early

\* A command under way is of a job that has had a professional: its booking is not
\* one that waits for the first acceptance, nor was it cancelled then.
CommandIsOfWork ==
    \A c \in Commands : tech[c] # "NONE" =>
        /\ tech[c] \notin Early \cup {"COMPLETED", "CANCELLED"}
        /\ bstatus \notin {"PENDING_PROVIDER_CONFIRMATION", "CANCELLED"}

\* A vendor has one offer of a round at most, and none of a round to come.
OneOfferPerVendor ==
    \A v, w \in Workers : \A n \in Rounds :
        offer[v][n] # "NONE" =>
            /\ n <= round
            /\ offer[w][n] # "NONE" /\ VendorOf[v] = VendorOf[w] => v = w

ReassignmentHasNoProvider == bstatus = "REASSIGNMENT_REQUIRED" => provider = NULL

RoutesInv ==
    /\ TypeOK
    /\ EarlyIsUnassigned
    /\ BeforeAcceptance
    /\ AcceptKnows
    /\ DispatchKnows
    /\ CommandIsOfWork
    /\ OneOfferPerVendor
    /\ ReassignmentHasNoProvider
    /\ RoutesAgree
\* apply_transition never leads back to the early statuses, nor out of a last one.
LEMMA TransitionFacts ==
  ASSUME TypeOK, NEW s \in JobStatus, MayBecome(s)
  PROVE  /\ jstatus \notin Early => s \notin Early
         /\ jstatus \in {"COMPLETED", "CANCELLED"} => s = jstatus
  BY DEF TypeOK, JobStatus, MayBecome, TRANSITIONS, Early

LEMMA TypeInit == Init => TypeOK
  <1> SUFFICES ASSUME Init PROVE TypeOK
    OBVIOUS
  <1>1. offer \in [Workers -> [Rounds -> {"NONE"} \cup OfferStatus]]
    BY DEF Init
  <1>2. 0 \in 0 .. MaxRounds
    BY RoundAssumption
  <1> QED
    BY <1>1, <1>2 DEF Init, TypeOK, JobStatus, BookingStatus

LEMMA TypeNext == TypeOK /\ [Next]_vars => TypeOK'
  <1> SUFFICES ASSUME TypeOK, [Next]_vars PROVE TypeOK'
    OBVIOUS
  <1> USE DEF TypeOK, booking, job, offers, accepts, dispatch
  <1> USE RoundAssumption, JobNullAssumption
  <1>1. ASSUME NEW s \in JobStatus, NEW notes, Transition(s, notes)
        PROVE  /\ jstatus' \in JobStatus /\ finisher' \in Workers \cup {NULL}
               /\ earning' \in {VendorOf[w] : w \in Workers} \cup {NULL}
    BY <1>1 DEF Transition, Earn, Completable
  <1>2. ASSUME NEW s \in JobStatus, OperationsTransition(s) PROVE TypeOK'
    BY <1>1, <1>2 DEF OperationsTransition
  <1>3. ASSUME NEW c \in Commands, WriteCommand(c) PROVE TypeOK'
    BY <1>3 DEF WriteCommand
  <1>4. ASSUME NEW c \in Commands, NEW s \in JobStatus, ReadCommand(c, s) PROVE TypeOK'
    BY <1>4 DEF ReadCommand
  <1>5. ASSUME NEW w \in Workers, RecordDiagnostic(w) \/ CompleteWithNotes(w) PROVE TypeOK'
    BY <1>1, <1>5 DEF RecordDiagnostic, CompleteWithNotes, JobStatus
  <1>6. ASSUME NEW v \in Workers, NEW w \in Workers, NEW n \in Rounds, BeginDecideOffer(v, n, w)
        PROVE  TypeOK'
    BY <1>6 DEF BeginDecideOffer, BeginAccept, Rounds
  <1>7. ASSUME NEW w \in Workers, NEW n \in Rounds, CloseOffer(w, n) PROVE TypeOK'
    BY <1>7 DEF CloseOffer, OfferStatus
  <1>8. ASSUME NEW w \in Workers, BeginManualAssign(w) PROVE TypeOK'
    BY <1>8 DEF BeginManualAssign, BeginAccept
  <1>9. ASSUME NEW w \in Workers, BeginAssign(w) PROVE TypeOK'
    BY <1>9 DEF BeginAssign, BeginDispatch
  <1>10. ASSUME NEW w \in Workers, Confirm(w) PROVE TypeOK'
    BY <1>10 DEF Confirm, BookingStatus
  <1>11. ASSUME NEW q \in Requests, CreateWorkRequest(q) PROVE TypeOK'
    BY <1>1, <1>11 DEF CreateWorkRequest, WorkRequestStatus, JobStatus
  <1>12. ASSUME NEW q \in Requests, SettleQuote(q) PROVE TypeOK'
    BY <1>12 DEF SettleQuote, WorkRequestStatus, JobStatus
  <1>13. ASSUME NEW q \in Requests, NEW b \in BOOLEAN, ReviewWorkRequest(q, b) PROVE TypeOK'
    BY <1>13 DEF ReviewWorkRequest, WorkRequestStatus, JobStatus
  <1>14. ASSUME NEW q \in Requests, NEW b \in BOOLEAN, DecideWorkRequest(q, b) PROVE TypeOK'
    BY <1>1, <1>14 DEF DecideWorkRequest, WorkRequestStatus, JobStatus
  <1>15. ASSUME NEW C \in Candidates, Match(C) PROVE TypeOK'
    <2>1. round' \in 0 .. MaxRounds /\ jstatus' \in JobStatus
      BY <1>15 DEF Match, JobStatus
    <2>2. offer' \in [Workers -> [Rounds -> {"NONE"} \cup OfferStatus]]
      BY <1>15 DEF Match, OfferStatus
    <2> QED
      BY <1>15, <2>1, <2>2 DEF Match
  <1>16. CASE CommitAccept
    <2>1. offer' \in [Workers -> [Rounds -> {"NONE"} \cup OfferStatus]]
      BY <1>16 DEF CommitAccept, Withdraw, OfferStatus
    <2> QED
      BY <1>16, <2>1 DEF CommitAccept, JobLocked, EndAccept, BookingStatus, JobStatus
  <1>17. CASE AbortAccept
    BY <1>17 DEF AbortAccept, EndAccept
  <1>18. CASE BeginUnassign
    BY <1>18 DEF BeginUnassign, BeginDispatch
  <1>19. CASE CommitAssign \/ CommitUnassign
    <2>1. jstatus' \in JobStatus
      BY <1>19 DEF CommitAssign, CommitUnassign, JobStatus
    <2> QED
      BY <1>19, <2>1 DEF CommitAssign, CommitUnassign, EndDispatch, BookingStatus
  <1>20. CASE AbortDispatch
    BY <1>20 DEF AbortDispatch, EndDispatch
  <1>21. CASE CancelBooking
    BY <1>1, <1>21 DEF CancelBooking, BookingStatus, JobStatus
  <1>22. CASE RescheduleBooking \/ ExpireBooking
    BY <1>22 DEF RescheduleBooking, ExpireBooking, BookingStatus
  <1>23. CASE UNCHANGED vars
    BY <1>23 DEF vars
  <1> QED
    BY <1>2, <1>3, <1>4, <1>5, <1>6, <1>7, <1>8, <1>9, <1>10, <1>11, <1>12, <1>13, <1>14,
       <1>15, <1>16, <1>17, <1>18, <1>19, <1>20, <1>21, <1>22, <1>23 DEF Next
LEMMA RoutesInit == Init => RoutesInv
  <1> SUFFICES ASSUME Init PROVE RoutesInv
    OBVIOUS
  <1>1. \A w \in Workers : \A n \in Rounds : offer[w][n] = "NONE"
    BY DEF Init
  <1>2. RoutesAgree /\ OneOfferPerVendor /\ BeforeAcceptance
    BY <1>1 DEF Init, RoutesAgree, ConfirmedIsServed, NoWorkForCancelled, OneAcceptance,
                OneOfferPerVendor, BeforeAcceptance
  <1>3. EarlyIsUnassigned /\ AcceptKnows /\ DispatchKnows /\ CommandIsOfWork
    BY DEF Init, EarlyIsUnassigned, Early, AcceptKnows, DispatchKnows, CommandIsOfWork
  <1>4. ReassignmentHasNoProvider
    BY DEF Init, ReassignmentHasNoProvider
  <1> QED
    BY <1>2, <1>3, <1>4, TypeInit DEF RoutesInv

\* The steps of the job's own commands: they change its status the way
\* apply_transition allows, and leave the booking, the offers and who works alone.
WorksOn ==
    /\ accept = NULL
    /\ jstatus' \in JobStatus
    /\ jstatus \notin Early => jstatus' \notin Early
    /\ jstatus = "CANCELLED" => jstatus' = "CANCELLED"
    /\ UNCHANGED <<booking, jworker, offers, tech, accepts, dispatch>>

LEMMA WorksOnKeeps == RoutesInv /\ WorksOn => RoutesInv' \/ ~TypeOK'
  BY DEF RoutesInv, WorksOn, booking, offers, accepts, dispatch, EarlyIsUnassigned,
         BeforeAcceptance, AcceptKnows, DispatchKnows, CommandIsOfWork, OneOfferPerVendor,
         ReassignmentHasNoProvider, RoutesAgree, ConfirmedIsServed, NoWorkForCancelled,
         OneAcceptance

LEMMA RoutesNext == AssignmentInv /\ RoutesInv /\ [Next]_vars => RoutesInv'
  <1> SUFFICES ASSUME AssignmentInv, RoutesInv, [Next]_vars PROVE RoutesInv'
    OBVIOUS
  <1>a. TypeOK /\ TypeOK'
    BY TypeNext DEF RoutesInv
  <1> DEFINE Bookings == EarlyIsUnassigned /\ AcceptKnows /\ DispatchKnows
                           /\ ReassignmentHasNoProvider /\ ConfirmedIsServed
             Offers   == BeforeAcceptance /\ OneOfferPerVendor /\ OneAcceptance
             Commanded == CommandIsOfWork /\ NoWorkForCancelled
  <1>b. Bookings /\ Offers /\ Commanded
    BY DEF RoutesInv, RoutesAgree
  <1>c. Bookings' /\ Offers' /\ Commanded' => RoutesInv'
    BY <1>a DEF RoutesInv, RoutesAgree
  <1>1. ASSUME NEW s \in JobStatus, NEW notes, Transition(s, notes), accept = NULL,
               UNCHANGED <<booking, jworker, offers, tech, accepts, dispatch>>
        PROVE  WorksOn
    BY <1>a, <1>1, TransitionFacts DEF Transition, WorksOn
  <1>2. CASE WorksOn
    BY <1>2, <1>a, WorksOnKeeps
  <1>3. ASSUME NEW s \in JobStatus, OperationsTransition(s) PROVE WorksOn
    BY <1>1, <1>3 DEF OperationsTransition, JobLocked
  <1>4. ASSUME NEW w \in Workers, RecordDiagnostic(w) \/ CompleteWithNotes(w) PROVE WorksOn
    BY <1>1, <1>4 DEF RecordDiagnostic, CompleteWithNotes, JobLocked, JobStatus
  <1>5. ASSUME NEW q \in Requests,
               \/ CreateWorkRequest(q) \/ SettleQuote(q)
               \/ \E b \in BOOLEAN : ReviewWorkRequest(q, b) \/ DecideWorkRequest(q, b)
        PROVE  WorksOn
    <2>1. CASE CreateWorkRequest(q)
      BY <1>1, <2>1 DEF CreateWorkRequest, JobLocked, JobStatus
    <2>2. CASE SettleQuote(q) \/ \E b \in BOOLEAN : ReviewWorkRequest(q, b)
      BY <1>a, <2>2 DEF SettleQuote, ReviewWorkRequest, WorksOn, JobLocked, JobStatus, Early, TypeOK
    <2>3. ASSUME NEW b \in BOOLEAN, DecideWorkRequest(q, b) PROVE WorksOn
      <3>1. CASE Transition("IN_PROGRESS", completion)
        BY <1>1, <2>3, <3>1 DEF DecideWorkRequest, JobLocked, JobStatus
      <3>2. CASE UNCHANGED jstatus
        BY <1>a, <2>3, <3>2 DEF DecideWorkRequest, WorksOn, JobLocked, TypeOK
      <3> QED
        BY <2>3, <3>1, <3>2 DEF DecideWorkRequest
    <2> QED
      BY <1>5, <2>1, <2>2, <2>3
  <1>6. ASSUME NEW c \in Commands, WriteCommand(c) PROVE RoutesInv'
    <2>1. jstatus' = tech[c] /\ accept = NULL /\ tech[c] \notin Early
          /\ bstatus \notin {"PENDING_PROVIDER_CONFIRMATION", "CANCELLED"}
          /\ tech' = [tech EXCEPT ![c] = "NONE"]
          /\ UNCHANGED <<booking, jworker, offers, accepts, dispatch>>
      BY <1>6, <1>b DEF WriteCommand, CommandIsOfWork, JobLocked
    <2>2. Bookings'
      BY <1>b, <2>1 DEF EarlyIsUnassigned, AcceptKnows, DispatchKnows,
            ReassignmentHasNoProvider, ConfirmedIsServed, booking, accepts, dispatch
    <2>3. Offers'
      BY <1>b, <2>1 DEF BeforeAcceptance, OneOfferPerVendor, OneAcceptance, booking, offers
    <2>4. Commanded'
      BY <1>a, <1>b, <2>1 DEF CommandIsOfWork, NoWorkForCancelled, booking, TypeOK
    <2> QED
      BY <1>c, <2>2, <2>3, <2>4
  <1>7. ASSUME NEW c \in Commands, NEW s \in JobStatus, ReadCommand(c, s) PROVE RoutesInv'
    <2>1. /\ jworker # NULL
          /\ s \in {"EN_ROUTE", "ON_SITE", "DIAGNOSING", "IN_PROGRESS"}
          /\ s \in TRANSITIONS[jstatus]
          /\ tech' = [tech EXCEPT ![c] = s]
          /\ UNCHANGED <<booking, job, offers, accepts, dispatch>>
      BY <1>7 DEF ReadCommand
    <2>2. jstatus # "CANCELLED"
      BY <2>1 DEF TRANSITIONS
    <2>3. Bookings'
      BY <1>b, <2>1 DEF EarlyIsUnassigned, AcceptKnows, DispatchKnows,
            ReassignmentHasNoProvider, ConfirmedIsServed, booking, job, accepts, dispatch
    <2>4. Offers'
      BY <1>b, <2>1 DEF BeforeAcceptance, OneOfferPerVendor, OneAcceptance, booking, job, offers
    <2>5. Commanded'
      BY <1>a, <1>b, <2>1, <2>2
         DEF CommandIsOfWork, NoWorkForCancelled, BeforeAcceptance, booking, job, TypeOK, Early
    <2> QED
      BY <1>c, <2>3, <2>4, <2>5
  <1>8. ASSUME NEW w \in Workers, NEW n, BeginAccept(w, n) PROVE RoutesInv'
    <2>1. Bookings'
      BY <1>8, <1>b, JobNullAssumption DEF BeginAccept, Acceptable, EarlyIsUnassigned, Early,
            AcceptKnows, DispatchKnows, ReassignmentHasNoProvider, ConfirmedIsServed, booking,
            job, dispatch
    <2>2. Offers' /\ Commanded'
      BY <1>8, <1>b DEF BeginAccept, BeforeAcceptance, OneOfferPerVendor, OneAcceptance,
            CommandIsOfWork, NoWorkForCancelled, booking, job, offers
    <2> QED
      BY <1>c, <2>1, <2>2
  <1>9. ASSUME NEW w \in Workers, NEW n \in Rounds, CloseOffer(w, n) PROVE RoutesInv'
    <2>1. Bookings' /\ Commanded'
      BY <1>9, <1>b DEF CloseOffer, EarlyIsUnassigned, AcceptKnows, DispatchKnows,
            ReassignmentHasNoProvider, ConfirmedIsServed, CommandIsOfWork, NoWorkForCancelled,
            booking, job, accepts, dispatch
    <2>2. \A v \in Workers : \A m \in Rounds :
             /\ offer'[v][m] = "ACCEPTED" => offer[v][m] = "ACCEPTED"
             /\ offer'[v][m] # "NONE" => offer[v][m] # "NONE"
      BY <1>9, <1>a DEF CloseOffer, TypeOK
    <2>3. Offers'
      BY <1>9, <1>b, <2>2 DEF CloseOffer, BeforeAcceptance, OneOfferPerVendor, OneAcceptance,
            booking, job
    <2> QED
      BY <1>c, <2>1, <2>3
  <1>10. ASSUME NEW C \in Candidates, Match(C) PROVE RoutesInv'
    <2>1. jstatus \in Early /\ jstatus' \in Early /\ accept = NULL
          /\ UNCHANGED <<booking, jworker, tech, accepts, dispatch>>
      BY <1>10 DEF Match, Early, JobLocked
    <2>2. Bookings' /\ Commanded'
      BY <1>b, <2>1 DEF EarlyIsUnassigned, AcceptKnows, DispatchKnows, Early,
            ReassignmentHasNoProvider, ConfirmedIsServed, CommandIsOfWork, NoWorkForCancelled,
            booking, accepts, dispatch
    <2>3. CASE C = {}
      BY <1>10, <1>b, <1>c, <2>1, <2>2, <2>3
         DEF Match, offers, BeforeAcceptance, OneOfferPerVendor, OneAcceptance, booking
    <2>4. CASE C # {}
      <3>1. /\ round \in Nat /\ round' = round + 1
            /\ \A w \in Workers : \A n \in Rounds :
                  offer'[w][n] = IF w \in C /\ n = round + 1 THEN "PENDING" ELSE offer[w][n]
        BY <1>10, <1>a, <2>4, RoundAssumption DEF Match, TypeOK
      <3>2. \A v, w \in C : VendorOf[v] = VendorOf[w] => v = w
        BY DEF Candidates
      <3>3. BeforeAcceptance' /\ OneAcceptance'
        BY <1>b, <2>1, <3>1 DEF BeforeAcceptance, OneAcceptance, booking
      <3>4. OneOfferPerVendor'
        <4> SUFFICES ASSUME NEW v \in Workers, NEW w \in Workers, NEW n \in Rounds,
                            offer'[v][n] # "NONE"
                     PROVE  /\ n <= round'
                            /\ offer'[w][n] # "NONE" /\ VendorOf[v] = VendorOf[w] => v = w
          BY DEF OneOfferPerVendor
        <4>1. CASE n = round + 1
          <5>1. offer[v][n] = "NONE" /\ offer[w][n] = "NONE"
            BY <1>b, <3>1, <4>1 DEF OneOfferPerVendor
          <5> QED
            BY <3>1, <3>2, <4>1, <5>1
        <4>2. CASE n # round + 1
          BY <1>b, <3>1, <4>2 DEF OneOfferPerVendor, Rounds
        <4> QED
          BY <4>1, <4>2
      <3> QED
        BY <1>c, <2>2, <3>3, <3>4
    <2> QED
      BY <2>3, <2>4
  <1>11. CASE CommitAccept
    <2>1. /\ jstatus \in Early /\ jworker = NULL /\ accept \in Workers /\ provider = accept
          /\ op = "idle"
          /\ \A w \in Workers : \A n \in Rounds : offer[w][n] # "ACCEPTED"
      BY <1>11, <1>a, <1>b
         DEF CommitAccept, JobLocked, AcceptKnows, EarlyIsUnassigned, DispatchKnows,
             BeforeAcceptance, TypeOK, Early
    <2>2. /\ jworker' = provider' /\ provider' # NULL
          /\ jstatus' = "ASSIGNED" /\ accept' = NULL /\ op' = "idle"
          /\ bstatus' \in {"CONFIRMED", "EXPIRED"}
          /\ tech' = tech
      BY <1>11, <1>b, <2>1, JobNullAssumption
         DEF CommitAccept, JobLocked, AcceptKnows, EndAccept, dispatch
    <2>3. Bookings' /\ Commanded'
      BY <1>b, <2>2 DEF EarlyIsUnassigned, AcceptKnows, DispatchKnows, Early,
            ReassignmentHasNoProvider, ConfirmedIsServed, CommandIsOfWork, NoWorkForCancelled
    <2>4. /\ round' = round
          /\ \A w \in Workers : \A n \in Rounds :
                /\ offer'[w][n] = "NONE" <=> offer[w][n] = "NONE"
                /\ offer'[w][n] = "ACCEPTED" =>
                      /\ offer[w][n] # "NONE"
                      /\ n = viaOffer
                      /\ VendorOf[w] = VendorOf[accept]
      <3>1. round' = round /\ offer' = Withdraw(accept, viaOffer)
        BY <1>11 DEF CommitAccept
      <3> QED
        BY <2>1, <3>1 DEF Withdraw
    <2>5. OneOfferPerVendor'
      BY <1>b, <2>4 DEF OneOfferPerVendor
    <2>6. OneAcceptance'
      BY <1>b, <2>4 DEF OneOfferPerVendor, OneAcceptance
    <2>7. BeforeAcceptance'
      BY <2>2 DEF BeforeAcceptance
    <2> QED
      BY <1>c, <2>3, <2>5, <2>6, <2>7
  <1>12. CASE AbortAccept
    BY <1>12, <1>b, <1>c DEF AbortAccept, EndAccept, EarlyIsUnassigned, AcceptKnows,
       DispatchKnows, ReassignmentHasNoProvider, ConfirmedIsServed, CommandIsOfWork,
       NoWorkForCancelled, BeforeAcceptance, OneOfferPerVendor, OneAcceptance, booking, job,
       offers, dispatch
  <1>13. ASSUME \/ \E w \in Workers : BeginAssign(w)
                \/ BeginUnassign
         PROVE  RoutesInv'
    <2>1. Offers' /\ Commanded'
      BY <1>13, <1>b DEF BeginAssign, BeginUnassign, BeginDispatch, BeforeAcceptance,
            OneOfferPerVendor, OneAcceptance, CommandIsOfWork, NoWorkForCancelled, booking, job,
            offers
    <2>2. EarlyIsUnassigned' /\ AcceptKnows' /\ ReassignmentHasNoProvider' /\ ConfirmedIsServed'
      BY <1>13, <1>b DEF BeginAssign, BeginUnassign, BeginDispatch, EarlyIsUnassigned,
            AcceptKnows, ReassignmentHasNoProvider, ConfirmedIsServed, booking, job, accepts
    <2>3. DispatchKnows'
      <3>1. BeginUnassign => jstatus \notin Early
        BY <1>b DEF BeginUnassign, EarlyIsUnassigned
      <3> QED
        BY <1>13, <3>1 DEF BeginAssign, BeginUnassign, BeginDispatch, DispatchKnows, Early,
              booking, job
    <2> QED
      BY <1>c, <2>1, <2>2, <2>3
  <1>14. CASE CommitAssign
    <2>1. /\ accept = NULL /\ bstatus' = "PROVIDER_ASSIGNED" /\ jworker' = opworker
          /\ opworker # NULL /\ op' = "idle" /\ jstatus' \notin Early
          /\ UNCHANGED <<offers, tech, accepts>>
      BY <1>14, <1>b DEF CommitAssign, JobLocked, EndDispatch, AssignmentInv,
            AssignIsForWorker, DispatchKnows, Early
    <2>2. Bookings' /\ Offers' /\ Commanded'
      BY <1>b, <2>1 DEF EarlyIsUnassigned, AcceptKnows, DispatchKnows, accepts, offers,
            ReassignmentHasNoProvider, ConfirmedIsServed, CommandIsOfWork, NoWorkForCancelled,
            BeforeAcceptance, OneOfferPerVendor, OneAcceptance
    <2> QED
      BY <1>c, <2>2
  <1>15. CASE CommitUnassign
    <2>1. /\ accept = NULL /\ bstatus' = "REASSIGNMENT_REQUIRED" /\ jworker' = NULL
          /\ provider' = NULL /\ op' = "idle"
          /\ UNCHANGED <<offers, tech, accepts>>
      BY <1>15 DEF CommitUnassign, JobLocked, EndDispatch
    <2>2. Bookings' /\ Offers' /\ Commanded'
      BY <1>b, <2>1 DEF EarlyIsUnassigned, AcceptKnows, DispatchKnows, accepts, offers,
            ReassignmentHasNoProvider, ConfirmedIsServed, CommandIsOfWork, NoWorkForCancelled,
            BeforeAcceptance, OneOfferPerVendor, OneAcceptance
    <2> QED
      BY <1>c, <2>2
  <1>16. CASE AbortDispatch
    BY <1>16, <1>b, <1>c DEF AbortDispatch, EndDispatch, EarlyIsUnassigned, AcceptKnows,
       DispatchKnows, ReassignmentHasNoProvider, ConfirmedIsServed, CommandIsOfWork,
       NoWorkForCancelled, BeforeAcceptance, OneOfferPerVendor, OneAcceptance, booking, job,
       offers, accepts
  <1>17. ASSUME NEW w \in Workers, Confirm(w) PROVE RoutesInv'
    BY <1>17, <1>b, <1>c, JobNullAssumption DEF Confirm, BookingLocked, EarlyIsUnassigned,
       AcceptKnows, DispatchKnows, ReassignmentHasNoProvider, ConfirmedIsServed,
       CommandIsOfWork, NoWorkForCancelled, BeforeAcceptance, OneOfferPerVendor, OneAcceptance,
       job, offers, accepts, dispatch
  <1>18. CASE CancelBooking
    <2>1. /\ bstatus = "PENDING_PROVIDER_CONFIRMATION" /\ bstatus' = "CANCELLED"
          /\ jstatus' = "CANCELLED" /\ accept = NULL /\ op = "idle"
          /\ UNCHANGED <<provider, jworker, offers, tech, accepts, dispatch>>
      BY <1>18, <1>b DEF CancelBooking, BookingLocked, JobLocked, Transition, EarlyIsUnassigned,
            Early
    <2>2. Bookings' /\ Offers'
      BY <1>b, <2>1 DEF EarlyIsUnassigned, AcceptKnows, DispatchKnows, accepts, offers,
            dispatch, Early, ReassignmentHasNoProvider, ConfirmedIsServed,
            BeforeAcceptance, OneOfferPerVendor, OneAcceptance
    <2>3. Commanded'
      BY <1>b, <2>1 DEF CommandIsOfWork, NoWorkForCancelled
    <2> QED
      BY <1>c, <2>2, <2>3
  <1>19. CASE RescheduleBooking \/ ExpireBooking
    BY <1>19, <1>b, <1>c DEF RescheduleBooking, ExpireBooking, BookingLocked,
       EarlyIsUnassigned, AcceptKnows, DispatchKnows, ReassignmentHasNoProvider,
       ConfirmedIsServed, CommandIsOfWork, NoWorkForCancelled, BeforeAcceptance,
       OneOfferPerVendor, OneAcceptance, job, offers, accepts, dispatch
  <1>20. CASE UNCHANGED vars
    BY <1>20, <1>b, <1>c DEF vars, EarlyIsUnassigned,
       AcceptKnows, DispatchKnows, ReassignmentHasNoProvider,
       ConfirmedIsServed, CommandIsOfWork, NoWorkForCancelled, BeforeAcceptance,
       OneOfferPerVendor, OneAcceptance
  <1> QED
    BY <1>2, <1>3, <1>4, <1>5, <1>6, <1>7, <1>8, <1>9, <1>10, <1>11, <1>12, <1>13, <1>14,
       <1>15, <1>16, <1>17, <1>18, <1>19, <1>20
       DEF Next, BeginDecideOffer, BeginManualAssign

\* Whichever of the routes of customers, operations, vendors and technicians wrote
\* last, a confirmed booking is served by the professional who holds its slot, a
\* cancelled one leaves no work, and one vendor at most was told of an acceptance:
\* a stale command is never written back to a cancelled booking's job, and the
\* expiry task overtaking an acceptance does not break it.
THEOREM RoutesFit == Spec => []RoutesAgree
  <1>1. RoutesInv => RoutesAgree
    BY DEF RoutesInv
  <1>2. Init => AssignmentInv /\ RoutesInv
    BY AssignmentInit, RoutesInit
  <1>3. AssignmentInv /\ RoutesInv /\ [Next]_vars => (AssignmentInv /\ RoutesInv)'
    BY AssignmentNext, RoutesNext
  <1> QED
    BY <1>1, <1>2, <1>3, PTL DEF Spec
-----------------------------------------------------------------------------
(* The completion *)

\* Notes and earning are never removed, and only apply_transition completes a job: it
\* is then that the earning is the vendor's of the ACTIVE assignment.
LEMMA CompletionNext ==
  AssignmentInv /\ RoutesInv /\ CompletedIsEarned /\ [Next]_vars => CompletedIsEarned'
  <1> SUFFICES ASSUME AssignmentInv, RoutesInv, CompletedIsEarned, [Next]_vars
               PROVE  CompletedIsEarned'
    OBVIOUS
  <1>a. TypeOK
    BY DEF RoutesInv
  <1> DEFINE Kept == /\ jstatus' = "COMPLETED" => jstatus = "COMPLETED"
                     /\ jworker # NULL => jworker' # NULL
                     /\ diagnostic' = diagnostic /\ completion' = completion
                     /\ earning' = earning /\ finisher' = finisher
  <1>1. CASE Kept
    BY <1>1 DEF CompletedIsEarned
  <1>2. ASSUME NEW s \in JobStatus, NEW notes \in BOOLEAN, Transition(s, notes),
               jworker' = jworker, diagnostic => diagnostic', notes => completion',
               completion => completion'
        PROVE  CompletedIsEarned'
    <2>1. CASE s = "COMPLETED" /\ jstatus # "COMPLETED"
      <3>1. jworker \in Workers /\ diagnostic /\ notes /\ assigned = jworker
        BY <1>a, <1>2, <2>1 DEF Transition, Completable, TypeOK, AssignmentInv, AssignmentAgrees
      <3>2. CASE finisher = NULL
        <4>1. earning = NULL
          BY <3>2 DEF CompletedIsEarned
        <4>2. finisher' = jworker /\ earning' = IF PayoutEnabled THEN VendorOf[jworker] ELSE NULL
          BY <1>2, <2>1, <3>1, <3>2, <4>1 DEF Transition, Earn
        <4> QED
          BY <1>2, <3>1, <4>2, JobNullAssumption DEF CompletedIsEarned
      <3>3. CASE finisher # NULL
        <4>1. finisher \in Workers /\ VendorOf[finisher] # NULL
          BY <1>a, <3>3, VendorAssumption DEF TypeOK
        <4>2. finisher' = finisher /\ earning' = earning
          BY <1>2, <2>1, <3>3, <4>1 DEF Transition, Earn, CompletedIsEarned
        <4> QED
          BY <1>2, <3>1, <3>3, <4>2, JobNullAssumption DEF CompletedIsEarned
      <3> QED
        BY <3>2, <3>3
    <2>2. CASE s = "COMPLETED" /\ jstatus = "COMPLETED"
      BY <1>2, <2>2 DEF Transition, CompletedIsEarned
    <2>3. CASE s # "COMPLETED"
      BY <1>2, <2>3 DEF Transition, CompletedIsEarned
    <2> QED
      BY <2>1, <2>2, <2>3
  <1>3. ASSUME NEW s \in JobStatus, OperationsTransition(s) PROVE CompletedIsEarned'
    BY <1>a, <1>2, <1>3 DEF OperationsTransition, TypeOK
  <1>4. ASSUME NEW w \in Workers, RecordDiagnostic(w) PROVE CompletedIsEarned'
    BY <1>a, <1>2, <1>4 DEF RecordDiagnostic, TypeOK, JobStatus
  <1>5. ASSUME NEW w \in Workers, CompleteWithNotes(w) PROVE CompletedIsEarned'
    BY <1>2, <1>5 DEF CompleteWithNotes, JobStatus
  <1>6. ASSUME NEW c \in Commands, WriteCommand(c) \/ \E s \in JobStatus : ReadCommand(c, s)
        PROVE  Kept
    BY <1>6 DEF WriteCommand, ReadCommand, job, RoutesInv, CommandIsOfWork
  <1>7. ASSUME NEW q \in Requests,
               \/ CreateWorkRequest(q) \/ SettleQuote(q)
               \/ \E b \in BOOLEAN : ReviewWorkRequest(q, b) \/ DecideWorkRequest(q, b)
        PROVE  Kept
    BY <1>7 DEF CreateWorkRequest, SettleQuote, ReviewWorkRequest, DecideWorkRequest, Transition
  <1>8. ASSUME NEW w \in Workers,
               \/ \E v \in Workers, n \in Rounds : BeginDecideOffer(v, n, w)
               \/ \E n \in Rounds : CloseOffer(w, n)
               \/ BeginManualAssign(w) \/ BeginAssign(w) \/ Confirm(w)
        PROVE  Kept
    BY <1>8 DEF BeginDecideOffer, CloseOffer, BeginManualAssign, BeginAccept, BeginAssign,
                BeginDispatch, Confirm, job
  <1>9. ASSUME NEW C \in Candidates, Match(C) PROVE Kept
    BY <1>9 DEF Match
  <1>10. CASE CommitAccept
    BY <1>10 DEF CommitAccept, CompletedIsEarned
  <1>11. CASE CommitAssign
    BY <1>1, <1>11 DEF CommitAssign, AssignmentInv, AssignIsForWorker
  <1>12. CASE CommitUnassign
    <2>1. jstatus' = "MATCHING"
      BY <1>12 DEF CommitUnassign, RoutesInv, DispatchKnows
    <2> QED
      BY <1>12, <2>1 DEF CommitUnassign, CompletedIsEarned
  <1>13. CASE AbortAccept \/ BeginUnassign \/ AbortDispatch \/ RescheduleBooking \/ ExpireBooking
    BY <1>1, <1>13 DEF AbortAccept, BeginUnassign, BeginDispatch, AbortDispatch, RescheduleBooking,
                 ExpireBooking, job
  <1>14. CASE CancelBooking
    BY <1>1, <1>14 DEF CancelBooking, Transition
  <1>15. CASE UNCHANGED vars
    BY <1>1, <1>15 DEF vars
  <1> QED
    BY <1>1, <1>3, <1>4, <1>5, <1>6, <1>7, <1>8, <1>9, <1>10, <1>11, <1>12, <1>13, <1>14, <1>15
       DEF Next

\* A job that is completed has a professional and both notes, and the earning is the
\* vendor's whose professional had the ACTIVE assignment at its first completion: no
\* stale command writes that status, an administrator who takes the professional away
\* reopens the job with the same commit, and _record_completion_effects keeps the
\* earning that it finds.
THEOREM CompletionIsEarned == Spec => []CompletedIsEarned
  <1>1. Init => AssignmentInv /\ RoutesInv /\ CompletedIsEarned
    BY AssignmentInit, RoutesInit DEF Init, CompletedIsEarned
  <1>2. AssignmentInv /\ RoutesInv /\ CompletedIsEarned /\ [Next]_vars
          => (AssignmentInv /\ RoutesInv /\ CompletedIsEarned)'
    BY AssignmentNext, RoutesNext, CompletionNext
  <1> QED
    BY <1>1, <1>2, PTL DEF Spec
=============================================================================
