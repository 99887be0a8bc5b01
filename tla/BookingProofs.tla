--------------------------- MODULE BookingProofs ----------------------------
(***************************************************************************)
(* Proofs about Booking, for any number of holds, professionals and slots. *)
(***************************************************************************)
EXTENDS Booking, FiniteSetTheorems, TLAPS

-----------------------------------------------------------------------------
(* What booking, job and assignment say of each other *)

\* Job.worker_id and the ACTIVE assignment name the same professional.
JobIsAssigned == \A b \in Holds : jworker[b] = assigned[b]

\* What a dispatch transaction has read under the booking's row lock still holds:
\* the booking is open, and whether it has a job, and whose, has not changed.
OpKnows ==
    \A b \in Holds :
        /\ op[b] # "idle" => opworker[b] \in Workers /\ bstatus[b] \in Assignable
        /\ op[b] = "confirm" =>
              /\ opseen[b] = "NONE" <=> jstatus[b] = "NONE"
              /\ opseen[b] # "NONE" => jworker[b] = opworker[b]

RoutesInv == TypeOK /\ JobIsAssigned /\ OpKnows /\ RoutesAgree

-----------------------------------------------------------------------------
(* What holds, conversions and bookings say of each other *)

\* A hold that is being made has no row; one that is being converted is HELD, and if
\* it is for another booking that one is alive.
RequestKnows ==
    \A h \in Holds :
        /\ pc[h] \in {"matched", "counted"} =>
              hstatus[h] = "NONE" /\ hworker[h] \in Workers /\ hstart[h] \in Starts
        /\ pc[h] = "converting" =>
              /\ hstatus[h] = "HELD"
              /\ target[h] \in Holds
              /\ target[h] # h => bstatus[target[h]] \notin {"NONE", "CANCELLED"}

\* A hold carries a booking once it is converted, and then no expiry is on its way,
\* unless the conversion was late.
HoldKnows ==
    \A h \in Holds :
        /\ hstatus[h] # "NONE" => hworker[h] \in Workers /\ hstart[h] \in Starts
        /\ hstatus[h] \in {"NONE", "HELD"} => hbooking[h] = NULL /\ bstatus[h] = "NONE"
        /\ hstatus[h] = "CONVERTED" => hbooking[h] \in Holds /\ bstatus[hbooking[h]] # "NONE"
        /\ hstatus[h] = "CONVERTED" /\ hexpired[h] => h \in late
        /\ expiring[h] => hexpired[h] /\ hstatus[h] # "NONE"
        /\ hstatus[h] = "NONE" => ~hexpired[h]

\* Only a booking that exists is dispatched.
OpIsOpen == \A b \in Holds : op[b] # "idle" => bstatus[b] \in Assignable

BackedInv == TypeOK /\ RequestKnows /\ HoldKnows /\ OpIsOpen /\ BookingIsBacked

-----------------------------------------------------------------------------
(* What the matcher reserves *)

HoldLocks(h, w, s) == pc[h] \in {"matched", "counted"} /\ hworker[h] = w /\ hstart[h] = s
OpLocks(b, w, s) == op[b] # "idle" /\ opworker[b] = w /\ bstart[b] = s

\* A request holds the lock that will reserve the slot (a confirmation is not one:
\* it counts in its own way).
Reserves(h, w, s) == HoldLocks(h, w, s) \/ (op[h] = "assign" /\ OpLocks(h, w, s))
Reserving(w, s) == \E h \in Holds : Reserves(h, w, s)

\* The advisory lock of a slot has one holder.
OneHolder ==
    \A w \in Workers, s \in Starts : \A g, h \in Holds :
        /\ HoldLocks(g, w, s) /\ HoldLocks(h, w, s) => g = h
        /\ OpLocks(g, w, s) /\ OpLocks(h, w, s) => g = h
        /\ ~(HoldLocks(g, w, s) /\ OpLocks(h, w, s))

\* Under the lock there is still room for one more reservation.
RoomUnderLock ==
    \A w \in Workers, s \in Starts :
        /\ Reserved(w, s) <= MaxConcurrent
        /\ Reserving(w, s) => Reserved(w, s) < MaxConcurrent

\* A booking that has a job exists and so do its window and the job's, and whether
\* a booking has a job does not change under a dispatch transaction, nor is there a
\* reschedule of the booking meanwhile.
WindowKnows ==
    \A b \in Holds :
        /\ bstatus[b] # "NONE" => bstart[b] \in Starts
        /\ jstatus[b] # "NONE" => bstatus[b] # "NONE" /\ jstart[b] \in Starts
        /\ op[b] # "idle" => (opseen[b] = "NONE" <=> jstatus[b] = "NONE")
        /\ bstatus[b] = "PROVIDER_ASSIGNED" => jstatus[b] # "NONE"
        /\ op[b] # "idle" => opworker[b] \in Workers
        /\ pc[b] = "converting" /\ target[b] # b => op[target[b]] = "idle"

CapacityInv == RoutesInv /\ BackedInv /\ OneHolder /\ RoomUnderLock /\ WindowKnows
-----------------------------------------------------------------------------
(* Types *)

LEMMA TypeInit == Init => TypeOK
  BY DEF Init, TypeOK

LEMMA TypeNext == TypeOK /\ [Next]_vars => TypeOK'
  <1> SUFFICES ASSUME TypeOK, [Next]_vars PROVE TypeOK'
    OBVIOUS
  <1> USE DEF TypeOK, holds, bookings, jobs, requests, ops, history
  <1>1. ASSUME NEW h \in Holds, NEW w \in Workers, NEW s \in Starts, Match(h, w, s) PROVE TypeOK'
    BY <1>1 DEF Match
  <1>2. ASSUME NEW h \in Holds, CountOwner(h) \/ InsertHold(h) PROVE TypeOK'
    BY <1>2 DEF CountOwner, InsertHold, CapacityHoldStatus
  <1>3. ASSUME NEW h \in Holds, Abort(h) PROVE TypeOK'
    BY <1>3 DEF Abort
  <1>4. ASSUME NEW h \in Holds, HoldExpires(h) PROVE TypeOK'
    <2>1. hexpired' \in [Holds -> BOOLEAN]
      BY <1>4 DEF HoldExpires
    <2> QED
      BY <1>4, <2>1 DEF HoldExpires
  <1>5. ASSUME NEW h \in Holds, ReadExpired(h) \/ WriteExpired(h) \/ Release(h) PROVE TypeOK'
    <2>1. expiring' \in [Holds -> BOOLEAN]
      BY <1>5 DEF ReadExpired, WriteExpired, Release
    <2>2. hstatus' \in [Holds -> {"NONE"} \cup CapacityHoldStatus]
      BY <1>5 DEF ReadExpired, WriteExpired, Release, CapacityHoldStatus
    <2> QED
      BY <1>5, <2>1, <2>2 DEF ReadExpired, WriteExpired, Release
  <1>6. ASSUME NEW h \in Holds, NEW b \in Holds, BeginRequest(h) \/ BeginReschedule(h, b)
        PROVE  TypeOK'
    BY <1>6 DEF BeginRequest, BeginReschedule
  <1>7. ASSUME NEW h \in Holds, CommitRequest(h) PROVE TypeOK'
    BY <1>7 DEF CommitRequest, CapacityHoldStatus, BookingStatus
  <1>8. ASSUME NEW h \in Holds, NEW b \in Holds, CommitReschedule(h, b) PROVE TypeOK'
    <2>1. hstatus' \in [Holds -> {"NONE"} \cup CapacityHoldStatus]
      BY <1>8 DEF CommitReschedule, ReleaseHeldOf, CapacityHoldStatus
    <2> QED
      BY <1>8, <2>1 DEF CommitReschedule, BookingStatus
  <1>9. ASSUME NEW b \in Holds, Cancel(b) PROVE TypeOK'
    <2>1. hstatus' \in [Holds -> {"NONE"} \cup CapacityHoldStatus]
      BY <1>9 DEF Cancel, ReleaseHeldOf, CapacityHoldStatus
    <2> QED
      BY <1>9, <2>1 DEF Cancel, BookingStatus, JobStatus
  <1>10. ASSUME NEW b \in Holds, NEW w \in Workers, BeginAssign(b, w) \/ BeginConfirm(b, w)
         PROVE  TypeOK'
    BY <1>10 DEF BeginAssign, BeginConfirm
  <1>11. ASSUME NEW b \in Holds, CommitAssign(b) PROVE TypeOK'
    BY <1>11 DEF CommitAssign, JobStart, Done, BookingStatus, JobStatus
  <1>12. ASSUME NEW b \in Holds, Unassign(b) PROVE TypeOK'
    BY <1>12 DEF Unassign, BookingStatus, JobStatus
  <1>13. ASSUME NEW b \in Holds, CommitConfirm(b) PROVE TypeOK'
    <2>1. announced' \in [Holds -> BOOLEAN]
      BY <1>13 DEF CommitConfirm
    <2> QED
      BY <1>13, <2>1 DEF CommitConfirm, JobStart, Done, BookingStatus, JobStatus
  <1>14. ASSUME NEW b \in Holds, AbortOp(b) PROVE TypeOK'
    BY <1>14 DEF AbortOp, Done
  <1>15. ASSUME NEW b \in Holds, JobAdvances(b) PROVE TypeOK'
    BY <1>15 DEF JobAdvances
  <1>16. CASE UNCHANGED vars
    BY <1>16 DEF vars
  <1> QED
    BY <1>1, <1>2, <1>3, <1>4, <1>5, <1>6, <1>7, <1>8, <1>9, <1>10, <1>11, <1>12, <1>13, <1>14,
       <1>15, <1>16 DEF Next

-----------------------------------------------------------------------------
(* RoutesAgree *)

LEMMA RoutesInit == Init => RoutesInv
  BY TypeInit DEF Init, RoutesInv, JobIsAssigned, OpKnows, RoutesAgree, AssignmentAgrees,
     NoWorkForCancelled

\* The steps that leave dispatch, jobs and who is assigned alone
HoldStep ==
    /\ UNCHANGED <<bworker, jobs, ops>>
    /\ \A b \in Holds : bstatus'[b] \in {bstatus[b], "PENDING_MANUAL_DISPATCH"}

LEMMA RoutesNext == RoutesInv /\ [Next]_vars => RoutesInv'
  <1> SUFFICES ASSUME RoutesInv, [Next]_vars PROVE RoutesInv'
    OBVIOUS
  <1>a. TypeOK /\ TypeOK' /\ JobIsAssigned /\ OpKnows /\ AssignmentAgrees /\ NoWorkForCancelled
    BY TypeNext DEF RoutesInv, RoutesAgree
  <1>b. JobIsAssigned' /\ OpKnows' /\ AssignmentAgrees' /\ NoWorkForCancelled' => RoutesInv'
    BY <1>a DEF RoutesInv, RoutesAgree
  <1> USE DEF JobIsAssigned, OpKnows, AssignmentAgrees, NoWorkForCancelled
  <1>1. CASE HoldStep
    BY <1>a, <1>b, <1>1 DEF HoldStep, jobs, ops, Assignable
  <1>2. ASSUME NEW h \in Holds,
               \/ \E w \in Workers, s \in Starts : Match(h, w, s)
               \/ CountOwner(h) \/ InsertHold(h) \/ Abort(h)
               \/ HoldExpires(h) \/ ReadExpired(h) \/ WriteExpired(h) \/ Release(h)
               \/ BeginRequest(h) \/ CommitRequest(h)
        PROVE  HoldStep
    BY <1>2, <1>a DEF Match, CountOwner, InsertHold, Abort, HoldExpires, ReadExpired,
       WriteExpired, Release, BeginRequest, CommitRequest, HoldStep, bookings, TypeOK
  <1>3. ASSUME NEW h \in Holds, NEW b \in Holds, BeginReschedule(h, b) PROVE HoldStep
    BY <1>3, <1>a DEF BeginReschedule, HoldStep, bookings
  <1>4. ASSUME NEW h \in Holds, NEW b \in Holds, CommitReschedule(h, b) PROVE RoutesInv'
    BY <1>a, <1>b, <1>4 DEF CommitReschedule, jobs, ops, Assignable, TypeOK
  <1>5. ASSUME NEW b \in Holds, Cancel(b) PROVE RoutesInv'
    <2>1. op[b] = "idle"
      BY <1>5 DEF Cancel, BookingLocked
    <2> QED
      BY <1>a, <1>b, <1>5, <2>1 DEF Cancel, ops, TypeOK
  <1>6. ASSUME NEW b \in Holds, NEW w \in Workers, BeginAssign(b, w) \/ BeginConfirm(b, w)
        PROVE  RoutesInv'
    BY <1>a, <1>b, <1>6 DEF BeginAssign, BeginConfirm, Assignable, bookings, jobs, TypeOK
  <1>7. ASSUME NEW b \in Holds, CommitAssign(b) PROVE RoutesInv'
    BY <1>a, <1>b, <1>7, NullAssumption DEF CommitAssign, Done, TypeOK
  <1>8. ASSUME NEW b \in Holds, Unassign(b) PROVE RoutesInv'
    <2>1. op[b] = "idle"
      BY <1>8 DEF Unassign, BookingLocked
    <2> QED
      BY <1>a, <1>b, <1>8, <2>1 DEF Unassign, ops, TypeOK
  <1>9. ASSUME NEW b \in Holds, CommitConfirm(b) PROVE RoutesInv'
    BY <1>a, <1>b, <1>9, NullAssumption DEF CommitConfirm, Done, TypeOK
  <1>10. ASSUME NEW b \in Holds, AbortOp(b) PROVE RoutesInv'
    BY <1>a, <1>b, <1>10 DEF AbortOp, Done, bookings, jobs, TypeOK
  <1>11. ASSUME NEW b \in Holds, JobAdvances(b) PROVE RoutesInv'
    BY <1>a, <1>b, <1>11 DEF JobAdvances, JobSteps, JobStatus, bookings, ops, TypeOK
  <1>12. CASE UNCHANGED vars
    BY <1>a, <1>b, <1>12 DEF vars
  <1> QED
    BY <1>1, <1>2, <1>3, <1>4, <1>5, <1>6, <1>7, <1>8, <1>9, <1>10, <1>11, <1>12 DEF Next

\* Booking, job and ACTIVE assignment name the same professional, and no work is
\* left for a cancelled booking, whichever of dispatch, operator, customer and
\* technician wrote last.
THEOREM RoutesFit == Spec => []RoutesAgree
  <1>1. RoutesInv => RoutesAgree
    BY DEF RoutesInv
  <1> QED
    BY <1>1, RoutesInit, RoutesNext, PTL DEF Spec
-----------------------------------------------------------------------------
(* BookingIsBacked *)

LEMMA BackedInit == Init => BackedInv
  BY TypeInit DEF Init, BackedInv, RequestKnows, HoldKnows, OpIsOpen, BookingIsBacked

\* The conversion of one hold does not take the backing of a booking away from
\* another: a HELD hold carries no booking, so that none is released with it.
LEMMA NothingReleased == ASSUME HoldKnows, NEW b \in Holds, TypeOK PROVE ReleaseHeldOf(b) = hstatus
  BY NullAssumption DEF HoldKnows, ReleaseHeldOf, TypeOK

\* The hold backs the booking.
Backs(h, b) ==
    /\ hbooking[h] = b
    /\ hstart[h] = bstart[b]
    /\ hstatus[h] = "CONVERTED" \/ (hstatus[h] = "EXPIRED" /\ h \in late)

\* A booking stays backed by a hold that stays what it is.
LEMMA StaysBacked ==
  ASSUME BookingIsBacked,
         NEW b \in Holds,
         bstatus'[b] \notin {"NONE", "CANCELLED"} => bstatus[b] \notin {"NONE", "CANCELLED"},
         \A h \in Holds : Backs(h, b) => Backs(h, b)',
         bstatus'[b] \notin {"NONE", "CANCELLED"}
  PROVE  \E h \in Holds : Backs(h, b)'
  BY DEF BookingIsBacked, Backs

LEMMA BackedNext == BackedInv /\ [Next]_vars => BackedInv'
  <1> SUFFICES ASSUME BackedInv, [Next]_vars PROVE BackedInv'
    OBVIOUS
  <1>a. TypeOK /\ TypeOK' /\ RequestKnows /\ HoldKnows /\ OpIsOpen /\ BookingIsBacked
    BY TypeNext DEF BackedInv
  <1>b. RequestKnows' /\ HoldKnows' /\ OpIsOpen' /\ BookingIsBacked' => BackedInv'
    BY <1>a DEF BackedInv
  \* Steps after which every converted hold and every booking is what it was
  <1> USE DEF history
  <1> DEFINE Aside ==
               /\ bstatus' = bstatus /\ bstart' = bstart /\ late' = late
               /\ \A h \in Holds :
                     hstatus[h] = "CONVERTED" \/ (hstatus[h] = "EXPIRED" /\ h \in late) =>
                     /\ hstatus'[h] = hstatus[h] \/ (hstatus'[h] = "EXPIRED" /\ h \in late)
                     /\ hbooking'[h] = hbooking[h] /\ hstart'[h] = hstart[h]
  <1>c. ASSUME Aside PROVE BookingIsBacked'
    <2>1. \A h, b \in Holds : Backs(h, b) => Backs(h, b)'
      BY <1>c, NullAssumption DEF Backs
    <2>2. \A b \in Holds : bstatus'[b] \notin {"NONE", "CANCELLED"} => \E h \in Holds : Backs(h, b)'
      BY <1>a, <1>c, <2>1, StaysBacked
    <2> QED
      BY <2>2 DEF BookingIsBacked, Backs
  <1>1. ASSUME NEW h \in Holds, NEW w \in Workers, NEW s \in Starts, Match(h, w, s)
        PROVE  BackedInv'
    <2>1. RequestKnows' /\ HoldKnows' /\ OpIsOpen'
      BY <1>a, <1>1 DEF Match, RequestKnows, HoldKnows, OpIsOpen, TypeOK, bookings, ops
    <2>2. Aside
      BY <1>a, <1>1 DEF Match, TypeOK, bookings
    <2> QED
      BY <1>b, <1>c, <2>1, <2>2
  <1>2. ASSUME NEW h \in Holds, CountOwner(h) PROVE BackedInv'
    <2>1. RequestKnows' /\ HoldKnows' /\ OpIsOpen'
      BY <1>a, <1>2 DEF CountOwner, RequestKnows, HoldKnows, OpIsOpen, TypeOK, holds, bookings, ops
    <2>2. Aside
      BY <1>a, <1>2 DEF CountOwner, TypeOK, bookings, holds
    <2> QED
      BY <1>b, <1>c, <2>1, <2>2
  <1>3. ASSUME NEW h \in Holds, InsertHold(h) PROVE BackedInv'
    <2>1. RequestKnows' /\ HoldKnows' /\ OpIsOpen'
      BY <1>a, <1>3 DEF InsertHold, RequestKnows, HoldKnows, OpIsOpen, TypeOK, bookings, ops
    <2>2. Aside
      BY <1>a, <1>3 DEF InsertHold, RequestKnows, TypeOK, bookings
    <2> QED
      BY <1>b, <1>c, <2>1, <2>2
  <1>4. ASSUME NEW h \in Holds, Abort(h) PROVE BackedInv'
    <2>1. RequestKnows' /\ HoldKnows' /\ OpIsOpen'
      BY <1>a, <1>4 DEF Abort, RequestKnows, HoldKnows, OpIsOpen, TypeOK, bookings, ops
    <2>2. Aside
      BY <1>a, <1>4 DEF Abort, TypeOK, bookings
    <2> QED
      BY <1>b, <1>c, <2>1, <2>2
  <1>5. ASSUME NEW h \in Holds, HoldExpires(h) PROVE BackedInv'
    <2>1. RequestKnows' /\ HoldKnows' /\ OpIsOpen'
      BY <1>a, <1>5 DEF HoldExpires, RequestKnows, HoldKnows, OpIsOpen, TypeOK, bookings, requests, ops
    <2>2. Aside
      BY <1>a, <1>5 DEF HoldExpires, TypeOK, bookings
    <2> QED
      BY <1>b, <1>c, <2>1, <2>2
  <1>6. ASSUME NEW h \in Holds, ReadExpired(h) PROVE BackedInv'
    <2>1. RequestKnows' /\ HoldKnows' /\ OpIsOpen'
      BY <1>a, <1>6 DEF ReadExpired, RequestKnows, HoldKnows, OpIsOpen, TypeOK, holds, bookings, ops
    <2>2. Aside
      BY <1>a, <1>6 DEF ReadExpired, TypeOK, bookings, holds
    <2> QED
      BY <1>b, <1>c, <2>1, <2>2
  <1>7. ASSUME NEW h \in Holds, WriteExpired(h) PROVE BackedInv'
    <2>0. hstatus[h] = "CONVERTED" => h \in late
      BY <1>a, <1>7 DEF WriteExpired, HoldKnows
    <2>1. RequestKnows' /\ HoldKnows' /\ OpIsOpen'
      BY <1>a, <1>7 DEF WriteExpired, RequestKnows, HoldKnows, OpIsOpen, TypeOK, bookings, ops
    <2>2. Aside
      BY <1>a, <1>7, <2>0 DEF WriteExpired, TypeOK, bookings
    <2> QED
      BY <1>b, <1>c, <2>1, <2>2
  <1>8. ASSUME NEW h \in Holds, Release(h) PROVE BackedInv'
    <2>1. RequestKnows' /\ HoldKnows' /\ OpIsOpen'
      BY <1>a, <1>8 DEF Release, RequestKnows, HoldKnows, OpIsOpen, TypeOK, bookings, requests, ops
    <2>2. Aside
      BY <1>a, <1>8 DEF Release, TypeOK, bookings
    <2> QED
      BY <1>b, <1>c, <2>1, <2>2
  <1>9. ASSUME NEW h \in Holds, NEW b \in Holds, BeginRequest(h) \/ BeginReschedule(h, b)
        PROVE  BackedInv'
    <2>1. RequestKnows' /\ HoldKnows' /\ OpIsOpen'
      BY <1>a, <1>9 DEF BeginRequest, BeginReschedule, Convertible, RequestKnows, HoldKnows,
            OpIsOpen, TypeOK, holds, bookings, ops
    <2>2. Aside
      BY <1>a, <1>9 DEF BeginRequest, BeginReschedule, TypeOK, bookings, holds
    <2> QED
      BY <1>b, <1>c, <2>1, <2>2
  <1>10. ASSUME NEW h \in Holds, NEW b \in Holds,
                \/ CommitRequest(h) /\ b = h
                \/ CommitReschedule(h, b)
         PROVE  BackedInv'
    <2>1. /\ pc[h] = "converting" /\ target[h] = b /\ hstatus[h] = "HELD"
          /\ hstatus' = [hstatus EXCEPT ![h] = "CONVERTED"]
          /\ hbooking' = [hbooking EXCEPT ![h] = b]
          /\ bstatus' = [bstatus EXCEPT ![b] = "PENDING_MANUAL_DISPATCH"]
          /\ bstart' = [bstart EXCEPT ![b] = hstart[h]]
          /\ late' = IF hexpired[h] THEN late \cup {h} ELSE late
          /\ pc' = [pc EXCEPT ![h] = "idle"]
          /\ target' = [target EXCEPT ![h] = NULL]
          /\ UNCHANGED <<hworker, hstart, hexpired, expiring, ops>>
      BY <1>a, <1>10, NothingReleased DEF CommitRequest, CommitReschedule, RequestKnows
    <2>2. RequestKnows' /\ OpIsOpen'
      BY <1>a, <2>1 DEF RequestKnows, OpIsOpen, Assignable, TypeOK, ops
    <2>3. HoldKnows'
      BY <1>a, <2>1 DEF RequestKnows, HoldKnows, TypeOK
    <2>4. BookingIsBacked'
      <3> SUFFICES ASSUME NEW c \in Holds, bstatus'[c] \notin {"NONE", "CANCELLED"}
                   PROVE  \E g \in Holds : Backs(g, c)'
        BY DEF BookingIsBacked, Backs
      <3>1. CASE c = b
        <4>1. Backs(h, b)'
          BY <1>a, <2>1 DEF TypeOK, Backs
        <4> QED
          BY <3>1, <4>1
      <3>2. CASE c # b
        <4>1. \A g \in Holds : Backs(g, c) => g # h
          BY <2>1 DEF Backs
        <4>2. \A g \in Holds : g # h =>
                 /\ hstatus'[g] = hstatus[g] /\ hbooking'[g] = hbooking[g]
                 /\ hstart'[g] = hstart[g] /\ (g \in late => g \in late')
          BY <1>a, <2>1 DEF TypeOK
        <4>3. bstatus'[c] = bstatus[c] /\ bstart'[c] = bstart[c]
          BY <1>a, <2>1, <3>2 DEF TypeOK
        <4>4. \A g \in Holds : Backs(g, c) => Backs(g, c)'
          BY <4>1, <4>2, <4>3 DEF Backs
        <4> QED
          BY <1>a, <4>3, <4>4, StaysBacked
      <3> QED
        BY <3>1, <3>2
    <2> QED
      BY <1>b, <2>2, <2>3, <2>4
  <1>11. ASSUME NEW b \in Holds, Cancel(b) PROVE BackedInv'
    <2>1. /\ op[b] = "idle"
          /\ hstatus' = hstatus
          /\ bstatus[b] # "NONE"
          /\ bstatus' = [bstatus EXCEPT ![b] = "CANCELLED"]
          /\ \A h \in Holds : pc[h] = "converting" /\ target[h] = b => h = b
          /\ UNCHANGED <<hworker, hstart, hexpired, hbooking, bstart, requests, ops, late>>
      BY <1>a, <1>11, NothingReleased DEF Cancel, BookingLocked
    <2>2. RequestKnows' /\ HoldKnows' /\ OpIsOpen'
      BY <1>a, <2>1 DEF RequestKnows, HoldKnows, OpIsOpen, TypeOK, requests, ops
    <2>3. BookingIsBacked'
      BY <1>a, <2>1 DEF BookingIsBacked, TypeOK
    <2> QED
      BY <1>b, <2>2, <2>3
  <1>12. ASSUME NEW b \in Holds,
                \/ \E w \in Workers : BeginAssign(b, w) \/ BeginConfirm(b, w)
                \/ CommitAssign(b) \/ CommitConfirm(b) \/ AbortOp(b) \/ Unassign(b)
         PROVE  BackedInv'
    <2>1. /\ UNCHANGED <<holds, bstart, requests, late>>
          /\ \A c \in Holds : c # b => bstatus'[c] = bstatus[c] /\ op'[c] = op[c]
          /\ bstatus[b] \notin {"NONE", "CANCELLED"} /\ bstatus'[b] \notin {"NONE", "CANCELLED"}
          /\ op'[b] # "idle" => bstatus'[b] \in Assignable
      BY <1>a, <1>12 DEF BeginAssign, BeginConfirm, CommitAssign, CommitConfirm, AbortOp,
         Unassign, BookingLocked, Done, OpIsOpen, Assignable, TypeOK, bookings, ops
    <2>2. RequestKnows' /\ HoldKnows' /\ OpIsOpen'
      BY <1>a, <2>1 DEF RequestKnows, HoldKnows, OpIsOpen, holds, requests
    <2>3. BookingIsBacked'
      BY <1>a, <2>1 DEF BookingIsBacked, holds
    <2> QED
      BY <1>b, <2>2, <2>3
  <1>13. CASE (\E b \in Holds : JobAdvances(b)) \/ UNCHANGED vars
    <2>1. UNCHANGED <<holds, bookings, requests, ops, late>>
      BY <1>13 DEF JobAdvances, vars, holds, bookings, requests, ops
    <2>2. RequestKnows' /\ HoldKnows' /\ OpIsOpen'
      BY <1>a, <2>1 DEF RequestKnows, HoldKnows, OpIsOpen, holds, bookings, requests, ops
    <2>3. BookingIsBacked'
      BY <1>a, <2>1 DEF BookingIsBacked, holds, bookings
    <2> QED
      BY <1>b, <2>2, <2>3
  <1> QED
    BY <1>1, <1>2, <1>3, <1>4, <1>5, <1>6, <1>7, <1>8, <1>9, <1>10, <1>11, <1>12, <1>13 DEF Next

\* A live booking keeps the hold that was converted for the very window it shows,
\* however conversions, releases, expiries, reschedules and stale reads interleave.
THEOREM BookingStaysBacked == Spec => []BookingIsBacked
  <1>1. BackedInv => BookingIsBacked
    BY DEF BackedInv
  <1> QED
    BY <1>1, BackedInit, BackedNext, PTL DEF Spec
-----------------------------------------------------------------------------
(* SlotIsBounded *)

\* The sets that are counted are finite.
LEMMA CountsAreNatural ==
  ASSUME NEW w, NEW s
  PROVE  /\ IsFiniteSet(JobsAt(w, s)) /\ IsFiniteSet(HoldsAt(w, s))
         /\ Cardinality(JobsAt(w, s)) \in Nat /\ Cardinality(HoldsAt(w, s)) \in Nat
  <1>1. JobsAt(w, s) \subseteq Holds /\ HoldsAt(w, s) \subseteq Holds
    BY DEF JobsAt, JobsOf, HoldsAt, HoldsOf
  <1>2. IsFiniteSet(JobsAt(w, s)) /\ IsFiniteSet(HoldsAt(w, s))
    BY <1>1, FiniteAssumption, FS_Subset
  <1> QED
    BY <1>2, FS_CardinalityType

LEMMA CountsAreNaturalNext ==
  ASSUME NEW w, NEW s
  PROVE  /\ IsFiniteSet(JobsAt(w, s)') /\ IsFiniteSet(HoldsAt(w, s)')
         /\ Cardinality(JobsAt(w, s)') \in Nat /\ Cardinality(HoldsAt(w, s)') \in Nat
  <1>1. JobsAt(w, s)' \subseteq Holds /\ HoldsAt(w, s)' \subseteq Holds
    BY DEF JobsAt, JobsOf, HoldsAt, HoldsOf
  <1>2. IsFiniteSet(JobsAt(w, s)') /\ IsFiniteSet(HoldsAt(w, s)')
    BY <1>1, FiniteAssumption, FS_Subset
  <1> QED
    BY <1>2, FS_CardinalityType

\* What is reserved for a slot overlaps it.
LEMMA ReservedOverlaps ==
  ASSUME NEW w \in Workers, NEW s \in Starts, Overlaps(w, s) < MaxConcurrent
  PROVE  Reserved(w, s) < MaxConcurrent
  <1> DEFINE J == {b \in JobsOf(w) : Overlap(jstart[b], s)}
             H == {h \in HoldsOf(w) : Overlap(hstart[h], s)}
  <1>1. JobsAt(w, s) \subseteq J /\ HoldsAt(w, s) \subseteq H
    BY TimeAssumption DEF JobsAt, HoldsAt, Overlap
  <1>2. IsFiniteSet(J) /\ IsFiniteSet(H)
    <2>1. J \subseteq Holds /\ H \subseteq Holds
      BY DEF JobsOf, HoldsOf
    <2> QED
      BY <2>1, FiniteAssumption, FS_Subset
  <1>3. Overlaps(w, s) = Cardinality(J) + Cardinality(H)
    BY DEF Overlaps
  <1> HIDE DEF J, H
  <1>4. Cardinality(J) \in Nat /\ Cardinality(H) \in Nat
    BY <1>2, FS_CardinalityType
  <1>5. Cardinality(JobsAt(w, s)) <= Cardinality(J) /\ Cardinality(HoldsAt(w, s)) <= Cardinality(H)
    BY <1>1, <1>2, FS_Subset
  <1> QED
    BY <1>3, <1>4, <1>5, CountsAreNatural, LimitAssumption DEF Reserved

\* A step that adds no reservation to a slot
LEMMA NoMoreReserved ==
  ASSUME NEW w, NEW s, JobsAt(w, s)' \subseteq JobsAt(w, s), HoldsAt(w, s)' \subseteq HoldsAt(w, s)
  PROVE  Reserved(w, s)' <= Reserved(w, s)
  <1>1. /\ Cardinality(JobsAt(w, s)') <= Cardinality(JobsAt(w, s))
        /\ Cardinality(HoldsAt(w, s)') <= Cardinality(HoldsAt(w, s))
    BY CountsAreNatural, FS_Subset
  <1> QED
    BY <1>1, CountsAreNatural, CountsAreNaturalNext DEF Reserved

\* A subset of a finite set and one element more
LEMMA AddsOne ==
  ASSUME NEW S, NEW T, NEW x, IsFiniteSet(S), T \subseteq S \cup {x}
  PROVE  Cardinality(T) <= Cardinality(S) + 1
  <1>1. Cardinality(S) \in Nat
    BY FS_CardinalityType
  <1>2. /\ IsFiniteSet(S \cup {x})
        /\ Cardinality(S \cup {x}) = IF x \in S THEN Cardinality(S) ELSE Cardinality(S) + 1
    BY FS_AddElement
  <1>3. IsFiniteSet(T) /\ Cardinality(T) <= Cardinality(S \cup {x})
    BY <1>2, FS_Subset
  <1>4. Cardinality(T) \in Nat
    BY <1>3, FS_CardinalityType
  <1> QED
    BY <1>1, <1>2, <1>3, <1>4

\* A step that adds at most one
LEMMA OneMoreReserved ==
  ASSUME NEW w, NEW s, NEW x,
         \/ /\ JobsAt(w, s)' \subseteq JobsAt(w, s) \cup {x}
            /\ HoldsAt(w, s)' \subseteq HoldsAt(w, s)
         \/ /\ JobsAt(w, s)' \subseteq JobsAt(w, s)
            /\ HoldsAt(w, s)' \subseteq HoldsAt(w, s) \cup {x}
  PROVE  Reserved(w, s)' <= Reserved(w, s) + 1
  <1> DEFINE J == JobsAt(w, s)
             H == HoldsAt(w, s)
             K == JobsAt(w, s)'
             G == HoldsAt(w, s)'
  <1>1. IsFiniteSet(J) /\ IsFiniteSet(H) /\ IsFiniteSet(K) /\ IsFiniteSet(G)
    BY CountsAreNatural, CountsAreNaturalNext
  <1>2. (K \subseteq J \cup {x} /\ G \subseteq H) \/ (K \subseteq J /\ G \subseteq H \cup {x})
    OBVIOUS
  <1>3. Reserved(w, s) = Cardinality(J) + Cardinality(H)
    BY DEF Reserved
  <1>4. Reserved(w, s)' = Cardinality(K) + Cardinality(G)
    BY DEF Reserved
  <1> HIDE DEF J, H, K, G
  <1>5. /\ Cardinality(J) \in Nat /\ Cardinality(H) \in Nat
        /\ Cardinality(K) \in Nat /\ Cardinality(G) \in Nat
    BY <1>1, FS_CardinalityType
  <1>6. CASE K \subseteq J \cup {x} /\ G \subseteq H
    <2>1. Cardinality(K) <= Cardinality(J) + 1
      BY <1>1, <1>5, <1>6, AddsOne
    <2>2. Cardinality(G) <= Cardinality(H)
      BY <1>1, <1>6, FS_Subset
    <2> QED
      BY <1>3, <1>4, <1>5, <2>1, <2>2
  <1>7. CASE K \subseteq J /\ G \subseteq H \cup {x}
    <2>1. Cardinality(G) <= Cardinality(H) + 1
      BY <1>1, <1>5, <1>7, AddsOne
    <2>2. Cardinality(K) <= Cardinality(J)
      BY <1>1, <1>7, FS_Subset
    <2> QED
      BY <1>3, <1>4, <1>5, <2>1, <2>2
  <1> QED
    BY <1>2, <1>6, <1>7

\* A step that adds no reservation and takes no lock leaves room where there was.
LEMMA RoomStays ==
  ASSUME RoomUnderLock,
         NEW w \in Workers, NEW s \in Starts,
         JobsAt(w, s)' \subseteq JobsAt(w, s), HoldsAt(w, s)' \subseteq HoldsAt(w, s),
         Reserving(w, s)' => Reserving(w, s) \/ Reserved(w, s) < MaxConcurrent
  PROVE  /\ Reserved(w, s)' <= MaxConcurrent
         /\ Reserving(w, s)' => Reserved(w, s)' < MaxConcurrent
  <1>1. Reserved(w, s)' <= Reserved(w, s)
    BY NoMoreReserved
  <1>2. Reserved(w, s) \in Nat /\ Reserved(w, s)' \in Nat
    BY CountsAreNatural, CountsAreNaturalNext DEF Reserved
  <1>3. /\ Reserved(w, s) <= MaxConcurrent
        /\ Reserving(w, s)' => Reserved(w, s) < MaxConcurrent
    BY DEF RoomUnderLock
  <1> QED
    BY <1>1, <1>2, <1>3, LimitAssumption

\* A step that ends the only lock of a slot with one reservation more
LEMMA RoomIsUsed ==
  ASSUME RoomUnderLock,
         NEW w \in Workers, NEW s \in Starts, NEW x,
         \/ /\ JobsAt(w, s)' \subseteq JobsAt(w, s) \cup {x}
            /\ HoldsAt(w, s)' \subseteq HoldsAt(w, s)
         \/ /\ JobsAt(w, s)' \subseteq JobsAt(w, s)
            /\ HoldsAt(w, s)' \subseteq HoldsAt(w, s) \cup {x},
         Reserving(w, s), ~Reserving(w, s)'
  PROVE  /\ Reserved(w, s)' <= MaxConcurrent
         /\ Reserving(w, s)' => Reserved(w, s)' < MaxConcurrent
  <1>1. Reserved(w, s)' <= Reserved(w, s) + 1
    BY OneMoreReserved
  <1>2. Reserved(w, s) \in Nat /\ Reserved(w, s)' \in Nat
    BY CountsAreNatural, CountsAreNaturalNext DEF Reserved
  <1>3. Reserved(w, s) < MaxConcurrent
    BY DEF RoomUnderLock
  <1> QED
    BY <1>1, <1>2, <1>3, LimitAssumption

LEMMA CapacityInit == Init => CapacityInv
  <1> SUFFICES ASSUME Init PROVE CapacityInv
    OBVIOUS
  <1>1. OneHolder /\ WindowKnows
    BY DEF Init, OneHolder, HoldLocks, OpLocks, WindowKnows
  <1>2. ASSUME NEW w, NEW s PROVE JobsAt(w, s) = {} /\ HoldsAt(w, s) = {}
    BY DEF Init, JobsAt, JobsOf, HoldsAt, HoldsOf, Consumes
  <1>3. ASSUME NEW w, NEW s PROVE Reserved(w, s) = 0 /\ ~Reserving(w, s)
    BY <1>2, FS_EmptySet DEF Reserved, Reserving, Reserves, HoldLocks, OpLocks, Init
  <1>4. RoomUnderLock
    BY <1>3, LimitAssumption DEF RoomUnderLock
  <1> QED
    BY <1>1, <1>4, BackedInit, RoutesInit DEF CapacityInv

LEMMA CapacityNext == CapacityInv /\ [Next]_vars => CapacityInv'
  <1> SUFFICES ASSUME CapacityInv, [Next]_vars PROVE CapacityInv'
    OBVIOUS
  <1>a. /\ BackedInv /\ OneHolder /\ RoomUnderLock /\ WindowKnows
        /\ TypeOK /\ RequestKnows /\ HoldKnows /\ OpIsOpen
    BY DEF CapacityInv, BackedInv
  <1>b. RoutesInv' /\ BackedInv' /\ TypeOK'
    BY <1>a, BackedNext, RoutesNext DEF BackedInv, CapacityInv
  <1> DEFINE NoMore(w, s) == /\ JobsAt(w, s)' \subseteq JobsAt(w, s)
                             /\ HoldsAt(w, s)' \subseteq HoldsAt(w, s)
             Safe(w, s) == /\ Reserved(w, s)' <= MaxConcurrent
                           /\ Reserving(w, s)' => Reserved(w, s)' < MaxConcurrent
  <1>c. ASSUME OneHolder', WindowKnows', \A w \in Workers, s \in Starts : Safe(w, s)
        PROVE  CapacityInv'
    BY <1>b, <1>c DEF CapacityInv, RoomUnderLock
  <1>d. ASSUME NEW w \in Workers, NEW s \in Starts, NoMore(w, s),
               Reserving(w, s)' => Reserving(w, s) \/ Reserved(w, s) < MaxConcurrent
        PROVE  Safe(w, s)
    BY <1>a, <1>d, RoomStays
  <1>e. ASSUME NEW w \in Workers, NEW s \in Starts
        PROVE  SlotLocked(w, s) <=> \E h \in Holds : HoldLocks(h, w, s) \/ OpLocks(h, w, s)
    BY DEF SlotLocked, HoldLocks, OpLocks
  \* Steps that take no lock and reserve nothing
  <1> DEFINE Frees == \A w \in Workers, s \in Starts :
                         /\ NoMore(w, s)
                         /\ \A h \in Holds : /\ HoldLocks(h, w, s)' => HoldLocks(h, w, s)
                                             /\ OpLocks(h, w, s)' => OpLocks(h, w, s)
                                             /\ Reserves(h, w, s)' => Reserves(h, w, s)
  <1>g. ASSUME Frees, WindowKnows' PROVE CapacityInv'
    <2>1. OneHolder'
      BY <1>a, <1>g DEF OneHolder
    <2>2. ASSUME NEW w \in Workers, NEW s \in Starts PROVE Safe(w, s)
      BY <1>d, <1>g, <2>2 DEF Reserving
    <2> QED
      BY <1>c, <1>g, <2>1, <2>2
  <1> HIDE DEF Safe
  <1> USE DEF JobsAt, JobsOf, HoldsAt, HoldsOf, history
  <1>1. ASSUME NEW h \in Holds, NEW w \in Workers, NEW s \in Starts, Match(h, w, s)
        PROVE  CapacityInv'
    <2>1. /\ pc[h] = "idle" /\ hstatus[h] = "NONE" /\ ~SlotLocked(w, s)
          /\ Reserved(w, s) < MaxConcurrent
          /\ pc' = [pc EXCEPT ![h] = "matched"]
          /\ hworker' = [hworker EXCEPT ![h] = w]
          /\ hstart' = [hstart EXCEPT ![h] = s]
          /\ UNCHANGED <<hstatus, hexpired, hbooking, bookings, jobs, target, expiring, ops, history>>
      BY <1>a, <1>1, ReservedOverlaps DEF Match, Available
    <2>2. WindowKnows'
      BY <1>a, <2>1 DEF WindowKnows, bookings, jobs, ops, TypeOK
    <2>3. ASSUME NEW v \in Workers, NEW t \in Starts PROVE NoMore(v, t)
      BY <1>a, <2>1 DEF Consumes, bookings, jobs, TypeOK
    <2>4. ASSUME NEW v \in Workers, NEW t \in Starts, NEW g \in Holds
          PROVE  /\ HoldLocks(g, v, t)' => HoldLocks(g, v, t) \/ (g = h /\ v = w /\ t = s)
                 /\ OpLocks(g, v, t)' <=> OpLocks(g, v, t)
                 /\ Reserves(g, v, t)' => Reserves(g, v, t) \/ (g = h /\ v = w /\ t = s)
      BY <1>a, <2>1 DEF Reserves, HoldLocks, OpLocks, bookings, ops, TypeOK
    <2>5. OneHolder'
      BY <1>a, <1>e, <2>1, <2>4 DEF OneHolder
    <2>6. ASSUME NEW v \in Workers, NEW t \in Starts PROVE Safe(v, t)
      BY <1>d, <2>1, <2>3, <2>4 DEF Reserving
    <2> QED
      BY <1>c, <2>2, <2>5, <2>6
  <1>2. ASSUME NEW h \in Holds, NEW b \in Holds,
               CountOwner(h) \/ (BeginRequest(h) /\ b = h) \/ BeginReschedule(h, b)
        PROVE  CapacityInv'
    <2>1. /\ UNCHANGED <<holds, bookings, jobs, ops, history>>
          /\ \/ pc[h] = "matched" /\ pc' = [pc EXCEPT ![h] = "counted"] /\ target' = target
             \/ /\ pc' = [pc EXCEPT ![h] = "converting"]
                /\ target' = [target EXCEPT ![h] = b]
                /\ b # h => op[b] = "idle"
      BY <1>2 DEF CountOwner, BeginRequest, BeginReschedule, BookingLocked
    <2>2. WindowKnows'
      <3>1. \A c \in Holds : pc'[c] = "converting" /\ target'[c] # c => op[target'[c]] = "idle"
        BY <1>a, <2>1 DEF WindowKnows, TypeOK
      <3> QED
        BY <1>a, <2>1, <3>1 DEF WindowKnows, holds, bookings, jobs, ops
    <2>3. ASSUME NEW w \in Workers, NEW s \in Starts PROVE NoMore(w, s)
      BY <2>1 DEF Consumes, holds, bookings, jobs
    <2>4. ASSUME NEW w \in Workers, NEW s \in Starts, NEW g \in Holds
          PROVE  /\ HoldLocks(g, w, s)' => HoldLocks(g, w, s)
                 /\ OpLocks(g, w, s)' => OpLocks(g, w, s)
                 /\ Reserves(g, w, s)' => Reserves(g, w, s)
      <3>1. HoldLocks(g, w, s)' => HoldLocks(g, w, s)
        BY <1>a, <2>1 DEF HoldLocks, holds, TypeOK
      <3>2. (OpLocks(g, w, s)' => OpLocks(g, w, s)) /\ op' = op
        BY <2>1 DEF OpLocks, bookings, ops
      <3> QED
        BY <3>1, <3>2 DEF Reserves
    <2>5. Frees
      BY <2>3, <2>4
    <2> QED
      BY <1>g, <2>2, <2>5
  <1>3. ASSUME NEW h \in Holds, InsertHold(h) PROVE CapacityInv'
    <2>0. PICK w \in Workers, s \in Starts : w = hworker[h] /\ s = hstart[h]
      BY <1>a, <1>3 DEF InsertHold, RequestKnows
    <2>1. /\ pc[h] = "counted" /\ hstatus[h] = "NONE" /\ w = hworker[h] /\ s = hstart[h]
          /\ pc' = [pc EXCEPT ![h] = "idle"]
          /\ hstatus' = [hstatus EXCEPT ![h] = "HELD"]
          /\ UNCHANGED <<hworker, hstart, hexpired, hbooking, bookings, jobs, target, ops, history>>
      BY <1>a, <1>3, <2>0 DEF InsertHold, RequestKnows
    <2>2. WindowKnows'
      BY <1>a, <2>1 DEF WindowKnows, bookings, jobs, ops, TypeOK
    <2>3. ASSUME NEW v \in Workers, NEW t \in Starts
          PROVE  /\ JobsAt(v, t)' = JobsAt(v, t)
                 /\ HoldsAt(v, t)' \subseteq HoldsAt(v, t) \cup {h}
                 /\ v # w \/ t # s => NoMore(v, t)
      BY <1>a, <2>1 DEF Consumes, bookings, jobs, TypeOK
    <2>4. ASSUME NEW v \in Workers, NEW t \in Starts, NEW g \in Holds
          PROVE  /\ HoldLocks(g, v, t)' => HoldLocks(g, v, t) /\ g # h
                 /\ OpLocks(g, v, t)' => OpLocks(g, v, t)
                 /\ Reserves(g, v, t)' => (HoldLocks(g, v, t) /\ g # h)
                                           \/ (op[g] = "assign" /\ OpLocks(g, v, t))
      <3>1. HoldLocks(g, v, t)' => HoldLocks(g, v, t) /\ g # h
        BY <1>a, <2>1 DEF HoldLocks, TypeOK
      <3>2. (OpLocks(g, v, t)' => OpLocks(g, v, t)) /\ op' = op
        BY <2>1 DEF OpLocks, bookings, ops
      <3> QED
        BY <3>1, <3>2 DEF Reserves
    <2>5. HoldLocks(h, w, s)
      BY <2>1 DEF HoldLocks
    <2>6. OneHolder'
      BY <1>a, <2>4 DEF OneHolder
    <2>7. Reserving(w, s) /\ ~Reserving(w, s)'
      BY <1>a, <2>4, <2>5 DEF OneHolder, Reserving, Reserves
    <2>8. ASSUME NEW v \in Workers, NEW t \in Starts PROVE Safe(v, t)
      <3>1. CASE v = w /\ t = s
        <4>1. JobsAt(w, s)' \subseteq JobsAt(w, s) /\ HoldsAt(w, s)' \subseteq HoldsAt(w, s) \cup {h}
          BY <2>3
        <4> HIDE DEF JobsAt, HoldsAt, JobsOf, HoldsOf
        <4>2. Safe(w, s)
          BY <1>a, <2>7, <4>1, RoomIsUsed DEF Safe
        <4> QED
          BY <3>1, <4>2
      <3>2. CASE ~(v = w /\ t = s)
        BY <1>d, <2>3, <2>4, <3>2 DEF Reserving, Reserves
      <3> QED
        BY <3>1, <3>2
    <2> QED
      BY <1>c, <2>2, <2>6, <2>8
  <1>4. ASSUME NEW h \in Holds, Abort(h) PROVE CapacityInv'
    <2>1. /\ pc' = [pc EXCEPT ![h] = "idle"]
          /\ target' = [target EXCEPT ![h] = NULL]
          /\ hworker' = [hworker EXCEPT ![h] = IF hstatus[h] = "NONE" THEN NULL ELSE @]
          /\ hstart' = [hstart EXCEPT ![h] = IF hstatus[h] = "NONE" THEN NULL ELSE @]
          /\ UNCHANGED <<hstatus, hexpired, hbooking, bookings, jobs, ops, history>>
      BY <1>4 DEF Abort
    <2>2. WindowKnows'
      BY <1>a, <2>1 DEF WindowKnows, bookings, jobs, ops, TypeOK
    <2>3. Frees
      BY <1>a, <2>1 DEF Reserves, HoldLocks, OpLocks, Consumes, bookings, jobs, ops, TypeOK
    <2> QED
      BY <1>g, <2>2, <2>3
  <1>5. ASSUME NEW h \in Holds, HoldExpires(h) \/ ReadExpired(h) \/ WriteExpired(h) \/ Release(h)
        PROVE  CapacityInv'
    <2>1. /\ \/ hstatus' = hstatus
             \/ hstatus' = [hstatus EXCEPT ![h] = "EXPIRED"]
             \/ hstatus' = [hstatus EXCEPT ![h] = "RELEASED"]
          /\ hexpired' = hexpired \/ hexpired' = [hexpired EXCEPT ![h] = TRUE]
          /\ UNCHANGED <<hworker, hstart, hbooking, bookings, jobs, pc, target, ops, history>>
      BY <1>5 DEF HoldExpires, ReadExpired, WriteExpired, Release, holds, requests
    <2>2. WindowKnows'
      BY <1>a, <2>1 DEF WindowKnows, bookings, jobs, ops, TypeOK
    <2>3. \A g \in Holds : Consumes(g)' => Consumes(g)
      BY <1>a, <2>1 DEF Consumes, bookings, jobs, TypeOK
    <2>4. Frees
      BY <1>a, <2>1, <2>3 DEF Reserves, HoldLocks, OpLocks, bookings, jobs, ops, TypeOK
    <2> QED
      BY <1>g, <2>2, <2>4
  <1>6. ASSUME NEW h \in Holds, NEW b \in Holds,
               (CommitRequest(h) /\ b = h) \/ CommitReschedule(h, b)
        PROVE  CapacityInv'
    <2>1. /\ hstatus[h] = "HELD" /\ hstart[h] \in Starts /\ op[b] = "idle"
          /\ bstatus[b] # "CANCELLED" /\ hbooking[h] = NULL
          /\ b = h => bstatus[b] = "NONE"
          /\ bstatus' = [bstatus EXCEPT ![b] = "PENDING_MANUAL_DISPATCH"]
          /\ bstart' = [bstart EXCEPT ![b] = hstart[h]]
          /\ hstatus' = [hstatus EXCEPT ![h] = "CONVERTED"]
          /\ hbooking' = [hbooking EXCEPT ![h] = b]
          /\ late' = IF hexpired[h] THEN late \cup {h} ELSE late
          /\ pc' = [pc EXCEPT ![h] = "idle"]
          /\ target' = [target EXCEPT ![h] = NULL]
          /\ UNCHANGED <<hworker, hstart, hexpired, jobs, ops, unchecked>>
      BY <1>a, <1>6, NothingReleased DEF CommitRequest, CommitReschedule, RequestKnows, HoldKnows,
         OpIsOpen, WindowKnows, Assignable
    <2>2. WindowKnows'
      BY <1>a, <2>1 DEF WindowKnows, jobs, ops, TypeOK
    <2>3. \A g \in Holds : Consumes(g)' => Consumes(g) \/ (g = h /\ h \in late')
      BY <1>a, <2>1 DEF Consumes, WindowKnows, HoldKnows, jobs, TypeOK
    <2>4. Frees
      BY <1>a, <2>1, <2>3 DEF Reserves, HoldLocks, OpLocks, jobs, ops, TypeOK
    <2> QED
      BY <1>g, <2>2, <2>4
  <1>7. ASSUME NEW b \in Holds, Cancel(b) PROVE CapacityInv'
    <2>1. /\ hstatus' = hstatus
          /\ bstatus[b] # "NONE"
          /\ bstatus' = [bstatus EXCEPT ![b] = "CANCELLED"]
          /\ jstatus' = [jstatus EXCEPT ![b] = IF @ = "NONE" THEN "NONE" ELSE "CANCELLED"]
          /\ op[b] = "idle"
          /\ UNCHANGED <<hworker, hstart, hexpired, hbooking, bstart, jstart, jworker, requests, ops, history>>
      BY <1>a, <1>7, NothingReleased DEF Cancel, BookingLocked
    <2>2. WindowKnows'
      BY <1>a, <2>1 DEF WindowKnows, requests, ops, TypeOK
    <2>3. \A g \in Holds : Consumes(g)' => Consumes(g)
      BY <1>a, <2>1 DEF Consumes, HoldKnows, TypeOK
    <2>4. Frees
      BY <1>a, <2>1, <2>3 DEF Reserves, HoldLocks, OpLocks, requests, ops, TypeOK
    <2> QED
      BY <1>g, <2>2, <2>4
  <1>8. ASSUME NEW b \in Holds, NEW w \in Workers, BeginAssign(b, w) PROVE CapacityInv'
    <2> DEFINE s == bstart[b]
    <2>1. /\ op[b] = "idle" /\ bstatus[b] # "NONE" /\ s \in Starts
          /\ ~SlotLocked(w, s)
          /\ \A h \in Holds : pc[h] = "converting" /\ target[h] = b => h = b
          /\ op' = [op EXCEPT ![b] = "assign"]
          /\ opworker' = [opworker EXCEPT ![b] = w]
          /\ opseen' = [opseen EXCEPT ![b] = jstatus[b]]
          /\ UNCHANGED <<holds, bookings, jobs, requests, history>>
      BY <1>a, <1>8 DEF BeginAssign, BookingLocked, WindowKnows, Assignable
    <2>0. Reserved(w, s) < MaxConcurrent
      BY <1>a, <1>8, <2>1, ReservedOverlaps DEF BeginAssign, Available
    <2>2. WindowKnows'
      BY <1>a, <2>1 DEF WindowKnows, holds, bookings, jobs, requests, TypeOK
    <2>3. ASSUME NEW v \in Workers, NEW t \in Starts PROVE NoMore(v, t)
      BY <2>1 DEF Consumes, holds, bookings, jobs
    <2>4. ASSUME NEW v \in Workers, NEW t \in Starts, NEW g \in Holds
          PROVE  /\ HoldLocks(g, v, t)' <=> HoldLocks(g, v, t)
                 /\ OpLocks(g, v, t)' => OpLocks(g, v, t) \/ (g = b /\ v = w /\ t = s)
                 /\ Reserves(g, v, t)' => Reserves(g, v, t) \/ (g = b /\ v = w /\ t = s)
      BY <1>a, <2>1 DEF Reserves, HoldLocks, OpLocks, holds, bookings, requests, TypeOK
    <2>5. OneHolder'
      BY <1>a, <1>e, <2>1, <2>4 DEF OneHolder
    <2>6. ASSUME NEW v \in Workers, NEW t \in Starts PROVE Safe(v, t)
      BY <1>d, <2>0, <2>1, <2>3, <2>4 DEF Reserving
    <2> QED
      BY <1>c, <2>2, <2>5, <2>6
  <1>15. ASSUME NEW b \in Holds, NEW w \in Workers, BeginConfirm(b, w) PROVE CapacityInv'
    <2> DEFINE s == bstart[b]
    <2>1. /\ op[b] = "idle" /\ bstatus[b] # "NONE" /\ s \in Starts
          /\ ~SlotLocked(w, s)
          /\ \A h \in Holds : pc[h] = "converting" /\ target[h] = b => h = b
          /\ op' = [op EXCEPT ![b] = "confirm"]
          /\ opworker' = [opworker EXCEPT ![b] = w]
          /\ opseen' = [opseen EXCEPT ![b] = jstatus[b]]
          /\ UNCHANGED <<holds, bookings, jobs, requests, history>>
      BY <1>a, <1>15 DEF BeginConfirm, BookingLocked, WindowKnows
    <2>2. WindowKnows'
      BY <1>a, <2>1 DEF WindowKnows, holds, bookings, jobs, requests, TypeOK
    <2>3. ASSUME NEW v \in Workers, NEW t \in Starts PROVE NoMore(v, t)
      BY <2>1 DEF Consumes, holds, bookings, jobs
    <2>4. ASSUME NEW v \in Workers, NEW t \in Starts, NEW g \in Holds
          PROVE  /\ HoldLocks(g, v, t)' <=> HoldLocks(g, v, t)
                 /\ OpLocks(g, v, t)' => OpLocks(g, v, t) \/ (g = b /\ v = w /\ t = s)
                 /\ Reserves(g, v, t)' => Reserves(g, v, t)
      BY <1>a, <2>1 DEF Reserves, HoldLocks, OpLocks, holds, bookings, requests, TypeOK
    <2>5. OneHolder'
      BY <1>a, <1>e, <2>1, <2>4 DEF OneHolder
    <2>6. ASSUME NEW v \in Workers, NEW t \in Starts PROVE Safe(v, t)
      BY <1>d, <2>3, <2>4 DEF Reserving
    <2> QED
      BY <1>c, <2>2, <2>5, <2>6
  <1>9. ASSUME NEW b \in Holds, CommitAssign(b) PROVE CapacityInv'
    <2>0. PICK w \in Workers, s \in Starts : w = opworker[b] /\ s = bstart[b]
      BY <1>a, <1>9 DEF CommitAssign, OpIsOpen, WindowKnows, Assignable
    <2> DEFINE r == JobStart(b)
    <2>1. /\ op[b] = "assign" /\ opworker[b] = w /\ bstart[b] = s /\ r \in Starts
          /\ bstatus[b] # "NONE"
          /\ bstatus' = [bstatus EXCEPT ![b] = "PROVIDER_ASSIGNED"]
          /\ jworker' = [jworker EXCEPT ![b] = w]
          /\ jstatus' = [jstatus EXCEPT ![b] = IF opseen[b] = "ASSIGNED" THEN @ ELSE "ASSIGNED"]
          /\ jstart' = [jstart EXCEPT ![b] = r]
          /\ r # s => b \in unchecked'
          /\ \A c \in Holds : c # b => (c \in unchecked' <=> c \in unchecked)
          /\ Done(b)
          /\ UNCHANGED <<holds, bstart, requests, late>>
      BY <1>a, <1>9, <2>0 DEF CommitAssign, OpIsOpen, WindowKnows, JobStart, Assignable
    <2>2. /\ \A c \in Holds : c # b => /\ jstatus'[c] = jstatus[c] /\ jstart'[c] = jstart[c]
                                       /\ jworker'[c] = jworker[c] /\ bstatus'[c] = bstatus[c]
                                       /\ op'[c] = op[c] /\ opworker'[c] = opworker[c]
                                       /\ opseen'[c] = opseen[c]
          /\ jstatus'[b] # "NONE" /\ jstart'[b] = r /\ jworker'[b] = w /\ op'[b] = "idle"
          /\ bstatus'[b] = "PROVIDER_ASSIGNED"
      BY <1>a, <2>1 DEF TypeOK, Done, WindowKnows
    <2>3. WindowKnows'
      BY <1>a, <2>1, <2>2 DEF WindowKnows, RequestKnows, holds, requests
    <2>4. \A g \in Holds : Consumes(g)' => Consumes(g)
      BY <1>a, <2>1, <2>2 DEF Consumes, WindowKnows, holds
    <2>5. ASSUME NEW v \in Workers, NEW t \in Starts
          PROVE  /\ JobsAt(v, t)' \subseteq JobsAt(v, t) \cup {b}
                 /\ HoldsAt(v, t)' \subseteq HoldsAt(v, t)
                 /\ v # w \/ t # s => NoMore(v, t)
      BY <1>a, <2>1, <2>2, <2>4 DEF holds
    <2>6. ASSUME NEW v \in Workers, NEW t \in Starts, NEW g \in Holds
          PROVE  /\ HoldLocks(g, v, t)' => HoldLocks(g, v, t)
                 /\ OpLocks(g, v, t)' => OpLocks(g, v, t) /\ g # b
                 /\ Reserves(g, v, t)' => HoldLocks(g, v, t)
                                           \/ (op[g] = "assign" /\ OpLocks(g, v, t) /\ g # b)
      <3>1. HoldLocks(g, v, t)' => HoldLocks(g, v, t)
        BY <2>1 DEF HoldLocks, holds, requests
      <3>2. OpLocks(g, v, t)' => OpLocks(g, v, t) /\ g # b /\ op'[g] = op[g]
        BY <2>1, <2>2 DEF OpLocks
      <3> QED
        BY <3>1, <3>2 DEF Reserves
    <2>7. OpLocks(b, w, s) /\ Reserves(b, w, s)
      BY <2>1 DEF OpLocks, Reserves
    <2>8. OneHolder'
      BY <1>a, <2>6 DEF OneHolder
    <2>9. Reserving(w, s) /\ ~Reserving(w, s)'
      BY <1>a, <2>6, <2>7 DEF OneHolder, Reserving, Reserves
    <2>10. ASSUME NEW v \in Workers, NEW t \in Starts PROVE Safe(v, t)
      <3>1. CASE v = w /\ t = s
        <4>1. JobsAt(w, s)' \subseteq JobsAt(w, s) \cup {b} /\ HoldsAt(w, s)' \subseteq HoldsAt(w, s)
          BY <2>5
        <4> HIDE DEF JobsAt, HoldsAt, JobsOf, HoldsOf
        <4>2. Safe(w, s)
          BY <1>a, <2>9, <4>1, RoomIsUsed DEF Safe
        <4> QED
          BY <3>1, <4>2
      <3>2. CASE ~(v = w /\ t = s)
        BY <1>d, <2>5, <2>6, <3>2 DEF Reserving, Reserves
      <3> QED
        BY <3>1, <3>2
    <2> QED
      BY <1>c, <2>3, <2>8, <2>10
  <1>10. ASSUME NEW b \in Holds, Unassign(b) PROVE CapacityInv'
    <2>1. /\ op[b] = "idle" /\ jstatus[b] # "NONE" /\ bstatus[b] = "PROVIDER_ASSIGNED"
          /\ bstatus' = [bstatus EXCEPT ![b] = "REASSIGNMENT_REQUIRED"]
          /\ jworker' = [jworker EXCEPT ![b] = NULL]
          /\ jstatus' = [jstatus EXCEPT ![b] = "MATCHING"]
          /\ UNCHANGED <<holds, bstart, jstart, requests, ops, history>>
      BY <1>a, <1>10 DEF Unassign, BookingLocked, WindowKnows
    <2>2. WindowKnows'
      BY <1>a, <2>1 DEF WindowKnows, holds, requests, ops, TypeOK
    <2>3. \A g \in Holds : Consumes(g)' => Consumes(g)
      BY <1>a, <2>1 DEF Consumes, WindowKnows, holds, TypeOK
    <2>4. Frees
      BY <1>a, <2>1, <2>3, NullAssumption DEF Reserves, HoldLocks, OpLocks, holds, requests, ops, TypeOK
    <2> QED
      BY <1>g, <2>2, <2>4
  <1>11. ASSUME NEW b \in Holds, AbortOp(b) PROVE CapacityInv'
    <2>1. UNCHANGED <<holds, bookings, jobs, requests, history>> /\ Done(b)
      BY <1>11 DEF AbortOp
    <2>2. WindowKnows'
      BY <1>a, <2>1 DEF WindowKnows, Done, holds, bookings, jobs, requests, TypeOK
    <2>3. Frees
      BY <1>a, <2>1 DEF Reserves, HoldLocks, OpLocks, Done, Consumes, holds, bookings, jobs, requests, TypeOK
    <2> QED
      BY <1>g, <2>2, <2>3
  <1>12. ASSUME NEW b \in Holds, JobAdvances(b) PROVE CapacityInv'
    <2>1. PICK s \in JobStatus :
             /\ <<jstatus[b], s>> \in JobSteps
             /\ jstatus' = [jstatus EXCEPT ![b] = s]
             /\ UNCHANGED <<holds, bookings, jstart, jworker, requests, ops, history>>
      BY <1>12 DEF JobAdvances
    <2>2. /\ s # "NONE" /\ jstatus[b] # "NONE"
          /\ s \in {"MATCHING", "ASSIGNED", "UNDERWAY"} =>
                jstatus[b] \in {"MATCHING", "ASSIGNED", "UNDERWAY"}
      BY <2>1 DEF JobSteps
    <2>3. WindowKnows'
      BY <1>a, <2>1, <2>2 DEF WindowKnows, holds, bookings, requests, ops, TypeOK
    <2>4. \A g \in Holds : Consumes(g)' => Consumes(g)
      BY <1>a, <2>1, <2>2 DEF Consumes, WindowKnows, holds, bookings, TypeOK
    <2>5. Frees
      BY <1>a, <2>1, <2>2, <2>4 DEF Reserves, HoldLocks, OpLocks, holds, bookings, requests, ops, TypeOK
    <2> QED
      BY <1>g, <2>3, <2>5
  <1>13. CASE UNCHANGED vars
    <2>1. WindowKnows'
      BY <1>a, <1>13 DEF WindowKnows, vars
    <2>2. Frees
      BY <1>a, <1>13 DEF Reserves, HoldLocks, OpLocks, Consumes, vars
    <2> QED
      BY <1>g, <2>1, <2>2
  <1>14. ASSUME NEW b \in Holds, CommitConfirm(b) PROVE CapacityInv'
    <2>1. /\ op[b] = "confirm" /\ bstatus[b] # "NONE"
          /\ opseen[b] = "NONE" <=> jstatus[b] = "NONE"
          /\ opseen[b] # "NONE" => jworker[b] = opworker[b]
      BY <1>a, <1>14 DEF CommitConfirm, WindowKnows, CapacityInv, RoutesInv, OpKnows, OpIsOpen, Assignable
    <2>2. /\ \A c \in Holds : c # b => /\ jstatus'[c] = jstatus[c] /\ jstart'[c] = jstart[c]
                                       /\ jworker'[c] = jworker[c] /\ bstatus'[c] = bstatus[c]
                                       /\ op'[c] = op[c] /\ opworker'[c] = opworker[c]
                                       /\ opseen'[c] = opseen[c]
                                       /\ (c \in unchecked' <=> c \in unchecked)
          /\ op'[b] = "idle" /\ bstatus'[b] = "CONFIRMED" /\ jstatus'[b] # "NONE"
          /\ jstart'[b] \in Starts
          /\ \/ opseen[b] = "NONE" /\ b \in unchecked'
             \/ /\ jstatus'[b] = jstatus[b] /\ jstart'[b] = jstart[b] /\ jworker'[b] = jworker[b]
                /\ unchecked' = unchecked
          /\ UNCHANGED <<holds, bstart, requests, late>>
      BY <1>a, <1>14, <2>1 DEF CommitConfirm, JobStart, Done, TypeOK, WindowKnows
    <2>3. WindowKnows'
      BY <1>a, <2>1, <2>2 DEF WindowKnows, RequestKnows, holds, requests
    <2>4. \A g \in Holds : Consumes(g)' => Consumes(g)
      BY <1>a, <2>1, <2>2 DEF Consumes, HoldKnows, holds
    <2>5. Frees
      BY <1>a, <2>1, <2>2, <2>4 DEF Reserves, HoldLocks, OpLocks, holds, requests
    <2> QED
      BY <1>g, <2>3, <2>5
  <1> QED
    BY <1>1, <1>2, <1>3, <1>4, <1>5, <1>6, <1>7, <1>8, <1>9, <1>10, <1>11, <1>12, <1>13, <1>14,
       <1>15 DEF Next

\* What the matcher reserves of a professional for a slot never exceeds
\* max_concurrent_jobs: the reading behind the slot lock is still true when the
\* hold or the assignment commits, for any number of sessions, professionals and
\* slots, overlapping ones too, whatever expires meanwhile, and with the operator's
\* confirmations and reschedules in between.
THEOREM LockBoundsSlot == Spec => []SlotIsBounded
  <1>1. CapacityInv => SlotIsBounded
    BY DEF CapacityInv, RoomUnderLock, SlotIsBounded
  <1> QED
    BY <1>1, CapacityInit, CapacityNext, PTL DEF Spec
=============================================================================
