-------------------------- MODULE ProvidersProofs ---------------------------
(***************************************************************************)
(* Proofs about Providers, for any catalogue, organisation and number of   *)
(* requests under way.                                                     *)
(***************************************************************************)
EXTENDS Providers, FiniteSetTheorems, TLAPS

VendorOps == {"edit", "submit", "catalogue"}
CoverageOps == {"coverage", "hours"}
Verdicts == {"APPROVED", "REJECTED", "INFORMATION_REQUESTED"}

Rows == Services \cup Days
RequestRow == [op: {"idle", "decide"} \cup CoverageOps \cup VendorOps,
               item: Items \cup Workers \cup {NULL},
               how: Verdicts \cup {"select", "remove", NULL},
               old: SUBSET Rows, new: SUBSET Rows]

\* What a request remembers has the shape its next step needs.
RequestOK ==
    /\ req \in [Requests -> RequestRow]
    /\ \A r \in Requests:
          /\ At(r, "decide") => req[r].how \in Verdicts
          /\ req[r].op \in CoverageOps => req[r].item \in Workers
          /\ At(r, "catalogue") =>
                /\ req[r].item \in Items
                /\ req[r].how = "remove" => pick[req[r].item] # NULL

\* The row locks of the vendor and of the application exclude each other's holders.
LocksExclude ==
    \A q, r \in Requests:
        /\ req[q].op \in VendorOps /\ req[r].op \in VendorOps => q = r
        /\ At(q, "decide") /\ At(r, "decide") => q = r

\* A decision is about an application that is still pending.
DecidesPending == \A r \in Requests: At(r, "decide") => app # NULL /\ app.status = "PENDING"

\* An application that is edited or submitted exists.
EditsApplication == \A r \in Requests: req[r].op \in {"edit", "submit"} => app # NULL

\* A catalogue change has found no application under review, and while it holds the
\* vendor's row none can be submitted.
ChangesUnreviewed ==
    \A r \in Requests: At(r, "catalogue") =>
        vendor # NULL /\ (app = NULL \/ app.status # "PENDING")

\* What is active while an application is pending is what it was submitted with.
PendingIsSubmitted ==
    app # NULL /\ app.status = "PENDING" => ActiveItems \subseteq submitted

\* A selection that needs approval is approved only if it was reviewed; one that is
\* removed keeps its status.
ApprovedWasReviewed ==
    \A i \in Items \cap NeedsApproval:
        pick[i] # NULL /\ pick[i].status = "APPROVED" => i \in reviewed

\* Registration creates vendor and application together.
ApplicationHasVendor == vendor = NULL => app = NULL

ProvidersInv ==
    /\ TypeOK
    /\ RequestOK
    /\ LocksExclude
    /\ DecidesPending
    /\ EditsApplication
    /\ ChangesUnreviewed
    /\ PendingIsSubmitted
    /\ ApprovedWasReviewed
    /\ ApplicationHasVendor
-----------------------------------------------------------------------------
LEMMA ProvidersInit == Init => ProvidersInv
  <1> SUFFICES ASSUME Init PROVE ProvidersInv
    OBVIOUS
  <1>1. \A r \in Requests: req[r] = Idle
    BY DEF Init
  <1>2. \A r \in Requests: req[r].op = "idle"
    BY <1>1 DEF Idle
  <1>3. RequestOK
    BY <1>2 DEF Init, Idle, RequestOK, RequestRow, At, CoverageOps
  <1>4. LocksExclude /\ DecidesPending /\ EditsApplication /\ ChangesUnreviewed
    BY <1>2 DEF Init, LocksExclude, DecidesPending, EditsApplication, ChangesUnreviewed, At, VendorOps
  <1>5. TypeOK /\ PendingIsSubmitted /\ ApprovedWasReviewed /\ ApplicationHasVendor
    BY DEF Init, TypeOK, PendingIsSubmitted, ApprovedWasReviewed, ApplicationHasVendor
  <1> QED
    BY <1>3, <1>4, <1>5 DEF ProvidersInv

\* A request that ends, however it does, keeps all that is said of the others.
LEMMA EndKeeps ==
  ASSUME ProvidersInv, NEW r \in Requests, End(r)
  PROVE  /\ req'[r] = Idle /\ \A q \in Requests: q # r => req'[q] = req[q]
         /\ LocksExclude'
         /\ pick' = pick => RequestOK'
  <1>1. \A q \in Requests: req'[q] = IF q = r THEN Idle ELSE req[q]
    BY DEF ProvidersInv, RequestOK, End
  <1>2. LocksExclude'
    BY <1>1 DEF ProvidersInv, LocksExclude, Idle, At, VendorOps
  <1>3. ASSUME pick' = pick PROVE RequestOK'
    <2>1. Idle \in RequestRow /\ Idle.op = "idle"
      BY DEF Idle, RequestRow
    <2>2. req' \in [Requests -> RequestRow]
      BY <2>1 DEF ProvidersInv, RequestOK, End
    <2> QED
      BY <1>1, <1>3, <2>1, <2>2 DEF ProvidersInv, RequestOK, At, CoverageOps
  <1> QED
    BY <1>1, <1>2, <1>3

\* A request that begins under the locks it finds free keeps the exclusion.
LEMMA BeginKeeps ==
  ASSUME ProvidersInv, NEW r \in Requests, At(r, "idle"),
         NEW op \in {"decide"} \cup VendorOps,
         NEW item \in Items \cup {NULL},
         NEW how \in Verdicts \cup {"select", "remove", NULL},
         Begin(r, op, item, how),
         op \in VendorOps => VendorFree,
         op = "decide" => ApplicationFree /\ how \in Verdicts,
         op = "catalogue" => item \in Items /\ (how = "remove" => pick[item] # NULL),
         UNCHANGED <<vendor, app, pick, worker, covered, submitted, reviewed>>
  PROVE  /\ \A q \in Requests: req'[q].op = IF q = r THEN op ELSE req[q].op
         /\ TypeOK' /\ RequestOK' /\ LocksExclude' /\ PendingIsSubmitted'
         /\ ApprovedWasReviewed' /\ ApplicationHasVendor'
  <1> DEFINE row == [op |-> op, item |-> item, how |-> how, old |-> {}, new |-> {}]
  <1>b. req' = [req EXCEPT ![r] = row]
    BY DEF Begin
  <1>1. \A q \in Requests: req'[q] = IF q = r THEN row ELSE req[q]
    BY <1>b DEF ProvidersInv, RequestOK
  <1>2. RequestOK'
    <2>0. row \in RequestRow
      BY DEF RequestRow, VendorOps
    <2>1. req' \in [Requests -> RequestRow]
      BY <1>b, <2>0 DEF ProvidersInv, RequestOK
    <2> QED
      BY <1>1, <2>1 DEF ProvidersInv, RequestOK, At, VendorOps, CoverageOps
  <1>3. LocksExclude'
    BY <1>1 DEF ProvidersInv, LocksExclude, At, VendorOps, VendorFree, ApplicationFree
  <1>5. TypeOK' /\ PendingIsSubmitted' /\ ApprovedWasReviewed' /\ ApplicationHasVendor'
    BY DEF ProvidersInv, TypeOK, PendingIsSubmitted, ApprovedWasReviewed, ApplicationHasVendor,
           ActiveItems, Active
  <1> QED
    BY <1>1, <1>2, <1>3, <1>5

LEMMA ProvidersNext == ProvidersInv /\ [Next]_vars => ProvidersInv'
  <1> SUFFICES ASSUME ProvidersInv, [Next]_vars PROVE ProvidersInv'
    OBVIOUS
  <1>a. /\ TypeOK /\ RequestOK /\ LocksExclude /\ DecidesPending /\ EditsApplication /\ ChangesUnreviewed
        /\ PendingIsSubmitted /\ ApprovedWasReviewed /\ ApplicationHasVendor
    BY DEF ProvidersInv
  \* Steps of the organisation leave requests and selections alone.
  <1>1. CASE Organisation
    <2>1. UNCHANGED <<pick, covered, req, submitted, reviewed>>
      BY <1>1 DEF Organisation, Register, CreateVendor, AddWorker, SetVendorStatus
    <2>2. /\ vendor' # NULL \/ vendor' = vendor
          /\ vendor' \in VendorStatus \cup {NULL}
          /\ worker' \in [Workers -> WorkerStatus \cup {NULL}]
          /\ \/ app' = app
             \/ vendor = NULL /\ app' = [status |-> "DRAFT", filled |-> FALSE, listed |-> {}]
          /\ vendor' = NULL => vendor = NULL /\ app' = app
      <3>1. CASE Register \/ CreateVendor
        BY <1>a, <3>1, NullAssumption, ProvidersAssumption
           DEF Register, CreateVendor, TypeOK, VendorStatus, WorkerStatus
      <3>2. CASE \E w \in Workers: AddWorker(w)
        BY <1>a, <3>2 DEF AddWorker, TypeOK, WorkerStatus
      <3>3. CASE \E s \in VendorStatus: SetVendorStatus(s)
        BY <1>a, <3>3, NullAssumption DEF SetVendorStatus, TypeOK
      <3> QED
        BY <1>1, <3>1, <3>2, <3>3 DEF Organisation
    <2>3. app' \in Application \cup {NULL}
      <3>1. [status |-> "DRAFT", filled |-> FALSE, listed |-> {}] \in Application
        BY DEF Application, ApplicationStatus
      <3> QED
        BY <1>a, <2>2, <3>1 DEF TypeOK
    <2>4. TypeOK' /\ RequestOK' /\ LocksExclude' /\ ApprovedWasReviewed'
          /\ ApplicationHasVendor'
      BY <1>a, <2>1, <2>2, <2>3 DEF TypeOK, RequestOK, LocksExclude, At,
            ApprovedWasReviewed, ApplicationHasVendor
    <2>5. DecidesPending' /\ EditsApplication' /\ ChangesUnreviewed'
      BY <1>a, <2>1, <2>2 DEF DecidesPending, EditsApplication, ChangesUnreviewed, ApplicationHasVendor, At
    <2>6. PendingIsSubmitted'
      BY <1>a, <2>1, <2>2 DEF PendingIsSubmitted, ActiveItems, Active
    <2> QED
      BY <2>4, <2>5, <2>6 DEF ProvidersInv
  <1>2. ASSUME NEW r \in Requests, OnboardingRoutes(r) PROVE ProvidersInv'
    <2>1. ASSUME NEW op \in {"edit", "submit"}, BeginOnboarding(r, op) PROVE ProvidersInv'
      <3>1. /\ \A q \in Requests: req'[q].op = IF q = r THEN op ELSE req[q].op
            /\ TypeOK' /\ RequestOK' /\ LocksExclude' /\ PendingIsSubmitted'
            /\ ApprovedWasReviewed' /\ ApplicationHasVendor'
        BY <2>1, BeginKeeps DEF BeginOnboarding, VendorOps
      <3>2. DecidesPending' /\ EditsApplication' /\ ChangesUnreviewed'
        BY <1>a, <2>1, <3>1 DEF BeginOnboarding, DecidesPending, EditsApplication, ChangesUnreviewed, At
      <3> QED
        BY <3>1, <3>2 DEF ProvidersInv
    <2>2. ASSUME NEW v \in Verdicts, BeginDecide(r, v) PROVE ProvidersInv'
      <3>1. /\ \A q \in Requests: req'[q].op = IF q = r THEN "decide" ELSE req[q].op
            /\ TypeOK' /\ RequestOK' /\ LocksExclude' /\ PendingIsSubmitted'
            /\ ApprovedWasReviewed' /\ ApplicationHasVendor'
        BY <2>2, BeginKeeps DEF BeginDecide, VendorOps
      <3>2. DecidesPending' /\ EditsApplication' /\ ChangesUnreviewed'
        BY <1>a, <2>2, <3>1 DEF BeginDecide, DecidesPending, EditsApplication, ChangesUnreviewed, At
      <3> QED
        BY <3>1, <3>2 DEF ProvidersInv
    <2>3. CASE UpdateOnboarding(r)
      <3>1. /\ At(r, "edit") /\ ApplicationFree /\ End(r)
            /\ app' = app \/ \E b \in BOOLEAN: app' = [app EXCEPT !.filled = b] /\ Editable
            /\ UNCHANGED <<vendor, pick, worker, covered, submitted, reviewed>>
        BY <2>3 DEF UpdateOnboarding
      <3>2. app # NULL /\ app \in Application
        BY <1>a, <3>1 DEF EditsApplication, At, TypeOK
      <3>3. /\ app' \in Application
            /\ app'.status = app.status
        BY <3>1, <3>2 DEF Application
      <3>4. /\ req'[r] = Idle /\ \A q \in Requests: q # r => req'[q] = req[q]
            /\ RequestOK' /\ LocksExclude'
        BY <3>1, EndKeeps
      <3>5. DecidesPending' /\ EditsApplication' /\ ChangesUnreviewed'
        BY <1>a, <3>1, <3>4
           DEF DecidesPending, EditsApplication, ChangesUnreviewed, LocksExclude, VendorOps,
               ApplicationFree, At, Idle
      <3>6. TypeOK' /\ PendingIsSubmitted' /\ ApprovedWasReviewed' /\ ApplicationHasVendor'
        BY <1>a, <3>1, <3>2, <3>3 DEF TypeOK, PendingIsSubmitted, ApprovedWasReviewed,
              ApplicationHasVendor, ActiveItems, Active
      <3> QED
        BY <3>4, <3>5, <3>6 DEF ProvidersInv
    <2>4. CASE Submit(r)
      <3>1. /\ At(r, "submit") /\ ApplicationFree /\ End(r)
            /\ \/ /\ app' = [app EXCEPT !.status = "PENDING", !.listed = ActiveItems]
                  /\ submitted' = ActiveItems
               \/ app' = app /\ submitted' = submitted
            /\ UNCHANGED <<vendor, pick, worker, covered, reviewed>>
        BY <2>4 DEF Submit
      <3>2. app # NULL /\ app \in Application
        BY <1>a, <3>1 DEF EditsApplication, At, TypeOK
      <3>3. /\ app' \in Application
            /\ ActiveItems \subseteq Items /\ submitted' \subseteq Items
        BY <1>a, <3>1, <3>2 DEF Application, ApplicationStatus, ActiveItems, TypeOK
      <3>4. /\ req'[r] = Idle /\ \A q \in Requests: q # r => req'[q] = req[q]
            /\ RequestOK' /\ LocksExclude'
        BY <3>1, EndKeeps
      <3>5. DecidesPending' /\ EditsApplication' /\ ChangesUnreviewed'
        BY <1>a, <3>1, <3>4
           DEF DecidesPending, EditsApplication, ChangesUnreviewed, LocksExclude, VendorOps,
               ApplicationFree, At, Idle
      <3>6. PendingIsSubmitted'
        BY <1>a, <3>1 DEF PendingIsSubmitted, ActiveItems, Active
      <3>7. TypeOK' /\ ApprovedWasReviewed' /\ ApplicationHasVendor'
        BY <1>a, <3>1, <3>2, <3>3 DEF TypeOK, ApprovedWasReviewed, ApplicationHasVendor
      <3> QED
        BY <3>4, <3>5, <3>6, <3>7 DEF ProvidersInv
    <2>5. CASE Decide(r)
      <3>1. /\ At(r, "decide") /\ VendorFree /\ End(r)
            /\ req[r].how \in Verdicts
            /\ app # NULL /\ app \in Application /\ app.status = "PENDING"
            /\ app' = [app EXCEPT !.status = req[r].how]
            /\ UNCHANGED <<covered, submitted>>
        BY <1>a, <2>5 DEF Decide, RequestOK, DecidesPending, TypeOK
      <3>2. app' \in Application /\ app'.status # "PENDING"
        BY <3>1 DEF Application, ApplicationStatus, Verdicts
      <3>3. /\ req'[r] = Idle /\ \A q \in Requests: q # r => req'[q] = req[q]
            /\ LocksExclude'
        BY <3>1, EndKeeps
      <3>4. /\ \A q \in Requests: req'[q].op \notin VendorOps
            /\ \A q \in Requests: ~At(q, "decide")'
        BY <1>a, <3>1, <3>3 DEF VendorFree, LocksExclude, VendorOps, At, Idle
      <3>5. RequestOK' /\ DecidesPending' /\ EditsApplication' /\ ChangesUnreviewed'
        <4>1. Idle \in RequestRow
          BY DEF Idle, RequestRow
        <4>2. req' \in [Requests -> RequestRow]
          BY <1>a, <3>1, <4>1 DEF RequestOK, End
        <4> QED
          BY <1>a, <3>1, <3>3, <3>4, <4>2 DEF RequestOK, DecidesPending, EditsApplication,
                ChangesUnreviewed, VendorOps, CoverageOps, At, Idle
      <3>6. /\ \/ Approve \/ Reject \/ RequestInformation
        BY <2>5, <3>1 DEF Decide, Verdicts
      <3>7. vendor' \in VendorStatus /\ worker' \in [Workers -> WorkerStatus \cup {NULL}]
        BY <1>a, <3>6 DEF Approve, Reject, RequestInformation, AllWorkers, TypeOK, VendorStatus,
              WorkerStatus
      <3>8. /\ pick' \in [Items -> Selection \cup {NULL}]
            /\ reviewed' \subseteq Items
            /\ ApprovedWasReviewed'
        <4>1. CASE pick' = pick /\ reviewed' = reviewed
          BY <1>a, <4>1 DEF ApprovedWasReviewed, TypeOK
        <4>2. CASE Approve
          <5>1. ActiveItems \subseteq submitted
            BY <1>a, <3>1 DEF PendingIsSubmitted
          <5>2. \A i \in Items: pick'[i] =
                    IF Active(i) /\ pick[i].status = "PENDING"
                    THEN [pick[i] EXCEPT !.status = "APPROVED"] ELSE pick[i]
            BY <4>2 DEF Approve, ApprovedPicks
          <5>3. pick' \in [Items -> Selection \cup {NULL}]
            BY <1>a, <4>2 DEF Approve, ApprovedPicks, TypeOK, Selection, ApprovalStatus, Active
          <5>4. ApprovedWasReviewed'
            BY <1>a, <4>2, <5>1, <5>2 DEF Approve, ApprovedWasReviewed, ActiveItems
          <5> QED
            BY <1>a, <4>2, <5>3, <5>4 DEF Approve, TypeOK
        <4> QED
          BY <3>6, <4>1, <4>2 DEF Reject, RequestInformation
      <3>9. TypeOK' /\ PendingIsSubmitted' /\ ApplicationHasVendor'
        BY <1>a, <3>1, <3>2, <3>7, <3>8, NullAssumption
           DEF TypeOK, PendingIsSubmitted, ApplicationHasVendor
      <3> QED
        BY <3>3, <3>5, <3>8, <3>9 DEF ProvidersInv
    <2> QED
      BY <1>2, <2>1, <2>2, <2>3, <2>4, <2>5 DEF OnboardingRoutes, Verdicts
  <1>3. ASSUME NEW r \in Requests, CatalogueRoutes(r) PROVE ProvidersInv'
    <2>1. ASSUME NEW i \in Items, NEW how \in {"select", "remove"}, BeginCatalogue(r, i, how)
          PROVE  ProvidersInv'
      <3>1. how = "remove" => pick[i] # NULL
        BY <2>1 DEF BeginCatalogue, Active
      <3>2. /\ \A q \in Requests: req'[q].op = IF q = r THEN "catalogue" ELSE req[q].op
            /\ TypeOK' /\ RequestOK' /\ LocksExclude' /\ PendingIsSubmitted'
            /\ ApprovedWasReviewed' /\ ApplicationHasVendor'
        BY <2>1, <3>1, BeginKeeps DEF BeginCatalogue, VendorOps
      <3>3. DecidesPending' /\ EditsApplication' /\ ChangesUnreviewed'
        BY <1>a, <2>1, <3>2 DEF BeginCatalogue, CatalogueEditable, DecidesPending,
              EditsApplication, ChangesUnreviewed, At
      <3> QED
        BY <3>2, <3>3 DEF ProvidersInv
    <2>2. CASE Catalogue(r)
      <3> DEFINE i == req[r].item
      <3>1. /\ At(r, "catalogue") /\ ApplicationFree /\ End(r)
            /\ i \in Items /\ vendor # NULL
            /\ app = NULL \/ app.status # "PENDING"
            /\ UNCHANGED <<vendor, worker, covered, submitted, reviewed>>
        BY <1>a, <2>2 DEF Catalogue, RequestOK, ChangesUnreviewed
      <3>2. \E items \in SUBSET Items: SyncApplication(items)
        BY <2>2, <3>1 DEF Catalogue, ActiveItems
      <3>3. /\ app = NULL => app' = NULL
            /\ app # NULL => app' \in Application /\ app'.status = app.status
        BY <1>a, <3>2 DEF SyncApplication, Application, TypeOK
      <3>4. \/ pick' = [pick EXCEPT ![i] = Selected(i)]
            \/ pick[i] # NULL /\ pick' = [pick EXCEPT ![i] = Removed(i)]
        BY <1>a, <2>2, <3>1 DEF Catalogue, RequestOK
      <3>5. Selected(i) \in Selection
        BY <1>a, <3>1 DEF Selected, Selection, SelectionStatus, ApprovalStatus, TypeOK
      <3>6. pick[i] # NULL => Removed(i) \in Selection /\ Removed(i).status = pick[i].status
        BY <1>a, <3>1 DEF Removed, Selection, TypeOK
      <3>7. pick' \in [Items -> Selection \cup {NULL}]
        BY <1>a, <3>1, <3>4, <3>5, <3>6 DEF TypeOK
      <3>8. ApprovedWasReviewed'
        <4>1. i \in NeedsApproval /\ Selected(i).status = "APPROVED"
                => pick[i] # NULL /\ pick[i].status = "APPROVED"
          BY DEF Selected, SelectionStatus
        <4>2. \A j \in Items: j # i => pick'[j] = pick[j]
          BY <1>a, <3>4 DEF TypeOK
        <4>3. i \in NeedsApproval /\ pick'[i].status = "APPROVED"
                => pick[i] # NULL /\ pick[i].status = "APPROVED"
          BY <1>a, <3>1, <3>4, <3>6, <4>1 DEF TypeOK
        <4> QED
          BY <1>a, <3>1, <4>2, <4>3 DEF ApprovedWasReviewed
      <3>9. /\ req'[r] = Idle /\ \A q \in Requests: q # r => req'[q] = req[q]
            /\ LocksExclude'
        BY <3>1, EndKeeps
      <3>10. \A q \in Requests: req'[q].op \notin VendorOps /\ req'[q].op # "decide"
        BY <1>a, <3>1, <3>9 DEF LocksExclude, VendorOps, ApplicationFree, At, Idle
      <3>11. RequestOK' /\ DecidesPending' /\ EditsApplication' /\ ChangesUnreviewed'
        <4>1. Idle \in RequestRow
          BY DEF Idle, RequestRow
        <4>2. req' \in [Requests -> RequestRow]
          BY <1>a, <3>1, <4>1 DEF RequestOK, End
        <4> QED
          BY <1>a, <3>1, <3>9, <3>10, <4>2 DEF RequestOK, DecidesPending, EditsApplication,
                ChangesUnreviewed, VendorOps, CoverageOps, At, Idle
      <3>12. TypeOK' /\ PendingIsSubmitted' /\ ApplicationHasVendor'
        BY <1>a, <3>1, <3>3, <3>7 DEF TypeOK, PendingIsSubmitted, ApplicationHasVendor
      <3> QED
        BY <3>8, <3>9, <3>11, <3>12 DEF ProvidersInv
    <2> QED
      BY <1>3, <2>1, <2>2 DEF CatalogueRoutes
  <1>4. ASSUME NEW r \in Requests, CoverageRoutes(r) PROVE ProvidersInv'
    <2>1. UNCHANGED <<vendor, app, pick, worker, submitted, reviewed>>
      BY <1>4 DEF CoverageRoutes, BeginCoverage, DeleteHours, ReplaceCoverage
    <2>2. ASSUME NEW w \in Workers, NEW rows \in Coverages, BeginCoverage(r, w, rows)
          PROVE  /\ RequestOK' /\ covered' = covered
                 /\ \A q \in Requests: req'[q].op \in {req[q].op} \cup CoverageOps \cup {"idle"}
      <3> DEFINE row == [op |-> "coverage", item |-> w, how |-> NULL,
                         old |-> covered[w] \cap Services, new |-> rows]
      <3>1. \A q \in Requests: req'[q] = IF q = r THEN row ELSE req[q]
        BY <1>a, <2>2 DEF BeginCoverage, RequestOK
      <3>2. row \in RequestRow
        BY ProvidersAssumption DEF RequestRow, CoverageOps, Rows
      <3>3. req' \in [Requests -> RequestRow]
        BY <1>a, <2>2, <3>2 DEF BeginCoverage, RequestOK
      <3>4. RequestOK'
        BY <1>a, <2>1, <2>2, <3>1, <3>3 DEF RequestOK, At, CoverageOps
      <3> QED
        BY <2>2, <3>1, <3>4 DEF BeginCoverage, CoverageOps
    <2>3. ASSUME DeleteHours(r)
          PROVE  /\ RequestOK' /\ covered' = covered
                 /\ \A q \in Requests: req'[q].op \in {req[q].op} \cup CoverageOps \cup {"idle"}
      <3> DEFINE row == [req[r] EXCEPT !.op = "hours",
                                       !.old = @ \cup (covered[req[r].item] \cap Days)]
      <3>1. \A q \in Requests: req'[q] = IF q = r THEN row ELSE req[q]
        BY <1>a, <2>3 DEF DeleteHours, RequestOK
      <3>2. req[r] \in RequestRow /\ req[r].item \in Workers
        BY <1>a, <2>3 DEF DeleteHours, RequestOK, At, CoverageOps
      <3>3. row \in RequestRow /\ row.op = "hours" /\ row.item = req[r].item
        BY <3>2 DEF RequestRow, CoverageOps, Rows
      <3>4. req' \in [Requests -> RequestRow]
        BY <1>a, <2>3, <3>1, <3>3 DEF DeleteHours, RequestOK
      <3>5. RequestOK'
        BY <1>a, <2>1, <3>1, <3>2, <3>3, <3>4 DEF RequestOK, At, CoverageOps
      <3> QED
        BY <2>3, <3>1, <3>3, <3>5 DEF DeleteHours, CoverageOps
    <2>4. ASSUME ReplaceCoverage(r)
          PROVE  /\ RequestOK' /\ covered' \in [Workers -> SUBSET Rows]
                 /\ \A q \in Requests: req'[q].op \in {req[q].op} \cup CoverageOps \cup {"idle"}
      <3>1. /\ End(r) /\ req[r].item \in Workers /\ req[r].new \in SUBSET Rows
            /\ \/ covered' = covered
               \/ covered' = [covered EXCEPT ![req[r].item] = Remaining(r) \cup req[r].new]
        BY <1>a, <2>4 DEF ReplaceCoverage, RequestOK, RequestRow, At, CoverageOps
      <3>2. covered \in [Workers -> SUBSET Rows] /\ Remaining(r) \subseteq covered[req[r].item]
        BY <1>a DEF TypeOK, Rows, Remaining
      <3>3. covered' \in [Workers -> SUBSET Rows]
        <4>1. Remaining(r) \cup req[r].new \in SUBSET Rows
          BY <3>1, <3>2
        <4> QED
          BY <3>1, <3>2, <4>1
      <3>4. /\ req'[r] = Idle /\ \A q \in Requests: q # r => req'[q] = req[q]
            /\ RequestOK'
        BY <2>1, <3>1, EndKeeps
      <3> QED
        BY <3>3, <3>4 DEF Idle
    <2>5. /\ RequestOK' /\ covered' \in [Workers -> SUBSET Rows]
          /\ \A q \in Requests: req'[q].op \in {req[q].op} \cup CoverageOps \cup {"idle"}
      BY <1>a, <1>4, <2>2, <2>3, <2>4 DEF CoverageRoutes, TypeOK, Rows
    <2>6. LocksExclude' /\ DecidesPending' /\ EditsApplication' /\ ChangesUnreviewed'
      BY <1>a, <2>1, <2>5 DEF LocksExclude, DecidesPending, EditsApplication,
            ChangesUnreviewed, VendorOps, CoverageOps, At
    <2>7. TypeOK' /\ PendingIsSubmitted' /\ ApprovedWasReviewed' /\ ApplicationHasVendor'
      BY <1>a, <2>1, <2>5 DEF TypeOK, PendingIsSubmitted, ApprovedWasReviewed,
            ApplicationHasVendor, ActiveItems, Active, Rows
    <2> QED
      BY <2>5, <2>6, <2>7 DEF ProvidersInv
  <1>5. ASSUME NEW r \in Requests, Abort(r) PROVE ProvidersInv'
    <2>1. End(r) /\ UNCHANGED <<vendor, app, pick, worker, covered, submitted, reviewed>>
      BY <1>5 DEF Abort
    <2>2. /\ \A q \in Requests: req'[q] = Idle \/ req'[q] = req[q]
          /\ RequestOK' /\ LocksExclude'
      BY <2>1, EndKeeps
    <2>3. DecidesPending' /\ EditsApplication' /\ ChangesUnreviewed'
      BY <1>a, <2>1, <2>2 DEF DecidesPending, EditsApplication, ChangesUnreviewed, At, Idle
    <2>4. TypeOK' /\ PendingIsSubmitted' /\ ApprovedWasReviewed' /\ ApplicationHasVendor'
      BY <1>a, <2>1 DEF TypeOK, PendingIsSubmitted, ApprovedWasReviewed, ApplicationHasVendor,
             ActiveItems, Active
    <2> QED
      BY <2>2, <2>3, <2>4 DEF ProvidersInv
  <1>6. CASE UNCHANGED vars
    BY <1>a, <1>6 DEF ProvidersInv, vars, TypeOK, RequestOK, LocksExclude, DecidesPending, EditsApplication,
       ChangesUnreviewed, PendingIsSubmitted, ApprovedWasReviewed, ApplicationHasVendor,
       ActiveItems, Active, At
  <1> QED
    BY <1>1, <1>2, <1>3, <1>4, <1>5, <1>6 DEF Next
LEMMA ProvidersInvariant == Spec => []ProvidersInv
  BY ProvidersInit, ProvidersNext, PTL DEF Spec

\* A professional is offered for a service that needs approval only if an approved
\* application listed it when it was submitted, or if the organisation never chose it
\* and operations alone covered it: catalogue changes are shut out from the submission
\* to the decision by the vendor's lock and the status, although no lock is held in
\* between.
THEOREM OnlyReviewedGoesLive == Spec => []LiveWasReviewed
  <1>1. ProvidersInv => LiveWasReviewed
    BY DEF ProvidersInv, ApprovedWasReviewed, LiveWasReviewed, Eligible, NeverChosen, Items
  <1> QED
    BY <1>1, ProvidersInvariant, PTL

\* A catalogue change never waits for the application's row while a decision holds
\* it and waits for the vendor's, although the two lock in opposite orders.
THEOREM CatalogueIsDeadlockFree == Spec => []CatalogueNeverDeadlocks
  <1>1. ProvidersInv => CatalogueNeverDeadlocks
    BY DEF ProvidersInv, DecidesPending, ChangesUnreviewed, CatalogueNeverDeadlocks
  <1> QED
    BY <1>1, ProvidersInvariant, PTL
=============================================================================
