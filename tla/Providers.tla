----------------------------- MODULE Providers ------------------------------
(***************************************************************************)
(* A provider organisation from registration to approval: its application  *)
(* (workforce/onboarding_service.py), the services and skills it selects   *)
(* from the catalogue (provider_catalog), its professionals, and what      *)
(* operations decide: its status and the coverage of each professional     *)
(* (api/v1/operations/workforce.py).                                       *)
(*                                                                         *)
(* The row of vendors serialises the provider's own writes, and each then  *)
(* locks the application; a decision locks the application first.  A       *)
(* transaction is therefore split where it holds its first lock and waits  *)
(* for the second.  Locks are derived from where the requests are.         *)
(***************************************************************************)
EXTENDS Naturals, FiniteSets

CONSTANTS
    Requests,       \* HTTP requests being served
    Services,       \* active catalogue services
    Skills,         \* active catalogue skills
    NeedsApproval,  \* the ones with provider_approval_required
    Workers,        \* professionals of the organisation
    Owner,          \* the one that registration creates
    Days,           \* weekdays
    Coverages,      \* what operations send: services and weekdays of a professional
    NULL

Items == Services \cup Skills

ASSUME ProvidersAssumption ==
    /\ NeedsApproval \subseteq Items /\ Owner \in Workers
    /\ NULL \notin Requests \cup Items \cup Workers
    /\ Coverages \subseteq SUBSET (Services \cup Days)

VARIABLES
    vendor,     \* status of the row of vendors, NULL before it exists
    app,        \* row of provider_applications, or NULL
    pick,       \* [Items -> row of provider_catalog_services/_skills, or NULL]
    worker,     \* [Workers -> status of its row of workers, or NULL]
    covered,    \* [Workers -> keys of its rows of provider_service_coverage, which are
                \* services, and of provider_working_hours, which are weekdays]
    req,        \* [Requests -> what the request has read and where it waits]
    submitted,  \* ghost: what the application listed when it was submitted
    reviewed    \* ghost: what had been submitted whenever one was approved

vars == <<vendor, app, pick, worker, covered, req, submitted, reviewed>>

-----------------------------------------------------------------------------
VendorStatus == {"PENDING", "ACTIVE", "SUSPENDED", "REJECTED"}
ApplicationStatus == {"DRAFT", "PENDING", "APPROVED", "REJECTED", "INFORMATION_REQUESTED"}
ApprovalStatus == {"PENDING", "APPROVED", "REJECTED"}
WorkerStatus == {"INVITED", "ACTIVE", "INACTIVE"}

ASSUME NullAssumption == NULL \notin VendorStatus

\* filled: the required fields other than services and skills.
Application == [status: ApplicationStatus, filled: BOOLEAN, listed: SUBSET Items]
Selection == [active: BOOLEAN, status: ApprovalStatus]

\* item: the selection or professional the request is about; how: what becomes of
\* the selection, or the decision; old: the rows that its DELETEs have found; new:
\* the rows it inserts.
Idle == [op |-> "idle", item |-> NULL, how |-> NULL, old |-> {}, new |-> {}]
Begin(r, op, item, how) ==
    req' = [req EXCEPT ![r] = [op |-> op, item |-> item, how |-> how, old |-> {}, new |-> {}]]
End(r) == req' = [req EXCEPT ![r] = Idle]
At(r, op) == req[r].op = op

\* FOR UPDATE locks: _owned_vendor(lock=True), and _decide's on the application.
VendorFree == \A q \in Requests: req[q].op \notin {"edit", "submit", "catalogue"}
ApplicationFree == \A q \in Requests: ~At(q, "decide")

Active(i) == pick[i] # NULL /\ pick[i].active
ActiveItems == {i \in Items: Active(i)}

-----------------------------------------------------------------------------
(***************************************************************************)
(* The organisation.  A provider registers itself with an application, or  *)
(* operations create the organisation without one; the unique e-mail       *)
(* refuses a second row.  Inserting a professional takes a key-share lock  *)
(* on the vendor, for the foreign key.                                     *)
(***************************************************************************)
Register ==
    /\ vendor = NULL
    /\ vendor' = "PENDING"
    /\ app' = [status |-> "DRAFT", filled |-> FALSE, listed |-> {}]
    /\ worker' = [worker EXCEPT ![Owner] = "INVITED"]
    /\ UNCHANGED <<pick, covered, req, submitted, reviewed>>

CreateVendor ==
    /\ vendor = NULL
    /\ vendor' = "PENDING"
    /\ UNCHANGED <<app, pick, worker, covered, req, submitted, reviewed>>

AddWorker(w) ==
    /\ vendor # NULL /\ worker[w] = NULL
    /\ VendorFree
    /\ worker' = [worker EXCEPT ![w] = "INVITED"]
    /\ UNCHANGED <<vendor, app, pick, covered, req, submitted, reviewed>>

SetVendorStatus(s) ==
    /\ vendor # NULL
    /\ VendorFree
    /\ vendor' = s
    /\ UNCHANGED <<app, pick, worker, covered, req, submitted, reviewed>>

-----------------------------------------------------------------------------
(***************************************************************************)
(* The application: update_onboarding, submit and _decide.                 *)
(***************************************************************************)
BeginOnboarding(r, op) ==
    /\ At(r, "idle")
    /\ vendor # NULL /\ app # NULL
    /\ VendorFree
    /\ Begin(r, op, NULL, NULL)
    /\ UNCHANGED <<vendor, app, pick, worker, covered, submitted, reviewed>>

Editable == app.status \in {"DRAFT", "INFORMATION_REQUESTED"}

UpdateOnboarding(r) ==
    /\ At(r, "edit") /\ ApplicationFree
    /\ \/ /\ Editable
          /\ \E b \in BOOLEAN: app' = [app EXCEPT !.filled = b]
       \/ /\ ~Editable
          /\ UNCHANGED app
    /\ End(r)
    /\ UNCHANGED <<vendor, pick, worker, covered, submitted, reviewed>>

Complete ==
    app.filled /\ ActiveItems \cap Services # {} /\ ActiveItems \cap Skills # {}

Submit(r) ==
    /\ At(r, "submit") /\ ApplicationFree
    /\ \/ /\ Editable /\ Complete
          /\ app' = [app EXCEPT !.status = "PENDING", !.listed = ActiveItems]
          /\ submitted' = ActiveItems
       \/ /\ ~(Editable /\ Complete)
          /\ UNCHANGED <<app, submitted>>
    /\ End(r)
    /\ UNCHANGED <<vendor, pick, worker, covered, reviewed>>

BeginDecide(r, verdict) ==
    /\ At(r, "idle")
    /\ app # NULL /\ app.status = "PENDING"
    /\ ApplicationFree
    /\ Begin(r, "decide", NULL, verdict)
    /\ UNCHANGED <<vendor, app, pick, worker, covered, submitted, reviewed>>

ApprovedPicks ==
    [i \in Items |->
        IF Active(i) /\ pick[i].status = "PENDING"
        THEN [pick[i] EXCEPT !.status = "APPROVED"] ELSE pick[i]]

AllWorkers(s) == [w \in Workers |-> IF worker[w] = NULL THEN NULL ELSE s]

Approve ==
    /\ vendor' = "ACTIVE"
    /\ worker' = AllWorkers("ACTIVE")
    /\ pick' = ApprovedPicks
    /\ reviewed' = reviewed \cup submitted

Reject ==
    /\ vendor' = "REJECTED"
    /\ worker' = AllWorkers("INACTIVE")
    /\ UNCHANGED <<pick, reviewed>>

RequestInformation ==
    /\ vendor' = "PENDING"
    /\ UNCHANGED <<worker, pick, reviewed>>

Decide(r) ==
    /\ At(r, "decide") /\ VendorFree
    /\ app' = [app EXCEPT !.status = req[r].how]
    /\ CASE req[r].how = "APPROVED" -> Approve
         [] req[r].how = "REJECTED" -> Reject
         [] req[r].how = "INFORMATION_REQUESTED" -> RequestInformation
    /\ End(r)
    /\ UNCHANGED <<covered, submitted>>

-----------------------------------------------------------------------------
(***************************************************************************)
(* The catalogue.  A request whose If-Match is out of date is refused under *)
(* the vendor's lock and changes nothing.  _owned_vendor reads the         *)
(* application without a lock; _sync_application locks it at the end.      *)
(***************************************************************************)
\* A plausible mistake: selections are not locked during a review.
EditableAlways == vendor \in {"PENDING", "ACTIVE"}

CatalogueEditable ==
    /\ vendor \in {"PENDING", "ACTIVE"}
    /\ app # NULL => app.status # "PENDING"

BeginCatalogue(r, i, how) ==
    /\ At(r, "idle")
    /\ vendor # NULL /\ CatalogueEditable
    /\ VendorFree
    /\ i \in Skills => worker[Owner] # NULL
    /\ how = "select" <=> ~Active(i)
    /\ Begin(r, "catalogue", i, how)
    /\ UNCHANGED <<vendor, app, pick, worker, covered, submitted, reviewed>>

\* A plausible mistake: whoever is active needs no approval.
StatusOfActive(i) == IF vendor = "ACTIVE" THEN "APPROVED" ELSE "PENDING"

SelectionStatus(i) ==
    IF vendor = "ACTIVE" /\ i \notin NeedsApproval THEN "APPROVED" ELSE "PENDING"

\* add_service, add_skill, update_service(active=True): a former selection keeps
\* its status unless it was rejected.
Selected(i) ==
    [active |-> TRUE,
     status |-> IF pick[i] = NULL \/ pick[i].status = "REJECTED"
                THEN SelectionStatus(i) ELSE pick[i].status]

\* remove_service, remove_skill, update_service(active=False)
Removed(i) == [pick[i] EXCEPT !.active = FALSE]

SyncApplication(items) ==
    app' = IF app = NULL THEN NULL ELSE [app EXCEPT !.listed = items]

Catalogue(r) ==
    LET i == req[r].item IN
    /\ At(r, "catalogue") /\ ApplicationFree
    /\ \/ /\ req[r].how = "select"
          /\ pick' = [pick EXCEPT ![i] = Selected(i)]
          /\ SyncApplication(ActiveItems \cup {i})
       \/ /\ req[r].how = "remove"
          /\ pick' = [pick EXCEPT ![i] = Removed(i)]
          /\ SyncApplication(ActiveItems \ {i})
    /\ End(r)
    /\ UNCHANGED <<vendor, worker, covered, submitted, reviewed>>

-----------------------------------------------------------------------------
(***************************************************************************)
(* replace_booking_coverage: two DELETEs, each of which finds the rows     *)
(* that were committed when it started, and the inserts.  It locks no row  *)
(* of the professional; a DELETE waits for one under way that has found a  *)
(* row of its own.                                                         *)
(***************************************************************************)
BeginCoverage(r, w, rows) ==
    /\ At(r, "idle") /\ worker[w] # NULL
    /\ req' = [req EXCEPT ![r] = [op |-> "coverage", item |-> w, how |-> NULL,
                                  old |-> covered[w] \cap Services, new |-> rows]]
    /\ UNCHANGED <<vendor, app, pick, worker, covered, submitted, reviewed>>

DeleteHours(r) ==
    /\ At(r, "coverage")
    /\ \A q \in Requests: At(q, "hours") => req[q].old \cap req[r].old = {}
    /\ req' = [req EXCEPT ![r].op = "hours", ![r].old = @ \cup (covered[req[r].item] \cap Days)]
    /\ UNCHANGED <<vendor, app, pick, worker, covered, submitted, reviewed>>

Remaining(r) == covered[req[r].item] \ req[r].old

ReplaceCoverage(r) ==
    /\ At(r, "hours")
    /\ \/ /\ req[r].new \cap Remaining(r) = {}
          /\ covered' = [covered EXCEPT ![req[r].item] = Remaining(r) \cup req[r].new]
       \/ /\ req[r].new \cap Remaining(r) # {}   \* a unique constraint
          /\ UNCHANGED covered
    /\ End(r)
    /\ UNCHANGED <<vendor, app, pick, worker, submitted, reviewed>>

\* A deadlock is broken, the client goes away or the process dies.
Abort(r) ==
    /\ ~At(r, "idle")
    /\ End(r)
    /\ UNCHANGED <<vendor, app, pick, worker, covered, submitted, reviewed>>

-----------------------------------------------------------------------------
Init ==
    /\ vendor = NULL /\ app = NULL
    /\ pick = [i \in Items |-> NULL]
    /\ worker = [w \in Workers |-> NULL]
    /\ covered = [w \in Workers |-> {}]
    /\ req = [r \in Requests |-> Idle]
    /\ submitted = {} /\ reviewed = {}

Organisation ==
    \/ Register \/ CreateVendor
    \/ \E w \in Workers: AddWorker(w)
    \/ \E s \in VendorStatus: SetVendorStatus(s)

OnboardingRoutes(r) ==
    \/ \E op \in {"edit", "submit"}: BeginOnboarding(r, op)
    \/ UpdateOnboarding(r)
    \/ Submit(r)
    \/ \E v \in {"APPROVED", "REJECTED", "INFORMATION_REQUESTED"}: BeginDecide(r, v)
    \/ Decide(r)

CatalogueRoutes(r) ==
    \/ \E i \in Items, how \in {"select", "remove"}: BeginCatalogue(r, i, how)
    \/ Catalogue(r)

CoverageRoutes(r) ==
    \/ \E w \in Workers, rows \in Coverages: BeginCoverage(r, w, rows)
    \/ DeleteHours(r)
    \/ ReplaceCoverage(r)

Next ==
    \/ Organisation
    \/ \E r \in Requests:
           OnboardingRoutes(r) \/ CatalogueRoutes(r) \/ CoverageRoutes(r) \/ Abort(r)

Spec == Init /\ [][Next]_vars

-----------------------------------------------------------------------------
(* Properties *)

TypeOK ==
    /\ vendor \in VendorStatus \cup {NULL}
    /\ app \in Application \cup {NULL}
    /\ pick \in [Items -> Selection \cup {NULL}]
    /\ worker \in [Workers -> WorkerStatus \cup {NULL}]
    /\ covered \in [Workers -> SUBSET (Services \cup Days)]
    /\ submitted \subseteq Items /\ reviewed \subseteq Items

\* eligible_provider_hours: a professional is offered for a service that operations
\* have covered, on some weekday; a selection of the organisation, if it has made one,
\* must be active and approved as well.
NeverChosen(i) == pick[i] = NULL
Eligible(w, i) ==
    /\ vendor = "ACTIVE" /\ worker[w] = "ACTIVE"
    /\ i \in covered[w] /\ covered[w] \cap Days # {}
    /\ NeverChosen(i) \/ (pick[i].active /\ pick[i].status = "APPROVED")

\* docs/breero-provider-dashboard.md: "Provider changes to services and coverage
\* enter pending approval and cannot activate live dispatch."  A professional is
\* offered for a service that needs approval only if an approved application listed
\* that service when it was submitted, whatever is added, removed, covered or decided
\* at the same time, or if the organisation has never touched it in the catalogue, so
\* that the coverage is all operations' doing.
LiveWasReviewed ==
    \A w \in Workers, i \in Services \cap NeedsApproval:
        Eligible(w, i) => i \in reviewed \/ NeverChosen(i)

\* A catalogue change takes its locks in the order opposite to a decision's, and
\* yet never deadlocks with one: it is refused while a decision is possible.
CatalogueNeverDeadlocks ==
    ~\E q, d \in Requests: At(q, "catalogue") /\ app # NULL /\ At(d, "decide")
=============================================================================
