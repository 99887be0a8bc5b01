------------------------------ MODULE Intents -------------------------------
(***************************************************************************)
(* Booking intents of anonymous visitors (booking_intents/service.py) and  *)
(* the service that turns them into bookings (booking/service.py), which   *)
(* POST /bookings calls as well.                                           *)
(*                                                                         *)
(* A submission holds the row of the intent until BookingService.create    *)
(* commits; that commit releases it, and the intent is written SUBMITTED   *)
(* by a second transaction.  The version of an intent is left out: a       *)
(* request with an outdated one is refused and changes nothing.            *)
(***************************************************************************)
EXTENDS Geography

CONSTANTS
    Intents,        \* intents that visitors may create
    Addresses,      \* rows that address validation may insert
    Slots,          \* one-hour windows
    Capacity,       \* eligible providers with room, in each window
    BookingKeys,    \* idempotency keys of bookings
    IntentCommands, \* bodies of BookingIntentUpdate
    BookingBodies,  \* bodies of POST /bookings
    ABSENT          \* a field that a body leaves out; NULL is an explicit null

VARIABLES
    address,    \* [Addresses -> row of addresses, or NULL]
    intent,     \* [Intents -> row of booking_intents, or NULL]
    bookings    \* rows of bookings that BookingService.create has inserted

ivars == <<address, intent, bookings>>

-----------------------------------------------------------------------------
\* dated: timezone_id and requested_date, which a slot needs, are set.
IntentCommand ==
    [service: Services \cup {ABSENT}, address: Addresses \cup {NULL, ABSENT},
     dated: BOOLEAN \cup {ABSENT}, slot: Slots \cup {NULL, ABSENT}]

ASSUME IntentsAssumption ==
    /\ Capacity \in Nat
    /\ ABSENT # NULL
    /\ IntentCommands \subseteq IntentCommand
    /\ BookingBodies \subseteq [service: Services, address: Addresses, slot: Slots]

\* The request and the row that hold a lock: an intent until create has committed,
\* a key from its lookup, a slot from its search.
Creating == {"create", "slot", "insert"}
IntentFree(i) == \A q \in Requests: ~(req[q].op \in Creating /\ req[q].intent = i)
\* A plausible mistake: no advisory lock on the key.
NoKeyLock(k) == k \in BookingKeys
BookingKeyFree(k) == \A q \in Requests: ~(req[q].op \in {"slot", "insert"} /\ req[q].key = k)
\* A plausible mistake: no advisory lock on the slot.
NoSlotLock(p) == p.slot \in Slots
SlotFree(p) ==
    \A q \in Requests:
        ~(At(q, "insert") /\ req[q].payload.service = p.service /\ req[q].payload.slot = p.slot)

-----------------------------------------------------------------------------
(***************************************************************************)
(* Addresses: AddressService.validate keeps only an address inside a zone, *)
(* GeographyService.validate_address keeps both.                           *)
(***************************************************************************)
AddAddress(a, c, covered) ==
    /\ address[a] = NULL
    /\ address' = [address EXCEPT ![a] = [code |-> c, covered |-> covered, owned |-> FALSE]]
    /\ UNCHANGED <<gvars, intent, bookings, req>>

ValidateForBooking(a, c) == ServiceAreaAt(c) /\ AddAddress(a, c, TRUE)

ValidateAddress(a, c) == AddAddress(a, c, MatchZone(c))

Covered(a) == address[a] # NULL /\ address[a].covered

\* AvailabilityService.search: the bookings that hold capacity have no provider yet.
Held(p) ==
    Cardinality({b \in bookings: b.holds /\ b.payload.service = p.service
                                         /\ b.payload.slot = p.slot})

Available(p) == Covered(p.address) /\ Offered(p.service) /\ Held(p) < Capacity

-----------------------------------------------------------------------------
(***************************************************************************)
(* Intents.                                                                *)
(***************************************************************************)
Editable == {"DRAFT", "ADDRESS_VALIDATED", "COVERAGE_CONFIRMED", "AVAILABILITY_FOUND"}
IntentStatus == Editable \cup {"SUBMITTED", "EXPIRED"}

SetIntent(i, v) == intent' = [intent EXCEPT ![i] = v]

CreateIntent(i, s) ==
    /\ intent[i] = NULL
    /\ SetIntent(i, [status |-> "DRAFT", service |-> s, address |-> NULL, dated |-> FALSE,
                     slot |-> NULL, booking |-> NULL, late |-> FALSE])
    /\ UNCHANGED <<gvars, address, bookings, req>>

\* expires_at passes.
IntentLapses(i) ==
    /\ intent[i] # NULL /\ ~intent[i].late
    /\ SetIntent(i, [intent[i] EXCEPT !.late = TRUE])
    /\ UNCHANGED <<gvars, address, bookings, req>>

Locked(i) == intent[i] # NULL /\ IntentFree(i)
Expired(v) == [v EXCEPT !.status = "EXPIRED", !.slot = NULL]

\* _reject_expired, in a get, an update or a submission.
RejectExpired(i) ==
    /\ Locked(i) /\ intent[i].late
    /\ intent[i].status \in Editable
    /\ SetIntent(i, Expired(intent[i]))
    /\ UNCHANGED <<gvars, address, bookings, req>>

\* _status_after_clearing_slot
StatusOf(a) ==
    IF a = NULL THEN "DRAFT"
    ELSE IF Covered(a) THEN "COVERAGE_CONFIRMED" ELSE "ADDRESS_VALIDATED"

WithService(v, c) ==
    IF c.service \in {ABSENT, v.service} THEN v
    ELSE [v EXCEPT !.service = c.service, !.address = NULL, !.dated = FALSE,
                   !.slot = NULL, !.status = "DRAFT"]

WithAddress(v, c) ==
    IF c.address = ABSENT THEN v
    ELSE IF c.address = v.address THEN [v EXCEPT !.status = StatusOf(c.address)]
    ELSE [v EXCEPT !.address = c.address, !.dated = FALSE, !.slot = NULL,
                   !.status = StatusOf(c.address)]

WithDate(v, c) ==
    IF c.dated = ABSENT THEN v ELSE [v EXCEPT !.dated = c.dated, !.slot = NULL]

WithSlot(v, c) ==
    CASE c.slot = ABSENT -> v
      [] c.slot = NULL -> [v EXCEPT !.slot = NULL, !.status = StatusOf(v.address)]
      [] OTHER -> [v EXCEPT !.slot = c.slot, !.status = "AVAILABILITY_FOUND"]

Payload(v) == [service |-> v.service, address |-> v.address, slot |-> v.slot]

UpdateIntent(i, c) ==
    LET dated == WithDate(WithAddress(WithService(intent[i], c), c), c)
        v == WithSlot(dated, c)
    IN
    /\ Locked(i) /\ ~intent[i].late
    /\ intent[i].status \in Editable
    /\ c.address \in Addresses => address[c.address] # NULL /\ ~address[c.address].owned
    /\ c.slot \in Slots => dated.address # NULL /\ dated.dated /\ Available(Payload(v))
    /\ SetIntent(i, v)
    /\ UNCHANGED <<gvars, address, bookings, req>>

AbandonIntent(i) ==
    /\ Locked(i) /\ intent[i].status \in Editable
    /\ SetIntent(i, Expired(intent[i]))
    /\ UNCHANGED <<gvars, address, bookings, req>>

-----------------------------------------------------------------------------
(***************************************************************************)
(* Bookings.  account: the customer of the request has a user account.     *)
(***************************************************************************)
BeginCreate(r, i, k, p, account) ==
    /\ Begin(r, [op |-> "create", intent |-> i, key |-> k, payload |-> p, account |-> account])
    /\ UNCHANGED <<gvars, ivars>>

\* A slot that was cleared with its date leaves the status, and fails to parse.
BeginSubmit(r, i, k, account) ==
    /\ Locked(i) /\ ~intent[i].late
    /\ intent[i].status = "AVAILABILITY_FOUND" /\ intent[i].slot # NULL
    /\ BeginCreate(r, i, k, Payload(intent[i]), account)

BeginBooking(r, k, p, account) ==
    /\ address[p.address] # NULL
    /\ BeginCreate(r, NULL, k, p, account)

BookingOf(k) == {b \in bookings: b.key = k}
Submitted(i, k) == [intent[i] EXCEPT !.status = "SUBMITTED", !.booking = k]

\* A key that was used returns its booking without a commit, so that the intent is
\* still locked when it is written.
ReturnExisting(r) ==
    /\ At(r, "create") /\ BookingKeyFree(req[r].key)
    /\ \E b \in BookingOf(req[r].key): b.payload = req[r].payload
    /\ IF req[r].intent = NULL THEN UNCHANGED intent
       ELSE SetIntent(req[r].intent, Submitted(req[r].intent, req[r].key))
    /\ End(r)
    /\ UNCHANGED <<gvars, address, bookings>>

KeyConflict(r) ==
    /\ At(r, "create") /\ BookingKeyFree(req[r].key)
    /\ \E b \in BookingOf(req[r].key): b.payload # req[r].payload
    /\ End(r)
    /\ UNCHANGED <<gvars, ivars>>

\* The window, the service, the address, the legal entity and the answers are
\* checked before and after the slot is locked; any of them may be refused.
Lookup(r) ==
    /\ At(r, "create") /\ BookingKeyFree(req[r].key)
    /\ BookingOf(req[r].key) = {}
    /\ End(r) \/ (Covered(req[r].payload.address) /\ Continue(r, [req[r] EXCEPT !.op = "slot"]))
    /\ UNCHANGED <<gvars, ivars>>

Search(r) ==
    /\ At(r, "slot") /\ SlotFree(req[r].payload)
    /\ \/ End(r)
       \/ Available(req[r].payload) /\ Continue(r, [req[r] EXCEPT !.op = "insert"])
    /\ UNCHANGED <<gvars, ivars>>

Insert(r) ==
    /\ At(r, "insert")
    /\ bookings' = bookings \cup
          {[key |-> req[r].key, payload |-> req[r].payload, holds |-> TRUE]}
    /\ address' = [address EXCEPT ![req[r].payload.address].owned = @ \/ req[r].account]
    /\ IF req[r].intent = NULL THEN End(r)
       ELSE Continue(r, [op |-> "booked", submitted |-> req[r].intent, key |-> req[r].key])
    /\ UNCHANGED <<gvars, intent>>

\* The second commit writes what was read before the first.
FinishSubmit(r) ==
    /\ At(r, "booked") /\ IntentFree(req[r].submitted)
    /\ SetIntent(req[r].submitted, Submitted(req[r].submitted, req[r].key))
    /\ End(r)
    /\ UNCHANGED <<gvars, address, bookings>>

\* The process stops, or the connection is lost, between the two commits.
LoseSubmit(r) ==
    /\ At(r, "booked")
    /\ End(r)
    /\ UNCHANGED <<gvars, ivars>>

\* The 30 minutes of a tentative hold pass.
HoldExpires(b) ==
    /\ b \in bookings /\ b.holds
    /\ bookings' = (bookings \ {b}) \cup {[b EXCEPT !.holds = FALSE]}
    /\ UNCHANGED <<gvars, address, intent, req>>
=============================================================================
