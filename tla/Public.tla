------------------------------- MODULE Public -------------------------------
(***************************************************************************)
(* The public site and the administration of its zones at once: addresses  *)
(* are routed and intents priced against zones that administrators edit,   *)
(* visitors book the same slots through intents and directly, and          *)
(* destinations withdraw and give their consent.                           *)
(***************************************************************************)
EXTENDS Intents, Consent

CONSTANT Loads  \* the parts of the API that are called together

VARIABLE load   \* the parts that this behaviour calls

vars == <<zone, rows, offers, imported, address, intent, bookings,
          suppressed, withdrawn, load, req>>

TypeOK ==
    /\ zone \in Zone \cup {NULL} /\ (zone # NULL => zone.version \in 1..MaxVersion)
    /\ rows \in [Codes -> Flags \cup {NULL}]
    /\ offers \in [Services -> Flags \cup {NULL}]
    /\ imported \in [ImportKeys -> ImportFiles \cup {NULL}]
    /\ address \in [Addresses -> [code: Codes, covered: BOOLEAN, owned: BOOLEAN] \cup {NULL}]
    /\ \A i \in Intents: intent[i] = NULL \/ intent[i].status \in IntentStatus
    /\ \A b \in bookings: b.key \in BookingKeys
    /\ suppressed \in [Purposes -> BOOLEAN \cup {NULL}]
    /\ withdrawn \subseteq Purposes
    /\ load \in Loads

Init ==
    /\ zone = NULL
    /\ rows = [c \in Codes |-> NULL] /\ offers = [s \in Services |-> NULL]
    /\ imported = [k \in ImportKeys |-> NULL]
    /\ address = [a \in Addresses |-> NULL]
    /\ intent = [i \in Intents |-> NULL] /\ bookings = {}
    /\ suppressed = [p \in Purposes |-> NULL] /\ withdrawn = {}
    /\ load \in Loads
    /\ req = [r \in Requests |-> Idle]

CreateStep ==
    \/ \E c \in ZoneCommands: CreateZone(c)
    \/ \E c \in Codes, f \in Flags: CreatePostalCode(c, f)

ZoneStep(r) ==
    \/ GetZone(r) \/ GetRows(r)
    \/ \E c \in ZoneCommands: BeginUpdateZone(r, c)
    \/ UpdateZone(r) \/ DeactivateZone(r)
    \/ \E c \in Codes, f \in Flags: BeginUpdatePostalCode(r, c, f)
    \/ \E c \in Codes: BeginDeactivatePostalCode(r, c)
    \/ WritePostalCode(r)
    \/ \E k \in ImportKeys, f \in ImportFiles: BeginImport(r, k, f)
    \/ ImportPostalCodes(r)
    \/ \E q \in Requests: DeadlockDetected(r, q)

VisitorStep ==
    \/ \E a \in Addresses, c \in Codes: ValidateForBooking(a, c) \/ ValidateAddress(a, c)
    \/ \E i \in Intents:
        \/ \E s \in Services: CreateIntent(i, s)
        \/ IntentLapses(i) \/ RejectExpired(i) \/ AbandonIntent(i)
        \/ \E c \in IntentCommands: UpdateIntent(i, c)
    \/ \E b \in bookings: HoldExpires(b)

BookingStep(r) ==
    \/ \E k \in BookingKeys, account \in BOOLEAN:
        \/ \E i \in Intents: BeginSubmit(r, i, k, account)
        \/ \E p \in BookingBodies: BeginBooking(r, k, p, account)
    \/ ReturnExisting(r) \/ KeyConflict(r) \/ Lookup(r) \/ Search(r) \/ Insert(r)
    \/ FinishSubmit(r) \/ LoseSubmit(r)

ConsentStep(r) ==
    \/ \E g \in SUBSET Preferences: SetPreferences(r, g)
    \/ RevokeBySms(r) \/ OptOut(r)
    \/ \E p \in Purposes: Select(r, p)
    \/ SaveConsent(r)

Next ==
    /\ \/ /\ load # {"consent"}
          /\ CreateStep
          /\ UNCHANGED <<ivars, cvars>>
       \/ /\ "edits" \in load
          /\ \E r \in Requests: ZoneStep(r)
          /\ UNCHANGED <<ivars, cvars>>
       \/ /\ "visits" \in load
          /\ VisitorStep \/ \E r \in Requests: BookingStep(r)
          /\ UNCHANGED cvars
       \/ /\ "consent" \in load
          /\ \E r \in Requests: ConsentStep(r)
          /\ UNCHANGED <<gvars, ivars>>
    /\ UNCHANGED load

Spec == Init /\ [][Next]_vars

-----------------------------------------------------------------------------
(***************************************************************************)
(* The array that the booking domain routes by lists the codes, and only   *)
(* the codes, that have an active row with regular service: no edit of a   *)
(* zone, of a row or of a file leaves it behind, and an emergency-only row *)
(* does not reach it (sync_legacy_postal_codes).                           *)
(***************************************************************************)
LegacyAgrees == zone # NULL => zone.postal_codes = Legacy(rows)

(***************************************************************************)
(* An administrator who replaces the codes of a zone replaces the codes    *)
(* that were shown: no code that was added, imported or removed since is   *)
(* dropped or revived unseen, because each such edit increments the        *)
(* version of the zone and the version is read before the rows             *)
(* (get_zone, _require_version).                                           *)
(***************************************************************************)
ReplacesWhatWasSeen ==
    \A r \in Requests: At(r, "zone") => req[r].saw = ActiveRows(rows)

(***************************************************************************)
(* Submitting an intent again with the same key, after a failure between   *)
(* the two commits, ends with the intent SUBMITTED and naming the booking  *)
(* of the first attempt; in particular the capacity which that booking     *)
(* holds does not refuse its own retry (submit, BookingService.create).    *)
(***************************************************************************)
RetryIsSafe ==
    [][\A r \in Requests:
        /\ req[r].op \in Creating /\ req[r].intent # NULL
        /\ req'[r] = Idle
        /\ \E b \in bookings: b.key = req[r].key /\ b.payload = req[r].payload
        => /\ intent'[req[r].intent].status = "SUBMITTED"
           /\ intent'[req[r].intent].booking = req[r].key]_vars

(***************************************************************************)
(* No window holds more unexpired bookings of a service than it has        *)
(* eligible providers, however submissions and direct bookings overlap     *)
(* (lock_slot, AvailabilityService.search).                                *)
(***************************************************************************)
SlotWithinCapacity == \A b \in bookings: Held(b.payload) <= Capacity

(***************************************************************************)
(* A withdrawal that was acknowledged, and that no grant has overlapped or *)
(* followed, is in force (suppress, preferences, sms_revocation).          *)
(***************************************************************************)
WithdrawalHolds == \A p \in withdrawn: suppressed[p] = TRUE
=============================================================================
