---------------------------- MODULE PublicProofs ----------------------------
(***************************************************************************)
(* Theorems about the public site, for any number of requests in flight    *)
(* and any mixture of edits, visits and consents: the copy of a zone's     *)
(* codes follows its rows, a replacement replaces what was shown, windows  *)
(* are not overbooked, a lost submission can be repeated, and a withdrawal *)
(* stays in force.                                                         *)
(***************************************************************************)
EXTENDS Public, FiniteSetTheorems, TLAPS

-----------------------------------------------------------------------------
(* What the requests in flight know *)

Editing == {"get", "got", "zone", "row", "import"}

\* An edit under way is of the zone that exists.  What a request was shown is still
\* so as long as the version it was shown is the zone's, because the version was
\* read first; and the lock of the zone has one holder.
ShownInv ==
    /\ zone \in Zone \cup {NULL}
    /\ \A r \in Requests:
        /\ req[r].op \in Editing => zone # NULL
        /\ req[r].op \in {"get", "got"} => req[r].version \in Nat /\ req[r].version <= zone.version
        /\ At(r, "got") /\ req[r].version = zone.version => req[r].saw = ActiveRows(rows)
    /\ \A r \in Requests: At(r, "zone") => req[r].command \in ZoneCommands
    /\ \A q, r \in Requests:
        req[q].op \in {"zone", "import"} /\ req[r].op \in {"zone", "import"} => q = r
    /\ ReplacesWhatWasSeen
    /\ LegacyAgrees

Payloads == [service: Services, address: Addresses \cup {NULL}, slot: Slots \cup {NULL}]

IntentRow ==
    [status: IntentStatus, service: Services, address: Addresses \cup {NULL}, dated: BOOLEAN,
     slot: Slots \cup {NULL}, booking: BookingKeys \cup {NULL}, late: BOOLEAN]

BookingRow == [key: BookingKeys, payload: Payloads, holds: BOOLEAN]

CreateRequest ==
    [op: Creating, intent: Intents \cup {NULL}, key: BookingKeys, payload: Payloads,
     account: BOOLEAN]

BookingsTyped ==
    /\ intent \in [Intents -> IntentRow \cup {NULL}]
    /\ bookings \subseteq BookingRow /\ IsFiniteSet(bookings)
    /\ \A r \in Requests:
        /\ req[r].op \in Creating =>
            /\ req[r] \in CreateRequest
            /\ req[r].intent # NULL => intent[req[r].intent] \in IntentRow
        /\ At(r, "booked") =>
            /\ req[r].submitted \in Intents /\ intent[req[r].submitted] \in IntentRow
            /\ req[r].key \in BookingKeys

\* A key has one booking, and none while a request that has looked it up holds its
\* lock; no other request holds it then.
KeyInv ==
    /\ \A b, c \in bookings: b.key = c.key => b = c
    /\ \A r \in Requests: req[r].op \in {"slot", "insert"} => BookingOf(req[r].key) = {}
    /\ \A q, r \in Requests:
        /\ req[q].op \in {"slot", "insert"} /\ req[r].op \in {"slot", "insert"}
        /\ req[q].key = req[r].key
        => q = r

SameWindow(p, s) == p.service = s.service /\ p.slot = s.slot

\* Who is about to insert still has the room that was found under the window's lock,
\* and is alone with it.
RoomInv ==
    /\ \A r \in Requests: At(r, "insert") => Held(req[r].payload) < Capacity
    /\ \A q, r \in Requests:
        At(q, "insert") /\ At(r, "insert") /\ SameWindow(req[q].payload, req[r].payload) => q = r
    /\ SlotWithinCapacity

BookingsInv == BookingsTyped /\ KeyInv /\ RoomInv

\* No grant overlaps what is withdrawn, nor what a request under way will withdraw:
\* what it found suppressed is suppressed still.
WithdrawalInv ==
    /\ DOMAIN suppressed = Purposes
    /\ \A r \in Requests: At(r, "consent") =>
        /\ DOMAIN req[r] = {"op", "stop", "grant", "read", "alone"}
        /\ req[r].stop \subseteq Purposes /\ req[r].alone \subseteq req[r].stop
        /\ \A p \in req[r].alone:
            /\ ~Granting(p)
            /\ p \in DOMAIN req[r].read /\ req[r].read[p] = TRUE => suppressed[p] = TRUE
    /\ \A p \in withdrawn: p \in Purposes /\ ~Granting(p)
    /\ WithdrawalHolds

PublicInv == DOMAIN req = Requests /\ ShownInv /\ BookingsInv /\ WithdrawalInv

-----------------------------------------------------------------------------
(* Requests that a step leaves alone *)

\* No request begins, leaves or continues one of these operations.
Untouched(ops) ==
    \A q \in Requests: req[q].op \in ops \/ req'[q].op \in ops => req'[q] = req[q]

LEMMA Continues ==
    ASSUME DOMAIN req = Requests, NEW r \in Requests, NEW v, Continue(r, v)
    PROVE  /\ DOMAIN req' = Requests
           /\ req'[r] = v
           /\ \A q \in Requests \ {r}: req'[q] = req[q]
  BY DEF Continue

LEMMA Ends ==
    ASSUME DOMAIN req = Requests, NEW r \in Requests, End(r)
    PROVE  /\ DOMAIN req' = Requests
           /\ req'[r].op = "idle"
           /\ \A q \in Requests \ {r}: req'[q] = req[q]
  BY Continues DEF End, Idle

LEMMA Begins ==
    ASSUME DOMAIN req = Requests, NEW r \in Requests, NEW v, Begin(r, v)
    PROVE  /\ DOMAIN req' = Requests
           /\ req[r].op = "idle" /\ req'[r] = v
           /\ \A q \in Requests \ {r}: req'[q] = req[q]
  BY Continues DEF Begin, At

LEMMA ShownFrame ==
    ASSUME ShownInv, UNCHANGED <<zone, rows>>, Untouched(Editing)
    PROVE  ShownInv'
  <1>1. ReplacesWhatWasSeen' /\ LegacyAgrees'
    BY DEF ShownInv, Untouched, Editing, ReplacesWhatWasSeen, LegacyAgrees, At, Legacy, ActiveRows
  <1> QED
    BY <1>1 DEF ShownInv, Untouched, Editing, At, ActiveRows

Booking == Creating \cup {"booked"}

LEMMA BookingsFrame ==
    ASSUME BookingsInv, UNCHANGED <<intent, bookings>>, Untouched(Booking)
    PROVE  BookingsInv'
  <1> USE DEF Untouched, Booking, Creating, At
  <1>1. BookingsTyped'
    BY DEF BookingsInv, BookingsTyped
  <1>2. KeyInv'
    BY DEF BookingsInv, KeyInv, BookingOf
  <1>3. RoomInv'
    <2>1. SlotWithinCapacity'
      BY DEF BookingsInv, RoomInv, SlotWithinCapacity, Held
    <2> QED
      BY <2>1 DEF BookingsInv, RoomInv, SameWindow, Held
  <1> QED
    BY <1>1, <1>2, <1>3 DEF BookingsInv

LEMMA WithdrawalFrame ==
    ASSUME WithdrawalInv, UNCHANGED cvars, Untouched({"consent"})
    PROVE  WithdrawalInv'
  <1>1. \A p: Granting(p)' => Granting(p)
    BY DEF Granting, At, Untouched
  <1>2. WithdrawalHolds'
    BY DEF WithdrawalInv, WithdrawalHolds, cvars
  <1> QED
    BY <1>1, <1>2 DEF WithdrawalInv, Untouched, At, cvars

-----------------------------------------------------------------------------
(* Zones and postal codes *)

\* Writing rows under the zone's lock, or when nobody has it, gives the zone a new
\* version, and what others were shown is outdated.
LEMMA Saved ==
    ASSUME ShownInv, DOMAIN req = Requests, zone # NULL, NEW z \in Zone, NEW rws, Save(z, rws),
           \A q \in Requests: /\ req'[q] = req[q] \/ req'[q].op = "idle"
                              /\ ~At(q, "zone")'
    PROVE  ShownInv'
  <1>1. zone.version \in Nat
    BY DEF ShownInv, Zone
  <1>2. zone' \in Zone /\ zone'.version = zone.version + 1 /\ zone'.postal_codes = Legacy(rows')
    <2>1. Legacy(rws) \subseteq Codes
      BY GeographyAssumption DEF Legacy, ActiveRows
    <2>2. zone' = [z EXCEPT !.version = zone.version + 1, !.postal_codes = Legacy(rws)]
          /\ rows' = rws
      BY DEF Save
    <2>3. [z EXCEPT !.version = zone.version + 1] \in Zone
      BY <1>1 DEF Zone
    <2>4. zone' \in Zone /\ zone'.version = zone.version + 1 /\ zone'.postal_codes = Legacy(rws)
      BY <1>1, <2>1, <2>2, <2>3 DEF Zone
    <2> QED
      BY <2>2, <2>4 DEF Legacy, ActiveRows
  <1>3. zone' # NULL
    BY <1>2, ZoneAssumption
  <1>4. LegacyAgrees'
    BY <1>2 DEF LegacyAgrees, Legacy, ActiveRows
  <1>5. ReplacesWhatWasSeen'
    BY DEF ReplacesWhatWasSeen, At
  <1>6. ASSUME NEW q \in Requests
        PROVE  /\ req'[q].op \in {"get", "got"} =>
                    req'[q].version \in Nat /\ req'[q].version < zone'.version
    <2>1. CASE req'[q] = req[q]
      BY <1>1, <1>2, <2>1 DEF ShownInv, Editing
    <2> QED
      BY <2>1
  <1> QED
    BY <1>1, <1>2, <1>3, <1>4, <1>5, <1>6 DEF ShownInv, At, Editing

LEMMA CreateShown ==
    ASSUME ShownInv, DOMAIN req = Requests, CreateStep
    PROVE  ShownInv'
  <1>1. ASSUME NEW c \in ZoneCommands, CreateZone(c) PROVE ShownInv'
    <2>1. zone' = [active |-> c.active, selector |-> c.selector, version |-> 1,
                   postal_codes |-> Legacy(rows')]
      BY <1>1 DEF CreateZone
    <2>2. Legacy(rows') \subseteq Codes
      BY GeographyAssumption DEF Legacy, ActiveRows
    <2>3. c.active \in BOOLEAN /\ c.selector \in Selectors
      BY <1>1, GeographyAssumption DEF CreateZone, ZoneCommand
    <2>4. zone' \in Zone
      BY <2>1, <2>2, <2>3 DEF Zone
    <2>5. zone = NULL /\ req' = req
      BY <1>1 DEF CreateZone
    <2>6. \A q \in Requests: req[q].op \notin Editing
      BY <2>5 DEF ShownInv
    <2>7. ReplacesWhatWasSeen' /\ LegacyAgrees'
      BY <2>1, <2>5, <2>6 DEF ReplacesWhatWasSeen, LegacyAgrees, At, Editing, Legacy, ActiveRows
    <2> QED
      BY <2>4, <2>5, <2>6, <2>7 DEF ShownInv, Editing, At
  <1>2. ASSUME NEW c \in Codes, NEW f \in Flags, CreatePostalCode(c, f) PROVE ShownInv'
    <2>1. zone # NULL /\ zone \in Zone /\ req' = req
      BY <1>2 DEF CreatePostalCode, CanWrite, ShownInv
    <2>2. \A q \in Requests: ~At(q, "zone")'
      BY <1>2, <2>1 DEF CreatePostalCode, ZoneFree, At
    <2> QED
      BY <1>2, <2>1, <2>2, Saved DEF CreatePostalCode
  <1> QED
    BY <1>1, <1>2 DEF CreateStep

LEMMA UpdateZoneShown ==
    ASSUME ShownInv, DOMAIN req = Requests, NEW r \in Requests, UpdateZone(r)
    PROVE  ShownInv'
  <1> DEFINE c == req[r].command
             selector == Given(c.selector, zone.selector)
  <1>1. At(r, "zone") /\ End(r)
    BY DEF UpdateZone
  <1>2. /\ req'[r].op = "idle"
        /\ \A q \in Requests \ {r}: req'[q] = req[q] /\ req[q].op \notin {"zone", "import"}
    BY <1>1, Ends DEF ShownInv, At
  <1>3. zone # NULL /\ zone \in Zone
    BY <1>1 DEF ShownInv, At, Editing
  <1>4. CASE UNCHANGED <<zone, rows, offers>>
    <2>1. ReplacesWhatWasSeen' /\ LegacyAgrees'
      BY <1>2, <1>4 DEF ShownInv, ReplacesWhatWasSeen, LegacyAgrees, At, Legacy, ActiveRows
    <2> QED
      BY <1>2, <1>3, <1>4, <2>1 DEF ShownInv, Editing, At, ActiveRows
  <1>5. CASE Save([zone EXCEPT !.active = Given(c.active, @), !.selector = selector],
                  RowsAfter(c))
    <2>1. [zone EXCEPT !.active = Given(c.active, @), !.selector = selector] \in Zone
      <3>1. c \in ZoneCommand
        BY <1>1, GeographyAssumption DEF ShownInv
      <3>2. Given(c.active, zone.active) \in BOOLEAN /\ selector \in Selectors
        BY <1>3, <3>1 DEF Given, Zone, ZoneCommand
      <3> HIDE DEF c, selector
      <3>3. [zone EXCEPT !.active = Given(c.active, @)] \in Zone
        BY <1>3, <3>2 DEF Zone
      <3> QED
        BY <1>3, <3>2, <3>3 DEF Zone
    <2> QED
      BY <1>2, <1>3, <1>5, <2>1, Saved DEF At
  <1> QED
    BY <1>4, <1>5 DEF UpdateZone

\* The reads of an administrator, and the edit that begins from them
LEMMA ReadsShown ==
    ASSUME ShownInv, DOMAIN req = Requests, NEW r \in Requests,
           \/ GetZone(r) \/ GetRows(r)
           \/ \E c \in ZoneCommands: BeginUpdateZone(r, c)
    PROVE  ShownInv'
  <1>1. CASE GetZone(r)
    <2>1. /\ zone # NULL /\ UNCHANGED <<zone, rows>>
          /\ req'[r] = [op |-> "get", version |-> zone.version]
          /\ \A q \in Requests \ {r}: req'[q] = req[q]
      BY <1>1, Begins DEF GetZone, gvars
    <2>2. zone \in Zone /\ zone.version \in Nat
      BY <2>1 DEF ShownInv, Zone
    <2>3. ReplacesWhatWasSeen' /\ LegacyAgrees'
      BY <2>1 DEF ShownInv, ReplacesWhatWasSeen, LegacyAgrees, At, Legacy, ActiveRows
    <2> QED
      BY <2>1, <2>2, <2>3 DEF ShownInv, Editing, At, ActiveRows
  <1>2. CASE GetRows(r)
    <2>1. /\ At(r, "get") /\ UNCHANGED <<zone, rows>>
          /\ req'[r] = [op |-> "got", version |-> req[r].version, saw |-> ActiveRows(rows)]
          /\ \A q \in Requests \ {r}: req'[q] = req[q]
      BY <1>2, Continues DEF GetRows, gvars
    <2>2. ReplacesWhatWasSeen' /\ LegacyAgrees'
      BY <2>1 DEF ShownInv, ReplacesWhatWasSeen, LegacyAgrees, At, Legacy, ActiveRows
    <2> QED
      BY <2>1, <2>2 DEF ShownInv, Editing, At, ActiveRows
  <1>3. ASSUME NEW c \in ZoneCommands, BeginUpdateZone(r, c) PROVE ShownInv'
    <2>1. At(r, "got") /\ ZoneFree /\ UNCHANGED <<zone, rows>>
      BY <1>3 DEF BeginUpdateZone, gvars
    <2>2. CASE End(r)
      <3>1. req'[r].op = "idle" /\ \A q \in Requests \ {r}: req'[q] = req[q]
        BY <2>2, Ends
      <3>2. ReplacesWhatWasSeen' /\ LegacyAgrees'
        BY <2>1, <3>1 DEF ShownInv, ReplacesWhatWasSeen, LegacyAgrees, At, Legacy, ActiveRows
      <3> QED
        BY <2>1, <3>1, <3>2 DEF ShownInv, Editing, At, ActiveRows
    <2>3. CASE /\ zone.version = req[r].version
               /\ Continue(r, [op |-> "zone", command |-> c, saw |-> req[r].saw])
      <3>1. /\ req'[r] = [op |-> "zone", command |-> c, saw |-> req[r].saw]
            /\ \A q \in Requests \ {r}: req'[q] = req[q]
        BY <2>3, Continues
      <3>2. req[r].saw = ActiveRows(rows) /\ zone # NULL
        BY <2>1, <2>3 DEF ShownInv, At, Editing
      <3>3. ReplacesWhatWasSeen' /\ LegacyAgrees'
        BY <2>1, <3>1, <3>2
           DEF ShownInv, ReplacesWhatWasSeen, LegacyAgrees, At, Legacy, ActiveRows
      <3> QED
        BY <2>1, <3>1, <3>2, <3>3 DEF ShownInv, Editing, At, ActiveRows, ZoneFree
    <2> QED
      BY <1>3, <2>2, <2>3 DEF BeginUpdateZone
  <1> QED
    BY <1>1, <1>2, <1>3

\* A request that begins with a row or a file, and one that is rolled back
LEMMA LocksShown ==
    ASSUME ShownInv, DOMAIN req = Requests, NEW r \in Requests,
           \/ \E c \in Codes: \E f: BeginRow(r, c, f)
           \/ \E k \in ImportKeys, f \in ImportFiles: BeginImport(r, k, f)
           \/ \E q \in Requests: DeadlockDetected(r, q)
    PROVE  ShownInv'
  <1>1. ASSUME NEW c \in Codes, NEW f, BeginRow(r, c, f) PROVE ShownInv'
    <2>1. /\ zone # NULL /\ UNCHANGED <<zone, rows>>
          /\ req[r].op = "idle" /\ req'[r].op = "row"
          /\ \A q \in Requests \ {r}: req'[q] = req[q]
      BY <1>1, Begins DEF BeginRow, CanWrite, gvars
    <2>2. ReplacesWhatWasSeen' /\ LegacyAgrees'
      BY <2>1 DEF ShownInv, ReplacesWhatWasSeen, LegacyAgrees, At, Legacy, ActiveRows
    <2> QED
      BY <2>1, <2>2 DEF ShownInv, Editing, At, ActiveRows
  <1>2. ASSUME NEW k \in ImportKeys, NEW f \in ImportFiles, BeginImport(r, k, f) PROVE ShownInv'
    <2>1. /\ zone # NULL /\ UNCHANGED <<zone, rows>> /\ ZoneFree
          /\ req[r].op = "idle" /\ req'[r].op = "import"
          /\ \A q \in Requests \ {r}: req'[q] = req[q]
      BY <1>2, Begins DEF BeginImport, CanWrite, gvars
    <2>2. ReplacesWhatWasSeen' /\ LegacyAgrees'
      BY <2>1 DEF ShownInv, ReplacesWhatWasSeen, LegacyAgrees, At, Legacy, ActiveRows
    <2> QED
      BY <2>1, <2>2 DEF ShownInv, Editing, At, ActiveRows, ZoneFree
  <1>3. ASSUME NEW q \in Requests, DeadlockDetected(r, q) PROVE ShownInv'
    <2>1. PICK x \in Requests: End(x)
      BY <1>3 DEF DeadlockDetected
    <2>2. /\ UNCHANGED <<zone, rows>>
          /\ req'[x].op = "idle" /\ \A y \in Requests \ {x}: req'[y] = req[y]
      BY <1>3, <2>1, Ends DEF DeadlockDetected, gvars
    <2>3. ReplacesWhatWasSeen' /\ LegacyAgrees'
      BY <2>2 DEF ShownInv, ReplacesWhatWasSeen, LegacyAgrees, At, Legacy, ActiveRows
    <2> QED
      BY <2>2, <2>3 DEF ShownInv, Editing, At, ActiveRows
  <1> QED
    BY <1>1, <1>2, <1>3

\* The edits that write a row, a file, or the zone alone
LEMMA WritesShown ==
    ASSUME ShownInv, DOMAIN req = Requests, NEW r \in Requests,
           WritePostalCode(r) \/ ImportPostalCodes(r) \/ DeactivateZone(r)
    PROVE  ShownInv'
  <1>0. End(r) /\ req[r].op \in {"row", "import", "got"}
    BY DEF WritePostalCode, ImportPostalCodes, DeactivateZone, At
  <1>1. /\ req'[r].op = "idle" /\ \A q \in Requests \ {r}: req'[q] = req[q]
    BY <1>0, Ends
  <1>2. zone # NULL /\ zone \in Zone
    BY <1>0 DEF ShownInv, Editing
  <1>3. \A q \in Requests: ~At(q, "zone")'
    <2>1. CASE ZoneFree
      BY <1>1, <2>1 DEF ZoneFree, At
    <2>2. CASE At(r, "import")
      BY <1>1, <2>2 DEF ShownInv, At
    <2> QED
      BY <2>1, <2>2 DEF WritePostalCode, ImportPostalCodes, DeactivateZone
  <1>4. CASE WritePostalCode(r)
    BY <1>1, <1>2, <1>3, <1>4, Saved DEF WritePostalCode, SaveRow
  <1>5. CASE ImportPostalCodes(r)
    <2>1. \E rws: Save(zone, rws)
      BY <1>5 DEF ImportPostalCodes
    <2> QED
      BY <1>1, <1>2, <1>3, <2>1, Saved
  <1>6. CASE DeactivateZone(r)
    <2>1. zone' = [zone EXCEPT !.active = FALSE, !.version = @ + 1] /\ rows' = rows
      BY <1>6 DEF DeactivateZone
    <2>2. zone.version \in Nat /\ [zone EXCEPT !.active = FALSE] \in Zone
      BY <1>2 DEF Zone
    <2>3. /\ zone' \in Zone /\ zone'.version = zone.version + 1
          /\ zone'.postal_codes = zone.postal_codes
      <3> DEFINE z == [zone EXCEPT !.active = FALSE]
      <3>1. z.version = zone.version /\ z.postal_codes = zone.postal_codes
        BY <1>2 DEF Zone
      <3>2. zone' = [z EXCEPT !.version = @ + 1]
        BY <2>1
      <3>3. z \in Zone /\ zone.version \in Nat
        BY <2>2
      <3> HIDE DEF z
      <3> QED
        BY <3>1, <3>2, <3>3 DEF Zone
    <2>4. zone' # NULL
      BY <2>3, ZoneAssumption
    <2>5. LegacyAgrees'
      BY <1>2, <2>1, <2>3 DEF ShownInv, LegacyAgrees, Legacy, ActiveRows
    <2>6. ReplacesWhatWasSeen'
      BY <1>3 DEF ReplacesWhatWasSeen
    <2> QED
      BY <1>1, <1>3, <2>2, <2>3, <2>4, <2>5, <2>6 DEF ShownInv, Editing, At
  <1> QED
    BY <1>4, <1>5, <1>6

LEMMA ZoneShown ==
    ASSUME ShownInv, DOMAIN req = Requests, NEW r \in Requests, ZoneStep(r)
    PROVE  ShownInv'
  <1>1. ASSUME NEW c \in Codes, NEW f, BeginUpdatePostalCode(r, c, f) PROVE ShownInv'
    BY <1>1, LocksShown DEF BeginUpdatePostalCode
  <1>2. ASSUME NEW c \in Codes, BeginDeactivatePostalCode(r, c) PROVE ShownInv'
    BY <1>2, LocksShown DEF BeginDeactivatePostalCode
  <1> QED
    BY <1>1, <1>2, ReadsShown, UpdateZoneShown, LocksShown, WritesShown DEF ZoneStep

-----------------------------------------------------------------------------
(* Intents and bookings *)

\* What the requests that book rely on, kept by a step that may end some of them
\* and writes intents only
LEMMA IntentWritten ==
    ASSUME BookingsInv, UNCHANGED bookings, intent' \in [Intents -> IntentRow \cup {NULL}],
           \A i \in Intents: intent[i] \in IntentRow => intent'[i] \in IntentRow,
           \A q \in Requests: req'[q] = req[q] \/ req'[q].op = "idle"
    PROVE  BookingsInv'
  <1> USE DEF Creating, At
  <1>1. BookingsTyped'
    BY DEF BookingsInv, BookingsTyped, CreateRequest
  <1>2. KeyInv'
    BY DEF BookingsInv, KeyInv, BookingOf
  <1>3. RoomInv'
    <2>1. SlotWithinCapacity'
      BY DEF BookingsInv, RoomInv, SlotWithinCapacity, Held
    <2> QED
      BY <2>1 DEF BookingsInv, RoomInv, SameWindow, Held
  <1> QED
    BY <1>1, <1>2, <1>3 DEF BookingsInv

LEMMA SetIntentTyped ==
    ASSUME BookingsInv, NEW i \in Intents, NEW v \in IntentRow, SetIntent(i, v)
    PROVE  /\ intent' \in [Intents -> IntentRow \cup {NULL}]
           /\ \A j \in Intents: intent[j] \in IntentRow => intent'[j] \in IntentRow
  BY DEF SetIntent, BookingsInv, BookingsTyped

LEMMA UpdatedIsRow ==
    ASSUME NEW v \in IntentRow, NEW c \in IntentCommand
    PROVE  WithSlot(WithDate(WithAddress(WithService(v, c), c), c), c) \in IntentRow
  <1>0. \A a: StatusOf(a) \in IntentStatus
    BY DEF StatusOf, IntentStatus, Editable
  <1>1. ASSUME NEW x \in IntentRow PROVE WithService(x, c) \in IntentRow
    BY DEF WithService, IntentRow, IntentCommand, IntentStatus, Editable
  <1>2. ASSUME NEW x \in IntentRow PROVE WithAddress(x, c) \in IntentRow
    BY <1>0 DEF WithAddress, IntentRow, IntentCommand
  <1>3. ASSUME NEW x \in IntentRow PROVE WithDate(x, c) \in IntentRow
    BY DEF WithDate, IntentRow, IntentCommand
  <1>4. ASSUME NEW x \in IntentRow PROVE WithSlot(x, c) \in IntentRow
    <2>1. CASE c.slot = ABSENT
      BY <2>1, IntentsAssumption DEF WithSlot
    <2>2. CASE c.slot # ABSENT /\ c.slot = NULL
      BY <1>0, <2>2 DEF WithSlot, IntentRow
    <2>3. CASE c.slot # ABSENT /\ c.slot # NULL
      BY <2>3 DEF WithSlot, IntentRow, IntentCommand, IntentStatus, Editable
    <2> QED
      BY <2>1, <2>2, <2>3
  <1> QED
    BY <1>1, <1>2, <1>3, <1>4

LEMMA ExpiredHold ==
    ASSUME BookingsInv, UNCHANGED <<intent, req>>, NEW b \in bookings, HoldExpires(b)
    PROVE  BookingsInv'
  <1> DEFINE d == [b EXCEPT !.holds = FALSE]
             At1(s, p) == {x \in s: x.holds /\ x.payload.service = p.service
                                            /\ x.payload.slot = p.slot}
  <1>1. bookings' = (bookings \ {b}) \cup {d}
    BY DEF HoldExpires
  <1>2. bookings \subseteq BookingRow /\ b \in BookingRow /\ IsFiniteSet(bookings)
    BY DEF BookingsInv, BookingsTyped
  <1>3. d \in BookingRow /\ d.key = b.key /\ d.payload = b.payload /\ d.holds = FALSE
    BY <1>2 DEF BookingRow
  <1> HIDE DEF d
  <1>4. IsFiniteSet(bookings') /\ bookings' \subseteq BookingRow
    <2>1. IsFiniteSet(bookings \ {b})
      BY <1>2, FS_Subset
    <2>2. IsFiniteSet((bookings \ {b}) \cup {d})
      BY <2>1, FS_AddElement
    <2> QED
      BY <1>1, <1>2, <1>3, <2>2
  <1>5. BookingsTyped'
    BY <1>4 DEF BookingsInv, BookingsTyped, At
  <1>6. KeyInv'
    BY <1>1, <1>3 DEF BookingsInv, KeyInv, BookingOf
  <1>7. \A p: Held(p)' <= Held(p) /\ Held(p) \in Nat /\ Held(p)' \in Nat
    <2> SUFFICES ASSUME NEW p PROVE Held(p)' <= Held(p) /\ Held(p) \in Nat /\ Held(p)' \in Nat
      OBVIOUS
    <2>1. At1(bookings', p) \subseteq At1(bookings, p) /\ At1(bookings, p) \subseteq bookings
      BY <1>1, <1>3
    <2>2. IsFiniteSet(At1(bookings, p)) /\ IsFiniteSet(At1(bookings', p))
      BY <1>2, <2>1, FS_Subset
    <2>3. /\ Cardinality(At1(bookings', p)) <= Cardinality(At1(bookings, p))
          /\ Cardinality(At1(bookings', p)) \in Nat /\ Cardinality(At1(bookings, p)) \in Nat
      BY <2>1, <2>2, FS_Subset, FS_CardinalityType
    <2>4. Held(p) = Cardinality(At1(bookings, p)) /\ Held(p)' = Cardinality(At1(bookings', p))
      BY DEF Held
    <2> QED
      BY <2>3, <2>4
  <1>8. RoomInv'
    <2>1. SlotWithinCapacity'
      <3> SUFFICES ASSUME NEW x \in bookings' PROVE Held(x.payload)' <= Capacity
        BY DEF SlotWithinCapacity, Held
      <3>1. PICK y \in bookings: y.payload = x.payload
        BY <1>1, <1>3
      <3>2. Held(y.payload) <= Capacity
        BY DEF BookingsInv, RoomInv, SlotWithinCapacity
      <3> QED
        BY <1>7, <3>1, <3>2, IntentsAssumption
    <2>2. \A r \in Requests: At(r, "insert")' => Held(req[r].payload)' < Capacity
      BY <1>7, IntentsAssumption DEF BookingsInv, RoomInv, At
    <2> QED
      BY <2>1, <2>2 DEF BookingsInv, RoomInv, SameWindow, At, Held
  <1> QED
    BY <1>5, <1>6, <1>8 DEF BookingsInv

LEMMA VisitorBookings ==
    ASSUME BookingsInv, VisitorStep
    PROVE  BookingsInv' /\ req' = req /\ UNCHANGED <<zone, rows>>
  <1>1. ASSUME NEW a \in Addresses, NEW c \in Codes, ValidateForBooking(a, c) \/ ValidateAddress(a, c)
        PROVE  BookingsInv' /\ req' = req /\ UNCHANGED <<zone, rows>>
    <2>1. UNCHANGED <<gvars, intent, bookings, req>>
      BY <1>1 DEF ValidateForBooking, ValidateAddress, AddAddress
    <2> QED
      BY <2>1, BookingsFrame DEF Untouched, gvars
  <1>2. ASSUME NEW i \in Intents, NEW v \in IntentRow, SetIntent(i, v),
               UNCHANGED <<gvars, address, bookings, req>>
        PROVE  BookingsInv' /\ req' = req /\ UNCHANGED <<zone, rows>>
    BY <1>2, SetIntentTyped, IntentWritten DEF gvars
  <1>3. \A i \in Intents: intent[i] # NULL => intent[i] \in IntentRow
    BY DEF BookingsInv, BookingsTyped
  <1>4. ASSUME NEW i \in Intents, NEW s \in Services, CreateIntent(i, s)
        PROVE  BookingsInv' /\ req' = req /\ UNCHANGED <<zone, rows>>
    <2> DEFINE v == [status |-> "DRAFT", service |-> s, address |-> NULL, dated |-> FALSE,
                     slot |-> NULL, booking |-> NULL, late |-> FALSE]
    <2>1. v \in IntentRow
      BY DEF IntentRow, IntentStatus, Editable
    <2> QED
      BY <1>2, <1>4, <2>1 DEF CreateIntent
  <1>5. ASSUME NEW i \in Intents, IntentLapses(i)
        PROVE  BookingsInv' /\ req' = req /\ UNCHANGED <<zone, rows>>
    <2>1. [intent[i] EXCEPT !.late = TRUE] \in IntentRow
      BY <1>3, <1>5 DEF IntentLapses, IntentRow
    <2> QED
      BY <1>2, <1>5, <2>1 DEF IntentLapses
  <1>6. ASSUME NEW i \in Intents, RejectExpired(i) \/ AbandonIntent(i)
        PROVE  BookingsInv' /\ req' = req /\ UNCHANGED <<zone, rows>>
    <2>1. Expired(intent[i]) \in IntentRow
      BY <1>3, <1>6 DEF RejectExpired, AbandonIntent, Locked, Expired, IntentRow, IntentStatus
    <2> QED
      BY <1>2, <1>6, <2>1 DEF RejectExpired, AbandonIntent
  <1>7. ASSUME NEW i \in Intents, NEW c \in IntentCommands, UpdateIntent(i, c)
        PROVE  BookingsInv' /\ req' = req /\ UNCHANGED <<zone, rows>>
    <2>1. intent[i] \in IntentRow /\ c \in IntentCommand
      BY <1>3, <1>7, IntentsAssumption DEF UpdateIntent, Locked
    <2>2. WithSlot(WithDate(WithAddress(WithService(intent[i], c), c), c), c) \in IntentRow
      BY <2>1, UpdatedIsRow
    <2> QED
      BY <1>2, <1>7, <2>2 DEF UpdateIntent
  <1>8. ASSUME NEW b \in bookings, HoldExpires(b)
        PROVE  BookingsInv' /\ req' = req /\ UNCHANGED <<zone, rows>>
    BY <1>8, ExpiredHold DEF HoldExpires, gvars
  <1> QED
    BY <1>1, <1>4, <1>5, <1>6, <1>7, <1>8 DEF VisitorStep

\* A request that begins, or that moves on before the locks of the key and the window
LEMMA BookingMoves ==
    ASSUME BookingsInv, DOMAIN req = Requests, UNCHANGED <<intent, bookings>>,
           NEW r \in Requests, \A q \in Requests \ {r}: req'[q] = req[q],
           req'[r] \in CreateRequest, req'[r].op = "create",
           req'[r].intent # NULL => intent[req'[r].intent] \in IntentRow
    PROVE  BookingsInv'
  <1> USE DEF Creating, At
  <1>1. BookingsTyped'
    BY DEF BookingsInv, BookingsTyped
  <1>2. KeyInv'
    BY DEF BookingsInv, KeyInv, BookingOf
  <1>3. RoomInv'
    <2>1. SlotWithinCapacity'
      BY DEF BookingsInv, RoomInv, SlotWithinCapacity, Held
    <2> QED
      BY <2>1 DEF BookingsInv, RoomInv, SameWindow, Held
  <1> QED
    BY <1>1, <1>2, <1>3 DEF BookingsInv

LEMMA LookupBookings ==
    ASSUME BookingsInv, DOMAIN req = Requests, NEW r \in Requests, At(r, "create"),
           BookingKeyFree(req[r].key), BookingOf(req[r].key) = {},
           Continue(r, [req[r] EXCEPT !.op = "slot"]), UNCHANGED <<intent, bookings>>
    PROVE  BookingsInv'
  <1>1. /\ req'[r] = [req[r] EXCEPT !.op = "slot"]
        /\ \A q \in Requests \ {r}: req'[q] = req[q]
    BY Continues
  <1>2. req[r] \in CreateRequest
    BY DEF BookingsInv, BookingsTyped, At, Creating
  <1>3. /\ req'[r] \in CreateRequest
        /\ req'[r].op = "slot" /\ req'[r].key = req[r].key /\ req'[r].payload = req[r].payload
        /\ req'[r].intent = req[r].intent
        /\ \A q \in Requests \ {r}: req'[q] = req[q]
    BY <1>1, <1>2 DEF CreateRequest, Creating
  <1> USE DEF Creating, At
  <1>4. BookingsTyped'
    BY <1>2, <1>3 DEF BookingsInv, BookingsTyped
  <1>5. KeyInv'
    BY <1>3 DEF BookingsInv, KeyInv, BookingOf, BookingKeyFree
  <1>6. RoomInv'
    <2>1. SlotWithinCapacity'
      BY DEF BookingsInv, RoomInv, SlotWithinCapacity, Held
    <2> QED
      BY <1>3, <2>1 DEF BookingsInv, RoomInv, SameWindow, Held
  <1> QED
    BY <1>4, <1>5, <1>6 DEF BookingsInv

LEMMA SearchBookings ==
    ASSUME BookingsInv, DOMAIN req = Requests, NEW r \in Requests, At(r, "slot"),
           SlotFree(req[r].payload), Held(req[r].payload) < Capacity,
           Continue(r, [req[r] EXCEPT !.op = "insert"]), UNCHANGED <<intent, bookings>>
    PROVE  BookingsInv'
  <1>1. /\ req'[r] = [req[r] EXCEPT !.op = "insert"]
        /\ \A q \in Requests \ {r}: req'[q] = req[q]
    BY Continues
  <1>2. req[r] \in CreateRequest
    BY DEF BookingsInv, BookingsTyped, At, Creating
  <1>3. /\ req'[r] \in CreateRequest
        /\ req'[r].op = "insert" /\ req'[r].key = req[r].key /\ req'[r].payload = req[r].payload
        /\ req'[r].intent = req[r].intent
        /\ \A q \in Requests \ {r}: req'[q] = req[q]
    BY <1>1, <1>2 DEF CreateRequest, Creating
  <1> USE DEF Creating, At
  <1>4. BookingsTyped'
    BY <1>2, <1>3 DEF BookingsInv, BookingsTyped
  <1>5. KeyInv'
    BY <1>3 DEF BookingsInv, KeyInv, BookingOf
  <1>6. RoomInv'
    <2>1. SlotWithinCapacity'
      BY DEF BookingsInv, RoomInv, SlotWithinCapacity, Held
    <2>2. ASSUME NEW q \in Requests, At(q, "insert")'
          PROVE  Held(req[q].payload)' < Capacity
      <3>1. req'[q].payload = req[q].payload
        BY <1>3
      <3>2. Held(req[q].payload)' = Held(req[q].payload)
        BY <3>1 DEF Held
      <3>3. q = r \/ At(q, "insert")
        BY <1>3, <2>2
      <3> QED
        BY <3>2, <3>3 DEF BookingsInv, RoomInv
    <2>3. \A q \in Requests \ {r}:
            req[q].op = "insert" => ~SameWindow(req[q].payload, req[r].payload)
      BY DEF SlotFree, SameWindow
    <2>4. \A x, y \in Requests:
            /\ req'[x].op = "insert" /\ req'[y].op = "insert"
            /\ SameWindow(req'[x].payload, req'[y].payload)
            => x = y
      BY <1>3, <2>3 DEF BookingsInv, RoomInv, SameWindow
    <2> QED
      BY <2>1, <2>2, <2>4 DEF RoomInv, SameWindow, Held
  <1> QED
    BY <1>4, <1>5, <1>6 DEF BookingsInv

LEMMA AddsAtMostOne ==
    ASSUME NEW X, IsFiniteSet(X), NEW e
    PROVE  /\ IsFiniteSet(X \cup {e}) /\ Cardinality(X) \in Nat /\ Cardinality(X \cup {e}) \in Nat
           /\ Cardinality(X \cup {e}) <= Cardinality(X) + 1
  <1>1. Cardinality(X) \in Nat
    BY FS_CardinalityType
  <1>2. CASE e \in X
    <2>1. X \cup {e} = X
      BY <1>2
    <2>2. Cardinality(X \cup {e}) = Cardinality(X) /\ IsFiniteSet(X \cup {e})
      BY <2>1
    <2> QED
      BY <1>1, <2>2
  <1>3. CASE e \notin X
    <2>1. IsFiniteSet(X \cup {e}) /\ Cardinality(X \cup {e}) = Cardinality(X) + 1
      BY <1>3, FS_AddElement
    <2> QED
      BY <1>1, <2>1
  <1> QED
    BY <1>2, <1>3

LEMMA InsertBookings ==
    ASSUME BookingsInv, DOMAIN req = Requests, NEW r \in Requests, Insert(r)
    PROVE  BookingsInv'
  <1> DEFINE p == req[r].payload
             b == [key |-> req[r].key, payload |-> p, holds |-> TRUE]
             In(s, w) == {x \in s: x.holds /\ x.payload.service = w.service
                                           /\ x.payload.slot = w.slot}
  <1>1. /\ At(r, "insert") /\ req[r] \in CreateRequest
        /\ req[r].intent # NULL => intent[req[r].intent] \in IntentRow
    BY DEF Insert, BookingsInv, BookingsTyped, At, Creating
  <1>2. req[r].key \in BookingKeys /\ p \in Payloads /\ req[r].intent \in Intents \cup {NULL}
    BY <1>1 DEF CreateRequest
  <1>3. /\ \A q \in Requests \ {r}: req'[q] = req[q]
        /\ \/ req'[r].op = "idle"
           \/ /\ req[r].intent # NULL
              /\ req'[r] = [op |-> "booked", submitted |-> req[r].intent, key |-> req[r].key]
    BY Ends, Continues DEF Insert
  <1>4. bookings' = bookings \cup {b} /\ UNCHANGED intent
    BY DEF Insert
  <1>5. b \in BookingRow /\ b.key = req[r].key /\ b.payload = p
    BY <1>2 DEF BookingRow
  <1> HIDE DEF b
  <1>6. bookings \subseteq BookingRow /\ IsFiniteSet(bookings)
    BY DEF BookingsInv, BookingsTyped
  <1>7. IsFiniteSet(bookings') /\ bookings' \subseteq BookingRow
    BY <1>4, <1>5, <1>6, FS_AddElement
  <1>8. BookingsTyped'
    <2>1. ASSUME NEW q \in Requests
          PROVE  /\ req'[q].op \in Creating =>
                    /\ req'[q] \in CreateRequest
                    /\ req'[q].intent # NULL => intent'[req'[q].intent] \in IntentRow
                 /\ req'[q].op = "booked" =>
                    /\ req'[q].submitted \in Intents /\ intent'[req'[q].submitted] \in IntentRow
                    /\ req'[q].key \in BookingKeys
      <3>1. CASE q = r
        BY <1>1, <1>2, <1>3, <1>4, <3>1 DEF Creating
      <3>2. CASE q # r
        BY <1>3, <1>4, <3>2 DEF BookingsInv, BookingsTyped, At
      <3> QED
        BY <3>1, <3>2
    <2> QED
      BY <1>4, <1>7, <2>1 DEF BookingsInv, BookingsTyped, At
  <1>9. KeyInv'
    <2>1. \A x \in bookings: x.key # b.key
      BY <1>1, <1>5 DEF BookingsInv, KeyInv, At, BookingOf
    <2>2. \A q \in Requests: req'[q].op \in {"slot", "insert"} =>
            q # r /\ req'[q] = req[q] /\ req[q].key # b.key
      BY <1>1, <1>3, <1>5 DEF BookingsInv, KeyInv, At
    <2> QED
      BY <1>4, <2>1, <2>2 DEF BookingsInv, KeyInv, BookingOf
  <1>10. \A w: /\ Held(w) \in Nat /\ Held(w)' \in Nat /\ Held(w)' <= Held(w) + 1
               /\ ~SameWindow(p, w) => Held(w)' = Held(w)
    <2> SUFFICES ASSUME NEW w
                 PROVE  /\ Held(w) \in Nat /\ Held(w)' \in Nat /\ Held(w)' <= Held(w) + 1
                        /\ ~SameWindow(p, w) => Held(w)' = Held(w)
      OBVIOUS
    <2>1. Held(w) = Cardinality(In(bookings, w)) /\ Held(w)' = Cardinality(In(bookings', w))
      BY DEF Held
    <2>2. IsFiniteSet(In(bookings, w))
      BY <1>6, FS_Subset, In(bookings, w) \subseteq bookings
    <2>3. In(bookings', w) \subseteq In(bookings, w) \cup {b}
      BY <1>4
    <2>4. ~SameWindow(p, w) => In(bookings', w) = In(bookings, w)
      BY <1>4, <1>5 DEF SameWindow
    <2> HIDE DEF In
    <2>5. /\ IsFiniteSet(In(bookings, w) \cup {b}) /\ Cardinality(In(bookings, w)) \in Nat
          /\ Cardinality(In(bookings, w) \cup {b}) \in Nat
          /\ Cardinality(In(bookings, w) \cup {b}) <= Cardinality(In(bookings, w)) + 1
      BY <2>2, AddsAtMostOne
    <2>6. /\ Cardinality(In(bookings', w)) \in Nat
          /\ Cardinality(In(bookings', w)) <= Cardinality(In(bookings, w) \cup {b})
      BY <2>3, <2>5, FS_Subset, FS_CardinalityType
    <2> QED
      BY <2>1, <2>4, <2>5, <2>6
  <1>11. RoomInv'
    <2>1. Held(p) < Capacity
      BY <1>1 DEF BookingsInv, RoomInv
    <2>2. SlotWithinCapacity'
      <3> SUFFICES ASSUME NEW x \in bookings' PROVE Held(x.payload)' <= Capacity
        BY DEF SlotWithinCapacity, Held
      <3>1. CASE SameWindow(p, x.payload)
        <4>1. Held(x.payload) = Held(p)
          BY <3>1 DEF Held, SameWindow
        <4> QED
          BY <1>10, <2>1, <4>1, IntentsAssumption
      <3>2. CASE ~SameWindow(p, x.payload)
        <4>1. x \in bookings
          BY <1>4, <1>5, <3>2 DEF SameWindow
        <4> QED
          BY <1>10, <3>2, <4>1 DEF BookingsInv, RoomInv, SlotWithinCapacity
      <3> QED
        BY <3>1, <3>2
    <2>3. ASSUME NEW q \in Requests, At(q, "insert")'
          PROVE  Held(req[q].payload)' < Capacity
      <3>1. q # r /\ req'[q] = req[q] /\ At(q, "insert")
        BY <1>3, <2>3 DEF At
      <3>2. ~SameWindow(p, req[q].payload)
        BY <1>1, <3>1 DEF BookingsInv, RoomInv
      <3>3. Held(req[q].payload)' = Cardinality(In(bookings', req[q].payload))
        BY <3>1 DEF Held
      <3>4. \A w: Cardinality(In(bookings', w)) = Held(w)'
        BY DEF Held
      <3>5. Cardinality(In(bookings', req[q].payload)) = Held(req[q].payload)
        BY <1>10, <3>2, <3>4
      <3> QED
        BY <3>1, <3>3, <3>5 DEF BookingsInv, RoomInv
    <2>4. \A x, y \in Requests:
            /\ req'[x].op = "insert" /\ req'[y].op = "insert"
            /\ SameWindow(req'[x].payload, req'[y].payload)
            => x = y
      BY <1>3 DEF BookingsInv, RoomInv, SameWindow, At
    <2> QED
      BY <2>2, <2>3, <2>4 DEF RoomInv, SameWindow, Held, At
  <1> QED
    BY <1>8, <1>9, <1>11 DEF BookingsInv

LEMMA EndsBooking ==
    ASSUME BookingsInv, DOMAIN req = Requests, NEW r \in Requests, End(r),
           UNCHANGED <<intent, bookings>>
    PROVE  BookingsInv'
  <1>1. \A q \in Requests: req'[q] = req[q] \/ req'[q].op = "idle"
    BY Ends
  <1>2. intent' \in [Intents -> IntentRow \cup {NULL}]
    BY DEF BookingsInv, BookingsTyped
  <1> QED
    BY <1>1, <1>2, IntentWritten

LEMMA SubmittedBookings ==
    ASSUME BookingsInv, DOMAIN req = Requests, NEW r \in Requests, End(r),
           UNCHANGED bookings, NEW i \in Intents, intent[i] \in IntentRow, NEW k \in BookingKeys,
           SetIntent(i, Submitted(i, k))
    PROVE  BookingsInv'
  <1>1. Submitted(i, k) \in IntentRow
    BY DEF Submitted, IntentRow, IntentStatus
  <1>2. /\ intent' \in [Intents -> IntentRow \cup {NULL}]
        /\ \A j \in Intents: intent[j] \in IntentRow => intent'[j] \in IntentRow
    BY <1>1, SetIntentTyped
  <1>3. \A q \in Requests: req'[q] = req[q] \/ req'[q].op = "idle"
    BY Ends
  <1> QED
    BY <1>2, <1>3, IntentWritten

LEMMA BeginsBooking ==
    ASSUME BookingsInv, DOMAIN req = Requests, NEW r \in Requests, NEW i \in Intents \cup {NULL},
           NEW k \in BookingKeys, NEW p \in Payloads, NEW account \in BOOLEAN,
           i # NULL => intent[i] \in IntentRow,
           BeginCreate(r, i, k, p, account)
    PROVE  BookingsInv'
  <1> DEFINE v == [op |-> "create", intent |-> i, key |-> k, payload |-> p, account |-> account]
  <1>1. v \in CreateRequest /\ v.op = "create" /\ v.intent = i
    BY DEF CreateRequest, Creating
  <1>2. req'[r] = v /\ \A q \in Requests \ {r}: req'[q] = req[q]
    BY Begins DEF BeginCreate
  <1>3. UNCHANGED <<intent, bookings>>
    BY DEF BeginCreate, ivars
  <1> HIDE DEF v
  <1> QED
    BY <1>1, <1>2, <1>3, BookingMoves

LEMMA BookingBookings ==
    ASSUME BookingsInv, DOMAIN req = Requests, NEW r \in Requests, BookingStep(r)
    PROVE  BookingsInv'
  <1>1. ASSUME NEW k \in BookingKeys, NEW account \in BOOLEAN, NEW i \in Intents,
               BeginSubmit(r, i, k, account)
        PROVE  BookingsInv'
    <2>1. intent[i] \in IntentRow /\ BeginCreate(r, i, k, Payload(intent[i]), account)
      BY <1>1 DEF BeginSubmit, Locked, BookingsInv, BookingsTyped
    <2>2. Payload(intent[i]) \in Payloads
      BY <2>1 DEF Payload, Payloads, IntentRow
    <2> QED
      BY <2>1, <2>2, BeginsBooking
  <1>2. ASSUME NEW k \in BookingKeys, NEW account \in BOOLEAN, NEW p \in BookingBodies,
               BeginBooking(r, k, p, account)
        PROVE  BookingsInv'
    <2>1. p \in Payloads
      BY IntentsAssumption DEF Payloads
    <2> QED
      BY <1>2, <2>1, BeginsBooking DEF BeginBooking
  <1>3. CASE ReturnExisting(r)
    <2>1. /\ req[r] \in CreateRequest
          /\ req[r].intent # NULL => intent[req[r].intent] \in IntentRow
      BY <1>3 DEF ReturnExisting, BookingsInv, BookingsTyped, At, Creating
    <2>2. req[r].key \in BookingKeys /\ (req[r].intent # NULL => req[r].intent \in Intents)
      BY <2>1 DEF CreateRequest
    <2>3. CASE req[r].intent = NULL
      BY <1>3, <2>3, EndsBooking DEF ReturnExisting
    <2>4. CASE req[r].intent # NULL
      BY <1>3, <2>1, <2>2, <2>4, SubmittedBookings DEF ReturnExisting
    <2> QED
      BY <2>3, <2>4
  <1>4. CASE KeyConflict(r) \/ LoseSubmit(r)
    BY <1>4, EndsBooking DEF KeyConflict, LoseSubmit, ivars
  <1>5. CASE Lookup(r)
    BY <1>5, EndsBooking, LookupBookings DEF Lookup, ivars
  <1>6. CASE Search(r)
    BY <1>6, EndsBooking, SearchBookings DEF Search, Available, ivars
  <1>7. CASE FinishSubmit(r)
    <2>1. /\ req[r].submitted \in Intents /\ intent[req[r].submitted] \in IntentRow
          /\ req[r].key \in BookingKeys
      BY <1>7 DEF FinishSubmit, BookingsInv, BookingsTyped
    <2> QED
      BY <1>7, <2>1, SubmittedBookings DEF FinishSubmit
  <1> QED
    BY <1>1, <1>2, <1>3, <1>4, <1>5, <1>6, <1>7, InsertBookings DEF BookingStep

\* The part of a step that the other components see
LEMMA BookingAlone ==
    ASSUME BookingsInv, DOMAIN req = Requests, NEW r \in Requests, BookingStep(r)
    PROVE  /\ DOMAIN req' = Requests /\ UNCHANGED <<zone, rows>>
           /\ Untouched(Editing) /\ Untouched({"consent"})
  <1> DEFINE Alone == /\ DOMAIN req' = Requests
                      /\ \A q \in Requests \ {r}: req'[q] = req[q]
                      /\ req[r].op \in Booking \cup {"idle"}
                      /\ req'[r].op \in Booking \cup {"idle"}
  <1>1. UNCHANGED <<zone, rows>>
    BY DEF BookingStep, BeginSubmit, BeginBooking, BeginCreate, ReturnExisting, KeyConflict,
           Lookup, Search, Insert, FinishSubmit, LoseSubmit, gvars
  <1>2. ASSUME NEW i, NEW k, NEW p, NEW account, BeginCreate(r, i, k, p, account) PROVE Alone
    BY <1>2, Begins DEF BeginCreate, Booking, Creating
  <1>3. ASSUME End(r), req[r].op \in Booking PROVE Alone
    BY <1>3, Ends
  <1>4. ASSUME NEW o \in Creating, req[r] \in CreateRequest, Continue(r, [req[r] EXCEPT !.op = o])
        PROVE Alone
    <2>1. /\ DOMAIN req' = Requests /\ \A q \in Requests \ {r}: req'[q] = req[q]
          /\ req'[r] = [req[r] EXCEPT !.op = o]
      BY <1>4, Continues
    <2>2. req[r].op \in Creating /\ req'[r].op = o
      BY <1>4, <2>1 DEF CreateRequest
    <2> QED
      BY <2>1, <2>2 DEF Booking
  <1>5. req[r].op \in Creating => req[r] \in CreateRequest
    BY DEF BookingsInv, BookingsTyped
  <1>6. ASSUME Insert(r) PROVE Alone
    <2>1. req[r].op \in Booking
      BY <1>6 DEF Insert, At, Booking, Creating
    <2>2. ASSUME NEW v, v.op = "booked", Continue(r, v) PROVE Alone
      BY <2>1, <2>2, Continues DEF Booking
    <2> HIDE DEF Alone
    <2> QED
      BY <1>3, <1>6, <2>1, <2>2 DEF Insert
  <1>7. Alone
    <2>1. CASE ReturnExisting(r) \/ KeyConflict(r) \/ FinishSubmit(r) \/ LoseSubmit(r)
      BY <1>3, <2>1
         DEF ReturnExisting, KeyConflict, FinishSubmit, LoseSubmit, At, Booking, Creating
    <2>2. CASE Lookup(r) \/ Search(r)
      BY <1>3, <1>4, <1>5, <2>2 DEF Lookup, Search, At, Booking, Creating
    <2>3. CASE \E k \in BookingKeys, account \in BOOLEAN:
                  \/ \E i \in Intents: BeginSubmit(r, i, k, account)
                  \/ \E p \in BookingBodies: BeginBooking(r, k, p, account)
      <3>1. \E i, k, p, account: BeginCreate(r, i, k, p, account)
        BY <2>3 DEF BeginSubmit, BeginBooking
      <3> HIDE DEF Alone
      <3> QED
        BY <1>2, <3>1
    <2> QED
      BY <1>6, <2>1, <2>2, <2>3 DEF BookingStep
  <1>8. Untouched(Editing) /\ Untouched({"consent"})
    BY <1>7 DEF Untouched, Editing, Booking, Creating
  <1> QED
    BY <1>1, <1>7, <1>8

LEMMA ZoneAlone ==
    ASSUME DOMAIN req = Requests, NEW r \in Requests, ZoneStep(r)
    PROVE  DOMAIN req' = Requests /\ Untouched(Booking) /\ Untouched({"consent"})
  <1> DEFINE Alone == DOMAIN req' = Requests /\ Untouched(Booking) /\ Untouched({"consent"})
             Own == Editing \cup {"idle"}
  <1>1. ASSUME NEW x \in Requests, DOMAIN req' = Requests,
               \A q \in Requests \ {x}: req'[q] = req[q], req[x].op \in Own, req'[x].op \in Own
        PROVE  Alone
    BY <1>1 DEF Untouched, Editing, Booking, Creating
  <1>2. ASSUME NEW x \in Requests, End(x), req[x].op \in Own PROVE Alone
    <2>1. DOMAIN req' = Requests /\ (\A q \in Requests \ {x}: req'[q] = req[q]) /\ req'[x].op \in Own
      BY <1>2, Ends
    <2> HIDE DEF Alone, Own
    <2> QED
      BY <1>1, <1>2, <2>1
  <1>3. ASSUME NEW v, v.op \in Own, Continue(r, v), req[r].op \in Own PROVE Alone
    <2>1. DOMAIN req' = Requests /\ (\A q \in Requests \ {r}: req'[q] = req[q]) /\ req'[r].op \in Own
      BY <1>3, Continues
    <2> HIDE DEF Alone, Own
    <2> QED
      BY <1>1, <1>3, <2>1
  <1>4. ASSUME NEW v, v.op \in Own, Begin(r, v) PROVE Alone
    <2>1. Continue(r, v) /\ req[r].op \in Own
      BY <1>4 DEF Begin, At
    <2> HIDE DEF Alone, Own
    <2> QED
      BY <1>3, <1>4, <2>1
  <1>5. {"get", "got", "zone", "row", "import"} \subseteq Own
    BY DEF Editing
  <1> HIDE DEF Alone, Own
  <1>6. CASE UpdateZone(r) \/ DeactivateZone(r) \/ WritePostalCode(r) \/ ImportPostalCodes(r)
    <2>1. End(r) /\ req[r].op \in Own
      BY <1>5, <1>6 DEF UpdateZone, DeactivateZone, WritePostalCode, ImportPostalCodes, At
    <2> QED
      BY <1>2, <2>1 DEF Alone
  <1>7. ASSUME NEW c, NEW f, BeginRow(r, c, f) PROVE Alone
    BY <1>4, <1>5, <1>7 DEF BeginRow
  <1>8. ASSUME NEW k, NEW f, BeginImport(r, k, f) PROVE Alone
    BY <1>4, <1>5, <1>8 DEF BeginImport
  <1>9. CASE GetZone(r)
    <2>1. Alone
      BY <1>4, <1>5, <1>9 DEF GetZone
    <2> QED
      BY <2>1 DEF Alone
  <1>10. CASE GetRows(r)
    <2>1. Alone
      BY <1>3, <1>5, <1>10 DEF GetRows, At
    <2> QED
      BY <2>1 DEF Alone
  <1>11. ASSUME NEW c, BeginUpdateZone(r, c) PROVE Alone
    BY <1>2, <1>3, <1>5, <1>11 DEF BeginUpdateZone, At
  <1>12. ASSUME NEW q \in Requests, DeadlockDetected(r, q) PROVE Alone
    BY <1>2, <1>5, <1>12 DEF DeadlockDetected, At
  <1> QED
    BY <1>6, <1>7, <1>8, <1>9, <1>10, <1>11, <1>12
       DEF ZoneStep, BeginUpdatePostalCode, BeginDeactivatePostalCode, Alone

-----------------------------------------------------------------------------
(* Consents *)

LEMMA BeginConsentHolds ==
    ASSUME WithdrawalInv, DOMAIN req = Requests, NEW r \in Requests, NEW stop \in SUBSET Purposes,
           NEW grant, stop \cap grant = {}, BeginConsent(r, stop, grant)
    PROVE  WithdrawalInv'
  <1> DEFINE fresh == [op |-> "consent", stop |-> stop, grant |-> grant, read |-> <<>>,
                       alone |-> {p \in stop: ~Granting(p)}]
  <1>1. /\ req[r].op = "idle" /\ req'[r] = fresh
        /\ \A q \in Requests \ {r}:
            req'[q] = IF req[q].op = "consent" THEN [req[q] EXCEPT !.alone = @ \ grant] ELSE req[q]
        /\ withdrawn' = withdrawn \ grant /\ suppressed' = suppressed
    BY DEF BeginConsent, At
  <1>2. ASSUME NEW q \in Requests \ {r}, req[q].op = "consent"
        PROVE  /\ DOMAIN req'[q] = {"op", "stop", "grant", "read", "alone"}
               /\ req'[q].op = "consent" /\ req'[q].stop = req[q].stop
               /\ req'[q].grant = req[q].grant /\ req'[q].read = req[q].read
               /\ req'[q].alone = req[q].alone \ grant
    BY <1>1, <1>2 DEF WithdrawalInv, At
  <1>3. /\ fresh.op = "consent" /\ fresh.stop = stop /\ fresh.grant = grant
        /\ DOMAIN fresh.read = {} /\ fresh.alone = {p \in stop: ~Granting(p)}
        /\ DOMAIN fresh = {"op", "stop", "grant", "read", "alone"}
    OBVIOUS
  <1> HIDE DEF fresh
  <1>4. ASSUME NEW p PROVE Granting(p)' <=> Granting(p) \/ p \in grant
    <2>1. \A q \in Requests \ {r}:
            /\ req'[q].op = "consent" <=> req[q].op = "consent"
            /\ req[q].op = "consent" => req'[q].grant = req[q].grant
      BY <1>1, <1>2
    <2>2. req'[r].op = "consent" /\ req'[r].grant = grant /\ req[r].op # "consent"
      BY <1>1, <1>3
    <2> QED
      BY <2>1, <2>2 DEF Granting, At
  <1>5. ASSUME NEW q \in Requests, At(q, "consent")'
        PROVE  /\ DOMAIN req'[q] = {"op", "stop", "grant", "read", "alone"}
               /\ req'[q].stop \subseteq Purposes /\ req'[q].alone \subseteq req'[q].stop
               /\ \A p \in req'[q].alone:
                    /\ ~Granting(p)'
                    /\ p \in DOMAIN req'[q].read /\ req'[q].read[p] = TRUE => suppressed'[p] = TRUE
    <2>1. CASE q = r
      BY <1>1, <1>3, <1>4, <2>1
    <2>2. CASE q # r
      <3>1. At(q, "consent")
        BY <1>1, <1>5, <2>2 DEF At
      <3> QED
        BY <1>1, <1>2, <1>4, <2>2, <3>1 DEF WithdrawalInv, At
    <2> QED
      BY <2>1, <2>2
  <1>6. WithdrawalHolds'
    BY <1>1 DEF WithdrawalInv, WithdrawalHolds
  <1> QED
    BY <1>1, <1>4, <1>5, <1>6 DEF WithdrawalInv, At

LEMMA SelectHolds ==
    ASSUME WithdrawalInv, DOMAIN req = Requests, NEW r \in Requests, NEW p \in Purposes, Select(r, p)
    PROVE  WithdrawalInv'
  <1> DEFINE read == [x \in DOMAIN req[r].read \cup {p} |->
                        IF x = p THEN suppressed[p] ELSE req[r].read[x]]
  <1>1. /\ At(r, "consent") /\ req'[r] = [req[r] EXCEPT !.read = read]
        /\ \A q \in Requests \ {r}: req'[q] = req[q]
        /\ UNCHANGED <<suppressed, withdrawn>>
    BY Continues DEF Select, cvars
  <1>2. /\ DOMAIN req'[r] = {"op", "stop", "grant", "read", "alone"}
        /\ req'[r].op = "consent" /\ req'[r].stop = req[r].stop
        /\ req'[r].grant = req[r].grant /\ req'[r].read = read
        /\ req'[r].alone = req[r].alone
    <2> HIDE DEF read
    <2> QED
      BY <1>1 DEF WithdrawalInv, At
  <1>3. ASSUME NEW x PROVE Granting(x)' <=> Granting(x)
    BY <1>1, <1>2 DEF Granting, At
  <1>4. ASSUME NEW q \in Requests, At(q, "consent")'
        PROVE  /\ DOMAIN req'[q] = {"op", "stop", "grant", "read", "alone"}
               /\ req'[q].stop \subseteq Purposes /\ req'[q].alone \subseteq req'[q].stop
               /\ \A x \in req'[q].alone:
                    /\ ~Granting(x)'
                    /\ x \in DOMAIN req'[q].read /\ req'[q].read[x] = TRUE => suppressed'[x] = TRUE
    <2>1. CASE q = r
      <3>1. \A x \in DOMAIN read: read[x] = TRUE =>
                suppressed[x] = TRUE \/ (x \in DOMAIN req[r].read /\ req[r].read[x] = TRUE)
        OBVIOUS
      <3> HIDE DEF read
      <3> QED
        BY <1>1, <1>2, <1>3, <2>1, <3>1 DEF WithdrawalInv
    <2>2. CASE q # r
      BY <1>1, <1>3, <1>4, <2>2 DEF WithdrawalInv, At
    <2> QED
      BY <2>1, <2>2
  <1>5. WithdrawalHolds'
    BY <1>1 DEF WithdrawalInv, WithdrawalHolds
  <1> QED
    BY <1>1, <1>3, <1>4, <1>5 DEF WithdrawalInv, At

LEMMA SaveConsentHolds ==
    ASSUME WithdrawalInv, DOMAIN req = Requests, NEW r \in Requests, SaveConsent(r)
    PROVE  WithdrawalInv'
  <1>1. /\ At(r, "consent") /\ DOMAIN req[r].read = req[r].stop \cup req[r].grant
        /\ req'[r].op = "idle" /\ \A q \in Requests \ {r}: req'[q] = req[q]
    BY Ends DEF SaveConsent, AllRead
  <1>2. ASSUME NEW p PROVE Granting(p)' => Granting(p)
    BY <1>1 DEF Granting, At
  <1>3. DOMAIN suppressed' = Purposes
    BY DEF SaveConsent, AfterConsent, WithdrawalInv, cvars
  <1>4. ASSUME NEW p \in Purposes, ~Granting(p) PROVE suppressed[p] = TRUE => suppressed'[p] = TRUE
    <2>1. p \notin req[r].grant
      BY <1>1, <1>4 DEF Granting
    <2> QED
      BY <2>1 DEF SaveConsent, AfterConsent, cvars
  <1>5. ASSUME NEW p \in withdrawn' PROVE p \in Purposes /\ ~Granting(p) /\ suppressed'[p] = TRUE
    <2>1. CASE p \in withdrawn
      BY <1>4, <2>1 DEF WithdrawalInv, WithdrawalHolds
    <2>2. CASE p \in req[r].alone /\ suppressed' = AfterConsent(r)
      <3>1. /\ p \in Purposes /\ p \in req[r].stop /\ ~Granting(p)
            /\ req[r].read[p] = TRUE => suppressed[p] = TRUE
        BY <1>1, <2>2 DEF WithdrawalInv
      <3>2. p \notin req[r].grant
        BY <1>1, <3>1 DEF Granting
      <3> QED
        BY <2>2, <3>1, <3>2 DEF AfterConsent
    <2> QED
      BY <2>1, <2>2 DEF SaveConsent, cvars
  <1>6. WithdrawalHolds'
    BY <1>5 DEF WithdrawalHolds
  <1>7. ASSUME NEW q \in Requests, At(q, "consent")'
        PROVE  At(q, "consent") /\ req'[q] = req[q]
    BY <1>1, <1>7 DEF At
  <1> QED
    BY <1>2, <1>3, <1>4, <1>5, <1>6, <1>7 DEF WithdrawalInv

LEMMA ConsentHolds ==
    ASSUME WithdrawalInv, DOMAIN req = Requests, NEW r \in Requests, ConsentStep(r)
    PROVE  WithdrawalInv'
  <1>1. ASSUME NEW g \in SUBSET Preferences, SetPreferences(r, g) PROVE WithdrawalInv'
    <2>1. Preferences \ g \in SUBSET Purposes /\ (Preferences \ g) \cap g = {}
      BY DEF Purposes
    <2> QED
      BY <1>1, <2>1, BeginConsentHolds DEF SetPreferences
  <1>2. CASE RevokeBySms(r)
    <2>1. {Revocable} \in SUBSET Purposes /\ {Revocable} \cap {} = {}
      BY ConsentAssumption DEF Purposes
    <2> QED
      BY <1>2, <2>1, BeginConsentHolds DEF RevokeBySms
  <1>3. CASE OptOut(r)
    <2>1. PrivacyPurposes \in SUBSET Purposes /\ PrivacyPurposes \cap {} = {}
      BY DEF Purposes
    <2> QED
      BY <1>3, <2>1, BeginConsentHolds DEF OptOut
  <1> QED
    BY <1>1, <1>2, <1>3, SelectHolds, SaveConsentHolds DEF ConsentStep

LEMMA ConsentAlone ==
    ASSUME WithdrawalInv, DOMAIN req = Requests, NEW r \in Requests, ConsentStep(r)
    PROVE  DOMAIN req' = Requests /\ Untouched(Editing) /\ Untouched(Booking)
  <1> DEFINE Own == {"consent", "idle"}
  <1>1. ASSUME DOMAIN req' = Requests,
               \A q \in Requests: req'[q] = req[q] \/ (req[q].op \in Own /\ req'[q].op \in Own)
        PROVE  DOMAIN req' = Requests /\ Untouched(Editing) /\ Untouched(Booking)
    BY <1>1 DEF Untouched, Editing, Booking, Creating
  <1>2. ASSUME NEW stop, NEW grant, BeginConsent(r, stop, grant)
        PROVE  DOMAIN req' = Requests /\ Untouched(Editing) /\ Untouched(Booking)
    <2>1. /\ DOMAIN req' = Requests /\ req[r].op = "idle" /\ req'[r].op = "consent"
          /\ \A q \in Requests \ {r}:
              req'[q] = IF req[q].op = "consent" THEN [req[q] EXCEPT !.alone = @ \ grant] ELSE req[q]
      BY <1>2 DEF BeginConsent, At
    <2>2. ASSUME NEW q \in Requests \ {r}, req[q].op = "consent" PROVE req'[q].op = "consent"
      BY <2>1, <2>2 DEF WithdrawalInv, At
    <2> QED
      BY <1>1, <2>1, <2>2
  <1>3. ASSUME NEW p, Select(r, p)
        PROVE  DOMAIN req' = Requests /\ Untouched(Editing) /\ Untouched(Booking)
    <2>1. PICK v: req'[r] = [req[r] EXCEPT !.read = v]
      BY <1>3, Continues DEF Select
    <2>2. /\ DOMAIN req' = Requests /\ req[r].op = "consent"
          /\ \A q \in Requests \ {r}: req'[q] = req[q]
      BY <1>3, Continues DEF Select, At
    <2>3. req'[r].op = "consent"
      BY <2>1, <2>2 DEF WithdrawalInv, At
    <2> QED
      BY <1>1, <2>2, <2>3
  <1>4. CASE SaveConsent(r)
    BY <1>1, <1>4, Ends DEF SaveConsent, At
  <1> QED
    BY <1>2, <1>3, <1>4 DEF ConsentStep, SetPreferences, RevokeBySms, OptOut

-----------------------------------------------------------------------------
(* The site *)

LEMMA PublicInit == Init => PublicInv
  <1> SUFFICES ASSUME Init PROVE PublicInv
    OBVIOUS
  <1>1. DOMAIN req = Requests /\ \A r \in Requests: req[r].op = "idle"
    BY DEF Init, Idle
  <1>2. ShownInv
    BY <1>1 DEF Init, ShownInv, Editing, At, ReplacesWhatWasSeen, LegacyAgrees
  <1>3. BookingsInv
    <2>1. bookings = {} /\ IsFiniteSet(bookings)
      BY FS_EmptySet DEF Init
    <2>2. BookingsTyped
      BY <1>1, <2>1 DEF Init, BookingsTyped, At, Creating
    <2> QED
      BY <1>1, <2>1, <2>2 DEF BookingsInv, KeyInv, RoomInv, SlotWithinCapacity, At
  <1>4. WithdrawalInv
    BY <1>1 DEF Init, WithdrawalInv, WithdrawalHolds, At
  <1> QED
    BY <1>1, <1>2, <1>3, <1>4 DEF PublicInv

LEMMA PublicNext == PublicInv /\ [Next]_vars => PublicInv'
  <1> SUFFICES ASSUME PublicInv, [Next]_vars PROVE PublicInv'
    OBVIOUS
  <1> USE DEF PublicInv
  <1>1. CASE UNCHANGED vars
    <2>1. UNCHANGED <<zone, rows, intent, bookings, cvars, req>>
      BY <1>1 DEF vars, cvars
    <2> QED
      BY <2>1, ShownFrame, BookingsFrame, WithdrawalFrame DEF Untouched
  <1>2. CASE CreateStep /\ UNCHANGED <<ivars, cvars>>
    <2>1. req' = req
      BY <1>2 DEF CreateStep, CreateZone, CreatePostalCode
    <2>2. BookingsInv' /\ WithdrawalInv'
      BY <1>2, <2>1, BookingsFrame, WithdrawalFrame DEF Untouched, ivars
    <2> QED
      BY <1>2, <2>1, <2>2, CreateShown
  <1>3. ASSUME NEW r \in Requests, ZoneStep(r), UNCHANGED <<ivars, cvars>> PROVE PublicInv'
    <2>1. DOMAIN req' = Requests /\ Untouched(Booking) /\ Untouched({"consent"})
      BY <1>3, ZoneAlone
    <2>2. BookingsInv' /\ WithdrawalInv'
      BY <1>3, <2>1, BookingsFrame, WithdrawalFrame DEF ivars
    <2> QED
      BY <1>3, <2>1, <2>2, ZoneShown
  <1>4. CASE VisitorStep /\ UNCHANGED cvars
    <2>1. BookingsInv' /\ req' = req /\ UNCHANGED <<zone, rows>>
      BY <1>4, VisitorBookings
    <2> QED
      BY <1>4, <2>1, ShownFrame, WithdrawalFrame DEF Untouched
  <1>5. ASSUME NEW r \in Requests, BookingStep(r), UNCHANGED cvars PROVE PublicInv'
    BY <1>5, BookingBookings, BookingAlone, ShownFrame, WithdrawalFrame
  <1>6. ASSUME NEW r \in Requests, ConsentStep(r), UNCHANGED <<gvars, ivars>> PROVE PublicInv'
    <2>1. DOMAIN req' = Requests /\ Untouched(Editing) /\ Untouched(Booking)
      BY <1>6, ConsentAlone
    <2>2. ShownInv' /\ BookingsInv'
      BY <1>6, <2>1, ShownFrame, BookingsFrame DEF gvars, ivars
    <2> QED
      BY <1>6, <2>1, <2>2, ConsentHolds
  <1> QED
    BY <1>1, <1>2, <1>3, <1>4, <1>5, <1>6 DEF Next

LEMMA PublicStays == Spec => []PublicInv
  BY PublicInit, PublicNext, PTL DEF Spec

(***************************************************************************)
(* However administrators edit a zone, its rows and its files at once, the *)
(* array that the booking domain routes by is rewritten from the rows      *)
(* (sync_legacy_postal_codes).                                             *)
(***************************************************************************)
THEOREM RoutingFollowsRows == Spec => []LegacyAgrees
  <1>1. PublicInv => LegacyAgrees
    BY DEF PublicInv, ShownInv
  <1> QED
    BY <1>1, PublicStays, PTL

(***************************************************************************)
(* A replacement of a zone's codes that passes the check of the version    *)
(* replaces the codes that its administrator was shown, although the zone  *)
(* and its rows were read by two statements (get_zone, _require_version).  *)
(***************************************************************************)
THEOREM ReplacementIsOfShown == Spec => []ReplacesWhatWasSeen
  <1>1. PublicInv => ReplacesWhatWasSeen
    BY DEF PublicInv, ShownInv
  <1> QED
    BY <1>1, PublicStays, PTL

(***************************************************************************)
(* Any number of submissions and direct bookings leave every window within *)
(* its capacity (lock_slot, AvailabilityService.search).                   *)
(***************************************************************************)
THEOREM WindowsAreNotOverbooked == Spec => []SlotWithinCapacity
  <1>1. PublicInv => SlotWithinCapacity
    BY DEF PublicInv, BookingsInv, RoomInv
  <1> QED
    BY <1>1, PublicStays, PTL

(***************************************************************************)
(* A withdrawal that no grant overlaps or follows stays in force, although *)
(* the rows of a destination are read one by one and without a lock        *)
(* (suppress, reactivate, preferences).                                    *)
(***************************************************************************)
THEOREM WithdrawalStays == Spec => []WithdrawalHolds
  <1>1. PublicInv => WithdrawalHolds
    BY DEF PublicInv, WithdrawalInv
  <1> QED
    BY <1>1, PublicStays, PTL

(***************************************************************************)
(* Submitting an intent again with its key ends with the intent SUBMITTED  *)
(* and naming the booking of the first attempt: the lookup under the key's *)
(* lock comes before the slot is searched (submit, BookingService.create). *)
(***************************************************************************)
THEOREM SubmissionCanBeRepeated == Spec => RetryIsSafe
  <1>1. ASSUME PublicInv, [Next]_vars, NEW r \in Requests,
               req[r].op \in Creating, req[r].intent # NULL, req'[r] = Idle,
               NEW b \in bookings, b.key = req[r].key, b.payload = req[r].payload
        PROVE  /\ intent'[req[r].intent].status = "SUBMITTED"
               /\ intent'[req[r].intent].booking = req[r].key
    <2>1. req'[r] # req[r] /\ req[r].op \in Booking
      BY <1>1 DEF Idle, Creating, Booking
    <2>2. PICK q \in Requests: BookingStep(q)
      <3>1. req' # req
        BY <2>1
      <3>2. ~Untouched(Booking)
        BY <2>1 DEF Untouched
      <3>3. ~UNCHANGED vars
        BY <3>1 DEF vars
      <3>4. ~CreateStep
        BY <3>1 DEF CreateStep, CreateZone, CreatePostalCode
      <3>5. ~VisitorStep
        BY <1>1, <3>1, VisitorBookings DEF PublicInv
      <3>6. \A x \in Requests: ~ZoneStep(x) /\ ~ConsentStep(x)
        BY <1>1, <3>2, ZoneAlone, ConsentAlone DEF PublicInv
      <3> QED
        BY <1>1, <3>3, <3>4, <3>5, <3>6 DEF Next
    <2>3. ASSUME q # r PROVE FALSE
      <3>1. End(q) \/ (\E v: Continue(q, v))
        BY <2>2 DEF BookingStep, BeginSubmit, BeginBooking, BeginCreate, Begin, ReturnExisting,
                    KeyConflict, Lookup, Search, Insert, FinishSubmit, LoseSubmit
      <3> QED
        BY <1>1, <2>1, <2>3, <3>1, Ends, Continues DEF PublicInv
    <2>4. BookingOf(req[r].key) # {} /\ \A c \in BookingOf(req[r].key): c.payload = req[r].payload
      BY <1>1 DEF BookingOf, PublicInv, BookingsInv, KeyInv
    <2>5. req[r].op = "create"
      BY <1>1, <2>4 DEF PublicInv, BookingsInv, KeyInv, Creating
    <2>6. ReturnExisting(r)
      BY <2>2, <2>3, <2>4, <2>5
         DEF BookingStep, BeginSubmit, BeginBooking, BeginCreate, Begin, KeyConflict, Lookup,
             Search, Insert, FinishSubmit, LoseSubmit, At
    <2>7. req[r].intent \in Intents /\ intent[req[r].intent] \in IntentRow
      BY <1>1 DEF PublicInv, BookingsInv, BookingsTyped, CreateRequest
    <2>8. intent' = [intent EXCEPT ![req[r].intent] = Submitted(req[r].intent, req[r].key)]
      BY <1>1, <2>6 DEF ReturnExisting, SetIntent
    <2>9. intent'[req[r].intent] = Submitted(req[r].intent, req[r].key)
      BY <1>1, <2>7, <2>8 DEF PublicInv, BookingsInv, BookingsTyped
    <2> QED
      BY <2>7, <2>9 DEF Submitted, IntentRow
  <1>2. PublicInv /\ [Next]_vars =>
            [\A r \in Requests:
                /\ req[r].op \in Creating /\ req[r].intent # NULL
                /\ req'[r] = Idle
                /\ \E b \in bookings: b.key = req[r].key /\ b.payload = req[r].payload
                => /\ intent'[req[r].intent].status = "SUBMITTED"
                   /\ intent'[req[r].intent].booking = req[r].key]_vars
    BY <1>1
  <1> QED
    BY <1>2, PublicStays, PTL DEF Spec, RetryIsSafe
=============================================================================
