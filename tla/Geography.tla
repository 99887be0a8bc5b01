----------------------------- MODULE Geography ------------------------------
(***************************************************************************)
(* A service zone and its normalised postal codes: admin_zone_service.py,  *)
(* admin_postal_service.py and repository.py of domains/geography.         *)
(*                                                                         *)
(* The rows of service_area_postal_codes are what administrators edit; the *)
(* array service_areas.postal_codes is a copy of them that the booking     *)
(* domain reads, rewritten by sync_legacy_postal_codes at the end of every *)
(* edit.  An edit of the zone locks the zone and then writes rows; an edit *)
(* of one row locks the row and then the zone.                             *)
(*                                                                         *)
(* A row keeps what routing reads, active and regular_service_enabled.     *)
(* Its own version, city, state, emergency flag and priority are left out: *)
(* a request with an outdated version of the row is refused and changes    *)
(* nothing.                                                                *)
(***************************************************************************)
EXTENDS Traffic

CONSTANTS
    Codes,          \* postal codes, ZIP and ZIP+4
    Base,           \* [Codes -> Codes]: base_postal_code
    Services,       \* active services of the catalogue
    ZoneCommands,   \* bodies of ServiceZoneCreate and ServiceZoneUpdate
    ImportFiles,    \* bodies of PostalCodeImportRequest: codes to values
    ImportKeys,     \* idempotency keys of imports
    MaxVersion      \* bound on the version of the zone

VARIABLES
    zone,       \* row of service_areas, or NULL
    rows,       \* [Codes -> row of service_area_postal_codes, or NULL]
    offers,     \* [Services -> row of service_zone_services, or NULL]
    imported    \* [ImportKeys -> file of the row of postal_code_imports, or NULL]

gvars == <<zone, rows, offers, imported>>

-----------------------------------------------------------------------------
Flags == [active: BOOLEAN, regular: BOOLEAN]

\* What selects addresses besides postal codes: a boundary or a radius (shape), or
\* else a city or a state (locality).
Selectors == {"none", "locality", "shape"}

\* NULL stands for a field that the body leaves out.
ZoneCommand ==
    [codes: (SUBSET Codes) \cup {NULL}, services: (SUBSET Services) \cup {NULL},
     regular: BOOLEAN \cup {NULL}, selector: Selectors \cup {NULL},
     active: BOOLEAN \cup {NULL}]

Given(value, current) == IF value = NULL THEN current ELSE value

ASSUME GeographyAssumption ==
    /\ Base \in [Codes -> Codes] /\ \A c \in Codes: Base[Base[c]] = Base[c]
    /\ ZoneCommands \subseteq ZoneCommand
    /\ \A f \in ImportFiles: DOMAIN f \in (SUBSET Codes) \ {{}}
    /\ MaxVersion \in Nat

\* A row of service_areas
Zone == [active: BOOLEAN, selector: Selectors, version: Nat, postal_codes: SUBSET Codes]

ASSUME ZoneAssumption == NULL \notin Zone

ActiveRows(rws) == {c \in Codes: rws[c] # NULL /\ rws[c].active}

\* sync_legacy_postal_codes
Legacy(rws) == {Base[c]: c \in {d \in ActiveRows(rws): rws[d].regular}}

Save(z, rws) ==
    /\ rows' = rws
    /\ zone' = [z EXCEPT !.version = zone.version + 1, !.postal_codes = Legacy(rws)]

\* zone(lock=True), the row locks of update_postal_code and deactivate_postal_code,
\* and the advisory lock of an import.
ZoneFree == \A q \in Requests: req[q].op \notin {"zone", "import"}
RowFree(c) == \A q \in Requests: ~(At(q, "row") /\ req[q].code = c)
KeyFree(k) == \A q \in Requests: ~(At(q, "import") /\ req[q].key = k)

CanWrite == zone # NULL /\ zone.version < MaxVersion

-----------------------------------------------------------------------------
(***************************************************************************)
(* Zones.                                                                  *)
(***************************************************************************)
Replaced(old, set, flags) ==
    [x \in DOMAIN old |->
        IF x \in set THEN flags
        ELSE IF old[x] = NULL THEN NULL ELSE [old[x] EXCEPT !.active = FALSE]]

WithRegular(old, regular) ==
    [x \in DOMAIN old |-> IF old[x] = NULL THEN NULL ELSE [old[x] EXCEPT !.regular = regular]]

CreateZone(c) ==
    LET flags == [active |-> TRUE, regular |-> c.regular] IN
    /\ zone = NULL
    /\ NULL \notin {c.codes, c.services, c.regular}
    /\ NULL \notin {c.selector, c.active}
    /\ c.codes # {} \/ c.selector # "none"
    /\ rows' = Replaced(rows, c.codes, flags)
    /\ offers' = Replaced(offers, c.services, flags)
    /\ zone' = [active |-> c.active, selector |-> c.selector, version |-> 1,
                postal_codes |-> Legacy(rows')]
    /\ UNCHANGED <<imported, req>>

\* get_zone reads the zone and then, in a second statement, its rows.
GetZone(r) ==
    /\ zone # NULL
    /\ Begin(r, [op |-> "get", version |-> zone.version])
    /\ UNCHANGED gvars

GetRows(r) ==
    /\ At(r, "get")
    /\ Continue(r, [op |-> "got", version |-> req[r].version, saw |-> ActiveRows(rows)])
    /\ UNCHANGED gvars

\* The administrator sends the version that was read as expected_version.
BeginUpdateZone(r, c) ==
    /\ At(r, "got") /\ ZoneFree
    /\ \/ /\ zone.version = req[r].version /\ CanWrite
          /\ Continue(r, [op |-> "zone", command |-> c, saw |-> req[r].saw])
       \/ zone.version # req[r].version /\ End(r)
    /\ UNCHANGED gvars

\* _regular_enabled
RegularEnabled ==
    LET offered == {s \in Services: offers[s] # NULL /\ offers[s].active} IN
    IF offered # {} THEN \E s \in offered: offers[s].regular
    ELSE ActiveRows(rows) = {} \/ \E c \in ActiveRows(rows): rows[c].regular

RowsAfter(c) ==
    LET regular == Given(c.regular, RegularEnabled) IN
    IF c.codes # NULL THEN Replaced(rows, c.codes, [active |-> TRUE, regular |-> regular])
    ELSE IF c.regular # NULL THEN WithRegular(rows, regular) ELSE rows

OffersAfter(c) ==
    LET regular == Given(c.regular, RegularEnabled) IN
    IF c.services # NULL THEN Replaced(offers, c.services, [active |-> TRUE, regular |-> regular])
    ELSE IF c.regular # NULL THEN WithRegular(offers, regular) ELSE offers

\* The existing rows that the request writes: an update that touches them at all
\* increments the version of each.
Written(r) ==
    IF At(r, "import") THEN DOMAIN req[r].file
    ELSE IF req[r].command.codes = NULL /\ req[r].command.regular = NULL THEN {}
    ELSE {c \in Codes: rows[c] # NULL}

\* _ensure_coverage_selector
CoverageSelector(selector, rws) == selector # "none" \/ ActiveRows(rws) # {}

UpdateZone(r) ==
    /\ At(r, "zone")
    /\ \A c \in Written(r): RowFree(c)
    /\ LET c == req[r].command
           selector == Given(c.selector, zone.selector)
       IN \/ /\ CoverageSelector(selector, RowsAfter(c))
             /\ Save([zone EXCEPT !.active = Given(c.active, @), !.selector = selector],
                     RowsAfter(c))
             /\ offers' = OffersAfter(c)
          \/ /\ ~CoverageSelector(selector, RowsAfter(c))
             /\ UNCHANGED <<zone, rows, offers>>
    /\ End(r)
    /\ UNCHANGED imported

DeactivateZone(r) ==
    /\ At(r, "got") /\ ZoneFree /\ CanWrite
    /\ zone.version = req[r].version
    /\ zone' = [zone EXCEPT !.active = FALSE, !.version = @ + 1]
    /\ End(r)
    /\ UNCHANGED <<rows, offers, imported>>

-----------------------------------------------------------------------------
(***************************************************************************)
(* Postal codes.                                                           *)
(***************************************************************************)
CreatePostalCode(c, flags) ==
    /\ CanWrite /\ ZoneFree
    /\ rows[c] = NULL
    /\ Save(zone, [rows EXCEPT ![c] = flags])
    /\ UNCHANGED <<offers, imported, req>>

BeginRow(r, c, flags) ==
    /\ CanWrite /\ rows[c] # NULL /\ RowFree(c)
    /\ Begin(r, [op |-> "row", code |-> c, flags |-> flags])
    /\ UNCHANGED gvars

BeginUpdatePostalCode(r, c, flags) == BeginRow(r, c, flags)

BeginDeactivatePostalCode(r, c) ==
    rows[c] # NULL /\ BeginRow(r, c, [rows[c] EXCEPT !.active = FALSE])

\* A plausible mistake: the copy is not rewritten.
SaveRowUnsynced(r) ==
    /\ rows' = [rows EXCEPT ![req[r].code] = req[r].flags]
    /\ zone' = [zone EXCEPT !.version = @ + 1]

\* A plausible mistake: the version of the zone stays.
SaveRowUnseen(r) ==
    /\ rows' = [rows EXCEPT ![req[r].code] = req[r].flags]
    /\ zone' = [zone EXCEPT !.postal_codes = Legacy(rows')]

SaveRow(r) == Save(zone, [rows EXCEPT ![req[r].code] = req[r].flags])

WritePostalCode(r) ==
    /\ At(r, "row") /\ ZoneFree /\ CanWrite
    /\ SaveRow(r)
    /\ End(r)
    /\ UNCHANGED <<offers, imported>>

\* A key that was used answers with the recorded import, or 409 for another file.
BeginImport(r, k, f) ==
    /\ CanWrite /\ KeyFree(k) /\ ZoneFree
    /\ imported[k] = NULL
    /\ Begin(r, [op |-> "import", key |-> k, file |-> f])
    /\ UNCHANGED gvars

ImportPostalCodes(r) ==
    /\ At(r, "import")
    /\ \A c \in Written(r): RowFree(c)
    /\ LET f == req[r].file IN
       /\ Save(zone, [c \in Codes |-> IF c \in DOMAIN f THEN f[c] ELSE rows[c]])
       /\ imported' = [imported EXCEPT ![req[r].key] = f]
    /\ End(r)
    /\ UNCHANGED offers

\* PostgreSQL rolls back one of two requests that wait for each other: one holds
\* the zone and needs a row, the other holds the row and waits for the zone.
DeadlockDetected(r, q) ==
    /\ req[r].op \in {"zone", "import"} /\ At(q, "row")
    /\ req[q].code \in Written(r)
    /\ End(r) \/ End(q)
    /\ UNCHANGED gvars

-----------------------------------------------------------------------------
(***************************************************************************)
(* Routing: match_zone, for the site's coverage check, and                 *)
(* service_area_at of the booking domain, for an address that lies within  *)
(* the selectors of the zone other than its postal codes.                  *)
(***************************************************************************)
MatchZone(c) ==
    /\ zone # NULL /\ zone.active
    /\ \/ \E d \in ActiveRows(rows) \cap {c, Base[c]}: rows[d].regular
       \/ zone.selector = "shape"
       \/ zone.selector = "locality" /\ \A d \in Codes: rows[d] = NULL

ServiceAreaAt(c) ==
    /\ zone # NULL /\ zone.active
    /\ zone.postal_codes = {} \/ Base[c] \in zone.postal_codes

Offered(s) == offers[s] # NULL => offers[s].active /\ offers[s].regular
=============================================================================
