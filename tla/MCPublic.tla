------------------------------ MODULE MCPublic ------------------------------
(***************************************************************************)
(* One zone with a ZIP and a ZIP+4 of it, two services, one window with    *)
(* room for one booking, one intent and one direct booking, and one        *)
(* destination with two preferences and one privacy purpose.               *)
(***************************************************************************)
EXTENDS Public, TLC

CONSTANTS r1, r2, r3, Z, Z4, S, T, A, W, I, K1, K2

MCBase == (Z :> Z) @@ (Z4 :> Z)

Body(codes, services, regular, selector) ==
    [codes |-> codes, services |-> services, regular |-> regular,
     selector |-> selector, active |-> TRUE]

MCZoneCommands ==
    {Body({Z}, {S}, TRUE, "none"),
     Body({Z, Z4}, {}, FALSE, "locality"),
     Body({Z4}, NULL, NULL, NULL),
     Body({}, NULL, NULL, NULL),
     Body(NULL, NULL, FALSE, "shape"),
     Body(NULL, {}, NULL, NULL)}

MCImportFiles ==
    {Z :> [active |-> TRUE, regular |-> FALSE],
     (Z :> [active |-> FALSE, regular |-> TRUE]) @@ (Z4 :> [active |-> TRUE, regular |-> TRUE])}

Change(s, a, dated, slot) == [service |-> s, address |-> a, dated |-> dated, slot |-> slot]

MCIntentCommands ==
    {Change(ABSENT, A, TRUE, W), Change(ABSENT, NULL, ABSENT, ABSENT),
     Change(T, ABSENT, ABSENT, ABSENT), Change(ABSENT, ABSENT, TRUE, ABSENT),
     Change(ABSENT, ABSENT, TRUE, W), Change(ABSENT, ABSENT, ABSENT, NULL)}

MCBookingBodies == {[service |-> S, address |-> A, slot |-> W]}

Symmetry == Permutations(Requests)
=============================================================================
