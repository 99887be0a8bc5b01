SPECIFICATION Spec
CONSTANTS
    r1 = r1
    r2 = r2
    r3 = r3
    Z = Z
    Z4 = Z4
    S = S
    T = T
    A = A
    W = W
    I = I
    K1 = K1
    K2 = K2
    NULL = NULL
    ABSENT = ABSENT
    Requests = {r1, r2}
    Codes = {Z, Z4}
    Base <- MCBase
    Services = {S, T}
    ZoneCommands <- MCZoneCommands
    ImportFiles <- MCImportFiles
    ImportKeys = {K1}
    MaxVersion = 4
    Intents = {I}
    Addresses = {A}
    Slots = {W}
    Capacity = 1
    BookingKeys = {K1, K2}
    IntentCommands <- MCIntentCommands
    BookingBodies <- MCBookingBodies
    Preferences = {"TRANSACTIONAL_SMS", "MARKETING_SMS"}
    Revocable = "MARKETING_SMS"
    PrivacyPurposes = {"SALE_SHARING"}
    Loads = {{"edits"}, {"visits"}, {"consent"}}
SYMMETRY Symmetry
INVARIANTS
    LegacyAgrees
    ReplacesWhatWasSeen
    SlotWithinCapacity
    WithdrawalHolds
PROPERTY RetryIsSafe
CHECK_DEADLOCK FALSE
