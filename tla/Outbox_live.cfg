SPECIFICATION FairSpec
CONSTANTS
    Events = {1}
    Workers = {w1, w2}
    NULL = NULL
    Kind <- FormKind
    Legacy = {"DEAD_LETTER"}
    MaxAttempts = 2
    Limit = 1
    MaxCrashes = 2
    OdooEnabled = FALSE
    Rolling = TRUE
INVARIANTS
    RetryBudget
PROPERTIES
    EventuallySettled
    ParkedIsActivated
