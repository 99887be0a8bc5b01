SPECIFICATION Spec
CONSTANTS
    Events <- MCEvents
    Workers = {w1, w2}
    NULL = NULL
    Kind <- MixedKind
    Legacy = {}
    MaxAttempts = 2
    Limit = 2
    MaxCrashes = 0
    OdooEnabled = FALSE
    Rolling = TRUE
INVARIANTS
    ProcessingIsLeased
    DeliveredWasAccepted
    HeldIsOwned
    DownstreamAgrees
PROPERTIES
    DeliveredIsFinal
SYMMETRY WorkerSymmetry
