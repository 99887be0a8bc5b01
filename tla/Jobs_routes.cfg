SPECIFICATION Spec
CONSTANTS
    w1 = w1
    w2 = w2
    Workers = {w1, w2}
    VendorOf <- OwnVendor
    Requests = {q1}
    Commands = {c1}
    MaxRounds = 2
    PaymentsEnabled = TRUE
    PayoutEnabled = TRUE
    NULL = NULL
INVARIANTS
    RoutesAgree
    AssignmentAgrees
    CompletedIsEarned
SYMMETRY Symmetry
CHECK_DEADLOCK FALSE
