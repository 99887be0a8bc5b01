SPECIFICATION FairPayoutSpec
CONSTANTS
    Earnings = {e1, e2}
    Batches = {b1, b2}
    Requests = {r1, r2}
    Plans <- MCPlans
    Gross = 3
    Adjustments <- MCAdjustments
    Change <- MCChange
    Disputes = {"dispute"}
    NULL = NULL
INVARIANTS
    BatchIsOwed
    PaidOnce
PROPERTIES
    IncludedOnce
    EarningIsBatched
