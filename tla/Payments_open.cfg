SPECIFICATION FairSpec
CONSTANTS
    p1 = p1
    p2 = p2
    s1 = s1
    r1 = r1
    r2 = r2
    Payments = {p1, p2}
    Subjects = {s1}
    Subject <- SameSubject
    Kinds = {"booking", "quote", "lead"}
    Manual = {p1}
    Refunds = {}
    Of <- NoRefund
    Amount = 1
    MaxSent = 1
INVARIANTS
    HandedOver
PROPERTIES
    PaidIsSettled
CHECK_DEADLOCK FALSE
