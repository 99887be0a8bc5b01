SPECIFICATION Spec
CONSTANTS
    p1 = p1
    p2 = p2
    s1 = s1
    r1 = r1
    r2 = r2
    Payments = {p1}
    Subjects = {s1}
    Subject <- OneSubject
    Kinds = {"booking", "lead"}
    Manual = {p1}
    Refunds = {r1, r2}
    Of <- TwoRefunds
    Amount = 2
    MaxSent = 1
INVARIANTS
    RefundedIsTrue
PROPERTIES
    CaptureIsKept
    SoldIsFinal
SYMMETRY RefundSymmetry
CHECK_DEADLOCK FALSE
