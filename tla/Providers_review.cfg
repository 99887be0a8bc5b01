SPECIFICATION Spec
CONSTANTS
    s1 = s1
    s2 = s2
    d1 = d1
    Requests = {r1, r2}
    Services = {s1, s2}
    Skills = {k1}
    NeedsApproval = {s2}
    Workers = {w1, w2}
    Owner = w1
    Days = {d1}
    Coverages <- MCCoverage
    NULL = NULL
INVARIANTS
    LiveWasReviewed
    CatalogueNeverDeadlocks
SYMMETRY Symmetry
