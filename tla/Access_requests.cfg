SPECIFICATION Spec
CONSTANTS
    Accounts = {a1, a2}
    Requests = {r1, r2, r3, r4, r5}
    Root = a1
    First = r1
    Second = r2
    Subjects = {s1, s2}
    NULL = NULL
INVARIANTS
    SingleUse
    StaleIsRaced
    ContextIsAtomic
    ActsAsLinked
    NeverStuck
SYMMETRY Symmetry
CHECK_DEADLOCK FALSE
