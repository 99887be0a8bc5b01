SPECIFICATION Spec
CONSTANTS
    Holds = {h1, h2}
    Workers = {w1, w2}
    Owners = {o1}
    Owner <- SameOwner
    Starts = {0, 1}
    Duration = 2
    NULL = NULL
    MaxHolds = 2
    MaxDaily = 2
    Reserve = 0
    MaxConcurrent = 1
    HoursCapacity = 1
    Routes = {"confirm", "reschedule"}
INVARIANTS
    SlotIsBounded
    RoutesAgree
    BookingIsBacked
SYMMETRY Symmetry
CHECK_DEADLOCK FALSE
