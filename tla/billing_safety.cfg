SPECIFICATION Spec
CONSTANTS
    Procs = {p1}
    Calls = {c1, c2}
    TopPlan = 2
    MaxSubs = 1
    MaxEvents = 2
    MaxUnsigned = 1
    MaxCrashes = 0
    NoProc = NoProc
    Allowed = {"confirm", "change", "storeError", "duplicate", "reorder", "unpaid", "unsigned"}
SYMMETRY Symmetry
INVARIANTS
    TypeOK
    NothingUnpaid
    AppliedOncePerLifetime
    AccessFollowsStripe
CHECK_DEADLOCK FALSE
