SPECIFICATION FairSpec
CONSTANTS
    Procs = {p1, p2}
    Calls = {c1, c2}
    TopPlan = 1
    MaxSubs = 1
    MaxEvents = 2
    MaxUnsigned = 1
    MaxCrashes = 1
    NoProc = NoProc
    Allowed = {"admin", "reorder"}
INVARIANTS
    AckedWasApplied
PROPERTY EveryEventApplied
CHECK_DEADLOCK FALSE
