SPECIFICATION FairSpec
CONSTANTS
    u1 = u1
    u2 = u2
    p1 = p1
    p2 = p2
    Users = {u1, u2}
    Projects = {p1, p2}
    Owner <- MCOwner
    Payers = {u1}
    MaxFailures = 1
    MaxBreaks = 1
    None = None
INVARIANTS
    GuardErrsOnOldNews
PROPERTIES
    CheckoutIsForNewcomers
    NobodyBouncesForever
CHECK_DEADLOCK FALSE
