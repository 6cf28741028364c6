SPECIFICATION FairSpec
CONSTANTS
    MaxScans = 1
    Projects = {j1}
    Connected = {j1}
    Procs = {p1, p2, p3}
    Findings = {}
    Redis = {p1, p2}
    MaxAttempts = 2
    MaxStalls = 1
    Concurrency = 2
    Faults = {"timeout", "stall", "hang", "store"}
    MaxCrashes = 2
    NoProc = NoProc
    NoProject = NoProject
INVARIANTS
    TypeOK
    StrandedOnlyByLoss
    ZombiesAreCounted
    OverlapOnlyIfLetGo
PROPERTIES
    ReopenedOnlyByRetry
    EveryScanSettles
    NoJobWedges
CHECK_DEADLOCK FALSE
