SPECIFICATION Spec
CONSTANTS
    MaxScans = 3
    Projects = {j1}
    Connected = {j1}
    Procs = {p1, p2}
    Findings = {f1}
    Redis = {p1}
    MaxAttempts = 2
    MaxStalls = 1
    Concurrency = 2
    Faults = {}
    MaxCrashes = 0
    NoProc = NoProc
    NoProject = NoProject
INVARIANTS
    AlertedOncePerScan
    NewsAgainOnlyByOverlap
PROPERTY ImplementsLifecycle
CHECK_DEADLOCK FALSE
