SPECIFICATION Spec
CONSTANTS
    Requests = {r1, r2, r3}
    ProjectLimit = 2
    ScanLimit = 2
    FixLimit = 1
    MaxRepos = 2
    MaxScans = 4
    MaxFixes = 1
    MaxSignIns = 1
    Routes = {"projects", "fanOut", "signIn", "scans", "monitor", "fix", "push"}
SYMMETRY Symmetry
CONSTRAINT Bounded
INVARIANTS
    ProjectOvershoot
    ScanOvershoot
