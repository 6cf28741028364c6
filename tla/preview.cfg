SPECIFICATION PreviewSpec
CONSTANTS
    Clients = {c1, c2}
    Repos = {r1, r2}
    GuardWindow = 1
    GuardMax = 2
    Ttl = 2
    CacheMax = 1
    Window = 3
    MaxPerWindow = 2
    MaxScanTime = 2
    MaxTime = 5
    MaxRequests = 5
    None = None
SYMMETRY Symmetry
INVARIANTS
    QuotaHolds
    CacheIsSound
