SPECIFICATION WorkbenchSpec
CONSTANTS
    m1 = m1
    m2 = m2
    f1 = f1
    r1 = r1
    r2 = r2
    i1 = i1
    i2 = i2
    Nothing = Nothing
    Members = {m1, m2}
    Files = {f1}
    Repositories = {r1, r2}
    FirstRepo = r1
    RepoOf <- MCOneFile
    Issues = {i1, i2}
    At <- MCAt
    AiIssues = {i2}
    Secrets = {i1}
    Verifiable = {i1}
    Infra = {x, t}
    Recomputed = {t}
    Edits = {e}
    MaxScans = 2
    MaxBranches = 1
SYMMETRY Symmetry
CONSTRAINT Apart
PROPERTIES
    PushOverwritesOnlyUnseen
    IssuesLostOnlyByOverlap
