\* Two repositories of three, or a static site alone, with two hosting accounts, declared services or
\* neither, with and without two databases and a billing account; one triage decision, one commit.
SPECIFICATION Spec
CONSTANTS
    RepoLists <- MCRepoLists
    CloudLists <- MCCloudLists
    DatabaseLists <- MCDatabaseLists
    Codes <- MCCodes
    Commits <- MCCommits
    Overlays <- MCOverlays
    Decisions = {"accepted_risk"}
    MaxTriaged = 1
    MaxCommits = 1
INVARIANTS
    GraphWired
    NoRiskHidden
    FailedGateBlocks
    EnginesAgree
PROPERTY
    TriageHelps
