SPECIFICATION FairSpec
CONSTANTS
    Conns = {"g", "v"}
    Provider <- MCProvider
    WithToken = {"g", "v"}
    Selection <- MCSelection
    Files <- MCFiles
    Tree <- MCTree
    Reach <- MCReach
    Kind <- MCKind
    Matched = {"linked"}
    Flaws <- MCFlaws
    At <- MCAt
    Class <- MCClass
    Line <- MCLine
    Plans <- MCPlans
    MaxFileReads = 1
    MaxIssuesPerFile = 2
    MaxPackages = 1
    MaxListed = 2
    MaxAudited = 1
    MaxKept = 1
    MaxChanges = 1
    None = None
PROPERTIES
    ReportIsFaithful
    EveryCollectionEnds
