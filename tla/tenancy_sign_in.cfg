SPECIFICATION FairSpec
CONSTANTS
    Claims <- TwoOfAnnAndAnother
    NoName = NoName
    Bases <- SlugBases
    Base <- LowerCased
    Prefixes = {p}
    Requests = {r1, r2}
    MaxUsers = 2
    MaxInvites = 1
    MaxMembers = 2
    InviteRoles = {"admin"}
    Routes = {"rename", "invite"}
    MaxCut = 1
    Faults = {"die"}
INVARIANTS
    TypeOK
    NeverUnresolved
    OwnsTwoOnlyIfRenamed
    LockedOutOnlyByEndOrNamesake
    UsedUpByAMember
PROPERTY EveryUserOwns
