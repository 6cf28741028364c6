------------------------------ MODULE Tenancy ------------------------------
(***************************************************************************)
(* Sign-in and teams.  The AuthGuard of every request resolves its token   *)
(* to a user row, which it creates or re-links to a new identity, and      *)
(* provisions the user's personal organization on first sight              *)
(* (auth.service.ts); organizations grow by invitations                    *)
(* (invitations.module.ts).  An action ends where the code awaits, and the *)
(* unique constraints of schema.prisma decide the races.                   *)
(*                                                                         *)
(* The platform-admin flag, the mails and the audit log are left out:      *)
(* nothing here reads them.  The roles member and viewer are one.          *)
(*                                                                         *)
(* A slug is what the code makes of it: a name, or the local part of the   *)
(* email, as a slug spells it, and six characters of the user id.  Names   *)
(* that spell alike and ids that begin alike make one slug of two users.   *)
(***************************************************************************)
EXTENDS Naturals, Sequences, FiniteSets

CONSTANTS
    Claims,       \* the tokens in use: records of sub, email and name
    NoName,       \* the name of a token, or a user, without one
    Bases,        \* what slugs begin with,
    Base,         \* as a function of the user's name and email
    Prefixes,     \* the first six characters of user ids
    Requests,     \* requests in progress at a time
    MaxUsers,     \* bound: user rows
    MaxInvites,   \* bound: invitations ever created
    MaxMembers,   \* maxMembers of the organizations' plan
    InviteRoles,  \* the roles invitations are made for
    Routes,       \* the routes in use besides sign-in: "rename", "invite"
    MaxCut,       \* bound: users with a request that ended early
    Faults        \* "die": a request ends at some await, because its
                  \* process dies or the store throws

Names == {c.name : c \in Claims} \cup {NoName}
Emails == {c.email : c \in Claims}

ASSUME TenancyAssumption ==
    /\ MaxUsers \in Nat /\ MaxInvites \in Nat /\ MaxMembers \in Nat
    /\ MaxCut \in Nat
    /\ InviteRoles \subseteq {"admin", "member"}
    /\ Base \in [Names -> [Emails -> Bases]]
    /\ Routes \subseteq {"rename", "invite"}
    /\ Faults \subseteq {"die"}

VARIABLES
    users,       \* user rows, by id
    orgs,        \* organizations: the slug, and the user it was made for
    members,     \* membership rows
    invites,     \* invitation rows, by token
    joined,      \* observed: the users each invitation let in, or found in
    cut,         \* already; the users one of whose requests ended early;
    renamed,     \* and those whom a re-link gave another slug while they
                 \* had no organization
    pc,          \* where each request is, and its locals: the claims of its
    claim, me,   \* token, the user they resolve to, the name read with the
    name,        \* user's row, the organization the request is for, and the
    org, inv     \* invitation it accepts

observed == <<joined, cut, renamed>>
dbVars == <<users, orgs, members, invites, observed>>
locals == <<claim, me, name, org, inv>>
vars == <<dbVars, pc, locals>>

UserIds == 1 .. MaxUsers
InviteIds == 1 .. MaxInvites
UserRow == [sub : {c.sub : c \in Claims}, email : Emails, name : Names, prefix : Prefixes]
Slug == [base : Bases, prefix : Prefixes]
Org == [slug : Slug, user : UserIds]
Role == {"owner", "admin", "member"}
Membership == [org : Org, user : UserIds, role : Role]
Invitation == [org : Org, role : InviteRoles, accepted : BOOLEAN]

NoClaim == [sub |-> "none", email |-> "none", name |-> NoName]
NoOrg == [slug |-> [base |-> "none", prefix |-> "none"], user |-> 0]

PC == {"idle", "create", "reconcile", "byEmail", "relink", "unresolved", "list",
       "provision", "own", "org", "denied", "granted",
       "invite", "existing", "join", "mark"}

TypeOK ==
    /\ users \in Seq(UserRow) /\ Len(users) <= MaxUsers
    /\ orgs \subseteq Org
    /\ members \subseteq Membership
    /\ invites \in Seq(Invitation) /\ Len(invites) <= MaxInvites
    /\ joined \in [InviteIds -> SUBSET UserIds]
    /\ cut \subseteq UserIds /\ renamed \subseteq UserIds
    /\ pc \in [Requests -> PC]
    /\ claim \in [Requests -> Claims \cup {NoClaim}]
    /\ me \in [Requests -> UserIds \cup {0}]
    /\ name \in [Requests -> Names]
    /\ org \in [Requests -> Org \cup {NoOrg}]
    /\ inv \in [Requests -> InviteIds \cup {0}]

Init ==
    /\ users = << >> /\ orgs = {} /\ members = {} /\ invites = << >>
    /\ joined = [i \in InviteIds |-> {}]
    /\ cut = {} /\ renamed = {}
    /\ pc = [r \in Requests |-> "idle"]
    /\ claim = [r \in Requests |-> NoClaim]
    /\ me = [r \in Requests |-> 0]
    /\ name = [r \in Requests |-> NoName]
    /\ org = [r \in Requests |-> NoOrg]
    /\ inv = [r \in Requests |-> 0]

WithSub(s) == {u \in DOMAIN users : users[u].sub = s}
WithEmail(e) == {u \in DOMAIN users : users[u].email = e}
MembershipsOf(u) == {m \in members : m.user = u}
MembersOf(o) == {m \in members : m.org = o}

(* provisionPersonalOrg: the slug of user u, read with name n.             *)
SlugOf(u, n) == [base |-> Base[n][users[u].email], prefix |-> users[u].prefix]
Taken(s) == \E o \in orgs : o.slug = s

Goto(r, from, to) == pc[r] = from /\ pc' = [pc EXCEPT ![r] = to]

(* The request has the row of user u, named n, in hand. *)
Resolved(r, u, n) ==
    /\ me' = [me EXCEPT ![r] = u]
    /\ name' = [name EXCEPT ![r] = n]

End(r) ==
    /\ pc' = [pc EXCEPT ![r] = "idle"]
    /\ claim' = [claim EXCEPT ![r] = NoClaim]
    /\ me' = [me EXCEPT ![r] = 0]
    /\ name' = [name EXCEPT ![r] = NoName]
    /\ org' = [org EXCEPT ![r] = NoOrg]
    /\ inv' = [inv EXCEPT ![r] = 0]

-----------------------------------------------------------------------------
(* resolveUser. *)

SignIn(r, c) ==
    /\ pc[r] = "idle"
    /\ claim' = [claim EXCEPT ![r] = c]
    /\ \/ /\ WithSub(c.sub) = {}
          /\ pc' = [pc EXCEPT ![r] = "create"]
          /\ UNCHANGED <<me, name>>
       \/ \E u \in WithSub(c.sub) :
            pc' = [pc EXCEPT ![r] = "list"] /\ Resolved(r, u, users[u].name)
    /\ UNCHANGED <<dbVars, org, inv>>

(* A clash of the sub or the email is P2002. *)
CreateUser(r) ==
    LET c == claim[r]
        clash == WithSub(c.sub) \cup WithEmail(c.email)
    IN  /\ \/ /\ clash # {}
              /\ Goto(r, "create", "reconcile")
              /\ UNCHANGED <<users, me, name>>
           \/ /\ clash = {} /\ Len(users) < MaxUsers
              /\ Goto(r, "create", "list")
              /\ \E p \in Prefixes :
                   users' = Append(users, [sub |-> c.sub, email |-> c.email,
                                           name |-> c.name, prefix |-> p])
              /\ Resolved(r, Len(users) + 1, c.name)
        /\ UNCHANGED <<orgs, members, invites, observed, claim, org, inv>>

(* Mutant: only a race with the same identity is reconciled. *)
ReconcileRaceOnly(r) ==
    /\ \/ WithSub(claim[r].sub) = {} /\ Goto(r, "reconcile", "unresolved")
                                    /\ UNCHANGED <<me, name>>
       \/ \E u \in WithSub(claim[r].sub) :
            Goto(r, "reconcile", "list") /\ Resolved(r, u, users[u].name)
    /\ UNCHANGED <<dbVars, claim, org, inv>>

Reconcile(r) ==
    /\ \/ WithSub(claim[r].sub) = {} /\ Goto(r, "reconcile", "byEmail")
                                    /\ UNCHANGED <<me, name>>
       \/ \E u \in WithSub(claim[r].sub) :
            Goto(r, "reconcile", "list") /\ Resolved(r, u, users[u].name)
    /\ UNCHANGED <<dbVars, claim, org, inv>>

FindByEmail(r) ==
    /\ \/ WithEmail(claim[r].email) = {} /\ Goto(r, "byEmail", "unresolved")
                                        /\ UNCHANGED <<me, name>>
       \/ \E u \in WithEmail(claim[r].email) :
            Goto(r, "byEmail", "relink") /\ Resolved(r, u, users[u].name)
    /\ UNCHANGED <<dbVars, claim, org, inv>>

(* Re-links the identity to the user of its email and takes its name over, *)
(* or else writes back the name that was read with the user.               *)
(* A sub that another user has by now is P2002, which nothing catches here.*)
Relink(r) ==
    LET c == claim[r]
        u == me[r]
        n == IF c.name = NoName THEN name[r] ELSE c.name
    IN  /\ pc[r] = "relink"
        /\ \/ /\ WithSub(c.sub) \ {u} # {}
              /\ End(r)
              /\ UNCHANGED <<users, renamed>>
           \/ /\ WithSub(c.sub) \ {u} = {}
              /\ Goto(r, "relink", "list")
              /\ users' = [users EXCEPT ![u].sub = c.sub, ![u].name = n]
              /\ renamed' = IF MembershipsOf(u) = {} /\ SlugOf(u, n) # SlugOf(u, users[u].name)
                            THEN renamed \cup {u} ELSE renamed
              /\ Resolved(r, u, n)
              /\ UNCHANGED <<claim, org, inv>>
        /\ UNCHANGED <<orgs, members, invites, joined, cut>>

ListMine(r) ==
    /\ Goto(r, "list", IF MembershipsOf(me[r]) = {} THEN "provision" ELSE "org")
    /\ UNCHANGED <<dbVars, locals>>

PersonalOrg(r) == [slug |-> SlugOf(me[r], name[r]), user |-> me[r]]

(* Mutant: a taken slug is retried with the local part of the email.       *)
ProvisionRenamed(r) ==
    /\ Goto(r, "provision", "own")
    /\ name' = IF Taken(PersonalOrg(r).slug) THEN [name EXCEPT ![r] = NoName] ELSE name
    /\ orgs' = orgs \cup {[slug |-> SlugOf(me[r], name'[r]), user |-> me[r]]}
    /\ UNCHANGED <<users, members, invites, observed, claim, me, org, inv>>

(* A taken slug is P2002, which the caller takes to mean that another      *)
(* request of the user is at it.                                           *)
Provision(r) ==
    /\ pc[r] = "provision"
    /\ \/ /\ Taken(PersonalOrg(r).slug)
          /\ Goto(r, "provision", "org") /\ UNCHANGED orgs
       \/ /\ ~ Taken(PersonalOrg(r).slug)
          /\ Goto(r, "provision", "own") /\ orgs' = orgs \cup {PersonalOrg(r)}
    /\ UNCHANGED <<users, members, invites, observed, locals>>

(* Mutant: the new organization gets no membership. *)
OwnForgotten(r) ==
    /\ Goto(r, "own", "org")
    /\ UNCHANGED <<dbVars, locals>>

Own(r) ==
    /\ Goto(r, "own", "org")
    /\ members' = members \cup {[org |-> PersonalOrg(r), user |-> me[r], role |-> "owner"]}
    /\ UNCHANGED <<users, orgs, invites, observed, locals>>

(* resolveOrg: x-org-id names a membership, or the first one is taken.     *)
(* Nothing reads the claims and the name from here on.                     *)
ResolveOrg(r) ==
    /\ \/ MembershipsOf(me[r]) = {} /\ Goto(r, "org", "denied") /\ UNCHANGED org
       \/ \E m \in MembershipsOf(me[r]) :
            Goto(r, "org", "granted") /\ org' = [org EXCEPT ![r] = m.org]
    /\ claim' = [claim EXCEPT ![r] = NoClaim]
    /\ name' = [name EXCEPT ![r] = NoName]
    /\ UNCHANGED <<dbVars, me, inv>>

-----------------------------------------------------------------------------
(* Invitations. *)

Inviting == {r \in Requests : pc[r] = "invite"}

(* invite: member:manage, and the cap on the members there are. *)
CheckCap(r) ==
    /\ "invite" \in Routes
    /\ Goto(r, "granted", "invite")
    /\ Len(invites) + Cardinality(Inviting) < MaxInvites
    /\ \E m \in MembersOf(org[r]) : m.user = me[r] /\ m.role \in {"owner", "admin"}
    /\ Cardinality(MembersOf(org[r])) < MaxMembers
    /\ UNCHANGED <<dbVars, locals>>

(* Mutant: owners are invited. *)
CreateInviteAnyRole(r) ==
    /\ pc[r] = "invite" /\ Len(invites) < MaxInvites
    /\ \E role \in Role :
         invites' = Append(invites, [org |-> org[r], role |-> role, accepted |-> FALSE])
    /\ End(r)
    /\ UNCHANGED <<users, orgs, members, observed>>

CreateInvite(r) ==
    /\ pc[r] = "invite" /\ Len(invites) < MaxInvites
    /\ \E role \in InviteRoles :
         invites' = Append(invites, [org |-> org[r], role |-> role, accepted |-> FALSE])
    /\ End(r)
    /\ UNCHANGED <<users, orgs, members, observed>>

Accept(r, i) ==
    /\ Goto(r, "granted", "existing")
    /\ i \in DOMAIN invites /\ ~ invites[i].accepted
    /\ inv' = [inv EXCEPT ![r] = i]
    /\ UNCHANGED <<dbVars, claim, me, name, org>>

IsMember(u, o) == \E m \in members : m.user = u /\ m.org = o

(* Mutant: the invitation is used up first. *)
CheckExistingMarkFirst(r) ==
    LET i == invites[inv[r]] IN
    /\ pc[r] = "existing"
    /\ \/ /\ IsMember(me[r], i.org)
          /\ Goto(r, "existing", "mark")
          /\ joined' = [joined EXCEPT ![inv[r]] = @ \cup {me[r]}]
       \/ /\ ~ IsMember(me[r], i.org)
          /\ Goto(r, "existing", "join")
          /\ UNCHANGED joined
    /\ invites' = [invites EXCEPT ![inv[r]].accepted = TRUE]
    /\ UNCHANGED <<users, orgs, members, cut, renamed, locals>>

CheckExisting(r) ==
    LET i == invites[inv[r]] IN
    /\ pc[r] = "existing"
    /\ \/ /\ IsMember(me[r], i.org)
          /\ Goto(r, "existing", "mark")
          /\ joined' = [joined EXCEPT ![inv[r]] = @ \cup {me[r]}]
       \/ /\ ~ IsMember(me[r], i.org)
          /\ Goto(r, "existing", "join")
          /\ UNCHANGED joined
    /\ UNCHANGED <<users, orgs, members, invites, cut, renamed, locals>>

(* A second membership of the same organization is P2002, uncaught. *)
Join(r) ==
    LET i == invites[inv[r]] IN
    /\ pc[r] = "join"
    /\ \/ IsMember(me[r], i.org) /\ End(r) /\ UNCHANGED <<members, joined>>
       \/ /\ ~ IsMember(me[r], i.org)
          /\ Goto(r, "join", "mark")
          /\ members' = members \cup {[org |-> i.org, user |-> me[r], role |-> i.role]}
          /\ joined' = [joined EXCEPT ![inv[r]] = @ \cup {me[r]}]
          /\ UNCHANGED locals
    /\ UNCHANGED <<users, orgs, invites, cut, renamed>>

(* A store error, which PrismaStore swallows here, leaves what Die leaves. *)
Mark(r) ==
    /\ pc[r] = "mark"
    /\ invites' = [invites EXCEPT ![inv[r]].accepted = TRUE]
    /\ End(r)
    /\ UNCHANGED <<users, orgs, members, observed>>

-----------------------------------------------------------------------------
(* PATCH /me: the name of the user, which slugs are made of. *)
Rename(r, n) ==
    /\ "rename" \in Routes
    /\ pc[r] = "granted" /\ n # NoName
    /\ users' = [users EXCEPT ![me[r]].name = n]
    /\ End(r)
    /\ UNCHANGED <<orgs, members, invites, observed>>

(* Any other route, a 403, or the error of a user that was not resolved.   *)
Respond(r) ==
    /\ pc[r] \in {"granted", "denied", "unresolved"}
    /\ End(r)
    /\ UNCHANGED dbVars

Die(r) ==
    /\ "die" \in Faults /\ pc[r] \notin {"idle", "granted", "denied", "unresolved"}
    /\ cut' = cut \cup ({me[r]} \ {0})
    /\ Cardinality(cut') <= MaxCut
    /\ End(r)
    /\ UNCHANGED <<users, orgs, members, invites, joined, renamed>>

Authenticate(r) ==
    \/ CreateUser(r)
    \/ Reconcile(r)
    \/ FindByEmail(r)
    \/ Relink(r)
    \/ ListMine(r)
    \/ Provision(r)
    \/ Own(r)
    \/ ResolveOrg(r)

Team(r) ==
    \/ CheckCap(r)
    \/ CreateInvite(r)
    \/ \E i \in InviteIds : Accept(r, i)
    \/ CheckExisting(r)
    \/ Join(r)
    \/ Mark(r)
    \/ \E n \in Names : Rename(r, n)

Next ==
    \E r \in Requests :
        \/ \E c \in Claims : SignIn(r, c)
        \/ Authenticate(r)
        \/ Team(r)
        \/ Respond(r)
        \/ Die(r)

Spec == Init /\ [][Next]_vars

(* Every await of the guard settles. *)
FairSpec == Spec /\ \A r \in Requests : WF_vars(Authenticate(r))

-----------------------------------------------------------------------------
(* auth.service.ts:66, "Failed to resolve user after creation" is not      *)
(* reached: whatever identities of one email sign in at a time, a clash is *)
(* reconciled.  It takes that an identity keeps its email.                 *)
NeverUnresolved == \A r \in Requests : pc[r] # "unresolved"

(* docs/AUTH.md:37-38, "a personal organization": a user owns one at most, *)
(* however many sign-ins provision it, whatever names their tokens have    *)
(* and wherever they end - unless a re-link changed the slug between two   *)
(* of them: the slug is the only lock (provisionPersonalOrg).              *)
OwnsTwoOnlyIfRenamed ==
    \A u \in UserIds \ renamed :
        Cardinality({m \in MembershipsOf(u) : m.role = "owner"}) <= 1

(* An organization made for somebody else has the slug of u.               *)
HasNamesake(u) == \E o \in orgs : o.user # u /\ o.slug = SlugOf(u, users[u].name)

LockedOut(u) ==
    /\ MembershipsOf(u) = {}
    /\ Taken(SlugOf(u, users[u].name))
    /\ \A r \in Requests : pc[r] = "own" => me[r] # u

(* auth.service.ts:68-69, "Ensure the user owns a personal org (idempotent *)
(* - survives the race)": a user without organization can still get one,   *)
(* from a request at work on it or from the next sign-in, for which the    *)
(* slug must be free - unless a sign-in of the user ended between its two  *)
(* inserts, or another user has the slug, whose clash is taken for the     *)
(* race.  Races alone lock nobody out, whatever is renamed or re-linked.   *)
LockedOutOnlyByEndOrNamesake ==
    \A u \in DOMAIN users : LockedOut(u) => u \in cut \/ HasNamesake(u)

(* InvitationsController.accept: an invitation is used up only by somebody *)
(* who is a member by then, wherever accepting it ended.                   *)
UsedUpByAMember ==
    \A i \in DOMAIN invites : invites[i].accepted => joined[i] # {}

(* Under FairSpec: every user row gets its personal organization in the    *)
(* end, unless a request of the user ended early or another user has its   *)
(* slug.                                                                   *)
EveryUserOwns ==
    \A u \in UserIds :
        u \in DOMAIN users ~>
            MembershipsOf(u) # {} \/ u \in cut \/ (u \in DOMAIN users /\ HasNamesake(u))
=============================================================================
