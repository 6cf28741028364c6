---------------------------- MODULE TenancyProofs ----------------------------
(***************************************************************************)
(* Proofs about Tenancy, for any tokens, requests and bounds.              *)
(***************************************************************************)
EXTENDS Tenancy, FiniteSetTheorems, TLAPS

USE TenancyAssumption

(* What the identity provider is trusted with: an identity keeps its       *)
(* email.                                                                  *)
IdentityKeepsEmail == \A c, d \in Claims : c.sub = d.sub => c.email = d.email

Claiming == {"create", "reconcile", "byEmail", "relink"}
Resolving == {"relink", "list", "provision", "own"}
Entered == {"granted", "invite", "existing", "join", "mark"}
Accepting == {"existing", "join", "mark"}

(* What a request holds where it is.                                       *)
Holds(r) ==
    /\ pc[r] \in Claiming => claim[r] \in Claims
    /\ pc[r] \in Resolving \cup Entered \cup {"org"} => me[r] \in DOMAIN users
    /\ pc[r] = "relink" => users[me[r]].email = claim[r].email
    /\ pc[r] \in Entered => org[r] \in Org /\ MembershipsOf(me[r]) # {}
    /\ pc[r] \in Accepting => inv[r] \in DOMAIN invites
    /\ pc[r] = "mark" => joined[inv[r]] # {}

HoldInv == \A r \in Requests : Holds(r)

(* The request a step is of is the only one it moves, and rows stay: users *)
(* with their emails, organizations, memberships and invitations.          *)
Frame(r) ==
    /\ \A q \in Requests \ {r} :
          /\ pc'[q] = pc[q] /\ claim'[q] = claim[q] /\ me'[q] = me[q]
          /\ name'[q] = name[q] /\ org'[q] = org[q] /\ inv'[q] = inv[q]
    /\ DOMAIN users \subseteq DOMAIN users'
    /\ \A u \in DOMAIN users : users'[u].email = users[u].email /\ users'[u].prefix = users[u].prefix
    /\ members \subseteq members' /\ orgs \subseteq orgs'
    /\ cut \subseteq cut' /\ renamed \subseteq renamed'
    /\ DOMAIN invites \subseteq DOMAIN invites'
    /\ \A i \in InviteIds : joined[i] \subseteq joined'[i]

Act(r) ==
    \/ \E c \in Claims : SignIn(r, c)
    \/ Authenticate(r)
    \/ Team(r)
    \/ Respond(r)
    \/ Die(r)

-----------------------------------------------------------------------------
(* Types, frames and what a request holds.                                 *)

LEMMA RowTypes ==
    TypeOK => /\ DOMAIN users = 1 .. Len(users) /\ DOMAIN users \subseteq UserIds
              /\ DOMAIN invites = 1 .. Len(invites) /\ DOMAIN invites \subseteq InviteIds
              /\ \A u \in DOMAIN users : users[u] \in UserRow
              /\ \A i \in DOMAIN invites : invites[i] \in Invitation
              /\ Len(users) \in Nat /\ Len(invites) \in Nat
              /\ \A u \in DOMAIN users : users[u].name \in Names
<1> SUFFICES ASSUME TypeOK
             PROVE  /\ DOMAIN users = 1 .. Len(users) /\ DOMAIN users \subseteq UserIds
                    /\ DOMAIN invites = 1 .. Len(invites) /\ DOMAIN invites \subseteq InviteIds
                    /\ \A u \in DOMAIN users : users[u] \in UserRow
                    /\ \A i \in DOMAIN invites : invites[i] \in Invitation
                    /\ Len(users) \in Nat /\ Len(invites) \in Nat
                    /\ \A u \in DOMAIN users : users[u].name \in Names
  OBVIOUS
<1>1. /\ DOMAIN users = 1 .. Len(users) /\ DOMAIN users \subseteq UserIds
      /\ DOMAIN invites = 1 .. Len(invites) /\ DOMAIN invites \subseteq InviteIds
      /\ \A u \in DOMAIN users : users[u] \in UserRow
      /\ \A i \in DOMAIN invites : invites[i] \in Invitation
      /\ Len(users) \in Nat /\ Len(invites) \in Nat
  BY DEF TypeOK, UserIds, InviteIds
<1>2. \A u \in DOMAIN users : /\ users[u].name \in Names /\ users[u].email \in Emails
                              /\ users[u].prefix \in Prefixes
  BY <1>1 DEF UserRow
<1> QED
  BY <1>1, <1>2

LEMMA SlugType ==
    ASSUME TypeOK, NEW u \in DOMAIN users, NEW n \in Names
    PROVE  SlugOf(u, n) \in Slug
<1>1. users[u].email \in Emails /\ users[u].prefix \in Prefixes
  BY RowTypes DEF UserRow
<1>2. Base[n][users[u].email] \in Bases
  BY <1>1
<1> QED
  BY <1>1, <1>2 DEF SlugOf, Slug

LEMMA InitStep == Init => TypeOK /\ HoldInv
<1> SUFFICES ASSUME Init PROVE TypeOK /\ HoldInv
  OBVIOUS
<1>1. users \in Seq(UserRow) /\ Len(users) = 0 /\ invites \in Seq(Invitation) /\ Len(invites) = 0
  BY DEF Init
<1> QED
  BY <1>1 DEF Init, TypeOK, PC, HoldInv, Holds, Claiming, Resolving, Entered, Accepting, Names

(* A request that ends holds nothing.                                      *)
LEMMA EndStep ==
    ASSUME TypeOK, NEW r \in Requests, End(r), DOMAIN users \subseteq DOMAIN users'
    PROVE  /\ pc' \in [Requests -> PC] /\ pc'[r] = "idle"
           /\ claim' \in [Requests -> Claims \cup {NoClaim}]
           /\ me' \in [Requests -> UserIds \cup {0}]
           /\ name' \in [Requests -> Names]
           /\ org' \in [Requests -> Org \cup {NoOrg}]
           /\ inv' \in [Requests -> InviteIds \cup {0}]
           /\ \A q \in Requests \ {r} :
                /\ pc'[q] = pc[q] /\ claim'[q] = claim[q] /\ me'[q] = me[q]
                /\ name'[q] = name[q] /\ org'[q] = org[q] /\ inv'[q] = inv[q]
           /\ Holds(r)'
  BY DEF End, TypeOK, PC, Holds, Claiming, Resolving, Entered, Accepting, Names

LEMMA ResolveUserStep ==
    ASSUME TypeOK, HoldInv, NEW r \in Requests,
           \/ \E c \in Claims : SignIn(r, c)
           \/ CreateUser(r) \/ Reconcile(r) \/ FindByEmail(r) \/ Relink(r)
    PROVE  TypeOK' /\ Frame(r) /\ Holds(r)'
<1>0. Holds(r)
  BY DEF HoldInv
<1> USE RowTypes
<1>1. ASSUME NEW c \in Claims, SignIn(r, c) PROVE TypeOK' /\ Frame(r) /\ Holds(r)'
  <2>1. TypeOK'
    <3>1. UNCHANGED <<dbVars, org, inv>> /\ claim' = [claim EXCEPT ![r] = c]
      BY <1>1 DEF SignIn
    <3>2. \/ pc' = [pc EXCEPT ![r] = "create"] /\ UNCHANGED <<me, name>>
          \/ \E u \in DOMAIN users :
               pc' = [pc EXCEPT ![r] = "list"] /\ Resolved(r, u, users[u].name)
      BY <1>1 DEF SignIn, WithSub
    <3>3. /\ pc' \in [Requests -> PC] /\ me' \in [Requests -> UserIds \cup {0}]
          /\ name' \in [Requests -> Names]
      <4>1. CASE pc' = [pc EXCEPT ![r] = "create"] /\ UNCHANGED <<me, name>>
        BY <4>1 DEF TypeOK, PC
      <4>2. ASSUME NEW u \in DOMAIN users, pc' = [pc EXCEPT ![r] = "list"],
                   Resolved(r, u, users[u].name)
            PROVE  /\ pc' \in [Requests -> PC] /\ me' \in [Requests -> UserIds \cup {0}]
                   /\ name' \in [Requests -> Names]
        <5>1. users[u].name \in Names /\ u \in UserIds
          BY DEF TypeOK
        <5> QED
          BY <4>2, <5>1 DEF TypeOK, PC, Resolved
      <4> QED
        BY <3>2, <4>1, <4>2
    <3> QED
      BY <3>1, <3>3 DEF TypeOK, dbVars, observed
  <2>2. Frame(r)
    BY <1>1 DEF SignIn, TypeOK, dbVars, observed, Resolved, Frame
  <2>3. Holds(r)'
    BY <1>1 DEF SignIn, TypeOK, dbVars, observed, WithSub, Resolved, Holds,
                Claiming, Resolving, Entered, Accepting
  <2> QED
    BY <2>1, <2>2, <2>3
<1>2. CASE CreateUser(r)
  <2> DEFINE c == claim[r]
             row(p) == [sub |-> c.sub, email |-> c.email, name |-> c.name, prefix |-> p]
  <2>0. pc[r] = "create" /\ c \in Claims
    BY <1>0, <1>2 DEF CreateUser, Goto, Holds, Claiming
  <2>1. CASE UNCHANGED <<users, me, name>> /\ Goto(r, "create", "reconcile")
    BY <1>0, <1>2, <2>0, <2>1
    DEF CreateUser, Goto, TypeOK, PC, observed, Frame, Holds, Claiming, Resolving, Entered, Accepting
  <2>2. CASE /\ Len(users) < MaxUsers
             /\ Goto(r, "create", "list")
             /\ \E p \in Prefixes : users' = Append(users, row(p))
             /\ Resolved(r, Len(users) + 1, c.name)
    <3>0. PICK p \in Prefixes : users' = Append(users, row(p))
      BY <2>2
    <3>1. row(p) \in UserRow
      BY <2>0 DEF UserRow, Names, Emails
    <3>2. /\ users' \in Seq(UserRow) /\ Len(users') = Len(users) + 1
          /\ DOMAIN users' = 1 .. Len(users) + 1
          /\ \A u \in DOMAIN users : users'[u] = users[u]
      BY <3>0, <3>1 DEF TypeOK
    <3>3. c.name \in Names /\ Len(users) + 1 \in UserIds
      BY <2>0, <2>2 DEF Names, UserIds
    <3>4. TypeOK'
      BY <1>2, <2>0, <2>2, <3>2, <3>3
      DEF CreateUser, Goto, Resolved, TypeOK, PC, observed, UserIds
    <3>5. Frame(r)
      BY <1>2, <2>2, <3>2 DEF CreateUser, Goto, Resolved, TypeOK, observed, Frame
    <3>6. Holds(r)'
      BY <1>2, <2>2, <3>2, <3>3
      DEF CreateUser, Goto, Resolved, TypeOK, Holds, Claiming, Resolving, Entered, Accepting
    <3> QED
      BY <3>4, <3>5, <3>6
  <2> QED
    BY <1>2, <2>1, <2>2 DEF CreateUser
<1>3. CASE Reconcile(r)
  <2>1. TypeOK'
    <3>1. UNCHANGED <<dbVars, claim, org, inv>>
      BY <1>3 DEF Reconcile
    <3>2. \/ pc' = [pc EXCEPT ![r] = "byEmail"] /\ UNCHANGED <<me, name>>
          \/ \E u \in DOMAIN users :
               pc' = [pc EXCEPT ![r] = "list"] /\ Resolved(r, u, users[u].name)
      BY <1>3 DEF Reconcile, WithSub, Goto
    <3>3. /\ pc' \in [Requests -> PC] /\ me' \in [Requests -> UserIds \cup {0}]
          /\ name' \in [Requests -> Names]
      <4>1. CASE pc' = [pc EXCEPT ![r] = "byEmail"] /\ UNCHANGED <<me, name>>
        BY <4>1 DEF TypeOK, PC
      <4>2. ASSUME NEW u \in DOMAIN users, pc' = [pc EXCEPT ![r] = "list"],
                   Resolved(r, u, users[u].name)
            PROVE  /\ pc' \in [Requests -> PC] /\ me' \in [Requests -> UserIds \cup {0}]
                   /\ name' \in [Requests -> Names]
        <5>1. users[u].name \in Names /\ u \in UserIds
          BY DEF TypeOK
        <5> QED
          BY <4>2, <5>1 DEF TypeOK, PC, Resolved
      <4> QED
        BY <3>2, <4>1, <4>2
    <3> QED
      BY <3>1, <3>3 DEF TypeOK, dbVars, observed
  <2>2. Frame(r)
    BY <1>3 DEF Reconcile, Goto, TypeOK, dbVars, observed, Resolved, Frame
  <2>3. Holds(r)'
    BY <1>0, <1>3 DEF Reconcile, Goto, TypeOK, dbVars, observed, WithSub, Resolved,
                      Holds, Claiming, Resolving, Entered, Accepting
  <2> QED
    BY <2>1, <2>2, <2>3
<1>4. CASE FindByEmail(r)
  <2>1. TypeOK'
    <3>1. UNCHANGED <<dbVars, claim, org, inv>>
      BY <1>4 DEF FindByEmail
    <3>2. \/ pc' = [pc EXCEPT ![r] = "unresolved"] /\ UNCHANGED <<me, name>>
          \/ \E u \in DOMAIN users :
               pc' = [pc EXCEPT ![r] = "relink"] /\ Resolved(r, u, users[u].name)
      BY <1>4 DEF FindByEmail, WithEmail, Goto
    <3>3. /\ pc' \in [Requests -> PC] /\ me' \in [Requests -> UserIds \cup {0}]
          /\ name' \in [Requests -> Names]
      <4>1. CASE pc' = [pc EXCEPT ![r] = "unresolved"] /\ UNCHANGED <<me, name>>
        BY <4>1 DEF TypeOK, PC
      <4>2. ASSUME NEW u \in DOMAIN users, pc' = [pc EXCEPT ![r] = "relink"],
                   Resolved(r, u, users[u].name)
            PROVE  /\ pc' \in [Requests -> PC] /\ me' \in [Requests -> UserIds \cup {0}]
                   /\ name' \in [Requests -> Names]
        <5>1. users[u].name \in Names /\ u \in UserIds
          BY DEF TypeOK
        <5> QED
          BY <4>2, <5>1 DEF TypeOK, PC, Resolved
      <4> QED
        BY <3>2, <4>1, <4>2
    <3> QED
      BY <3>1, <3>3 DEF TypeOK, dbVars, observed
  <2>2. Frame(r)
    BY <1>4 DEF FindByEmail, Goto, TypeOK, dbVars, observed, Resolved, Frame
  <2>3. Holds(r)'
    BY <1>0, <1>4 DEF FindByEmail, Goto, TypeOK, dbVars, observed, WithEmail, Resolved,
                      Holds, Claiming, Resolving, Entered, Accepting
  <2> QED
    BY <2>1, <2>2, <2>3
<1>5. CASE Relink(r)
  <2> DEFINE c == claim[r]
             u == me[r]
             n == IF c.name = NoName THEN name[r] ELSE c.name
  <2>0. c \in Claims /\ u \in DOMAIN users /\ name[r] \in Names
    BY <1>0, <1>5 DEF Relink, Holds, Claiming, Resolving, TypeOK
  <2>1. CASE End(r) /\ UNCHANGED <<users, renamed>>
    BY <1>5, <2>1, EndStep DEF Relink, TypeOK, observed, Frame
  <2>2. CASE /\ Goto(r, "relink", "list")
             /\ users' = [users EXCEPT ![u].sub = c.sub, ![u].name = n]
             /\ renamed' \in {renamed, renamed \cup {u}}
             /\ Resolved(r, u, n)
             /\ UNCHANGED <<claim, org, inv>>
    <3>1. n \in Names /\ u \in UserIds
      BY <2>0 DEF Names
    <3> HIDE DEF n
    <3>2. /\ DOMAIN users' = DOMAIN users
          /\ \A w \in DOMAIN users : /\ users'[w] \in UserRow /\ users'[w].email = users[w].email
                                     /\ users'[w].prefix = users[w].prefix
      BY <2>0, <2>2, <3>1 DEF TypeOK, UserRow
    <3>3. users' \in Seq(UserRow) /\ Len(users') = Len(users)
      <4>1. users' \in [1 .. Len(users) -> UserRow] /\ Len(users) \in Nat
        BY <2>2, <3>2 DEF TypeOK
      <4> QED
        BY <4>1
    <3>5. TypeOK'
      BY <1>5, <2>2, <3>1, <3>3 DEF Relink, Goto, Resolved, TypeOK, PC, observed
    <3>6. Frame(r)
      BY <1>5, <2>2, <3>2 DEF Relink, Goto, Resolved, TypeOK, observed, Frame
    <3>7. Holds(r)'
      BY <1>0, <1>5, <2>0, <2>2, <3>2
      DEF Relink, Goto, Resolved, TypeOK, Holds, Claiming, Resolving, Entered, Accepting
    <3> QED
      BY <3>5, <3>6, <3>7
  <2> QED
    BY <1>5, <2>1, <2>2 DEF Relink
<1> QED
  BY <1>1, <1>2, <1>3, <1>4, <1>5

LEMMA OnboardStep ==
    ASSUME TypeOK, HoldInv, NEW r \in Requests,
           ListMine(r) \/ Provision(r) \/ Own(r) \/ ResolveOrg(r)
    PROVE  TypeOK' /\ Frame(r) /\ Holds(r)'
<1>0. Holds(r)
  BY DEF HoldInv
<1> USE RowTypes
<1>1. CASE ListMine(r)
  BY <1>0, <1>1 DEF ListMine, Goto, TypeOK, PC, dbVars, observed, locals, Frame, Holds,
                    Claiming, Resolving, Entered, Accepting
<1>2. CASE Provision(r)
  <2>1. PersonalOrg(r) \in Org
    BY <1>0, <1>2, SlugType DEF Provision, Holds, Resolving, PersonalOrg, Org, TypeOK
  <2> QED
    BY <1>0, <1>2, <2>1 DEF Provision, Goto, TypeOK, PC, observed, locals, Frame, Holds,
                            Claiming, Resolving, Entered, Accepting
<1>3. CASE Own(r)
  <2>1. [org |-> PersonalOrg(r), user |-> me[r], role |-> "owner"] \in Membership
    BY <1>0, <1>3, SlugType
    DEF Own, Goto, Holds, Resolving, Membership, Role, PersonalOrg, Org, TypeOK
  <2>2. TypeOK'
    BY <1>3, <2>1 DEF Own, Goto, TypeOK, PC, observed, locals
  <2>3. Frame(r)
    BY <1>3 DEF Own, Goto, TypeOK, observed, locals, Frame
  <2>4. Holds(r)'
    BY <1>0, <1>3 DEF Own, Goto, TypeOK, observed, locals, Holds,
                      Claiming, Resolving, Entered, Accepting
  <2> QED
    BY <2>2, <2>3, <2>4
<1>4. CASE ResolveOrg(r)
  <2>1. \A m \in MembershipsOf(me[r]) : m.org \in Org
    BY DEF MembershipsOf, TypeOK, Membership
  <2>2. TypeOK'
    BY <1>4, <2>1 DEF ResolveOrg, Goto, TypeOK, PC, dbVars, observed, Names
  <2>3. Frame(r)
    BY <1>4 DEF ResolveOrg, Goto, TypeOK, dbVars, observed, Frame
  <2>4. Holds(r)'
    BY <1>0, <1>4, <2>1 DEF ResolveOrg, Goto, TypeOK, dbVars, observed, Holds, MembershipsOf,
                            Claiming, Resolving, Entered, Accepting
  <2> QED
    BY <2>2, <2>3, <2>4
<1> QED
  BY <1>1, <1>2, <1>3, <1>4

LEMMA TeamStep ==
    ASSUME TypeOK, HoldInv, NEW r \in Requests, Team(r) \/ Respond(r) \/ Die(r)
    PROVE  TypeOK' /\ Frame(r) /\ Holds(r)'
<1>0. Holds(r)
  BY DEF HoldInv
<1> USE RowTypes
<1>1. CASE CheckCap(r)
  BY <1>0, <1>1 DEF CheckCap, Goto, TypeOK, PC, dbVars, observed, locals, Frame, Holds,
                    MembershipsOf, Claiming, Resolving, Entered, Accepting
<1>2. CASE CreateInvite(r)
  <2>1. PICK role \in InviteRoles :
          invites' = Append(invites, [org |-> org[r], role |-> role, accepted |-> FALSE])
    BY <1>2 DEF CreateInvite
  <2>2. [org |-> org[r], role |-> role, accepted |-> FALSE] \in Invitation
    BY <1>0, <1>2 DEF CreateInvite, Holds, Entered, Invitation
  <2>3. /\ invites' \in Seq(Invitation) /\ Len(invites') = Len(invites) + 1
        /\ DOMAIN invites \subseteq DOMAIN invites'
    BY <2>1, <2>2 DEF TypeOK
  <2> QED
    BY <1>2, <2>3, EndStep DEF CreateInvite, TypeOK, observed, Frame
<1>3. ASSUME NEW i \in InviteIds, Accept(r, i) PROVE TypeOK' /\ Frame(r) /\ Holds(r)'
  BY <1>0, <1>3 DEF Accept, Goto, TypeOK, PC, dbVars, observed, Frame, Holds, MembershipsOf,
                    Claiming, Resolving, Entered, Accepting
<1>4. CASE CheckExisting(r)
  <2>0. inv[r] \in InviteIds /\ me[r] \in UserIds
    BY <1>0, <1>4 DEF CheckExisting, Holds, Accepting, Entered
  <2>1. /\ joined' \in [InviteIds -> SUBSET UserIds]
        /\ \A i \in InviteIds : joined[i] \subseteq joined'[i]
        /\ \/ Goto(r, "existing", "mark") /\ joined'[inv[r]] # {}
           \/ Goto(r, "existing", "join")
    <3>1. joined \in [InviteIds -> SUBSET UserIds]
      BY DEF TypeOK
    <3>2. joined' = joined \/ joined' = [joined EXCEPT ![inv[r]] = @ \cup {me[r]}]
      BY <1>4 DEF CheckExisting
    <3>3. /\ joined' \in [InviteIds -> SUBSET UserIds]
          /\ \A i \in InviteIds : joined[i] \subseteq joined'[i]
      BY <2>0, <3>1, <3>2
    <3>4. \/ /\ Goto(r, "existing", "mark")
             /\ joined' = [joined EXCEPT ![inv[r]] = @ \cup {me[r]}]
          \/ Goto(r, "existing", "join")
      BY <1>4 DEF CheckExisting
    <3> QED
      BY <2>0, <3>1, <3>3, <3>4
  <2> QED
    BY <1>0, <1>4, <2>1 DEF CheckExisting, Goto, TypeOK, PC, locals, Frame, Holds, MembershipsOf,
                            Claiming, Resolving, Entered, Accepting
<1>5. CASE Join(r)
  <2>0. inv[r] \in InviteIds /\ me[r] \in UserIds /\ invites[inv[r]] \in Invitation
    BY <1>0, <1>5 DEF Join, Holds, Accepting, Entered
  <2>1. CASE End(r) /\ UNCHANGED <<members, joined>>
    BY <1>5, <2>1, EndStep DEF Join, TypeOK, Frame
  <2>2. CASE /\ Goto(r, "join", "mark") /\ UNCHANGED locals
             /\ members' = members \cup
                  {[org |-> invites[inv[r]].org, user |-> me[r], role |-> invites[inv[r]].role]}
             /\ joined' = [joined EXCEPT ![inv[r]] = @ \cup {me[r]}]
    <3>1. [org |-> invites[inv[r]].org, user |-> me[r], role |-> invites[inv[r]].role]
             \in Membership
      BY <2>0 DEF Invitation, Membership, Role
    <3>2. members' \subseteq Membership /\ members \subseteq members'
      BY <2>2, <3>1 DEF TypeOK
    <3>3. /\ joined' \in [InviteIds -> SUBSET UserIds] /\ joined'[inv[r]] # {}
          /\ \A i \in InviteIds : joined[i] \subseteq joined'[i]
      BY <2>0, <2>2 DEF TypeOK
    <3> QED
      BY <1>0, <1>5, <2>2, <3>2, <3>3
      DEF Join, Goto, TypeOK, PC, locals, Frame, Holds, MembershipsOf,
          Claiming, Resolving, Entered, Accepting
  <2> QED
    BY <1>5, <2>1, <2>2 DEF Join
<1>6. CASE Mark(r)
  <2>0. inv[r] \in DOMAIN invites
    BY <1>0, <1>6 DEF Mark, Holds, Accepting
  <2>1. /\ DOMAIN invites' = DOMAIN invites
        /\ \A i \in DOMAIN invites : invites'[i] \in Invitation
    BY <1>6, <2>0 DEF Mark, Invitation, TypeOK
  <2>2. invites' \in Seq(Invitation) /\ Len(invites') = Len(invites)
    <3>1. invites' \in [1 .. Len(invites) -> Invitation] /\ Len(invites) \in Nat
      BY <1>6, <2>1 DEF Mark, TypeOK
    <3> QED
      BY <3>1
  <2> QED
    BY <1>6, <2>1, <2>2, EndStep DEF Mark, TypeOK, observed, Frame
<1>7. ASSUME NEW n \in Names, Rename(r, n) PROVE TypeOK' /\ Frame(r) /\ Holds(r)'
  <2>0. me[r] \in DOMAIN users
    BY <1>0, <1>7 DEF Rename, Holds, Entered
  <2>1. /\ DOMAIN users' = DOMAIN users
        /\ \A u \in DOMAIN users : /\ users'[u] \in UserRow /\ users'[u].email = users[u].email
                                   /\ users'[u].prefix = users[u].prefix
    BY <1>7, <2>0 DEF Rename, UserRow, TypeOK
  <2>2. users' \in Seq(UserRow) /\ Len(users') = Len(users)
    <3>1. users' \in [1 .. Len(users) -> UserRow] /\ Len(users) \in Nat
      BY <1>7, <2>1 DEF Rename, TypeOK
    <3> QED
      BY <3>1
  <2> QED
    BY <1>7, <2>1, <2>2, EndStep DEF Rename, TypeOK, observed, Frame
<1>8. CASE Respond(r)
  BY <1>8, EndStep DEF Respond, TypeOK, dbVars, observed, Frame
<1>9. CASE Die(r)
  BY <1>9, EndStep DEF Die, TypeOK, Frame
<1> QED
  BY <1>1, <1>2, <1>3, <1>4, <1>5, <1>6, <1>7, <1>8, <1>9 DEF Team

(* Every step is a request's, which goes on holding what it should, and so *)
(* do the others.                                                          *)
LEMMA ActStep ==
    ASSUME TypeOK, HoldInv, NEW r \in Requests, Act(r)
    PROVE  TypeOK' /\ HoldInv' /\ Frame(r)
<1>1. TypeOK' /\ Frame(r) /\ Holds(r)'
  BY ResolveUserStep, OnboardStep, TeamStep DEF Act, Authenticate
<1>2. ASSUME NEW q \in Requests \ {r} PROVE Holds(q)'
  <2>1. Holds(q)
    BY DEF HoldInv
  <2>2. MembershipsOf(me[q]) \subseteq MembershipsOf(me[q])'
    BY <1>1 DEF Frame, MembershipsOf
  <2>3. inv[q] \in DOMAIN invites => inv[q] \in InviteIds
    BY RowTypes
  <2> QED
    <3>1. /\ pc'[q] = pc[q] /\ claim'[q] = claim[q] /\ me'[q] = me[q]
          /\ name'[q] = name[q] /\ org'[q] = org[q] /\ inv'[q] = inv[q]
      BY <1>1 DEF Frame
    <3>2. /\ me[q] \in DOMAIN users => me[q] \in DOMAIN users' /\ users'[me[q]].email = users[me[q]].email
          /\ inv[q] \in DOMAIN invites => inv[q] \in DOMAIN invites' /\ joined[inv[q]] \subseteq joined'[inv[q]]
      BY <1>1, <2>3 DEF Frame
    <3>3. MembershipsOf(me[q])' # {} \/ MembershipsOf(me[q]) = {}
      BY <2>2
    <3> QED
      BY <2>1, <3>1, <3>2, <3>3 DEF Holds, Accepting, Entered, Resolving
<1> QED
  BY <1>1, <1>2 DEF HoldInv

LEMMA TypeStep == TypeOK /\ HoldInv /\ [Next]_vars => TypeOK' /\ HoldInv'
<1>1. ASSUME TypeOK, HoldInv, UNCHANGED vars PROVE TypeOK' /\ HoldInv'
  BY <1>1 DEF vars, dbVars, observed, locals, TypeOK, HoldInv, Holds, MembershipsOf
<1> QED
  BY <1>1, ActStep DEF Next, Act

LEMMA BaseInvariant == Spec => [](TypeOK /\ HoldInv)
  BY InitStep, TypeStep, PTL DEF Spec

(* Every reachable state of sign-in and teams is well typed.               *)
THEOREM TypeCorrect == Spec => []TypeOK
  BY BaseInvariant, PTL

-----------------------------------------------------------------------------
(* Which rows an action writes.                                            *)

LEMMA InvitesWritten ==
    ASSUME TypeOK, HoldInv, NEW r \in Requests, Act(r)
    PROVE  \A i \in DOMAIN invites' :
              invites'[i].accepted =>
                 \/ i \in DOMAIN invites /\ invites[i].accepted
                 \/ joined[i] # {} /\ i \in InviteIds
<1>0. Holds(r)
  BY DEF HoldInv
<1> USE RowTypes
<1>1. CASE UNCHANGED invites
  BY <1>1
<1>2. CASE CreateInvite(r)
  <2>1. PICK role \in InviteRoles :
          invites' = Append(invites, [org |-> org[r], role |-> role, accepted |-> FALSE])
    BY <1>2 DEF CreateInvite
  <2>2. /\ DOMAIN invites' = 1 .. Len(invites) + 1
        /\ \A i \in DOMAIN invites : invites'[i] = invites[i]
        /\ invites'[Len(invites) + 1] = [org |-> org[r], role |-> role, accepted |-> FALSE]
    BY <2>1 DEF TypeOK
  <2> QED
    BY <2>2
<1>3. CASE Mark(r)
  <2>1. inv[r] \in DOMAIN invites /\ joined[inv[r]] # {}
    BY <1>0, <1>3 DEF Mark, Holds, Accepting
  <2> QED
    BY <1>3, <2>1 DEF Mark
<1> QED
  BY <1>1, <1>2, <1>3
  DEF Act, SignIn, Authenticate, CreateUser, Reconcile, FindByEmail, Relink, ListMine, Provision,
      Own, ResolveOrg, Team, CheckCap, Accept, CheckExisting, Join, Rename, Respond, Die, dbVars

LEMMA UsedUpStep == TypeOK /\ HoldInv /\ UsedUpByAMember /\ [Next]_vars => UsedUpByAMember'
<1>1. ASSUME TypeOK, HoldInv, UsedUpByAMember, NEW r \in Requests, Act(r) PROVE UsedUpByAMember'
  <2>1. \A i \in InviteIds : joined[i] # {} => joined'[i] # {}
    BY <1>1, ActStep DEF Frame
  <2>2. \A i \in DOMAIN invites : i \in InviteIds
    BY <1>1, RowTypes
  <2> QED
    BY <1>1, <2>1, <2>2, InvitesWritten DEF UsedUpByAMember
<1>2. ASSUME UsedUpByAMember, UNCHANGED vars PROVE UsedUpByAMember'
  BY <1>2 DEF UsedUpByAMember, vars, dbVars, observed
<1> QED
  BY <1>1, <1>2 DEF Next, Act

(* An invitation is used up only by somebody who is a member by then,      *)
(* however many users accept it at a time and wherever they stop           *)
(* (InvitationsController.accept).                                         *)
THEOREM OnlyMembersUseUp == Spec => []UsedUpByAMember
<1>1. Init => UsedUpByAMember
  BY DEF Init, UsedUpByAMember
<1> QED
  BY <1>1, BaseInvariant, UsedUpStep, PTL DEF Spec

-----------------------------------------------------------------------------
(* An organization has a member, or a request about to write one, or one   *)
(* that was cut off before.                                                *)

Attended(o) ==
    \/ MembershipsOf(o.user) # {}
    \/ \E r \in Requests : pc[r] = "own" /\ me[r] = o.user
    \/ o.user \in cut

LockInv == \A o \in orgs : Attended(o)

LEMMA OrgsWritten ==
    ASSUME NEW r \in Requests, Act(r), pc \in [Requests -> PC]
    PROVE  \A o \in orgs' : o \in orgs \/ (o = PersonalOrg(r) /\ pc'[r] = "own" /\ pc[r] = "provision"
                                            /\ me'[r] = me[r])
<1>1. CASE UNCHANGED orgs
  BY <1>1
<1>2. CASE Provision(r)
  BY <1>2 DEF Provision, Goto, locals
<1> QED
  BY <1>1, <1>2
  DEF Act, SignIn, Authenticate, CreateUser, Reconcile, FindByEmail, Relink, ListMine,
      Own, ResolveOrg, Team, CheckCap, CreateInvite, Mark, Accept, CheckExisting, Join, Rename,
      Respond, Die, dbVars

(* What makes a request leave the second insert behind.                    *)
LEMMA OwnLeft ==
    ASSUME TypeOK, HoldInv, NEW r \in Requests, Act(r), pc[r] = "own"
    PROVE  (\E m \in members' : m.user = me[r]) \/ me[r] \in cut'
<1>0. me[r] \in UserIds
  BY RowTypes DEF HoldInv, Holds, Resolving
<1>1. CASE Own(r)
  <2>1. [org |-> PersonalOrg(r), user |-> me[r], role |-> "owner"] \in members'
    BY <1>1 DEF Own
  <2> QED
    BY <2>1
<1>2. CASE Die(r)
  <2>1. me[r] # 0
    BY <1>0 DEF UserIds
  <2> QED
    BY <1>2, <2>1 DEF Die
<1> QED
  BY <1>1, <1>2
  DEF Act, SignIn, Authenticate, CreateUser, Reconcile, FindByEmail, Relink, ListMine, Provision,
      ResolveOrg, Team, CheckCap, CreateInvite, Mark, Accept, CheckExisting, Join, Rename,
      Respond, Goto

LEMMA LockStep == TypeOK /\ HoldInv /\ LockInv /\ [Next]_vars => LockInv'
<1>1. ASSUME TypeOK, HoldInv, LockInv, NEW r \in Requests, Act(r), NEW o \in orgs'
      PROVE  Attended(o)'
  <2>1. Frame(r)
    BY <1>1, ActStep
  <2>2. CASE o \notin orgs
    <3>1. o = PersonalOrg(r) /\ pc'[r] = "own" /\ pc[r] = "provision" /\ me'[r] = me[r]
      BY <1>1, <2>2, OrgsWritten DEF TypeOK
    <3> QED
      BY <3>1 DEF Attended, PersonalOrg
  <2>3. CASE o \in orgs /\ MembershipsOf(o.user) # {}
    BY <2>1, <2>3 DEF Attended, Frame, MembershipsOf
  <2>4. CASE o.user \in cut
    BY <2>1, <2>4 DEF Attended, Frame
  <2>5. ASSUME NEW q \in Requests, pc[q] = "own", me[q] = o.user, q # r PROVE Attended(o)'
    BY <2>1, <2>5 DEF Attended, Frame
  <2>6. CASE pc[r] = "own" /\ me[r] = o.user
    <3>1. (\E m \in members' : m.user = o.user) \/ o.user \in cut'
      BY <1>1, <2>6, OwnLeft
    <3> QED
      BY <3>1 DEF Attended, MembershipsOf
  <2> QED
    BY <1>1, <2>2, <2>3, <2>4, <2>5, <2>6 DEF LockInv, Attended
<1>2. ASSUME LockInv, UNCHANGED vars PROVE LockInv'
  BY <1>2 DEF LockInv, Attended, MembershipsOf, vars, dbVars, observed, locals
<1> QED
  BY <1>1, <1>2 DEF Next, Act, LockInv

(* Races alone lock nobody out, whatever is renamed, re-linked or accepted *)
(* meanwhile: a user whose slug is taken and who has no organization had a *)
(* sign-in cut off between the two inserts, or another user has the slug   *)
(* (provisionPersonalOrg).                                                 *)
THEOREM EndsAndNamesakesLockOut == Spec => []LockedOutOnlyByEndOrNamesake
<1>1. Init => LockInv
  BY DEF Init, LockInv
<1>2. LockInv => LockedOutOnlyByEndOrNamesake
  <2> SUFFICES ASSUME LockInv, NEW u \in DOMAIN users, LockedOut(u)
               PROVE  u \in cut \/ HasNamesake(u)
    BY DEF LockedOutOnlyByEndOrNamesake
  <2>1. PICK o \in orgs : o.slug = SlugOf(u, users[u].name)
    BY DEF LockedOut, Taken
  <2>2. CASE o.user = u
    BY <2>1, <2>2 DEF LockInv, Attended, LockedOut
  <2>3. CASE o.user # u
    BY <2>1, <2>3 DEF HasNamesake
  <2> QED
    BY <2>2, <2>3
<1> QED
  BY <1>1, <1>2, BaseInvariant, LockStep, PTL DEF Spec

-----------------------------------------------------------------------------
(* Nobody stays unresolved, as long as an identity keeps its email.        *)

ClaimInv ==
    /\ \A u \in DOMAIN users : \E c \in Claims : users[u].sub = c.sub /\ users[u].email = c.email
    /\ \A r \in Requests : pc[r] \in {"reconcile", "byEmail"} => WithEmail(claim[r].email) # {}
    /\ NeverUnresolved

LEMMA UsersWritten ==
    ASSUME TypeOK, HoldInv, NEW r \in Requests, Act(r)
    PROVE  \A u \in DOMAIN users' :
              \/ /\ u \in DOMAIN users
                 /\ users'[u].email = users[u].email
                 /\ \/ users'[u].sub = users[u].sub
                    \/ users'[u].sub = claim[r].sub /\ pc[r] = "relink" /\ u = me[r]
              \/ /\ pc[r] = "create"
                 /\ users'[u].sub = claim[r].sub /\ users'[u].email = claim[r].email
<1>0. Holds(r)
  BY DEF HoldInv
<1> USE RowTypes
<1>1. CASE UNCHANGED users
  BY <1>1
<1>2. CASE CreateUser(r) /\ users' # users
  <2> DEFINE row(p) == [sub |-> claim[r].sub, email |-> claim[r].email,
                        name |-> claim[r].name, prefix |-> p]
  <2>1. pc[r] = "create"
    BY <1>2 DEF CreateUser, Goto
  <2>2. PICK p \in Prefixes : users' = Append(users, row(p))
    BY <1>2 DEF CreateUser
  <2>3. /\ DOMAIN users' = 1 .. Len(users) + 1 /\ users'[Len(users) + 1] = row(p)
        /\ \A u \in DOMAIN users : users'[u] = users[u]
    BY <2>2 DEF TypeOK
  <2> QED
    BY <2>1, <2>3
<1>3. CASE Relink(r) /\ users' # users
  <2>1. PICK n : users' = [users EXCEPT ![me[r]].sub = claim[r].sub, ![me[r]].name = n]
    BY <1>3 DEF Relink
  <2>2. pc[r] = "relink" /\ me[r] \in DOMAIN users
    BY <1>0, <1>3 DEF Relink, Holds, Resolving
  <2> QED
    BY <2>1, <2>2 DEF UserRow
<1>4. ASSUME NEW n \in Names, Rename(r, n)
      PROVE  /\ DOMAIN users' = DOMAIN users
             /\ \A u \in DOMAIN users : users'[u].sub = users[u].sub /\ users'[u].email = users[u].email
  <2>1. me[r] \in DOMAIN users /\ users' = [users EXCEPT ![me[r]].name = n]
    BY <1>0, <1>4 DEF Rename, Holds, Entered
  <2> QED
    BY <2>1 DEF UserRow
<1> QED
  BY <1>1, <1>2, <1>3, <1>4
  DEF Act, SignIn, Authenticate, CreateUser, Reconcile, FindByEmail, Relink, ListMine, Provision,
      Own, ResolveOrg, Team, CheckCap, CreateInvite, Mark, Accept, CheckExisting, Join,
      Respond, Die, dbVars

LEMMA WaysOfReconciling ==
    ASSUME TypeOK, NEW r \in Requests, Act(r)
    PROVE  /\ pc'[r] = "reconcile" => /\ pc[r] = "create" /\ claim'[r] = claim[r]
                                      /\ WithSub(claim[r].sub) \cup WithEmail(claim[r].email) # {}
           /\ pc'[r] = "byEmail" => pc[r] = "reconcile" /\ claim'[r] = claim[r]
           /\ pc'[r] = "unresolved" => pc[r] = "byEmail" /\ WithEmail(claim[r].email) = {}
  BY DEF Act, SignIn, Authenticate, CreateUser, Reconcile, FindByEmail, Relink, ListMine, Provision,
      Own, ResolveOrg, Team, CheckCap, CreateInvite, Mark, Accept, CheckExisting, Join, Rename,
      Respond, Die, Goto, End, TypeOK

LEMMA ClaimStep ==
    ASSUME IdentityKeepsEmail
    PROVE  TypeOK /\ HoldInv /\ ClaimInv /\ [Next]_vars => ClaimInv'
<1>1. ASSUME TypeOK, HoldInv, ClaimInv, NEW r \in Requests, Act(r) PROVE ClaimInv'
  <2>0. Holds(r) /\ Frame(r)
    BY <1>1, ActStep DEF HoldInv
  <2>1. ASSUME NEW u \in DOMAIN users'
        PROVE  \E c \in Claims : users'[u].sub = c.sub /\ users'[u].email = c.email
    <3>1. CASE /\ u \in DOMAIN users /\ users'[u].email = users[u].email
               /\ users'[u].sub = users[u].sub
      BY <1>1, <3>1 DEF ClaimInv
    <3>2. CASE /\ u \in DOMAIN users /\ users'[u].email = users[u].email
               /\ users'[u].sub = claim[r].sub /\ pc[r] = "relink" /\ u = me[r]
      BY <2>0, <3>2 DEF Holds, Claiming
    <3>3. CASE /\ pc[r] = "create"
               /\ users'[u].sub = claim[r].sub /\ users'[u].email = claim[r].email
      BY <2>0, <3>3 DEF Holds, Claiming
    <3> QED
      BY <1>1, <3>1, <3>2, <3>3, UsersWritten
  <2>2. \A e : WithEmail(e) # {} => \E u \in DOMAIN users' : users'[u].email = e
    BY <2>0 DEF Frame, WithEmail
  <2>3. ASSUME pc[r] = "create", WithSub(claim[r].sub) \cup WithEmail(claim[r].email) # {}
        PROVE  WithEmail(claim[r].email) # {}
    <3>1. claim[r] \in Claims
      BY <2>0, <2>3 DEF Holds, Claiming
    <3>2. ASSUME NEW u \in WithSub(claim[r].sub) PROVE u \in WithEmail(claim[r].email)
      <4>1. PICK c \in Claims : users[u].sub = c.sub /\ users[u].email = c.email
        BY <1>1 DEF ClaimInv, WithSub
      <4> QED
        BY <3>1, <4>1 DEF IdentityKeepsEmail, WithSub, WithEmail
    <3> QED
      BY <2>3, <3>2
  <2>4. ASSUME NEW q \in Requests, pc'[q] \in {"reconcile", "byEmail"}
        PROVE  \E u \in DOMAIN users' : users'[u].email = claim'[q].email
    <3>1. CASE q # r
      BY <1>1, <2>0, <2>2, <2>4, <3>1 DEF ClaimInv, Frame
    <3>2. CASE q = r
      <4>1. claim'[r] = claim[r] /\ WithEmail(claim[r].email) # {}
        BY <1>1, <2>3, <2>4, <3>2, WaysOfReconciling DEF ClaimInv
      <4> QED
        BY <2>2, <3>2, <4>1
    <3> QED
      BY <3>1, <3>2
  <2>5. NeverUnresolved'
    <3>1. \A q \in Requests \ {r} : pc'[q] # "unresolved"
      BY <1>1, <2>0 DEF ClaimInv, NeverUnresolved, Frame
    <3>2. pc'[r] # "unresolved"
      BY <1>1, WaysOfReconciling DEF ClaimInv
    <3> QED
      BY <3>1, <3>2 DEF NeverUnresolved
  <2> QED
    BY <2>1, <2>4, <2>5 DEF ClaimInv, WithEmail
<1>2. ASSUME ClaimInv, UNCHANGED vars PROVE ClaimInv'
  BY <1>2 DEF ClaimInv, NeverUnresolved, WithEmail, vars, dbVars, observed, locals
<1> QED
  BY <1>1, <1>2 DEF Next, Act

(* The error "Failed to resolve user after creation" is out of reach: a    *)
(* sign-in that loses the race for a user row finds the winner's, if an    *)
(* identity keeps its email (resolveUser).                                 *)
THEOREM EverySignInResolves ==
    ASSUME IdentityKeepsEmail
    PROVE  Spec => []NeverUnresolved
<1>1. Init => ClaimInv
  BY DEF Init, ClaimInv, NeverUnresolved
<1>2. ClaimInv => NeverUnresolved
  BY DEF ClaimInv
<1> QED
  BY <1>1, <1>2, BaseInvariant, ClaimStep, PTL DEF Spec

-----------------------------------------------------------------------------
(* One personal organization: until a user has one, every slug made for    *)
(* the user is the first that was, unless a re-link changed it.            *)

Unowned(u) == MembershipsOf(u) = {} /\ u \notin renamed

FirstSlugs(first) ==
    /\ \A u \in DOMAIN users : Unowned(u) => SlugOf(u, users[u].name) = first[u]
    /\ \A r \in Requests :
          /\ pc[r] \in {"provision", "own"} /\ me[r] \notin renamed
                => SlugOf(me[r], name[r]) = first[me[r]]
          /\ pc[r] \in {"relink", "list"} /\ Unowned(me[r])
                => SlugOf(me[r], name[r]) = first[me[r]]
    /\ \A m \in members :
          m.role = "owner" => /\ m.user \in DOMAIN users
                              /\ m.user \notin renamed
                                    => m.org = [slug |-> first[m.user], user |-> m.user]

Slugs == Slug \cup {NoOrg.slug}

FirstSlugInv == \E first \in [UserIds -> Slugs] : FirstSlugs(first)

LEMMA SlugStays ==
    ASSUME NEW u \in DOMAIN users, NEW n,
           users'[u].email = users[u].email, users'[u].prefix = users[u].prefix
    PROVE  SlugOf(u, n)' = SlugOf(u, n)
  BY DEF SlugOf

(* What a request's step may make of names and memberships.                *)
LEMMA NamesWritten ==
    ASSUME TypeOK, HoldInv, NEW r \in Requests, Act(r)
    PROVE  \A u \in DOMAIN users' :
              \/ u \in DOMAIN users /\ users'[u].name = users[u].name
              \/ /\ pc[r] = "relink" /\ pc'[r] = "list" /\ u = me[r] /\ u \in DOMAIN users
                 /\ users'[u].name = name'[r] /\ name'[r] \in Names
                 /\ \/ MembershipsOf(u) # {} \/ u \in renamed'
                    \/ SlugOf(u, name'[r]) = SlugOf(u, users[u].name)
              \/ pc[r] = "granted" /\ u = me[r] /\ u \in DOMAIN users
              \/ /\ u \notin DOMAIN users /\ pc[r] = "create" /\ pc'[r] = "list"
                 /\ u = me'[r] /\ users'[u].name = name'[r] /\ name'[r] \in Names
                 /\ \A v \in DOMAIN users' : v \notin DOMAIN users => v = u
<1>0. Holds(r) /\ name \in [Requests -> Names] /\ me \in [Requests -> UserIds \cup {0}]
      /\ pc \in [Requests -> PC]
  BY DEF HoldInv, TypeOK
<1> USE RowTypes
<1>1. CASE UNCHANGED users
  BY <1>1
<1>2. CASE CreateUser(r) /\ users' # users
  <2> DEFINE row(p) == [sub |-> claim[r].sub, email |-> claim[r].email,
                        name |-> claim[r].name, prefix |-> p]
  <2>1. /\ pc[r] = "create" /\ pc'[r] = "list"
        /\ me'[r] = Len(users) + 1 /\ name'[r] = claim[r].name /\ claim[r].name \in Names
    BY <1>0, <1>2 DEF CreateUser, Goto, Resolved, Holds, Claiming, Names
  <2>2. PICK p \in Prefixes : users' = Append(users, row(p))
    BY <1>2 DEF CreateUser
  <2>3. /\ DOMAIN users' = 1 .. Len(users) + 1 /\ users'[Len(users) + 1] = row(p)
        /\ \A u \in DOMAIN users : users'[u] = users[u]
    BY <2>2 DEF TypeOK
  <2>4. \A v \in DOMAIN users' : v \notin DOMAIN users => v = Len(users) + 1
    BY <2>3
  <2> QED
    BY <2>1, <2>3, <2>4
<1>3. CASE Relink(r) /\ users' # users
  <2> DEFINE n == IF claim[r].name = NoName THEN name[r] ELSE claim[r].name
  <2>1. /\ users' = [users EXCEPT ![me[r]].sub = claim[r].sub, ![me[r]].name = n]
        /\ pc[r] = "relink" /\ pc'[r] = "list" /\ name'[r] = n
        /\ renamed' = IF MembershipsOf(me[r]) = {} /\ SlugOf(me[r], n) # SlugOf(me[r], users[me[r]].name)
                      THEN renamed \cup {me[r]} ELSE renamed
    BY <1>0, <1>3 DEF Relink, Goto, Resolved
  <2>2. me[r] \in DOMAIN users /\ n \in Names
    BY <1>0, <1>3 DEF Relink, Holds, Resolving, Claiming, Names
  <2> HIDE DEF n
  <2>3. users'[me[r]].name = n
    BY <2>1, <2>2 DEF UserRow
  <2>4. \A u \in DOMAIN users' : u \in DOMAIN users /\ (u # me[r] => users'[u].name = users[u].name)
    BY <2>1, <2>2 DEF UserRow
  <2>5. \/ MembershipsOf(me[r]) # {} \/ me[r] \in renamed'
        \/ SlugOf(me[r], n) = SlugOf(me[r], users[me[r]].name)
    BY <2>1
  <2> QED
    BY <2>1, <2>2, <2>3, <2>4, <2>5
<1>4. ASSUME NEW n \in Names, Rename(r, n)
      PROVE  /\ DOMAIN users' = DOMAIN users /\ pc[r] = "granted" /\ me[r] \in DOMAIN users
             /\ \A u \in DOMAIN users : u # me[r] => users'[u] = users[u]
  BY <1>0, <1>4 DEF Rename, Holds, Entered
<1> QED
  BY <1>1, <1>2, <1>3, <1>4
  DEF Act, SignIn, Authenticate, CreateUser, Reconcile, FindByEmail, Relink, ListMine, Provision,
      Own, ResolveOrg, Team, CheckCap, CreateInvite, Mark, Accept, CheckExisting, Join,
      Respond, Die, dbVars

LEMMA OwnersWritten ==
    ASSUME TypeOK, HoldInv, NEW r \in Requests, Act(r)
    PROVE  \A m \in members' :
              \/ m \in members
              \/ m.role # "owner"
              \/ pc[r] = "own" /\ m.org = PersonalOrg(r) /\ m.user = me[r]
<1>0. Holds(r)
  BY DEF HoldInv
<1>1. CASE UNCHANGED members
  BY <1>1
<1>2. CASE Own(r)
  BY <1>2 DEF Own, Goto
<1>3. CASE Join(r)
  <2>1. invites[inv[r]].role # "owner"
    BY <1>0, <1>3, RowTypes DEF Join, Holds, Accepting, Invitation
  <2> QED
    BY <1>3, <2>1 DEF Join
<1> QED
  BY <1>1, <1>2, <1>3
  DEF Act, SignIn, Authenticate, CreateUser, Reconcile, FindByEmail, Relink, ListMine, Provision,
      ResolveOrg, Team, CheckCap, CreateInvite, Mark, Accept, CheckExisting, Rename,
      Respond, Die, dbVars

(* Where the name comes from that a request makes its slug of.             *)
LEMMA SlugsWritten ==
    ASSUME TypeOK, HoldInv, NEW r \in Requests, Act(r), pc'[r] \in Resolving
    PROVE  \/ pc[r] = "create" /\ pc'[r] = "list" /\ me'[r] \notin DOMAIN users
           \/ /\ pc[r] \in {"idle", "reconcile", "byEmail"} /\ pc'[r] \in {"list", "relink"}
              /\ UNCHANGED users
              /\ me'[r] \in DOMAIN users /\ name'[r] = users[me'[r]].name
           \/ /\ pc[r] = "relink" /\ pc'[r] = "list" /\ me'[r] = me[r]
              /\ me[r] \in DOMAIN users /\ users'[me[r]].name = name'[r]
           \/ /\ pc[r] = "list" /\ pc'[r] = "provision" /\ me'[r] = me[r] /\ name'[r] = name[r]
              /\ MembershipsOf(me[r]) = {}
           \/ pc[r] = "provision" /\ pc'[r] = "own" /\ me'[r] = me[r] /\ name'[r] = name[r]
<1>0. r \in Requests /\ pc \in [Requests -> PC] /\ me \in [Requests -> UserIds \cup {0}]
      /\ name \in [Requests -> Names] /\ (Len(users) + 1) \notin DOMAIN users /\ Holds(r)
  BY RowTypes DEF TypeOK, HoldInv
<1>1. ASSUME NEW c \in Claims, SignIn(r, c)
      PROVE  pc'[r] \in Resolving =>
               /\ pc[r] = "idle" /\ pc'[r] = "list" /\ UNCHANGED users
               /\ me'[r] \in DOMAIN users /\ name'[r] = users[me'[r]].name
  BY <1>0, <1>1 DEF SignIn, Resolved, WithSub, Resolving, dbVars
<1>2. CASE CreateUser(r)
  BY <1>0, <1>2 DEF CreateUser, Resolved, Goto, Resolving
<1>3. CASE Reconcile(r)
  BY <1>0, <1>3 DEF Reconcile, Resolved, Goto, Resolving, WithSub, dbVars
<1>4. CASE FindByEmail(r)
  BY <1>0, <1>4 DEF FindByEmail, Resolved, Goto, Resolving, WithEmail, dbVars
<1>5. CASE Relink(r)
  <2>1. CASE End(r)
    BY <1>0, <2>1 DEF Resolving, End
  <2>2. CASE ~ End(r)
    <3> DEFINE n == IF claim[r].name = NoName THEN name[r] ELSE claim[r].name
    <3>1. /\ pc[r] = "relink" /\ pc'[r] = "list" /\ me'[r] = me[r] /\ name'[r] = n
          /\ me[r] \in DOMAIN users
          /\ users' = [users EXCEPT ![me[r]].sub = claim[r].sub, ![me[r]].name = n]
      BY <1>0, <1>5, <2>2 DEF Relink, Resolved, Goto, Holds, Resolving
    <3> HIDE DEF n
    <3>2. users'[me[r]].name = n
      BY <3>1, RowTypes DEF UserRow
    <3> QED
      BY <3>1, <3>2
  <2> QED
    BY <2>1, <2>2
<1>6. CASE ListMine(r) \/ Provision(r) \/ Own(r) \/ ResolveOrg(r)
  BY <1>0, <1>6 DEF ListMine, Provision, Own, ResolveOrg, Goto, Resolving, locals
<1>7. CASE Team(r) \/ Respond(r) \/ Die(r)
  BY <1>0, <1>7 DEF Team, CheckCap, CreateInvite, Mark, Accept, CheckExisting, Join, Rename,
                    Respond, Die, Goto, Resolving, End
<1> QED
  BY <1>1, <1>2, <1>3, <1>4, <1>5, <1>6, <1>7 DEF Act, Authenticate

(* The slug that a request's step leaves the row and the request with.     *)
LEMMA FirstSlugAct ==
    ASSUME TypeOK, HoldInv, NEW r \in Requests, Act(r),
           NEW first \in [UserIds -> Slugs], FirstSlugs(first),
           NEW next \in [UserIds -> Slugs],
           \A u \in DOMAIN users : next[u] = first[u],
           \A u \in DOMAIN users' \ DOMAIN users : next[u] = SlugOf(u, users[u].name)'
    PROVE  FirstSlugs(next)'
<1>0. Holds(r) /\ Frame(r) /\ TypeOK' /\ HoldInv'
  BY ActStep DEF HoldInv
<1>1. \A u \in DOMAIN users : /\ u \in DOMAIN users'
                              /\ \A n : SlugOf(u, n)' = SlugOf(u, n)
  BY <1>0, SlugStays DEF Frame
<1>2. \A u : Unowned(u)' => Unowned(u)
  BY <1>0 DEF Frame, MembershipsOf, Unowned
<1>3. \A u : u \notin renamed' => u \notin renamed
  BY <1>0 DEF Frame
<1>4. ASSUME NEW u \in DOMAIN users', Unowned(u)'
      PROVE  SlugOf(u, users[u].name)' = next[u]
  <2>1. CASE u \notin DOMAIN users
    BY <2>1
  <2>2. CASE u \in DOMAIN users
    <3>0. PICK n : n = users'[u].name
      OBVIOUS
    <3>1. /\ Unowned(u) /\ SlugOf(u, users[u].name) = first[u] /\ next[u] = first[u]
          /\ SlugOf(u, n)' = SlugOf(u, n)
      BY <1>1, <1>2, <1>4, <2>2 DEF FirstSlugs
    <3>2. SlugOf(u, n) = SlugOf(u, users[u].name)
      <4>1. CASE n = users[u].name
        BY <4>1
      <4>2. CASE \/ MembershipsOf(u) # {} \/ u \in renamed'
                 \/ n = name'[r] /\ SlugOf(u, name'[r]) = SlugOf(u, users[u].name)
        BY <1>4, <3>1, <4>2 DEF Unowned
      <4>3. CASE pc[r] = "granted" /\ u = me[r]
        BY <1>0, <3>1, <4>3 DEF Holds, Entered, Unowned
      <4> QED
        BY <2>2, <3>0, <4>1, <4>2, <4>3, NamesWritten
    <3>3. SlugOf(u, users[u].name)' = SlugOf(u, n)'
      BY <3>0 DEF SlugOf
    <3> QED
      BY <3>1, <3>2, <3>3
  <2> QED
    BY <2>1, <2>2
<1>5. ASSUME NEW q \in Requests \ {r}
      PROVE  /\ pc'[q] \in {"provision", "own"} /\ me'[q] \notin renamed'
                   => SlugOf(me[q], name[q])' = next[me'[q]]
             /\ pc'[q] \in {"relink", "list"} /\ Unowned(me[q])'
                   => SlugOf(me[q], name[q])' = next[me'[q]]
  <2>1. pc'[q] = pc[q] /\ name'[q] = name[q] /\ me'[q] = me[q]
    BY <1>0 DEF Frame
  <2>2. pc[q] \in Resolving => me[q] \in DOMAIN users
    BY DEF HoldInv, Holds
  <2>3. pc[q] \in Resolving =>
          /\ SlugOf(me[q], name[q])' = SlugOf(me[q], name[q])
          /\ next[me[q]] = first[me[q]]
    BY <1>1, <2>1, <2>2 DEF SlugOf
  <2>4. Unowned(me[q])' => Unowned(me[q])
    BY <1>2, <2>1 DEF Unowned, MembershipsOf
  <2> QED
    BY <1>3, <2>1, <2>3, <2>4 DEF FirstSlugs, Resolving
<1>6. /\ pc'[r] \in {"provision", "own"} /\ me'[r] \notin renamed'
            => SlugOf(me[r], name[r])' = next[me'[r]]
      /\ pc'[r] \in {"relink", "list"} /\ Unowned(me[r])'
            => SlugOf(me[r], name[r])' = next[me'[r]]
  (* The request has read the name that the row has now. *)
  <2>1. ASSUME pc'[r] \in {"relink", "list"}, me'[r] \in DOMAIN users',
               name'[r] = users'[me'[r]].name, Unowned(me[r])'
        PROVE  SlugOf(me[r], name[r])' = next[me'[r]]
    <3>0. PICK u \in DOMAIN users' : u = me'[r]
      BY <2>1
    <3>1. Unowned(u)'
      BY <2>1, <3>0 DEF Unowned, MembershipsOf
    <3>2. SlugOf(u, users[u].name)' = next[u]
      BY <1>4, <3>1
    <3> QED
      BY <2>1, <3>0, <3>2 DEF SlugOf
  <2>2. CASE pc[r] = "create" /\ pc'[r] = "list" /\ me'[r] \notin DOMAIN users
    <3>1. me'[r] \in DOMAIN users'
      BY <1>0, <2>2 DEF HoldInv, Holds, Resolving
    <3>2. name'[r] = users'[me'[r]].name
      BY <2>2, <3>1, NamesWritten
    <3> QED
      BY <2>1, <2>2, <3>1, <3>2
  <2>3. CASE /\ pc'[r] \in {"list", "relink"} /\ UNCHANGED users
             /\ me'[r] \in DOMAIN users /\ name'[r] = users[me'[r]].name
    BY <2>1, <2>3
  <2>4. CASE /\ pc[r] = "relink" /\ pc'[r] = "list" /\ me'[r] = me[r]
             /\ me[r] \in DOMAIN users /\ users'[me[r]].name = name'[r]
    BY <1>1, <2>1, <2>4
  <2>5. CASE /\ pc[r] \in {"list", "provision"} /\ pc'[r] \in {"provision", "own"}
             /\ me'[r] = me[r] /\ name'[r] = name[r]
             /\ pc[r] = "list" => MembershipsOf(me[r]) = {}
    <3>1. me[r] \in DOMAIN users
      BY <1>0, <2>5 DEF Holds, Resolving
    <3>2. SlugOf(me[r], name[r])' = SlugOf(me[r], name[r]) /\ next[me[r]] = first[me[r]]
      BY <1>1, <2>5, <3>1 DEF SlugOf
    <3>3. me'[r] \notin renamed' => SlugOf(me[r], name[r]) = first[me[r]]
      BY <1>3, <2>5 DEF FirstSlugs, Unowned
    <3> QED
      BY <2>5, <3>2, <3>3
  <2> QED
    BY <2>2, <2>3, <2>4, <2>5, SlugsWritten DEF Resolving
<1>7. ASSUME NEW m \in members', m.role = "owner"
      PROVE  /\ m.user \in DOMAIN users'
             /\ m.user \notin renamed' => m.org = [slug |-> next[m.user], user |-> m.user]
  <2>1. CASE m \in members
    BY <1>1, <1>3, <1>7, <2>1 DEF FirstSlugs
  <2>2. CASE pc[r] = "own" /\ m.org = PersonalOrg(r) /\ m.user = me[r]
    <3>1. me[r] \in DOMAIN users
      BY <1>0, <2>2 DEF Holds, Resolving
    <3>2. me[r] \notin renamed => SlugOf(me[r], name[r]) = first[me[r]]
      BY <2>2 DEF FirstSlugs
    <3> QED
      BY <1>1, <1>3, <2>2, <3>1, <3>2 DEF PersonalOrg
  <2> QED
    BY <1>7, <2>1, <2>2, OwnersWritten
<1> QED
  BY <1>4, <1>5, <1>6, <1>7 DEF FirstSlugs

LEMMA FirstSlugStep == TypeOK /\ HoldInv /\ FirstSlugInv /\ [Next]_vars => FirstSlugInv'
<1>1. ASSUME TypeOK, HoldInv, FirstSlugInv, NEW r \in Requests, Act(r) PROVE FirstSlugInv'
  <2>0. PICK first \in [UserIds -> Slugs] : FirstSlugs(first)
    BY <1>1 DEF FirstSlugInv
  <2>1. TypeOK' /\ DOMAIN users \subseteq DOMAIN users' /\ DOMAIN users' \subseteq UserIds
    <3>1. TypeOK' /\ Frame(r)
      BY <1>1, ActStep
    <3>2. DOMAIN users' \subseteq UserIds
      BY <3>1 DEF TypeOK, UserIds
    <3> QED
      BY <3>1, <3>2 DEF Frame
  <2>2. CASE DOMAIN users' \subseteq DOMAIN users
    <3>1. FirstSlugs(first)'
      BY <1>1, <2>0, <2>2, FirstSlugAct
    <3> QED
      BY <3>1 DEF FirstSlugInv
  <2>3. ASSUME NEW u \in DOMAIN users', u \notin DOMAIN users PROVE FirstSlugInv'
    <3>1. /\ \A v \in DOMAIN users' : v \notin DOMAIN users => v = u
          /\ users'[u].name \in Names
      BY <1>1, <2>3, NamesWritten
    <3>2. SlugOf(u, users[u].name)' \in Slug
      <4>1. users'[u].email \in Emails /\ users'[u].prefix \in Prefixes
        <5>1. users' \in Seq(UserRow)
          BY <2>1 DEF TypeOK
        <5>2. users'[u] \in UserRow
          BY <2>3, <5>1
        <5> QED
          BY <5>2 DEF UserRow
      <4>2. PICK n \in Names, e \in Emails : n = users'[u].name /\ e = users'[u].email
        BY <3>1, <4>1
      <4>3. Base[n][e] \in Bases
        OBVIOUS
      <4> QED
        BY <4>1, <4>2, <4>3 DEF SlugOf, Slug
    <3>3. PICK s \in Slug : s = SlugOf(u, users[u].name)'
      BY <3>2
    <3>4. PICK next \in [UserIds -> Slugs] :
            next = [v \in UserIds |-> IF v = u THEN s ELSE first[v]]
      BY <2>0, <3>3 DEF Slugs
    <3>5. /\ \A v \in DOMAIN users : next[v] = first[v]
          /\ \A v \in DOMAIN users' \ DOMAIN users : next[v] = SlugOf(v, users[v].name)'
      <4>1. \A v \in DOMAIN users : v \in UserIds /\ v # u
        BY <2>1, <2>3
      <4>2. next[u] = s
        BY <2>1, <2>3, <3>4
      <4>3. \A v \in DOMAIN users' \ DOMAIN users : next[v] = SlugOf(v, users[v].name)'
        BY <3>1, <3>3, <4>2
      <4>4. \A v \in DOMAIN users : next[v] = first[v]
        BY <3>4, <4>1
      <4> QED
        BY <4>3, <4>4
    <3>6. FirstSlugs(next)'
      BY <1>1, <2>0, <3>4, <3>5, FirstSlugAct
    <3> QED
      BY <3>4, <3>6 DEF FirstSlugInv
  <2> QED
    BY <2>2, <2>3
<1>2. ASSUME FirstSlugInv, UNCHANGED vars PROVE FirstSlugInv'
  BY <1>2 DEF FirstSlugInv, FirstSlugs, Unowned, SlugOf, MembershipsOf,
              vars, dbVars, observed, locals
<1> QED
  BY <1>1, <1>2 DEF Next, Act

(* A user owns one personal organization at most, however many sign-ins    *)
(* provision it, whatever names their tokens have, whatever is renamed     *)
(* afterwards and wherever they end, unless a re-link changed the slug     *)
(* between two of them: the slug is the only lock (provisionPersonalOrg).  *)
THEOREM OneOrgUnlessRenamed == Spec => []OwnsTwoOnlyIfRenamed
<1>1. Init => FirstSlugInv
  <2> SUFFICES ASSUME Init PROVE FirstSlugInv
    OBVIOUS
  <2>1. [u \in UserIds |-> NoOrg.slug] \in [UserIds -> Slugs]
    BY DEF Slugs
  <2>2. PICK first \in [UserIds -> Slugs] : TRUE
    BY <2>1
  <2>3. FirstSlugs(first)
    BY DEF Init, FirstSlugs
  <2> QED
    BY <2>3 DEF FirstSlugInv
<1>2. TypeOK /\ FirstSlugInv => OwnsTwoOnlyIfRenamed
  <2> SUFFICES ASSUME TypeOK, FirstSlugInv, NEW u \in UserIds \ renamed
               PROVE  Cardinality({m \in MembershipsOf(u) : m.role = "owner"}) <= 1
    BY DEF OwnsTwoOnlyIfRenamed
  <2>0. PICK first \in [UserIds -> Slugs] : FirstSlugs(first)
    BY DEF FirstSlugInv
  <2> DEFINE owned == {m \in MembershipsOf(u) : m.role = "owner"}
             home == [slug |-> first[u], user |-> u]
             only == [org |-> home, user |-> u, role |-> "owner"]
  <2>1. \A m \in owned : m = only
    <3>1. \A m \in owned : m \in Membership /\ m.user = u /\ m.role = "owner" /\ m.org = home
      BY <2>0 DEF FirstSlugs, MembershipsOf, TypeOK
    <3> HIDE DEF home
    <3>2. ASSUME NEW m \in Membership, m.user = u, m.role = "owner", m.org = home
          PROVE  m = only
      <4>1. m = [org |-> m.org, user |-> m.user, role |-> m.role]
        BY <3>2 DEF Membership
      <4> QED
        BY <3>2, <4>1
    <3> SUFFICES ASSUME NEW m \in owned PROVE m = only
      OBVIOUS
    <3>3. m \in Membership /\ m.user = u /\ m.role = "owner" /\ m.org = home
      BY <3>1
    <3> HIDE DEF owned, only
    <3> QED
      BY <3>2, <3>3
  <2>2. IsFiniteSet({only}) /\ Cardinality({only}) = 1 /\ owned \in SUBSET {only}
    BY <2>1, FS_Singleton
  <2>3. IsFiniteSet(owned) /\ Cardinality(owned) <= Cardinality({only})
    BY <2>2, FS_Subset
  <2>4. Cardinality(owned) <= 1
    <3> HIDE DEF owned, only
    <3> QED
      BY <2>2, <2>3
  <2> QED
    BY <2>4
<1> QED
  BY <1>1, <1>2, BaseInvariant, FirstSlugStep, PTL DEF Spec
=============================================================================
