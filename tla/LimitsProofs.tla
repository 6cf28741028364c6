----------------------------- MODULE LimitsProofs -----------------------------
(***************************************************************************)
(* Proofs about the two limits of the product: Quotas, for any number of   *)
(* concurrent requests and any limits, and the public Preview, for any     *)
(* clients, repositories, windows and cache size.                          *)
(***************************************************************************)
EXTENDS Quotas, Preview, FiniteSetTheorems, WellFoundedInduction, TLAPS

USE QuotasAssumption

(* A fan-out past its gate still has a repository to import; the scans a   *)
(* gate counts include those it let through.                               *)
LeftInv == \A r \in Requests : pc[r] \in {"fanProject", "fanScan"} => left[r] > 0

IInv ==
    /\ TypeOK
    /\ LeftInv
    /\ started <= scans
    /\ ProjectOvershoot
    /\ ScanOvershoot

(* A set of requests is finite and no larger than Requests, and dropping   *)
(* members makes it no larger.                                             *)
LEMMA RequestSets ==
  /\ Cardinality(Requests) \in Nat \ {0}
  /\ \A A \in SUBSET Requests :
       /\ IsFiniteSet(A) /\ Cardinality(A) \in Nat
       /\ Cardinality(A) <= Cardinality(Requests)
       /\ \A B \in SUBSET A : Cardinality(B) \in Nat /\ Cardinality(B) <= Cardinality(A)
       /\ \A r \in A : Cardinality(A \ {r}) = Cardinality(A) - 1
<1>1. Cardinality(Requests) \in Nat \ {0}
  BY FS_CardinalityType, FS_EmptySet
<1>2. ASSUME NEW A \in SUBSET Requests
      PROVE  /\ IsFiniteSet(A) /\ Cardinality(A) \in Nat
             /\ Cardinality(A) <= Cardinality(Requests)
  BY FS_Subset, FS_CardinalityType
<1>3. ASSUME NEW A \in SUBSET Requests, NEW B \in SUBSET A
      PROVE  Cardinality(B) \in Nat /\ Cardinality(B) <= Cardinality(A)
  BY <1>2, FS_Subset, FS_CardinalityType
<1>4. ASSUME NEW A \in SUBSET Requests, NEW r \in A
      PROVE  Cardinality(A \ {r}) = Cardinality(A) - 1
  BY <1>2, FS_RemoveElement
<1> QED
  BY <1>1, <1>2, <1>3, <1>4

LEMMA InitIInv == Init => IInv
<1> SUFFICES ASSUME Init PROVE IInv
  OBVIOUS
<1>0. connected \in BOOLEAN
  BY DEF Init
<1>1. TypeOK /\ LeftInv /\ started <= scans
  BY <1>0 DEF Init, TypeOK, PC, LeftInv
<1>2. AdmittedProjects = {} /\ AdmittedScans = {}
  BY DEF Init, AdmittedProjects, AdmittedScans
<1>3. Cardinality({}) = 0 /\ Cardinality(Requests) \in Nat \ {0}
  BY FS_EmptySet, RequestSets
<1>4. ProjectOvershoot /\ ScanOvershoot
  BY <1>2, <1>3 DEF Init, ProjectOvershoot, ScanOvershoot
<1> QED
  BY <1>1, <1>4 DEF IInv

LEMMA TypeStep == TypeOK /\ LeftInv /\ [Next]_vars => TypeOK' /\ LeftInv'
<1> SUFFICES ASSUME TypeOK, LeftInv, [Next]_vars PROVE TypeOK' /\ LeftInv'
  OBVIOUS
<1> USE DEF TypeOK, LeftInv, PC, Goto, counters, projectVars
<1>0. connected' \in BOOLEAN
  BY DEF Next, Projects, Scans, Fixes, Background, CheckProject, InsertProject, FanOut, FanCheck,
         FanProject, FanScan, SignInLook, SignInProject, SignInConnect, CheckScan, InsertScan,
         CheckFix, PushFix, Generate, Throw, ConnectionsChange, MonitorScan, NewDay, NewMonth,
         RecordUsage, LoseUsage, vars
<1>1. ASSUME NEW r \in Requests, Projects(r) PROVE TypeOK' /\ LeftInv'
  <2>1. CASE CheckProject(r) \/ InsertProject(r) \/ FanProject(r) \/ FanCheck(r)
    BY <2>1 DEF CheckProject, InsertProject, FanProject, FanCheck
  <2>2. ASSUME NEW n \in 1 .. MaxRepos, FanOut(r, n) PROVE TypeOK' /\ LeftInv'
    BY <2>2 DEF FanOut
  <2>4. CASE SignInLook(r) \/ SignInProject(r) \/ SignInConnect(r)
    BY <1>0, <2>4 DEF SignInLook, SignInProject, SignInConnect
  <2>3. CASE FanScan(r)
    <3>1. left[r] \in 1 .. MaxRepos
      BY <2>3 DEF FanScan
    <3> QED
      BY <2>3, <3>1 DEF FanScan
  <2> QED
    BY <1>1, <2>1, <2>2, <2>3, <2>4 DEF Projects
<1>2. ASSUME NEW r \in Requests, Scans(r) \/ Fixes(r) \/ Throw(r)
      PROVE  TypeOK' /\ LeftInv'
  BY <1>2 DEF Scans, Fixes, CheckScan, InsertScan, CheckFix, PushFix, Generate, Throw
<1>3. CASE Background
  BY <1>0, <1>3 DEF Background, ConnectionsChange, MonitorScan, NewDay, NewMonth, RecordUsage,
                    LoseUsage
<1>4. CASE UNCHANGED vars
  BY <1>4 DEF vars
<1> QED
  BY <1>1, <1>2, <1>3, <1>4 DEF Next

-----------------------------------------------------------------------------
(* What a step does to the projects that gates let in, and the requests    *)
(* admitted to make one: it lets none in; it lets one in below the limit;  *)
(* or one of them inserts.                                                 *)
Gated == projects - signedIn

LEMMA ProjectStep ==
  ASSUME TypeOK, [Next]_vars
  PROVE  \/ Gated' = Gated /\ AdmittedProjects' \subseteq AdmittedProjects
         \/ Gated' = Gated /\ projects < ProjectLimit
         \/ /\ Gated' = Gated + 1
            /\ \E r \in AdmittedProjects : AdmittedProjects' = AdmittedProjects \ {r}
<1> DEFINE Goal ==
      \/ Gated' = Gated /\ AdmittedProjects' \subseteq AdmittedProjects
      \/ Gated' = Gated /\ projects < ProjectLimit
      \/ /\ Gated' = Gated + 1
         /\ \E r \in AdmittedProjects : AdmittedProjects' = AdmittedProjects \ {r}
<1> USE DEF TypeOK, Goto, counters, projectVars, AdmittedProjects, Gated
<1>1. ASSUME NEW r \in Requests, Projects(r) PROVE Goal
  <2>1. CASE CheckProject(r) \/ FanCheck(r)
    BY <2>1 DEF CheckProject, FanCheck, CanCreateProject
  <2>2. CASE InsertProject(r) \/ FanProject(r)
    BY <2>2 DEF InsertProject, FanProject
  <2>3. CASE FanScan(r) \/ \E n \in 1 .. MaxRepos : FanOut(r, n)
    BY <2>3 DEF FanScan, FanOut
  <2>4. CASE SignInLook(r) \/ SignInProject(r) \/ SignInConnect(r)
    BY <2>4 DEF SignInLook, SignInProject, SignInConnect
  <2> QED
    BY <1>1, <2>1, <2>2, <2>3, <2>4 DEF Projects
<1>2. ASSUME NEW r \in Requests, Scans(r) \/ Fixes(r) \/ Throw(r) PROVE Goal
  BY <1>2 DEF Scans, Fixes, CheckScan, InsertScan, CheckFix, PushFix, Generate, Throw
<1>3. CASE Background
  BY <1>3 DEF Background, ConnectionsChange, MonitorScan, NewDay, NewMonth, RecordUsage, LoseUsage
<1>4. CASE UNCHANGED vars
  BY <1>4 DEF vars
<1> QED
  BY <1>1, <1>2, <1>3, <1>4 DEF Next

(* The same for the scans of POST /scans, with the midnight that forgets   *)
(* them.                                                                   *)
LEMMA ScanStep ==
  ASSUME TypeOK, started <= scans, [Next]_vars
  PROVE  /\ started' <= scans'
         /\ \/ started' = started /\ AdmittedScans' \subseteq AdmittedScans
            \/ started' = 0
            \/ started' = started /\ started < ScanLimit
            \/ /\ started' = started + 1
               /\ \E r \in AdmittedScans : AdmittedScans' = AdmittedScans \ {r}
<1> DEFINE Goal ==
      /\ started' <= scans'
      /\ \/ started' = started /\ AdmittedScans' \subseteq AdmittedScans
         \/ started' = 0
         \/ started' = started /\ started < ScanLimit
         \/ /\ started' = started + 1
            /\ \E r \in AdmittedScans : AdmittedScans' = AdmittedScans \ {r}
<1> USE DEF TypeOK, Goto, counters, projectVars, AdmittedScans
<1>1. ASSUME NEW r \in Requests, Projects(r) PROVE Goal
  BY <1>1 DEF Projects, CheckProject, InsertProject, FanOut, FanCheck, FanProject,
              FanScan, SignInLook, SignInProject, SignInConnect
<1>2. ASSUME NEW r \in Requests, Scans(r) PROVE Goal
  BY <1>2 DEF Scans, CheckScan, InsertScan, CanScan
<1>3. ASSUME NEW r \in Requests, Fixes(r) \/ Throw(r) PROVE Goal
  BY <1>3 DEF Fixes, CheckFix, PushFix, Generate, Throw
<1>4. CASE Background
  BY <1>4 DEF Background, ConnectionsChange, MonitorScan, NewDay, NewMonth, RecordUsage, LoseUsage
<1>5. CASE UNCHANGED vars
  BY <1>5 DEF vars
<1> QED
  BY <1>1, <1>2, <1>3, <1>4, <1>5 DEF Next

LEMMA StepIInv == IInv /\ [Next]_vars => IInv'
<1> SUFFICES ASSUME IInv, [Next]_vars PROVE IInv'
  OBVIOUS
<1> DEFINE N == Cardinality(Requests)
<1>1. TypeOK' /\ LeftInv'
  BY TypeStep DEF IInv
<1>2. /\ TypeOK /\ started <= scans
      /\ projects \in Nat /\ projects' \in Nat /\ started \in Nat /\ started' \in Nat
  BY <1>1 DEF IInv, TypeOK
<1>3. /\ AdmittedProjects \in SUBSET Requests /\ AdmittedProjects' \in SUBSET Requests
      /\ AdmittedScans \in SUBSET Requests /\ AdmittedScans' \in SUBSET Requests
  BY DEF AdmittedProjects, AdmittedScans
<1> DEFINE P == Cardinality(AdmittedProjects)
           S == Cardinality(AdmittedScans)
<1>4. /\ N \in Nat \ {0}
      /\ P \in Nat /\ P' \in Nat /\ P' <= N
      /\ S \in Nat /\ S' \in Nat /\ S' <= N
  BY <1>3, RequestSets
<1>5. ProjectOvershoot'
  <2>0. /\ signedIn \in Nat /\ signedIn' \in Nat
        /\ Gated = projects - signedIn /\ Gated' = projects' - signedIn'
        /\ Gated \in Int /\ Gated' \in Int
    BY <1>1, <1>2 DEF IInv, TypeOK, Gated
  <2>1. Gated + P < ProjectLimit + N
    BY <1>2, <1>4, <2>0 DEF IInv, ProjectOvershoot
  <2>2. CASE Gated' = Gated /\ AdmittedProjects' \subseteq AdmittedProjects
    <3>1. P' <= P
      BY <2>2, <1>3, RequestSets
    <3>2. Gated' + P' < ProjectLimit + N
      <4>1. Gated' = Gated
        BY <2>2
      <4> QED
        BY <2>0, <2>1, <3>1, <4>1, <1>4
    <3>3. projects' + P' < ProjectLimit + signedIn' + N
      BY <1>2, <1>4, <2>0, <3>2
    <3> QED
      BY <3>3 DEF ProjectOvershoot
  <2>3. CASE Gated' = Gated /\ projects < ProjectLimit
    <3>1. Gated' + P' < ProjectLimit + N
      <4>1. Gated' = Gated /\ projects < ProjectLimit
        BY <2>3
      <4>2. Gated <= projects /\ projects \in Nat
        BY <2>0, <1>2
      <4>3. Gated' < ProjectLimit
        BY <2>0, <4>1, <4>2
      <4> QED
        BY <2>0, <4>3, <1>4
    <3>2. projects' + P' < ProjectLimit + signedIn' + N
      BY <1>2, <1>4, <2>0, <3>1
    <3> QED
      BY <3>2 DEF ProjectOvershoot
  <2>4. CASE /\ Gated' = Gated + 1
             /\ \E r \in AdmittedProjects : AdmittedProjects' = AdmittedProjects \ {r}
    <3>1. P' = P - 1
      BY <2>4, <1>3, RequestSets
    <3>2. Gated' + P' < ProjectLimit + N
      <4>1. Gated' = Gated + 1
        BY <2>4
      <4> QED
        BY <2>0, <2>1, <3>1, <4>1, <1>4
    <3>3. projects' + P' < ProjectLimit + signedIn' + N
      BY <1>2, <1>4, <2>0, <3>2
    <3> QED
      BY <3>3 DEF ProjectOvershoot
  <2> QED
    BY <1>2, <2>2, <2>3, <2>4, ProjectStep
<1>6. (started <= scans)' /\ ScanOvershoot'
  <2>1. started + S < ScanLimit + N
    BY DEF IInv, ScanOvershoot
  <2>2. CASE started' = started /\ AdmittedScans' \subseteq AdmittedScans
    <3>1. S' <= S
      BY <2>2, <1>3, RequestSets
    <3>2. started' + S' < ScanLimit + N
      BY <2>1, <2>2, <3>1, <1>2, <1>4
    <3> QED
      BY <3>2, <1>2, ScanStep DEF ScanOvershoot
  <2>3. CASE started' = 0 \/ (started' = started /\ started < ScanLimit)
    <3>1. started' + S' < ScanLimit + N
      BY <2>3, <1>2, <1>4
    <3> QED
      BY <3>1, <1>2, ScanStep DEF ScanOvershoot
  <2>4. CASE /\ started' = started + 1
             /\ \E r \in AdmittedScans : AdmittedScans' = AdmittedScans \ {r}
    <3>1. S' = S - 1
      BY <2>4, <1>3, RequestSets
    <3>2. started' + S' < ScanLimit + N
      BY <2>1, <2>4, <3>1, <1>2, <1>4
    <3> QED
      BY <3>2, <1>2, ScanStep DEF ScanOvershoot
  <2> QED
    BY <1>2, <2>2, <2>3, <2>4, ScanStep
<1> QED
  BY <1>1, <1>5, <1>6 DEF IInv

THEOREM Inductive == Spec => []IInv
<1> QED
  BY InitIInv, StepIInv, PTL DEF Spec

-----------------------------------------------------------------------------
(* Every request is at one of its awaits, and a fan-out never counts more  *)
(* repositories than it was given (scans.module.ts fanOut).                *)
THEOREM TypeCorrect == Spec => []TypeOK
<1>1. IInv => TypeOK
  BY DEF IInv
<1> QED
  BY <1>1, Inductive, PTL

(* However POST /projects, fan-outs and sign-ins interleave, the routes    *)
(* with a gate go past maxProjects by at most the requests in progress     *)
(* less one, whatever sign-ins insert on top (billing.service.ts           *)
(* assertCanCreateProject, oauth.service.ts connectGithubFromToken).       *)
THEOREM ProjectsOvershootBounded == Spec => []ProjectOvershoot
<1>1. IInv => ProjectOvershoot
  BY DEF IInv
<1> QED
  BY <1>1, Inductive, PTL

(* The scans that POST /scans starts in a UTC day miss maxScansPerDay by   *)
(* at most the requests in progress less one, whatever other routes and    *)
(* the sweep insert (billing.service.ts assertCanScan).                    *)
THEOREM ScansOvershootBounded == Spec => []ScanOvershoot
<1>1. IInv => ScanOvershoot
  BY DEF IInv
<1> QED
  BY <1>1, Inductive, PTL

-----------------------------------------------------------------------------
HIDE QuotasAssumption
USE PreviewAssumption

(* The quota of a client is enforced over the hits it left, so what it     *)
(* started has to be among them; a refused request leaves none.            *)
StartedIsHit ==
    \A client \in Clients : Recent(client, begun, Window) \subseteq Recent(client, hits, Window)

HitsWithinQuota ==
    /\ IsFiniteSet(hits)
    /\ \A client \in Clients : Cardinality(Recent(client, hits, Window)) <= MaxPerWindow

(* The clock has passed every time on record, and a result was read at     *)
(* most one scan before it was stored.                                     *)
TimesInOrder ==
    /\ \A h \in hits \cup begun : h.at <= now
    /\ \A s \in running : s.read <= now /\ now - s.read <= MaxScanTime
    /\ \A r \in Cached : /\ cache[r].at <= now /\ cache[r].read <= cache[r].at
                         /\ cache[r].at - cache[r].read <= MaxScanTime

CacheFinite == IsFiniteSet(Cached) /\ CacheBounded

PreviewInv ==
    /\ PreviewTypeOK
    /\ StartedIsHit /\ HitsWithinQuota
    /\ TimesInOrder /\ CacheFinite /\ AnswersAreRecent

-----------------------------------------------------------------------------
(* A cache that is not empty has an oldest entry: times are natural        *)
(* numbers, which are well founded.                                        *)
LEMMA OldestExists ==
    ASSUME NEW S, NEW f, S # {}, \A x \in S : f[x].at \in Nat
    PROVE  \E x \in S : \A y \in S : f[x].at <= f[y].at
<1> DEFINE R == {ss \in Nat \X Nat : ss[1] < ss[2]}
           T == {f[x].at : x \in S}
<1>1. IsWellFoundedOn(R, Nat)
  <2>1. R = OpToRel(<, Nat)
    BY DEF OpToRel
  <2> QED
    BY <2>1, NatLessThanWellFounded
<1>2. T \subseteq Nat /\ T # {}
  OBVIOUS
<1>3. PICK m \in T : \A k \in T : ~(<<k, m>> \in R)
  <2> HIDE DEF R, T
  <2> QED
    BY <1>1, <1>2, WFMin
<1>4. ASSUME NEW k \in T PROVE m <= k
  <2>1. ~(<<k, m>> \in R) /\ k \in Nat /\ m \in Nat
    BY <1>2, <1>3
  <2>2. <<k, m>> \in Nat \X Nat /\ <<k, m>>[1] = k /\ <<k, m>>[2] = m
    BY <2>1
  <2>3. ~(k < m)
    BY <2>1, <2>2
  <2> QED
    BY <2>1, <2>3
<1> QED
  BY <1>4

(* One more element adds one at most.                                      *)
LEMMA OneMore ==
    ASSUME NEW S, NEW x, NEW T, IsFiniteSet(S), T \subseteq S \cup {x}
    PROVE  /\ IsFiniteSet(T) /\ Cardinality(T) \in Nat /\ Cardinality(S) \in Nat
           /\ Cardinality(T) <= Cardinality(S) + 1
<1>1. /\ IsFiniteSet(S \cup {x}) /\ Cardinality(S) \in Nat
      /\ Cardinality(S \cup {x}) \in Nat /\ Cardinality(S \cup {x}) <= Cardinality(S) + 1
  BY FS_AddElement, FS_CardinalityType
<1>2. IsFiniteSet(T) /\ Cardinality(T) \in Nat /\ Cardinality(T) <= Cardinality(S \cup {x})
  BY <1>1, FS_Subset, FS_CardinalityType
<1> QED
  BY <1>1, <1>2

LEMMA OldestIsCached == PreviewTypeOK /\ Cached # {} => Oldest \in Cached
<1> SUFFICES ASSUME PreviewTypeOK, Cached # {} PROVE Oldest \in Cached
  OBVIOUS
<1>1. \A r \in Cached : cache[r].at \in Nat
  BY DEF PreviewTypeOK, Cached, Entries, Times
<1>2. \E r \in Cached : \A q \in Cached : cache[r].at <= cache[q].at
  BY <1>1, OldestExists
<1> QED
  BY <1>2 DEF Oldest

-----------------------------------------------------------------------------

LEMMA InitPreviewInv == PreviewInit => PreviewInv
<1> SUFFICES ASSUME PreviewInit PROVE PreviewInv
  OBVIOUS
<1>1. PreviewTypeOK
  BY DEF PreviewInit, PreviewTypeOK, Times
<1>2. Cached = {} /\ hits = {} /\ begun = {} /\ running = {} /\ age = None
  BY DEF PreviewInit, Cached
<1>3. \A client \in Clients : Recent(client, {}, Window) = {}
  BY DEF Recent, Of
<1> QED
  BY <1>1, <1>2, <1>3, FS_EmptySet
  DEF PreviewInv, StartedIsHit, HitsWithinQuota, TimesInOrder, CacheFinite, CacheBounded, AnswersAreRecent

LEMMA PreviewTypeStep == PreviewTypeOK /\ TimesInOrder /\ [PreviewNext]_previewVars => PreviewTypeOK'
<1> SUFFICES ASSUME PreviewTypeOK, TimesInOrder, [PreviewNext]_previewVars PROVE PreviewTypeOK'
  OBVIOUS
<1> USE DEF PreviewTypeOK, Times
<1>1. ASSUME NEW client \in Clients, NEW repo \in Repos, Request(client, repo) PROVE PreviewTypeOK'
  <2> DEFINE hit == [n |-> requests', client |-> client, at |-> now]
  <2>1. requests' \in 1 .. MaxRequests /\ hit \in Hits
    BY <1>1 DEF Request, Hits
  <2>2. \A S, w : S \subseteq Hits => Pushed(client, S, w, hit) \subseteq Hits
    BY <2>1 DEF Pushed, Recent, Of
  <2>3. guard' \subseteq Hits /\ hits' \subseteq Hits /\ begun' \subseteq Hits
    BY <1>1, <2>1, <2>2 DEF Request
  <2>4. running' \subseteq Running
    BY <1>1, <2>1 DEF Request, Running
  <2>5. age' \in Times \cup {None}
    BY <1>1 DEF Request, Fresh, Entries, TimesInOrder, Cached
  <2> QED
    BY <1>1, <2>1, <2>3, <2>4, <2>5 DEF Request
<1>2. ASSUME NEW s \in running, Succeeds(s) PROVE PreviewTypeOK'
  <2>1. Evicted \in [Repos -> Entries \cup {None}]
    BY DEF Evicted
  <2>2. s \in Running
    OBVIOUS
  <2>3. cache' \in [Repos -> Entries \cup {None}]
    BY <1>2, <2>1, <2>2 DEF Succeeds, Entries, Running
  <2>4. age' \in Times
    BY <1>2, <2>2 DEF Succeeds, Running, TimesInOrder
  <2> QED
    BY <1>2, <2>3, <2>4 DEF Succeeds
<1>3. ASSUME NEW s \in running, Fails(s) PROVE PreviewTypeOK'
  BY <1>3 DEF Fails
<1>4. CASE Tick
  BY <1>4 DEF Tick
<1>5. CASE Restart
  BY <1>5 DEF Restart
<1>6. CASE UNCHANGED previewVars
  BY <1>6 DEF previewVars
<1> QED
  BY <1>1, <1>2, <1>3, <1>4, <1>5, <1>6 DEF PreviewNext

(* The clock never runs back, nor past a scan's deadline.                  *)
LEMMA TimesStep == PreviewTypeOK /\ TimesInOrder /\ AnswersAreRecent /\ [PreviewNext]_previewVars
                      => TimesInOrder' /\ AnswersAreRecent'
<1> SUFFICES ASSUME PreviewTypeOK, TimesInOrder, AnswersAreRecent, [PreviewNext]_previewVars
             PROVE  TimesInOrder' /\ AnswersAreRecent'
  OBVIOUS
<1> USE DEF PreviewTypeOK, Times
<1>0. /\ \A s \in running : s.read \in Nat
      /\ \A h \in hits \cup begun : h.at \in Nat
      /\ \A r \in Cached : cache[r].at \in Nat /\ cache[r].read \in Nat
      /\ age # None => age \in Nat
  BY DEF Running, Hits, Cached, Entries
<1>1. ASSUME NEW client \in Clients, NEW repo \in Repos, Request(client, repo)
      PROVE  TimesInOrder' /\ AnswersAreRecent'
  <2> DEFINE hit == [n |-> requests', client |-> client, at |-> now]
  <2>1. hits' \cup begun' \subseteq hits \cup begun \cup {hit}
    BY <1>1 DEF Request, Pushed, Recent, Of
  <2>2. \A s \in running' : s \in running \/ s.read = now
    BY <1>1 DEF Request
  <2>3. now' = now /\ cache' = cache /\ Cached' = Cached
    BY <1>1 DEF Request, Cached
  <2>4. TimesInOrder'
    BY <1>0, <2>1, <2>2, <2>3 DEF TimesInOrder
  <2>5. age' = age \/ (Fresh(repo) /\ age' = now - cache[repo].read)
    BY <1>1 DEF Request
  <2>6. ASSUME Fresh(repo) PROVE now - cache[repo].read < Ttl + MaxScanTime
    BY <1>0, <2>6 DEF Fresh, Cached, TimesInOrder
  <2> QED
    BY <2>4, <2>5, <2>6 DEF AnswersAreRecent
<1>2. ASSUME NEW s \in running, Succeeds(s) PROVE TimesInOrder' /\ AnswersAreRecent'
  <2>1. s.repo \in Repos
    BY DEF Running
  <2>2. \A r \in Repos : /\ cache'[r] = IF r = s.repo THEN [read |-> s.read, at |-> now]
                                        ELSE Evicted[r]
                         /\ Evicted[r] \in {cache[r], None}
    BY <1>2, <2>1 DEF Succeeds, Evicted
  <2>3. \A r \in Cached' : \/ r \in Cached /\ cache'[r] = cache[r]
                           \/ cache'[r] = [read |-> s.read, at |-> now]
    BY <2>2 DEF Cached
  <2>4. TimesInOrder'
    BY <1>0, <1>2, <2>3 DEF Succeeds, TimesInOrder
  <2>5. AnswersAreRecent'
    BY <1>0, <1>2 DEF Succeeds, TimesInOrder, AnswersAreRecent
  <2> QED
    BY <2>4, <2>5
<1>3. ASSUME NEW s \in running, Fails(s) PROVE TimesInOrder' /\ AnswersAreRecent'
  BY <1>0, <1>3 DEF Fails, TimesInOrder, AnswersAreRecent, Cached
<1>4. CASE Tick
  <2>1. Cached' = Cached /\ cache' = cache /\ running' = running /\ now' = now + 1
        /\ hits' = hits /\ begun' = begun /\ age' = age
    BY <1>4 DEF Tick, Cached
  <2>2. \A s \in running : now - s.read < MaxScanTime
    BY <1>4 DEF Tick
  <2> QED
    BY <1>0, <2>1, <2>2 DEF TimesInOrder, AnswersAreRecent
<1>5. CASE Restart
  BY <1>0, <1>5 DEF Restart, TimesInOrder, AnswersAreRecent, Cached
<1>6. CASE UNCHANGED previewVars
  BY <1>0, <1>6 DEF previewVars, TimesInOrder, AnswersAreRecent, Cached
<1> QED
  BY <1>1, <1>2, <1>3, <1>4, <1>5, <1>6 DEF PreviewNext

(* A hit is left before the scan starts, and only the passing of time      *)
(* takes it out of the window.                                             *)
LEMMA QuotaStep == PreviewTypeOK /\ StartedIsHit /\ HitsWithinQuota /\ [PreviewNext]_previewVars
                      => StartedIsHit' /\ HitsWithinQuota'
<1> SUFFICES ASSUME PreviewTypeOK, StartedIsHit, HitsWithinQuota, [PreviewNext]_previewVars
             PROVE  StartedIsHit' /\ HitsWithinQuota'
  OBVIOUS
<1>1. ASSUME NEW client \in Clients, NEW repo \in Repos, Request(client, repo)
      PROVE  StartedIsHit' /\ HitsWithinQuota'
  <2> DEFINE hit == [n |-> requests', client |-> client, at |-> now]
             counted == Recent(client, hits, Window)
  <2>0. now' = now
    BY <1>1 DEF Request
  <2>1. CASE UNCHANGED <<hits, begun>>
    BY <2>0, <2>1 DEF StartedIsHit, HitsWithinQuota, Recent, Of
  <2>2. CASE /\ WithinQuota(client)
             /\ hits' = Pushed(client, hits, Window, hit)
             /\ begun' = begun \cup {hit}
    <3>1. IsFiniteSet(counted) /\ IsFiniteSet(hits \ Of(client, hits))
      BY FS_Subset DEF HitsWithinQuota, Recent, Of
    <3>2. IsFiniteSet(hits')
      <4>1. IsFiniteSet((hits \ Of(client, hits)) \cup counted)
        BY <3>1, FS_Union
      <4> QED
        BY <2>2, <4>1, FS_AddElement DEF Pushed
    <3>3. Recent(client, hits, Window)' \subseteq Recent(client, hits, Window) \cup {hit}
      BY <2>0, <2>2 DEF Pushed, Recent, Of
    <3>4. Cardinality(Recent(client, hits, Window)') <= MaxPerWindow
      <4> HIDE DEF hit
      <4>1. /\ Cardinality(Recent(client, hits, Window)') \in Nat
            /\ Cardinality(counted) \in Nat
            /\ Cardinality(Recent(client, hits, Window)') <= Cardinality(counted) + 1
        BY <3>1, <3>3, OneMore
      <4> QED
        BY <2>2, <4>1 DEF WithinQuota
    <3>5. \A other \in Clients \ {client} :
             Recent(other, hits, Window)' = Recent(other, hits, Window)
      BY <2>0, <2>2 DEF Pushed, Recent, Of
    <3>6. HitsWithinQuota'
      BY <3>2, <3>4, <3>5 DEF HitsWithinQuota
    <3>7. StartedIsHit'
      BY <2>0, <2>2 DEF StartedIsHit, Pushed, Recent, Of
    <3> QED
      BY <3>6, <3>7
  <2> QED
    BY <1>1, <2>1, <2>2 DEF Request
<1>2. ASSUME UNCHANGED <<now, hits, begun>> PROVE StartedIsHit' /\ HitsWithinQuota'
  BY <1>2 DEF StartedIsHit, HitsWithinQuota, Recent, Of
<1>3. CASE Tick
  <2>1. now' = now + 1 /\ hits' = hits /\ begun' = begun /\ now \in Nat
    BY <1>3 DEF Tick, PreviewTypeOK, Times
  <2>2. \A h \in hits \cup begun : h.at \in Nat
    BY DEF PreviewTypeOK, Hits, Times
  <2>3. ASSUME NEW client \in Clients
        PROVE  /\ Recent(client, hits, Window)' \subseteq Recent(client, hits, Window)
               /\ Recent(client, begun, Window)' \subseteq Recent(client, hits, Window)'
    <3>1. \A h \in hits \cup begun : now' - h.at < Window => now - h.at < Window
      BY <2>1, <2>2
    <3>2. Recent(client, hits, Window)' =
            {h \in hits : h.client = client /\ now' - h.at < Window}
      BY <2>1 DEF Recent, Of
    <3>3. Recent(client, begun, Window)' =
            {h \in begun : h.client = client /\ now' - h.at < Window}
      BY <2>1 DEF Recent, Of
    <3>4. {h \in begun : h.client = client /\ now - h.at < Window} \subseteq hits
      BY DEF StartedIsHit, Recent, Of
    <3>5. Recent(client, hits, Window) = {h \in hits : h.client = client /\ now - h.at < Window}
      BY DEF Recent, Of
    <3> QED
      BY <3>1, <3>2, <3>3, <3>4, <3>5
  <2>4. ASSUME NEW client \in Clients
        PROVE  Cardinality(Recent(client, hits, Window)') <= MaxPerWindow
    <3>1. IsFiniteSet(Recent(client, hits, Window))
      BY FS_Subset DEF HitsWithinQuota, Recent, Of
    <3>2. /\ Cardinality(Recent(client, hits, Window)') <= Cardinality(Recent(client, hits, Window))
          /\ Cardinality(Recent(client, hits, Window)') \in Nat
          /\ Cardinality(Recent(client, hits, Window)) \in Nat
      BY <2>3, <3>1, FS_Subset, FS_CardinalityType
    <3> QED
      BY <3>2 DEF HitsWithinQuota
  <2> QED
    BY <2>1, <2>3, <2>4 DEF StartedIsHit, HitsWithinQuota
<1>4. CASE Restart
  <2>1. hits' = {} /\ begun' = {}
    BY <1>4 DEF Restart
  <2>2. \A client : Recent(client, hits, Window)' = {} /\ Recent(client, begun, Window)' = {}
    BY <2>1 DEF Recent, Of
  <2> QED
    BY <2>1, <2>2, FS_EmptySet DEF StartedIsHit, HitsWithinQuota
<1> QED
  BY <1>1, <1>2, <1>3, <1>4 DEF PreviewNext, previewVars, Succeeds, Fails

(* Storing a result in a full cache drops an entry first.                  *)
LEMMA CacheStep == PreviewTypeOK /\ CacheFinite /\ [PreviewNext]_previewVars => CacheFinite'
<1> SUFFICES ASSUME PreviewTypeOK, CacheFinite, [PreviewNext]_previewVars PROVE CacheFinite'
  OBVIOUS
<1>1. ASSUME UNCHANGED cache PROVE CacheFinite'
  BY <1>1 DEF CacheFinite, CacheBounded, Cached
<1>2. ASSUME NEW s \in running, Succeeds(s) PROVE CacheFinite'
  <2> DEFINE kept == {r \in Repos : Evicted[r] # None}
  <2>1. cache \in [Repos -> Entries \cup {None}] /\ s.repo \in Repos
    BY DEF PreviewTypeOK, Running
  <2>2. IsFiniteSet(Cached) /\ Cardinality(Cached) <= CacheMax /\ Cardinality(Cached) \in Nat
    BY FS_CardinalityType DEF CacheFinite, CacheBounded
  <2>3. IsFiniteSet(kept) /\ Cardinality(kept) < CacheMax
    <3>1. CASE Cardinality(Cached) >= CacheMax
      <4>1. Cached # {}
        BY <2>2, <3>1, FS_EmptySet
      <4>2. Oldest \in Cached
        BY <4>1, OldestIsCached
      <4>3. kept = Cached \ {Oldest}
        BY <2>1, <3>1, <4>2 DEF Evicted, Cached
      <4>4. /\ IsFiniteSet(Cached \ {Oldest})
            /\ Cardinality(Cached \ {Oldest}) = Cardinality(Cached) - 1
        BY <2>2, <4>2, FS_RemoveElement
      <4> HIDE DEF kept
      <4> QED
        BY <2>2, <4>3, <4>4
    <3>2. CASE ~(Cardinality(Cached) >= CacheMax)
      <4>1. kept = Cached
        BY <3>2 DEF Evicted, Cached
      <4> QED
        BY <2>2, <3>2, <4>1
    <3> QED
      BY <3>1, <3>2
  <2>4. Cached' \subseteq kept \cup {s.repo}
    BY <1>2, <2>1 DEF Succeeds, Evicted, Cached
  <2>5. /\ IsFiniteSet(Cached') /\ Cardinality(Cached') <= Cardinality(kept) + 1
        /\ Cardinality(Cached') \in Nat /\ Cardinality(kept) \in Nat
    BY <2>3, <2>4, OneMore
  <2> QED
    BY <2>3, <2>5 DEF CacheFinite, CacheBounded
<1>3. CASE Restart
  <2>1. Cached' = {}
    BY <1>3 DEF Restart, Cached
  <2> QED
    BY <2>1, FS_EmptySet DEF CacheFinite, CacheBounded
<1> QED
  BY <1>1, <1>2, <1>3 DEF PreviewNext, previewVars, Request, Fails, Tick

-----------------------------------------------------------------------------

LEMMA PreviewInvariant == PreviewSpec => []PreviewInv
<1>1. PreviewInit => PreviewInv
  BY InitPreviewInv
<1>2. PreviewInv /\ [PreviewNext]_previewVars => PreviewInv'
  BY PreviewTypeStep, TimesStep, QuotaStep, CacheStep DEF PreviewInv
<1> QED
  BY <1>1, <1>2, PTL DEF PreviewSpec

(* Every reachable state of the preview service is well typed.             *)
THEOREM PreviewTypeCorrect == PreviewSpec => []PreviewTypeOK
<1>1. PreviewInv => PreviewTypeOK
  BY DEF PreviewInv
<1> QED
  BY <1>1, PreviewInvariant, PTL

(* However many requests of a client are in progress at once, it starts    *)
(* its quota of scans in a window and no more (assertQuota, scan).         *)
THEOREM QuotaIsKept == PreviewSpec => []QuotaHolds
<1>1. PreviewInv => QuotaHolds
  <2> SUFFICES ASSUME PreviewInv, NEW client \in Clients
               PROVE  Cardinality(Recent(client, begun, Window)) <= MaxPerWindow
    BY DEF QuotaHolds
  <2>1. /\ Recent(client, begun, Window) \subseteq Recent(client, hits, Window)
        /\ IsFiniteSet(Recent(client, hits, Window))
        /\ Cardinality(Recent(client, hits, Window)) <= MaxPerWindow
    BY FS_Subset DEF PreviewInv, StartedIsHit, HitsWithinQuota, Recent, Of
  <2>2. /\ Cardinality(Recent(client, begun, Window)) <= Cardinality(Recent(client, hits, Window))
        /\ Cardinality(Recent(client, begun, Window)) \in Nat
        /\ Cardinality(Recent(client, hits, Window)) \in Nat
    BY <2>1, FS_Subset, FS_CardinalityType
  <2> QED
    BY <2>1, <2>2
<1> QED
  BY <1>1, PreviewInvariant, PTL

(* The cache of the preview stays within its size, and no visitor is shown *)
(* a result older than its expiry and one scan (remember, scan).           *)
THEOREM CacheStaysSound == PreviewSpec => []CacheIsSound
<1>1. PreviewInv => CacheIsSound
  BY DEF PreviewInv, CacheIsSound, CacheFinite
<1> QED
  BY <1>1, PreviewInvariant, PTL
=============================================================================
