----------------------------- MODULE Connections -----------------------------
(***************************************************************************)
(* The GitHub connections of one organization's projects: authorization    *)
(* and its callback, the GitHub App installation, the automatic connection *)
(* at sign-in, the choice of repositories, the fan-out of an onboarding    *)
(* selection into projects, and disconnecting.  A row of the connection    *)
(* table is unique for a project and provider.  GitHub is external.  The   *)
(* race of the project cap is in Quotas.                                   *)
(***************************************************************************)
EXTENDS Naturals, FiniteSets

CONSTANTS
    Projects,    \* ids a project may get
    Requests,    \* requests in progress at a time
    Repos,       \* repositories of the GitHub account
    Answers,     \* the lists GitHub may answer with; empty if it does not
    MaxProjects, \* maxProjects of the plan
    MaxRepos,    \* maxRepos of the plan
    None

ASSUME ConnectionsAssumption ==
    /\ None \notin Projects /\ MaxProjects \in Nat /\ MaxRepos \in Nat
    /\ Answers \subseteq SUBSET Repos

VARIABLES
    projects,    \* the organization's projects
    conn,        \* project -> its GitHub connection, or None
    envelopes,   \* states handed out by authorize and not yet expired
    req          \* what a request in progress holds

vars == <<projects, conn, envelopes, req>>

(* The rows.  token: a user token is stored; the App's rows have none.     *)
(* selected is empty until a choice is saved: every repository is meant.   *)
Metadata == [repos : SUBSET Repos, selected : SUBSET Repos]
Rows == [token : BOOLEAN, meta : Metadata]
NoMeta == [repos |-> {}, selected |-> {}]

Steps == {"idle", "look", "refresh", "create", "connect", "patch", "fan", "fanConnect"}

(* A request: the project it works on, the metadata it read or writes, the *)
(* projects or repositories it has left.  Observed: late, the projects     *)
(* whose connection changed after this request read them.                  *)
Handlers == [at : Steps, project : Projects \cup {None}, meta : Metadata,
             todo : SUBSET Projects, left : SUBSET Repos, late : SUBSET Projects]
Idle == [at |-> "idle", project |-> None, meta |-> NoMeta,
         todo |-> {}, left |-> {}, late |-> {}]

(* The types of the rows and of the requests; only projects have rows.     *)
TypeOK ==
    /\ projects \subseteq Projects
    /\ conn \in [Projects -> Rows \cup {None}]
    /\ envelopes \subseteq [project : Projects, app : BOOLEAN]
    /\ req \in [Requests -> Handlers]

Init ==
    /\ projects = {} /\ envelopes = {}
    /\ conn = [p \in Projects |-> None]
    /\ req = [r \in Requests |-> Idle]

-----------------------------------------------------------------------------

Connected == {p \in Projects : conn[p] # None}

(* A write of p's row is late for the sign-ins that have read it.          *)
Late(p, r, handler) ==
    [q \in Requests |-> IF q = r THEN handler
                        ELSE IF req[q].at \notin {"look", "refresh"} THEN req[q]
                        ELSE [req[q] EXCEPT !.late = @ \cup {p}]]

SetRow(p, row, r, handler) ==
    /\ conn' = [conn EXCEPT ![p] = row]
    /\ req' = Late(p, r, handler)

Step(r, handler) ==
    /\ req' = [req EXCEPT ![r] = handler]
    /\ UNCHANGED conn

Room == Cardinality(projects) < MaxProjects

(* POST /projects: the wizard, or useAddRepository.                        *)
CreateProject(p) ==
    /\ p \notin projects /\ Room
    /\ projects' = projects \cup {p}
    /\ UNCHANGED <<conn, envelopes, req>>

-----------------------------------------------------------------------------
(* Authorization: the envelope names the project and expires; nothing      *)
(* marks it used.                                                          *)

Authorize(p) ==
    /\ p \in projects
    /\ \E app \in BOOLEAN : envelopes' = envelopes \cup {[project |-> p, app |-> app]}
    /\ UNCHANGED <<projects, conn, req>>

Expire(e) ==
    /\ envelopes' = envelopes \ {e}
    /\ UNCHANGED <<projects, conn, req>>

(* handleCallback and handleGithubAppInstall: the list of repositories is  *)
(* empty if GitHub did not answer; a second row for the project is refused.*)
Callback(e) ==
    /\ e \in envelopes /\ conn[e.project] = None
    /\ \E repos \in Answers :
          SetRow(e.project,
                 [token |-> ~e.app, meta |-> [NoMeta EXCEPT !.repos = repos]], None, Idle)
    /\ UNCHANGED <<projects, envelopes>>

(* DELETE connections/:id.                                                 *)
Disconnect(p) ==
    /\ conn[p] # None
    /\ SetRow(p, None, None, Idle)
    /\ UNCHANGED <<projects, envelopes>>

-----------------------------------------------------------------------------
(* Sign-in with GitHub: connectGithubFromToken.                            *)

(* The account's repositories are listed, then the projects.               *)
(* Mutant: only one project is looked at.                                  *)
LooksAtOne == IF projects = {} THEN {} ELSE {CHOOSE p \in projects : TRUE}
LooksAt == projects

SignIn(r) ==
    /\ req[r].at = "idle"
    /\ \E repos \in Answers :
          Step(r, [Idle EXCEPT !.at = "look", !.meta.repos = repos, !.todo = LooksAt])
    /\ UNCHANGED <<projects, envelopes>>

(* One project's connections; the first that is found is refreshed.        *)
(* Mutant: the metadata is replaced instead of being merged.               *)
ReplacedMeta(meta, repos) == [NoMeta EXCEPT !.repos = repos]
RefreshedMeta(meta, repos) == [meta EXCEPT !.repos = repos]

SignInLook(r, p) ==
    /\ req[r].at = "look" /\ p \in req[r].todo
    /\ Step(r, IF conn[p] = None
               THEN [req[r] EXCEPT !.todo = @ \ {p}, !.late = @ \ {p}]
               ELSE [req[r] EXCEPT !.at = "refresh", !.project = p, !.late = {},
                       !.meta = RefreshedMeta(conn[p].meta, req[r].meta.repos)])
    /\ UNCHANGED <<projects, envelopes>>

(* The token that is stored stays the old one.  A deleted row is an error. *)
SignInRefresh(r) ==
    /\ req[r].at = "refresh"
    /\ LET p == req[r].project
       IN  IF conn[p] = None THEN Step(r, Idle)
           ELSE SetRow(p, [conn[p] EXCEPT !.meta = req[r].meta], r, Idle)
    /\ UNCHANGED <<projects, envelopes>>

(* No connection was found: a new project, whatever the plan's cap.        *)
SignInCreate(r, p) ==
    /\ req[r].at = "look" /\ req[r].todo = {} /\ p \notin projects
    /\ projects' = projects \cup {p}
    /\ Step(r, [req[r] EXCEPT !.at = "connect", !.project = p, !.late = {}])
    /\ UNCHANGED envelopes

SignInConnect(r) ==
    /\ req[r].at = "connect"
    /\ LET p == req[r].project
       IN  IF conn[p] # None THEN Step(r, Idle)
           ELSE SetRow(p, [token |-> TRUE, meta |-> [NoMeta EXCEPT !.repos = req[r].meta.repos]],
                       r, Idle)
    /\ UNCHANGED <<projects, envelopes>>

-----------------------------------------------------------------------------
(* PATCH connections/:id with selectedRepos: read, merge, write.           *)

WithinPlan(selected) == Cardinality(selected) <= MaxRepos

PatchRead(r, p) ==
    /\ req[r].at = "idle" /\ conn[p] # None
    /\ \E chosen \in SUBSET Repos \ {{}} :
          /\ WithinPlan(chosen)
          /\ Step(r, [Idle EXCEPT !.at = "patch", !.project = p,
                         !.meta = [conn[p].meta EXCEPT !.selected = chosen]])
    /\ UNCHANGED <<projects, envelopes>>

PatchWrite(r) ==
    /\ req[r].at = "patch"
    /\ LET p == req[r].project
       IN  IF conn[p] = None THEN Step(r, Idle)
           ELSE SetRow(p, [conn[p] EXCEPT !.meta = req[r].meta], r, Idle)
    /\ UNCHANGED <<projects, envelopes>>

-----------------------------------------------------------------------------
(* POST scans/fan-out: a project, a connection with the same token and a   *)
(* scan for each repository, until the plan's cap.                         *)

FanOut(r, p) ==
    /\ req[r].at = "idle" /\ conn[p] # None /\ conn[p].token
    /\ \E chosen \in SUBSET Repos \ {{}} :
          Step(r, [Idle EXCEPT !.at = "fan", !.left = chosen,
                      !.meta = [repos |-> conn[p].meta.repos, selected |-> {}]])
    /\ UNCHANGED <<projects, envelopes>>

FanProject(r, p, repo) ==
    /\ req[r].at = "fan" /\ repo \in req[r].left
    /\ Room /\ p \notin projects
    /\ projects' = projects \cup {p}
    /\ Step(r, [req[r] EXCEPT !.at = "fanConnect", !.project = p, !.left = @ \ {repo},
                              !.meta.selected = {repo}])
    /\ UNCHANGED envelopes

(* A row the new project already has, from a sign-in, ends the request.    *)
FanConnect(r) ==
    /\ req[r].at = "fanConnect"
    /\ LET p == req[r].project
       IN  IF conn[p] # None THEN Step(r, Idle)
           ELSE SetRow(p, [token |-> TRUE, meta |-> req[r].meta], r,
                       [req[r] EXCEPT !.at = "fan", !.project = None])
    /\ UNCHANGED <<projects, envelopes>>

(* The fan-out is done or the cap is reached; the process restarts; a call *)
(* of the store or of GitHub fails.                                        *)
FanEnd(r) ==
    /\ req[r].at = "fan" /\ (req[r].left = {} \/ ~Room)
    /\ Step(r, Idle)
    /\ UNCHANGED <<projects, envelopes>>

Fails(r) ==
    /\ req[r].at # "idle"
    /\ Step(r, Idle)
    /\ UNCHANGED <<projects, envelopes>>

Next ==
    \/ \E p \in Projects : CreateProject(p) \/ Authorize(p) \/ Disconnect(p)
    \/ \E e \in envelopes : Callback(e) \/ Expire(e)
    \/ \E r \in Requests : \/ SignIn(r) \/ SignInRefresh(r) \/ SignInConnect(r)
                           \/ PatchWrite(r) \/ FanConnect(r) \/ FanEnd(r) \/ Fails(r)
    \/ \E r \in Requests, p \in Projects :
          \/ SignInLook(r, p) \/ SignInCreate(r, p) \/ PatchRead(r, p) \/ FanOut(r, p)
    \/ \E r \in Requests, p \in Projects, repo \in Repos : FanProject(r, p, repo)

Spec == Init /\ [][Next]_vars

-----------------------------------------------------------------------------
(* "If the org already has a GitHub connection, its project is reused - no *)
(* duplicate project": a sign-in creates a project beside a connected one  *)
(* only if that one was connected after the sign-in had looked at it.      *)
SignInReusesTheProject ==
    [][\A r \in Requests :
          req[r].at = "look" /\ req'[r].at = "connect"
            => Connected \subseteq req[r].late]_vars

(* A saved choice of repositories is changed by the next choice alone: a   *)
(* refresh, or a choice that read the row before another write of it, may  *)
(* undo it only if the two overlapped (read, merge, write of metadata).    *)
ChoiceLostOnlyByOverlap ==
    [][\A p \in Projects :
          conn[p] # None /\ conn'[p] # None /\ conn'[p].meta.selected # conn[p].meta.selected
            => \E r \in Requests :
                 /\ req[r].project = p /\ req'[r].at = "idle"
                 /\ \/ req[r].at = "patch"
                    \/ req[r].at = "refresh" /\ p \in req[r].late]_vars
=============================================================================
