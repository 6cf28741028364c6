------------------------------- MODULE Quotas -------------------------------
(***************************************************************************)
(* The plan limits of one organization.  Every gate reads a count, awaits, *)
(* and lets the request insert later (billing.service.ts, github.module.ts *)
(* assertFixQuota); other routes insert without a gate.  A request takes a *)
(* slot of Requests; one that its gate refuses changes nothing.            *)
(***************************************************************************)
EXTENDS Naturals, FiniteSets

CONSTANTS
    Requests,       \* requests in progress at a time
    ProjectLimit,   \* maxProjects
    ScanLimit,      \* maxScansPerDay
    FixLimit,       \* aiFixesPerMonth
    MaxRepos,       \* repositories of a fan-out: at most 20 in the code
    MaxScans,       \* bound: scan rows of a day
    MaxFixes,       \* bound: fixes generated in a month
    MaxSignIns,     \* bound: projects inserted by sign-ins
    Routes          \* the routes in use: "projects", "fanOut", "signIn",
                    \* "scans", "monitor", "fix", "push"

ASSUME QuotasAssumption ==
    /\ IsFiniteSet(Requests) /\ Requests # {}
    /\ ProjectLimit \in Nat \ {0} /\ ScanLimit \in Nat \ {0} /\ FixLimit \in Nat
    /\ MaxRepos \in Nat /\ MaxScans \in Nat /\ MaxFixes \in Nat
    /\ MaxSignIns \in Nat

VARIABLES
    projects,    \* rows that listProjects counts
    scans,       \* rows that countScansSince counts today
    fixes,       \* 'fix' rows that countAiUsageSince counts this month
    recording,   \* usage rows being written in the background
    started,     \* observed: the scans POST /scans inserted today
    generated,   \* observed: the fixes the AI generated this month
    signedIn,    \* observed: the projects that sign-ins inserted
    connected,   \* some project has a GitHub connection
    pc, left     \* where a request is; the repositories a fan-out has left

projectVars == <<projects, signedIn, connected>>
counters == <<projectVars, scans, fixes, recording, started, generated>>
vars == <<counters, pc, left>>

PC == {"idle", "insertProject", "insertScan", "generate",
       "fanCheck", "fanProject", "fanScan", "signInProject", "signInConnect"}

TypeOK ==
    /\ projects \in Nat /\ scans \in Nat /\ fixes \in Nat /\ recording \in Nat
    /\ started \in Nat /\ generated \in Nat
    /\ signedIn \in Nat /\ connected \in BOOLEAN
    /\ pc \in [Requests -> PC]
    /\ left \in [Requests -> 0 .. MaxRepos]

Init ==
    /\ projects = 0 /\ scans = 0 /\ fixes = 0 /\ recording = 0
    /\ started = 0 /\ generated = 0 /\ signedIn = 0 /\ connected = FALSE
    /\ pc = [r \in Requests |-> "idle"]
    /\ left = [r \in Requests |-> 0]

Goto(r, from, to) == pc[r] = from /\ pc' = [pc EXCEPT ![r] = to]

(* assertCanCreateProject, assertCanScan, assertFixQuota. *)
CanCreateProject == projects < ProjectLimit
(* Mutant: counts one too few. *)
CanScanInclusive == scans <= ScanLimit
CanScan == scans < ScanLimit
CanFix == fixes < FixLimit

-----------------------------------------------------------------------------
(* POST /projects *)
CheckProject(r) ==
    /\ "projects" \in Routes /\ CanCreateProject
    /\ Goto(r, "idle", "insertProject")
    /\ UNCHANGED <<counters, left>>

InsertProject(r) ==
    /\ Goto(r, "insertProject", "idle")
    /\ projects' = projects + 1
    /\ UNCHANGED <<scans, fixes, recording, started, generated, signedIn, connected, left>>

-----------------------------------------------------------------------------
(* A sign-in with a GitHub token, in an organization without a GitHub      *)
(* connection, inserts a project for one and asks no gate.                 *)
SignInLook(r) ==
    /\ "signIn" \in Routes /\ ~ connected
    /\ Goto(r, "idle", "signInProject")
    /\ UNCHANGED <<counters, left>>

SignInProject(r) ==
    /\ signedIn < MaxSignIns
    /\ Goto(r, "signInProject", "signInConnect")
    /\ projects' = projects + 1
    /\ signedIn' = signedIn + 1
    /\ UNCHANGED <<scans, fixes, recording, started, generated, connected, left>>

SignInConnect(r) ==
    /\ Goto(r, "signInConnect", "idle")
    /\ connected' = TRUE
    /\ UNCHANGED <<projects, signedIn, scans, fixes, recording, started, generated, left>>

(* A project's first GitHub connection is made, or the last one deleted.   *)
ConnectionsChange ==
    /\ projects > 0
    /\ connected' = ~ connected
    /\ UNCHANGED <<projects, signedIn, scans, fixes, recording, started, generated, pc, left>>

-----------------------------------------------------------------------------
(* POST /scans/fan-out: the gate is asked for each repository; the scan of *)
(* each new project is inserted without one.                               *)
FanOut(r, n) ==
    /\ "fanOut" \in Routes /\ connected
    /\ Goto(r, "idle", "fanCheck")
    /\ left' = [left EXCEPT ![r] = n]
    /\ UNCHANGED counters

(* Mutant: the gate is not asked again for the next repository.            *)
FanCheckUngated(r) ==
    /\ Goto(r, "fanCheck", IF left[r] > 0 THEN "fanProject" ELSE "idle")
    /\ UNCHANGED <<counters, left>>

FanCheck(r) ==
    /\ Goto(r, "fanCheck", IF left[r] > 0 /\ CanCreateProject THEN "fanProject" ELSE "idle")
    /\ UNCHANGED <<counters, left>>

FanProject(r) ==
    /\ Goto(r, "fanProject", "fanScan")
    /\ projects' = projects + 1
    /\ UNCHANGED <<scans, fixes, recording, started, generated, signedIn, connected, left>>

FanScan(r) ==
    /\ scans < MaxScans
    /\ Goto(r, "fanScan", "fanCheck")
    /\ scans' = scans + 1
    /\ left' = [left EXCEPT ![r] = @ - 1]
    /\ UNCHANGED <<projectVars, fixes, recording, started, generated>>

-----------------------------------------------------------------------------
(* POST /scans, and the sweep of the MonitoringService, which has no gate. *)
CheckScan(r) ==
    /\ "scans" \in Routes /\ CanScan
    /\ Goto(r, "idle", "insertScan")
    /\ UNCHANGED <<counters, left>>

InsertScan(r) ==
    /\ scans < MaxScans
    /\ Goto(r, "insertScan", "idle")
    /\ scans' = scans + 1
    /\ started' = started + 1
    /\ UNCHANGED <<projectVars, fixes, recording, generated, left>>

MonitorScan ==
    /\ "monitor" \in Routes /\ projects > 0 /\ scans < MaxScans
    /\ scans' = scans + 1
    /\ UNCHANGED <<projectVars, fixes, recording, started, generated, pc, left>>

(* The counts start again at midnight UTC and on the first of the month. *)
NewDay ==
    /\ scans' = 0 /\ started' = 0
    /\ UNCHANGED <<projectVars, fixes, recording, generated, pc, left>>

NewMonth ==
    /\ fixes' = 0 /\ generated' = 0
    /\ UNCHANGED <<projectVars, scans, recording, started, pc, left>>

-----------------------------------------------------------------------------
(* POST /code/fix asks the gate; /code/fix/pr and /code/fix/commit, when   *)
(* the client brings no content, generate a fix without asking.            *)
CheckFix(r) ==
    /\ "fix" \in Routes /\ CanFix
    /\ Goto(r, "idle", "generate")
    /\ UNCHANGED <<counters, left>>

PushFix(r) ==
    /\ "push" \in Routes
    /\ Goto(r, "idle", "generate")
    /\ UNCHANGED <<counters, left>>

(* The call to the AI ends, its usage row still being written. *)
Generate(r) ==
    /\ generated < MaxFixes
    /\ Goto(r, "generate", "idle")
    /\ recording' = recording + 1
    /\ generated' = generated + 1
    /\ UNCHANGED <<projectVars, scans, fixes, started, left>>

RecordUsage ==
    /\ recording > 0
    /\ recording' = recording - 1
    /\ fixes' = fixes + 1
    /\ UNCHANGED <<projectVars, scans, started, generated, pc, left>>

(* "A recording failure never affects the AI response." *)
LoseUsage ==
    /\ recording > 0
    /\ recording' = recording - 1
    /\ UNCHANGED <<projectVars, scans, fixes, started, generated, pc, left>>

(* The store, GitHub or the AI throws: the request ends there. *)
Throw(r) ==
    /\ pc[r] # "idle"
    /\ pc' = [pc EXCEPT ![r] = "idle"]
    /\ UNCHANGED <<counters, left>>

-----------------------------------------------------------------------------
Projects(r) ==
    \/ CheckProject(r)
    \/ InsertProject(r)
    \/ SignInLook(r)
    \/ SignInProject(r)
    \/ SignInConnect(r)
    \/ \E n \in 1 .. MaxRepos : FanOut(r, n)
    \/ FanCheck(r)
    \/ FanProject(r)
    \/ FanScan(r)

Scans(r) == CheckScan(r) \/ InsertScan(r)

Fixes(r) == CheckFix(r) \/ PushFix(r) \/ Generate(r)

Background == ConnectionsChange \/ MonitorScan \/ NewDay \/ NewMonth \/ RecordUsage \/ LoseUsage

Next ==
    \/ \E r \in Requests : Projects(r) \/ Scans(r) \/ Fixes(r) \/ Throw(r)
    \/ Background

Spec == Init /\ [][Next]_vars

-----------------------------------------------------------------------------
(* The requests whose gate let them create a project, or a scan, that they *)
(* have yet to insert.                                                     *)
AdmittedProjects == {r \in Requests : pc[r] \in {"insertProject", "fanProject"}}
AdmittedScans == {r \in Requests : pc[r] = "insertScan"}

(* By how much the routes with a gate miss the limit: a request in         *)
(* progress less one.  With one request at a time check-then-insert is     *)
(* exact, and what sign-ins insert without a gate (oauth.service.ts:175)   *)
(* comes on top: the gates count those projects and can refuse earlier,    *)
(* they make no room for more.                                             *)
ProjectOvershoot ==
    projects + Cardinality(AdmittedProjects)
        < ProjectLimit + signedIn + Cardinality(Requests)

(* The same for the scans that POST /scans starts in a day, whatever other *)
(* routes insert, and across midnight.                                     *)
ScanOvershoot ==
    started + Cardinality(AdmittedScans) < ScanLimit + Cardinality(Requests)
=============================================================================
