----------------------------- MODULE Collection -----------------------------
(***************************************************************************)
(* The collection of one scan (scanner.service.ts): every connection of    *)
(* the project has a collector that calls its provider with the            *)
(* connection's own token; source hosts are read repository by repository  *)
(* and audited (code-audit.ts, dependency-audit.ts), accounts are listed   *)
(* and audited resource by resource.  Collectors run concurrently, each    *)
(* under a timer; a failure costs what it failed to read and nothing else. *)
(* Rules and files are abstracted to the flaws that the rules match.       *)
(***************************************************************************)
EXTENDS Naturals, Sequences, FiniteSets

CONSTANTS
    Conns, Provider,  \* the project's connections, and their providers
    WithToken,        \* the connections with a stored token or an installation
    Selection,        \* source connection -> its selected repositories, in order
    Files, Tree,      \* repository -> its files; account -> its resources
    Reach,            \* how many of these a listing holds (see Listed)
    Kind,             \* file -> what selectFilesToRead takes it for
    Matched,          \* resources linked to a repository of the project
    Flaws, At, Class, \* what the rules would report, where, and by which audit
    Line,             \* flaw -> line; of a dependency, its place in the lockfiles
    Plans,            \* plan -> [features, maxRepos]
    MaxFileReads, MaxIssuesPerFile, MaxPackages,
    MaxListed, MaxAudited, MaxKept, \* 25, 12 and 8 for Vercel
    MaxChanges,       \* bound: changes of the repositories and accounts
    None

Features == {"sca", "codeAudit", "secrets", "iac"}
Classes == {"ast", "sast", "ai", "secret", "secretFile", "iac", "dependency", "config"}
SourceHosts == {"github", "gitlab"}

(* A collector: what it has left to read, in order, and what it found.     *)
Collectors == [todo : Seq(DOMAIN Tree), got : SUBSET Flaws]
Scans == [plan : DOMAIN Plans, work : [Conns -> Collectors]]

ASSUME CollectionAssumption ==
    /\ WithToken \subseteq Conns /\ None \notin DOMAIN Plans /\ None \notin Scans
    /\ IsFiniteSet(Flaws)
    /\ \A c \in Conns : Provider[c] \notin SourceHosts => c \in DOMAIN Tree
    /\ \A p \in DOMAIN Plans : /\ Plans[p].features \subseteq Features
                               /\ Plans[p].maxRepos \in Nat
    /\ At \in [Flaws -> Files] /\ Class \in [Flaws -> Classes] /\ Line \in [Flaws -> Nat]
    /\ \A c \in Conns : Selection[c] \in Seq(DOMAIN Tree)
    /\ \A r \in DOMAIN Tree : Tree[r] \in Seq(Files) /\ Reach[r] \in Nat
    /\ MaxFileReads \in Nat /\ MaxIssuesPerFile \in Nat /\ MaxPackages \in Nat
    /\ MaxListed \in Nat /\ MaxAudited \in Nat /\ MaxKept \in Nat /\ MaxChanges \in Nat

VARIABLES
    present,   \* the flaws there are
    plan,      \* the organization's plan
    job,       \* the plan a waiting scan was requested with
    scan,      \* the scan in progress: its plan, and what every collector does
    report,    \* what the last scan collected, if it has ended
    changes,
    (* Observed during a scan: the flaws present from its start, the flaws *)
    (* present at some time, and the collectors that met a failure.        *)
    steady, seen, disturbed

world == <<present, changes>>
observed == <<steady, seen, disturbed>>
vars == <<present, plan, job, scan, report, changes, steady, seen, disturbed>>

(* The types of the world, of the jobs and of the collectors.              *)
TypeOK ==
    /\ present \subseteq Flaws /\ report \subseteq Flaws
    /\ plan \in DOMAIN Plans
    /\ job \in DOMAIN Plans \cup {None}
    /\ scan = None \/ scan \in Scans
    /\ changes \in 0 .. MaxChanges
    /\ steady \subseteq Flaws /\ seen \subseteq Flaws /\ disturbed \subseteq Conns

Init ==
    /\ present \in SUBSET Flaws /\ changes = 0
    /\ plan \in DOMAIN Plans
    /\ job = None /\ scan = None /\ report = {}
    /\ steady = {} /\ seen = {} /\ disturbed = {}

-----------------------------------------------------------------------------
(* slice(0, n), and the n first of the issues of a file.                   *)
Slice(s, n) == SubSeq(s, 1, IF n < Len(s) THEN n ELSE Len(s))
Elements(s) == {s[i] : i \in DOMAIN s}
FirstByLine(S, n) == {x \in S : Cardinality({y \in S : Line[y] < Line[x]}) < n}

(* listTree, and the lists of projects, instances and services: what comes *)
(* after is not asked for and never noticed.  GitLab is asked for 4 pages  *)
(* of 100 entries, directories included; GitHub cuts a large tree and says *)
(* so in a flag that is not read; of an account there is one page.         *)
Listed(r) == Slice(Tree[r], Reach[r])

(* A page of GitLab that fails ends the listing there; GitHub has one.     *)
Listings(c, r) ==
    IF Provider[c] = "github" THEN {<< >>, Listed(r)}
    ELSE {Slice(Listed(r), n) : n \in 0 .. Len(Listed(r))}

(* selectFilesToRead: env files, Dockerfiles, sources, then tests; other   *)
(* files, vendored ones and examples among them, are not read.             *)
SelectFilesToRead(tree) ==
    LET Of(k) == SelectSeq(tree, LAMBDA f : Kind[f] = k)
    IN  Slice(Of("env") \o Of("docker") \o Of("source") \o Of("test"), MaxFileReads)

(* analyzeContents: secret files count by their presence in the tree; of   *)
(* a file that was read, the line rules report a capped number of issues.  *)
AuditFileContent(S) ==
    FirstByLine({x \in S : Class[x] \in {"sast", "secret"}}, MaxIssuesPerFile)

AnalyzeContents(tree, read, S) ==
    {x \in S : Class[x] = "secretFile" /\ At[x] \in Elements(tree)}
    \cup {x \in S : Class[x] \in {"iac", "ast", "ai"} /\ At[x] \in read}
    \cup UNION {AuditFileContent({x \in S : At[x] = f}) : f \in read}

(* auditRepoDependencies: the packages of the lockfiles that could be read.*)
AuditDependencies(read, S) ==
    {x \in S : Class[x] = "dependency" /\ At[x] \in read /\ Line[x] <= MaxPackages}

(* filterByEntitlements.                                                   *)
FilterByEntitlements(S, features) ==
    {x \in S : /\ Class[x] \in {"secret", "secretFile"} => "secrets" \in features
               /\ Class[x] = "iac" => "iac" \in features}

(* The accounts: of those listed, the resources linked to a repository if  *)
(* any is; the first of them taken, fewer audited, and a capped number of  *)
(* findings kept.                                                          *)
First(places, n) == {i \in places : Cardinality({j \in places : j < i}) < n}
Narrowed(resources) ==
    LET linked == {i \in DOMAIN resources : resources[i] \in Matched}
    IN  IF linked = {} THEN DOMAIN resources ELSE linked
Audited(c) == First(First(Narrowed(Listed(c)), MaxListed), MaxAudited)
Resources(c, places) == {Tree[c][i] : i \in places}

AuditAccount(c, read, S) ==
    LET flawed == {i \in Audited(c) : Tree[c][i] \in read \cap {At[x] : x \in S}}
    IN  {x \in S : Class[x] = "config" /\ At[x] \in Resources(c, First(flawed, MaxKept))}

-----------------------------------------------------------------------------
(* The customer: code and accounts change, so does the plan, and scans are *)
(* requested (the job carries the plan of that moment).                    *)

Change(x) ==
    /\ changes < MaxChanges /\ changes' = changes + 1
    /\ present' = IF x \in present THEN present \ {x} ELSE present \cup {x}
    /\ IF scan = None THEN UNCHANGED <<steady, seen>>
       ELSE steady' = steady \ {x} /\ seen' = seen \cup {x}
    /\ UNCHANGED <<plan, job, scan, report, disturbed>>

ChangePlan(p) ==
    /\ plan # p /\ plan' = p
    /\ UNCHANGED <<world, job, scan, report, observed>>

Request ==
    /\ job = None /\ job' = plan
    /\ UNCHANGED <<world, plan, scan, report, observed>>

(* What a collector sets out to read: the selected repositories up to the  *)
(* plan's limit, or its account; nothing without a token.                  *)
Todo(c, p, tokens) ==
    IF c \notin tokens THEN << >>
    ELSE IF Provider[c] \in SourceHosts THEN Slice(Selection[c], Plans[p].maxRepos)
    ELSE <<c>>

(* Decrypting or minting a connection's token may fail.                    *)
ScanStart ==
    /\ scan = None /\ job # None
    /\ \E tokens \in SUBSET WithToken :
          /\ scan' = [plan |-> job,
                      work |-> [c \in Conns |-> [todo |-> Todo(c, job, tokens), got |-> {}]]]
          /\ disturbed' = WithToken \ tokens
    /\ job' = None /\ report' = {}
    /\ steady' = present /\ seen' = present
    /\ UNCHANGED <<world, plan>>

-----------------------------------------------------------------------------
(* The collectors.                                                         *)

Progress(c, found, failed) ==
    /\ scan' = [scan EXCEPT !.work[c] = [todo |-> Tail(@.todo), got |-> @.got \cup found]]
    /\ disturbed' = IF failed THEN disturbed \cup {c} ELSE disturbed
    /\ UNCHANGED <<world, plan, job, report, steady, seen>>

(* What the audits of a repository report, from its listing and the files  *)
(* that could be read; advisories only if their database answers, and of   *)
(* lockfiles that are asked for whether listed or not.                     *)
AuditRepo(c, tree, read, osv) ==
    LET features == Plans[scan.plan].features
        sources == Elements(SelectFilesToRead(tree)) \cap read
    IN  (IF "codeAudit" \in features
         THEN FilterByEntitlements(AnalyzeContents(tree, sources, present), features) ELSE {})
        \cup
        (IF Provider[c] = "github" /\ "sca" \in features /\ osv
         THEN AuditDependencies(read, present) ELSE {})

(* GithubCollector, GitlabCollector: the next repository.  A repository    *)
(* that cannot be read at all is skipped.                                  *)
CollectRepo(c) ==
    /\ scan # None /\ Provider[c] \in SourceHosts /\ scan.work[c].todo # << >>
    /\ LET r == Head(scan.work[c].todo)
           files == Elements(Tree[r])
       IN  \/ Progress(c, {}, TRUE)
           \/ \E read \in SUBSET files, osv \in BOOLEAN, tree \in Listings(c, r) :
                 Progress(c, AuditRepo(c, tree, read, osv),
                          read # files \/ ~osv \/ tree # Listed(r))

(* VercelCollector, NeonCollector and the others: list, then audit.        *)
CollectAccount(c) ==
    /\ scan # None /\ Provider[c] \notin SourceHosts /\ scan.work[c].todo # << >>
    /\ LET audited == Resources(c, Audited(c))
       IN  \E read \in SUBSET audited :
              Progress(c, AuditAccount(c, read, present), read # audited)

(* withTimeout: the scan goes on without anything of that provider, and    *)
(* ignores what its collector may still find.                              *)
(* Mutant: only collectors of accounts have a timer.                       *)
TimesOutAccounts(c) ==
    Provider[c] \notin SourceHosts /\ scan # None /\ scan.work[c].todo # << >>
TimesOut(c) == scan # None /\ scan.work[c].todo # << >>

Timeout(c) ==
    /\ TimesOut(c)
    /\ scan' = [scan EXCEPT !.work[c] = [todo |-> << >>, got |-> {}]]
    /\ disturbed' = disturbed \cup {c}
    /\ UNCHANGED <<world, plan, job, report, steady, seen>>

(* All collectors have answered: their collections are merged.             *)
(* Mutant: one collector's answer replaces another's.                      *)
LastCollection(work) == work[CHOOSE c \in Conns : TRUE].got
MergeCollections(work) == UNION {work[c].got : c \in Conns}

Finish ==
    /\ scan # None /\ \A c \in Conns : scan.work[c].todo = << >>
    /\ report' = MergeCollections(scan.work)
    /\ scan' = None
    /\ steady' = {} /\ seen' = {} /\ disturbed' = {}
    /\ UNCHANGED <<world, plan, job>>

Next ==
    \/ \E x \in Flaws : Change(x)
    \/ \E p \in DOMAIN Plans : ChangePlan(p)
    \/ Request \/ ScanStart \/ Finish
    \/ \E c \in Conns : CollectRepo(c) \/ CollectAccount(c) \/ Timeout(c)

Spec == Init /\ [][Next]_vars

(* Timers fire and the merge follows; no provider ever has to answer.      *)
Fairness == WF_vars(Finish) /\ \A c \in Conns : WF_vars(Timeout(c))
FairSpec == Spec /\ Fairness

-----------------------------------------------------------------------------
(* The flaws a scan owes its customer, from the plan it was requested with *)
(* and the collectors' budgets alone: what they list, read and keep.       *)
Needs(class) ==
    CASE class \in {"ast", "sast", "ai"} -> {"codeAudit"}
      [] class \in {"secret", "secretFile"} -> {"codeAudit", "secrets"}
      [] class = "iac" -> {"codeAudit", "iac"}
      [] class = "dependency" -> {"sca"}
      [] class = "config" -> {}
Entitled(p) == {x \in Flaws : Needs(Class[x]) \subseteq Plans[p].features}

ReposOf(c, p) ==
    IF Provider[c] \in SourceHosts
    THEN {Selection[c][i] : i \in {j \in DOMAIN Selection[c] : j <= Plans[p].maxRepos}} ELSE {}

WithinBudget(x, c, r) ==
    /\ At[x] \in Elements(Tree[r])
    /\ CASE Class[x] = "secretFile" -> At[x] \in Elements(Listed(r))
         [] Class[x] = "dependency" -> Provider[c] = "github" /\ Line[x] <= MaxPackages
         [] OTHER -> /\ At[x] \in Elements(SelectFilesToRead(Listed(r)))
                     /\ Cardinality({y \in Flaws : At[y] = At[x]}) <= MaxIssuesPerFile

Owed(c, p) ==
    {x \in Entitled(p) : \E r \in ReposOf(c, p) : Class[x] # "config" /\ WithinBudget(x, c, r)}
    \cup {x \in Flaws : /\ Provider[c] \notin SourceHosts /\ Class[x] = "config"
                        /\ At[x] \in Resources(c, Audited(c))
                        /\ Cardinality(Audited(c)) <= MaxKept}

(* A finished scan reports only what was there while it ran and its plan   *)
(* entitles to, and everything owed that was there all along, but for the  *)
(* providers that failed or timed out: a stuck provider costs its own part *)
(* ("partial connectivity still yields a useful graph").  What lies beyond *)
(* a listing is not owed: no report tells it from what is not there.       *)
ReportIsFaithful ==
    [][scan # None /\ scan' = None =>
         /\ report' \subseteq seen \cap Entitled(scan.plan)
         /\ \A c \in WithToken \ disturbed : steady \cap Owed(c, scan.plan) \subseteq report']_vars

(* "one stuck provider can never hang the whole scan", whatever the        *)
(* collectors do.                                                          *)
EveryCollectionEnds == scan # None ~> scan = None
=============================================================================
