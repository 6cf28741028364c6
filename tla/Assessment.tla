---- MODULE Assessment ----
(***************************************************************************)
(* What a project's pages show and when it changes: the latest succeeded   *)
(* scan, the customer's triage decisions and the recent commits, read      *)
(* together by the engines.                                                *)
(*                                                                         *)
(* A scan record holds what the collectors read; its graph, findings and   *)
(* scores are functions of that (the engines are pure), so they are        *)
(* operators here and not state.  How a scan comes to succeed is           *)
(* ScanPipeline's subject, and how its collection is connected is          *)
(* Connections': here a scan reads any collection.                         *)
(***************************************************************************)
EXTENDS Architecture, Simulations, Releases

CONSTANTS RepoLists, CloudLists, DatabaseLists, \* what a scan may read of each source
          Codes,      \* what the code audits may report: [findings, vulns, quality]
          Commits,    \* the commits that may land
          Overlays,   \* the corrections a customer may have saved
          Decisions,  \* the triage statuses a finding may be given
          MaxTriaged, \* bound: findings decided on
          MaxCommits  \* the window of recent commits (the API asks for 10)

VARIABLES scan,    \* what the latest succeeded scan read, or NoScan
          triage,  \* fingerprint -> status
          recent,  \* recent commits, each with whether it is newer than the scan
          age      \* days since the scan: today or more than a week ago

vars == <<scan, triage, recent, age>>

NoSources == [repos |-> <<>>, clouds |-> <<>>, databases |-> <<>>, billing |-> FALSE]
Sources == [repos : RepoLists, clouds : CloudLists, databases : DatabaseLists,
            billing : BOOLEAN] \cup {NoSources}

NoScan == [sources |-> NoSources, code |-> [findings |-> {}, vulns |-> {}, quality |-> -1]]

\* Same sources, same graph: the engines keep no state.
GraphOf == [s \in Sources |-> BuildSystemGraph(s)]
TopologyOf == [s \in Sources |-> TopologyFindings(GraphOf[s])]

IsList(s) == s \in Seq({s[i] : i \in DOMAIN s})

\* The sources are lists; the audits report finite sets, weighed and rated; a
\* commit is marked when it lands; and what a customer adds has its place.
ASSUME AssessmentAssumption ==
    /\ \A l \in RepoLists \cup CloudLists \cup DatabaseLists : IsList(l)
    /\ \A l \in RepoLists : \A r \in DOMAIN l :
          IsList(l[r].ai) /\ \A i \in DOMAIN l[r].ai : l[r].ai[i].kind \in AiKinds
    /\ \A l \in CloudLists : \A c \in DOMAIN l : IsList(l[c].services)
    /\ \A k \in Codes :
          /\ IsFiniteSet(k.findings) /\ \A f \in k.findings : f.weight \in Nat
          /\ IsFiniteSet(k.vulns) /\ \A v \in k.vulns : v.severity \in Severities
          /\ k.quality \in Int
    /\ \A c \in Commits : [c EXCEPT !.afterScan = FALSE] = c
    /\ \A o \in Overlays : \A n \in o.added : n.at \in Nat \X Nat

Members(lists) == UNION {{l[i] : i \in DOMAIN l} : l \in lists}

DatabaseIds == {DatabaseId(d) : d \in Members(DatabaseLists)}

\* No hint has an id that starts as a database's does, with db-.
ASSUME DatabasesHaveAPrefix == DatabaseIds \cap {h.id : h \in ServiceHints} = {}

Scanned == scan # NoScan

Graph == GraphOf[scan.sources]
Code == scan.code.findings \cup VulnerabilitiesToFindings(scan.code.vulns)
Findings == TopologyOf[scan.sources] \cup Code

\* What the dashboard and the release page are computed from.
InputWith(t) ==
    [findings |-> Open(Findings, t), graph |-> Graph, quality |-> scan.code.quality,
     analyzed |-> Scanned, vulnerabilities |-> scan.code.vulns,
     changes |-> recent, age |-> age]

Input == InputWith(triage)

----

Init ==
    /\ scan = NoScan /\ triage = <<>> /\ recent = {} /\ age = 0

Scan ==
    /\ \E s \in Sources \ {NoSources}, k \in Codes : scan' = [sources |-> s, code |-> k]
    /\ recent' = {[c EXCEPT !.afterScan = FALSE] : c \in recent}
    /\ age' = 0
    /\ UNCHANGED triage

\* Decisions are keyed by fingerprint and outlive the scan they were made on.
Triage ==
    /\ \E f \in Findings, s \in Decisions :
          /\ Cardinality(DOMAIN triage \cup {Fingerprint(f)}) <= MaxTriaged
          /\ triage' = [fp \in DOMAIN triage \cup {Fingerprint(f)} |->
                          IF fp = Fingerprint(f) THEN s ELSE triage[fp]]
    /\ UNCHANGED <<scan, recent, age>>

Commit ==
    /\ Cardinality(recent) < MaxCommits
    /\ \E c \in Commits : recent' = recent \cup {[c EXCEPT !.afterScan = TRUE]}
    /\ UNCHANGED <<scan, triage, age>>

Week ==
    /\ Scanned /\ age' = 8
    /\ UNCHANGED <<scan, triage, recent>>

Next == Scan \/ Triage \/ Commit \/ Week

Spec == Init /\ [][Next]_vars

----

\* The state is made of values the engines accept: what the sources can hold,
\* known statuses, and a window of commits.
TypeOK ==
    /\ scan = NoScan \/ (scan.sources \in Sources /\ scan.code \in Codes)
    /\ \A fp \in DOMAIN triage : triage[fp] \in Decisions
    /\ \A c \in recent : [c EXCEPT !.afterScan = FALSE] \in Commits
    /\ age \in {0, 8}

\* Nothing keeps the ids of different sources apart: a repository's tier or a
\* declared service may go by the id of a database.  The merge then makes one
\* node of the two, of the kind the later source gives it; a Postgres inferred
\* from the code may so become a provider's resource, and then another's twin.
TakenForAnother(from, id) ==
    \/ \E r \in DOMAIN from.repos : id \in {FrontendId(from.repos[r]), ApiId(from.repos[r])}
    \/ \E k \in DOMAIN from.clouds : \E i \in DOMAIN from.clouds[k].services :
          LET s == from.clouds[k].services[i]
          IN  s.id = id /\ (s.kind # "database" \/ id = "postgres")

\* "The less safe value wins so the scan never hides a risk": a database a
\* provider says has no backup has a critical backup finding of its own, and a
\* Postgres inferred from the code keeps one beside whatever database was
\* connected, unless another source of the scan gives its id to something else.
NoRiskHidden ==
    LET from == scan.sources
        asked == {i \in DOMAIN from.databases : from.databases[i].hasBackup = "no"}
        unsafe == {DatabaseId(from.databases[i]) : i \in asked}
                    \cup {s \in {"postgres"} : \E r \in DOMAIN from.repos : s \in from.repos[r].services}
    IN  \A id \in unsafe :
            \/ TakenForAnother(from, id)
            \/ \E f \in Findings : f.node = id /\ f.category = "backup" /\ f.severity = "critical"

\* No gate of the release page says FAIL while the verdict says that nothing is
\* in the way.
FailedGateBlocks ==
    \A in \in {Input} : "fail" \in Gates(in) => Verdict(in) = "blocked"

WiredOn(g) ==
    /\ WellFormed(g)
    /\ \A o \in Overlays : WellFormed(ApplyOverlay(g, o))
    /\ \A e \in g.edges : e.from # e.to
    /\ OfKind(g, {"api", "service"}) # {} =>
         \A n \in g.nodes : n.kind \in BackingKinds => IncomingEdges(g, n.id) # {}

AgreeOn(g) ==
    /\ \A p \in PredictFailures(g) :
          p.category = "bottleneck" =>
              /\ \E f \in TopologyFindings(g) : f.category = "spof" /\ f.node = p.node
              /\ FailureImpact(g, {p.node}) # {p.node}
    /\ \A r \in {n.region : n \in g.nodes} :
          LET down == RegionOutage(g, r).affected
          IN  \A n \in g.nodes : n.region = r => FailureImpact(g, {n.id}) \subseteq down
    /\ \A a \in {"ddos", "api_abuse", "credential_leak", "github_token_leak", "jwt_secret_leak"} :
          AttackSimulation(g, a).affected \subseteq NodeIds(g)
    /\ LET report == Report(g, {})
           crisis == {[type |-> t, hours |-> 1] : t \in HeadlineScenarios}
       IN  /\ (report.security = 100) = (report.exposed = {})
           /\ report.reliability < 100 => report.top # {}
           /\ (\E f \in TopologyFindings(g) : f.severity = "critical")
                => \E f \in report.top : f.severity = "critical"
           /\ WorstImpact(g, crisis) = "full_outage"
           /\ ScenarioAffected(g, crisis) \subseteq NodeIds(g)

CostFollowsImpactOn(g) ==
    LET business == [checkoutShare |-> 150, slaRate |-> 1]
        priced == SimulationTypes \ (BusinessScenarios \cup {"stripe_down"})
        results == {SimulateFailure(g, t) : t \in priced}
    IN  \A r, s \in results :
            ImpactRank(r.impact) < ImpactRank(s.impact) =>
                RevenueImpact(r, business, 1) <= RevenueImpact(s, business, 1)

\* Tabulated, as the graphs are.
Wiring == [s \in Sources |-> WiredOn(GraphOf[s])]
Agreement == [s \in Sources |-> AgreeOn(GraphOf[s])]
Pricing == [s \in Sources |-> CostFollowsImpactOn(GraphOf[s])]

\* However many sources found a component, and whatever the customer corrected,
\* edges join known nodes and a pair has one; before the corrections no node
\* depends on itself and no backing service floats unconnected once there is an
\* API or a service to hang it on.
GraphWired == Wiring[scan.sources]

\* The engines tell one story of one graph: what the predictions call the
\* database that will become the bottleneck, the reliability score calls a
\* single point of failure and its outage takes something else down with it;
\* a region's outage takes down all that each of its nodes takes down; and an
\* attack reaches components of the system only.  A report's security score is
\* perfect exactly when it lists no exposure, and the recommendations it quotes
\* include one for a critical finding if there is any.  Of two failures the one
\* with the worse impact never costs less (business shocks and payment outages
\* are priced separately).
EnginesAgree == Agreement[scan.sources] /\ Pricing[scan.sources]

\* Dismissing or resolving a finding never makes a dimension that stays measured
\* look worse, nor the posture as long as the same dimensions are measured, nor
\* the release: its score does not fall and it does not become blocked.
TriageHelps ==
    [][ triage' # triage =>
          \A old \in {Input}, new \in {InputWith(triage')} :
              new.findings \subseteq old.findings =>
                 /\ \A d \in Measured(new) : Health(new, d) >= Health(old, d)
                 /\ Measured(new) = Measured(old) =>
                       /\ PostureScore(new) >= PostureScore(old)
                       /\ SeverityOrder[PostureBand(new)] <= SeverityOrder[PostureBand(old)]
                 /\ ReadinessScore(new) >= ReadinessScore(old)
                 /\ Verdict(new) = "blocked" => Verdict(old) = "blocked" ]_vars
====
