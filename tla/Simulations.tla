---- MODULE Simulations ----
(***************************************************************************)
(* What-if questions asked of a graph (packages/shared/src): the failure   *)
(* simulations, the attack simulations, the predictions, the revenue they  *)
(* cost, scenarios of several steps and the report that quotes them.       *)
(*                                                                         *)
(* A result is [type, impact, affected, radius, full]: radius is a         *)
(* percentage of the nodes.  Money is in whole units, the factors of the   *)
(* code scaled to thousandths.                                             *)
(***************************************************************************)
EXTENDS Scoring

Share(g, S) == IF g.nodes = {} THEN 0 ELSE (100 * Cardinality(S)) \div Cardinality(g.nodes)

Result(type, impact, affected, radius, full) ==
    [type |-> type, impact |-> impact, affected |-> affected,
     radius |-> radius, full |-> full]

NoResult(type) == Result(type, "none", {}, 0, FALSE)

\* Half of the system is counted in nodes, as the code compares the quotient.
Classify(g, S, full) ==
    CASE full -> "full_outage"
      [] ~full /\ 2 * Cardinality(S) >= Cardinality(g.nodes) /\ S # {} -> "partial_outage"
      [] OTHER -> IF S # {} THEN "degraded" ELSE "none"

Outage(g, type, removed) ==
    LET affected == FailureImpact(g, removed)
        full == Entrypoints(g) # {} /\ Entrypoints(g) \subseteq affected
    IN  IF removed = {} THEN NoResult(type)
        ELSE Result(type, Classify(g, affected, full), affected, Share(g, affected), full)

----

NodeScenarios == {"infra_server", "db_lock", "cache", "queue"}
ProviderScenarios == {"stripe_down", "openai_down", "aws_down", "cloudflare_down"}
TrafficScenarios == {"traffic_10x", "traffic_100x", "viral_peak"}
BusinessScenarios == {"churn_wave", "payment_failure", "refund_spike"}
SimulationTypes == NodeScenarios \cup ProviderScenarios \cup TrafficScenarios
                     \cup BusinessScenarios \cup {"infra_region", "dns"}

\* The node the most edges come into, the first of them.
MostUsed(g, nodes) ==
    LET in(n) == Cardinality(IncomingEdges(g, n.id))
    IN  First({n \in nodes : \A m \in nodes : in(m) <= in(n)})

\* The node a scenario fails when the caller names none: {} or one id.
DefaultTarget(g, type) ==
    LET kinds == CASE type = "db_lock" -> {"database"} [] type = "cache" -> {"cache"}
                   [] type = "queue" -> {"queue"} [] OTHER -> {"service", "api"}
        nodes == OfKind(g, kinds)
    IN  IF nodes = {} THEN {}
        ELSE {(IF type = "infra_server" THEN MostUsed(g, nodes) ELSE First(nodes)).id}

NodeOutage(g, type) == Outage(g, type, DefaultTarget(g, type))

\* With no region known the comparison is between two undefined values, and
\* every node without a region is taken down.
FailedRegion(g) ==
    LET placed == {n \in g.nodes : n.region # "none"}
    IN  IF placed = {} THEN "none" ELSE First(placed).region

RegionOutage(g, region) ==
    Outage(g, "infra_region", {n.id : n \in {m \in g.nodes : m.region = region}})

DnsOutage(g) == Result("dns", "full_outage", Entrypoints(g), 100, TRUE)

ProviderDown == [stripe_down |-> "stripe", openai_down |-> "openai",
                 aws_down |-> "aws", cloudflare_down |-> "cloudflare"]

ProviderOutage(g, type) ==
    LET removed == {n.id : n \in {m \in g.nodes : m.provider = ProviderDown[type]}}
        out == Outage(g, type, removed)
    IN  IF removed # {} /\ type = "stripe_down"
        THEN [out EXCEPT !.impact = "partial_outage"] ELSE out

Bottlenecks(g) ==
    {n \in g.nodes : \/ n.kind \in {"database", "cache"} /\ n.redundant # "yes"
                     \/ n.kind \in {"api", "external_api"} /\ n.hasRateLimit = "no"}

TrafficSurge(g, type) ==
    LET hit  == {n.id : n \in Bottlenecks(g)}
        full == type = "traffic_100x" /\ \E n \in Bottlenecks(g) : n.kind = "database"
    IN  Result(type, CASE full -> "full_outage"
                       [] ~full /\ hit # {} -> "partial_outage"
                       [] OTHER -> "degraded",
               hit, Share(g, hit), full)

SimulateFailure(g, type) ==
    CASE type \in NodeScenarios     -> NodeOutage(g, type)
      [] type \in ProviderScenarios -> ProviderOutage(g, type)
      [] type \in TrafficScenarios  -> TrafficSurge(g, type)
      [] type \in BusinessScenarios -> Result(type, "degraded", {}, 0, FALSE)
      [] type = "infra_region"      -> RegionOutage(g, FailedRegion(g))
      [] type = "dns"               -> DnsOutage(g)

----

Impacts == <<"none", "degraded", "partial_outage", "full_outage">>
ImpactRank(impact) == CHOOSE i \in DOMAIN Impacts : Impacts[i] = impact

\* The share of revenue lost while the impact lasts, in thousandths.
RevenueFactor(sim) ==
    CASE sim.impact = "none"     -> 0
      [] sim.impact = "degraded" -> 250
      [] sim.impact = "full_outage" -> 1000
      [] OTHER -> IF 10 * sim.radius < 300 THEN 300 ELSE 10 * sim.radius

ChurnFactor(sim) ==
    CASE sim.type = "churn_wave"   -> 80
      [] sim.type = "refund_spike" -> 30
      [] OTHER -> [none |-> 0, degraded |-> 3, partial_outage |-> 10, full_outage |-> 20][sim.impact]

\* business: [checkoutShare, slaRate] in thousandths; the result is in
\* thousandths of the revenue of one hour.
RevenueImpact(sim, business, hours) ==
    LET month   == 30 * 24
        direct  == hours * RevenueFactor(sim)
        checkout == IF sim.type \in {"stripe_down", "payment_failure"}
                    THEN hours * business.checkoutShare * 4 ELSE 0
        credits == IF sim.full \/ sim.impact = "partial_outage"
                   THEN month * business.slaRate * hours ELSE 0
    IN  direct + checkout + credits + month * ChurnFactor(sim)

\* A scenario is a set of steps [type, hours].
WorstImpact(g, steps) ==
    LET ranks == {ImpactRank(SimulateFailure(g, s.type).impact) : s \in steps}
    IN  Impacts[Max(ranks \cup {1})]

ScenarioAffected(g, steps) == UNION {SimulateFailure(g, s.type).affected : s \in steps}

ScenarioCost(g, steps, business) ==
    MapThenSumSet(LAMBDA s : RevenueImpact(SimulateFailure(g, s.type), business, s.hours), steps)

----

OnCriticalPath(g, n) ==
    n.kind = "api" \/ \E e \in IncomingEdges(g, n.id) : e.crit >= CriticalThreshold

Prediction(id, category, severity, likelihood) ==
    [node |-> id, category |-> category, severity |-> severity, likelihood |-> likelihood]

NodePredictions(g, n) ==
    LET single == n.redundant # "yes" /\ OnCriticalPath(g, n)
        P(kinds, condition, category, severity, likelihood) ==
            IF n.kind \in kinds /\ condition
            THEN {Prediction(n.id, category, severity, likelihood)} ELSE {}
    IN  P({"database"}, single, "bottleneck", "high", 70)
          \cup P({"api"}, single, "scaling", "medium", 60)
          \cup P({"api", "external_api"}, n.hasRateLimit = "no", "security", "medium", 55)
          \cup P({"cache"}, single, "architecture", "medium", 45)
          \cup P({"external_api"}, OnCriticalPath(g, n) /\ n.provider \in {"stripe", "openai"},
                 "architecture", "low", 40)

PredictFailures(g) ==
    (UNION {NodePredictions(g, n) : n \in g.nodes})
      \cup (IF (\E n \in g.nodes : n.kind = "frontend") /\ ~HasCdn(g)
            THEN {Prediction("none", "scaling", "low", 40)} ELSE {})

----

\* Reachability along every edge, whatever its criticality.
Downstream(g, start) == ReachableFrom(g, start, {})

IdsWhere(g, P(_)) == {n.id : n \in {m \in g.nodes : P(m)}}

\* [exposed, affected]; an attribute that is not known counts as missing here.
AttackSimulation(g, attack) ==
    LET limited(n) == n.hasRateLimit = "yes"
        entry  == IdsWhere(g, LAMBDA n : n.kind \in {"frontend", "cdn", "dns"})
        shield == \E n \in g.nodes : n.provider = "cloudflare" \/ n.kind = "cdn"
        public == IdsWhere(g, LAMBDA n : n.kind \in {"api", "frontend"})
        openApi == IdsWhere(g, LAMBDA n : n.kind \in {"api", "frontend"} /\ ~limited(n))
        data   == IdsWhere(g, LAMBDA n : n.kind \in {"database", "storage"})
        auth   == IdsWhere(g, LAMBDA n : n.hasAuth = "yes" \/ n.kind = "api")
        weak   == \E n \in g.nodes : n.id \in auth /\ ~(limited(n) /\ n.hasAuth = "yes")
        flood  == ~shield /\ \E n \in g.nodes : n.id \in entry /\ ~limited(n)
        shipped == \E n \in g.nodes : \/ n.kind \in {"frontend", "api", "service"}
                                      \/ n.provider \in {"github", "self"}
        R(exposed, affected) == [exposed |-> exposed, affected |-> affected]
    IN  CASE attack = "ddos" -> R(flood, IF flood THEN Downstream(g, entry) ELSE entry)
          [] attack = "api_abuse" ->
                R(openApi # {}, IF openApi # {} THEN Downstream(g, openApi) ELSE public)
          [] attack = "credential_leak" -> R(weak, Downstream(g, auth) \cup data)
          [] attack = "github_token_leak" -> R(shipped, IF shipped THEN NodeIds(g) ELSE {})
          [] attack = "jwt_secret_leak" ->
                R(auth # {}, IF auth # {} THEN Downstream(g, auth) \cup data ELSE {})

----

HeadlineScenarios == {"dns", "db_lock", "stripe_down", "infra_region"}

\* The numbers of a report: its scores, its worst case and what it recommends.
Report(g, code) ==
    [reliability |-> ReliabilityScore(g, code),
     security    |-> SecurityScore(g),
     worst       |-> Max({SimulateFailure(g, t).radius : t \in HeadlineScenarios}),
     top         |-> Recommended(ReliabilityFindings(g, code), 3),
     predictions |-> PredictFailures(g),
     exposed     |-> Exposures(g)]
====
