---- MODULE Scoring ----
(***************************************************************************)
(* Findings and what is made of them: triage, the reliability score, the   *)
(* security simulation, the risk posture and the recommendations           *)
(* (packages/shared/src).                                                  *)
(*                                                                         *)
(* A finding is [category, severity, weight, title, node, rule, file,      *)
(* line, confidence]; a title is a name, not a sentence. Confidence        *)
(* factors are in twentieths, so scores are exact integers.                *)
(***************************************************************************)
EXTENDS SystemGraphs, FiniteSetsExt

Severities == {"low", "medium", "high", "critical"}

SeverityOrder == [low |-> 1, medium |-> 2, high |-> 3, critical |-> 4]

SeverityFromWeight(w) ==
    CASE w >= 20 -> "critical" [] w \in 12 .. 19 -> "high" [] w \in 6 .. 11 -> "medium"
      [] OTHER -> "low"

\* A finding about a node, as the topology rules make them.
Topology(category, n, weight, severity) ==
    [category |-> category, severity |-> severity, weight |-> weight,
     title |-> category, node |-> n.id, rule |-> "none", file |-> "none",
     line |-> 0, confidence |-> "none"]

VulnerabilityWeight == [low |-> 3, medium |-> 8, high |-> 14, critical |-> 20]

VulnerabilitiesToFindings(vulns) ==
    {[category |-> "security", severity |-> v.severity,
      weight |-> VulnerabilityWeight[v.severity], title |-> v.id, node |-> "none",
      rule |-> "none", file |-> "none", line |-> 0, confidence |-> "verified"] : v \in vulns}

----

SuppressedStatuses == {"false_positive", "accepted_risk", "resolved"}
IsSuppressed(status) == status \in SuppressedStatuses

\* Neither the line nor the repository is part of a finding's identity.
Fingerprint(f) == <<f.rule, f.file, f.node, f.title>>

\* triage: a function from the fingerprints somebody decided on to a status.
Open(findings, triage) ==
    {f \in findings : ~(Fingerprint(f) \in DOMAIN triage /\ IsSuppressed(triage[Fingerprint(f)]))}

----

ConfidenceFactor(c) ==
    CASE c = "high" -> 17 [] c = "heuristic" -> 12 [] OTHER -> 20

Weighted(findings) == MapThenSumSet(LAMBDA f : f.weight * ConfidenceFactor(f.confidence), findings)

Least(a, b) == IF a <= b THEN a ELSE b
Clamp(n, low, high) == IF n < low THEN low ELSE Least(n, high)

TopologyPenaltyCap == 70 * 20
CodePenaltyCap == 80 * 20

VendorLockProviders == {"stripe", "supabase", "neon", "openai"}

TopologyFindings(g) ==
    LET N == g.nodes
        IsApi(n) == n.kind \in {"api", "external_api"}
        spofWeight(n) == IF n.kind = "database" THEN 22 ELSE 14
    IN  {Topology("spof", n, spofWeight(n), SeverityFromWeight(spofWeight(n))) :
            n \in SinglePointsOfFailure(g)}
          \cup {Topology("backup", n, 18, "critical") :
            n \in {m \in N : m.kind = "database" /\ m.hasBackup = "no"}}
          \cup {Topology("rate_limit", n, 8, "medium") :
            n \in {m \in N : IsApi(m) /\ m.hasRateLimit = "no"}}
          \cup {Topology("redundancy", n, 12, "high") :
            n \in {m \in N : m.kind \in {"cache", "queue"} /\ m.redundant = "no"}}
          \cup {Topology("vendor_lock_in", n, 4, "low") :
            n \in {m \in N : m.provider \in VendorLockProviders}}

\* code: the located findings and the advisories the scanner carried up.
ReliabilityFindings(g, code) == TopologyFindings(g) \cup code

ReliabilityScore(g, code) ==
    LET penalty == Least(TopologyPenaltyCap, Weighted(TopologyFindings(g)))
                     + Least(CodePenaltyCap, Weighted(code))
    IN  Clamp((100 * 20 - penalty + 10) \div 20, 0, 100)

----

PublicApis(g) == {n \in g.nodes : n.kind \in {"api", "external_api"}}
HasCdn(g) == \E n \in g.nodes : n.kind = "cdn"
DdosExposed(g) == ~HasCdn(g) /\ PublicApis(g) # {}
Without(g, attribute) == {n \in PublicApis(g) : n[attribute] = "no"}

SecurityFindings(g) ==
    (IF DdosExposed(g)
     THEN {[Topology("security", [id |-> "none"], 16, "high") EXCEPT !.title = "ddos"]} ELSE {})
      \cup {[Topology("security", n, 10, "medium") EXCEPT !.title = "no rate limit"] :
              n \in Without(g, "hasRateLimit")}
      \cup {[Topology("security", n, 14, "high") EXCEPT !.title = "no auth"] :
              n \in Without(g, "hasAuth")}

SecurityScore(g) ==
    Clamp(100 - MapThenSumSet(LAMBDA f : f.weight, SecurityFindings(g)), 0, 100)

Exposures(g) ==
    LET unlimited == Without(g, "hasRateLimit") # {}
        open      == Without(g, "hasAuth") # {}
    IN  {a \in {"ddos", "credential_stuffing", "brute_force", "api_abuse",
                "rate_limit_bypass", "session_hijacking"} :
           \/ a = "ddos" /\ DdosExposed(g)
           \/ a \in {"brute_force", "api_abuse"} /\ unlimited
           \/ a = "credential_stuffing" /\ (unlimited \/ open)
           \/ a = "rate_limit_bypass" /\ unlimited /\ ~HasCdn(g)
           \/ a = "session_hijacking" /\ open}

----

Dimensions == {"security", "ai_security", "reliability", "architecture", "maintainability"}

DimensionFor(category) ==
    CASE category \in {"spof", "backup", "redundancy", "rate_limit", "database", "api"} -> "reliability"
      [] category \in {"architecture", "vendor_lock_in"} -> "architecture"
      [] category = "quality" -> "maintainability"
      [] category = "ai_security" -> "ai_security"
      [] OTHER -> "security"

DimensionWeight == [security |-> 13, ai_security |-> 11, reliability |-> 12,
                    architecture |-> 10, maintainability |-> 7]

\* Mutant: the discounted part alone.
SaturatedAnew(raw) == IF raw <= 800 THEN raw * 20 ELSE (raw - 800) * 9

\* In 400ths of a point, from a raw penalty in twentieths.
Saturated(raw) == IF raw <= 800 THEN raw * 20 ELSE 16000 + (raw - 800) * 9

PenaltyFor(findings) == Saturated(Weighted(findings))

HasAiSurface(g) == \E n \in g.nodes : n.kind \in {"ai_model", "ai_agent"}

\* in: [findings (open ones), graph, quality, analyzed]; quality is the mean
\* hotspot score, or -1 when no code was read.
OfDimension(findings, d) == {f \in findings : DimensionFor(f.category) = d}

Analyzed(in, d) ==
    /\ in.analyzed
    /\ d = "ai_security" => (HasAiSurface(in.graph) \/ OfDimension(in.findings, d) # {})
    /\ d = "maintainability" => in.quality >= 0

Health(in, d) ==
    LET full == IF d = "maintainability" THEN 100 - Clamp(in.quality, 0, 100) ELSE 100
    IN  (Clamp(full * 400 - PenaltyFor(OfDimension(in.findings, d)), 0, 40000) + 200) \div 400

CountOf(findings, severity) == Cardinality({f \in findings : f.severity = severity})

Measured(in) == {d \in Dimensions : Analyzed(in, d)}

\* -1 stands for null: nothing has been measured.
PostureScore(in) ==
    LET total  == MapThenSumSet(LAMBDA d : Health(in, d) * DimensionWeight[d], Measured(in))
        weight == MapThenSumSet(LAMBDA d : DimensionWeight[d], Measured(in))
    IN  IF Measured(in) = {} THEN -1 ELSE (2 * total + weight) \div (2 * weight)

BandFor(score, criticals) ==
    CASE score = -1   -> "medium"
      [] score # -1 /\ criticals -> IF score >= 60 THEN "high" ELSE "critical"
      [] OTHER -> CASE score >= 85 -> "low" [] score \in 70 .. 84 -> "medium"
                    [] score \in 50 .. 69 -> "high" [] OTHER -> "critical"

PostureBand(in) ==
    BandFor(PostureScore(in), \E f \in in.findings : f.severity = "critical")

----

Playbook == [spof |-> 37, database |-> 40, api |-> 33, backup |-> 60, rate_limit |-> 25,
             redundancy |-> 30, security |-> 35, ai_security |-> 45,
             architecture |-> 28, quality |-> 20, vendor_lock_in |-> 15]

\* Whether the recommendation for e is listed above the one for f.
ListedAbove(e, f) ==
    \/ SeverityOrder[e.severity] > SeverityOrder[f.severity]
    \/ e.severity = f.severity /\ Playbook[e.category] > Playbook[f.category]

\* A finding no other is listed above; between equals the code keeps the order
\* in which they were found, which is not modelled.
Foremost(findings) ==
    IF findings = {} THEN {}
    ELSE {CHOOSE f \in findings : \A e \in findings : ~ListedAbove(e, f)}

\* The findings a list of at most n recommendations is about.
Recommended(findings, n) ==
    LET first[k \in 0 .. n] ==
            IF k = 0 THEN {} ELSE first[k - 1] \cup Foremost(findings \ first[k - 1])
    IN  first[n]
====
