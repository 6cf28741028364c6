---- MODULE Releases ----
(***************************************************************************)
(* Change intelligence (packages/shared/src/change.ts) and the release     *)
(* decision (readiness.ts).                                                *)
(*                                                                         *)
(* A commit is what the path and patch patterns found in it: the areas its *)
(* files belong to, whether a manifest changed and packages were added,    *)
(* whether a statement destroys data, the hint in its message and its size *)
(* in lines.                                                               *)
(***************************************************************************)
EXTENDS Scoring

\* PATH_RULES: what a file of each area contributes.
PathRules ==
    [auth     |-> [kind |-> "security",     weight |-> 26],
     secrets  |-> [kind |-> "security",     weight |-> 46],
     infra    |-> [kind |-> "architecture", weight |-> 22],
     ci       |-> [kind |-> "reliability",  weight |-> 12],
     schema   |-> [kind |-> "reliability",  weight |-> 24],
     payments |-> [kind |-> "business",     weight |-> 22],
     api      |-> [kind |-> "architecture", weight |-> 12],
     data     |-> [kind |-> "reliability",  weight |-> 10],
     config   |-> [kind |-> "architecture", weight |-> 10]]

Areas == DOMAIN PathRules

RuleNodes(g, area) ==
    {n.id : n \in {m \in g.nodes :
        \/ area = "auth" /\ m.kind \in {"api", "service"} /\ m.hasAuth # "no"
        \/ area = "schema" /\ m.kind = "database"
        \/ area = "payments" /\ m.provider = "stripe"
        \/ area = "api" /\ m.kind = "api"
        \/ area = "data" /\ m.kind \in {"database", "cache", "queue"}}}

MessageWeight(hint) == CASE hint = "revert" -> 8 [] hint = "hotfix" -> 10 [] OTHER -> 0

SizeWeight(lines) ==
    CASE lines > 1500 -> 12 [] lines \in 601 .. 1500 -> 8 [] lines \in 201 .. 600 -> 4
      [] OTHER -> 0

DependencyWeight(c) == CASE ~c.manifest -> 0 [] c.manifest /\ c.newDeps -> 14 [] OTHER -> 5

Compound(c) ==
    IF {"security", "business"} \subseteq {PathRules[a].kind : a \in c.areas} THEN 10 ELSE 0

ChangeScore(c) ==
    Least(100, MapThenSumSet(LAMBDA a : PathRules[a].weight, c.areas)
                 + DependencyWeight(c) + (IF c.destructive THEN 30 ELSE 0)
                 + MessageWeight(c.hint) + SizeWeight(c.lines) + Compound(c))

ChangeRiskFromScore(score) ==
    CASE score >= 70 -> "critical" [] score \in 45 .. 69 -> "high"
      [] score \in 20 .. 44 -> "medium" [] OTHER -> "low"

ChangeRisk(c) == ChangeRiskFromScore(ChangeScore(c))

TouchedNodes(c, g) ==
    (UNION {RuleNodes(g, a) : a \in c.areas})
      \cup (IF c.destructive THEN RuleNodes(g, "schema") ELSE {})

TouchesData(c) == "schema" \in c.areas \/ c.destructive

----

\* in: [findings (open ones), graph, quality, analyzed, changes, vulnerabilities,
\* age (days since the scan)]; a change carries whether it is newer than the scan.
Has(findings, P(_)) == \E f \in findings : P(f)

SecurityAt(in, severity) == Has(in.findings, LAMBDA f : f.category = "security" /\ f.severity = severity)
\* Mutant: only the reliability categories.
ReliabilityCriticals(in) ==
    Has(in.findings, LAMBDA f : DimensionFor(f.category) = "reliability" /\ f.severity = "critical")

OtherCriticals(in) == Has(in.findings, LAMBDA f : f.category # "security" /\ f.severity = "critical")
VulnerableAt(in, severity) == \E v \in in.vulnerabilities : v.severity = severity
ChangedAt(in, risk) == \E c \in in.changes : ChangeRisk(c) = risk
NoBackup(in) == Has(in.findings, LAMBDA f : f.category = "backup")
SpofAtLeastHigh(in) == Has(in.findings, LAMBDA f : f.category = "spof" /\ SeverityOrder[f.severity] >= 3)

Item(b, area, severity) == IF b THEN {[area |-> area, severity |-> severity]} ELSE {}

\* Two items of one area and severity are told apart by the check that made them.
Blockers(in) ==
    Item(SecurityAt(in, "critical"), "security", "critical")
      \cup Item(VulnerableAt(in, "critical"), "dependency", "critical")
      \cup Item(OtherCriticals(in), "reliability", "critical")
      \cup Item(NoBackup(in) /\ \E c \in in.changes : TouchesData(c), "reliability", "high")
      \cup Item(ChangedAt(in, "critical"), "change", "critical")

Warnings(in) ==
    Item(~SecurityAt(in, "critical") /\ SecurityAt(in, "high"), "security", "high")
      \cup Item(~VulnerableAt(in, "critical") /\ VulnerableAt(in, "high"), "dependency", "high")
      \cup Item(SpofAtLeastHigh(in), "reliability", "high")
      \cup Item(NoBackup(in) /\ ~\E c \in in.changes : TouchesData(c), "backup", "high")
      \cup Item(~ChangedAt(in, "critical") /\ ChangedAt(in, "high"), "change", "high")
      \cup Item(\E c \in in.changes : c.newDeps /\ \E d \in in.changes : d.afterScan,
                "coverage", "medium")
      \cup Item(in.age > 7, "age", "medium")

Verdict(in) ==
    CASE ~in.analyzed -> "review"
      [] in.analyzed /\ Blockers(in) # {} -> "blocked"
      [] OTHER -> IF Warnings(in) # {} THEN "review" ELSE "ready"

ReadinessScore(in) ==
    IF ~in.analyzed THEN 0
    ELSE Clamp(100 - MapThenSumSet(LAMBDA b : IF b.severity = "critical" THEN 34 ELSE 22, Blockers(in))
                   - MapThenSumSet(LAMBDA w : IF w.severity = "high" THEN 10 ELSE 5, Warnings(in)),
               0, 100)

DimensionAt(in, d, severity) == Has(OfDimension(in.findings, d), LAMBDA f : f.severity = severity)

\* The gate of one risk dimension.
Gate(in, d) ==
    CASE ~Analyzed(in, d) -> "warning"
      [] Analyzed(in, d) /\ DimensionAt(in, d, "critical") -> "fail"
      [] OTHER -> IF DimensionAt(in, d, "high") THEN "warning" ELSE "pass"

CriticalRisksGate(in) ==
    CASE \E b \in Blockers(in) : b.severity = "critical" -> "fail"
      [] OTHER -> IF Blockers(in) # {} THEN "warning" ELSE "pass"

ChangesGate(in) ==
    CASE ChangedAt(in, "critical") -> "fail"
      [] OTHER -> IF ChangedAt(in, "high") THEN "warning" ELSE "pass"

\* No gate at all before the first scan.
Gates(in) ==
    IF ~in.analyzed THEN {}
    ELSE {Gate(in, d) : d \in Dimensions} \cup {CriticalRisksGate(in), ChangesGate(in)}
====
