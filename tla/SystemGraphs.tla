---- MODULE SystemGraphs ----
(***************************************************************************)
(* The system model the engines reason over (packages/shared/src/model.ts) *)
(* and the graph algorithms they share (graph.ts).                         *)
(*                                                                         *)
(* A graph is a record of a set of nodes and a set of edges [from, to,     *)
(* crit].  The code's find and sort-then-first depend on the order of the  *)
(* list of nodes: at says where a node stands in it, the number of the     *)
(* fragment that brought it first and its place there.  Optional booleans  *)
(* are the strings of Tri, so that "not known" is a value of its own;      *)
(* criticality is in tenths.                                               *)
(***************************************************************************)
EXTENDS Integers, Sequences, FiniteSets

NodeKinds == {"frontend", "api", "service", "database", "cache", "queue",
              "external_api", "cdn", "dns", "storage", "ai_model", "ai_agent",
              "vector_store"}

AiKinds == {"ai_model", "ai_agent", "vector_store"}

Tri == {"yes", "no", "unknown"}

\* A node of the given id and kind of which nothing else is known.
PlainNode(id, kind) ==
    [id |-> id, at |-> <<0, 0>>, kind |-> kind, provider |-> "none", region |-> "none",
     redundant |-> "unknown", hasBackup |-> "unknown",
     hasRateLimit |-> "unknown", hasAuth |-> "unknown",
     spof |-> FALSE, estimated |-> FALSE]

NodeIds(g) == {n.id : n \in g.nodes}
NodeOf(g, id) == CHOOSE n \in g.nodes : n.id = id
OfKind(g, kinds) == {n \in g.nodes : n.kind \in kinds}

Before(a, b) == a.at[1] < b.at[1] \/ (a.at[1] = b.at[1] /\ a.at[2] <= b.at[2])
First(S) == CHOOSE a \in S : \A b \in S : Before(a, b)
Last(S) == CHOOSE b \in S : \A a \in S : Before(a, b)

OutgoingEdges(g, id) == {e \in g.edges : e.from = id}
IncomingEdges(g, id) == {e \in g.edges : e.to = id}

----

CriticalThreshold == 8

\* The ends that a failure of the nodes of S reaches in one step.
Upstream(g, S) ==
    {e.from : e \in {d \in g.edges : d.crit >= CriticalThreshold /\ d.to \in S}}

\* The while loop of failureImpact: propagate until nothing changes.
FailureImpact(g, failed) ==
    LET down[S \in SUBSET (NodeIds(g) \cup failed)] ==
            IF Upstream(g, S) \subseteq S
            THEN S
            ELSE down[S \cup Upstream(g, S)]
    IN  down[failed]

ReachableFrom(g, roots, removed) ==
    LET next(S) == {e.to : e \in {d \in g.edges : d.from \in S /\ d.to \notin removed}}
        seen[S \in SUBSET (NodeIds(g) \cup roots)] ==
            IF next(S) \subseteq S THEN S ELSE seen[S \cup next(S)]
    IN  seen[roots \ removed]

Entrypoints(g) ==
    LET tagged == {n.id : n \in {m \in g.nodes : m.kind \in {"frontend", "api"}}}
    IN  IF tagged # {}
        THEN tagged
        ELSE {id \in NodeIds(g) : IncomingEdges(g, id) = {}}

\* Mutant: only what was tagged, whatever the failure of n takes down.
IsTaggedSpof(g, n) == n.redundant # "yes" /\ n.spof

IsSpof(g, n) ==
    /\ n.id \notin Entrypoints(g)
    /\ n.redundant # "yes"
    /\ n.spof \/ Cardinality(FailureImpact(g, {n.id})) > 1

SinglePointsOfFailure(g) == {n \in g.nodes : IsSpof(g, n)}

----

\* Edges join two different nodes of the graph, one edge for a pair, and an
\* id names one node.
WellFormed(g) ==
    /\ \A m, n \in g.nodes : m.id = n.id => m = n
    /\ \A e \in g.edges : {e.from, e.to} \subseteq NodeIds(g)
    /\ \A d, e \in g.edges : (d.from = e.from /\ d.to = e.to) => d = e
====
