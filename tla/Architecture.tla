---- MODULE Architecture ----
(***************************************************************************)
(* From what the collectors read to the graph the engines are given:       *)
(* scanner/adapters.ts (one fragment for each source), scanner/fragment.ts *)
(* (the merge), scanner/scan.ts (estimated twins, orphans, AI components)  *)
(* and overlay.ts (the customer's corrections).                            *)
(*                                                                         *)
(* A repository is a record of what the fragment is made from: frameworks, *)
(* hosting and the tokens that matched, never the text they were found in. *)
(***************************************************************************)
EXTENDS SystemGraphs

\* The rows of SERVICE_HINTS that differ in what they put into the graph; the
\* first places of a repository's nodes are its frontend's and its API's.
Hint(place, id, kind, provider, backup, rate, redundant) ==
    [PlainNode(id, kind) EXCEPT !.at = <<0, place>>, !.provider = provider,
        !.hasBackup = backup, !.hasRateLimit = rate, !.hasAuth = rate,
        !.redundant = redundant, !.estimated = TRUE]

ServiceHints ==
    { Hint(3, "postgres", "database", "none", "no", "unknown", "no"),
      Hint(4, "supabase-db", "database", "supabase", "yes", "unknown", "unknown"),
      Hint(5, "redis", "cache", "none", "unknown", "unknown", "no"),
      Hint(6, "queue", "queue", "none", "unknown", "unknown", "no"),
      Hint(7, "stripe", "external_api", "stripe", "unknown", "yes", "unknown"),
      Hint(8, "cloudflare", "cdn", "cloudflare", "unknown", "unknown", "yes"),
      Hint(9, "s3", "storage", "aws", "yes", "unknown", "yes"),
      Hint(10, "elasticsearch", "service", "none", "unknown", "unknown", "no") }

EdgeCriticality(kind) ==
    CASE kind = "database" -> 10
      [] kind = "cdn" -> 9
      [] kind \in {"queue", "storage"} -> 7
      [] OTHER -> 6

Edge(from, to, crit) == [from |-> from, to |-> to, crit |-> crit]

Yes(b) == IF b THEN "yes" ELSE "unknown"

----

FrontendId(r) == r.name \o "-frontend"
ApiId(r) == r.name \o "-api"
HasApi(r) == r.api \/ ~r.frontend

FrontendNode(r) ==
    [PlainNode(FrontendId(r), "frontend") EXCEPT
        !.at = <<0, 1>>, !.provider = r.host, !.estimated = TRUE,
        !.redundant = Yes(r.host = "vercel")]

ApiNode(r) ==
    [PlainNode(ApiId(r), "api") EXCEPT
        !.at = <<0, 2>>, !.provider = r.host, !.estimated = TRUE,
        !.hasRateLimit = Yes(r.rateLimit), !.hasAuth = Yes(r.auth),
        !.redundant = Yes(r.kubernetes)]

Backing(r) == {h \in ServiceHints : h.id \in r.services}

RepoFragment(r) ==
    LET source == IF HasApi(r) THEN ApiId(r) ELSE FrontendId(r)
    IN  [nodes |-> (IF r.frontend THEN {FrontendNode(r)} ELSE {})
                     \cup (IF HasApi(r) THEN {ApiNode(r)} ELSE {}) \cup Backing(r),
         edges |-> (IF r.frontend /\ HasApi(r)
                    THEN {Edge(FrontendId(r), ApiId(r), 10)} ELSE {})
                     \cup {Edge(source, h.id, EdgeCriticality(h.kind)) : h \in Backing(r)}]

\* A hosting account: its resources, nothing of how they depend on each other.
CloudNode(c, i) ==
    LET s == c.services[i]
    IN  [PlainNode(s.id, s.kind) EXCEPT
           !.at = <<0, i>>, !.provider = c.provider, !.redundant = s.redundant,
           !.region = IF s.region = "none" THEN c.region ELSE s.region]

CloudFragment(c) ==
    [nodes |-> {CloudNode(c, i) : i \in DOMAIN c.services}, edges |-> {}]

\* slug: what the conversion leaves of the name the database has at its provider.
DatabaseId(d) == "db-" \o d.provider \o "-" \o d.slug

DatabaseNode(d) ==
    [PlainNode(DatabaseId(d), "database") EXCEPT
        !.provider = d.provider, !.region = d.region, !.hasBackup = d.hasBackup,
        !.redundant = IF d.redundant = "unknown" THEN "no" ELSE d.redundant]

DatabaseFragment(d) == [nodes |-> {DatabaseNode(d)}, edges |-> {}]

BillingFragment ==
    [nodes |-> {[PlainNode("stripe", "external_api") EXCEPT
                   !.provider = "stripe", !.hasRateLimit = "yes", !.hasAuth = "yes"]},
     edges |-> {}]

----

\* What an attribute is while nobody knows it.
Unset == {"none", "unknown"}

\* The less safe value wins, a source that does not know has no say.
Agreed(C, attr) ==
    LET said == {n[attr] : n \in C} \ {"unknown"}
    IN  IF said = {} THEN "unknown" ELSE IF said = {"yes"} THEN "yes" ELSE "no"

Latest(C, attr) ==
    LET known == {n \in C : n[attr] # "none"}
    IN  IF known = {} THEN "none" ELSE Last(known)[attr]

\* One node of all that the fragments say of an id, where the first of them stood.
MergeNode(id, C) ==
    [id |-> id, at |-> First(C).at, kind |-> Last(C).kind,
     provider |-> Latest(C, "provider"), region |-> Latest(C, "region"),
     redundant |-> Agreed(C, "redundant"), hasBackup |-> Agreed(C, "hasBackup"),
     hasRateLimit |-> Agreed(C, "hasRateLimit"), hasAuth |-> Agreed(C, "hasAuth"),
     spof |-> \E n \in C : n.spof, estimated |-> \E n \in C : n.estimated]

MergeNodes(nodes) ==
    {MergeNode(id, {n \in nodes : n.id = id}) : id \in {n.id : n \in nodes}}

\* The highest criticality given to a pair wins.
Strongest(edges) ==
    {e \in edges : \A d \in edges : (d.from = e.from /\ d.to = e.to) => d.crit <= e.crit}

\* Fragment after fragment, each in its own order.
PlacedAt(f, nodes) == {[n EXCEPT !.at = <<f, n.at[2]>>] : n \in nodes}
Contributed(frags) == UNION {PlacedAt(f, frags[f].nodes) : f \in DOMAIN frags}

MergeFragments(frags) ==
    LET ids == {n.id : n \in Contributed(frags)}
    IN  [nodes |-> MergeNodes(Contributed(frags)),
         edges |-> Strongest({e \in UNION {frags[f].edges : f \in DOMAIN frags} :
                                e.from # e.to /\ {e.from, e.to} \subseteq ids})]

----

SingletonKinds == {"frontend", "api"}

Verified(g) == {n \in g.nodes : ~n.estimated}

\* The verified nodes an estimated node may stand for, the first one wins.
Twins(g, e) ==
    LET same  == {v \in Verified(g) : v.kind = e.kind}
        exact == {v \in same : e.provider # "none" /\ v.provider = e.provider}
    IN  IF exact = {} /\ e.kind \in SingletonKinds /\ Cardinality(same) = 1 THEN same ELSE exact

Twin(g, e) == First(Twins(g, e))
Remapped(g) == {n \in g.nodes : n.estimated /\ Twins(g, n) # {}}
NewId(g, id) == IF \E n \in Remapped(g) : n.id = id THEN Twin(g, NodeOf(g, id)).id ELSE id

\* Mutant: what the code promises wins over what the provider said.
FillEstimated(v, twins, attr) ==
    LET known == {e \in twins : e[attr] \notin Unset}
    IN  IF known = {} THEN v[attr] ELSE First(known)[attr]

\* What the provider did not say is taken from the first twin that knows.
FillGap(v, twins, attr) ==
    LET known == {e \in twins : e[attr] \notin Unset}
    IN  IF v[attr] \notin Unset \/ known = {} THEN v[attr] ELSE First(known)[attr]

Fill(v, twins) ==
    [v EXCEPT !.hasRateLimit = FillGap(v, twins, "hasRateLimit"),
              !.hasAuth = FillGap(v, twins, "hasAuth"),
              !.hasBackup = FillGap(v, twins, "hasBackup"),
              !.redundant = FillGap(v, twins, "redundant"),
              !.region = FillGap(v, twins, "region")]

\* Of the edges that come to join the same two nodes one is kept: the code's is
\* the first of a list whose order is not modelled.
Between(edges, from, to) == CHOOSE d \in edges : d.from = from /\ d.to = to
OnePerPair(edges) == {Between(edges, e.from, e.to) : e \in edges}

DedupeEstimated(g) ==
    LET moved == {Edge(NewId(g, e.from), NewId(g, e.to), e.crit) : e \in g.edges}
    IN  [nodes |-> {Fill(v, {n \in Remapped(g) : Twin(g, n) = v}) : v \in g.nodes \ Remapped(g)},
         edges |-> OnePerPair({e \in moved : e.from # e.to})]

----

BackingKinds == {"database", "cache", "queue", "storage", "external_api"}

\* The api or service node with the most outgoing edges, the first of them.
PrimaryApi(g) ==
    LET apis == OfKind(g, {"api", "service"})
        out(n) == Cardinality(OutgoingEdges(g, n.id))
    IN  First({n \in apis : \A m \in apis : out(m) <= out(n)})

OrphanCriticality(kind) ==
    CASE kind = "database" -> 10 [] kind = "external_api" -> 6 [] OTHER -> 7

Orphans(g) == {m \in g.nodes : m.kind \in BackingKinds /\ IncomingEdges(g, m.id) = {}}

ConnectOrphans(g) ==
    IF OfKind(g, {"api", "service"}) = {} THEN g
    ELSE [nodes |-> g.nodes,
          edges |-> g.edges \cup
             {Edge(PrimaryApi(g).id, n.id, OrphanCriticality(n.kind)) : n \in Orphans(g)}]

\* Of several records of one id the first.
UniqueById(records) == {First({d \in records : d.id = c.id}) : c \in records}

\* A component, [id, kind, at], found in several repositories is one node.
Fresh(g, components) == {c \in UniqueById(components) : c.id \notin NodeIds(g)}

AiNode(c) ==
    [PlainNode(c.id, c.kind) EXCEPT !.at = c.at, !.estimated = TRUE,
        !.hasAuth = Yes(c.kind = "ai_model"), !.hasRateLimit = Yes(c.kind = "ai_model")]

\* Who calls them: the service tier, or the frontends where there is none.
Callers(g) ==
    LET tier == OfKind(g, {"api", "service"})
    IN  {n.id : n \in IF tier # {} THEN tier ELSE OfKind(g, {"frontend"})}

AiEdges(g, fresh) ==
    LET agents == {c \in fresh : c.kind = "ai_agent"}
        agent  == First(agents).id
    IN  IF agents # {}
        THEN {Edge(f, agent, 5) : f \in Callers(g)}
               \cup {Edge(agent, c.id, 8) : c \in {d \in fresh : d.id # agent}}
        ELSE {Edge(f, c.id, 5) : f \in Callers(g), c \in fresh}

AttachAiComponents(g, components) ==
    [nodes |-> g.nodes \cup {AiNode(c) : c \in Fresh(g, components)},
     edges |-> g.edges \cup AiEdges(g, Fresh(g, components))]

Fragments(c) ==
    LET each(F(_), s) == [i \in DOMAIN s |-> F(s[i])]
    IN  each(RepoFragment, c.repos) \o each(CloudFragment, c.clouds)
          \o each(DatabaseFragment, c.databases)
          \o (IF c.billing THEN <<BillingFragment>> ELSE <<>>)

\* The components of a repository; they stand after everything else.
ComponentsOf(c, r) ==
    {[id |-> c.repos[r].ai[i].id, kind |-> c.repos[r].ai[i].kind,
      at |-> <<Len(Fragments(c)) + r, i>>] : i \in DOMAIN c.repos[r].ai}

AiComponents(c) == UNION {ComponentsOf(c, r) : r \in DOMAIN c.repos}

BuildSystemGraph(c) ==
    AttachAiComponents(ConnectOrphans(DedupeEstimated(MergeFragments(Fragments(c)))),
                       AiComponents(c))

----

\* Mutant: the edges of removed nodes stay.
EdgesNotCut(g, o) == {e \in g.edges : <<e.from, e.to>> \notin o.cut}

EdgesKept(g, o) ==
    {e \in g.edges : {e.from, e.to} \cap o.removed = {} /\ <<e.from, e.to>> \notin o.cut}

\* overlay.removed: node ids; overrides: a function from some ids to the
\* backup attribute the customer set; added: nodes; cut and drawn: edges.
ApplyOverlay(g, o) ==
    LET kept  == {n \in g.nodes : n.id \notin o.removed}
        fixed == {IF n.id \in DOMAIN o.overrides
                  THEN [n EXCEPT !.hasBackup = o.overrides[n.id]] ELSE n : n \in kept}
        nodes == fixed \cup {n \in UniqueById(o.added) : n.id \notin {m.id : m \in kept}}
        ids   == {n.id : n \in nodes}
        edges == EdgesKept(g, o)
    IN  [nodes |-> nodes,
         edges |-> edges \cup
            {Edge(p[1], p[2], 10) : p \in {q \in o.drawn : {q[1], q[2]} \subseteq ids
                  /\ ~\E e \in edges : e.from = q[1] /\ e.to = q[2]}}]
====
