---- MODULE MCAssessment ----
EXTENDS Assessment

Repo(name, frontend, api, host, kubernetes, rateLimit, auth, services, ai) ==
    [name |-> name, frontend |-> frontend, api |-> api, host |-> host,
     kubernetes |-> kubernetes, rateLimit |-> rateLimit, auth |-> auth,
     services |-> services, ai |-> ai]

Ai(id, kind) == [id |-> id, kind |-> kind]

Shop == Repo("shop", TRUE, TRUE, "vercel", FALSE, TRUE, TRUE,
             {"postgres", "redis", "stripe"}, <<>>)
Jobs == Repo("jobs", FALSE, FALSE, "none", TRUE, FALSE, FALSE, {"supabase-db", "queue"},
             <<Ai("ai-openai", "ai_model"), Ai("ai-agent", "ai_agent"), Ai("ai-openai", "ai_model")>>)
Site == Repo("site", TRUE, FALSE, "vercel", FALSE, FALSE, FALSE, {"cloudflare", "s3"}, <<>>)

Vercel == [provider |-> "vercel", region |-> "fra",
           services |-> << [PlainNode("vercel-shop", "frontend") EXCEPT !.redundant = "yes"],
                           PlainNode("vercel-fn", "api") >>]
Aws == [provider |-> "aws", region |-> "fra",
        services |-> << [PlainNode("rds", "database") EXCEPT !.redundant = "no"],
                        [PlainNode("bucket", "storage") EXCEPT !.region = "iad"] >>]

\* What a customer declared: names of their own, one of them the code's Postgres
\* and one of them a provider's database.
Declared == [provider |-> "manual", region |-> "fra",
             services |-> << PlainNode("postgres", "service"),
                             PlainNode("db-supabase-main", "database") >>]

Db(provider, hasBackup) ==
    [provider |-> provider, slug |-> "main", region |-> "iad", redundant |-> "unknown", hasBackup |-> hasBackup]

MCRepoLists == {<<Shop, Jobs>>, <<Jobs, Site>>, <<Site>>}
MCCloudLists == {<<>>, <<Vercel, Aws>>, <<Declared>>}
MCDatabaseLists == {<<>>, <<Db("supabase", "no"), Db("neon", "unknown")>>}

Issue(category, severity, weight, rule, confidence) ==
    [category |-> category, severity |-> severity, weight |-> weight, title |-> rule,
     node |-> "none", rule |-> rule, file |-> "app", line |-> 1, confidence |-> confidence]

Advisory == [id |-> "GHSA", severity |-> "critical"]

MCCodes ==
    { [findings |-> {Issue("quality", "low", 4, "todo", "heuristic"),
                     Issue("ai_security", "critical", 20, "prompt", "high")},
       vulns |-> {}, quality |-> 30],
      [findings |-> {Issue("security", "critical", 20, "secret", "high"),
                     Issue("security", "critical", 20, "eval", "verified"),
                     Issue("security", "high", 14, "xss", "heuristic")},
       vulns |-> {Advisory}, quality |-> 60] }

Change(areas, manifest, newDeps, destructive, lines) ==
    [areas |-> areas, manifest |-> manifest, newDeps |-> newDeps, destructive |-> destructive,
     hint |-> "none", lines |-> lines, afterScan |-> FALSE]

MCCommits == { Change({"schema"}, FALSE, FALSE, TRUE, 40),
               Change({"auth", "payments"}, TRUE, TRUE, FALSE, 700) }

MCOverlays == { [removed |-> {"redis"}, overrides |-> [postgres |-> "yes"],
                 added |-> {PlainNode("mailer", "external_api")},
                 cut |-> {<<"shop-api", "stripe">>}, drawn |-> {<<"shop-api", "mailer">>}] }
====
