---------------------------- MODULE MCCollection ----------------------------
(* A model-checking instance of Collection: a GitHub connection with two   *)
(* repositories and a Vercel account with two projects, the second of them *)
(* linked to a repository.  The source file holds two issues, the first of *)
(* them a secret; the test file, listed first, is beyond the budget of     *)
(* reads.  The lockfile and the key are cut off their listings: the first  *)
(* is read all the same, the other is never seen.                          *)
EXTENDS Collection, TLC

MCProvider == "g" :> "github" @@ "v" :> "vercel"
MCSelection == "g" :> <<"a", "b">> @@ "v" :> << >>
MCFiles == {"source", "test", "lockfile", "Dockerfile", "key", "linked", "other"}
MCTree == "a" :> <<"test", "source", "lockfile">> @@ "b" :> <<"Dockerfile", "key">>
          @@ "v" :> <<"other", "linked">>
MCReach == "a" :> 2 @@ "b" :> 1 @@ "v" :> 2
MCKind == [f \in MCFiles |-> IF f = "Dockerfile" THEN "docker"
                             ELSE IF f \in {"source", "test"} THEN f ELSE "other"]
MCAt == "secret" :> "source" @@ "issue" :> "source"
        @@ "advisory" :> "lockfile" @@ "root" :> "Dockerfile" @@ "plain" :> "linked"
        @@ "committed" :> "key"
MCFlaws == DOMAIN MCAt
MCClass == "secret" :> "secret" @@ "issue" :> "sast"
           @@ "advisory" :> "dependency" @@ "root" :> "iac" @@ "plain" :> "config"
           @@ "committed" :> "secretFile"
MCLine == [x \in MCFlaws |-> IF x = "issue" THEN 2 ELSE 1]
MCPlans == "starter" :> [features |-> {}, maxRepos |-> 1]
           @@ "growth" :> [features |-> {"sca", "codeAudit"}, maxRepos |-> 1]
           @@ "pro" :> [features |-> Features, maxRepos |-> 2]
=============================================================================
