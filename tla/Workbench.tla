------------------------------ MODULE Workbench ------------------------------
(***************************************************************************)
(* Working on the findings of one project: a member previews an AI fix in  *)
(* the code view and pushes it to the default branch, runs a deep AI scan  *)
(* that is merged into the latest scan, re-tests the open findings in a    *)
(* validation run, or exports a pull request.  GitHub and the AI provider  *)
(* are external.  A file is the set of marks it carries: the issues in it  *)
(* and the edits the team pushed to it.  The plan's fix quota is in Quotas.*)
(***************************************************************************)
EXTENDS Naturals, Sequences, FiniteSetsExt

CONSTANTS
    Members,      \* browser tabs of the members of the organization
    Files, Repositories, \* files of the connected repositories
    FirstRepo,    \* ctx.repos[0]: the first selected repository
    RepoOf,       \* file -> repository
    Issues,       \* located flaws
    At,           \* issue -> file
    AiIssues,     \* the issues only the deep scan finds
    Secrets,      \* the committed credentials among the issues
    Verifiable,   \* the secrets whose rule has a verifier
    Infra,        \* findings of a scan that no code issue stands for
    Recomputed,   \* those of topology and of dependencies: read off the graph
    Edits,        \* pushes of the team
    MaxScans,     \* bound: scans of the project
    MaxBranches,  \* bound: branches of pull requests
    Nothing

Marks == Issues \cup Edits

ASSUME WorkbenchAssumption ==
    /\ FirstRepo \in Repositories /\ RepoOf \in [Files -> Repositories] /\ At \in [Issues -> Files]
    /\ AiIssues \subseteq Issues /\ Secrets \subseteq Issues /\ Verifiable \subseteq Secrets
    /\ Issues \cap Edits = {} /\ Infra \cap Issues = {} /\ Recomputed \subseteq Infra
    /\ Nothing \notin Issues /\ MaxScans \in Nat /\ MaxBranches \in Nat

VARIABLES
    content,   \* the default branches: file -> marks
    rows,      \* the project's scan rows, oldest first
    triaged,   \* findings with a suppressing triage status
    sel,       \* the region selected in a member's code view
    gen,       \* a fix being generated
    fix,       \* the fix a view shows
    push,      \* a commit between its sha lookup and its PUT
    deep,      \* a deep scan in progress
    run,       \* the validation run in progress
    stored,    \* the checks of the last stored validation run
    branches   \* branches pull requests were made on

repository == <<content, branches>>
views == <<sel, gen, fix, push>>
validation == <<run, stored>>
workbenchVars == <<content, rows, triaged, sel, gen, fix, push, deep, run, stored, branches>>

(* The whole file the AI returned for an issue, made from what was read    *)
(* (base).  Observed: since, the marks of the file changed after the read. *)
Drafts == [issue : Issues, base : SUBSET Marks, since : SUBSET Marks]
Fixed(d) == d.base \ {d.issue}

ScanRows == [status : {"running", "succeeded", "failed"}, issues : SUBSET Issues,
         findings : SUBSET (Issues \cup Infra)]
Outcomes == {"confirmed", "resolved", "inconclusive"}
Checks == [finding : Issues \cup Infra, outcome : Outcomes]

(* The types of the files, the views, the scan rows and the runs.          *)
WorkbenchTypeOK ==
    /\ content \in [Files -> SUBSET Marks]
    /\ rows \in Seq(ScanRows)
    /\ triaged \subseteq Issues \cup Infra
    /\ sel \in [Members -> Issues \cup {Nothing}]
    /\ gen \in [Members -> Drafts \cup {Nothing}]
    /\ fix \in [Members -> Drafts \cup {Nothing}]
    /\ push \in [Members -> [region : Issues, draft : Drafts, sha : SUBSET Marks] \cup {Nothing}]
    /\ deep \in [Members -> [row : 1 .. Len(rows), snap : SUBSET (Issues \cup Recomputed),
                             found : SUBSET Issues, todo : SUBSET Files, stale : BOOLEAN] \cup {Nothing}]
    /\ run \in [todo : SUBSET (Issues \cup Infra), checks : SUBSET Checks] \cup {Nothing}
    /\ stored \subseteq Checks
    /\ branches \subseteq [region : Issues, repo : Repositories,
                           reached : {"branch", "committed", "open"}]

WorkbenchInit ==
    /\ content = [f \in Files |-> {i \in Issues : At[i] = f}]
    /\ rows = << >>
    /\ triaged = {}
    /\ sel = [m \in Members |-> Nothing] /\ gen = [m \in Members |-> Nothing]
    /\ fix = [m \in Members |-> Nothing] /\ push = [m \in Members |-> Nothing]
    /\ deep = [m \in Members |-> Nothing]
    /\ run = Nothing /\ stored = {} /\ branches = {}

-----------------------------------------------------------------------------
(* Changes of a file, and what the drafts of it that are open have missed. *)

Missed(d, f, new) ==
    IF d = Nothing \/ At[d.issue] # f THEN d
    ELSE [d EXCEPT !.since = @ \cup SymDiff(content[f], new)]

Write(f, new) ==
    /\ content' = [content EXCEPT ![f] = new]
    /\ gen' = [m \in Members |-> Missed(gen[m], f, new)]

(* The team pushes an edit, or repairs an issue, outside the product.      *)
TeamPush(f) ==
    /\ \/ \E e \in Edits : (\A g \in Files : e \notin content[g]) /\ Write(f, content[f] \cup {e})
       \/ \E i \in Issues \cap content[f] : Write(f, content[f] \ {i})
    /\ fix' = [m \in Members |-> Missed(fix[m], f, content'[f])]
    /\ UNCHANGED <<rows, triaged, sel, push, deep, validation, branches>>

-----------------------------------------------------------------------------
(* The code view: useCodeFix of a tab, and the endpoints it calls.         *)

Busy(m) == deep[m] # Nothing

(* Selecting a region or a file resets the fix; a request goes on.         *)
Select(m, i) ==
    /\ ~Busy(m) /\ sel[m] # i
    /\ sel' = [sel EXCEPT ![m] = i]
    /\ fix' = [fix EXCEPT ![m] = Nothing]
    /\ UNCHANGED <<repository, rows, triaged, gen, push, deep, validation>>

(* POST code/fix reads the file; the model then works on what was read.    *)
Generate(m) ==
    /\ sel[m] # Nothing /\ gen[m] = Nothing /\ push[m] = Nothing
    /\ gen' = [gen EXCEPT ![m] = [issue |-> sel[m], base |-> content[At[sel[m]]], since |-> {}]]
    /\ fix' = [fix EXCEPT ![m] = Nothing]
    /\ UNCHANGED <<repository, rows, triaged, sel, push, deep, validation>>

(* The answer is shown, whatever is selected by now; or there is none.     *)
Answer(m) ==
    /\ gen[m] # Nothing
    /\ gen' = [gen EXCEPT ![m] = Nothing]
    /\ \/ fix' = [fix EXCEPT ![m] = gen[m]]
       \/ UNCHANGED fix
    /\ UNCHANGED <<repository, rows, triaged, sel, push, deep, validation>>

(* POST code/fix/commit: the body is the selected region's, the content is *)
(* the fix that is shown; the server looks up the file's current sha.      *)
CommitFix(m) ==
    /\ sel[m] # Nothing /\ fix[m] # Nothing /\ push[m] = Nothing /\ gen[m] = Nothing
    /\ push' = [push EXCEPT ![m] = [region |-> sel[m], draft |-> fix[m],
                                    sha |-> content[At[sel[m]]]]]
    /\ UNCHANGED <<repository, rows, triaged, sel, gen, fix, deep, validation>>

(* GitHub writes the file only if its sha is still the one looked up.      *)
(* Mutant: the sha is not sent.                                            *)
AcceptedAlways(p) == p # Nothing
Accepted(p) == content[At[p.region]] = p.sha

(* The PUT lands.  The view shows the commit's link; if the response was   *)
(* lost it shows an error and keeps the fix for another try.               *)
Put(m) ==
    /\ push[m] # Nothing /\ Accepted(push[m])
    /\ LET f == At[push[m].region]
           new == Fixed(push[m].draft)
           missed == [n \in Members |-> Missed(fix[n], f, new)]
       IN  /\ Write(f, new)
           /\ \/ fix' = [missed EXCEPT ![m] = Nothing]
              \/ fix' = missed
    /\ push' = [push EXCEPT ![m] = Nothing]
    /\ UNCHANGED <<rows, triaged, sel, deep, validation, branches>>

(* The PUT is refused (the sha moved, no write access) or never arrives.   *)
PutFails(m) ==
    /\ push[m] # Nothing
    /\ push' = [push EXCEPT ![m] = Nothing]
    /\ UNCHANGED <<repository, rows, triaged, sel, gen, fix, deep, validation>>

(* codeFixPr: the fix of a region, on a new branch of the first repository.*)
(* A failure between two calls leaves what was reached.                    *)
OpenPullRequest(i) ==
    /\ Cardinality(branches) < MaxBranches
    /\ \E to \in {"branch", "committed", "open"} :
          branches' = branches \cup {[region |-> i, repo |-> FirstRepo, reached |-> to]}
    /\ UNCHANGED <<content, rows, triaged, views, deep, validation>>

-----------------------------------------------------------------------------
(* Scans, and the deep scan that is merged into the latest one.            *)

(* What the graph of a scan row holds: its code issues, and what the       *)
(* topology and dependency findings are computed from.                     *)
OfGraph(row) == row.issues \cup (row.findings \cap Recomputed)

Newest(S) == CHOOSE k \in S : \A j \in S : j <= k
Succeeded == {k \in DOMAIN rows : rows[k].status = "succeeded"}
Latest == Newest(IF Succeeded = {} THEN DOMAIN rows ELSE Succeeded)

StartScan ==
    /\ Len(rows) < MaxScans
    /\ rows' = Append(rows, [status |-> "running", issues |-> {}, findings |-> {}])
    /\ UNCHANGED <<repository, triaged, views, deep, validation>>

(* Observed: the deep scans that read row k before it changed.             *)
Overtaken(k) ==
    [m \in Members |-> IF deep[m] = Nothing \/ deep[m].row # k THEN deep[m]
                       ELSE [deep[m] EXCEPT !.stale = TRUE]]

FinishScan(k) ==
    /\ rows[k].status = "running"
    /\ \/ LET found == {i \in Issues \ AiIssues : i \in content[At[i]]}
          IN  rows' = [rows EXCEPT ![k] = [status |-> "succeeded", issues |-> found,
                                           findings |-> found \cup Infra]]
       \/ rows' = [rows EXCEPT ![k].status = "failed"]
    /\ deep' = Overtaken(k)
    /\ UNCHANGED <<repository, triaged, views, validation>>

DeepScanStart(m) ==
    /\ rows # << >> /\ ~Busy(m) /\ sel[m] = Nothing
    /\ deep' = [deep EXCEPT ![m] =
                  [row |-> Latest, snap |-> OfGraph(rows[Latest]), found |-> {},
                   todo |-> {f \in Files : RepoOf[f] = FirstRepo}, stale |-> FALSE]]
    /\ UNCHANGED <<repository, rows, triaged, views, validation>>

(* The model flags some of the issues a file has; none if it is unreadable.*)
DeepScanFile(m, f) ==
    /\ Busy(m) /\ f \in deep[m].todo
    /\ \E flagged \in SUBSET {i \in AiIssues : At[i] = f /\ i \in content[f]} :
          deep' = [deep EXCEPT ![m].found = @ \cup flagged, ![m].todo = @ \ {f}]
    /\ UNCHANGED <<repository, rows, triaged, views, validation>>

(* Mutant: what the scan had found is not merged.                          *)
FoundOnly(d) == d.found
Merged(d) == d.snap \cup d.found

(* The findings are recomputed from the graph that was read and the merged *)
(* issues: what a collector listed beside them is gone.                    *)
DeepScanSave(m) ==
    /\ Busy(m) /\ deep[m].todo = {}
    /\ LET k == deep[m].row
       IN  /\ rows' = [rows EXCEPT ![k].issues = Merged(deep[m]) \cap Issues,
                                   ![k].findings = Merged(deep[m])]
           /\ deep' = [Overtaken(k) EXCEPT ![m] = Nothing]
    /\ UNCHANGED <<repository, triaged, views, validation>>

DeepScanFails(m) ==
    /\ Busy(m)
    /\ deep' = [deep EXCEPT ![m] = Nothing]
    /\ UNCHANGED <<repository, rows, triaged, views, validation>>

-----------------------------------------------------------------------------
(* Triage and validation runs.                                             *)

TriageFinding(f) ==
    /\ triaged' = SymDiff(triaged, {f})
    /\ UNCHANGED <<repository, rows, views, deep, validation>>

ValidationStart ==
    /\ run = Nothing /\ Succeeded # {}
    /\ run' = [todo |-> rows[Newest(Succeeded)].findings \ triaged, checks |-> {}]
    /\ UNCHANGED <<repository, rows, triaged, views, deep, stored>>

(* What a check of a finding may record.  A secret that is still there     *)
(* also counts as resolved when its provider is down, or when its rule has *)
(* no verifier; a code check looks for text on a line whose number other   *)
(* edits of the file have moved.                                           *)
SecretChecks(x) ==
    {"inconclusive", "resolved"} \cup
    (IF x \in content[At[x]] /\ x \in Verifiable THEN {"confirmed"} ELSE {})

CodeChecks(x) ==
    {"inconclusive", "confirmed"} \cup
    (IF content[At[x]] = {i \in Issues : At[i] = At[x]} THEN {} ELSE {"resolved"})

CheckFinding(x) ==
    /\ run # Nothing /\ x \in run.todo
    /\ \E outcome \in IF x \in Secrets THEN SecretChecks(x)
                      ELSE IF x \in Issues THEN CodeChecks(x) ELSE {"inconclusive"} :
          run' = [todo |-> run.todo \ {x},
                  checks |-> run.checks \cup {[finding |-> x, outcome |-> outcome]}]
    /\ UNCHANGED <<repository, rows, triaged, views, deep, stored>>

ValidationEnd ==
    /\ run # Nothing /\ run.todo = {}
    /\ stored' = run.checks /\ run' = Nothing
    /\ UNCHANGED <<repository, rows, triaged, views, deep>>

WorkbenchNext ==
    \/ \E f \in Files : TeamPush(f)
    \/ \E m \in Members, i \in Issues : Select(m, i)
    \/ \E m \in Members : \/ Generate(m) \/ Answer(m) \/ CommitFix(m)
                          \/ Put(m) \/ PutFails(m)
    \/ \E i \in Issues : OpenPullRequest(i)
    \/ StartScan
    \/ \E k \in DOMAIN rows : FinishScan(k)
    \/ \E m \in Members : DeepScanStart(m) \/ DeepScanSave(m) \/ DeepScanFails(m)
    \/ \E m \in Members, f \in Files : DeepScanFile(m, f)
    \/ \E f \in Issues \cup Infra : TriageFinding(f)
    \/ \E x \in Issues \cup Infra : CheckFinding(x)
    \/ ValidationStart \/ ValidationEnd

WorkbenchSpec == WorkbenchInit /\ [][WorkbenchNext]_workbenchVars

-----------------------------------------------------------------------------
(* A fix pushed to the file it was generated for overwrites only what has  *)
(* changed since the file was read for it: marks the reviewer cannot have  *)
(* seen.  What lands between the sha lookup and the PUT survives, also     *)
(* when a refused push is tried again (commitFile, useCodeFix).            *)
PushOverwritesOnlyUnseen ==
    [][\A m \in Members : \A p \in {push[m]} \ {Nothing} :
          push'[m] = Nothing /\ content' # content /\ At[p.region] = At[p.draft.issue]
            => SymDiff(content[At[p.region]], content'[At[p.region]])
                 \subseteq {p.draft.issue} \cup p.draft.since]_workbenchVars

(* A code issue, or a finding read off the graph, leaves a scan row only   *)
(* when the scan itself finishes over an early merge, or when a deep scan  *)
(* saves a row that changed since it read it (deepScan's read, minutes of  *)
(* AI calls, then a blind write).                                          *)
IssuesLostOnlyByOverlap ==
    [][\A k \in DOMAIN rows :
          \/ OfGraph(rows[k]) \subseteq OfGraph(rows'[k])
          \/ rows[k].status = "running" /\ rows'[k].status # "running"
          \/ \E m \in Members : /\ deep[m] # Nothing /\ deep'[m] = Nothing
                                /\ deep[m].row = k /\ deep[m].stale]_workbenchVars
=============================================================================
