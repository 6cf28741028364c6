# Riscly: specifications and proofs

TLA+ models of Riscly (`apps/api`, `apps/web`, `packages/shared`, `prisma`), the
TLC configurations that check them, and TLAPS proofs of what holds for every
size of the system. Paths are relative to the repository; `api/` stands for
`apps/api/src/`, `web/` for `apps/web/`, `shared/` for `packages/shared/src/`.

Riscly is a NestJS API over Postgres, with optional Redis (BullMQ) for
background jobs, Stripe for billing, GitHub and other providers to scan, an LLM
for predictions and fixes, and a Next.js client. API and worker processes are
replicas of one module graph: every process has every service, and the only
state they share is the database, Redis and the outside services. Almost every
handler is a chain of `await`s without a transaction, so what is hard here is
what happens between two awaits: another request, another process, a timeout, or
a death. The engines in `shared/` are pure functions; what is hard about them is
that they tell one story of one graph.

## 1. Inventory

| Component | State | Operations | Hard behaviour | What makes it correct | Module |
|---|---|---|---|---|---|
| Scan producers (`api/scans/scans.module.ts`, `monitoring.service.ts`) | `Scan` rows | start, fan-out, sweep | death between row and job; a sweep in every process | every scan created is worked on | `ScanPipeline` |
| Job queue (`api/jobs`, `api/worker.ts`) | jobs, attempts, locks | enqueue, deliver, time out, retry, redeliver | the timeout, and a lock that expires, leave a handler running; hung calls; stalled jobs; shutdown | one supervised handler; a job always ends | `ScanPipeline` |
| Scan processor (`api/scans/scan.processor.ts`, `alerts.ts`) | a scan's status and result, mails | runScan, alert | retries over finished rows, swallowed store errors, stale prior scan | one lifecycle per scan; mails only what is new | `ScanPipeline` |
| Collectors and audits (`api/scanner`) | none (one scan's collection) | collect, audit, merge | a provider that hangs or fails; limits, and listings cut short; entitlements | a failure costs its own part only | `Collection` |
| Billing (`api/billing`) | organization plan, subscription row, event ids in memory | webhook, confirm, change plan | duplicated, reordered, unsigned and concurrent events; restarts | access follows what is paid | `Billing` |
| Admin console (`api/admin`) | subscription row | suspend, reactivate, reset | races with webhooks | no promise stated | `Billing` |
| Plan limits (`assertCan*`, `assertFixQuota`, `shared/plans.ts`) | counts of rows | check, insert, record usage | check-then-insert, ungated routes, lost usage rows | a bounded overshoot | `Quotas` |
| Sign-in (`api/auth`) | users, organizations, memberships | resolve, reconcile, re-link, provision | first-login races, two identities of one email, slugs that collide, early end | everybody gets one personal workspace | `Tenancy` |
| Invitations, profile (`api/invitations`, `api/orgs`) | invitations, memberships | invite, accept, rename | a token accepted twice, the cap at invite only | a used invitation let somebody in | `Tenancy` |
| Connections, OAuth (`api/connections`, `api/oauth`) | connection rows, states | connect, import at sign-in, choose repositories, callback, fan-out | read-merge-write, check-then-create, state reuse | a choice is undone by an overlap only | `Connections` |
| GitHub, fixes, deep scan, validation (`api/github`, `api/scans/validation.service.ts`, code view) | repository, scan rows, the tab's fix panel | select, generate, push, deep scan, validate, open a pull request | answers for what is not selected any more, blind writes, a repository that moves | a push or merge destroys only what nobody can have seen | `Workbench` |
| Preview, rate limits (`api/preview`, `api/common`) | windows, cache | hit, scan, remember, evict | concurrent scans, expiry, eviction | the quota; fresh answers | `Preview` |
| Graph construction (`shared/scanner`, `overlay.ts`) | none | fragments, merge, orphans, overlay | merge order, twins, dangling edges | well-formed graphs that hide no risk | `SystemGraphs`, `Architecture` |
| Engines (`shared`) | none | score, posture, triage, simulate, price, predict, attack, change, release | fixpoints; engines that disagree | one story of one graph | `Scoring`, `Simulations`, `Releases`, `Assessment` |
| Web client (`web/`) | session, query cache, wizard, billing page | sign in, onboard, guard, buy | stale cached answers, redirect loops, trips to other sites | the guard errs on old news only | `Onboarding`, `Workbench`, `Assessment` |
| Token checks, mail, crypto, health, errors | none | - | none | - | not modelled |

They meet as follows. A scan is produced under a quota (`Quotas`), runs through
the queue (`ScanPipeline`), collects from the connections (`Connections`,
`Collection`), and its graph and findings are what the engines read
(`Architecture`, `Assessment`) and what deep scans, fixes and validation runs
work on (`Workbench`). The tab (`Onboarding`) sees succeeded scans, projects and
the subscription (`Billing`) through requests. Each module takes the others'
effects on it as actions of its environment, so that it can be checked alone.

Every hazard found, with its line and the properties that cover it, is in
`PROJECT.json` under `hazards`; one without a property has a note saying why.

## 2. Modules

In the modules of the API **an action is the code from one `await` to the
next**: its guard is what the code tests after the await, its primed variables
are what it assigns before it awaits again, and a program counter per request
says where it is. Between two actions any other handler may run, and its process
may die. A local that is read after a later await is a variable; one that is not
is a quantified value. Variables under "Observed" record history for the
properties; no guard reads them. Operators marked *Mutant* stand just before the
definition they are a plausible bug of; no specification uses them.

| Module | Models | Uses |
|---|---|---|
| `ScanLifecycle` | the promise of `docs/JOBS.md`: queued, running, one outcome | |
| `ScanPipeline` | producers, queue, processor, deaths; implements `ScanLifecycle` | `INSTANCE ScanLifecycle` |
| `Collection` | one scan's collectors, audits, limits and merge | |
| `Billing` | Stripe, `BillingService`, the console | |
| `Quotas` | the project, scan and fix gates and the routes that insert what they count, with a gate and without | |
| `Tenancy` | `AuthGuard`, `AuthService`, invitations | |
| `Connections` | the GitHub connections of an organization's projects | |
| `Workbench` | fixes, deep scans, validation runs, pull requests | |
| `Preview` | rate limiter, preview quota and cache | |
| `Onboarding` | a browser tab from sign-in to the dashboard | |
| `SystemGraphs` | `model.ts`, `graph.ts` | |
| `Architecture` | from sources to the graph | `EXTENDS SystemGraphs` |
| `Scoring` | findings, triage, scores, posture, recommendations | `EXTENDS SystemGraphs` |
| `Simulations` | failures, attacks, predictions, revenue, scenarios, reports | `EXTENDS Scoring` |
| `Releases` | change analysis, release readiness | `EXTENDS Scoring` |
| `Assessment` | what a project's pages show as scans, triage, commits and time change it | `EXTENDS Architecture, Simulations, Releases` |
| `MC*` | instances for TLC | the module they check |
| `*Proofs` | theorems | the module, `TLAPS` |

**`ScanPipeline`.** `status`, `project`, `result` are columns of `Scan`; row ids
are creation order, which is what `createdAt` is used for. `pending[s]` is the
process between `createScan` and `enqueue`. `jobState`, `attempts`, `stalls`,
`current` are BullMQ's record of the job, and `pc[s][k]`, `host`, `graph`,
`prior` the k-th invocation of `runScan`: an invocation the queue has let go
stays in `pc` while `current` moves on. `MarkRunning` ... `SendAlert` are the
awaits of `runScan` in order, `Throw` and `WriteFailure` its catch block, and
`Hang` is an await of it that never settles. The queue lets a handler go in two
ways: `TimeoutJob` is the lost `Promise.race`, and `Stall` a lock that expires
although its process lives (a worker sets no lock options, so an event loop held
by an audit, or Redis out of reach for 30 seconds, is enough). `Crash` is a death
or a deploy; BullMQ redelivers stalled jobs of either sort up to `MaxStalls`
times. A dead invocation is `dead` if its job comes back and `gone` if not.
`Redis` says which processes use the BullMQ driver; the inline one runs the
handler in the producer's request and has neither timeouts nor redelivery. A scan's result is the set of its alertable
findings, an arbitrary subset of `Findings`.

**`Collection`.** `scan` holds what every collector has left to read and found;
a timer gives up a collector, `Finish` merges the rest. Files and accounts are
sequences in the order of the provider, `Reach` says how much of one its listing
gives (GitLab: 400 entries, GitHub: until it truncates the tree, an account: one
page), a rule is a class of flaw, and the limits of the code on what it reads and
keeps are constants. Repositories, accounts, the plan and the connections' failures
change while the scan runs.

**`Billing`.** One workspace. Stripe's side is a log of the events it issued,
delivered by `Webhook` until acknowledged; `WebhookUnsigned` is the same route
without a secret or a signature header, where any body is taken as an event. A
checkout may complete before it is paid (`Purchase`). `applyEvent` is `Dedupe`
(or the head of `Webhook` and `Confirm`), `ReadExisting`, `WriteOrg`, `WriteSub`, with `seen`
as `processedEvents`. `changePlan` decides from the row it read, calls Stripe
(`UpgradeAtStripe`, `ScheduleAtStripe`) and, for an upgrade, applies an event of
its own. `Allowed` says which parts of the environment take part in a run.
Plans are indices in `PLAN_ORDER`; `trialing` counts as `active`.

**`Quotas`.** One organization with counters for the rows each gate counts, and
a slot per request. `FanOut` asks the gate for each repository like the code;
`MonitorScan`, `PushFix` and the sign-in that imports from GitHub (`SignInLook`,
`SignInProject`, `SignInConnect`) are the routes without a gate; usage rows are
written in the background and may be lost. `started` and `generated` count what
the gates are meant to bound.

**`Tenancy`.** The rows of `User`, `Organization`, `Membership`, `Invitation`
with their unique constraints, which decide every race here (P2002). A slug
is what `Base` makes of a name, or of an email without one, and the first
characters of the user's id (`Prefixes`): names may share a base and users a
prefix, so that slugs collide between names and between users. `Die` ends a
request at any await; `cut` remembers whose. `joined` records whom an
invitation let in, or found in already.

**`Connections`.** `conn` is the connection row of each project (unique by
schema), its metadata the listed and the selected repositories, an empty
selection meaning all; `envelopes` are the signed states that authorize handed
out. `req` holds what a request read before its last await: the merge of
`PATCH /connections/:id`, the refresh of a sign-in, the import that creates a
project, the loop of the onboarding fan-out.

**`Workbench`.** A file is the set of marks it carries: the issues in it and
what the team pushed. `sel`, `gen`, `fix`, `push` are a tab's code view (the
React state of `useCodeFix`), `deep` a deep scan between its read and its write,
`run` a validation run between two of its checks, `branches` the pull requests.
Of a row's findings, `Recomputed` are those a deep scan computes anew from the
graph it read; the others, the collectors' own, it drops.

**`Preview`.** One process. The two sliding windows hold hits, the cache one
entry per repository with its time; `Answer` serves, `Start` counts and scans,
`Store` remembers and evicts.

**`Onboarding`.** `stage`, `pending`, `scanned`, `sub`, `plan` are what the
server holds of two accounts; the rest is one tab: `status` is the React Query
entry `['onboarding-state']` with the fetch in progress (three requests, each an
action), `wiz` the wizard of `/get-started`, `bill` the billing page, `trip` a
visit to GitHub. React Query is external: an answer becomes stale, a page that
shows it fetches it anew when it mounts or is focused, an unused one is dropped,
and the cache survives a sign-out but not a page load. `news` and `noise` record
what changed since an answer, or a fetch, began to be read.

**Graphs and engines.** A graph is a set of nodes and a set of edges. The code's
lists matter where it takes the first or last match of a `find`, so a node carries
its place (`at`: the fragment that brought it and its position there); the order
of edges and of recommendations that rank the same is not modelled. The loops of
`graph.ts` are recursive functions on sets of nodes.
Scores are integers: confidence factors are in twentieths, money in thousandths.
`Assessment` has the only state, the sources and code the latest scan read, the
triage decisions, the recent commits and the scan's age; everything a page shows
is an operator of it.

## 3. Runs

Bounds are chosen so that every race the hazards name fits: two actors for a
race, three where a third party matters, one more identifier than a limit.

| Run | Bounds | States | Shows |
|---|---|---|---|
| `scan_faults` | 1 scan; 3 processes, 2 with Redis, one inline; 2 attempts, 1 stall, 2 deaths, timeouts, expired locks, hung calls, swallowed writes | 308 thousand | a scan nobody will move lost its producer, a handler nobody redelivers, or its last write; handlers the queue let go are as many as timeouts and expired locks at most, only they make two handlers overlap, only a second run reopens a scan; every scan settles but for those and for what hangs in its last attempt, and no job stays active |
| `scan_alerts` | 3 scans of a project, 2 processes (BullMQ with two jobs at a time, inline), no faults | 457 thousand | a scan mails a finding once; one is mailed again only by scans that overlapped, or after one without it; `ScanLifecycle` is implemented |
| `billing_safety` | 1 process, 2 concurrent requests, 3 plans, 2 events, 1 unsigned id; confirmation, changes, store errors, duplicates, reordering, unpaid checkouts, unsigned webhooks | 1.7 million | what is unlocked was charged, or let in by a way named in the property; an event is applied once per process lifetime; the row is what Stripe reported last, or was overtaken by a writer named in the property |
| `billing_order` | 2 processes, 1 restart, 2 requests, 2 events, reordering, the console | 190 thousand | an acknowledged event was applied, every event is applied in the end |
| `quotas_overshoot` | 3 requests, limits of 2, fan-outs of 2, a sign-in without a gate, midnight and new month | 3.2 million | a limit is missed by at most the requests in progress less one, besides what sign-ins insert |
| `tenancy_sign_in` | 2 requests; 3 identities, two of one email with and without a name, two people whose slugs collide; renames, an invitation, one user cut short | 367 thousand | sign-in resolves everybody; two organizations only by a changed slug, none only by an early end or a slug that is taken; an invitation is used up by a member; every other user gets an organization |
| `connections` | 3 project ids under a cap of 2, 2 requests, 2 repositories, maxRepos 1 | 1.07 million | a sign-in makes a second project, and a saved choice is lost, only when requests overlap |
| `collection` | 2 GitHub repositories and a Vercel account; 6 flaws, one of each audit; 3 plans; every limit at 1 or 2; two listings that end early | 386,664 | a scan reports what was there and is paid for, and all of it that was listed but for the providers that failed; it ends |
| `workbench` | 2 tabs, 1 file, a secret and an AI-only issue, a finding of the graph and one of a collector, an edit of the team, 2 scans | 1.4 million | a push overwrites only what changed since the read; what a graph holds is lost only when a deep scan overlaps another write |
| `preview` | 2 clients, 2 repositories, 5 requests in 5 ticks, quota 2, cache of 1 | 1.8 million | the quota holds at any concurrency; the cache is bounded and no answer older than its expiry and one scan |
| `assessment` | 3 repository lists, with and without 2 clouds, declared services that share ids with databases, 2 databases and a billing account; 2 code results, 1 triage, 1 commit, 1 overlay | 15 thousand | graphs are well formed and hide no risk but under an id that another source gave to something else; a failing gate blocks; the engines agree; triage never makes things look worse |
| `onboarding` | 2 accounts, 2 projects of the first, 1 failed request, 1 sign-out, reload or lapse; the wizard resumed or asked for a new project | 658 thousand | the guard errs on old news only, a subscriber is sold a second subscription only by a page that does not know, a ready account does not bounce for ever |

What bounds cut off. `scan_faults` has one scan, since scans meet only in
`PriorFindings` and in the worker slots, which `scan_alerts` exercises; 2
attempts are enough for a zombie beside its retry, and `MaxStalls` is BullMQ's
default. The billing runs have one subscription: what two do to the one row is
an open hazard. `billing_order` leaves out `storeError`, with which its two
properties do not hold (section 5), and the console stands there for the writers
that overtake. `quotas_overshoot` counts usage rows up to `MaxFixes`
(`Bounded`), and imports by one sign-in at most (`MaxSignIns`, arbitrary in
the proof).
The slugs of `tenancy_sign_in` all have one prefix, so that equal names collide. `connections` has one authorization at a time (`OneEnvelope`) and
`workbench` explores the code view, deep scans and validation runs apart
(`Apart`): they share the files alone. In `preview` the windows keep their order
(minute, expiry, hour), and
`MaxScanTime` bounds a scan, although the deadline of the code ends at a
response's headers (`api/scanner/collectors/collector.ts:155-163`) and a body may
take longer. The sources of `assessment` are chosen so that every rule
that attaches, merges, removes or connects nodes applies in one of its graphs. In `onboarding` only the first account pays and
owns projects: the second is there to be answered with the first one's cache.
Symmetry is used in safety runs only. Deadlock is checked where the system never
stops (quotas, tenancy, assessment and the runs of `Collection`, `Connections`,
`Preview` and `Workbench`); the scan and billing runs stop when their
bounded ids or events are used up, and in `onboarding` a tab may wait for its
user at Stripe without being able to pay.

**Fairness.** `ScanPipeline`: the queue's delivery and completion, its timer, and
each invocation's next step, unless the call it awaits has hung: whether a call
settles is a choice of the model (`Hang`), not an assumption, so that a job that
hangs ends by its timer alone. Nothing forces a request, an expired lock or a
death. `Billing`: each request's next step, and strongly each event's delivery:
Stripe retries what is not acknowledged, and the slots for requests, which others
may hold whenever it does, are a bound of the model and not of the server. `Tenancy`: the
guard's next step; nobody is forced to sign in. `Collection`: each collector's
timer and the merge, and no provider's answer, so that a scan ends without them.
`Onboarding`: the requests of the status, the effects of the wizard and of the
guard, and time (an answer grows stale); no click, no other site, no webhook.

## 4. Proofs

| Theorem | For all | Argument |
|---|---|---|
| `ScanPipelineProofs!TypeCorrect` | constants | `TypeInv`: `TypeOK`, an active job has a current invocation, a fresh one is always left, and attempts are below the maximum while a job can still run |
| `OnlyLossStrands` | constants, faults | `IInv` below |
| `OnlyLetGoOverlaps` | constants, faults | `Supervised`: before the first timeout and the first expired lock a live invocation is the current one of an active job |
| `OnlyRetryReopens` | constants, faults | `FirstOutcome`: with no attempt and no stall counted, a finished scan has no invocation that can still write |
| `FaultlessImplementsLifecycle` | constants with `Faults = {}` and `MaxCrashes = 0` | `InStep`: the place of the only invocation determines the row's status; each action maps to a step of `ScanLifecycle` or a stutter |
| `BillingProofs!TypeCorrect` | constants | `TypeInv` adds to `TypeOK` what a request in the middle of a plan change holds (`Targeted`) |
| `NothingUnpaidUnlocked` | constants, all of `Allowed` | `ChargeInv`: whatever can still unlock a plan, an event Stripe issued or a request under way, names one that was charged or came in by a way the property names |
| `OncePerLifetime` | constants, all of `Allowed` | `OnceInv`: for a process and a key, past applications and requests under way are at most one, and zero while the key is not in `seen` |
| `LimitsProofs!TypeCorrect`, `ProjectsOvershootBounded`, `ScansOvershootBounded` | constants | an admission happens below the limit, so the requests admitted besides bound the excess; `started <= scans` carries the scan bound across ungated routes and midnight, and `signedIn` counts what no gate admitted |
| `TenancyProofs!TypeCorrect`, `EverySignInResolves`, `OneOrgUnlessRenamed`, `EndsAndNamesakesLockOut`, `OnlyMembersUseUp` | constants: any names, slugs and prefixes; `EverySignInResolves` assumes `IdentityKeepsEmail` (an identity's tokens carry one email) | where a request stands says what it has found or inserted: rows are never deleted, so what it read of existence stays true; until a re-link changes it, whoever provisions for a user tries the slug of the first |
| `LimitsProofs!PreviewTypeCorrect`, `QuotaIsKept`, `CacheStaysSound` | constants | the hits kept are those of the window and at least the scans started in it, so the count the guard reads bounds them; every entry's time bounds the read it came from, and a scan's age the entry it will store |
| `ScanPipelineProofs!ZombiesCounted` | constants, faults | only a timeout or an expired lock takes a live handler from the queue, one at a time, and adds one to a count that never falls |
| `OnceUnlessRetried` | constants and faults but `timeout` and `stall`, with `MaxCrashes = 0` (`Undisturbed`) | a job is delivered once, so one handler of a scan mails, and it mails once |
| `NewsIsNewOrOverlaps` | `Undisturbed`; any processes, workers and concurrency | `NewsInv`: a scan that succeeded keeps its result, and what a handler mails is new against the newest success it saw; so a finding that an older seen success mailed is missing from that newest one |
| `BillingProofs!AckedOnlyApplied` | constants, `Allowed` without `storeError` and `duplicate` | a key in `seen` is applied or carried by a request of that process, so a redelivery that finds it may be acknowledged |
| `AccessIsStripes` | constants, all of `Allowed` | `AccessInv`: every request carries what its event says; the row is what `latest` says, or `overtakenBy` names who wrote it since; an event that was applied is at most as new as `latest` |
| `OnboardingProofs!TypeCorrect`, `GuardErrsOnlyOnOldNews`, `OnlyTheUnawareBuyTwice` | constants | `NewsInv`: what the answer, or the fetch so far (paid or not, the projects left), is wrong about has been noted since; `BillInv`: what the billing page says is so, or has changed since |
| `GitHubProofs!TypeCorrect`, `SignInReuses`, `OnlyOverlapLosesChoices` | constants | `LookInv`: a connected project is still to be looked at by a sign-in or was connected after; `ChoiceInv`: a refresh carries the stored choice, or the row was written since |
| `CollectionProofs!CollectionTypeCorrect`, `ReportsAreFaithful` | constants: any connections, trees, rules, plans and budgets | `CollectionInv` below |
| `GitHubProofs!WorkbenchTypeCorrect`, `PushesOverwriteOnlyUnseen`, `IssuesSurviveMerges` | constants | `WorkbenchInv`: what a draft or an open push does not know of its file has been noted since it was read (`DraftsAware`, `PushesAware`); a deep scan that no write overtook holds the issues its row still has (`SnapsCurrent`) |
| `AssessmentProofs!AssessmentTypeCorrect`, `ClosingFindingsHelps`, `FailedGatesBlock` | constants: any sources, findings, weights, confidences, vulnerabilities and commits | sums over sets of findings, below |
| `GraphsAreWired`, `RisksAreNotHidden` | constants: any sources and corrections | each pass over a graph keeps it proper; each keeps the unsafe answer about a backup, below |
| `EnginesTellOneStory` | constants: any sources | it holds of every proper graph; what a failure reaches is a least closed set, below |

The scan invariant is `IInv == TypeInv /\ Supervised /\ FirstOutcome /\
StrandedOnlyByLoss`. `StrandedOnlyByLoss` alone is not inductive: a handler that
ends must have written the outcome or recorded the loss, which needs to know
which invocations are live and that a job is active only with a current one.
Besides those named in the table the only assumptions are the `ASSUME`s of the
models: bounds are natural numbers, `Requests` is finite and not empty, and so on.

`CollectionInv` says of a scan that still reads: what it found is there or was
seen while it read, and its plan at the start paid for it; and whatever a
connection that met no failure owes the report is found already or belongs to a
list that is still to be read. The second half, `NothingMissed`, is what makes
the first inductive in the direction that matters: an item dropped by a limit, by
an entitlement read too early or by the last page of a provider would break it
in the step that drops it, not only when the report is finished. It rests on what
the audits compute, stated as lemmas for any list and any limit
(`RepoAuditIsSound`, `RepoAuditIsComplete`, `AccountAuditIsSound`,
`AccountAuditIsComplete`): a limit of `n` files keeps exactly the first `n` that
an audit is for, by counting positions (`FewAreFirst`).

`ClosingFindingsHelps` is about what the engines compute, so it needs that their
sums are monotone. They are written with the folds of the community modules, and
`AssessmentProofs` defines the sum of weights over a finite set a second time, as
the value of any function that meets the recursive equation on every subset
(`SumExists` constructs it and `SumsAgree` shows it unique, both by a
smallest counterexample among the subsets rather than by an induction theorem).
From there: a subset weighs no more (`TotalMonotone`), hence the health of a
dimension (`HealthImproves`), the posture (`PostureImproves`), its band
(`BandImproves`) and the readiness of a release (`ReadinessImproves`) move one
way only. The last one is not a plain monotonicity: closing the last critical
finding while others stay high replaces a blocker by a warning, and the proof
shows that the one warning that can appear (10 points) weighs less than the
blocker that went (34).

`GraphsAreWired` follows a graph through `buildSystemGraph`. A graph is proper
(`ProperGraph`) when ids name one node, edges join two different nodes of it, one
for a pair, and both sets are finite. The first merge makes one of whatever the
fragments hold (`MergeIsProper`); folding inferred databases into real ones
(`DedupeIsProper`), connecting orphans (`OrphansAreConnected`), attaching AI
components (`AttachIsProper`) keep it so, and a customer's corrections keep it
well formed (`OverlayIsWellFormed`). That no backing service is left without a
caller is established by the connection of orphans and survives the attachment.
`RisksAreNotHidden` follows one answer, `hasBackup = "no"`, along the same passes:
the merge prefers it (`MergeKeepsUnsafe`), deduplication neither folds a node that
gives it into another one nor overwrites it (`DedupeKeepsUnsafe`), and the rest
leaves it alone.
It makes an exception, which the runs reach: where another source of the same scan
gives the id to something else (`TakenForAnother`), `mergeNode` takes the kind
from the later source, so a customer who declares a *service* named `postgres`
turns the database into something that is never asked for a backup.

`EnginesTellOneStory` is a statement about every proper graph. The loop of
`failureImpact` and that of `reachableFrom` climb a set of nodes by a monotone
step until it adds nothing; `ClimbIsClosure` shows, by a smallest counterexample
among the sets still outside, that such a climb ends in the least closed set that
contains its start. So what a failure takes down contains what failed and
whatever critically depends on it, lies in the graph, and grows with what failed
(`FailureSpreads`), which is what the claims about bottlenecks, regions and
attacks need. The report's claims rest on the sums above and on `ForemostIs`: the
first recommendation is about a finding of the worst severity. The prices rest on
`CostOfAnHour`: the cost of an hour lies in ranges that do not overlap, one for
each impact. The proof found a flaw of the model: the list of recommendations
was the findings it *surely* shows, which among four equals is none; it is now
taken one after the other, as `sort` and `slice` do.

The only assumptions are the named `ASSUME`s of the models, evaluated by TLC on
every run. `AssessmentAssumption` says that the sources are lists, that the
findings and vulnerabilities are finite and rated, that AI components are of the
AI kinds, and that what a correction adds has a place;
`DatabasesHaveAPrefix`, that a provider's database (`db-...`) has no id of the
services that are inferred from the code.

Only model-checked:

- every liveness property (`EveryScanSettles`, `NoJobWedges`,
  `EveryEventApplied`, `EveryUserOwns`, `EveryCollectionEnds`,
  `NobodyBouncesForever`), which is out of the prover's reach;

Every safety invariant and every action property that a run checks is stated by
a theorem.

## 5. Where the code and its words differ

Met while modelling. The models follow the code.

- A scheduled downgrade never lowers `organization.plan`: only `plan_changed`
  writes it (`api/billing/billing.service.ts:50`, `stripe.provider.ts:95-97`
  against `billing.service.ts:157-160`). A charged upgrade whose process dies
  stays locked (`billing.service.ts:73-74` against 157-160).
- "If it's paid" (`stripe.provider.ts:53-55`): a session that is `complete` will
  do, whatever its payment status (line 60). A webhook is verified only if the
  secret is configured and the header is there, and taken as it comes otherwise
  (221-227).
- "Renewals, cancellations and payment failures update access"
  (`stripe.provider.ts:248`): until something overtakes them. An event that is
  delivered late, a confirmation of a checkout visited again, a plan change or the
  console leaves the row different from Stripe, as does an event of another
  subscription of the customer. An event whose application meets an error of the
  store is lost: the retry finds its id in `processedEvents` and is acknowledged
  (`billing.service.ts:147-150`).
- A finished scan goes back to `running` on a retry (`docs/JOBS.md:11`,
  `bull-queue.ts:70`). A lock that expires under a living process has the effect
  of a timeout, sooner: two handlers on one row.
- "Alert only on what's newly introduced" (`scan.processor.ts:149-150`): scans
  that overlap, as four to a worker may by default, mail the same finding each.
- Concurrent requests pass the hard daily cap of scans (`shared/plans.ts:50`,
  `billing.service.ts:189`); a sign-in inserts a project whatever the plan's cap
  (`api/oauth/oauth.service.ts:175`).
- "A personal organization" (`docs/AUTH.md:37-38`, `api/auth/auth.service.ts:68-69`,
  "idempotent"): two identities of one email that differ in name, one without
  (`auth.service.test.ts:30-39` signs in both ways), may open two, since the slug
  is the only lock and is made of the name. None is left to a user whose sign-in
  was cut short between organization and membership (98), or whose slug another
  user has: it is a slugified name, or the local part of the email, or
  `workspace`, and six characters of an id (95), and a clash is taken for the
  race (76).
- Listings end without a word in the report: GitLab's tree after 4 pages of 100
  entries (`api/scanner/collectors/gitlab.collector.ts:12-13`), GitHub's where it
  says `truncated` (`code-audit.ts:184`, `github.collector.ts:332-337`), projects
  and services of an account after the first page.
- A new organization carries `starter` (`auth.service.ts:96`), so the "Subscribe"
  button of that plan does nothing (`web/app/billing/page.tsx:80`); nor can who
  lapsed buy the plan carried again. Until `/me` has answered, the page offers a
  subscriber a second checkout.
- `web/lib/use-onboarding-state.ts:106-107` says the guard acts on freshly
  fetched answers and never on an error; it acts on cached ones, also of another
  account of the tab, and a failed listing of scans counts as "none".
- `connect_error` promises a retry (`web/app/get-started/page.tsx:143-144`), but
  re-authorizing a project that has a connection is refused by the unique
  constraint (`prisma/schema.prisma:246`), and the wizard without `?connected`
  offers nothing else.
- An OAuth state can be replayed until it expires (`docs/OAUTH.md:25`). A
  sign-in never refreshes a stored token; with GitHub down it overwrites the
  repositories of a connection with none. App connections have no token for
  fixes and fan-outs. A retried fan-out duplicates projects.
- "Can never disagree" (`web/lib/use-project-data.ts:486-487`): a triaged advisory
  still blocks a release. The comments at 213-217 hold for one tab only.
- `UNTESTED` is inconclusive in `shared/validation.ts:10-13`, and a secret without
  a verifier is confirmed by any non-empty line (`api/scanner/secret-verify.ts:71`).
- A deep scan may pick an unfinished latest scan, and drops the findings that
  collectors brought themselves (`shared/scanner/scan.ts:103-111`), which are not
  in the graph it computes from; a push refused for its sha is retried over what made it refuse.
- "The scan never hides a risk" (`shared/scanner/fragment.ts:18-20`): a later
  source of the same id replaces the kind of a node, and with it the questions
  asked of it.
- The DNS scenario always has radius 1, so the worst case of a report is always
  a full outage; `traffic_100x` is one without an entrypoint; a region outage
  with no region known fails every node without one.
- An unknown control counts as missing in an attack simulation, and as unknown
  in the scores.
- A refused request extends the rate limiter's window; the preview cache evicts
  even when it replaces an entry.
- `store.module.ts:11` says the same controllers work against either backend; the
  in-memory store ignores unique constraints and treats `undefined` in a patch as
  a value. The models follow the Postgres store.

## 6. Not modelled, and why

- **Presentation of the web client**: most of its 20 thousand lines lay out
  cards, charts, tables, marketing pages and settings forms. They keep no state
  beyond an input, so the share of the repository's lines that the models stand
  for stays well below a third, however much of the control is modelled.
- **Text rules**: what a regular expression of the code audits, the stack
  detection, the AST audit or a compliance mapping matches is a class of element
  in `Collection` and `Architecture`; the expressions are not translated. AWS
  request signing and live secret verification are calls to others.
- **AI provider and prediction**: answers of a model are arbitrary; the usage
  rows they leave are in `Quotas`, their effect on a scan and a file in
  `Workbench`. Whether a rewrite is safe (bracket counting) is not a property of
  state.
- **Engines left out**: hotspots, AI components' details, badges, integrations,
  plan texts, `monitoring` diffs beyond the alerts. `applyOverlay` is modelled
  although no app calls it; `applyValidation` is not.
- **Abstractions in what is modelled**: the 32-bit hash of a fingerprint is
  injective; ratios are compared exactly rather than in floating point; the
  declared-services fallback and the cap on checks of a validation run do not
  bind in the instances; a scan in `Onboarding` never loses its success; an
  unsigned webhook has an id that Stripe never issued; the slot of a handler whose
  lock expired is free at once.
- **Stores**: settings, feedback, analytics and the admin log are plain CRUD;
  the in-memory store serves tests.
- **Token verification, mail, crypto, health, error handling**: stateless.

What a next step would add: two subscriptions in `Billing` with an abstract
specification of paid access; and the order of equal recommendations.
