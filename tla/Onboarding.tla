----------------------------- MODULE Onboarding -----------------------------
(***************************************************************************)
(* One browser tab of the web client between sign-in and the dashboard:    *)
(* the guard with its cached provisioning status, the wizard, the billing  *)
(* page, and the rows they read one request at a time.  React Query, the   *)
(* provider's pages and the server are external.                           *)
(***************************************************************************)
EXTENDS Naturals, FiniteSets

CONSTANTS
    Users,       \* accounts that sign in from this tab
    Projects,    \* ids a project may get
    Owner,       \* project -> the account that may create it
    Payers,      \* accounts that buy, with the permission billing:manage
    MaxFailures, \* requests that fail
    MaxBreaks,   \* times a session or a subscription ends, or the tab is
                 \* loaded anew
    None

ASSUME OnboardingAssumption ==
    /\ Owner \in [Projects -> Users] /\ Payers \subseteq Users
    /\ None \notin Users \cup Projects
    /\ MaxFailures \in Nat /\ MaxBreaks \in Nat

VARIABLES
    stage,    \* project -> "absent", "new", or "linked" to GitHub
    pending,  \* projects with a scan in progress
    scanned,  \* projects with a succeeded scan
    sub,      \* account -> "none", "bought" at Stripe, or "active" here too
    plan,     \* account -> the plan its organization carries, and the one
              \* it bought last
    session,  \* the account signed in, or None
    page,     \* what the tab shows
    status,   \* the query ['onboarding-state']: its cached answer, its fetch
    wiz,      \* what the wizard holds
    bill,     \* what the billing page holds
    trip,     \* the project and the way back of a visit to GitHub
    failures, breaks

server == <<stage, pending, scanned, sub, plan>>
counts == <<failures, breaks>>
vars == <<server, session, page, status, wiz, bill, trip, counts>>

Pages == {"login", "landing", "portfolio", "wizard", "billing", "github", "stripe"}
Answers == {"needs-onboarding", "needs-billing", "ready"}

(* The cached answer and whether it is stale; the fetch in progress, what  *)
(* it has read and the projects it has left.  Observed: whether, since the *)
(* answer (news) or the fetch (noise) began to be read, the account may    *)
(* have gained or lost what it tells.                                      *)
News == SUBSET {"gained", "lost"}
Queries == [data : Answers \cup {None}, stale : BOOLEAN, news : News,
            at : {"idle", "me", "list", "scans"}, paid : BOOLEAN,
            todo : SUBSET Projects, noise : News]
NoQuery == [data |-> None, stale |-> FALSE, news |-> {}, at |-> "idle",
            paid |-> FALSE, todo |-> {}, noise |-> {}]
Another == {"gained", "lost"}

(* from: how the wizard was reached (the query string; new: ?new=1).       *)
Steps == {"confirm", "me", "list", "scans", "conns", "fatal", "workspace",
          "connect", "detect", "review", "run", "result"}
Froms == {"link", "new", "connected", "upgraded"}
Wizards == [at : Steps, from : Froms, project : Projects \cup {None},
            picker : BOOLEAN, subscribed : BOOLEAN]
Wizard(from) ==
    [at |-> IF from = "upgraded" THEN "confirm" ELSE "me", from |-> from,
     project |-> None, picker |-> FALSE, subscribed |-> FALSE]

(* me, plan: the answer of /me, or none yet; choice: the plan on sale.     *)
(* Observed, old: the answer has changed.                                  *)
Plans == {"starter", "growth"}
Bills == [me : {"none", "active", "inactive"}, plan : Plans \cup {None},
          choice : Plans \cup {None}, old : BOOLEAN]
NoBill == [me |-> "none", plan |-> None, choice |-> None, old |-> FALSE]

Trips == [project : Projects, next : {"wizard", "portfolio"}]

TypeOK ==
    /\ stage \in [Projects -> {"absent", "new", "linked"}]
    /\ pending \subseteq Projects /\ scanned \subseteq Projects
    /\ sub \in [Users -> {"none", "bought", "active"}]
    /\ plan \in [Users -> [carried : Plans, bought : Plans]]
    /\ session \in Users \cup {None} /\ page \in Pages
    /\ status \in Queries /\ wiz \in Wizards /\ bill \in Bills
    /\ trip \in Trips \cup {None}
    /\ failures \in 0..MaxFailures /\ breaks \in 0..MaxBreaks

Init ==
    /\ stage = [p \in Projects |-> "absent"] /\ pending = {} /\ scanned = {}
    /\ sub = [u \in Users |-> "none"]
    /\ plan = [u \in Users |-> [carried |-> "starter", bought |-> "starter"]]
    /\ session = None /\ page = "login"
    /\ status = NoQuery /\ wiz = Wizard("link") /\ bill = NoBill /\ trip = None
    /\ failures = 0 /\ breaks = 0

-----------------------------------------------------------------------------

Mine == {p \in Projects : Owner[p] = session /\ stage[p] # "absent"}
Active(u) == u # None /\ sub[u] = "active"

(* What the guard wants to know: onboarding comes first, then payment.     *)
Resolved(hasScanned, paid) ==
    IF ~hasScanned THEN "needs-onboarding" ELSE IF ~paid THEN "needs-billing" ELSE "ready"
Truth == Resolved(Mine \cap scanned # {}, Active(session))

(* Something the status tells about has changed.                           *)
Noted(query, change) ==
    [query EXCEPT !.news = IF query.data = None THEN {} ELSE @ \cup change,
                  !.noise = IF query.at = "idle" THEN {} ELSE @ \cup change]

(* A guarded page mounts, or its window is focused: React Query fetches    *)
(* what it has not or what is stale, unless it is fetching it already.     *)
(* Mutant: an answer is never stale.                                       *)
FetchedOnce(query) ==
    IF query.at # "idle" \/ query.data # None THEN query
    ELSE [query EXCEPT !.at = "me", !.noise = {}]
Fetched(query) ==
    IF query.at # "idle" \/ (query.data # None /\ ~query.stale) THEN query
    ELSE [query EXCEPT !.at = "me", !.noise = {}]

(* The router: a page starts from nothing, the query cache outlives it.    *)
Goto(to, from) ==
    /\ page' = to
    /\ wiz' = Wizard(from)
    /\ bill' = NoBill

(* The pages that show the status: the guarded ones, as one, and the       *)
(* landing page.                                                           *)
Observers == {"portfolio", "landing"}
Mounts(to, query) == IF to \in Observers THEN Fetched(query) ELSE query

Breaks == breaks < MaxBreaks /\ breaks' = breaks + 1
Fail ==
    /\ failures < MaxFailures
    /\ failures' = failures + 1
    /\ UNCHANGED breaks

-----------------------------------------------------------------------------
(* The sign-in page and the way back from a social login.                  *)

SignIn(u, to) ==
    /\ page = "login" /\ session = None
    /\ session' = u
    /\ Goto(to, "link")
    /\ status' = Mounts(to, Noted(status, Another))
    /\ UNCHANGED <<server, trip, counts>>

(* With GitHub's token the API links the account's project, or a new one.  *)
(* Whatever leaves the site loses the query cache.                         *)
SocialSignIn(u, p) ==
    /\ page = "login" /\ session = None /\ Owner[p] = u
    /\ session' = u
    /\ LET linked == {q \in Projects : Owner[q] = u /\ stage[q] = "linked"}
       IN  IF linked # {} THEN p \in linked /\ UNCHANGED stage
           ELSE stage[p] = "absent" /\ stage' = [stage EXCEPT ![p] = "linked"]
    /\ Goto("wizard", "connected")
    /\ status' = NoQuery
    /\ UNCHANGED <<pending, scanned, sub, plan, trip, counts>>

(* The button, or a request that was answered with 401: the session goes,  *)
(* the query cache stays.                                                  *)
SignOut ==
    /\ session # None /\ page \in {"landing", "portfolio", "wizard", "billing"}
    /\ Breaks
    /\ session' = None
    /\ Goto("login", "link")
    /\ status' = Noted(status, Another)
    /\ UNCHANGED <<server, trip, failures>>

-----------------------------------------------------------------------------
(* useOnboardingState: /me, the projects, and their scans until one of     *)
(* them succeeded.                                                         *)

Settle(hasScanned) ==
    [status EXCEPT !.data = Resolved(hasScanned, status.paid), !.stale = FALSE,
                   !.news = status.noise, !.at = "idle", !.todo = {}, !.noise = {}]

Fetching(step) == status.at = step /\ session # None

FetchMe ==
    /\ Fetching("me")
    /\ status' = [status EXCEPT !.at = "list", !.paid = Active(session)]
    /\ UNCHANGED <<server, session, page, wiz, bill, trip, counts>>

FetchProjects ==
    /\ Fetching("list")
    /\ status' = IF Mine = {} THEN Settle(FALSE)
                 ELSE [status EXCEPT !.at = "scans", !.todo = Mine]
    /\ UNCHANGED <<server, session, page, wiz, bill, trip, counts>>

(* One project's scans.                                                    *)
(* Mutant: the first project decides.                                      *)
FirstDecides(p) == Settle(p \in scanned)
NextProject(p) == IF status.todo = {p} THEN Settle(FALSE) ELSE [status EXCEPT !.todo = @ \ {p}]
FetchedScans(p) == IF p \in scanned THEN Settle(TRUE) ELSE NextProject(p)

FetchScans(p) ==
    /\ Fetching("scans") /\ p \in status.todo
    /\ Owner[p] = session
    /\ status' = FetchedScans(p)
    /\ UNCHANGED <<server, session, page, wiz, bill, trip, counts>>

(* A project's scans cannot be listed, or it is another account's by now:  *)
(* the search goes on without it.  Any other request fails once, and all   *)
(* is tried again, or twice: the old answer stays.                         *)
ScansFail(p) ==
    /\ status.at = "scans" /\ p \in status.todo
    /\ IF Owner[p] = session THEN Fail ELSE UNCHANGED counts
    /\ status' = IF status.todo = {p}
                 THEN [Settle(FALSE) EXCEPT !.news = @ \cup {"gained"}]
                 ELSE [NextProject(p) EXCEPT !.noise = @ \cup {"gained"}]
    /\ UNCHANGED <<server, session, page, wiz, bill, trip>>

FetchFails ==
    /\ status.at \in {"me", "list"}
    /\ IF session # None THEN Fail ELSE UNCHANGED counts
    /\ \/ status' = [status EXCEPT !.at = "me"]
       \/ status' = [status EXCEPT !.at = "idle", !.noise = {}]
    /\ UNCHANGED <<server, session, page, wiz, bill, trip>>

(* Ten seconds pass; the window gets the focus; an unused answer is        *)
(* dropped.                                                                *)
GoesStale ==
    /\ status.data # None /\ ~status.stale
    /\ status' = [status EXCEPT !.stale = TRUE]
    /\ UNCHANGED <<server, session, page, wiz, bill, trip, counts>>

Focus ==
    /\ page \in Observers /\ session # None
    /\ status' = Fetched(status)
    /\ UNCHANGED <<server, session, page, wiz, bill, trip, counts>>

Forget ==
    /\ page \notin Observers /\ status.at = "idle" /\ status.data # None
    /\ status' = NoQuery
    /\ UNCHANGED <<server, session, page, wiz, bill, trip, counts>>

(* The tab is loaded again: the session is in local storage, the query     *)
(* cache is not.  An address may be typed, ?new=1 among them: no page      *)
(* links to that one.                                                      *)
Reload(to, from) ==
    /\ session # None
    /\ Goto(to, from) /\ trip' = None
    /\ status' = Mounts(to, NoQuery)
    /\ Breaks
    /\ UNCHANGED <<server, session, failures>>

(* AuthGuard: the cached answer decides, stale or not.                     *)
NextHref(data) ==
    CASE data = "needs-billing" -> "billing"
      [] data = "needs-onboarding" -> "wizard"
      [] data = "ready" -> "portfolio"
Shown == page = "portfolio" /\ session # None /\ status.data = "ready"

GuardRedirects ==
    /\ page = "portfolio" /\ session # None
    /\ status.data \in {"needs-onboarding", "needs-billing"}
    /\ Goto(NextHref(status.data), "link")
    /\ UNCHANGED <<server, session, status, trip, counts>>

-----------------------------------------------------------------------------
(* The wizard finds out where the account is.                              *)

Wiz(step) == page = "wizard" /\ session # None /\ wiz.at = step

Turns(wizard) ==
    /\ wiz' = wizard
    /\ UNCHANGED <<session, page, status, bill, trip>>

Leaves(to) ==
    /\ Goto(to, "link")
    /\ status' = Mounts(to, status)
    /\ UNCHANGED <<server, session, trip>>

(* Back from the checkout: the purchase is confirmed, or that is given up. *)
WizardConfirm ==
    /\ Wiz("confirm")
    /\ IF sub[session] # "none"
       THEN /\ sub' = [sub EXCEPT ![session] = "active"]
            /\ plan' = [plan EXCEPT ![session].carried = plan[session].bought]
            /\ status' = Noted(status, {"gained"})
       ELSE UNCHANGED <<sub, plan, status>>
    /\ wiz' = [wiz EXCEPT !.at = "me"]
    /\ UNCHANGED <<stage, pending, scanned, session, page, bill, trip, counts>>

WizardGivesUp ==
    /\ Wiz("confirm") /\ Fail
    /\ Turns([wiz EXCEPT !.at = "me"]) /\ UNCHANGED server

WizardMe ==
    /\ Wiz("me")
    /\ Turns([wiz EXCEPT !.at = "list", !.subscribed = Active(session)])
    /\ UNCHANGED <<server, counts>>

(* The first project of a list in no order; a new one if that was asked.   *)
WizardProjects ==
    /\ Wiz("list")
    /\ IF Mine = {} \/ wiz.from = "new" THEN Turns([wiz EXCEPT !.at = "workspace"])
       ELSE \E p \in Mine : Turns([wiz EXCEPT !.at = "scans", !.project = p])
    /\ UNCHANGED <<server, counts>>

WizardFails ==
    /\ page = "wizard" /\ session # None /\ wiz.at \in {"me", "list"}
    /\ Fail /\ Turns([wiz EXCEPT !.at = "fatal"]) /\ UNCHANGED server

WizardRetries == Wiz("fatal") /\ Turns(Wizard(wiz.from)) /\ UNCHANGED <<server, counts>>
WizardToPlans == Wiz("fatal") /\ Leaves("billing") /\ UNCHANGED counts

(* The link to the landing page; its button goes where the last answer     *)
(* says, the one in local storage if the cache has none.                   *)
Home ==
    /\ page \in {"wizard", "billing"} /\ session # None
    /\ Leaves("landing") /\ UNCHANGED counts

Continue ==
    /\ page = "landing" /\ session # None
    /\ \E to \in {"portfolio", "billing", "wizard"} :
          /\ status.data # None => to = NextHref(status.data)
          /\ Leaves(to)
    /\ UNCHANGED counts

Resumed == [wiz EXCEPT !.at = IF wiz.from = "connected" THEN "conns" ELSE "connect"]

(* Onboarded already: on to the workspace, or to the paywall.              *)
WizardSkips ==
    /\ Wiz("scans") /\ wiz.project \in scanned
    /\ Leaves(IF wiz.subscribed THEN "portfolio" ELSE "billing")
    /\ UNCHANGED counts

WizardResumes ==
    /\ Wiz("scans")
    /\ IF wiz.project \in scanned THEN Fail ELSE UNCHANGED counts
    /\ Turns(Resumed) /\ UNCHANGED server

(* The repositories of the connection, if it has some and they are read.   *)
WizardConnections ==
    /\ Wiz("conns")
    /\ \/ /\ stage[wiz.project] = "linked"
          /\ Turns([wiz EXCEPT !.at = "connect", !.picker = TRUE])
       \/ Turns([wiz EXCEPT !.at = "connect"])
    /\ UNCHANGED <<server, counts>>

-----------------------------------------------------------------------------
(* The wizard's steps.                                                     *)

CreateProject(p) ==
    /\ Wiz("workspace") /\ Owner[p] = session /\ stage[p] = "absent"
    /\ stage' = [stage EXCEPT ![p] = "new"]
    /\ Turns([wiz EXCEPT !.at = "connect", !.project = p])
    /\ UNCHANGED <<pending, scanned, sub, plan, counts>>

(* Off to GitHub, from here or from "add repository" on the dashboard.     *)
ToGitHub(p, next) ==
    /\ Goto("github", "link")
    /\ trip' = [project |-> p, next |-> next]
    /\ status' = NoQuery
    /\ UNCHANGED <<pending, scanned, sub, plan, session, counts>>

ConnectGithub ==
    /\ Wiz("connect") /\ wiz.from # "connected"
    /\ ToGitHub(wiz.project, "wizard") /\ UNCHANGED stage

AddRepository(p) ==
    /\ Shown /\ Owner[p] = session /\ stage[p] = "absent"
    /\ stage' = [stage EXCEPT ![p] = "new"]
    /\ ToGitHub(p, "portfolio")

(* The callback: back with a connection, or into the wizard without: the   *)
(* user gave up, the state expired, the project has a connection.          *)
GithubConnects ==
    /\ page = "github" /\ stage[trip.project] = "new"
    /\ stage' = [stage EXCEPT ![trip.project] = "linked"]
    /\ Goto(trip.next, "connected") /\ status' = Mounts(trip.next, status)
    /\ trip' = None
    /\ UNCHANGED <<pending, scanned, sub, plan, session, counts>>

GithubRefuses ==
    /\ page = "github"
    /\ IF stage[trip.project] = "new" THEN Fail ELSE UNCHANGED counts
    /\ Goto("wizard", "link") /\ trip' = None
    /\ UNCHANGED <<server, session, status>>

(* POST /scans; the answer is polled for, for a minute at most.            *)
Detect ==
    /\ Wiz("connect") /\ wiz.from = "connected" /\ wiz.picker
    /\ pending' = pending \cup {wiz.project}
    /\ Turns([wiz EXCEPT !.at = "detect"])
    /\ UNCHANGED <<stage, scanned, sub, plan, counts>>

ScanRefused ==
    /\ Wiz("review") /\ Fail
    /\ Turns([wiz EXCEPT !.at = "connect"]) /\ UNCHANGED server

Detected == Wiz("detect") /\ Turns([wiz EXCEPT !.at = "review"]) /\ UNCHANGED <<server, counts>>

(* The scoring scan; the other repositories become projects of their own.  *)
RunScan ==
    /\ Wiz("review")
    /\ \E extra \in SUBSET {p \in Projects : Owner[p] = session /\ stage[p] = "absent"} :
          /\ stage' = [p \in Projects |-> IF p \in extra THEN "linked" ELSE stage[p]]
          /\ pending' = pending \cup {wiz.project} \cup extra
    /\ Turns([wiz EXCEPT !.at = "run"])
    /\ UNCHANGED <<scanned, sub, plan, counts>>

(* The result, whatever came of the scan; the guard's answer is stale.     *)
ShowResult ==
    /\ Wiz("run")
    /\ wiz' = [wiz EXCEPT !.at = "result"]
    /\ status' = [status EXCEPT !.stale = status.data # None]
    /\ UNCHANGED <<server, session, page, bill, trip, counts>>

WizardEnds ==
    /\ Wiz("result")
    /\ Leaves(IF wiz.subscribed THEN "portfolio" ELSE "billing")
    /\ UNCHANGED counts

-----------------------------------------------------------------------------
(* The billing page and the checkout.                                      *)

BillingMe ==
    /\ page = "billing" /\ session # None /\ bill.me = "none"
    /\ bill' = [NoBill EXCEPT !.me = IF Active(session) THEN "active" ELSE "inactive",
                              !.plan = plan[session].carried]
    /\ UNCHANGED <<server, session, page, status, wiz, trip, counts>>

(* choose: the button of the plan the organization carries does nothing,   *)
(* also for who has not paid for it; a subscriber changes the plan here,   *)
(* anybody else goes to Stripe.                                            *)
(* Mutant: whoever has loaded the page goes to Stripe.                     *)
Choosing(p) == page = "billing" /\ session \in Payers /\ p # bill.plan
EverybodyBuys(p) == Choosing(p)
Buys(p) == Choosing(p) /\ bill.me # "active"

(* An upgrade is there at once, a downgrade after the period; who does not *)
(* subscribe any more is sent to Stripe all the same.                      *)
ChangePlan(p) ==
    /\ Choosing(p) /\ bill.me = "active" /\ Active(session)
    /\ IF p = "growth" /\ plan[session].carried # p
       THEN /\ plan' = [plan EXCEPT ![session] = [carried |-> p, bought |-> p]]
            /\ bill' = [bill EXCEPT !.plan = p]
       ELSE UNCHANGED <<plan, bill>>
    /\ UNCHANGED <<stage, pending, scanned, sub, session, page, status, wiz, trip, counts>>

BuysAgain(p) == Choosing(p) /\ ~Active(session)

Checkout(p) ==
    /\ Buys(p) \/ BuysAgain(p)
    /\ page' = "stripe" /\ bill' = [NoBill EXCEPT !.choice = p]
    /\ status' = NoQuery
    /\ UNCHANGED <<server, session, wiz, trip, counts>>

BackToDashboard ==
    /\ page = "billing" /\ session # None /\ bill.me = "active"
    /\ Leaves("portfolio") /\ UNCHANGED counts

Pay ==
    /\ page = "stripe"
    /\ sub' = [sub EXCEPT ![session] = IF @ = "none" THEN "bought" ELSE @]
    /\ plan' = [plan EXCEPT ![session].bought = bill.choice]
    /\ Goto("wizard", "upgraded")
    /\ UNCHANGED <<stage, pending, scanned, session, status, trip, counts>>

CancelCheckout ==
    /\ page = "stripe"
    /\ Goto("billing", "link")
    /\ UNCHANGED <<server, session, status, trip, counts>>

-----------------------------------------------------------------------------
(* The server moves on.                                                    *)

ScanSettles(p) ==
    /\ p \in pending
    /\ pending' = pending \ {p}
    /\ \/ /\ scanned' = scanned \cup {p}
          /\ status' = IF Owner[p] = session THEN Noted(status, {"gained"}) ELSE status
       \/ UNCHANGED <<scanned, status>>
    /\ UNCHANGED <<stage, sub, plan, session, page, wiz, bill, trip, counts>>

(* The webhook of a purchase; the end of a subscription.                   *)
SubMoves(u, from, to, change) ==
    /\ sub[u] = from
    /\ sub' = [sub EXCEPT ![u] = to]
    /\ status' = IF u = session THEN Noted(status, change) ELSE status
    /\ bill' = IF u = session THEN [bill EXCEPT !.old = bill.me # "none"] ELSE bill
    /\ UNCHANGED <<stage, pending, scanned, session, page, wiz, trip>>

Webhook(u) ==
    /\ \/ SubMoves(u, "bought", "active", {"gained"})
       \/ plan[u].bought # plan[u].carried /\ SubMoves(u, "active", "active", {})
    /\ plan' = [plan EXCEPT ![u].carried = plan[u].bought]
    /\ UNCHANGED counts

Lapse(u) ==
    /\ Breaks /\ SubMoves(u, "active", "none", {"lost"})
    /\ UNCHANGED <<plan, failures>>

-----------------------------------------------------------------------------

Fetches ==
    \/ FetchMe \/ FetchProjects \/ FetchFails
    \/ \E p \in Projects : FetchScans(p) \/ ScansFail(p)

Enters ==
    \/ WizardConfirm \/ WizardGivesUp \/ WizardMe \/ WizardProjects \/ WizardFails
    \/ WizardSkips \/ WizardResumes \/ WizardConnections

Next ==
    \/ \E u \in Users : \/ SignIn(u, "portfolio") \/ SignIn(u, "wizard")
                        \/ Webhook(u) \/ Lapse(u)
    \/ \E u \in Users, p \in Projects : SocialSignIn(u, p)
    \/ Reload("portfolio", "link") \/ Reload("wizard", "link") \/ Reload("billing", "link")
    \/ Reload("wizard", "new")
    \/ SignOut \/ GoesStale \/ Focus \/ Forget \/ GuardRedirects
    \/ Fetches \/ Enters \/ WizardRetries \/ WizardToPlans
    \/ \E p \in Projects : CreateProject(p) \/ AddRepository(p) \/ ScanSettles(p)
    \/ ConnectGithub \/ GithubConnects \/ GithubRefuses
    \/ Home \/ Continue \/ Detect \/ ScanRefused \/ Detected \/ RunScan \/ ShowResult \/ WizardEnds
    \/ \E p \in Plans : ChangePlan(p) \/ Checkout(p)
    \/ BillingMe \/ BackToDashboard \/ Pay \/ CancelCheckout

Spec == Init /\ [][Next]_vars

(* Requests are answered, effects run and time passes.                     *)
FairSpec ==
    /\ Spec
    /\ WF_vars(Fetches) /\ WF_vars(Enters)
    /\ WF_vars(GuardRedirects) /\ WF_vars(GoesStale)

-----------------------------------------------------------------------------
(* use-onboarding-state.ts:106-107 promises a redirect on a definitive     *)
(* answer only; this is what is true of it: the guard is wrong about an    *)
(* account only on old news.  It lets somebody in who is not ready only if *)
(* the subscription ended or the account changed meanwhile; it holds       *)
(* somebody off who is ready only if that is newer than the answer,        *)
(* another account signed in, or a project's scans could not be listed.    *)
GuardErrsOnOldNews ==
    session # None /\ status.data # None =>
        /\ status.data = "ready" /\ Truth # "ready" => "lost" \in status.news
        /\ status.data # "ready" /\ Truth = "ready" => "gained" \in status.news

(* A subscriber is sent to a second checkout only by a billing page that   *)
(* does not know: /me is not answered, or was before the purchase, or the  *)
(* purchase itself has not arrived.                                        *)
CheckoutIsForNewcomers ==
    [][page = "billing" /\ page' = "stripe" /\ sub[session] # "none"
          => sub[session] = "bought" \/ bill.me = "none" \/ bill.old]_vars

(* A ready account is not sent to and fro for ever between the dashboard   *)
(* and the wizard: it is let in, or some page waits for the user.          *)
Waits ==
    \/ page \in {"login", "landing", "billing", "github", "stripe"}
    \/ page = "wizard" /\ wiz.at \in {"fatal", "workspace", "connect", "review", "result"}
    \/ page = "portfolio" /\ status.data = None /\ status.at = "idle"
NobodyBouncesForever ==
    page = "portfolio" /\ Truth = "ready" ~> Shown \/ Waits \/ Truth # "ready"
=============================================================================
