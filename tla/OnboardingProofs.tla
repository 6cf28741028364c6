--------------------------- MODULE OnboardingProofs ---------------------------
(***************************************************************************)
(* Proofs about Onboarding, for any accounts, projects and plans, and any  *)
(* number of failures, sign-outs and lapses.                               *)
(***************************************************************************)
EXTENDS Onboarding, TLAPS

USE OnboardingAssumption

(* Scans are of projects that exist, a wizard past its questions holds     *)
(* one, a visit to GitHub has a way back, and one to Stripe is about a     *)
(* plan.                                                                   *)
RowsExist ==
    /\ \A p \in pending \cup scanned : stage[p] # "absent"
    /\ wiz.project # None => stage[wiz.project] # "absent"
    /\ wiz.at \in {"scans", "conns", "connect", "detect", "review", "run"} => wiz.project # None
    /\ page = "github" => trip \in Trips
    /\ page = "stripe" => bill.choice \in Plans

TypeInv == TypeOK /\ RowsExist

LEMMA QueryTypes ==
  /\ NoQuery \in Queries
  /\ \A query \in Queries : /\ Fetched(query) \in Queries
                            /\ \A to : Mounts(to, query) \in Queries
                            /\ \A change \in News : Noted(query, change) \in Queries
<1>1. NoQuery \in Queries
  BY DEF NoQuery, Queries, News
<1>2. ASSUME NEW query \in Queries PROVE Fetched(query) \in Queries
  BY DEF Queries, News, Fetched
<1>3. ASSUME NEW query \in Queries, NEW change \in News PROVE Noted(query, change) \in Queries
  BY DEF Queries, News, Noted
<1> QED
  BY <1>1, <1>2, <1>3 DEF Mounts

LEMMA PageTypes ==
  /\ \A from \in Froms : Wizard(from) \in Wizards /\ Wizard(from).project = None
                          /\ Wizard(from).at \in {"confirm", "me"}
  /\ NoBill \in Bills
  BY DEF Froms, Wizard, Wizards, Steps, NoBill, Bills

(* A page starts from nothing. *)
LEMMA GotoType ==
  ASSUME NEW to \in Pages, NEW from \in Froms, Goto(to, from)
  PROVE  /\ page' \in Pages /\ wiz' \in Wizards /\ bill' \in Bills
         /\ wiz'.project = None /\ wiz'.at \in {"confirm", "me"}
  BY PageTypes DEF Goto

LEMMA TypeInit == Init => TypeInv
<1> SUFFICES ASSUME Init PROVE TypeInv
  OBVIOUS
<1>1. /\ status \in Queries /\ wiz \in Wizards /\ bill \in Bills
      /\ wiz.project = None /\ wiz.at \in {"confirm", "me"}
  BY QueryTypes, PageTypes DEF Init, Froms
<1> QED
  BY <1>1 DEF Init, TypeInv, TypeOK, RowsExist, Pages, Plans

LEMMA SettleType ==
  ASSUME TypeOK, NEW hasScanned \in BOOLEAN
  PROVE  Settle(hasScanned) \in Queries
  BY DEF TypeOK, Queries, Settle, Resolved, Answers, News

(* The requests of the guard. *)
LEMMA TypeFetches == TypeInv /\ Fetches => TypeInv'
<1> SUFFICES ASSUME TypeInv, Fetches PROVE TypeInv'
  OBVIOUS
<1> USE DEF TypeInv, server, counts
<1>1. status' \in Queries
  <2>1. status \in Queries /\ TypeOK
    BY DEF TypeOK
  <2>2. CASE FetchMe
    BY <2>1, <2>2 DEF FetchMe, Queries, Active
  <2>3. CASE FetchProjects
    BY <2>1, <2>3, SettleType DEF FetchProjects, Queries, Mine
  <2>4. ASSUME NEW p \in Projects PROVE NextProject(p) \in Queries
    BY <2>1, SettleType DEF NextProject, Queries
  <2>5. ASSUME NEW p \in Projects, FetchScans(p) PROVE status' \in Queries
    BY <2>1, <2>4, <2>5, SettleType DEF FetchScans, FetchedScans
  <2>6. ASSUME NEW p \in Projects, ScansFail(p) PROVE status' \in Queries
    <3>1. NextProject(p) \in Queries /\ Settle(FALSE) \in Queries
      BY <2>1, <2>4, SettleType
    <3>2. \A query \in Queries : /\ [query EXCEPT !.news = @ \cup {"gained"}] \in Queries
                                 /\ [query EXCEPT !.noise = @ \cup {"gained"}] \in Queries
      BY DEF Queries, News
    <3> QED
      BY <2>6, <3>1, <3>2 DEF ScansFail
  <2>7. CASE FetchFails
    BY <2>1, <2>7 DEF FetchFails, Queries, News
  <2> QED
    BY <2>2, <2>3, <2>5, <2>6, <2>7 DEF Fetches
<1>2. /\ UNCHANGED <<server, session, page, wiz, bill, trip>>
      /\ failures' \in 0..MaxFailures /\ breaks' = breaks
  <2>1. failures \in 0..MaxFailures
    BY DEF TypeOK
  <2>2. Fail => failures' \in 0..MaxFailures /\ breaks' = breaks
    BY <2>1 DEF Fail
  <2>3. CASE FetchMe
    BY <2>1, <2>3 DEF FetchMe
  <2>4. CASE FetchProjects
    BY <2>1, <2>4 DEF FetchProjects
  <2>5. CASE FetchFails
    BY <2>1, <2>2, <2>5 DEF FetchFails
  <2>6. ASSUME NEW p \in Projects, FetchScans(p) \/ ScansFail(p)
        PROVE  /\ UNCHANGED <<server, session, page, wiz, bill, trip>>
               /\ failures' \in 0..MaxFailures /\ breaks' = breaks
    BY <2>1, <2>2, <2>6 DEF FetchScans, ScansFail
  <2> QED
    BY <2>3, <2>4, <2>5, <2>6 DEF Fetches
<1> QED
  BY <1>1, <1>2 DEF TypeOK, RowsExist, counts, server

(* A step that goes to another page.                                       *)
LEMMA MoveType ==
  ASSUME TypeInv, NEW to \in Pages \ {"stripe"}, NEW from \in Froms, Goto(to, from),
         status' \in Queries, UNCHANGED <<pending, scanned>>,
         stage' \in [Projects -> {"absent", "new", "linked"}],
         \A p \in Projects : stage[p] # "absent" => stage'[p] # "absent",
         sub' \in [Users -> {"none", "bought", "active"}],
         plan' \in [Users -> [carried : Plans, bought : Plans]],
         session' \in Users \cup {None}, trip' \in Trips \cup {None},
         to = "github" => trip' \in Trips,
         failures' \in 0..MaxFailures, breaks' \in 0..MaxBreaks
  PROVE  TypeInv'
<1>1. page' = to /\ wiz' \in Wizards /\ bill' \in Bills
      /\ wiz'.project = None /\ wiz'.at \in {"confirm", "me"}
  BY GotoType DEF Goto
<1> QED
  BY <1>1 DEF TypeInv, TypeOK, RowsExist

(* A step that stays where it is, but for what the wizard holds.           *)
LEMMA TurnType ==
  ASSUME TypeInv, wiz' \in Wizards, UNCHANGED <<session, page, trip>>,
         bill' \in Bills, page = "stripe" => bill'.choice \in Plans, status' \in Queries,
         stage' \in [Projects -> {"absent", "new", "linked"}],
         \A p \in Projects : stage[p] # "absent" => stage'[p] # "absent",
         pending' \subseteq Projects, scanned' \subseteq Projects,
         \A p \in (pending' \cup scanned') \ (pending \cup scanned) : stage'[p] # "absent",
         wiz'.project = None \/ (wiz'.project \in Projects /\ stage'[wiz'.project] # "absent"),
         wiz'.at \in {"scans", "conns", "connect", "detect", "review", "run"}
            => wiz'.project # None,
         sub' \in [Users -> {"none", "bought", "active"}],
         plan' \in [Users -> [carried : Plans, bought : Plans]],
         failures' \in 0..MaxFailures, breaks' \in 0..MaxBreaks
  PROVE  TypeInv'
<1>1. TypeOK'
  BY DEF TypeInv, TypeOK
<1>2. \A p \in pending' \cup scanned' : stage'[p] # "absent"
  BY DEF TypeInv, TypeOK, RowsExist
<1> QED
  BY <1>1, <1>2 DEF TypeInv, RowsExist

(* What the types of the variables say, in the form the steps use.         *)
Typed ==
    /\ stage \in [Projects -> {"absent", "new", "linked"}]
    /\ pending \subseteq Projects /\ scanned \subseteq Projects
    /\ sub \in [Users -> {"none", "bought", "active"}]
    /\ plan \in [Users -> [carried : Plans, bought : Plans]]
    /\ session \in Users \cup {None} /\ page \in Pages
    /\ status \in Queries /\ bill \in Bills /\ trip \in Trips \cup {None}
    /\ failures \in 0..MaxFailures /\ breaks \in 0..MaxBreaks
    /\ Another \in News /\ {"gained"} \in News /\ {"lost"} \in News /\ {} \in News

LEMMA TypedInv == TypeInv => Typed
  BY DEF Typed, TypeInv, TypeOK, Another, News

LEMMA SpentType ==
  ASSUME Typed
  PROVE  /\ Breaks => breaks' \in 0..MaxBreaks
         /\ Fail => failures' \in 0..MaxFailures /\ breaks' = breaks
  BY DEF Typed, Breaks, Fail

(* The steps between pages.                                                *)
Journeys ==
    \/ \E u \in Users : SignIn(u, "portfolio") \/ SignIn(u, "wizard")
    \/ \E u \in Users, p \in Projects : SocialSignIn(u, p)
    \/ Reload("portfolio", "link") \/ Reload("wizard", "link") \/ Reload("billing", "link")
    \/ Reload("wizard", "new")
    \/ SignOut \/ GuardRedirects \/ WizardToPlans \/ Home \/ Continue
    \/ WizardSkips \/ WizardEnds \/ ConnectGithub \/ GithubConnects \/ GithubRefuses
    \/ \E p \in Projects : AddRepository(p)
    \/ BackToDashboard \/ Pay \/ CancelCheckout

LEMMA TypeJourneys == TypeInv /\ Journeys => TypeInv'
<1> SUFFICES ASSUME TypeInv, Journeys PROVE TypeInv'
  OBVIOUS
<1> USE TypedInv, SpentType, QueryTypes, MoveType DEF Typed, server, counts
<1> DEFINE KnownFroms ==
             /\ "link" \in Froms /\ "connected" \in Froms /\ "upgraded" \in Froms
             /\ "new" \in Froms
           KnownPages ==
             /\ {"login", "landing", "portfolio", "wizard", "billing", "github"} \subseteq Pages
             /\ \A data \in Answers : NextHref(data) \in Pages \ {"github", "stripe"}
<1>0. KnownFroms /\ KnownPages
  BY DEF Froms, Pages, Answers, NextHref
<1> HIDE DEF KnownFroms, KnownPages
<1>1. ASSUME NEW u \in Users, SignIn(u, "portfolio") \/ SignIn(u, "wizard") PROVE TypeInv'
  <2>1. \A to : Mounts(to, Noted(status, Another)) \in Queries
    OBVIOUS
  <2> QED
    BY <1>0, <1>1, <2>1 DEF SignIn, KnownFroms, KnownPages
<1>2. ASSUME NEW u \in Users, NEW p \in Projects, SocialSignIn(u, p) PROVE TypeInv'
  BY <1>0, <1>2 DEF SocialSignIn, KnownFroms, KnownPages
<1>3. ASSUME NEW to \in {"portfolio", "wizard", "billing"}, NEW from \in {"link", "new"},
             Reload(to, from)
      PROVE  TypeInv'
  <2>1. Mounts(to, NoQuery) \in Queries
    OBVIOUS
  <2> QED
    BY <1>0, <1>3, <2>1 DEF Reload, KnownFroms, KnownPages
<1>4. CASE SignOut
  BY <1>0, <1>4 DEF SignOut, KnownFroms, KnownPages
<1>5. CASE GuardRedirects
  BY <1>0, <1>5 DEF GuardRedirects, KnownFroms, KnownPages, Answers
<1>6. ASSUME NEW to \in {"landing", "portfolio", "wizard", "billing"}, Leaves(to), UNCHANGED counts
      PROVE  TypeInv'
  BY <1>0, <1>6 DEF Leaves, KnownFroms, KnownPages
<1>7. CASE WizardToPlans \/ Home \/ Continue \/ WizardSkips \/ WizardEnds \/ BackToDashboard
  BY <1>6, <1>7 DEF WizardToPlans, Home, Continue, WizardSkips, WizardEnds, BackToDashboard
<1>8. ASSUME NEW p \in Projects, NEW next \in {"wizard", "portfolio"}, ToGitHub(p, next),
             stage' \in [Projects -> {"absent", "new", "linked"}],
             \A q \in Projects : stage[q] # "absent" => stage'[q] # "absent"
      PROVE  TypeInv'
  <2>1. trip' \in Trips
    BY <1>8 DEF ToGitHub, Trips
  <2> QED
    BY <1>0, <1>8, <2>1 DEF ToGitHub, KnownFroms, KnownPages
<1>9. CASE ConnectGithub
  <2>1. wiz.project \in Projects
    BY <1>9 DEF ConnectGithub, Wiz, TypeInv, TypeOK, RowsExist, Wizards
  <2> QED
    BY <1>8, <1>9, <2>1 DEF ConnectGithub
<1>10. ASSUME NEW p \in Projects, AddRepository(p) PROVE TypeInv'
  BY <1>8, <1>10 DEF AddRepository
<1>11. CASE GithubConnects
  <2>1. trip \in Trips
    BY <1>11 DEF GithubConnects, TypeInv, RowsExist
  <2>2. trip.project \in Projects /\ trip.next \in {"wizard", "portfolio"}
    BY <2>1 DEF Trips
  <2> QED
    BY <1>0, <1>11, <2>2 DEF GithubConnects, KnownFroms, KnownPages
<1>12. CASE GithubRefuses
  BY <1>0, <1>12 DEF GithubRefuses, KnownFroms, KnownPages
<1>13. CASE Pay
  <2>1. bill.choice \in Plans
    BY <1>13 DEF Pay, TypeInv, RowsExist
  <2>2. sub' \in [Users -> {"none", "bought", "active"}]
    BY <1>13 DEF Pay
  <2>3. plan' \in [Users -> [carried : Plans, bought : Plans]]
    BY <1>13, <2>1 DEF Pay
  <2> QED
    BY <1>0, <1>13, <2>2, <2>3 DEF Pay, KnownFroms, KnownPages
<1>14. CASE CancelCheckout
  BY <1>0, <1>14 DEF CancelCheckout, KnownFroms, KnownPages
<1> QED
  BY <1>1, <1>2, <1>3, <1>4, <1>5, <1>7, <1>9, <1>10, <1>11, <1>12, <1>13, <1>14 DEF Journeys

(* The steps of the status, of the wizard, of the billing page, and of the *)
(* server.                                                                 *)
Stays ==
    \/ GoesStale \/ Focus \/ Forget
    \/ WizardConfirm \/ WizardGivesUp \/ WizardMe \/ WizardProjects \/ WizardFails
    \/ WizardResumes \/ WizardConnections \/ WizardRetries
    \/ \E p \in Projects : CreateProject(p) \/ ScanSettles(p)
    \/ Detect \/ ScanRefused \/ Detected \/ RunScan \/ ShowResult
    \/ \E p \in Plans : ChangePlan(p)
    \/ BillingMe
    \/ \E u \in Users : Webhook(u) \/ Lapse(u)

LEMMA TypeStays == TypeInv /\ Stays => TypeInv'
<1> SUFFICES ASSUME TypeInv, Stays PROVE TypeInv'
  OBVIOUS
<1> USE TypedInv, SpentType, QueryTypes, TurnType DEF Typed, server, counts
<1> DEFINE Held == /\ wiz \in Wizards
                   /\ wiz.project = None
                        \/ (wiz.project \in Projects /\ stage[wiz.project] # "absent")
                   /\ wiz.at \in {"scans", "conns", "connect", "detect", "review", "run"}
                        => wiz.project # None
                   /\ page = "stripe" => bill.choice \in Plans
<1>0. Held
  BY DEF TypeInv, TypeOK, RowsExist, Wizards
<1>0a. Noted(status, {"gained"}) \in Queries
  OBVIOUS
<1>1. CASE GoesStale
  <2>1. [status EXCEPT !.stale = TRUE] \in Queries
    BY DEF Queries
  <2> QED
    BY <1>0, <1>1, <2>1 DEF GoesStale
<1>2. CASE Focus \/ Forget
  BY <1>0, <1>2 DEF Focus, Forget
<1>3. ASSUME NEW w \in Wizards, Turns(w),
             stage' \in [Projects -> {"absent", "new", "linked"}],
             \A p \in Projects : stage[p] # "absent" => stage'[p] # "absent",
             pending' \subseteq Projects, UNCHANGED <<scanned, sub, plan>>,
             \A p \in pending' \ pending : stage'[p] # "absent",
             w.project = None \/ (w.project \in Projects /\ stage'[w.project] # "absent"),
             w.at \in {"scans", "conns", "connect", "detect", "review", "run"}
                => w.project # None,
             UNCHANGED counts \/ Fail
      PROVE  TypeInv'
  BY <1>0, <1>3 DEF Turns
<1>4. CASE WizardConfirm
  <2>1. [wiz EXCEPT !.at = "me"] \in Wizards /\ wiz'.project = wiz.project /\ wiz'.at = "me"
    BY <1>0, <1>4 DEF WizardConfirm, Wizards, Steps
  <2>2. sub' \in [Users -> {"none", "bought", "active"}]
    BY <1>4 DEF WizardConfirm
  <2>4. status' \in Queries
    BY <1>0a, <1>4 DEF WizardConfirm
  <2>3. plan' \in [Users -> [carried : Plans, bought : Plans]]
    BY <1>4 DEF WizardConfirm, Wiz
  <2> QED
    BY <1>0, <1>4, <2>1, <2>2, <2>3, <2>4 DEF WizardConfirm
<1>5. CASE WizardGivesUp
  <2>1. LET w == [wiz EXCEPT !.at = "me"]
        IN  w \in Wizards /\ w.project = wiz.project /\ w.at = "me"
    BY <1>0 DEF Wizards, Steps
  <2> QED
    BY <1>0, <1>3, <1>5, <2>1 DEF WizardGivesUp
<1>6. CASE WizardMe
  <2>1. LET w == [wiz EXCEPT !.at = "list", !.subscribed = Active(session)]
        IN  w \in Wizards /\ w.project = wiz.project /\ w.at = "list"
    BY <1>0 DEF Wizards, Steps, Active
  <2> QED
    BY <1>0, <1>3, <1>6, <2>1 DEF WizardMe
<1>7. CASE WizardProjects
  <2>1. CASE Mine = {} \/ wiz.from = "new"
    <3>1. LET w == [wiz EXCEPT !.at = "workspace"]
          IN  w \in Wizards /\ w.project = wiz.project /\ w.at = "workspace"
      BY <1>0 DEF Wizards, Steps
    <3> QED
      BY <1>0, <1>3, <1>7, <2>1, <3>1 DEF WizardProjects
  <2>2. ASSUME NEW p \in Mine, Turns([wiz EXCEPT !.at = "scans", !.project = p]),
               UNCHANGED <<server, counts>>
        PROVE  TypeInv'
    <3>1. p \in Projects /\ stage[p] # "absent"
      BY DEF Mine
    <3>2. [wiz EXCEPT !.at = "scans", !.project = p] \in Wizards
      BY <1>0, <3>1 DEF Wizards, Steps
    <3>3. [wiz EXCEPT !.at = "scans", !.project = p].project = p
      BY <1>0 DEF Wizards
    <3> QED
      BY <1>0, <1>3, <2>2, <3>1, <3>2, <3>3
  <2> QED
    BY <1>7, <2>1, <2>2 DEF WizardProjects
<1>8. CASE WizardFails
  <2>1. LET w == [wiz EXCEPT !.at = "fatal"]
        IN  w \in Wizards /\ w.project = wiz.project /\ w.at = "fatal"
    BY <1>0 DEF Wizards, Steps
  <2> QED
    BY <1>0, <1>3, <1>8, <2>1 DEF WizardFails
<1>9. CASE WizardRetries
  <2>1. wiz.from \in Froms
    BY <1>0 DEF Wizards
  <2> QED
    BY <1>0, <1>3, <1>9, <2>1, PageTypes DEF WizardRetries
<1>10. CASE WizardResumes
  <2>1. Resumed \in Wizards /\ Resumed.project = wiz.project
    BY <1>0 DEF Wizards, Steps, Resumed
  <2> QED
    BY <1>0, <1>3, <1>10, <2>1 DEF WizardResumes, Wiz
<1>11. CASE WizardConnections
  <2>1. \A w \in {[wiz EXCEPT !.at = "connect", !.picker = TRUE], [wiz EXCEPT !.at = "connect"]} :
           w \in Wizards /\ w.project = wiz.project
    BY <1>0 DEF Wizards, Steps
  <2> QED
    BY <1>0, <1>3, <1>11, <2>1 DEF WizardConnections, Wiz
<1>12. ASSUME NEW p \in Projects, CreateProject(p) PROVE TypeInv'
  <2>1. [wiz EXCEPT !.at = "connect", !.project = p] \in Wizards
    BY <1>0 DEF Wizards, Steps
  <2>2. [wiz EXCEPT !.at = "connect", !.project = p].project = p
    BY <1>0 DEF Wizards
  <2>3. /\ stage' \in [Projects -> {"absent", "new", "linked"}]
        /\ \A q \in Projects : stage[q] # "absent" => stage'[q] # "absent"
        /\ stage'[p] # "absent"
    BY <1>12 DEF CreateProject
  <2>4. Turns([wiz EXCEPT !.at = "connect", !.project = p])
        /\ UNCHANGED <<pending, scanned, sub, plan, counts>>
    BY <1>12 DEF CreateProject
  <2> QED
    BY <1>0, <1>3, <2>1, <2>2, <2>3, <2>4
<1>13. ASSUME NEW p \in Projects, ScanSettles(p) PROVE TypeInv'
  <2>1. stage[p] # "absent"
    BY <1>13 DEF ScanSettles, TypeInv, RowsExist
  <2>2. status' \in Queries
    BY <1>0a, <1>13 DEF ScanSettles
  <2>3. pending' \subseteq Projects /\ pending' \subseteq pending
    BY <1>13 DEF ScanSettles
  <2>4. scanned' \subseteq Projects /\ scanned' \subseteq scanned \cup {p}
    BY <1>13 DEF ScanSettles
  <2> QED
    BY <1>0, <1>13, <2>1, <2>2, <2>3, <2>4 DEF ScanSettles
<1>14. ASSUME NEW step \in Steps, Turns([wiz EXCEPT !.at = step]),
              pending' \in {pending, pending \cup {wiz.project}}, wiz.project # None,
              UNCHANGED <<stage, scanned, sub, plan>>, UNCHANGED counts \/ Fail
       PROVE  TypeInv'
  <2>1. LET w == [wiz EXCEPT !.at = step]
        IN  w \in Wizards /\ w.project = wiz.project
    BY <1>0 DEF Wizards
  <2> QED
    BY <1>0, <1>3, <1>14, <2>1
<1>15. CASE Detect \/ ScanRefused \/ Detected
  BY <1>0, <1>14, <1>15 DEF Detect, ScanRefused, Detected, Wiz, Steps
<1>16. CASE RunScan
  <2>1. PICK extra \in SUBSET {p \in Projects : Owner[p] = session /\ stage[p] = "absent"} :
          /\ stage' = [p \in Projects |-> IF p \in extra THEN "linked" ELSE stage[p]]
          /\ pending' = pending \cup {wiz.project} \cup extra
    BY <1>16 DEF RunScan
  <2>2. LET w == [wiz EXCEPT !.at = "run"]
        IN  w \in Wizards /\ w.project = wiz.project /\ w.project \in Projects
    BY <1>0, <1>16 DEF RunScan, Wiz, Wizards, Steps
  <2>3. /\ stage' \in [Projects -> {"absent", "new", "linked"}]
        /\ \A p \in Projects : stage[p] # "absent" => stage'[p] # "absent"
        /\ \A p \in extra : stage'[p] # "absent"
    BY <2>1
  <2>4. pending' \subseteq Projects /\ \A p \in pending' \ pending : stage'[p] # "absent"
    BY <1>0, <2>1, <2>2, <2>3
  <2> QED
    BY <1>0, <1>3, <1>16, <2>2, <2>3, <2>4 DEF RunScan
<1>17. CASE ShowResult
  <2>1. [wiz EXCEPT !.at = "result"] \in Wizards
    BY <1>0 DEF Wizards, Steps
  <2>2. [status EXCEPT !.stale = status.data # None] \in Queries
    BY DEF Queries
  <2> QED
    BY <1>0, <1>17, <2>1, <2>2 DEF ShowResult, Wiz
<1>18. ASSUME NEW p \in Plans, ChangePlan(p) PROVE TypeInv'
  <2>1. plan' \in [Users -> [carried : Plans, bought : Plans]]
    BY <1>18 DEF ChangePlan
  <2>2. bill' \in Bills
    BY <1>18 DEF ChangePlan, Bills
  <2>3. page = "billing"
    BY <1>18 DEF ChangePlan, Choosing
  <2> QED
    BY <1>0, <1>18, <2>1, <2>2, <2>3 DEF ChangePlan
<1>19. CASE BillingMe
  <2>1. session \in Users
    BY <1>19 DEF BillingMe
  <2>2. plan[session].carried \in Plans
    BY <2>1
  <2>3. bill' \in Bills
    BY <1>19, <2>2 DEF BillingMe, NoBill, Bills
  <2> QED
    BY <1>0, <1>19, <2>3 DEF BillingMe
<1>20. ASSUME NEW u \in Users, NEW from, NEW to \in {"none", "active"}, NEW change \in News,
              SubMoves(u, from, to, change),
              plan' \in [Users -> [carried : Plans, bought : Plans]],
              failures' \in 0..MaxFailures, breaks' \in 0..MaxBreaks
       PROVE  TypeInv'
  <2>1. bill' \in Bills /\ bill'.choice = bill.choice
    BY <1>20 DEF SubMoves, Bills
  <2>2. status' \in Queries /\ sub' \in [Users -> {"none", "bought", "active"}]
    BY <1>20 DEF SubMoves
  <2> QED
    BY <1>0, <1>20, <2>1, <2>2 DEF SubMoves
<1>21. ASSUME NEW u \in Users, Webhook(u) PROVE TypeInv'
  <2>1. plan' \in [Users -> [carried : Plans, bought : Plans]]
    BY <1>21 DEF Webhook
  <2> QED
    BY <1>20, <1>21, <2>1 DEF Webhook
<1>22. ASSUME NEW u \in Users, Lapse(u) PROVE TypeInv'
  BY <1>20, <1>22 DEF Lapse
<1> QED
  BY <1>1, <1>2, <1>4, <1>5, <1>6, <1>7, <1>8, <1>9, <1>10, <1>11, <1>12, <1>13, <1>15, <1>16,
     <1>17, <1>18, <1>19, <1>21, <1>22 DEF Stays

LEMMA TypeCheckout ==
  ASSUME TypeInv, NEW p \in Plans, Checkout(p)
  PROVE  TypeInv'
<1>1. bill' \in Bills /\ bill'.choice = p
  BY DEF Checkout, NoBill, Bills
<1> QED
  BY <1>1, QueryTypes DEF Checkout, TypeInv, TypeOK, RowsExist, server, counts, Pages

LEMMA NextSplits ==
  ASSUME Next
  PROVE  Fetches \/ Journeys \/ Stays \/ \E p \in Plans : Checkout(p)
  BY DEF Next, Enters, Journeys, Stays

LEMMA TypeStep == TypeInv /\ [Next]_vars => TypeInv'
<1>1. TypeInv /\ UNCHANGED vars => TypeInv'
  BY DEF TypeInv, TypeOK, RowsExist, vars, server, counts
<1> QED
  BY <1>1, NextSplits, TypeFetches, TypeJourneys, TypeStays, TypeCheckout

(* Every variable has its type, and no row is used that does not exist.    *)
THEOREM TypeCorrect == Spec => []TypeInv
  BY TypeInit, TypeStep, PTL DEF Spec

-----------------------------------------------------------------------------
(* What the billing page says of the account is true, unless it has        *)
(* changed since.                                                          *)
BillInv ==
    bill.me # "none" =>
        /\ page = "billing"
        /\ bill.old \/ (bill.me = "active" <=> Active(session))

LEMMA JourneysForgetBill == Journeys => bill'.me = "none"
  BY DEF Journeys, SignIn, SocialSignIn, Reload, SignOut, GuardRedirects, WizardToPlans, Home,
         Continue, WizardSkips, WizardEnds, ConnectGithub, GithubConnects, GithubRefuses,
         AddRepository, BackToDashboard, Pay, CancelCheckout, ToGitHub, Leaves, Goto, NoBill

(* Every other step keeps the page and the account, and a subscription     *)
(* that moves makes what the page says old.                                *)
LEMMA StaysKeepBill ==
  ASSUME TypeInv, BillInv, Stays
  PROVE  BillInv'
<1> USE DEF server, counts, Turns
<1>1. CASE UNCHANGED <<page, bill, session, sub>>
  BY <1>1 DEF BillInv, Active
<1>2. CASE GoesStale \/ Focus \/ Forget \/ WizardGivesUp \/ WizardMe \/ WizardProjects
           \/ WizardFails \/ WizardResumes \/ WizardConnections \/ WizardRetries
           \/ (\E p \in Projects : CreateProject(p) \/ ScanSettles(p))
           \/ Detect \/ ScanRefused \/ Detected \/ RunScan \/ ShowResult
  BY <1>1, <1>2 DEF GoesStale, Focus, Forget, WizardGivesUp, WizardMe, WizardProjects,
     WizardFails, WizardResumes, WizardConnections, WizardRetries, CreateProject, ScanSettles,
     Detect, ScanRefused, Detected, RunScan, ShowResult
<1>3. CASE WizardConfirm
  BY <1>3 DEF WizardConfirm, Wiz, BillInv
<1>4. ASSUME NEW p \in Plans, ChangePlan(p) PROVE BillInv'
  <2>1. /\ bill'.me = bill.me /\ bill'.old = bill.old
        /\ UNCHANGED <<page, session, sub>>
    BY <1>4 DEF ChangePlan, TypeInv, TypeOK, Bills
  <2> QED
    BY <2>1 DEF BillInv, Active
<1>5. CASE BillingMe
  BY <1>5 DEF BillingMe, BillInv, NoBill, Active
<1>6. ASSUME NEW u \in Users, NEW from, NEW to, NEW change, SubMoves(u, from, to, change)
      PROVE  BillInv'
  <2>1. page' = page /\ session' = session
    BY <1>6 DEF SubMoves
  <2>2. CASE u = session
    <3>1. bill'.me = bill.me /\ bill'.old = (bill.me # "none")
      BY <1>6, <2>2 DEF SubMoves, TypeInv, TypeOK, Bills
    <3> QED
      BY <2>1, <3>1 DEF BillInv
  <2>3. CASE u # session
    <3>1. bill' = bill /\ (session \in Users => sub'[session] = sub[session])
      BY <1>6, <2>3 DEF SubMoves, TypeInv, TypeOK
    <3>2. session \in Users \/ session = None
      BY DEF TypeInv, TypeOK
    <3> QED
      BY <2>1, <3>1, <3>2 DEF BillInv, Active
  <2> QED
    BY <2>2, <2>3
<1>7. ASSUME NEW u \in Users, Webhook(u) \/ Lapse(u) PROVE BillInv'
  BY <1>6, <1>7 DEF Webhook, Lapse
<1> QED
  BY <1>2, <1>3, <1>4, <1>5, <1>7 DEF Stays

LEMMA BillStep == TypeInv /\ BillInv /\ [Next]_vars => BillInv'
<1> SUFFICES ASSUME TypeInv, BillInv, [Next]_vars PROVE BillInv'
  OBVIOUS
<1>1. CASE UNCHANGED vars
  BY <1>1 DEF BillInv, Active, vars, server, counts
<1>2. CASE Fetches
  <2>1. UNCHANGED <<server, session, page, bill>>
    BY <1>2 DEF Fetches, FetchMe, FetchProjects, FetchFails, FetchScans, ScansFail
  <2> QED
    BY <2>1 DEF BillInv, Active, server
<1>3. CASE Journeys
  BY <1>3, JourneysForgetBill DEF BillInv
<1>4. CASE Stays
  BY <1>4, StaysKeepBill
<1>5. ASSUME NEW p \in Plans, Checkout(p) PROVE BillInv'
  BY <1>5 DEF Checkout, NoBill, BillInv
<1> QED
  BY <1>1, <1>2, <1>3, <1>4, <1>5, NextSplits

LEMMA BillAlways == Spec => []BillInv
<1>1. Init => BillInv
  BY DEF Init, NoBill, BillInv
<1> QED
  BY <1>1, BillStep, TypeCorrect, PTL DEF Spec

(* Only the checkout leads from the billing page to Stripe, and it looks   *)
(* at what the page says.                                                  *)
LEMMA OnlyCheckoutSells ==
  ASSUME TypeInv, Next, page = "billing", page' = "stripe"
  PROVE  \E p \in Plans : Checkout(p)
<1> USE DEF server, counts, Turns
<1>1. CASE Fetches
  BY <1>1 DEF Fetches, FetchMe, FetchProjects, FetchFails, FetchScans, ScansFail
<1>2. CASE Stays
  BY <1>2 DEF Stays, GoesStale, Focus, Forget, WizardConfirm, WizardGivesUp, WizardMe,
     WizardProjects, WizardFails, WizardResumes, WizardConnections, WizardRetries, CreateProject,
     ScanSettles, Detect, ScanRefused, Detected, RunScan, ShowResult, ChangePlan, BillingMe,
     Webhook, Lapse, SubMoves
<1>3. CASE Journeys
  BY <1>3 DEF Journeys, SignIn, SocialSignIn, Reload, SignOut, GuardRedirects, WizardToPlans,
     Home, Continue, WizardSkips, WizardEnds, ConnectGithub, GithubConnects, GithubRefuses,
     AddRepository, BackToDashboard, Pay, CancelCheckout, ToGitHub, Leaves, Goto, NextHref, Shown,
     Wiz
<1> QED
  BY <1>1, <1>2, <1>3, NextSplits

(* A subscriber is sent to a second checkout only by a page that has not   *)
(* heard: of /me, of a change, or of the purchase.                         *)
THEOREM OnlyTheUnawareBuyTwice == Spec => CheckoutIsForNewcomers
<1> DEFINE Sold == page = "billing" /\ page' = "stripe" /\ sub[session] # "none"
                      => sub[session] = "bought" \/ bill.me = "none" \/ bill.old
<1>1. ASSUME TypeInv, BillInv, [Next]_vars PROVE Sold
  <2> SUFFICES ASSUME page = "billing", page' = "stripe", sub[session] # "none",
                      bill.me # "none", ~bill.old
               PROVE  sub[session] = "bought"
    OBVIOUS
  <2>1. Next
    BY <1>1 DEF vars
  <2>2. PICK p \in Plans : Checkout(p)
    BY <1>1, <2>1, OnlyCheckoutSells
  <2>3. session \in Users
    BY <2>2 DEF Checkout, Buys, BuysAgain, Choosing, OnboardingAssumption
  <2>4. ~Active(session)
    BY <1>1, <2>2 DEF Checkout, Buys, BuysAgain, BillInv
  <2> QED
    BY <1>1, <2>3, <2>4 DEF Active, TypeInv, TypeOK
<1>2. ASSUME TypeInv, BillInv, [Next]_vars PROVE [Sold]_vars
  BY <1>1, <1>2
<1> QED
  BY <1>2, TypeCorrect, BillAlways, PTL DEF Spec, CheckoutIsForNewcomers

-----------------------------------------------------------------------------
(* Whatever the guard's answer, or what its fetch has read so far, is      *)
(* wrong about has changed since, and is noted.                            *)
Has == \E p \in scanned : Owner[p] = session
Ready == Has /\ Active(session)

AnswerInv ==
    status.data # None =>
        /\ status.data = "ready" /\ ~Ready => "lost" \in status.news
        /\ status.data # "ready" /\ Ready => "gained" \in status.news

FetchInv ==
    /\ status.at \in {"list", "scans"} =>
          /\ status.paid /\ ~Active(session) => "lost" \in status.noise
          /\ ~status.paid /\ Active(session) => "gained" \in status.noise
    /\ status.at = "scans" /\ Has /\ (\A p \in scanned \cap status.todo : Owner[p] # session)
          => "gained" \in status.noise

NewsInv == AnswerInv /\ FetchInv

(* A scan is of a project that exists, so that the guard looks for it.     *)
LEMMA TruthIsReady ==
  ASSUME TypeInv
  PROVE  /\ Mine \cap scanned # {} <=> Has
         /\ Truth = "ready" <=> Ready
  BY DEF TypeInv, TypeOK, RowsExist, Mine, Has, Ready, Truth, Resolved

(* After a change of everything, nothing is claimed.                       *)
LEMMA AllIsNews ==
  ASSUME status'.data # None => Another \subseteq status'.news,
         status'.at \in {"list", "scans"} => Another \subseteq status'.noise
  PROVE  NewsInv'
  BY DEF NewsInv, AnswerInv, FetchInv, Another

(* Status and fetch keep what they know, or drop it.                       *)
Keeps(old, new) ==
    /\ new.data # None => new.data = old.data /\ old.news \subseteq new.news
    /\ new.at \in {"list", "scans"} =>
          /\ new.at = old.at /\ new.paid = old.paid /\ new.todo = old.todo
          /\ old.noise \subseteq new.noise

LEMMA KeepsNews ==
  ASSUME NewsInv, Keeps(status, status'), UNCHANGED <<scanned, session>>,
         Active(session)' = Active(session)
  PROVE  NewsInv'
<1>1. Has' = Has /\ Ready' = Ready
  BY DEF Has, Ready
<1> QED
  BY <1>1 DEF NewsInv, AnswerInv, FetchInv, Keeps

LEMMA KeepsCases ==
  ASSUME NEW query \in Queries
  PROVE  /\ Keeps(query, query) /\ Keeps(query, NoQuery) /\ Keeps(query, Fetched(NoQuery))
         /\ Keeps(query, Fetched(query)) /\ \A to : Keeps(query, Mounts(to, query))
         /\ Keeps(query, [query EXCEPT !.at = "me"])
         /\ Keeps(query, [query EXCEPT !.at = "idle", !.noise = {}])
<1>1. Keeps(query, query) /\ Keeps(query, NoQuery) /\ Keeps(query, Fetched(NoQuery))
  BY DEF Keeps, NoQuery, Fetched
<1>2. Keeps(query, Fetched(query))
  BY DEF Keeps, Fetched, Queries
<1>3. /\ Keeps(query, [query EXCEPT !.at = "me"])
      /\ Keeps(query, [query EXCEPT !.at = "idle", !.noise = {}])
  BY DEF Keeps, Queries
<1> QED
  BY <1>1, <1>2, <1>3 DEF Mounts

LEMMA NotedCases ==
  ASSUME NEW query \in Queries, NEW change \in News
  PROVE  LET new == Noted(query, change)
         IN  /\ new.data = query.data /\ new.at = query.at
             /\ new.paid = query.paid /\ new.todo = query.todo
             /\ new.data # None => new.news = query.news \cup change
             /\ new.at # "idle" => new.noise = query.noise \cup change
  BY DEF Noted, Queries

(* What is gained is noted, and what is lost.                              *)
LEMMA GainNoted ==
  ASSUME TypeInv, NewsInv, status' = Noted(status, {"gained"}), session' = session,
         scanned \subseteq scanned', Active(session) => Active(session)'
  PROVE  NewsInv'
<1>1. {"gained"} \in News /\ status \in Queries
  BY DEF News, TypeInv, TypeOK
<1>2. Has => Has'
  BY DEF Has
<1>3. /\ status'.data = status.data /\ status'.at = status.at
      /\ status'.paid = status.paid /\ status'.todo = status.todo
      /\ status'.data # None => status'.news = status.news \cup {"gained"}
      /\ status'.at # "idle" => status'.noise = status.noise \cup {"gained"}
  BY <1>1, NotedCases
<1>4. AnswerInv'
  BY <1>2, <1>3 DEF NewsInv, AnswerInv, Ready
<1>5. FetchInv'
  BY <1>3 DEF NewsInv, FetchInv
<1> QED
  BY <1>4, <1>5 DEF NewsInv

LEMMA LossNoted ==
  ASSUME TypeInv, NewsInv, status' = Noted(status, {"lost"}), session' = session,
         scanned' = scanned, ~Active(session)'
  PROVE  NewsInv'
<1>1. {"lost"} \in News /\ status \in Queries
  BY DEF News, TypeInv, TypeOK
<1>2. Has' = Has
  BY DEF Has
<1>3. /\ status'.data = status.data /\ status'.at = status.at
      /\ status'.paid = status.paid /\ status'.todo = status.todo
      /\ status'.data # None => status'.news = status.news \cup {"lost"}
      /\ status'.at # "idle" => status'.noise = status.noise \cup {"lost"}
  BY <1>1, NotedCases
<1>4. AnswerInv'
  BY <1>3 DEF AnswerInv, Ready
<1>5. FetchInv'
  BY <1>2, <1>3 DEF NewsInv, FetchInv
<1> QED
  BY <1>4, <1>5 DEF NewsInv

(* An answer is as good as what the fetch read.                            *)
LEMMA SettleNews ==
  ASSUME TypeInv, FetchInv, NEW found \in BOOLEAN, NEW extra \in News,
         status.at \in {"list", "scans"},
         status'.data = Resolved(found, status.paid),
         status'.news = status.noise \cup extra, status'.at = "idle",
         UNCHANGED <<scanned, session>>, Active(session)' = Active(session),
         found => Has, ~found => ~Has \/ "gained" \in status.noise \cup extra
  PROVE  NewsInv'
<1>2. Has' = Has /\ Ready' = (Has /\ Active(session))
  BY DEF Has, Ready
<1>3. status.paid \in BOOLEAN
  BY DEF TypeInv, TypeOK, Queries
<1>4. /\ status.paid /\ ~Active(session) => "lost" \in status.noise
      /\ ~status.paid /\ Active(session) => "gained" \in status.noise
  BY DEF FetchInv
<1>5. FetchInv'
  BY DEF FetchInv
<1>6. AnswerInv'
  BY <1>2, <1>3, <1>4 DEF AnswerInv, Resolved
<1> QED
  BY <1>5, <1>6 DEF NewsInv

LEMMA NewsFetches == TypeInv /\ NewsInv /\ Fetches => NewsInv'
<1> SUFFICES ASSUME TypeInv, NewsInv, Fetches PROVE NewsInv'
  OBVIOUS
<1> USE DEF server
<1>0. /\ UNCHANGED <<scanned, session, sub>> /\ Active(session)' = Active(session)
      /\ Has' = Has /\ Ready' = Ready /\ status \in Queries
  BY DEF Fetches, FetchMe, FetchProjects, FetchFails, FetchScans, ScansFail, Active, Has, Ready,
     TypeInv, TypeOK
<1>1. CASE FetchMe
  <2>1. /\ status'.data = status.data /\ status'.news = status.news
        /\ status'.at = "list" /\ status'.paid = Active(session)
    BY <1>0, <1>1 DEF FetchMe, Queries
  <2> QED
    BY <1>0, <2>1 DEF NewsInv, AnswerInv, FetchInv
<1>2. CASE FetchProjects /\ Mine = {}
  <2>1. /\ status'.data = Resolved(FALSE, status.paid) /\ status'.at = "idle"
        /\ status'.news = status.noise \cup {}
    BY <1>0, <1>2 DEF FetchProjects, Settle, Queries
  <2>2. ~Has /\ {} \in News
    BY <1>2, TruthIsReady DEF News
  <2>3. status.at \in {"list", "scans"}
    BY <1>2 DEF FetchProjects, Fetching
  <2> QED
    BY <1>0, <2>1, <2>2, <2>3, SettleNews DEF NewsInv
<1>3. CASE FetchProjects /\ Mine # {}
  <2>1. /\ status'.data = status.data /\ status'.news = status.news
        /\ status'.at = "scans" /\ status'.paid = status.paid
        /\ status'.todo = Mine /\ status'.noise = status.noise /\ status.at = "list"
    BY <1>0, <1>3 DEF FetchProjects, Fetching, Queries
  <2>2. Has => \E p \in scanned \cap Mine : Owner[p] = session
    BY TruthIsReady DEF Mine
  <2> QED
    BY <1>0, <2>1, <2>2 DEF NewsInv, AnswerInv, FetchInv
<1>4. ASSUME NEW p \in Projects, FetchScans(p), p \in scanned PROVE NewsInv'
  <2>1. /\ status'.data = Resolved(TRUE, status.paid) /\ status'.at = "idle"
        /\ status'.news = status.noise \cup {}
    BY <1>0, <1>4 DEF FetchScans, FetchedScans, Settle, Queries
  <2>2. Has /\ {} \in News
    BY <1>4 DEF FetchScans, Has, News
  <2>3. status.at \in {"list", "scans"}
    BY <1>4 DEF FetchScans, Fetching
  <2> QED
    BY <1>0, <2>1, <2>2, <2>3, SettleNews DEF NewsInv
<1>5. ASSUME NEW p \in Projects, FetchScans(p), p \notin scanned, status.todo = {p}
      PROVE  NewsInv'
  <2>1. /\ status'.data = Resolved(FALSE, status.paid) /\ status'.at = "idle"
        /\ status'.news = status.noise \cup {}
    BY <1>0, <1>5 DEF FetchScans, FetchedScans, NextProject, Settle, Queries
  <2>2. status.at = "scans" /\ {} \in News
    BY <1>5 DEF FetchScans, Fetching, News
  <2>3. ~Has \/ "gained" \in status.noise \cup {}
    BY <1>5, <2>2 DEF NewsInv, FetchInv
  <2> QED
    BY <1>0, <2>1, <2>2, <2>3, SettleNews DEF NewsInv
<1>6. ASSUME NEW p \in Projects, NEW extra \in News, status.at = "scans",
             p \notin scanned \/ "gained" \in extra,
             status'.data = status.data, status'.news = status.news, status'.at = "scans",
             status'.paid = status.paid, status'.todo = status.todo \ {p},
             status'.noise = status.noise \cup extra
      PROVE  NewsInv'
  BY <1>0, <1>6 DEF NewsInv, AnswerInv, FetchInv
<1>7. ASSUME NEW p \in Projects, FetchScans(p), p \notin scanned, status.todo # {p}
      PROVE  NewsInv'
  <2>1. /\ status'.data = status.data /\ status'.news = status.news
        /\ status'.at = "scans" /\ status.at = "scans" /\ status'.paid = status.paid
        /\ status'.todo = status.todo \ {p} /\ status'.noise = status.noise \cup {}
    BY <1>0, <1>7 DEF FetchScans, FetchedScans, NextProject, Fetching, Queries
  <2>2. {} \in News
    BY DEF News
  <2> QED
    BY <1>6, <1>7, <2>1, <2>2
<1>8. ASSUME NEW p \in Projects, ScansFail(p), status.todo = {p} PROVE NewsInv'
  <2>1. /\ status'.data = Resolved(FALSE, status.paid) /\ status'.at = "idle"
        /\ status'.news = status.noise \cup {"gained"}
    BY <1>0, <1>8 DEF ScansFail, Settle, Queries
  <2>2. status.at = "scans" /\ {"gained"} \in News
    BY <1>8 DEF ScansFail, News
  <2> QED
    BY <1>0, <2>1, <2>2, SettleNews DEF NewsInv
<1>9. ASSUME NEW p \in Projects, ScansFail(p), status.todo # {p} PROVE NewsInv'
  <2>1. /\ status'.data = status.data /\ status'.news = status.news
        /\ status'.at = "scans" /\ status.at = "scans" /\ status'.paid = status.paid
        /\ status'.todo = status.todo \ {p} /\ status'.noise = status.noise \cup {"gained"}
    BY <1>0, <1>9 DEF ScansFail, NextProject, Queries
  <2>2. {"gained"} \in News
    BY DEF News
  <2> QED
    BY <1>6, <2>1, <2>2
<1>10. CASE FetchFails
  <2>1. Keeps(status, status')
    BY <1>0, <1>10, KeepsCases DEF FetchFails
  <2> QED
    BY <1>0, <2>1, KeepsNews
<1> QED
  BY <1>1, <1>2, <1>3, <1>4, <1>5, <1>7, <1>8, <1>9, <1>10 DEF Fetches

LEMMA NewsJourneys == TypeInv /\ NewsInv /\ Journeys => NewsInv'
<1> SUFFICES ASSUME TypeInv, NewsInv, Journeys PROVE NewsInv'
  OBVIOUS
<1> USE DEF server
<1>0. status \in Queries /\ Another \in News
  BY DEF TypeInv, TypeOK, News, Another
<1>1. ASSUME Keeps(status, status'), UNCHANGED <<scanned, session, sub>> PROVE NewsInv'
  BY <1>1, KeepsNews DEF Active
<1>2. LET new == Noted(status, Another)
      IN  \A q \in {new} \cup {Mounts(to, new) : to \in Pages} :
             /\ q.data # None => Another \subseteq q.news
             /\ q.at \in {"list", "scans"} => Another \subseteq q.noise
  <2>1. Noted(status, Another) \in Queries
    BY <1>0, QueryTypes
  <2>2. /\ Noted(status, Another).data # None => Another \subseteq Noted(status, Another).news
        /\ Noted(status, Another).at # "idle" => Another \subseteq Noted(status, Another).noise
    BY <1>0, NotedCases
  <2>3. \A to : Keeps(Noted(status, Another), Mounts(to, Noted(status, Another)))
    BY <2>1, KeepsCases
  <2> QED
    BY <2>2, <2>3 DEF Keeps
<1>3. ASSUME NEW u \in Users, SignIn(u, "portfolio") \/ SignIn(u, "wizard") PROVE NewsInv'
  BY <1>2, <1>3, AllIsNews DEF SignIn, Pages
<1>4. CASE SignOut
  BY <1>2, <1>4, AllIsNews DEF SignOut
<1>5. ASSUME NEW u \in Users, NEW p \in Projects, SocialSignIn(u, p) PROVE NewsInv'
  BY <1>5, AllIsNews DEF SocialSignIn, NoQuery
<1>6. ASSUME NEW to \in {"portfolio", "wizard", "billing"}, NEW from, Reload(to, from) PROVE NewsInv'
  <2>1. Keeps(status, status')
    BY <1>0, <1>6, KeepsCases DEF Reload, Mounts
  <2> QED
    BY <1>1, <1>6, <2>1 DEF Reload
<1>7. ASSUME NEW to, Leaves(to) PROVE NewsInv'
  BY <1>0, <1>1, <1>7, KeepsCases DEF Leaves
<1>8. CASE WizardToPlans \/ Home \/ Continue \/ WizardSkips \/ WizardEnds \/ BackToDashboard
  BY <1>7, <1>8 DEF WizardToPlans, Home, Continue, WizardSkips, WizardEnds, BackToDashboard
<1>9. ASSUME NEW p, NEW next, ToGitHub(p, next) PROVE NewsInv'
  BY <1>0, <1>1, <1>9, KeepsCases DEF ToGitHub
<1>10. ASSUME NEW p \in Projects, AddRepository(p) PROVE NewsInv'
  BY <1>9, <1>10 DEF AddRepository
<1>11. CASE ConnectGithub
  BY <1>9, <1>11 DEF ConnectGithub
<1>12. CASE GuardRedirects \/ GithubRefuses \/ CancelCheckout
  BY <1>0, <1>1, <1>12, KeepsCases DEF GuardRedirects, GithubRefuses, CancelCheckout
<1>13. CASE GithubConnects
  BY <1>0, <1>1, <1>13, KeepsCases DEF GithubConnects
<1>14. CASE Pay
  <2>1. Active(session)' = Active(session) /\ UNCHANGED <<scanned, session, status>>
    BY <1>14 DEF Pay, Active, TypeInv, TypeOK
  <2>2. Keeps(status, status')
    BY <1>0, <2>1, KeepsCases
  <2> QED
    BY <2>1, <2>2, KeepsNews
<1> QED
  BY <1>3, <1>4, <1>5, <1>6, <1>8, <1>10, <1>11, <1>12, <1>13, <1>14 DEF Journeys

LEMMA NewsStays == TypeInv /\ NewsInv /\ Stays => NewsInv'
<1> SUFFICES ASSUME TypeInv, NewsInv, Stays PROVE NewsInv'
  OBVIOUS
<1> USE DEF server, Turns
<1>0. status \in Queries
  BY DEF TypeInv, TypeOK
<1>1. ASSUME Keeps(status, status'), UNCHANGED <<scanned, session, sub>> PROVE NewsInv'
  BY <1>1, KeepsNews DEF Active
<1>2. CASE WizardGivesUp \/ WizardMe \/ WizardProjects \/ WizardFails \/ WizardResumes
           \/ WizardConnections \/ WizardRetries \/ (\E p \in Projects : CreateProject(p))
           \/ Detect \/ ScanRefused \/ Detected \/ RunScan
           \/ (\E p \in Plans : ChangePlan(p)) \/ BillingMe
  <2>1. UNCHANGED <<scanned, session, sub, status>>
    BY <1>2 DEF WizardGivesUp, WizardMe, WizardProjects, WizardFails, WizardResumes,
       WizardConnections, WizardRetries, CreateProject, Detect, ScanRefused, Detected, RunScan,
       ChangePlan, BillingMe
  <2> QED
    BY <1>0, <1>1, <2>1, KeepsCases
<1>3. CASE GoesStale \/ ShowResult
  <2>1. Keeps(status, status')
    BY <1>0, <1>3 DEF GoesStale, ShowResult, Keeps, Queries
  <2> QED
    BY <1>1, <1>3, <2>1 DEF GoesStale, ShowResult
<1>4. CASE Focus \/ Forget
  BY <1>0, <1>1, <1>4, KeepsCases DEF Focus, Forget
<1>5. CASE WizardConfirm
  <2>1. CASE status' = Noted(status, {"gained"})
    <3>1. UNCHANGED <<session, scanned>> /\ (Active(session) => Active(session)')
      BY <1>5 DEF WizardConfirm, Active, TypeInv, TypeOK
    <3> QED
      BY <2>1, <3>1, GainNoted
  <2>2. CASE UNCHANGED <<sub, plan, status>>
    BY <1>0, <1>1, <1>5, <2>2, KeepsCases DEF WizardConfirm
  <2> QED
    BY <1>5, <2>1, <2>2 DEF WizardConfirm
<1>6. ASSUME NEW p \in Projects, ScanSettles(p) PROVE NewsInv'
  <2>1. UNCHANGED <<sub, session>> /\ Active(session)' = Active(session)
    BY <1>6 DEF ScanSettles, Active
  <2>2. CASE UNCHANGED <<scanned, status>>
    BY <1>0, <1>1, <2>1, <2>2, KeepsCases
  <2>3. CASE scanned' = scanned \cup {p} /\ Owner[p] = session
             /\ status' = Noted(status, {"gained"})
    BY <2>1, <2>3, GainNoted
  <2>4. CASE scanned' = scanned \cup {p} /\ Owner[p] # session /\ status' = status
    <3>1. Has' = Has /\ Ready' = Ready
      BY <2>1, <2>4 DEF Has, Ready
    <3> QED
      BY <2>1, <2>4, <3>1 DEF NewsInv, AnswerInv, FetchInv
  <2> QED
    BY <1>6, <2>2, <2>3, <2>4 DEF ScanSettles
<1>7. ASSUME NEW u \in Users, NEW from, NEW to, NEW change, SubMoves(u, from, to, change),
             u # session
      PROVE  NewsInv'
  <2>1. UNCHANGED <<scanned, session, status>> /\ Active(session)' = Active(session)
    BY <1>7 DEF SubMoves, Active, TypeInv, TypeOK
  <2> QED
    BY <1>0, <2>1, KeepsNews, KeepsCases
<1>8. ASSUME NEW u \in Users, SubMoves(u, "bought", "active", {"gained"}) PROVE NewsInv'
  <2>1. CASE u = session
    <3>1. /\ UNCHANGED <<scanned, session>> /\ status' = Noted(status, {"gained"})
          /\ ~Active(session)
      BY <1>8, <2>1 DEF SubMoves, Active
    <3> QED
      BY <3>1, GainNoted
  <2> QED
    BY <1>7, <1>8, <2>1
<1>9. ASSUME NEW u \in Users, SubMoves(u, "active", "active", {}) PROVE NewsInv'
  <2>1. CASE u = session
    <3>1. /\ UNCHANGED <<scanned, session, sub>> /\ status' = Noted(status, {})
      BY <1>9, <2>1 DEF SubMoves, TypeInv, TypeOK
    <3>2. {} \in News
      BY DEF News
    <3>3. Keeps(status, status')
      BY <1>0, <3>1, <3>2, NotedCases DEF Keeps
    <3> QED
      BY <1>1, <3>1, <3>3
  <2> QED
    BY <1>7, <1>9, <2>1
<1>10. ASSUME NEW u \in Users, SubMoves(u, "active", "none", {"lost"}) PROVE NewsInv'
  <2>1. CASE u = session
    <3>1. /\ UNCHANGED <<scanned, session>> /\ status' = Noted(status, {"lost"})
          /\ ~Active(session)'
      BY <1>10, <2>1 DEF SubMoves, Active, TypeInv, TypeOK
    <3> QED
      BY <3>1, LossNoted
  <2> QED
    BY <1>7, <1>10, <2>1
<1> QED
  BY <1>2, <1>3, <1>4, <1>5, <1>6, <1>8, <1>9, <1>10 DEF Stays, Webhook, Lapse

LEMMA NewsStep == TypeInv /\ NewsInv /\ [Next]_vars => NewsInv'
<1> SUFFICES ASSUME TypeInv, NewsInv, [Next]_vars PROVE NewsInv'
  OBVIOUS
<1>1. CASE UNCHANGED vars
  <2>1. UNCHANGED <<scanned, session, status>> /\ Active(session)' = Active(session)
    BY <1>1 DEF vars, server, Active
  <2> QED
    BY <2>1, KeepsNews, KeepsCases DEF TypeInv, TypeOK
<1>2. ASSUME NEW p \in Plans, Checkout(p) PROVE NewsInv'
  BY <1>2, AllIsNews DEF Checkout, NoQuery
<1> QED
  BY <1>1, <1>2, NextSplits, NewsFetches, NewsJourneys, NewsStays

(* The guard is wrong about an account only on old news.                   *)
THEOREM GuardErrsOnlyOnOldNews == Spec => []GuardErrsOnOldNews
<1>1. Init => NewsInv
  BY DEF Init, NoQuery, NewsInv, AnswerInv, FetchInv
<1>2. TypeInv /\ NewsInv => GuardErrsOnOldNews
  BY TruthIsReady DEF NewsInv, AnswerInv, GuardErrsOnOldNews
<1> QED
  BY <1>1, <1>2, NewsStep, TypeCorrect, PTL DEF Spec
=============================================================================
