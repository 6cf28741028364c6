------------------------------- MODULE Billing -------------------------------
(***************************************************************************)
(* A workspace's subscription: Stripe (external) sells, renews and cancels *)
(* it and reports each change as a webhook; BillingService turns webhooks, *)
(* the confirmation of a checkout and a plan change into billing events,   *)
(* which applyEvent writes to two rows, the organization's plan and the    *)
(* subscription; the admin console writes the second row directly.  Each   *)
(* API process drops the event ids it has seen, from memory.  A webhook is *)
(* verified only if the secret is configured and the request has the       *)
(* signature header, and parsed as it comes otherwise.                     *)
(*                                                                         *)
(* One workspace, with Stripe configured and the Postgres store.  A plan   *)
(* is its index in PLAN_ORDER.  `trialing` is `active`.  Every event names *)
(* its plan, as every subscription that createCheckout and changePlan make *)
(* does, so applyEvent's read of the organization has no effect here.      *)
(***************************************************************************)
EXTENDS Naturals, Sequences

CONSTANTS
    Procs,       \* API processes
    Calls,       \* requests in progress at a time
    TopPlan,     \* PLAN_ORDER is 1 .. TopPlan
    MaxSubs,     \* bound: subscriptions ever bought
    MaxEvents,   \* bound: webhook events Stripe ever issues
    MaxUnsigned, \* bound: ids of unsigned webhooks
    MaxCrashes,  \* bound: restarts of API processes
    NoProc,
    Allowed      \* what may happen: "confirm" (a customer returns from the
                 \* checkout), "change" (changes plan), "admin" (the console
                 \* is used), "storeError", "unpaid" (a checkout completes
                 \* before it is paid), "unsigned" (a webhook comes without
                 \* a signature and not from Stripe), and of Stripe's
                 \* deliveries "duplicate" and "reorder"

ASSUME BillingAssumption ==
    /\ TopPlan \in Nat \ {0} /\ MaxSubs \in Nat
    /\ MaxEvents \in Nat /\ MaxUnsigned \in Nat /\ MaxCrashes \in Nat
    /\ NoProc \notin Procs

Plans == 1 .. TopPlan
Starter == 1
Subs == 1 .. MaxSubs
Events == 1 .. MaxEvents

Status == {"none", "active", "past_due", "canceled"}
Cause == {"purchase", "unpaid", "upgrade", "status", "periodEnd"}
Type == {"plan_changed", "subscription_updated"}

(* eventId: Stripe's own, checkout_confirm_<session>,                      *)
(* changeplan_<org>_<plan>_<subscription>, or one that Stripe did not      *)
(* issue, of an unsigned webhook.                                          *)
Keys == ({"event"} \X Events) \cup ({"confirm"} \X Subs)
            \cup ({"change"} \X Plans \X (Subs \cup {0}))
            \cup ({"unsigned"} \X (1 .. MaxUnsigned))
Writers == {"event", "confirm", "change", "unsigned", "console"}

Reports == [type : Type, plan : Plans, status : Status, sub : Subs, cause : Cause]
BillingEvent == [key : Keys, type : Type, plan : Plans, status : Status,
                 sub : Subs \cup {0}]
Row == [plan : Plans, status : Status, sub : Subs \cup {0}]

VARIABLES
    (* Stripe: its subscriptions, the plan each moves to at period end (0: *)
    (* no schedule), the events it issued and those acknowledged           *)
    stripeStatus, stripePlan, scheduled, log, acked,
    (* the database: organization.plan and the subscription row *)
    orgPlan, row,
    (* observed: the newest of Stripe's events the row was written from,   *)
    (* who else wrote it since, and whether the console granted access     *)
    latest, overtakenBy, reactivated,
    (* processedEvents of each process *)
    seen,
    (* observed: how often each process applied each key since it started, *)
    (* the keys any process ever applied, and the types and plans of the   *)
    (* webhooks taken unsigned                                             *)
    writes, applied, unsigned,
    (* the requests in progress *)
    pc, host, event, existing,
    crashes

stripeVars == <<stripeStatus, stripePlan, scheduled, log>>
rowVars == <<row, latest, overtakenBy, reactivated>>
dbVars == <<orgPlan, rowVars>>
procVars == <<seen, writes, applied, unsigned>>
callVars == <<pc, host, event, existing>>
vars == <<stripeVars, acked, dbVars, procVars, callVars, crashes>>

PC == {"idle", "upgrade", "schedule", "dedupe", "read", "writeOrg", "writeSub", "admin"}

TypeOK ==
    /\ stripeStatus \in [Subs -> Status]
    /\ stripePlan \in [Subs -> Plans]
    /\ scheduled \in [Subs -> Plans \cup {0}]
    /\ log \in Seq(Reports) /\ Len(log) <= MaxEvents
    /\ acked \subseteq DOMAIN log
    /\ orgPlan \in Plans
    /\ row \in Row
    /\ latest \in 0 .. MaxEvents /\ latest <= Len(log)
    /\ overtakenBy \in Writers \cup {"none"}
    /\ reactivated \in BOOLEAN
    /\ seen \in [Procs -> SUBSET Keys]
    /\ writes \in [Procs -> [Keys -> Nat]]
    /\ applied \subseteq Keys
    /\ unsigned \subseteq Type \X Plans
    /\ pc \in [Calls -> PC]
    /\ host \in [Calls -> Procs \cup {NoProc}]
    /\ event \in [Calls -> BillingEvent]
    /\ existing \in [Calls -> Row]
    /\ crashes \in 0 .. MaxCrashes

NoRow == [plan |-> Starter, status |-> "none", sub |-> 0]
NoEvent == [key |-> <<"change", Starter, 0>>, type |-> "subscription_updated",
            plan |-> Starter, status |-> "none", sub |-> 0]
NoWrites == [k \in Keys |-> 0]

Init ==
    /\ stripeStatus = [s \in Subs |-> "none"]
    /\ stripePlan = [s \in Subs |-> Starter]
    /\ scheduled = [s \in Subs |-> 0]
    /\ log = << >>
    /\ acked = {}
    /\ orgPlan = Starter
    /\ row = NoRow
    /\ latest = 0 /\ overtakenBy = "none" /\ reactivated = FALSE
    /\ seen = [q \in Procs |-> {}]
    /\ writes = [q \in Procs |-> NoWrites]
    /\ applied = {}
    /\ unsigned = {}
    /\ pc = [c \in Calls |-> "idle"]
    /\ host = [c \in Calls |-> NoProc]
    /\ event = [c \in Calls |-> NoEvent]
    /\ existing = [c \in Calls |-> NoRow]
    /\ crashes = 0

-----------------------------------------------------------------------------
(* Stripe. *)

Report(type, s, plan, status, cause) ==
    /\ Len(log) < MaxEvents
    /\ log' = Append(log, [type |-> type, plan |-> plan, status |-> status,
                           sub |-> s, cause |-> cause])

Bought(s) == stripeStatus[s] # "none"

(* A customer completes a checkout session, which a slow payment method    *)
(* may not have paid yet; nothing keeps one from buying again while a      *)
(* subscription runs.                                                      *)
Purchase(p, cause) ==
    \E s \in Subs :
        /\ cause = "unpaid" => "unpaid" \in Allowed
        /\ ~ Bought(s)
        /\ \A t \in Subs : t < s => Bought(t)
        /\ stripeStatus' = [stripeStatus EXCEPT ![s] = "active"]
        /\ stripePlan' = [stripePlan EXCEPT ![s] = p]
        /\ Report("plan_changed", s, p, "active", cause)
        /\ UNCHANGED <<scheduled, acked, dbVars, procVars, callVars, crashes>>

(* A payment fails or succeeds again, or the subscription is canceled. *)
StatusChange(s, st) ==
    /\ stripeStatus[s] \in {"active", "past_due"} \ {st}
    /\ stripeStatus' = [stripeStatus EXCEPT ![s] = st]
    /\ Report("subscription_updated", s, stripePlan[s], st, "status")
    /\ UNCHANGED <<stripePlan, scheduled, acked, dbVars, procVars, callVars, crashes>>

(* The schedule of a downgrade reaches its second phase. *)
PeriodEnd(s) ==
    /\ stripeStatus[s] = "active" /\ scheduled[s] # 0
    /\ stripePlan' = [stripePlan EXCEPT ![s] = scheduled[s]]
    /\ scheduled' = [scheduled EXCEPT ![s] = 0]
    /\ Report("subscription_updated", s, scheduled[s], "active", "periodEnd")
    /\ UNCHANGED <<stripeStatus, acked, dbVars, procVars, callVars, crashes>>

-----------------------------------------------------------------------------
(* Requests.  c is the slot of the request, q the process that serves it.  *)

Begin(c, q, at, e) ==
    /\ pc' = [pc EXCEPT ![c] = at]
    /\ host' = [host EXCEPT ![c] = q]
    /\ event' = [event EXCEPT ![c] = e]

End(c) ==
    /\ pc' = [pc EXCEPT ![c] = "idle"]
    /\ host' = [host EXCEPT ![c] = NoProc]
    /\ event' = [event EXCEPT ![c] = NoEvent]
    /\ existing' = [existing EXCEPT ![c] = NoRow]

Goto(c, from, to) == pc[c] = from /\ pc' = [pc EXCEPT ![c] = to]

EventOf(i) == [key |-> <<"event", i>>, type |-> log[i].type, plan |-> log[i].plan,
               status |-> log[i].status, sub |-> log[i].sub]

(* Stripe delivers event i until it is acknowledged; in the order of the   *)
(* events and one at a time, but for "reorder" and "duplicate".            *)
Deliverable(i) ==
    /\ \/ "duplicate" \in Allowed
       \/ i \notin acked /\ \A c \in Calls : event[c].key # <<"event", i>>
    /\ "reorder" \in Allowed \/ \A j \in 1 .. i - 1 : j \in acked

(* Mutants: an event that is not marked as seen; one acknowledged before   *)
(* it is applied.                                                          *)
WebhookUnmarked(c, q, i) ==
    /\ pc[c] = "idle" /\ i \in DOMAIN log /\ Deliverable(i)
    /\ IF <<"event", i>> \in seen[q]
         THEN acked' = acked \cup {i} /\ UNCHANGED callVars
         ELSE Begin(c, q, "read", EventOf(i)) /\ UNCHANGED <<acked, existing>>
    /\ UNCHANGED <<stripeVars, dbVars, procVars, crashes>>
WebhookAckFirst(c, q, i) ==
    /\ pc[c] = "idle" /\ i \in DOMAIN log /\ Deliverable(i)
    /\ acked' = acked \cup {i}
    /\ IF <<"event", i>> \in seen[q]
         THEN UNCHANGED <<seen, callVars>>
         ELSE /\ seen' = [seen EXCEPT ![q] = @ \cup {<<"event", i>>}]
              /\ Begin(c, q, "read", EventOf(i))
              /\ UNCHANGED existing
    /\ UNCHANGED <<stripeVars, dbVars, writes, applied, unsigned, crashes>>

(* POST /billing/webhook: an event this process has seen is acknowledged,  *)
(* any other is marked as seen before it is applied.                       *)
Webhook(c, q, i) ==
    /\ pc[c] = "idle" /\ i \in DOMAIN log /\ Deliverable(i)
    /\ IF <<"event", i>> \in seen[q]
         THEN acked' = acked \cup {i} /\ UNCHANGED <<seen, callVars>>
         ELSE /\ seen' = [seen EXCEPT ![q] = @ \cup {<<"event", i>>}]
              /\ Begin(c, q, "read", EventOf(i))
              /\ UNCHANGED <<acked, existing>>
    /\ UNCHANGED <<stripeVars, dbVars, writes, applied, unsigned, crashes>>

(* The same handler without the secret or the header: whatever the body    *)
(* names is applied.                                                       *)
WebhookUnsigned(c, q, n, type, p, st) ==
    LET k == <<"unsigned", n>> IN
    /\ "unsigned" \in Allowed
    /\ type = "plan_changed" => st = "active"
    /\ pc[c] = "idle" /\ k \notin seen[q]
    /\ seen' = [seen EXCEPT ![q] = @ \cup {k}]
    /\ unsigned' = unsigned \cup {<<type, p>>}
    /\ Begin(c, q, "read", [NoEvent EXCEPT !.key = k, !.type = type, !.plan = p, !.status = st])
    /\ UNCHANGED <<stripeVars, acked, dbVars, writes, applied, existing, crashes>>

(* confirmCheckout(session): the plan is the one the session sold, and a   *)
(* complete session will do, paid or not.                                  *)
Confirm(c, q, s) ==
    /\ "confirm" \in Allowed
    /\ pc[c] = "idle" /\ Bought(s) /\ <<"confirm", s>> \notin seen[q]
    /\ seen' = [seen EXCEPT ![q] = @ \cup {<<"confirm", s>>}]
    /\ \E i \in DOMAIN log :
         /\ log[i].sub = s /\ log[i].cause \in {"purchase", "unpaid"}
         /\ Begin(c, q, "read", [EventOf(i) EXCEPT !.key = <<"confirm", s>>])
    /\ UNCHANGED <<stripeVars, acked, dbVars, writes, applied, unsigned, existing, crashes>>

(* Mutants: an upgrade that Stripe is not asked for; the index of a plan   *)
(* counted from zero.                                                      *)
ChangePlanUncharged(c, q, p) ==
    /\ "change" \in Allowed
    /\ pc[c] = "idle" /\ row.status = "active" /\ row.sub # 0
    /\ Begin(c, q, IF p > row.plan THEN "dedupe" ELSE "schedule",
             [key |-> <<"change", p, row.sub>>, type |-> "plan_changed",
              plan |-> p, status |-> "active", sub |-> 0])
    /\ existing' = [existing EXCEPT ![c] = row]
    /\ UNCHANGED <<stripeVars, acked, dbVars, procVars, crashes>>
ChangePlanZeroBased(c, q, p) ==
    /\ "change" \in Allowed
    /\ pc[c] = "idle" /\ row.status = "active" /\ row.sub # 0
    /\ Begin(c, q, IF p > row.plan THEN "upgrade" ELSE "schedule",
             [key |-> <<"change", p, row.sub>>, type |-> "plan_changed",
              plan |-> p - 1, status |-> "active", sub |-> 0])
    /\ existing' = [existing EXCEPT ![c] = row]
    /\ UNCHANGED <<stripeVars, acked, dbVars, procVars, crashes>>

(* changePlan: a subscriber's plan is switched in place, everyone else is  *)
(* sent to the checkout.                                                   *)
ChangePlan(c, q, p) ==
    /\ "change" \in Allowed
    /\ pc[c] = "idle" /\ row.status = "active" /\ row.sub # 0
    /\ Begin(c, q, IF p > row.plan THEN "upgrade" ELSE "schedule",
             [key |-> <<"change", p, row.sub>>, type |-> "plan_changed",
              plan |-> p, status |-> "active", sub |-> 0])
    /\ existing' = [existing EXCEPT ![c] = row]
    /\ UNCHANGED <<stripeVars, acked, dbVars, procVars, crashes>>

(* provider.changePlan on a live subscription: an upgrade is charged now.  *)
UpgradeAtStripe(c) ==
    LET s == existing[c].sub IN
    /\ Goto(c, "upgrade", "dedupe")
    /\ stripeStatus[s] # "canceled"
    /\ stripePlan' = [stripePlan EXCEPT ![s] = event[c].plan]
    /\ Report("subscription_updated", s, event[c].plan, stripeStatus[s], "upgrade")
    /\ UNCHANGED <<stripeStatus, scheduled, acked, dbVars, procVars, host, event,
                   existing, crashes>>

ScheduleAtStripe(c) ==
    LET s == existing[c].sub IN
    /\ pc[c] = "schedule" /\ stripeStatus[s] # "canceled"
    /\ scheduled' = [scheduled EXCEPT ![s] = event[c].plan]
    /\ End(c)
    /\ UNCHANGED <<stripeStatus, stripePlan, log, acked, dbVars, procVars, crashes>>

(* Stripe refuses; the bound on its events counts as a refusal. *)
RefusedAtStripe(c) ==
    /\ pc[c] \in {"upgrade", "schedule"}
    /\ \/ stripeStatus[existing[c].sub] = "canceled"
       \/ pc[c] = "upgrade" /\ Len(log) = MaxEvents
    /\ End(c)
    /\ UNCHANGED <<stripeVars, acked, dbVars, procVars, crashes>>

(* The head of applyEvent, for an upgrade that Stripe has charged. *)
Dedupe(c) ==
    /\ pc[c] = "dedupe"
    /\ IF event[c].key \in seen[host[c]]
         THEN End(c) /\ UNCHANGED seen
         ELSE /\ seen' = [seen EXCEPT ![host[c]] = @ \cup {event[c].key}]
              /\ Goto(c, "dedupe", "read")
              /\ UNCHANGED <<host, event, existing>>
    /\ UNCHANGED <<stripeVars, acked, dbVars, writes, applied, unsigned, crashes>>

(* The rest of applyEvent. *)
ReadExisting(c) ==
    /\ Goto(c, "read", IF event[c].type = "plan_changed" THEN "writeOrg" ELSE "writeSub")
    /\ existing' = [existing EXCEPT ![c] = row]
    /\ UNCHANGED <<stripeVars, acked, dbVars, procVars, host, event, crashes>>

(* PrismaStore.updateOrganization swallows a database error. *)
WriteOrg(c) ==
    /\ Goto(c, "writeOrg", "writeSub")
    /\ \/ orgPlan' = event[c].plan
       \/ "storeError" \in Allowed /\ UNCHANGED orgPlan
    /\ UNCHANGED <<stripeVars, acked, rowVars, procVars, host, event, existing, crashes>>

(* upsertSubscription leaves a column alone when it is given `undefined`. *)
SubId(c) ==
    IF event[c].sub # 0 THEN event[c].sub
    ELSE IF existing[c].sub # 0 THEN existing[c].sub ELSE row.sub

Acknowledged(c) == {i \in DOMAIN log : event[c].key = <<"event", i>>}

(* The row is written from an event at least as new as any before it, or   *)
(* by something else.                                                      *)
WrittenFrom(c) ==
    \/ \E i \in DOMAIN log :
          /\ event[c].key = <<"event", i>> /\ i >= latest
          /\ latest' = i /\ overtakenBy' = "none"
    \/ /\ \A i \in DOMAIN log : event[c].key = <<"event", i>> => i < latest
       /\ latest' = latest /\ overtakenBy' = event[c].key[1]

(* Mutant: every event activates. *)
WriteSubActive(c) ==
    /\ pc[c] = "writeSub"
    /\ row' = [plan |-> event[c].plan, status |-> "active", sub |-> SubId(c)]
    /\ WrittenFrom(c)
    /\ acked' = acked \cup Acknowledged(c)
    /\ writes' = [writes EXCEPT ![host[c]][event[c].key] = @ + 1]
    /\ applied' = applied \cup {event[c].key}
    /\ End(c)
    /\ UNCHANGED <<stripeVars, orgPlan, reactivated, seen, unsigned, crashes>>

WriteSub(c) ==
    /\ pc[c] = "writeSub"
    /\ row' = [plan |-> event[c].plan,
               status |-> IF event[c].type = "plan_changed" THEN "active"
                                                            ELSE event[c].status,
               sub |-> SubId(c)]
    /\ WrittenFrom(c)
    /\ acked' = acked \cup Acknowledged(c)
    /\ writes' = [writes EXCEPT ![host[c]][event[c].key] = @ + 1]
    /\ applied' = applied \cup {event[c].key}
    /\ End(c)
    /\ UNCHANGED <<stripeVars, orgPlan, reactivated, seen, unsigned, crashes>>

(* getSubscription or upsertSubscription throws: no acknowledgement. *)
StoreError(c) ==
    /\ "storeError" \in Allowed
    /\ pc[c] \in {"read", "writeSub", "admin"}
    /\ End(c)
    /\ UNCHANGED <<stripeVars, acked, dbVars, procVars, crashes>>

-----------------------------------------------------------------------------
(* The admin console: suspendWorkspace, reactivateWorkspace, which write   *)
(* back the row they read, and resetSubscription.                          *)
AdminRead(c, q, st) ==
    /\ "admin" \in Allowed /\ pc[c] = "idle"
    /\ Begin(c, q, "admin", [NoEvent EXCEPT !.status = st])
    /\ existing' = [existing EXCEPT ![c] = row]
    /\ UNCHANGED <<stripeVars, acked, dbVars, procVars, crashes>>

AdminWrite(c) ==
    /\ pc[c] = "admin"
    /\ row' = [plan |-> existing[c].plan, status |-> event[c].status, sub |-> SubId(c)]
    /\ overtakenBy' = "console"
    /\ reactivated' = (reactivated \/ event[c].status = "active")
    /\ End(c)
    /\ UNCHANGED <<stripeVars, acked, orgPlan, latest, procVars, crashes>>

AdminReset ==
    /\ "admin" \in Allowed
    /\ row' = [row EXCEPT !.plan = Starter, !.status = "none"]
    /\ overtakenBy' = "console"
    /\ UNCHANGED <<stripeVars, acked, orgPlan, latest, reactivated, procVars, callVars, crashes>>

-----------------------------------------------------------------------------
(* Mutant: the event ids seen outlive the process. *)
RestartRemembers(q) ==
    /\ crashes < MaxCrashes
    /\ crashes' = crashes + 1
    /\ pc' = [c \in Calls |-> IF host[c] = q THEN "idle" ELSE pc[c]]
    /\ host' = [c \in Calls |-> IF host[c] = q THEN NoProc ELSE host[c]]
    /\ event' = [c \in Calls |-> IF host[c] = q THEN NoEvent ELSE event[c]]
    /\ existing' = [c \in Calls |-> IF host[c] = q THEN NoRow ELSE existing[c]]
    /\ UNCHANGED <<stripeVars, acked, dbVars, procVars>>

(* A process restarts: its requests and its memory of events are gone. *)
Restart(q) ==
    /\ crashes < MaxCrashes
    /\ crashes' = crashes + 1
    /\ seen' = [seen EXCEPT ![q] = {}]
    /\ writes' = [writes EXCEPT ![q] = NoWrites]
    /\ pc' = [c \in Calls |-> IF host[c] = q THEN "idle" ELSE pc[c]]
    /\ host' = [c \in Calls |-> IF host[c] = q THEN NoProc ELSE host[c]]
    /\ event' = [c \in Calls |-> IF host[c] = q THEN NoEvent ELSE event[c]]
    /\ existing' = [c \in Calls |-> IF host[c] = q THEN NoRow ELSE existing[c]]
    /\ UNCHANGED <<stripeVars, acked, dbVars, applied, unsigned>>

-----------------------------------------------------------------------------
Stripe ==
    \/ \E p \in Plans, cause \in {"purchase", "unpaid"} : Purchase(p, cause)
    \/ \E s \in Subs : PeriodEnd(s) \/ \E st \in Status \ {"none"} : StatusChange(s, st)

Deliver(i) == \E c \in Calls, q \in Procs : Webhook(c, q, i)

Request ==
    \E c \in Calls, q \in Procs :
        \/ \E s \in Subs : Confirm(c, q, s)
        \/ \E p \in Plans : ChangePlan(c, q, p)
        \/ \E n \in 1 .. MaxUnsigned, type \in Type, p \in Plans, st \in Status \ {"none"} :
              WebhookUnsigned(c, q, n, type, p, st)
        \/ \E st \in {"canceled", "active"} : AdminRead(c, q, st)

Proceed(c) ==
    \/ UpgradeAtStripe(c)
    \/ ScheduleAtStripe(c)
    \/ RefusedAtStripe(c)
    \/ Dedupe(c)
    \/ ReadExisting(c)
    \/ WriteOrg(c)
    \/ WriteSub(c)
    \/ AdminWrite(c)

Next ==
    \/ Stripe
    \/ \E i \in Events : Deliver(i)
    \/ Request
    \/ \E c \in Calls : Proceed(c) \/ StoreError(c)
    \/ AdminReset
    \/ \E q \in Procs : Restart(q)

Spec == Init /\ [][Next]_vars

(* Every await settles, and Stripe retries an unacknowledged event: the    *)
(* server takes any number of requests, so that a retry meets, time and    *)
(* again, a moment at which no other request holds the slots of the model. *)
Fairness ==
    /\ \A i \in Events : SF_vars(Deliver(i))
    /\ \A c \in Calls : WF_vars(Proceed(c))

FairSpec == Spec /\ Fairness

-----------------------------------------------------------------------------
(* What a plan was unlocked for: a charge of it, a checkout of it that     *)
(* completed without one, an unsigned webhook that named it.               *)
SoldAs(p, causes) == \E i \in DOMAIN log : log[i].plan = p /\ log[i].cause \in causes

Entitled(p) ==
    \/ SoldAs(p, {"purchase", "upgrade"})
    \/ SoldAs(p, {"unpaid"})
    \/ <<"plan_changed", p>> \in unsigned

(* applyEvent and changePlan: nothing above the starter tier is unlocked,  *)
(* and no access granted, without a charge, but in the ways the code       *)
(* leaves open: a checkout complete and unpaid (stripe.provider.ts:60), a  *)
(* webhook that nobody signed (stripe.provider.ts:221-227), the console.   *)
(* Only the plan sold or named is unlocked, and a scheduled downgrade      *)
(* unlocks nothing by itself.                                              *)
NothingUnpaid ==
    /\ orgPlan = Starter \/ Entitled(orgPlan)
    /\ row.status = "active" =>
         \/ reactivated \/ unsigned # {}
         \/ \E p \in Plans : Entitled(p)

(* billing.service.ts:138-150: whatever Stripe redelivers, and however     *)
(* many deliveries run at a time, a process applies an event once.         *)
AppliedOncePerLifetime ==
    \A q \in Procs, k \in Keys : writes[q][k] <= 1

(* Stripe is told to stop retrying an event only once it was applied.      *)
(* Broken by a failing store: the retry meets the event id of the attempt  *)
(* that failed (stripe.provider.ts:248, "cancellations and payment         *)
(* failures update access").                                               *)
AckedWasApplied ==
    \A i \in acked : <<"event", i>> \in applied

(* stripe.provider.ts:248, "Renewals, cancellations and payment failures   *)
(* update access".  Once every event Stripe issued has been applied, in    *)
(* whatever order and by whichever processes, the row is what Stripe last  *)
(* reported, unless something wrote it after the newest event did: an      *)
(* older event, the console, an unsigned webhook, which may also lock a    *)
(* payer out, or a confirmation or a plan change, which can only let in.   *)
AccessFollowsStripe ==
    LET s == log[Len(log)].sub IN
    log # << >> /\ (\A i \in DOMAIN log : <<"event", i>> \in applied) =>
        \/ row.status = stripeStatus[s] /\ row.plan = stripePlan[s]
        \/ overtakenBy \in {"event", "unsigned", "console"}
        \/ overtakenBy \in {"confirm", "change"} /\ row.status = "active"

(* Every event Stripe issues is applied in the end, restarts included.     *)
EveryEventApplied ==
    \A i \in Events : (i \in DOMAIN log) ~> (<<"event", i>> \in applied)
=============================================================================
