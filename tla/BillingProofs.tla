---------------------------- MODULE BillingProofs ----------------------------
(***************************************************************************)
(* Proofs about Billing, for any number of processes, requests, plans,     *)
(* subscriptions and events.                                               *)
(***************************************************************************)
EXTENDS Billing, TLAPS

USE BillingAssumption

(* A plan change that waits for Stripe names a subscription. *)
Targeted == \A c \in Calls : pc[c] \in {"upgrade", "schedule"} => existing[c].sub \in Subs

TypeInv == TypeOK /\ Targeted

-----------------------------------------------------------------------------
(* The kinds of keys, and the values a request starts and ends with. *)
LEMMA Values ==
  /\ \A i \in Events : <<"event", i>> \in Keys
  /\ \A s \in Subs : <<"confirm", s>> \in Keys
  /\ \A p \in Plans, s \in Subs \cup {0} : <<"change", p, s>> \in Keys
  /\ \A n \in 1 .. MaxUnsigned : <<"unsigned", n>> \in Keys
  /\ \A k \in Keys : k[1] \in Writers
  /\ Starter \in Plans
  /\ NoEvent \in BillingEvent /\ NoRow \in Row
  /\ NoWrites \in [Keys -> Nat]
<1>1. \A i \in Events : <<"event", i>> \in Keys
  BY DEF Keys
<1>2. \A s \in Subs : <<"confirm", s>> \in Keys
  BY DEF Keys
<1>3. \A p \in Plans, s \in Subs \cup {0} : <<"change", p, s>> \in Keys
  BY DEF Keys
<1>4. Starter \in Plans
  BY DEF Starter, Plans
<1>5. NoEvent \in BillingEvent
  BY <1>3, <1>4 DEF NoEvent, BillingEvent, Type, Status
<1>6. NoRow \in Row
  BY <1>4 DEF NoRow, Row, Status
<1>7. NoWrites \in [Keys -> Nat]
  BY DEF NoWrites
<1>8. \A n \in 1 .. MaxUnsigned : <<"unsigned", n>> \in Keys
  BY DEF Keys
<1>9. \A k \in Keys : k[1] \in Writers
  BY DEF Keys, Writers
<1> QED
  BY <1>1, <1>2, <1>3, <1>4, <1>5, <1>6, <1>7, <1>8, <1>9

(* One more element in one of a family of sets, one more count in one of a *)
(* family of counters.                                                     *)
LEMMA Grow ==
  ASSUME NEW K, NEW f \in [Procs -> SUBSET K], NEW q, NEW k \in K
  PROVE  [f EXCEPT ![q] = @ \cup {k}] \in [Procs -> SUBSET K]
<1>1. \A r \in Procs : f[r] \cup {k} \in SUBSET K
  OBVIOUS
<1> QED
  BY <1>1

LEMMA Count ==
  ASSUME NEW K, NEW f \in [Procs -> [K -> Nat]], NEW q, NEW k \in K
  PROVE  [f EXCEPT ![q][k] = @ + 1] \in [Procs -> [K -> Nat]]
<1>1. \A r \in Procs : [f[r] EXCEPT ![k] = @ + 1] \in [K -> Nat]
  OBVIOUS
<1>2. [f EXCEPT ![q][k] = @ + 1] = [f EXCEPT ![q] = [f[q] EXCEPT ![k] = @ + 1]]
  OBVIOUS
<1> QED
  BY <1>1, <1>2

LEMMA InitTypeInv == Init => TypeInv
<1> SUFFICES ASSUME Init PROVE TypeInv
  OBVIOUS
<1>1. log \in Seq(Reports) /\ Len(log) = 0 /\ acked \subseteq DOMAIN log
  BY DEF Init
<1>2. Targeted
  BY DEF Init, Targeted
<1>3. /\ latest \in 0 .. MaxEvents /\ latest <= Len(log) /\ Len(log) <= MaxEvents
      /\ crashes \in 0 .. MaxCrashes
  BY <1>1 DEF Init
<1>4. /\ pc \in [Calls -> PC] /\ host \in [Calls -> Procs \cup {NoProc}]
      /\ event \in [Calls -> BillingEvent] /\ existing \in [Calls -> Row]
  BY Values DEF Init, PC
<1>5. /\ stripeStatus \in [Subs -> Status] /\ stripePlan \in [Subs -> Plans]
      /\ scheduled \in [Subs -> Plans \cup {0}]
  BY Values DEF Init, Status
<1>6. /\ orgPlan \in Plans /\ row \in Row
      /\ overtakenBy \in Writers \cup {"none"} /\ reactivated \in BOOLEAN
      /\ applied \subseteq Keys /\ unsigned \subseteq Type \X Plans
  BY Values DEF Init
<1>7. seen \in [Procs -> SUBSET Keys] /\ writes \in [Procs -> [Keys -> Nat]]
  BY Values DEF Init
<1> QED
  BY <1>1, <1>2, <1>3, <1>4, <1>5, <1>6, <1>7 DEF TypeInv, TypeOK

(* An event Stripe issued, as a billing event. *)
LEMMA EventOfType ==
  ASSUME TypeOK, NEW i \in DOMAIN log
  PROVE  /\ log[i] \in Reports
         /\ i \in Events
         /\ EventOf(i) \in BillingEvent
         /\ \A s \in Subs : [EventOf(i) EXCEPT !.key = <<"confirm", s>>] \in BillingEvent
<1>1. log[i] \in Reports /\ i \in Events
  BY DEF TypeOK, Events
<1>2. <<"event", i>> \in Keys /\ \A s \in Subs : <<"confirm", s>> \in Keys
  BY <1>1, Values
<1> QED
  BY <1>1, <1>2 DEF EventOf, BillingEvent, Reports

(* What Stripe reports extends its log by a report. *)
LEMMA ReportType ==
  ASSUME TypeOK,
         NEW type \in Type, NEW s \in Subs, NEW p \in Plans, NEW st \in Status,
         NEW cause \in Cause, Report(type, s, p, st, cause)
  PROVE  /\ log' \in Seq(Reports) /\ Len(log') <= MaxEvents
         /\ Len(log') = Len(log) + 1
         /\ DOMAIN log \subseteq DOMAIN log'
<1> DEFINE r == [type |-> type, plan |-> p, status |-> st, sub |-> s, cause |-> cause]
<1>1. r \in Reports
  BY DEF Reports
<1>2. log \in Seq(Reports) /\ log' = Append(log, r) /\ Len(log) < MaxEvents
  BY DEF Report, TypeOK
<1> HIDE DEF r
<1>3. log' \in Seq(Reports) /\ Len(log') = Len(log) + 1
  BY <1>1, <1>2
<1> QED
  BY <1>2, <1>3

LEMMA StripeType == TypeInv /\ Stripe => TypeInv'
<1> SUFFICES ASSUME TypeInv, Stripe PROVE TypeInv'
  OBVIOUS
<1> USE DEF TypeInv, Targeted, stripeVars, dbVars, rowVars, procVars, callVars
<1>1. ASSUME NEW p \in Plans, NEW cause \in {"purchase", "unpaid"}, Purchase(p, cause)
      PROVE  TypeInv'
  <2>1. PICK s \in Subs :
          /\ stripeStatus' = [stripeStatus EXCEPT ![s] = "active"]
          /\ stripePlan' = [stripePlan EXCEPT ![s] = p]
          /\ Report("plan_changed", s, p, "active", cause)
          /\ UNCHANGED <<scheduled, acked, dbVars, procVars, callVars, crashes>>
    BY <1>1 DEF Purchase
  <2>2. /\ log' \in Seq(Reports) /\ Len(log') <= MaxEvents
        /\ Len(log') = Len(log) + 1 /\ DOMAIN log \subseteq DOMAIN log'
    BY <2>1, ReportType DEF Type, Status, Cause
  <2> QED
    BY <2>1, <2>2 DEF TypeOK, Status
<1>2. ASSUME NEW s \in Subs, NEW st \in Status \ {"none"}, StatusChange(s, st) PROVE TypeInv'
  <2>1. stripePlan[s] \in Plans
    BY DEF TypeOK
  <2>2. /\ log' \in Seq(Reports) /\ Len(log') <= MaxEvents
        /\ Len(log') = Len(log) + 1 /\ DOMAIN log \subseteq DOMAIN log'
    BY <1>2, <2>1, ReportType DEF StatusChange, Type, Cause
  <2> QED
    BY <1>2, <2>2 DEF StatusChange, TypeOK
<1>3. ASSUME NEW s \in Subs, PeriodEnd(s) PROVE TypeInv'
  <2>1. scheduled[s] \in Plans
    BY <1>3 DEF TypeOK, PeriodEnd
  <2>2. /\ log' \in Seq(Reports) /\ Len(log') <= MaxEvents
        /\ Len(log') = Len(log) + 1 /\ DOMAIN log \subseteq DOMAIN log'
    BY <1>3, <2>1, ReportType DEF PeriodEnd, Type, Status, Cause
  <2> QED
    BY <1>3, <2>1, <2>2 DEF PeriodEnd, TypeOK
<1> QED
  BY <1>1, <1>2, <1>3 DEF Stripe

(* A request begins with a well-formed event, and ends with none. *)
LEMMA BeginType ==
  ASSUME TypeOK, NEW c \in Calls, NEW q \in Procs, NEW at \in PC, NEW e \in BillingEvent,
         Begin(c, q, at, e)
  PROVE  /\ pc' \in [Calls -> PC]
         /\ host' \in [Calls -> Procs \cup {NoProc}]
         /\ event' \in [Calls -> BillingEvent]
  BY DEF Begin, TypeOK

LEMMA EndType ==
  ASSUME TypeOK, NEW c \in Calls, End(c)
  PROVE  /\ pc' \in [Calls -> PC]
         /\ host' \in [Calls -> Procs \cup {NoProc}]
         /\ event' \in [Calls -> BillingEvent]
         /\ existing' \in [Calls -> Row]
  BY Values DEF End, TypeOK, PC

LEMMA DeliverType == ASSUME TypeInv, NEW i \in Events, Deliver(i) PROVE TypeInv'
<1>1. PICK c \in Calls, q \in Procs : Webhook(c, q, i)
  BY DEF Deliver
<1>2. i \in DOMAIN log
  BY <1>1 DEF Webhook
<1>3. EventOf(i) \in BillingEvent /\ <<"event", i>> \in Keys
  BY <1>2, EventOfType, Values DEF TypeInv
<1> USE DEF TypeInv, Targeted, TypeOK, stripeVars, dbVars, rowVars, procVars, callVars
<1>4. CASE <<"event", i>> \in seen[q]
  BY <1>1, <1>2, <1>4 DEF Webhook
<1>5. CASE <<"event", i>> \notin seen[q]
  <2>1. Begin(c, q, "read", EventOf(i)) /\ UNCHANGED <<acked, existing>>
    BY <1>1, <1>5 DEF Webhook
  <2>2. /\ pc' \in [Calls -> PC]
        /\ host' \in [Calls -> Procs \cup {NoProc}]
        /\ event' \in [Calls -> BillingEvent]
    BY <2>1, <1>3, BeginType DEF PC
  <2>3. Targeted'
    BY <2>1 DEF Begin
  <2>4. seen' \in [Procs -> SUBSET Keys]
    <3>1. seen' = [seen EXCEPT ![q] = @ \cup {<<"event", i>>}]
      BY <1>1, <1>5 DEF Webhook
    <3>2. seen \in [Procs -> SUBSET Keys]
      OBVIOUS
    <3> HIDE DEF TypeInv, TypeOK, Targeted
    <3> QED
      BY <1>3, <3>1, <3>2, Grow
  <2> QED
    BY <1>1, <2>1, <2>2, <2>3, <2>4 DEF Webhook
<1> QED
  BY <1>4, <1>5

(* A webhook nobody signed. *)
Unsigned(c, q) ==
    \E n \in 1 .. MaxUnsigned, type \in Type, p \in Plans, st \in Status \ {"none"} :
       WebhookUnsigned(c, q, n, type, p, st)

LEMMA RequestType == TypeInv /\ Request => TypeInv'
<1> SUFFICES ASSUME TypeInv, NEW c \in Calls, NEW q \in Procs,
                    \/ \E s \in Subs : Confirm(c, q, s)
                    \/ \E p \in Plans : ChangePlan(c, q, p)
                    \/ \E st \in {"canceled", "active"} : AdminRead(c, q, st)
                    \/ Unsigned(c, q)
             PROVE  TypeInv'
  BY DEF Request, Unsigned
<1> USE DEF TypeInv, Targeted, stripeVars, dbVars, rowVars, procVars, callVars
<1>1. ASSUME NEW s \in Subs, Confirm(c, q, s) PROVE TypeInv'
  <2>1. PICK i \in DOMAIN log :
          Begin(c, q, "read", [EventOf(i) EXCEPT !.key = <<"confirm", s>>])
    BY <1>1 DEF Confirm
  <2>2. [EventOf(i) EXCEPT !.key = <<"confirm", s>>] \in BillingEvent
    BY EventOfType
  <2>3. /\ pc' \in [Calls -> PC]
        /\ host' \in [Calls -> Procs \cup {NoProc}]
        /\ event' \in [Calls -> BillingEvent]
    BY <2>1, <2>2, BeginType DEF PC
  <2>4. Targeted'
    BY <2>1, <1>1 DEF Begin, Confirm, TypeOK
  <2>5. seen' \in [Procs -> SUBSET Keys]
    BY <1>1, Values, Grow DEF Confirm, TypeOK
  <2> QED
    BY <1>1, <2>3, <2>4, <2>5 DEF Confirm, TypeOK
<1>2. ASSUME NEW p \in Plans, ChangePlan(c, q, p) PROVE TypeInv'
  <2> DEFINE e == [key |-> <<"change", p, row.sub>>, type |-> "plan_changed",
                   plan |-> p, status |-> "active", sub |-> 0]
             at == IF p > row.plan THEN "upgrade" ELSE "schedule"
  <2>1. row.sub \in Subs
    BY <1>2 DEF ChangePlan, TypeOK, Row
  <2>2. e \in BillingEvent /\ at \in PC
    BY <2>1, Values DEF BillingEvent, Type, Status, PC
  <2>3. Begin(c, q, at, e) /\ existing' = [existing EXCEPT ![c] = row]
    BY <1>2 DEF ChangePlan
  <2> HIDE DEF e, at
  <2>4. /\ pc' \in [Calls -> PC]
        /\ host' \in [Calls -> Procs \cup {NoProc}]
        /\ event' \in [Calls -> BillingEvent]
        /\ pc' = [pc EXCEPT ![c] = at]
    BY <2>2, <2>3, BeginType DEF Begin
  <2>5. existing' \in [Calls -> Row] /\ Targeted'
    BY <2>1, <2>3, <2>4 DEF TypeOK
  <2> QED
    BY <1>2, <2>4, <2>5 DEF ChangePlan, TypeOK
<1>3. ASSUME NEW st \in {"canceled", "active"}, AdminRead(c, q, st) PROVE TypeInv'
  <2>1. [NoEvent EXCEPT !.status = st] \in BillingEvent
    BY Values DEF BillingEvent, Status
  <2>2. /\ pc' \in [Calls -> PC]
        /\ host' \in [Calls -> Procs \cup {NoProc}]
        /\ event' \in [Calls -> BillingEvent]
    BY <1>3, <2>1, BeginType DEF AdminRead, PC
  <2>3. existing' \in [Calls -> Row] /\ Targeted'
    BY <1>3 DEF AdminRead, Begin, TypeOK
  <2> QED
    BY <1>3, <2>2, <2>3 DEF AdminRead, TypeOK
<1>4. CASE Unsigned(c, q)
  <2>1. PICK n \in 1 .. MaxUnsigned, type \in Type, p \in Plans, st \in Status \ {"none"} :
          WebhookUnsigned(c, q, n, type, p, st)
    BY <1>4 DEF Unsigned
  <2> DEFINE k == <<"unsigned", n>>
             e == [NoEvent EXCEPT !.key = k, !.type = type, !.plan = p, !.status = st]
  <2>2. k \in Keys /\ e \in BillingEvent
    BY Values DEF BillingEvent
  <2>3. /\ Begin(c, q, "read", e) /\ existing' = existing
        /\ seen' = [seen EXCEPT ![q] = @ \cup {k}]
    BY <2>1 DEF WebhookUnsigned
  <2> HIDE DEF e, k
  <2>4. /\ pc' \in [Calls -> PC]
        /\ host' \in [Calls -> Procs \cup {NoProc}]
        /\ event' \in [Calls -> BillingEvent]
    BY <2>2, <2>3, BeginType DEF PC
  <2>5. Targeted'
    BY <2>3 DEF Begin, TypeOK
  <2>6. seen' \in [Procs -> SUBSET Keys]
    <3>1. seen \in [Procs -> SUBSET Keys]
      BY DEF TypeOK
    <3> HIDE DEF TypeInv, Targeted
    <3> QED
      BY <2>2, <2>3, <3>1, Grow
  <2>7. unsigned' \subseteq Type \X Plans
    BY <2>1 DEF WebhookUnsigned, TypeOK
  <2> QED
    BY <2>1, <2>3, <2>4, <2>5, <2>6, <2>7 DEF WebhookUnsigned, TypeOK
<1> QED
  BY <1>1, <1>2, <1>3, <1>4

LEMMA ProceedType ==
  ASSUME TypeInv, NEW c \in Calls, Proceed(c) \/ StoreError(c) PROVE TypeInv'
<1> USE DEF TypeInv, Targeted, stripeVars, dbVars, rowVars, procVars, callVars
<1> DEFINE Requests ==
      /\ pc' \in [Calls -> PC]
      /\ host' \in [Calls -> Procs \cup {NoProc}]
      /\ event' \in [Calls -> BillingEvent]
      /\ existing' \in [Calls -> Row]
      /\ Targeted'
<1>1. End(c) => Requests
  <2> SUFFICES ASSUME End(c) PROVE Requests
    OBVIOUS
  <2>1. Targeted'
    BY DEF End, TypeOK
  <2> QED
    BY <2>1, EndType
<1>2. /\ event[c].plan \in Plans /\ event[c].key \in Keys /\ event[c].status \in Status
      /\ event[c].sub \in Subs \cup {0}
      /\ existing[c] \in Row
      /\ existing[c].plan \in Plans /\ existing[c].sub \in Subs \cup {0}
      /\ row.sub \in Subs \cup {0}
  BY DEF TypeOK, BillingEvent, Row
<1>3. SubId(c) \in Subs \cup {0}
  BY <1>2 DEF SubId
<1>4. CASE UpgradeAtStripe(c)
  <2>1. existing[c].sub \in Subs
    BY <1>4 DEF UpgradeAtStripe, Goto
  <2>2. stripeStatus[existing[c].sub] \in Status
    BY <2>1 DEF TypeOK
  <2>3. /\ log' \in Seq(Reports) /\ Len(log') <= MaxEvents
        /\ Len(log') = Len(log) + 1 /\ DOMAIN log \subseteq DOMAIN log'
    BY <1>2, <1>4, <2>1, <2>2, ReportType DEF UpgradeAtStripe, Type, Cause
  <2>4. pc' \in [Calls -> PC] /\ Targeted'
    BY <1>4 DEF UpgradeAtStripe, Goto, TypeOK, PC
  <2>5. latest' \in 0 .. MaxEvents /\ latest' <= Len(log')
    BY <1>4, <2>3 DEF UpgradeAtStripe, TypeOK
  <2> QED
    BY <1>2, <1>4, <2>3, <2>4, <2>5 DEF UpgradeAtStripe, TypeOK
<1>5. CASE ScheduleAtStripe(c)
  BY <1>1, <1>2, <1>5 DEF ScheduleAtStripe, TypeOK
<1>6. CASE RefusedAtStripe(c) \/ StoreError(c)
  BY <1>1, <1>6 DEF RefusedAtStripe, StoreError, TypeOK
<1>7. CASE Dedupe(c)
  <2>1. CASE event[c].key \in seen[host[c]]
    BY <1>1, <1>7, <2>1 DEF Dedupe, TypeOK
  <2>2. CASE event[c].key \notin seen[host[c]]
    <3>1. seen' \in [Procs -> SUBSET Keys]
      <4>1. seen' = [seen EXCEPT ![host[c]] = @ \cup {event[c].key}]
        BY <1>7, <2>2 DEF Dedupe
      <4>2. seen \in [Procs -> SUBSET Keys]
        BY DEF TypeOK
      <4> HIDE DEF TypeInv
      <4> QED
        BY <1>2, <4>1, <4>2, Grow
    <3> QED
      BY <1>7, <2>2, <3>1 DEF Dedupe, Goto, TypeOK, PC
  <2> QED
    BY <2>1, <2>2
<1>8. CASE ReadExisting(c)
  BY <1>8 DEF ReadExisting, Goto, TypeOK, PC
<1>9. CASE WriteOrg(c)
  BY <1>2, <1>9 DEF WriteOrg, Goto, TypeOK, PC
<1>10. CASE WriteSub(c)
  <2>1. row' \in Row
    BY <1>2, <1>3, <1>10 DEF WriteSub, Row, Status
  <2>2. acked' \subseteq DOMAIN log
    BY <1>10 DEF WriteSub, Acknowledged, TypeOK
  <2>3. writes' \in [Procs -> [Keys -> Nat]]
    <3>1. writes' = [writes EXCEPT ![host[c]][event[c].key] = @ + 1]
      BY <1>10 DEF WriteSub
    <3>2. writes \in [Procs -> [Keys -> Nat]]
      BY DEF TypeOK
    <3> HIDE DEF TypeInv
    <3> QED
      BY <1>2, <3>1, <3>2, Count
  <2>4. /\ latest' \in 0 .. MaxEvents /\ latest' <= Len(log)
        /\ overtakenBy' \in Writers \cup {"none"}
    <3>1. CASE \E i \in DOMAIN log : i >= latest /\ latest' = i /\ overtakenBy' = "none"
      BY <3>1 DEF TypeOK
    <3>2. CASE latest' = latest /\ overtakenBy' = event[c].key[1]
      BY <1>2, <3>2, Values DEF TypeOK
    <3> QED
      BY <1>10, <3>1, <3>2 DEF WriteSub, WrittenFrom
  <2> QED
    BY <1>1, <1>2, <1>10, <2>1, <2>2, <2>3, <2>4 DEF WriteSub, TypeOK
<1>11. CASE AdminWrite(c)
  <2>1. row' \in Row
    BY <1>2, <1>3, <1>11 DEF AdminWrite, Row
  <2>2. overtakenBy' \in Writers /\ reactivated' \in BOOLEAN
    BY <1>11 DEF AdminWrite, Writers, TypeOK
  <2> QED
    BY <1>1, <1>11, <2>1, <2>2 DEF AdminWrite, TypeOK
<1> QED
  BY <1>4, <1>5, <1>6, <1>7, <1>8, <1>9, <1>10, <1>11 DEF Proceed

LEMMA TypeStep == TypeInv /\ [Next]_vars => TypeInv'
<1> SUFFICES ASSUME TypeInv, [Next]_vars PROVE TypeInv'
  OBVIOUS
<1> USE DEF TypeInv, Targeted, stripeVars, dbVars, rowVars, procVars, callVars
<1>1. CASE AdminReset
  BY <1>1, Values DEF AdminReset, TypeOK, Row, Status, Writers
<1>2. ASSUME NEW q \in Procs, Restart(q) PROVE TypeInv'
  <2>1. /\ pc' \in [Calls -> PC] /\ host' \in [Calls -> Procs \cup {NoProc}]
        /\ event' \in [Calls -> BillingEvent] /\ existing' \in [Calls -> Row]
    BY <1>2, Values DEF Restart, TypeOK, PC
  <2>2. Targeted'
    BY <1>2 DEF Restart, TypeOK
  <2>3. writes' \in [Procs -> [Keys -> Nat]] /\ seen' \in [Procs -> SUBSET Keys]
    BY <1>2, Values DEF Restart, TypeOK
  <2> QED
    BY <1>2, <2>1, <2>2, <2>3 DEF Restart, TypeOK
<1>3. CASE UNCHANGED vars
  BY <1>3 DEF vars, TypeOK
<1> QED
  BY <1>1, <1>2, <1>3, StripeType, DeliverType, RequestType, ProceedType DEF Next

THEOREM TypeInvariant == Spec => []TypeInv
<1> QED
  BY InitTypeInv, TypeStep, PTL DEF Spec

-----------------------------------------------------------------------------
(* Nothing unpaid.  A call on its way to the database carries a plan that  *)
(* somebody is entitled to, and there is no event, row or subscription     *)
(* before a sale or an unsigned webhook.                                   *)
Sold == unsigned # {} \/ \E p \in Plans : Entitled(p)

InFlight(c) == pc[c] \in {"dedupe", "read", "writeOrg", "writeSub"}

ChargeInv ==
    /\ \A s \in Subs : Bought(s) => Sold
    /\ \A i \in DOMAIN log : Sold /\ (log[i].type = "plan_changed" => Entitled(log[i].plan))
    /\ \A c \in Calls : InFlight(c) =>
          Sold /\ (event[c].type = "plan_changed" => Entitled(event[c].plan))
    /\ \A c \in Calls : pc[c] = "writeOrg" => event[c].type = "plan_changed"
    /\ NothingUnpaid

(* What Stripe reports keeps every earlier report in its place. *)
LEMMA Reported ==
  ASSUME TypeOK, NEW r, log' = Append(log, r)
  PROVE  /\ \A i \in DOMAIN log' : i \in DOMAIN log \/ i = Len(log) + 1
         /\ \A i \in DOMAIN log : i \in DOMAIN log' /\ log'[i] = log[i]
         /\ Len(log) + 1 \in DOMAIN log' /\ log'[Len(log) + 1] = r
<1>1. log \in Seq(Reports)
  BY DEF TypeOK
<1> QED
  BY <1>1

(* A step in which Stripe reports nothing: it is enough that each call is  *)
(* where it was, gone, or admissible, and writes what it may.              *)
LEMMA ChargeQuiet ==
  ASSUME TypeOK, ChargeInv, log' = log, stripeStatus' = stripeStatus,
         unsigned \subseteq unsigned', reactivated => reactivated',
         \/ orgPlan' = orgPlan
         \/ \E c \in Calls : pc[c] = "writeOrg" /\ orgPlan' = event[c].plan,
         \/ row'.status = "active" => row.status = "active"
         \/ \E c \in Calls : InFlight(c)
         \/ row'.status = "active" => reactivated',
         \A c \in Calls :
            \/ InFlight(c) /\ event'[c] = event[c] /\ pc'[c] \in {"dedupe", "read", "writeSub"}
            \/ pc'[c] = pc[c] /\ event'[c] = event[c]
            \/ pc'[c] \in {"idle", "upgrade", "schedule", "admin"}
            \/ /\ InFlight(c) /\ event'[c] = event[c]
               /\ event[c].type = "plan_changed" /\ pc'[c] = "writeOrg"
            \/ /\ pc'[c] = "read"
               /\ (Sold /\ (event[c].type = "plan_changed" => Entitled(event[c].plan)))'
  PROVE  ChargeInv'
<1>1. \A p : Entitled(p) =>
         \/ \E i \in DOMAIN log' : log'[i].plan = p /\ log'[i].cause \in {"purchase", "upgrade"}
         \/ \E i \in DOMAIN log' : log'[i].plan = p /\ log'[i].cause \in {"unpaid"}
         \/ <<"plan_changed", p>> \in unsigned'
  BY DEF Entitled, SoldAs
<1>2. Sold => Sold'
  BY <1>1 DEF Sold, Entitled, SoldAs
<1>3. NothingUnpaid'
  <2>1. orgPlan' = Starter \/ Entitled(orgPlan)'
    <3>1. ASSUME orgPlan' = orgPlan PROVE orgPlan' = Starter \/ Entitled(orgPlan)'
      BY <1>1, <3>1 DEF ChargeInv, NothingUnpaid, Entitled, SoldAs
    <3>2. ASSUME NEW c \in Calls, pc[c] = "writeOrg", orgPlan' = event[c].plan
          PROVE  Entitled(orgPlan)'
      <4>1. Entitled(event[c].plan)
        BY <3>2 DEF ChargeInv, InFlight
      <4> QED
        BY <1>1, <3>2, <4>1 DEF Entitled, SoldAs
    <3> QED
      BY <3>1, <3>2
  <2>2. row'.status = "active" => reactivated' \/ Sold
    BY DEF ChargeInv, NothingUnpaid, Sold
  <2>3. row'.status = "active" => reactivated' \/ unsigned' # {} \/ \E p \in Plans : Entitled(p)'
    BY <1>2, <2>2 DEF Sold
  <2> QED
    BY <2>1, <2>3 DEF NothingUnpaid
<1>4. ASSUME NEW c \in Calls, InFlight(c)'
      PROVE  (Sold /\ (event[c].type = "plan_changed" => Entitled(event[c].plan)))'
  <2>1. CASE InFlight(c) /\ event'[c] = event[c]
    <3>1. Sold /\ (event[c].type = "plan_changed" => Entitled(event[c].plan))
      BY <2>1 DEF ChargeInv
    <3> QED
      BY <1>1, <1>2, <2>1, <3>1 DEF Entitled, SoldAs
  <2>2. CASE ~ (InFlight(c) /\ event'[c] = event[c])
    BY <1>4, <2>2 DEF InFlight
  <2> QED
    BY <2>1, <2>2
<1>5. \A c \in Calls : pc'[c] = "writeOrg" => event'[c].type = "plan_changed"
  BY DEF ChargeInv
<1>6. /\ \A s \in Subs : Bought(s)' => Sold'
      /\ \A i \in DOMAIN log' :
           (Sold /\ (log[i].type = "plan_changed" => Entitled(log[i].plan)))'
  BY <1>1, <1>2 DEF ChargeInv, Bought, Entitled, SoldAs
<1> QED
  BY <1>3, <1>4, <1>5, <1>6 DEF ChargeInv

(* A report of Stripe: it sells, or something was sold before.             *)
LEMMA ChargeReport ==
  ASSUME TypeOK, ChargeInv, NEW type, NEW s \in Subs, NEW p \in Plans, NEW st, NEW cause,
         Report(type, s, p, st, cause),
         \/ cause \in {"purchase", "unpaid", "upgrade"}
         \/ Sold /\ type # "plan_changed",
         row' = row, orgPlan' = orgPlan, unsigned' = unsigned, reactivated' = reactivated,
         \A c \in Calls : event'[c] = event[c],
         \A c \in Calls : \/ pc'[c] = pc[c]
                          \/ pc'[c] = "dedupe" /\ event[c].plan = p /\ cause = "upgrade"
  PROVE  ChargeInv'
<1> DEFINE n == Len(log) + 1
<1>0. /\ \A i \in DOMAIN log' : i \in DOMAIN log \/ i = n
      /\ \A i \in DOMAIN log : i \in DOMAIN log' /\ log'[i] = log[i]
      /\ n \in DOMAIN log' /\ log'[n].type = type /\ log'[n].plan = p /\ log'[n].cause = cause
  <2> DEFINE r == [type |-> type, plan |-> p, status |-> st, sub |-> s, cause |-> cause]
  <2>1. log' = Append(log, r)
    BY DEF Report
  <2> HIDE DEF r
  <2>2. /\ \A i \in DOMAIN log' : i \in DOMAIN log \/ i = n
        /\ \A i \in DOMAIN log : i \in DOMAIN log' /\ log'[i] = log[i]
        /\ n \in DOMAIN log' /\ log'[n] = r
    BY <2>1, Reported
  <2> QED
    BY <2>2 DEF r
<1> HIDE DEF n
<1> DEFINE Granted(x) ==
      \/ \E i \in DOMAIN log' : log'[i].plan = x /\ log'[i].cause \in {"purchase", "upgrade"}
      \/ \E i \in DOMAIN log' : log'[i].plan = x /\ log'[i].cause \in {"unpaid"}
      \/ <<"plan_changed", x>> \in unsigned'
<1>1. \A x : Entitled(x) => Granted(x)
  BY <1>0 DEF Entitled, SoldAs
<1>2. cause \in {"purchase", "unpaid", "upgrade"} => Granted(p)
  BY <1>0
<1>3. (unsigned' # {} \/ \E x \in Plans : Granted(x)) /\ (type = "plan_changed" => Granted(p))
  BY <1>1, <1>2 DEF Sold
<1>4. Sold'
  BY <1>3 DEF Sold, Entitled, SoldAs
<1>5. ASSUME NEW i \in DOMAIN log'
      PROVE  (log[i].type = "plan_changed" => Entitled(log[i].plan))'
  <2>1. log'[i].type = "plan_changed" => Granted(log'[i].plan)
    BY <1>0, <1>1, <1>3 DEF ChargeInv
  <2> QED
    BY <2>1 DEF Entitled, SoldAs
<1>6. ASSUME NEW c \in Calls, InFlight(c)'
      PROVE  (event[c].type = "plan_changed" => Entitled(event[c].plan))'
  <2>1. event'[c] = event[c] /\ (event[c].type = "plan_changed" => Granted(event[c].plan))
    BY <1>1, <1>2, <1>6 DEF ChargeInv, InFlight
  <2> QED
    BY <2>1 DEF Entitled, SoldAs
<1>7. \A c \in Calls : pc'[c] = "writeOrg" => event'[c].type = "plan_changed"
  BY DEF ChargeInv
<1>8. NothingUnpaid'
  <2>1. orgPlan' = Starter \/ Granted(orgPlan')
    BY <1>1 DEF ChargeInv, NothingUnpaid
  <2> QED
    BY <1>4, <2>1 DEF NothingUnpaid, Sold, Entitled, SoldAs
<1> QED
  BY <1>4, <1>5, <1>6, <1>7, <1>8 DEF ChargeInv

LEMMA ChargeStripe == TypeInv /\ ChargeInv /\ Stripe => ChargeInv'
<1> SUFFICES ASSUME TypeInv, ChargeInv, Stripe PROVE ChargeInv'
  OBVIOUS
<1> USE DEF TypeInv, stripeVars, dbVars, rowVars, procVars, callVars
<1>1. ASSUME NEW p \in Plans, NEW cause \in {"purchase", "unpaid"}, Purchase(p, cause)
      PROVE  ChargeInv'
  BY <1>1, ChargeReport DEF Purchase
<1>2. ASSUME NEW s \in Subs, NEW st \in Status \ {"none"}, StatusChange(s, st)
      PROVE  ChargeInv'
  <2>1. Sold /\ stripePlan[s] \in Plans
    BY <1>2 DEF StatusChange, ChargeInv, Bought, TypeOK
  <2> QED
    BY <1>2, <2>1, ChargeReport DEF StatusChange
<1>3. ASSUME NEW s \in Subs, PeriodEnd(s) PROVE ChargeInv'
  <2>1. Sold /\ scheduled[s] \in Plans
    BY <1>3 DEF PeriodEnd, ChargeInv, Bought, TypeOK
  <2> QED
    BY <1>3, <2>1, ChargeReport DEF PeriodEnd
<1> QED
  BY <1>1, <1>2, <1>3 DEF Stripe

LEMMA ChargeProceed ==
  ASSUME TypeInv, ChargeInv, NEW c \in Calls, Proceed(c) \/ StoreError(c) PROVE ChargeInv'
<1> USE DEF TypeInv, stripeVars, dbVars, rowVars, procVars, callVars
<1>0. End(c) => /\ pc'[c] = "idle"
                /\ \A d \in Calls \ {c} : pc'[d] = pc[d] /\ event'[d] = event[d]
  BY DEF End, TypeOK
<1>1. CASE UpgradeAtStripe(c)
  <2>1. existing[c].sub \in Subs /\ event[c].plan \in Plans
    BY <1>1 DEF UpgradeAtStripe, Goto, Targeted, TypeOK, BillingEvent
  <2>2. pc' = [pc EXCEPT ![c] = "dedupe"] /\ pc \in [Calls -> PC]
    BY <1>1 DEF UpgradeAtStripe, Goto, TypeOK
  <2>3. \A d \in Calls : pc'[d] = pc[d] \/ (pc'[d] = "dedupe" /\ d = c)
    BY <2>2
  <2> QED
    BY <1>1, <2>1, <2>3, ChargeReport DEF UpgradeAtStripe
<1>2. CASE ScheduleAtStripe(c) \/ RefusedAtStripe(c) \/ StoreError(c)
  BY <1>0, <1>2, ChargeQuiet DEF ScheduleAtStripe, RefusedAtStripe, StoreError
<1>3. CASE Dedupe(c)
  <2>1. CASE End(c)
    BY <1>0, <1>3, <2>1, ChargeQuiet DEF Dedupe
  <2>2. CASE Goto(c, "dedupe", "read") /\ event' = event
    BY <1>3, <2>2, ChargeQuiet DEF Dedupe, Goto, InFlight, TypeOK
  <2> QED
    BY <1>3, <2>1, <2>2 DEF Dedupe
<1>4. CASE ReadExisting(c)
  BY <1>4, ChargeQuiet DEF ReadExisting, Goto, InFlight, TypeOK, BillingEvent, Type
<1>5. CASE WriteOrg(c)
  BY <1>5, ChargeQuiet DEF WriteOrg, Goto, InFlight, TypeOK
<1>6. CASE WriteSub(c)
  BY <1>0, <1>6, ChargeQuiet DEF WriteSub, InFlight
<1>7. CASE AdminWrite(c)
  <2>1. /\ row'.status = "active" => reactivated'
        /\ reactivated => reactivated'
    BY <1>7 DEF AdminWrite
  <2> QED
    BY <1>0, <1>7, <2>1, ChargeQuiet DEF AdminWrite
<1> QED
  BY <1>1, <1>2, <1>3, <1>4, <1>5, <1>6, <1>7 DEF Proceed

LEMMA ChargeStep == TypeInv /\ ChargeInv /\ [Next]_vars => ChargeInv'
<1> SUFFICES ASSUME TypeInv, ChargeInv, [Next]_vars PROVE ChargeInv'
  OBVIOUS
<1> USE DEF TypeInv, stripeVars, dbVars, rowVars, procVars, callVars
<1>1. ASSUME NEW i \in Events, Deliver(i) PROVE ChargeInv'
  <2>1. PICK c \in Calls, q \in Procs : Webhook(c, q, i)
    BY <1>1 DEF Deliver
  <2>2. CASE <<"event", i>> \in seen[q]
    BY <2>1, <2>2, ChargeQuiet DEF Webhook
  <2>3. CASE <<"event", i>> \notin seen[q]
    <3>1. /\ pc'[c] = "read" /\ i \in DOMAIN log
          /\ event'[c].type = log[i].type /\ event'[c].plan = log[i].plan
          /\ \A d \in Calls \ {c} : pc'[d] = pc[d] /\ event'[d] = event[d]
      BY <2>1, <2>3 DEF Webhook, Begin, EventOf, TypeOK
    <3>2. (Sold /\ (event[c].type = "plan_changed" => Entitled(event[c].plan)))'
      BY <2>1, <2>3, <3>1 DEF Webhook, ChargeInv, Sold, Entitled, SoldAs
    <3> QED
      BY <2>1, <2>3, <3>1, <3>2, ChargeQuiet DEF Webhook
  <2> QED
    BY <2>2, <2>3
<1>2. ASSUME NEW c \in Calls, NEW q \in Procs, NEW s \in Subs, Confirm(c, q, s)
      PROVE  ChargeInv'
  <2>1. PICK i \in DOMAIN log :
          Begin(c, q, "read", [EventOf(i) EXCEPT !.key = <<"confirm", s>>])
    BY <1>2 DEF Confirm
  <2>2. /\ pc'[c] = "read"
        /\ event'[c].type = log[i].type /\ event'[c].plan = log[i].plan
        /\ \A d \in Calls \ {c} : pc'[d] = pc[d] /\ event'[d] = event[d]
    BY <2>1 DEF Begin, EventOf, TypeOK
  <2>3. (Sold /\ (event[c].type = "plan_changed" => Entitled(event[c].plan)))'
    BY <1>2, <2>2 DEF Confirm, ChargeInv, Sold, Entitled, SoldAs
  <2> QED
    BY <1>2, <2>2, <2>3, ChargeQuiet DEF Confirm
<1>3. ASSUME NEW c \in Calls, NEW q \in Procs, NEW p \in Plans, ChangePlan(c, q, p)
      PROVE  ChargeInv'
  <2>1. /\ pc'[c] \in {"upgrade", "schedule"}
        /\ \A d \in Calls \ {c} : pc'[d] = pc[d] /\ event'[d] = event[d]
    BY <1>3 DEF ChangePlan, Begin, TypeOK
  <2> QED
    BY <1>3, <2>1, ChargeQuiet DEF ChangePlan
<1>4. ASSUME NEW c \in Calls, NEW q \in Procs, NEW st, AdminRead(c, q, st)
      PROVE  ChargeInv'
  <2>1. /\ pc'[c] = "admin"
        /\ \A d \in Calls \ {c} : pc'[d] = pc[d] /\ event'[d] = event[d]
    BY <1>4 DEF AdminRead, Begin, TypeOK
  <2> QED
    BY <1>4, <2>1, ChargeQuiet DEF AdminRead
<1>5. CASE AdminReset
  BY <1>5, ChargeQuiet DEF AdminReset
<1>6. ASSUME NEW q \in Procs, Restart(q) PROVE ChargeInv'
  <2>1. \A d \in Calls : pc'[d] = "idle" \/ (pc'[d] = pc[d] /\ event'[d] = event[d])
    BY <1>6 DEF Restart
  <2> QED
    BY <1>6, <2>1, ChargeQuiet DEF Restart
<1>7. CASE UNCHANGED vars
  BY <1>7, ChargeQuiet DEF vars
<1>8. ASSUME NEW c \in Calls, NEW q \in Procs, Unsigned(c, q) PROVE ChargeInv'
  <2>1. PICK n \in 1 .. MaxUnsigned, type \in Type, p \in Plans, st \in Status \ {"none"} :
          WebhookUnsigned(c, q, n, type, p, st)
    BY <1>8 DEF Unsigned
  <2>2. /\ pc'[c] = "read" /\ event'[c].type = type /\ event'[c].plan = p
        /\ unsigned' = unsigned \cup {<<type, p>>}
        /\ \A d \in Calls \ {c} : pc'[d] = pc[d] /\ event'[d] = event[d]
    BY <2>1 DEF WebhookUnsigned, Begin, TypeOK, BillingEvent
  <2>3. (Sold /\ (event[c].type = "plan_changed" => Entitled(event[c].plan)))'
    BY <2>2 DEF Sold, Entitled
  <2> QED
    BY <2>1, <2>2, <2>3, ChargeQuiet DEF WebhookUnsigned
<1> QED
  BY <1>1, <1>2, <1>3, <1>4, <1>5, <1>6, <1>7, <1>8, ChargeStripe, ChargeProceed
     DEF Next, Request, Unsigned

LEMMA InitCharge == Init => ChargeInv
<1> SUFFICES ASSUME Init PROVE ChargeInv
  OBVIOUS
<1>1. DOMAIN log = {} /\ NothingUnpaid
  BY DEF Init, NothingUnpaid, NoRow
<1>2. \A s \in Subs : ~ Bought(s)
  BY DEF Init, Bought
<1>3. \A c \in Calls : pc[c] = "idle"
  BY DEF Init
<1> QED
  BY <1>1, <1>2, <1>3 DEF ChargeInv, InFlight

(* Nothing above the starter tier is unlocked and no access granted        *)
(* without a charge, an unpaid checkout of that plan, an unsigned webhook  *)
(* naming it, or the console (billing.service.ts applyEvent, changePlan,   *)
(* stripe.provider.ts parseWebhook, confirmCheckout), whatever is          *)
(* duplicated, reordered, retried or fails, and whenever processes         *)
(* restart.                                                                *)
THEOREM NothingUnpaidUnlocked == Spec => []NothingUnpaid
<1>1. ChargeInv => NothingUnpaid
  BY DEF ChargeInv
<1> QED
  BY <1>1, InitCharge, ChargeStep, TypeInvariant, PTL DEF Spec

-----------------------------------------------------------------------------
(* Once per lifetime.  An event being applied is marked as seen by the     *)
(* process that applies it, has not been written yet, and no other call of *)
(* that process carries it.                                                *)
Applying(c) == pc[c] \in {"read", "writeOrg", "writeSub"}

Marked ==
    \A c \in Calls : Applying(c) =>
        /\ host[c] \in Procs
        /\ event[c].key \in seen[host[c]]
        /\ writes[host[c]][event[c].key] = 0

Exclusive ==
    \A c, d \in Calls : Applying(c) /\ Applying(d) /\ c # d /\ host[c] = host[d]
        => event[c].key # event[d].key

OnceInv ==
    /\ \A c \in Calls : pc[c] # "idle" => host[c] \in Procs
    /\ Marked
    /\ Exclusive
    /\ \A q \in Procs, k \in Keys : k \notin seen[q] => writes[q][k] = 0
    /\ AppliedOncePerLifetime

LEMMA InitOnce == Init => OnceInv
<1> SUFFICES ASSUME Init PROVE OnceInv
  OBVIOUS
<1>1. \A c \in Calls : pc[c] = "idle"
  BY DEF Init
<1>2. \A q \in Procs, k \in Keys : writes[q][k] = 0
  BY DEF Init, NoWrites
<1> QED
  BY <1>1, <1>2 DEF OnceInv, Marked, Exclusive, Applying, AppliedOncePerLifetime

(* A step after which no call applies an event it did not apply before.    *)
LEMMA OnceQuiet ==
  ASSUME TypeOK, OnceInv, seen' = seen, writes' = writes,
         \A c \in Calls : pc'[c] # "idle" => host'[c] \in Procs,
         \A c \in Calls : pc'[c] \in {"read", "writeOrg", "writeSub"} =>
            Applying(c) /\ host'[c] = host[c] /\ event'[c] = event[c]
  PROVE  OnceInv'
<1>1. Marked' /\ Exclusive'
  BY DEF OnceInv, Marked, Exclusive, Applying
<1> QED
  BY <1>1 DEF OnceInv, AppliedOncePerLifetime

(* A call marks an event as seen and starts to apply it.                   *)
LEMMA OnceStart ==
  ASSUME TypeOK, OnceInv, NEW c \in Calls, NEW q \in Procs, NEW k \in Keys,
         k \notin seen[q], seen' = [seen EXCEPT ![q] = @ \cup {k}], writes' = writes,
         host'[c] = q, event'[c].key = k,
         \A d \in Calls \ {c} :
            pc'[d] = pc[d] /\ host'[d] = host[d] /\ event'[d] = event[d]
  PROVE  OnceInv'
<1>1. /\ \A r \in Procs : seen[r] \subseteq seen'[r]
      /\ \A r \in Procs, j \in Keys : j \in seen'[r] => j \in seen[r] \/ (r = q /\ j = k)
      /\ k \in seen'[q]
  BY DEF TypeOK
<1>2. writes[q][k] = 0
  BY DEF OnceInv
<1>3. Marked'
  BY <1>1, <1>2 DEF OnceInv, Marked, Applying
<1>4. \A d \in Calls \ {c} : Applying(d) /\ host[d] = q => event[d].key # k
  BY DEF OnceInv, Marked
<1>5. Exclusive'
  BY <1>4 DEF OnceInv, Exclusive, Applying
<1> QED
  BY <1>1, <1>3, <1>5 DEF OnceInv, AppliedOncePerLifetime

LEMMA OnceWrite ==
  ASSUME TypeOK, OnceInv, NEW c \in Calls, WriteSub(c) PROVE OnceInv'
<1> DEFINE q == host[c]
           k == event[c].key
<1> USE DEF stripeVars, dbVars, rowVars, procVars, callVars
<1>1. Applying(c) /\ q \in Procs /\ k \in Keys /\ k \in seen[q] /\ writes[q][k] = 0
  BY DEF WriteSub, Applying, OnceInv, Marked, TypeOK, BillingEvent
<1>2. /\ pc'[c] = "idle"
      /\ \A d \in Calls \ {c} :
           pc'[d] = pc[d] /\ host'[d] = host[d] /\ event'[d] = event[d]
  BY DEF WriteSub, End, TypeOK
<1>3. /\ seen' = seen
      /\ writes'[q][k] = 1
      /\ \A r \in Procs, j \in Keys : writes'[r][j] = writes[r][j] \/ (r = q /\ j = k)
  <2>1. writes' = [writes EXCEPT ![q][k] = @ + 1] /\ seen' = seen
    BY DEF WriteSub
  <2>2. writes \in [Procs -> [Keys -> Nat]]
    BY DEF TypeOK
  <2> HIDE DEF q, k
  <2> QED
    BY <1>1, <2>1, <2>2
<1>4. \A d \in Calls \ {c} : Applying(d) => host[d] # q \/ event[d].key # k
  BY <1>1 DEF OnceInv, Exclusive
<1>5. \A d \in Calls : event[d].key \in Keys
  BY DEF TypeOK, BillingEvent
<1> HIDE DEF q, k
<1>6. Marked'
  BY <1>2, <1>3, <1>4, <1>5 DEF OnceInv, Marked, Applying
<1>7. Exclusive'
  BY <1>2 DEF OnceInv, Exclusive, Applying
<1>8. \A d \in Calls : pc'[d] # "idle" => host'[d] \in Procs
  BY <1>2 DEF OnceInv
<1>9. \A r \in Procs, j \in Keys : j \notin seen'[r] => writes'[r][j] = 0
  BY <1>1, <1>3 DEF OnceInv
<1>10. \A r \in Procs, j \in Keys : writes'[r][j] <= 1
  BY <1>3 DEF OnceInv, AppliedOncePerLifetime
<1> QED
  BY <1>6, <1>7, <1>8, <1>9, <1>10 DEF OnceInv, AppliedOncePerLifetime

LEMMA OnceProceed ==
  ASSUME TypeInv, OnceInv, NEW c \in Calls, Proceed(c) \/ StoreError(c) PROVE OnceInv'
<1> USE DEF TypeInv, stripeVars, dbVars, rowVars, procVars, callVars
<1>0. End(c) => /\ pc'[c] = "idle"
                /\ \A d \in Calls \ {c} :
                     pc'[d] = pc[d] /\ host'[d] = host[d] /\ event'[d] = event[d]
  BY DEF End, TypeOK
<1>1. CASE End(c) /\ seen' = seen /\ writes' = writes
  <2>1. \A d \in Calls : pc'[d] # "idle" => host'[d] \in Procs
    BY <1>0, <1>1 DEF OnceInv
  <2> QED
    BY <1>0, <1>1, <2>1, OnceQuiet DEF Applying
<1>2. CASE UpgradeAtStripe(c)
  BY <1>2, OnceQuiet DEF UpgradeAtStripe, Goto, TypeOK, OnceInv, Applying
<1>3. CASE ScheduleAtStripe(c) \/ RefusedAtStripe(c) \/ StoreError(c) \/ AdminWrite(c)
  BY <1>1, <1>3 DEF ScheduleAtStripe, RefusedAtStripe, StoreError, AdminWrite
<1>4. CASE Dedupe(c)
  <2>1. CASE event[c].key \in seen[host[c]]
    BY <1>1, <1>4, <2>1 DEF Dedupe
  <2>2. CASE event[c].key \notin seen[host[c]]
    <3>1. /\ host[c] \in Procs /\ event[c].key \in Keys
          /\ seen' = [seen EXCEPT ![host[c]] = @ \cup {event[c].key}]
          /\ writes' = writes /\ host' = host /\ event' = event
          /\ \A d \in Calls \ {c} : pc'[d] = pc[d]
      BY <1>4, <2>2 DEF Dedupe, Goto, OnceInv, TypeOK, BillingEvent
    <3> HIDE DEF TypeInv
    <3> QED
      BY <2>2, <3>1, OnceStart DEF TypeInv
  <2> QED
    BY <2>1, <2>2
<1>5. CASE ReadExisting(c) \/ WriteOrg(c)
  <2>1. /\ seen' = seen /\ writes' = writes /\ host' = host /\ event' = event
        /\ Applying(c) /\ \A d \in Calls \ {c} : pc'[d] = pc[d]
    BY <1>5 DEF ReadExisting, WriteOrg, Goto, TypeOK, Applying
  <2>2. \A d \in Calls : pc'[d] # "idle" => host'[d] \in Procs
    BY <2>1 DEF OnceInv, Applying
  <2> QED
    BY <2>1, <2>2, OnceQuiet DEF Applying
<1> QED
  BY <1>2, <1>3, <1>4, <1>5, OnceWrite DEF Proceed

LEMMA OnceStep == TypeInv /\ OnceInv /\ [Next]_vars => OnceInv'
<1> SUFFICES ASSUME TypeInv, OnceInv, [Next]_vars PROVE OnceInv'
  OBVIOUS
<1> USE DEF TypeInv, stripeVars, dbVars, rowVars, procVars, callVars
<1>1. ASSUME pc' = pc, host' = host, event' = event, seen' = seen, writes' = writes
      PROVE  OnceInv'
  BY <1>1, OnceQuiet DEF OnceInv, Applying
<1>2. CASE Stripe \/ AdminReset \/ UNCHANGED vars
  BY <1>1, <1>2 DEF Stripe, Purchase, StatusChange, PeriodEnd, AdminReset, vars
<1>3. ASSUME NEW i \in Events, Deliver(i) PROVE OnceInv'
  <2>1. PICK c \in Calls, q \in Procs : Webhook(c, q, i)
    BY <1>3 DEF Deliver
  <2>2. CASE <<"event", i>> \in seen[q]
    BY <1>1, <2>1, <2>2 DEF Webhook
  <2>3. CASE <<"event", i>> \notin seen[q]
    <3>1. /\ seen' = [seen EXCEPT ![q] = @ \cup {<<"event", i>>}]
          /\ writes' = writes
          /\ host'[c] = q /\ event'[c].key = <<"event", i>>
          /\ \A d \in Calls \ {c} :
               pc'[d] = pc[d] /\ host'[d] = host[d] /\ event'[d] = event[d]
      BY <2>1, <2>3 DEF Webhook, Begin, EventOf, TypeOK
    <3> QED
      BY <2>3, <3>1, Values, OnceStart
  <2> QED
    BY <2>2, <2>3
<1>4. ASSUME NEW c \in Calls, NEW q \in Procs, NEW s \in Subs, Confirm(c, q, s)
      PROVE  OnceInv'
  <2>1. PICK i \in DOMAIN log :
          Begin(c, q, "read", [EventOf(i) EXCEPT !.key = <<"confirm", s>>])
    BY <1>4 DEF Confirm
  <2>2. /\ <<"confirm", s>> \notin seen[q]
        /\ seen' = [seen EXCEPT ![q] = @ \cup {<<"confirm", s>>}]
        /\ writes' = writes
        /\ host'[c] = q /\ event'[c].key = <<"confirm", s>>
        /\ \A d \in Calls \ {c} :
             pc'[d] = pc[d] /\ host'[d] = host[d] /\ event'[d] = event[d]
    BY <1>4, <2>1 DEF Confirm, Begin, EventOf, TypeOK
  <2> QED
    BY <2>2, Values, OnceStart
<1>5. ASSUME NEW c \in Calls, NEW q \in Procs,
             \/ \E p \in Plans : ChangePlan(c, q, p)
             \/ \E st \in {"canceled", "active"} : AdminRead(c, q, st)
      PROVE  OnceInv'
  <2>1. /\ seen' = seen /\ writes' = writes
        /\ pc'[c] \in {"upgrade", "schedule", "admin"} /\ host'[c] = q
        /\ \A d \in Calls \ {c} :
             pc'[d] = pc[d] /\ host'[d] = host[d] /\ event'[d] = event[d]
    BY <1>5 DEF ChangePlan, AdminRead, Begin, TypeOK
  <2>2. \A d \in Calls : pc'[d] # "idle" => host'[d] \in Procs
    BY <2>1 DEF OnceInv
  <2> QED
    BY <2>1, <2>2, OnceQuiet DEF Applying
<1>6. ASSUME NEW q \in Procs, Restart(q) PROVE OnceInv'
  <2>1. \A d \in Calls : \/ pc'[d] = "idle"
                         \/ /\ pc'[d] = pc[d] /\ host'[d] = host[d] /\ event'[d] = event[d]
                            /\ host[d] # q
    BY <1>6 DEF Restart
  <2>2. /\ seen' = [seen EXCEPT ![q] = {}] /\ writes' = [writes EXCEPT ![q] = NoWrites]
        /\ \A k \in Keys : NoWrites[k] = 0
    BY <1>6 DEF Restart, NoWrites
  <2>3. \A r \in Procs : /\ r # q => seen'[r] = seen[r] /\ writes'[r] = writes[r]
                         /\ r = q => \A k \in Keys : writes'[r][k] = 0
    BY <2>2 DEF TypeOK
  <2>4. Marked' /\ Exclusive'
    BY <2>1, <2>3 DEF OnceInv, Marked, Exclusive, Applying
  <2>5. AppliedOncePerLifetime' /\ \A r \in Procs, k \in Keys : k \notin seen'[r] => writes'[r][k] = 0
    BY <2>3 DEF OnceInv, AppliedOncePerLifetime
  <2> QED
    BY <2>1, <2>4, <2>5 DEF OnceInv
<1>7. ASSUME NEW c \in Calls, NEW q \in Procs, Unsigned(c, q) PROVE OnceInv'
  <2>1. PICK n \in 1 .. MaxUnsigned, type \in Type, p \in Plans, st \in Status \ {"none"} :
          WebhookUnsigned(c, q, n, type, p, st)
    BY <1>7 DEF Unsigned
  <2>2. /\ <<"unsigned", n>> \notin seen[q]
        /\ seen' = [seen EXCEPT ![q] = @ \cup {<<"unsigned", n>>}]
        /\ writes' = writes
        /\ host'[c] = q /\ event'[c].key = <<"unsigned", n>>
        /\ \A d \in Calls \ {c} :
             pc'[d] = pc[d] /\ host'[d] = host[d] /\ event'[d] = event[d]
    BY <2>1 DEF WebhookUnsigned, Begin, TypeOK, BillingEvent
  <2> QED
    BY <2>2, Values, OnceStart
<1> QED
  BY <1>2, <1>3, <1>4, <1>5, <1>6, <1>7, OnceProceed DEF Next, Request, Unsigned

(* Whatever Stripe redelivers or duplicates, and however requests          *)
(* interleave, a process applies an event once between two restarts        *)
(* (billing.service.ts processedEvents, applyEvent).                       *)
THEOREM OncePerLifetime == Spec => []AppliedOncePerLifetime
<1>1. OnceInv => AppliedOncePerLifetime
  BY DEF OnceInv
<1> QED
  BY <1>1, InitOnce, OnceStep, TypeInvariant, PTL DEF Spec

(* Every request, row and event is well formed; in particular a plan is    *)
(* one of PLAN_ORDER, and a change of plan names one (billing.service.ts   *)
(* changePlan).                                                            *)
THEOREM TypeCorrect == Spec => []TypeOK
<1>1. TypeInv => TypeOK
  BY DEF TypeInv
<1> QED
  BY <1>1, TypeInvariant, PTL

-----------------------------------------------------------------------------
(* Acknowledged means applied.  While the store does not fail, an event id *)
(* that a process remembers was applied, or is being applied by a call of  *)
(* that process: a redelivery that finds the id is safe to acknowledge.    *)
NoFailures == "storeError" \notin Allowed /\ "duplicate" \notin Allowed

Carrier(q, k) == \E c \in Calls : Applying(c) /\ host[c] = q /\ event[c].key = k
SeenIsServed == \A q \in Procs, k \in Keys : k \in seen[q] => k \in applied \/ Carrier(q, k)

AckInv == SeenIsServed /\ AckedWasApplied

(* A step that ends no call that is applying an event.                     *)
LEMMA AckQuiet ==
  ASSUME AckInv, acked' = acked, applied' = applied,
         \A q \in Procs : seen'[q] \subseteq seen[q],
         \A c \in Calls : Applying(c) =>
            \/ Applying(c)' /\ host'[c] = host[c] /\ event'[c].key = event[c].key
            \/ seen'[host[c]] = {}
  PROVE  AckInv'
<1>1. SeenIsServed'
  BY DEF AckInv, SeenIsServed, Carrier
<1> QED
  BY <1>1 DEF AckInv, AckedWasApplied

LEMMA AckStart ==
  ASSUME TypeOK, AckInv, acked' = acked, applied' = applied,
         NEW c \in Calls, NEW q \in Procs, NEW k \in Keys, ~ Applying(c),
         seen' = [seen EXCEPT ![q] = @ \cup {k}],
         pc'[c] = "read", host'[c] = q, event'[c].key = k,
         \A d \in Calls \ {c} :
            pc'[d] = pc[d] /\ host'[d] = host[d] /\ event'[d] = event[d]
  PROVE  AckInv'
<1>1. \A r \in Procs, j \in Keys : j \in seen'[r] => j \in seen[r] \/ (r = q /\ j = k)
  BY DEF TypeOK
<1>2. Carrier(q, k)'
  BY DEF Carrier, Applying
<1>3. \A r \in Procs, j \in Keys : Carrier(r, j) => Carrier(r, j)'
  BY DEF Carrier, Applying
<1>4. SeenIsServed'
  BY <1>1, <1>2, <1>3 DEF AckInv, SeenIsServed
<1> QED
  BY <1>4 DEF AckInv, AckedWasApplied

LEMMA AckWrite ==
  ASSUME TypeOK, AckInv, NEW c \in Calls, WriteSub(c) PROVE AckInv'
<1>1. /\ applied' = applied \cup {event[c].key} /\ acked' = acked \cup Acknowledged(c)
      /\ seen' = seen
      /\ \A d \in Calls \ {c} : pc'[d] = pc[d] /\ host'[d] = host[d] /\ event'[d] = event[d]
  BY DEF WriteSub, End, TypeOK
<1>2. SeenIsServed'
  <2> SUFFICES ASSUME NEW q \in Procs, NEW k \in Keys, k \in seen[q], k # event[c].key
               PROVE  k \in applied \/ Carrier(q, k)'
    BY <1>1 DEF SeenIsServed
  <2>1. k \in applied \/ Carrier(q, k)
    BY DEF AckInv, SeenIsServed
  <2>2. Carrier(q, k) => Carrier(q, k)'
    BY <1>1 DEF Carrier, Applying
  <2> QED
    BY <2>1, <2>2
<1>3. AckedWasApplied'
  BY <1>1 DEF AckInv, AckedWasApplied, Acknowledged
<1> QED
  BY <1>2, <1>3 DEF AckInv

LEMMA AckProceed ==
  ASSUME NoFailures, TypeInv, OnceInv, AckInv, NEW c \in Calls, Proceed(c) \/ StoreError(c)
  PROVE  AckInv'
<1> USE DEF stripeVars, dbVars, rowVars, procVars, callVars
<1>0. TypeOK
  BY DEF TypeInv
<1>1. ASSUME ~ Applying(c), UNCHANGED <<acked, seen, applied>>,
             \A d \in Calls \ {c} : pc'[d] = pc[d] /\ host'[d] = host[d] /\ event'[d] = event[d]
      PROVE  AckInv'
  BY <1>1, AckQuiet DEF Applying
<1>2. End(c) => \A d \in Calls \ {c} :
                   pc'[d] = pc[d] /\ host'[d] = host[d] /\ event'[d] = event[d]
  BY <1>0 DEF End, TypeOK
<1>3. CASE UpgradeAtStripe(c)
  <2>1. \A d \in Calls \ {c} : pc'[d] = pc[d]
    BY <1>0, <1>3 DEF UpgradeAtStripe, Goto, TypeOK
  <2> QED
    BY <1>1, <1>3, <2>1 DEF UpgradeAtStripe, Goto, Applying
<1>4. CASE ScheduleAtStripe(c) \/ RefusedAtStripe(c) \/ AdminWrite(c)
  BY <1>1, <1>2, <1>4 DEF ScheduleAtStripe, RefusedAtStripe, AdminWrite, Applying
<1>5. CASE Dedupe(c)
  <2>1. CASE event[c].key \in seen[host[c]]
    BY <1>1, <1>2, <1>5, <2>1 DEF Dedupe, Applying
  <2>2. CASE event[c].key \notin seen[host[c]]
    <3>1. /\ host[c] \in Procs /\ event[c].key \in Keys /\ ~ Applying(c)
      BY <1>0, <1>5 DEF Dedupe, OnceInv, TypeOK, BillingEvent, Applying
    <3>2. /\ seen' = [seen EXCEPT ![host[c]] = @ \cup {event[c].key}]
          /\ UNCHANGED <<acked, applied, host, event>> /\ pc'[c] = "read"
          /\ \A d \in Calls \ {c} : pc'[d] = pc[d]
      BY <1>0, <1>5, <2>2 DEF Dedupe, Goto, TypeOK
    <3> QED
      BY <1>0, <3>1, <3>2, AckStart
  <2> QED
    BY <2>1, <2>2
<1>6. CASE ReadExisting(c) \/ WriteOrg(c)
  <2>1. /\ UNCHANGED <<acked, seen, applied, host, event>>
        /\ pc'[c] \in {"writeOrg", "writeSub"}
        /\ \A d \in Calls \ {c} : pc'[d] = pc[d]
    BY <1>0, <1>6 DEF ReadExisting, WriteOrg, Goto, TypeOK
  <2> QED
    BY <2>1, AckQuiet DEF Applying
<1>7. CASE StoreError(c)
  BY <1>7 DEF StoreError, NoFailures
<1> QED
  BY <1>0, <1>3, <1>4, <1>5, <1>6, <1>7, AckWrite DEF Proceed

LEMMA AckStep == NoFailures /\ TypeInv /\ OnceInv /\ AckInv /\ [Next]_vars => AckInv'
<1> SUFFICES ASSUME NoFailures, TypeInv, OnceInv, AckInv, [Next]_vars PROVE AckInv'
  OBVIOUS
<1> USE DEF stripeVars, dbVars, rowVars, procVars, callVars
<1>0. TypeOK
  BY DEF TypeInv
<1>1. ASSUME UNCHANGED <<acked, procVars, pc, host, event>> PROVE AckInv'
  BY <1>1, AckQuiet DEF Applying
<1>2. CASE Stripe \/ AdminReset \/ UNCHANGED vars
  BY <1>1, <1>2 DEF Stripe, Purchase, StatusChange, PeriodEnd, AdminReset, vars
<1>3. ASSUME NEW i \in Events, Deliver(i) PROVE AckInv'
  <2>1. PICK c \in Calls, q \in Procs : Webhook(c, q, i)
    BY <1>3 DEF Deliver
  <2>2. CASE <<"event", i>> \in seen[q]
    <3>1. ~ Carrier(q, <<"event", i>>)
      BY <2>1 DEF Webhook, Deliverable, NoFailures, Carrier
    <3>2. <<"event", i>> \in applied
      BY <2>2, <3>1, Values DEF AckInv, SeenIsServed
    <3>3. acked' = acked \cup {i} /\ UNCHANGED <<procVars, callVars>>
      BY <2>1, <2>2 DEF Webhook
    <3> QED
      BY <3>2, <3>3 DEF AckInv, AckedWasApplied, SeenIsServed, Carrier, Applying
  <2>3. CASE <<"event", i>> \notin seen[q]
    <3>1. /\ seen' = [seen EXCEPT ![q] = @ \cup {<<"event", i>>}]
          /\ acked' = acked /\ applied' = applied /\ ~ Applying(c)
          /\ pc'[c] = "read" /\ host'[c] = q /\ event'[c].key = <<"event", i>>
          /\ \A d \in Calls \ {c} :
               pc'[d] = pc[d] /\ host'[d] = host[d] /\ event'[d] = event[d]
      BY <1>0, <2>1, <2>3 DEF Webhook, Begin, EventOf, Applying, TypeOK
    <3> QED
      BY <1>0, <3>1, Values, AckStart
  <2> QED
    BY <2>2, <2>3
<1>4. ASSUME NEW c \in Calls, NEW q \in Procs, NEW s \in Subs, Confirm(c, q, s)
      PROVE  AckInv'
  <2>1. PICK i \in DOMAIN log :
          Begin(c, q, "read", [EventOf(i) EXCEPT !.key = <<"confirm", s>>])
    BY <1>4 DEF Confirm
  <2>2. /\ seen' = [seen EXCEPT ![q] = @ \cup {<<"confirm", s>>}]
        /\ acked' = acked /\ applied' = applied /\ ~ Applying(c)
        /\ pc'[c] = "read" /\ host'[c] = q /\ event'[c].key = <<"confirm", s>>
        /\ \A d \in Calls \ {c} :
             pc'[d] = pc[d] /\ host'[d] = host[d] /\ event'[d] = event[d]
    BY <1>0, <1>4, <2>1 DEF Confirm, Begin, EventOf, Applying, TypeOK
  <2> QED
    BY <1>0, <2>2, Values, AckStart
<1>5. ASSUME NEW c \in Calls, NEW q \in Procs,
             \/ \E p \in Plans : ChangePlan(c, q, p)
             \/ \E st \in {"canceled", "active"} : AdminRead(c, q, st)
      PROVE  AckInv'
  <2>1. /\ UNCHANGED <<acked, procVars>> /\ ~ Applying(c)
        /\ \A d \in Calls \ {c} :
             pc'[d] = pc[d] /\ host'[d] = host[d] /\ event'[d] = event[d]
    BY <1>0, <1>5 DEF ChangePlan, AdminRead, Begin, TypeOK, Applying
  <2> QED
    BY <2>1, AckQuiet DEF Applying
<1>6. ASSUME NEW q \in Procs, Restart(q) PROVE AckInv'
  <2>1. /\ \A d \in Calls : host[d] # q =>
             pc'[d] = pc[d] /\ host'[d] = host[d] /\ event'[d] = event[d]
        /\ acked' = acked /\ applied' = applied
        /\ seen'[q] = {} /\ \A r \in Procs : seen'[r] \subseteq seen[r]
    BY <1>0, <1>6 DEF Restart, TypeOK
  <2> QED
    BY <2>1, AckQuiet DEF Applying
<1>7. ASSUME NEW c \in Calls, NEW q \in Procs, Unsigned(c, q) PROVE AckInv'
  <2>1. PICK n \in 1 .. MaxUnsigned, type \in Type, p \in Plans, st \in Status \ {"none"} :
          WebhookUnsigned(c, q, n, type, p, st)
    BY <1>7 DEF Unsigned
  <2>2. /\ seen' = [seen EXCEPT ![q] = @ \cup {<<"unsigned", n>>}]
        /\ acked' = acked /\ applied' = applied /\ ~ Applying(c)
        /\ pc'[c] = "read" /\ host'[c] = q /\ event'[c].key = <<"unsigned", n>>
        /\ \A d \in Calls \ {c} :
             pc'[d] = pc[d] /\ host'[d] = host[d] /\ event'[d] = event[d]
    BY <1>0, <2>1 DEF WebhookUnsigned, Begin, Applying, TypeOK, BillingEvent
  <2> QED
    BY <1>0, <2>2, Values, AckStart
<1> QED
  BY <1>2, <1>3, <1>4, <1>5, <1>6, <1>7, AckProceed DEF Next, Request, Unsigned

(* Stripe is told to stop retrying only what was applied, restarts of the  *)
(* processes included, while the store answers and Stripe has no two       *)
(* deliveries of an event in flight (billing.service.ts, applyEvent).      *)
THEOREM AckedOnlyApplied == NoFailures => (Spec => []AckedWasApplied)
<1> SUFFICES ASSUME NoFailures PROVE Spec => []AckedWasApplied
  OBVIOUS
<1>1. Init => AckInv
  BY DEF Init, AckInv, SeenIsServed, AckedWasApplied
<1>2. TypeInv /\ OnceInv /\ AckInv /\ [Next]_vars => AckInv'
  BY AckStep
<1>3. AckInv => AckedWasApplied
  BY DEF AckInv
<1>4. Spec => []OnceInv
  BY InitOnce, OnceStep, TypeInvariant, PTL DEF Spec
<1> QED
  BY <1>1, <1>2, <1>3, <1>4, TypeInvariant, PTL DEF Spec

-----------------------------------------------------------------------------
(* Access follows Stripe.  What kind of request a key belongs to.          *)
LEMMA Kinds ==
  /\ \A i : <<"event", i>>[1] = "event" /\ <<"confirm", i>>[1] = "confirm"
            /\ <<"unsigned", i>>[1] = "unsigned"
  /\ \A p, s : <<"change", p, s>>[1] = "change"
  /\ \A i, j : <<"event", i>> = <<"event", j>> => i = j
  OBVIOUS

(* A plan change is one of applyEvent's plan changes, and so is a          *)
(* confirmation; what is applied under the id of a Stripe event is that    *)
(* event;                                                                  *)
CallTrue(c) ==
    /\ pc[c] \in {"upgrade", "schedule", "dedupe"} =>
         event[c].type = "plan_changed" /\ event[c].key[1] = "change"
    /\ Applying(c) =>
         /\ event[c].key[1] \in {"confirm", "change"} => event[c].type = "plan_changed"
         /\ event[c].key[1] = "event" => \E i \in DOMAIN log : event[c] = EventOf(i)

(* the log ends with a subscription as it is;                              *)
LogIsCurrent ==
    /\ \A i \in DOMAIN log :
         /\ log[i].type = "plan_changed" => log[i].status = "active"
         /\ log[i].cause \in {"purchase", "unpaid"} => log[i].type = "plan_changed"
    /\ log # << >> => LET last == log[Len(log)] IN
         last.status = stripeStatus[last.sub] /\ last.plan = stripePlan[last.sub]

(* and the row is as its last writer left it.                              *)
RowIsLast ==
    /\ latest # 0 /\ overtakenBy = "none" =>
         row.status = log[latest].status /\ row.plan = log[latest].plan
    /\ overtakenBy \in {"confirm", "change"} => row.status = "active"
    /\ \A i \in Events : <<"event", i>> \in applied => i <= latest

AccessInv == (\A c \in Calls : CallTrue(c)) /\ LogIsCurrent /\ RowIsLast

(* Stripe's own step reports the state it leaves the subscription in.      *)
LEMMA AccessReport ==
  ASSUME TypeOK, AccessInv,
         NEW type \in Type, NEW s \in Subs, NEW p \in Plans, NEW st \in Status,
         NEW cause \in Cause, Report(type, s, p, st, cause),
         stripeStatus' = [stripeStatus EXCEPT ![s] = st],
         stripePlan' = [stripePlan EXCEPT ![s] = p],
         type = "plan_changed" => st = "active",
         cause \in {"purchase", "unpaid"} => type = "plan_changed",
         UNCHANGED <<rowVars, applied, event>>,
         \A c \in Calls : \/ pc'[c] = pc[c]
                          \/ pc[c] = "upgrade" /\ pc'[c] = "dedupe"
  PROVE  AccessInv'
<1> DEFINE r == [type |-> type, plan |-> p, status |-> st, sub |-> s, cause |-> cause]
<1>1. /\ log \in Seq(Reports) /\ log' = Append(log, r) /\ r \in Reports
      /\ r.status = st /\ r.type = type /\ r.plan = p /\ r.sub = s /\ r.cause = cause
  BY DEF Report, TypeOK, Reports
<1> HIDE DEF r
<1>2. /\ Len(log') = Len(log) + 1 /\ Len(log) \in Nat /\ log'[Len(log) + 1] = r
      /\ DOMAIN log = 1 .. Len(log) /\ DOMAIN log' = 1 .. Len(log) + 1
      /\ \A i \in DOMAIN log : log'[i] = log[i] /\ i \in DOMAIN log'
  BY <1>1
<1>3. ASSUME NEW c \in Calls PROVE CallTrue(c)'
  <2>1. CallTrue(c)
    BY DEF AccessInv
  <2>2. \A i \in DOMAIN log : EventOf(i)' = EventOf(i)
    BY <1>2 DEF EventOf
  <2>3. event'[c] = event[c]
    OBVIOUS
  <2>4. Applying(c)' => Applying(c) /\ pc'[c] = pc[c]
    BY DEF Applying
  <2>5. event[c].key[1] = "event" /\ Applying(c)' => \E i \in DOMAIN log' : event'[c] = EventOf(i)'
    BY <1>2, <2>1, <2>2, <2>3, <2>4 DEF CallTrue
  <2> QED
    BY <2>1, <2>3, <2>4, <2>5 DEF CallTrue
<1>4. LogIsCurrent'
  <2>1. ASSUME NEW i \in DOMAIN log'
        PROVE  /\ log'[i].type = "plan_changed" => log'[i].status = "active"
               /\ log'[i].cause \in {"purchase", "unpaid"} => log'[i].type = "plan_changed"
    BY <1>1, <1>2 DEF AccessInv, LogIsCurrent
  <2>2. stripeStatus'[s] = st /\ stripePlan'[s] = p
    BY DEF TypeOK
  <2> QED
    BY <1>1, <1>2, <2>1, <2>2 DEF LogIsCurrent
<1>5. RowIsLast'
  <2>1. latest # 0 => latest \in DOMAIN log
    BY <1>2 DEF TypeOK
  <2> QED
    BY <1>2, <2>1 DEF AccessInv, RowIsLast, rowVars
<1> QED
  BY <1>3, <1>4, <1>5 DEF AccessInv

(* A step that writes neither the row nor the log.                         *)
LEMMA AccessQuiet ==
  ASSUME AccessInv, UNCHANGED <<log, stripeStatus, stripePlan, row, latest, overtakenBy, applied>>,
         \A c \in Calls : CallTrue(c)'
  PROVE  AccessInv'
  BY DEF AccessInv, LogIsCurrent, RowIsLast

(* A step that leaves each call where it was, or ends it.                  *)
LEMMA CallsStay ==
  ASSUME AccessInv, log' = log, NEW c \in Calls,
         \/ pc'[c] \in {"idle", "admin"}
         \/ pc'[c] = pc[c] /\ event'[c] = event[c]
         \/ Applying(c) /\ Applying(c)' /\ event'[c] = event[c]
  PROVE  CallTrue(c)'
<1>1. \A i : EventOf(i)' = EventOf(i)
  BY DEF EventOf
<1>2. CallTrue(c)
  BY DEF AccessInv
<1>3. CASE pc'[c] \in {"idle", "admin"}
  BY <1>3 DEF CallTrue, Applying
<1>4. ASSUME event'[c] = event[c], Applying(c)' => Applying(c),
             pc'[c] \in {"upgrade", "schedule", "dedupe"} => pc[c] = pc'[c]
      PROVE  CallTrue(c)'
  <2>1. Applying(c)' /\ event'[c].key[1] = "event" => \E i \in DOMAIN log' : event'[c] = EventOf(i)'
    BY <1>1, <1>2, <1>4 DEF CallTrue
  <2> QED
    BY <1>2, <1>4, <2>1 DEF CallTrue
<1> QED
  BY <1>3, <1>4 DEF Applying

LEMMA AccessStripe == TypeInv /\ AccessInv /\ Stripe => AccessInv'
<1> SUFFICES ASSUME TypeInv, AccessInv, Stripe PROVE AccessInv'
  OBVIOUS
<1> USE DEF TypeInv, stripeVars, dbVars, procVars, callVars
<1>1. ASSUME NEW p \in Plans, NEW cause \in {"purchase", "unpaid"}, Purchase(p, cause)
      PROVE  AccessInv'
  BY <1>1, AccessReport DEF Purchase, Type, Status, Cause
<1>2. ASSUME NEW s \in Subs, NEW st \in Status \ {"none"}, StatusChange(s, st)
      PROVE  AccessInv'
  <2>1. stripePlan[s] \in Plans /\ stripePlan' = [stripePlan EXCEPT ![s] = stripePlan[s]]
    BY <1>2 DEF StatusChange, TypeOK
  <2> QED
    BY <1>2, <2>1, AccessReport DEF StatusChange, Type, Cause
<1>3. ASSUME NEW s \in Subs, PeriodEnd(s) PROVE AccessInv'
  <2>1. /\ scheduled[s] \in Plans
        /\ stripeStatus' = [stripeStatus EXCEPT ![s] = "active"]
    BY <1>3 DEF PeriodEnd, TypeOK
  <2> QED
    BY <1>3, <2>1, AccessReport DEF PeriodEnd, Type, Status, Cause
<1> QED
  BY <1>1, <1>2, <1>3 DEF Stripe

LEMMA AccessWrite ==
  ASSUME TypeInv, AccessInv, NEW c \in Calls, WriteSub(c) PROVE AccessInv'
<1>1. /\ Applying(c) /\ UNCHANGED stripeVars /\ WrittenFrom(c)
      /\ applied' = applied \cup {event[c].key}
      /\ row'.plan = event[c].plan
      /\ event[c].type = "plan_changed" => row'.status = "active"
      /\ event[c].type # "plan_changed" => row'.status = event[c].status
      /\ pc'[c] = "idle"
      /\ \A d \in Calls \ {c} : pc'[d] = pc[d] /\ event'[d] = event[d]
  BY DEF WriteSub, Applying, End, TypeInv, TypeOK
<1>2. CallTrue(c)
  BY DEF AccessInv
<1>3. /\ log \in Seq(Reports) /\ latest \in Nat /\ \A i \in DOMAIN log : i \in Nat \ {0}
  BY DEF TypeInv, TypeOK
<1>4. RowIsLast'
  <2>1. CASE event[c].key[1] = "event"
    <3>1. PICK i \in DOMAIN log : event[c] = EventOf(i)
      BY <1>1, <1>2, <2>1 DEF CallTrue
    <3>2. /\ event[c].key = <<"event", i>> /\ event[c].status = log[i].status
          /\ event[c].plan = log[i].plan /\ event[c].type = log[i].type
      BY <3>1 DEF EventOf
    <3>3. row'.status = log[i].status /\ row'.plan = log[i].plan
      BY <1>1, <3>2 DEF AccessInv, LogIsCurrent
    <3>4. \/ i >= latest /\ latest' = i /\ overtakenBy' = "none"
          \/ i < latest /\ latest' = latest /\ overtakenBy' = "event"
      BY <1>1, <3>2, Kinds DEF WrittenFrom
    <3>5. ASSUME NEW k \in Events, <<"event", k>> \in applied' PROVE k <= latest'
      <4>1. <<"event", k>> \in applied \/ k = i
        BY <1>1, <3>2, <3>5, Kinds
      <4>2. k <= latest \/ k = i
        BY <4>1 DEF AccessInv, RowIsLast
      <4> QED
        BY <1>3, <3>4, <4>2 DEF Events
    <3> QED
      BY <1>1, <1>3, <3>3, <3>4, <3>5 DEF RowIsLast, stripeVars
  <2>2. CASE event[c].key[1] # "event"
    <3>1. latest' = latest /\ overtakenBy' = event[c].key[1]
      BY <1>1, <2>2, Kinds DEF WrittenFrom
    <3>2. overtakenBy' \in Writers
      BY <3>1, Values DEF TypeInv, TypeOK, BillingEvent
    <3>3. overtakenBy' \in {"confirm", "change"} => row'.status = "active"
      BY <1>1, <1>2, <3>1 DEF CallTrue
    <3>4. \A k \in Events : <<"event", k>> \in applied' => k <= latest'
      BY <1>1, <2>2, <3>1, Kinds DEF AccessInv, RowIsLast
    <3> QED
      BY <3>2, <3>3, <3>4 DEF RowIsLast, Writers
  <2> QED
    BY <2>1, <2>2
<1>5. \A d \in Calls : CallTrue(d)'
  BY <1>1, CallsStay DEF stripeVars
<1>6. LogIsCurrent'
  BY <1>1 DEF AccessInv, LogIsCurrent, stripeVars
<1> QED
  BY <1>4, <1>5, <1>6 DEF AccessInv

LEMMA AccessProceed ==
  ASSUME TypeInv, AccessInv, NEW c \in Calls, Proceed(c) \/ StoreError(c) PROVE AccessInv'
<1> USE DEF stripeVars, dbVars, rowVars, procVars, callVars
<1>1. End(c) => /\ pc'[c] = "idle"
                /\ \A d \in Calls \ {c} : pc'[d] = pc[d] /\ event'[d] = event[d]
  BY DEF End, TypeInv, TypeOK
<1>2. CallTrue(c)
  BY DEF AccessInv
<1>3. CASE UpgradeAtStripe(c)
  <2> DEFINE s == existing[c].sub
  <2>1. s \in Subs /\ event[c].plan \in Plans /\ stripeStatus[s] \in Status
    BY <1>3 DEF UpgradeAtStripe, Goto, TypeInv, Targeted, TypeOK, BillingEvent
  <2>2. /\ Report("subscription_updated", s, event[c].plan, stripeStatus[s], "upgrade")
        /\ stripePlan' = [stripePlan EXCEPT ![s] = event[c].plan]
        /\ stripeStatus' = [stripeStatus EXCEPT ![s] = stripeStatus[s]]
        /\ UNCHANGED <<rowVars, applied, event>>
    BY <1>3 DEF UpgradeAtStripe, TypeInv, TypeOK
  <2>3. \A d \in Calls : pc'[d] = pc[d] \/ (pc[d] = "upgrade" /\ pc'[d] = "dedupe")
    <3>1. /\ pc[c] = "upgrade" /\ pc \in [Calls -> PC]
          /\ pc' = [pc EXCEPT ![c] = "dedupe"]
      BY <1>3 DEF UpgradeAtStripe, Goto, TypeInv, TypeOK
    <3>2. \A d \in Calls : pc'[d] = pc[d] \/ (pc'[d] = "dedupe" /\ d = c)
      BY <3>1
    <3> QED
      BY <3>1, <3>2
  <2> HIDE DEF s
  <2> QED
    BY <2>1, <2>2, <2>3, AccessReport DEF TypeInv, Type, Cause
<1>4. CASE ScheduleAtStripe(c) \/ RefusedAtStripe(c) \/ StoreError(c)
  <2>1. \A d \in Calls : CallTrue(d)'
    BY <1>1, <1>4, CallsStay DEF ScheduleAtStripe, RefusedAtStripe, StoreError
  <2> QED
    BY <1>4, <2>1, AccessQuiet DEF ScheduleAtStripe, RefusedAtStripe, StoreError
<1>5. CASE Dedupe(c)
  <2>1. CASE End(c)
    <3>1. \A d \in Calls : CallTrue(d)'
      BY <1>1, <1>5, <2>1, CallsStay DEF Dedupe
    <3> QED
      BY <1>5, <3>1, AccessQuiet DEF Dedupe
  <2>2. CASE Goto(c, "dedupe", "read") /\ event' = event
    <3>1. /\ pc[c] = "dedupe" /\ pc'[c] = "read"
          /\ \A d \in Calls \ {c} : pc'[d] = pc[d]
      BY <2>2 DEF Goto, TypeInv, TypeOK
    <3>2. CallTrue(c)'
      BY <1>2, <2>2, <3>1 DEF CallTrue, Applying
    <3>3. \A d \in Calls \ {c} : CallTrue(d)'
      BY <1>5, <2>2, <3>1, CallsStay DEF Dedupe
    <3> QED
      BY <1>5, <3>2, <3>3, AccessQuiet DEF Dedupe
  <2> QED
    BY <1>5, <2>1, <2>2 DEF Dedupe
<1>6. CASE ReadExisting(c) \/ WriteOrg(c)
  <2>1. /\ UNCHANGED <<log, stripeStatus, stripePlan, rowVars, applied, event>>
        /\ Applying(c) /\ pc'[c] \in {"writeOrg", "writeSub"}
        /\ \A d \in Calls \ {c} : pc'[d] = pc[d]
    BY <1>6 DEF ReadExisting, WriteOrg, Goto, Applying, TypeInv, TypeOK
  <2>2. \A d \in Calls : CallTrue(d)'
    BY <2>1, CallsStay DEF Applying
  <2> QED
    BY <2>1, <2>2, AccessQuiet
<1>7. CASE AdminWrite(c)
  <2>1. \A d \in Calls : CallTrue(d)'
    BY <1>1, <1>7, CallsStay DEF AdminWrite
  <2> QED
    BY <1>7, <2>1 DEF AdminWrite, AccessInv, LogIsCurrent, RowIsLast
<1> QED
  BY <1>3, <1>4, <1>5, <1>6, <1>7, AccessWrite DEF Proceed

LEMMA AccessStep == TypeInv /\ AccessInv /\ [Next]_vars => AccessInv'
<1> SUFFICES ASSUME TypeInv, AccessInv, [Next]_vars PROVE AccessInv'
  OBVIOUS
<1> USE DEF stripeVars, dbVars, rowVars, procVars, callVars
<1> DEFINE Kept == UNCHANGED <<log, stripeStatus, stripePlan, row, latest, overtakenBy, applied>>
(* A call begins, and is what it says it is. *)
<1>1. ASSUME Kept, NEW c \in Calls, CallTrue(c)',
             \A d \in Calls \ {c} : pc'[d] = pc[d] /\ event'[d] = event[d]
      PROVE  AccessInv'
  <2>1. \A d \in Calls : CallTrue(d)'
    BY <1>1, CallsStay
  <2> QED
    BY <1>1, <2>1, AccessQuiet
<1>2. ASSUME NEW i \in Events, Deliver(i) PROVE AccessInv'
  <2>1. PICK c \in Calls, q \in Procs : Webhook(c, q, i)
    BY <1>2 DEF Deliver
  <2>2. CASE <<"event", i>> \in seen[q]
    <3>1. UNCHANGED <<pc, event>> /\ Kept
      BY <2>1, <2>2 DEF Webhook
    <3>2. \A d \in Calls : CallTrue(d)'
      BY <3>1, CallsStay
    <3> QED
      BY <3>1, <3>2, AccessQuiet
  <2>3. CASE <<"event", i>> \notin seen[q]
    <3>1. /\ pc'[c] = "read" /\ event'[c] = EventOf(i) /\ i \in DOMAIN log /\ Kept
          /\ \A d \in Calls \ {c} : pc'[d] = pc[d] /\ event'[d] = event[d]
      BY <2>1, <2>3 DEF Webhook, Begin, TypeInv, TypeOK
    <3>2. EventOf(i)' = EventOf(i) /\ EventOf(i).key = <<"event", i>>
      BY <3>1 DEF EventOf
    <3>3. CallTrue(c)'
      BY <3>1, <3>2, Kinds DEF CallTrue, Applying
    <3> QED
      BY <1>1, <3>1, <3>3
  <2> QED
    BY <2>2, <2>3
<1>3. ASSUME NEW c \in Calls, NEW q \in Procs, NEW s \in Subs, Confirm(c, q, s)
      PROVE  AccessInv'
  <2>1. PICK i \in DOMAIN log :
          /\ log[i].cause \in {"purchase", "unpaid"}
          /\ Begin(c, q, "read", [EventOf(i) EXCEPT !.key = <<"confirm", s>>])
    BY <1>3 DEF Confirm
  <2>2. log[i].type = "plan_changed"
    BY <2>1 DEF AccessInv, LogIsCurrent
  <2>3. /\ pc'[c] = "read" /\ event'[c].key = <<"confirm", s>>
        /\ event'[c].type = "plan_changed" /\ Kept
        /\ \A d \in Calls \ {c} : pc'[d] = pc[d] /\ event'[d] = event[d]
    BY <1>3, <2>1, <2>2 DEF Confirm, Begin, EventOf, TypeInv, TypeOK
  <2>4. CallTrue(c)'
    BY <2>3, Kinds DEF CallTrue, Applying
  <2> QED
    BY <1>1, <2>3, <2>4
<1>4. ASSUME NEW c \in Calls, NEW q \in Procs, NEW p \in Plans, ChangePlan(c, q, p)
      PROVE  AccessInv'
  <2>1. /\ pc'[c] \in {"upgrade", "schedule"} /\ event'[c].type = "plan_changed"
        /\ event'[c].key = <<"change", p, row.sub>> /\ Kept
        /\ \A d \in Calls \ {c} : pc'[d] = pc[d] /\ event'[d] = event[d]
    BY <1>4 DEF ChangePlan, Begin, TypeInv, TypeOK
  <2>2. CallTrue(c)'
    BY <2>1, Kinds DEF CallTrue, Applying
  <2> QED
    BY <1>1, <2>1, <2>2
<1>5. ASSUME NEW c \in Calls, NEW q \in Procs, NEW st, AdminRead(c, q, st)
      PROVE  AccessInv'
  <2>1. /\ pc'[c] = "admin" /\ Kept
        /\ \A d \in Calls \ {c} : pc'[d] = pc[d] /\ event'[d] = event[d]
    BY <1>5 DEF AdminRead, Begin, TypeInv, TypeOK
  <2> QED
    BY <1>1, <2>1, CallsStay
<1>6. ASSUME NEW c \in Calls, NEW q \in Procs, Unsigned(c, q) PROVE AccessInv'
  <2>1. PICK n \in 1 .. MaxUnsigned, type \in Type, p \in Plans, st \in Status \ {"none"} :
          WebhookUnsigned(c, q, n, type, p, st)
    BY <1>6 DEF Unsigned
  <2>2. /\ pc'[c] = "read" /\ event'[c].key = <<"unsigned", n>> /\ Kept
        /\ \A d \in Calls \ {c} : pc'[d] = pc[d] /\ event'[d] = event[d]
    BY <2>1 DEF WebhookUnsigned, Begin, TypeInv, TypeOK, BillingEvent
  <2>3. CallTrue(c)'
    BY <2>2, Kinds DEF CallTrue, Applying
  <2> QED
    BY <1>1, <2>2, <2>3
<1>7. CASE AdminReset
  <2>1. UNCHANGED <<log, stripeStatus, stripePlan, latest, applied, pc, event>>
          /\ overtakenBy' = "console"
    BY <1>7 DEF AdminReset
  <2>2. \A d \in Calls : CallTrue(d)'
    BY <2>1, CallsStay
  <2> QED
    BY <2>1, <2>2 DEF AccessInv, LogIsCurrent, RowIsLast
<1>8. ASSUME NEW q \in Procs, Restart(q) PROVE AccessInv'
  <2>1. Kept /\ \A d \in Calls : pc'[d] = "idle" \/ (pc'[d] = pc[d] /\ event'[d] = event[d])
    BY <1>8 DEF Restart
  <2>2. \A d \in Calls : CallTrue(d)'
    BY <2>1, CallsStay
  <2> QED
    BY <2>1, <2>2, AccessQuiet
<1>9. CASE UNCHANGED vars
  <2>1. Kept /\ UNCHANGED <<pc, event>>
    BY <1>9 DEF vars
  <2>2. \A d \in Calls : CallTrue(d)'
    BY <2>1, CallsStay
  <2> QED
    BY <2>1, <2>2, AccessQuiet
<1> QED
  BY <1>2, <1>3, <1>4, <1>5, <1>6, <1>7, <1>8, <1>9, AccessStripe, AccessProceed
     DEF Next, Request, Unsigned

(* stripe.provider.ts:248, "Renewals, cancellations and payment failures   *)
(* update access": once all that Stripe issued has been applied, in        *)
(* whatever order, the row is what Stripe last reported, or was written    *)
(* after that by one of those that the property names; for any number of   *)
(* processes, requests, subscriptions and events, with confirmations, plan *)
(* changes, the console, reordering, failures of the store and restarts    *)
(* (billing.service.ts applyEvent, upsertSubscription).                    *)
THEOREM AccessIsStripes == Spec => []AccessFollowsStripe
<1>1. Init => AccessInv
  <2> SUFFICES ASSUME Init PROVE AccessInv
    OBVIOUS
  <2>1. \A c \in Calls : CallTrue(c)
    BY DEF Init, CallTrue, Applying
  <2> QED
    BY <2>1 DEF Init, AccessInv, LogIsCurrent, RowIsLast
<1>2. TypeInv /\ AccessInv => AccessFollowsStripe
  <2> DEFINE s == log[Len(log)].sub
  <2> SUFFICES ASSUME TypeInv, AccessInv, log # << >>,
                      \A i \in DOMAIN log : <<"event", i>> \in applied
               PROVE  \/ row.status = stripeStatus[s] /\ row.plan = stripePlan[s]
                      \/ overtakenBy \in {"event", "unsigned", "console"}
                      \/ overtakenBy \in {"confirm", "change"} /\ row.status = "active"
    BY DEF AccessFollowsStripe
  <2>1. /\ Len(log) \in DOMAIN log /\ Len(log) \in Events /\ Len(log) # 0
        /\ latest <= Len(log) /\ latest \in Nat
    BY DEF TypeInv, TypeOK, Events
  <2>2. Len(log) <= latest
    BY <2>1 DEF AccessInv, RowIsLast
  <2>3. latest = Len(log) /\ latest # 0
    BY <2>1, <2>2
  <2>4. overtakenBy \in Writers \cup {"none"}
    BY DEF TypeInv, TypeOK
  <2>5. CASE overtakenBy = "none"
    BY <2>3, <2>5 DEF AccessInv, RowIsLast, LogIsCurrent
  <2> QED
    BY <2>4, <2>5 DEF AccessInv, RowIsLast, Writers
<1> QED
  BY <1>1, <1>2, AccessStep, TypeInvariant, PTL DEF Spec
=============================================================================
