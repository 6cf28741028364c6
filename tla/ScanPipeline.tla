---------------------------- MODULE ScanPipeline ----------------------------
(***************************************************************************)
(* The scan pipeline of the API: the handlers that create a scan row and   *)
(* enqueue a job (scans.module.ts, monitoring.service.ts), the queue that  *)
(* delivers, times out, retries and redelivers it (bull-queue.ts, or       *)
(* inline-queue.ts without Redis), and the worker handler that moves the   *)
(* row to its outcome and mails the new risks (scan.processor.ts).  An     *)
(* action ends where the code awaits: what follows an await may run after  *)
(* any step of any other handler, or never, if its process dies.           *)
(*                                                                         *)
(* A graph is abstracted to the set of alertable findings that the         *)
(* reliability engine derives from it (the engine is a function).          *)
(***************************************************************************)
EXTENDS Naturals, FiniteSets

CONSTANTS
    MaxScans,     \* bound: scan rows ever created
    Projects,
    Connected,    \* the projects with at least one connection
    Procs,        \* API and worker processes; both host handlers and workers
    Findings,     \* identities of alertable findings
    Redis,        \* the processes with a REDIS_URL; the others run jobs inline
    MaxAttempts,  \* `attempts` of a job: 3 in the code
    MaxStalls,    \* BullMQ's maxStalledCount: its default, 1
    Concurrency,  \* WORKER_CONCURRENCY
    Faults,       \* "timeout": JOB_TIMEOUT_MS may expire while a handler runs;
                  \* "stall": a job's lock may expire while its process lives
                  \* (event loop held, Redis unreachable for lockDuration);
                  \* "hang": a call that a handler awaits may never settle;
                  \* "store": PrismaStore.updateScan may swallow an error
    MaxCrashes,   \* bound: process deaths (crash, or SIGTERM of a deploy)
    NoProc, NoProject

ASSUME ScanPipelineAssumption ==
    /\ MaxScans \in Nat /\ MaxCrashes \in Nat /\ MaxStalls \in Nat
    /\ MaxAttempts \in Nat \ {0} /\ Concurrency \in Nat \ {0}
    /\ Redis \subseteq Procs
    /\ Faults \subseteq {"timeout", "stall", "hang", "store"}
    /\ Connected \subseteq Projects
    /\ NoProc \notin Procs
    /\ NoProject \notin Projects

VARIABLES
    (* the Scan table *)
    status, project, result,
    (* pending[s]: the process that created s and has yet to enqueue it *)
    pending,
    (* the queue's record of the job of s *)
    jobState, attempts, stalls, current,
    (* x[s][k]: the k-th invocation of the handler for s, and its locals *)
    pc, host, graph, prior,
    (* what was observed: the successes that listScans showed a handler,   *)
    (* locks that expired under a living process, mails sent, final writes *)
    (* the store swallowed; no guard reads them                            *)
    seen, expired, mailed, lostWrites,
    crashes

rowVars == <<status, project, result>>
counters == <<attempts, stalls, expired>>
jobVars == <<jobState, current, counters>>
localVars == <<host, graph, prior, seen>>
observed == <<mailed, lostWrites>>
vars == <<rowVars, pending, jobVars, pc, localVars, observed, crashes>>

ScanIds == 1 .. MaxScans          \* in creation order: ids stand for createdAt
Runs == 1 .. (MaxAttempts + MaxStalls)

Terminal == {"succeeded", "failed"}
Status == {"absent", "queued", "running"} \cup Terminal
JobState == {"none", "waiting", "active", "completed", "failed"}

(* Where an invocation is: about to mark the row running, collecting the   *)
(* graph, reading the prior scan, writing success, in the catch block      *)
(* or hung in one of these (Live: the handler's promise is unsettled);     *)
(* then mailing in the background or done (Settled); or its process died   *)
(* first, and the queue redelivers its job (dead) or nobody does (gone).   *)
AtWork == {"start", "collect", "prior", "write", "catch"}
Live == AtWork \cup {"hung"}
Settled == {"alert", "done"}
PC == {"idle", "dead", "gone"} \cup Live \cup Settled

PerRun(S) == [ScanIds -> [Runs -> S]]
EachRun(v) == [s \in ScanIds |-> [k \in Runs |-> v]]

TypeOK ==
    /\ status \in [ScanIds -> Status]
    /\ project \in [ScanIds -> Projects \cup {NoProject}]
    /\ result \in [ScanIds -> SUBSET Findings]
    /\ pending \in [ScanIds -> Procs \cup {NoProc}]
    /\ jobState \in [ScanIds -> JobState]
    /\ attempts \in [ScanIds -> 0 .. MaxAttempts]
    /\ stalls \in [ScanIds -> 0 .. (MaxStalls + 1)]
    /\ current \in [ScanIds -> Runs \cup {0}]
    /\ pc \in PerRun(PC)
    /\ host \in PerRun(Procs \cup {NoProc})
    /\ graph \in PerRun(SUBSET Findings)
    /\ prior \in PerRun(SUBSET Findings)
    /\ seen \in PerRun(SUBSET ScanIds)
    /\ expired \in [ScanIds -> 0 .. (MaxStalls + 1)]
    /\ mailed \in PerRun(SUBSET Findings)
    /\ lostWrites \subseteq ScanIds
    /\ crashes \in 0 .. MaxCrashes

Init ==
    /\ status = [s \in ScanIds |-> "absent"]
    /\ project = [s \in ScanIds |-> NoProject]
    /\ result = [s \in ScanIds |-> {}]
    /\ pending = [s \in ScanIds |-> NoProc]
    /\ jobState = [s \in ScanIds |-> "none"]
    /\ attempts = [s \in ScanIds |-> 0]
    /\ stalls = [s \in ScanIds |-> 0]
    /\ current = [s \in ScanIds |-> 0]
    /\ pc = EachRun("idle")
    /\ host = EachRun(NoProc)
    /\ graph = EachRun({})
    /\ prior = EachRun({})
    /\ seen = EachRun({})
    /\ expired = [s \in ScanIds |-> 0]
    /\ mailed = EachRun({})
    /\ lostWrites = {}
    /\ crashes = 0

IsLive(s, k) == pc[s][k] \in Live
Created(s) == status[s] # "absent"

-----------------------------------------------------------------------------
(* Producers.  A request that assertCanScan refuses changes nothing; the   *)
(* race of that check is the subject of module Quotas.                     *)

CreateQueued(q, p) ==
    \E s \in ScanIds :
        /\ ~ Created(s)
        /\ \A t \in ScanIds : t < s => Created(t)
        /\ status' = [status EXCEPT ![s] = "queued"]
        /\ project' = [project EXCEPT ![s] = p]
        /\ pending' = [pending EXCEPT ![s] = q]
        /\ UNCHANGED <<result, jobVars, pc, localVars, observed, crashes>>

StartScan(q, p) == CreateQueued(q, p)

(* Every process has a MonitoringService, the workers' included. *)
MonitorScan(q, p) == p \in Connected /\ CreateQueued(q, p)

(* The k-th invocation of the handler of s starts on process q. *)
Invoke(s, k, q) ==
    /\ jobState' = [jobState EXCEPT ![s] = "active"]
    /\ current' = [current EXCEPT ![s] = k]
    /\ pc' = [pc EXCEPT ![s][k] = "start"]
    /\ host' = [host EXCEPT ![s][k] = q]

(* InlineJobQueue runs the handler inside the producer's own request. *)
Enqueue(s) ==
    /\ pending[s] # NoProc
    /\ IF pending[s] \in Redis
         THEN /\ jobState' = [jobState EXCEPT ![s] = "waiting"]
              /\ UNCHANGED <<current, pc, host>>
         ELSE Invoke(s, 1, pending[s])
    /\ pending' = [pending EXCEPT ![s] = NoProc]
    /\ UNCHANGED <<rowVars, counters, graph, prior, seen, observed, crashes>>

-----------------------------------------------------------------------------
(* The queue. *)

ActiveOn(q) == {s \in ScanIds : jobState[s] = "active" /\ host[s][current[s]] = q}

Deliver(s, q) ==
    /\ jobState[s] = "waiting" /\ q \in Redis
    /\ Cardinality(ActiveOn(q)) < Concurrency
    /\ Invoke(s, attempts[s] + stalls[s] + 1, q)
    /\ UNCHANGED <<rowVars, pending, counters, graph, prior, seen, observed, crashes>>

(* Mutants: an outcome that is not acknowledged, one that counts as a      *)
(* failed attempt (handle() rethrows), one acknowledged while the handler  *)
(* still runs (a dropped await).                                           *)
CompleteJobUnacknowledged(s) ==
    /\ jobState[s] = "active"
    /\ pc[s][current[s]] \in Settled
    /\ jobState' = [jobState EXCEPT ![s] = "waiting"]
    /\ UNCHANGED <<rowVars, pending, counters, current, pc, localVars, observed, crashes>>
CompleteJobRejected(s) ==
    /\ jobState[s] = "active"
    /\ pc[s][current[s]] \in Settled
    /\ attempts' = [attempts EXCEPT ![s] = @ + 1]
    /\ jobState' = [jobState EXCEPT ![s] =
                      IF attempts'[s] < MaxAttempts THEN "waiting" ELSE "failed"]
    /\ UNCHANGED <<rowVars, pending, stalls, expired, current, pc, localVars,
                   observed, crashes>>
CompleteJobUnawaited(s) ==
    /\ jobState[s] = "active"
    /\ jobState' = [jobState EXCEPT ![s] = "completed"]
    /\ UNCHANGED <<rowVars, pending, counters, current, pc, localVars, observed, crashes>>

(* The handler's promise settled in time.  handle() swallows every error,  *)
(* so the job completes whatever the outcome of the scan.                  *)
CompleteJob(s) ==
    /\ jobState[s] = "active"
    /\ pc[s][current[s]] \in Settled
    /\ jobState' = [jobState EXCEPT ![s] = "completed"]
    /\ UNCHANGED <<rowVars, pending, counters, current, pc, localVars, observed, crashes>>

(* Mutants: one attempt too many, and no timer.                            *)
TimeoutJobOnceMore(s) ==
    /\ "timeout" \in Faults
    /\ jobState[s] = "active" /\ host[s][current[s]] \in Redis
    /\ IsLive(s, current[s])
    /\ attempts' = [attempts EXCEPT ![s] = @ + 1]
    /\ jobState' = [jobState EXCEPT ![s] =
                      IF attempts'[s] <= MaxAttempts THEN "waiting" ELSE "failed"]
    /\ UNCHANGED <<rowVars, pending, stalls, expired, current, pc, localVars,
                   observed, crashes>>
TimeoutJobNever(s) == FALSE

(* Promise.race is lost: the attempt fails, and is retried while attempts  *)
(* are left.  Nothing stops the handler, which keeps running.              *)
TimeoutJob(s) ==
    /\ "timeout" \in Faults
    /\ jobState[s] = "active" /\ host[s][current[s]] \in Redis
    /\ IsLive(s, current[s])
    /\ attempts' = [attempts EXCEPT ![s] = @ + 1]
    /\ jobState' = [jobState EXCEPT ![s] =
                      IF attempts'[s] < MaxAttempts THEN "waiting" ELSE "failed"]
    /\ UNCHANGED <<rowVars, pending, stalls, expired, current, pc, localVars,
                   observed, crashes>>

(* BullMQ counts the expired locks of a job and fails it at one too many.  *)
AfterStall(s) == IF stalls[s] < MaxStalls THEN "waiting" ELSE "failed"

(* A worker did not renew the lock of its job in time, though its process  *)
(* lives: the job is taken from it, and the handler runs on, its outcome   *)
(* refused for want of the lock.  (Its slot, which the worker's own timer  *)
(* frees at the latest, is taken as free at once.)                         *)
Stall(s) ==
    /\ "stall" \in Faults
    /\ jobState[s] = "active" /\ host[s][current[s]] \in Redis
    /\ jobState' = [jobState EXCEPT ![s] = AfterStall(s)]
    /\ stalls' = [stalls EXCEPT ![s] = @ + 1]
    /\ expired' = [expired EXCEPT ![s] = @ + 1]
    /\ UNCHANGED <<rowVars, pending, attempts, current, pc, localVars, observed, crashes>>

-----------------------------------------------------------------------------
(* The handler: ScanProcessor.runScan, one action per await. *)

Goto(s, k, from, to) == pc[s][k] = from /\ pc' = [pc EXCEPT ![s][k] = to]

(* updateScan: PrismaStore turns a database error into `undefined`, which  *)
(* no caller looks at.                                                     *)
WriteStatus(s, st) == status' = [status EXCEPT ![s] = st]
Swallowed == "store" \in Faults /\ UNCHANGED <<status, result>>

(* Mutant: the row is not marked running. *)
MarkRunningUnwritten(s, k) ==
    /\ Goto(s, k, "start", "collect")
    /\ UNCHANGED <<rowVars, pending, jobVars, localVars, observed, crashes>>

MarkRunning(s, k) ==
    /\ Goto(s, k, "start", "collect")
    /\ \/ WriteStatus(s, "running") /\ UNCHANGED result
       \/ Swallowed
    /\ UNCHANGED <<project, pending, jobVars, localVars, observed, crashes>>

CollectGraph(s, k) ==
    /\ Goto(s, k, "collect", "prior")
    /\ \E g \in SUBSET Findings : graph' = [graph EXCEPT ![s][k] = g]
    /\ UNCHANGED <<rowVars, pending, jobVars, host, prior, seen, observed, crashes>>

(* listScans orders by createdAt, newest first; `find` takes the first     *)
(* other scan that succeeded.                                              *)
SucceededOthers(s) ==
    {t \in ScanIds \ {s} : status[t] = "succeeded" /\ project[t] = project[s]}
(* Mutant: oldest first. *)
PriorFindingsOldest(s) ==
    UNION {result[t] : t \in {u \in SucceededOthers(s) :
                                \A v \in SucceededOthers(s) : v >= u}}
PriorFindings(s) ==
    UNION {result[t] : t \in {u \in SucceededOthers(s) :
                                \A v \in SucceededOthers(s) : v <= u}}

ReadPrior(s, k) ==
    /\ Goto(s, k, "prior", "write")
    /\ prior' = [prior EXCEPT ![s][k] = PriorFindings(s)]
    /\ seen' = [seen EXCEPT ![s][k] = SucceededOthers(s)]
    /\ UNCHANGED <<rowVars, pending, jobVars, host, graph, observed, crashes>>

WriteSuccess(s, k) ==
    /\ Goto(s, k, "write", "alert")
    /\ \/ /\ WriteStatus(s, "succeeded")
          /\ result' = [result EXCEPT ![s] = graph[s][k]]
          /\ UNCHANGED lostWrites
       \/ Swallowed /\ lostWrites' = lostWrites \cup {s}
    /\ UNCHANGED <<project, pending, jobVars, localVars, mailed, crashes>>

(* A collector, store read or engine error is caught ... *)
Throw(s, k) ==
    /\ \E from \in {"collect", "prior", "write"} : Goto(s, k, from, "catch")
    /\ UNCHANGED <<rowVars, pending, jobVars, localVars, observed, crashes>>

(* Mutant: the catch block only logs. *)
WriteFailureLogged(s, k) ==
    /\ Goto(s, k, "catch", "done")
    /\ UNCHANGED <<rowVars, pending, jobVars, localVars, observed, crashes>>

(* ... and the catch block marks the row failed, keeping its result; its   *)
(* own store error (getScan) ends the handler before that write.           *)
WriteFailure(s, k) ==
    /\ Goto(s, k, "catch", "done")
    /\ \/ WriteStatus(s, "failed") /\ UNCHANGED <<result, lostWrites>>
       \/ Swallowed /\ lostWrites' = lostWrites \cup {s}
    /\ UNCHANGED <<project, pending, jobVars, localVars, mailed, crashes>>

(* A call that the handler awaits never settles. *)
Hang(s, k) ==
    /\ "hang" \in Faults
    /\ \E from \in AtWork : Goto(s, k, from, "hung")
    /\ UNCHANGED <<rowVars, pending, jobVars, localVars, observed, crashes>>

(* The background alert: the alertable findings absent from the prior      *)
(* scan, less those the project's triage suppresses at that moment (any    *)
(* set); nothing when a lookup or the mail provider fails.                 *)
SendAlert(s, k) ==
    /\ Goto(s, k, "alert", "done")
    /\ \E suppressed \in SUBSET Findings :
         mailed' = [mailed EXCEPT ![s][k] = (graph[s][k] \ prior[s][k]) \ suppressed]
    /\ UNCHANGED <<rowVars, pending, jobVars, localVars, lostWrites, crashes>>

-----------------------------------------------------------------------------
(* A process dies: by a crash, or on SIGTERM, where app.close() does not   *)
(* wait for BullMQ's workers.  Its requests and handlers are gone; BullMQ  *)
(* notices the expired locks of its jobs and redelivers each, unless it    *)
(* stalled too often.  An inline job had no other copy, nor had a handler  *)
(* that had lost its job to a retry.                                       *)
(* Mutant: a shutdown that hands the jobs back, its handlers running on.   *)
KilledNone(s, k, q) == FALSE
Killed(s, k, q) == host[s][k] = q /\ pc[s][k] \in Live \cup {"alert"}

Redelivered(q) == {s \in ActiveOn(q) : q \in Redis /\ AfterStall(s) = "waiting"}

Remains(s, k, q) ==
    IF IsLive(s, k) /\ ~ (s \in Redelivered(q) /\ current[s] = k) THEN "gone" ELSE "dead"

Crash(q) ==
    /\ crashes < MaxCrashes
    /\ crashes' = crashes + 1
    /\ pending' = [s \in ScanIds |-> IF pending[s] = q THEN NoProc ELSE pending[s]]
    /\ jobState' = [s \in ScanIds |-> IF s \in Redelivered(q) THEN "waiting"
                                      ELSE IF s \in ActiveOn(q) THEN "failed"
                                      ELSE jobState[s]]
    /\ stalls' = [s \in ScanIds |-> IF s \in ActiveOn(q) /\ q \in Redis
                                     THEN stalls[s] + 1 ELSE stalls[s]]
    /\ pc' = [s \in ScanIds |-> [k \in Runs |->
                 IF Killed(s, k, q) THEN Remains(s, k, q) ELSE pc[s][k]]]
    /\ UNCHANGED <<rowVars, attempts, expired, current, localVars, observed>>

-----------------------------------------------------------------------------
Produce == \E q \in Procs, p \in Projects : StartScan(q, p) \/ MonitorScan(q, p)

Queue(s) ==
    \/ Enqueue(s)
    \/ \E q \in Procs : Deliver(s, q)
    \/ CompleteJob(s)

Handle(s, k) ==
    \/ MarkRunning(s, k)
    \/ CollectGraph(s, k)
    \/ ReadPrior(s, k)
    \/ WriteSuccess(s, k)
    \/ Throw(s, k)
    \/ WriteFailure(s, k)
    \/ SendAlert(s, k)

(* What no await, timer or queue brings about. *)
Fault ==
    \/ \E s \in ScanIds : Stall(s)
    \/ \E s \in ScanIds, k \in Runs : Hang(s, k)
    \/ \E q \in Procs : Crash(q)

Next ==
    \/ Produce
    \/ \E s \in ScanIds : Queue(s) \/ TimeoutJob(s)
    \/ \E s \in ScanIds, k \in Runs : Handle(s, k)
    \/ Fault

Spec == Init /\ [][Next]_vars

(* BullMQ delivers what is waiting, its timers fire, and a handler whose   *)
(* awaited call has not hung moves on; nothing forces a request or a fault. *)
Fairness ==
    /\ \A s \in ScanIds : WF_vars(Queue(s)) /\ WF_vars(TimeoutJob(s))
    /\ \A s \in ScanIds, k \in Runs : WF_vars(Handle(s, k))

FairSpec == Spec /\ Fairness

-----------------------------------------------------------------------------
(* Safety. *)

(* The row is somebody's work: of the request that has to enqueue it, of   *)
(* the queue that has to deliver its job, or of a handler.                 *)
Attended(s) ==
    \/ pending[s] # NoProc
    \/ jobState[s] = "waiting"
    \/ \E k \in Runs : IsLive(s, k)

Stranded(s) == Created(s) /\ status[s] \notin Terminal /\ ~ Attended(s)

(* docs/JOBS.md:3-4 promises that scans are not lost: a scan without an    *)
(* outcome is always somebody's work, but for three causes.  Its producer  *)
(* died before enqueuing it, a handler died whose job nobody redelivers,   *)
(* or the store swallowed a handler's last write.                          *)
Lost(s) ==
    \/ jobState[s] = "none"
    \/ \E k \in Runs : pc[s][k] = "gone"
    \/ s \in lostWrites
StrandedOnlyByLoss == \A s \in ScanIds : Stranded(s) => Lost(s)

(* A handler that the queue no longer supervises is the leftover of an     *)
(* attempt that timed out or whose lock expired under a living process:    *)
(* there are no more of them than such events.                             *)
Unsupervised(s) ==
    {k \in Runs : IsLive(s, k) /\ ~ (jobState[s] = "active" /\ current[s] = k)}
ZombiesAreCounted ==
    \A s \in ScanIds : Cardinality(Unsupervised(s)) <= attempts[s] + expired[s]

(* bull-queue.ts, Promise.race and the lock of a job: a scan is worked on  *)
(* twice at a time only after one of its attempts timed out or lost its    *)
(* lock; the death of a process, and the redelivery of its jobs, never     *)
(* doubles the work.                                                       *)
OverlapOnlyIfLetGo ==
    \A s \in ScanIds : \A j, k \in Runs :
        IsLive(s, j) /\ IsLive(s, k) /\ j # k => attempts[s] + expired[s] > 0

(* A finished scan leaves its outcome only if the queue ran its job again. *)
ReopenedOnlyByRetry ==
    [][\A s \in ScanIds :
         status[s] \in Terminal /\ status'[s] # status[s]
           => attempts[s] + stalls[s] > 0]_vars

(* One scan mails a given finding to the workspace at most once. *)
AlertedOncePerScan ==
    \A s \in ScanIds, f \in Findings :
        Cardinality({k \in Runs : f \in mailed[s][k]}) <= 1

(* scan.processor.ts:149-150, "alert only on what's newly introduced": a   *)
(* scan mails a finding again only if it could not see the earlier mail's  *)
(* scan succeed (the two overlapped), or saw a newer one without it.       *)
NewsAgainOnlyByOverlap ==
    \A s, t \in ScanIds : \A j, k \in Runs :
        \A f \in mailed[s][j] \cap mailed[t][k] :
            t \in seen[s][j] => \E u \in seen[s][j] : u > t /\ f \notin result[u]

(* The program keeps the customer's view of a scan, module ScanLifecycle.  *)
Lifecycle == INSTANCE ScanLifecycle WITH
    Scans <- ScanIds, status <- status
ImplementsLifecycle == Lifecycle!Spec

-----------------------------------------------------------------------------
(* Liveness, under FairSpec: a scan reaches an outcome and keeps it, or it *)
(* is lost as above, or a handler of it hung and no attempt is left, or    *)
(* there was no second one to make (inline), or the hung handler is one    *)
(* that the queue had replaced by another, whose row it may have reopened. *)
HungOut(s) ==
    \E k \in Runs :
        /\ pc[s][k] = "hung"
        /\ jobState[s] = "failed" \/ k # current[s] \/ host[s][k] \notin Redis
EveryScanSettles ==
    \A s \in ScanIds :
        <>[](Created(s) => status[s] \in Terminal \/ Lost(s) \/ HungOut(s))

(* bull-queue.ts:5-6: a handler that hangs does not keep its job active,   *)
(* and a worker's slot with it, for ever (the inline driver has no timer). *)
NoJobWedges ==
    \A s \in ScanIds :
        jobState[s] = "active" /\ host[s][current[s]] \in Redis ~> jobState[s] # "active"
=============================================================================
