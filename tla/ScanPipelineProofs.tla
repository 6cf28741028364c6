-------------------------- MODULE ScanPipelineProofs --------------------------
(***************************************************************************)
(* Proofs about ScanPipeline, for any number of scans, processes,          *)
(* projects, attempts, stalls and crashes.                                 *)
(***************************************************************************)
EXTENDS ScanPipeline, FiniteSetTheorems, WellFoundedInduction, TLAPS

USE ScanPipelineAssumption DEF counters, AtWork

(* What the queue knows of a job: only a job that still has an attempt     *)
(* left is waiting or active, and a scan its producer still holds has no   *)
(* job yet.  It bounds the number of invocations by Runs.                  *)
JobInv ==
    \A s \in ScanIds :
        /\ jobState[s] \in {"waiting", "active"} =>
             attempts[s] < MaxAttempts /\ stalls[s] <= MaxStalls
        /\ expired[s] <= stalls[s]
        /\ jobState[s] = "active" => current[s] = attempts[s] + stalls[s] + 1
        /\ jobState[s] = "none" => attempts[s] = 0 /\ stalls[s] = 0
        /\ pending[s] # NoProc => jobState[s] = "none" /\ Created(s)
        /\ ~ Created(s) => jobState[s] = "none"

TypeInv == TypeOK /\ JobInv

LEMMA RunsFact ==
    /\ \A a \in 0 .. MaxAttempts, b \in 0 .. MaxStalls :
          a < MaxAttempts => a + b + 1 \in Runs
    /\ 1 \in Runs
  BY DEF Runs

LEMMA PerRunExcept ==
  ASSUME NEW S, NEW f \in PerRun(S), NEW s \in ScanIds, NEW k \in Runs, NEW v \in S
  PROVE  [f EXCEPT ![s][k] = v] \in PerRun(S)
  BY DEF PerRun

LEMMA TypeInit == Init => TypeInv
  BY RunsFact DEF Init, TypeInv, TypeOK, JobInv, EachRun, PerRun, Created,
                  Status, Terminal, JobState, PC, Live, Settled

(* The handler's steps leave the queue alone. *)
LEMMA TypeHandle ==
  ASSUME TypeInv, NEW s \in ScanIds, NEW k \in Runs, Handle(s, k) \/ Hang(s, k)
  PROVE  TypeInv'
<1> USE DEF TypeInv, TypeOK, JobInv, Created, PerRun, Goto, rowVars, jobVars,
            localVars, observed, Status, Terminal, PC, Live, Settled
<1>1. CASE MarkRunning(s, k)
  BY <1>1 DEF MarkRunning, WriteStatus, Swallowed
<1>2. CASE CollectGraph(s, k)
  BY <1>2 DEF CollectGraph
<1>3. CASE ReadPrior(s, k)
  BY <1>3 DEF ReadPrior, PriorFindings, SucceededOthers
<1>4. CASE WriteSuccess(s, k)
  <2>0. graph[s][k] \in SUBSET Findings
    OBVIOUS
  <2>1. result' \in [ScanIds -> SUBSET Findings]
    <3>1. \/ result' = result
          \/ result' = [result EXCEPT ![s] = graph[s][k]]
      BY <1>4 DEF WriteSuccess, Swallowed
    <3> QED
      BY <2>0, <3>1
  <2>2. status' \in [ScanIds -> Status]
    BY <1>4 DEF WriteSuccess, WriteStatus, Swallowed
  <2>3. \A t \in ScanIds : status[t] # "absent" => status'[t] # "absent"
    BY <1>4 DEF WriteSuccess, WriteStatus, Swallowed
  <2>4. pc' \in PerRun(PC)
    BY <1>4 DEF WriteSuccess
  <2>5. lostWrites' \subseteq ScanIds
    BY <1>4 DEF WriteSuccess
  <2>6. UNCHANGED <<project, pending, jobVars, localVars, mailed, crashes>>
    BY <1>4 DEF WriteSuccess
  <2> QED
    BY <2>1, <2>2, <2>3, <2>4, <2>5, <2>6
<1>5. CASE Throw(s, k)
  BY <1>5 DEF Throw
<1>6. CASE WriteFailure(s, k)
  BY <1>6 DEF WriteFailure, WriteStatus, Swallowed
<1>7. CASE SendAlert(s, k)
  BY <1>7 DEF SendAlert
<1>8. CASE Hang(s, k)
  BY <1>8 DEF Hang
<1> QED
  BY <1>1, <1>2, <1>3, <1>4, <1>5, <1>6, <1>7, <1>8 DEF Handle

(* An enqueued job is invoked at once by the inline driver, and waits in   *)
(* BullMQ.                                                                 *)
LEMMA TypeEnqueue ==
  ASSUME TypeInv, NEW s \in ScanIds, Enqueue(s)
  PROVE  TypeInv'
<1>1. /\ jobState[s] = "none" /\ Created(s) /\ attempts[s] = 0 /\ stalls[s] = 0
      /\ pending[s] \in Procs
  BY DEF TypeInv, TypeOK, JobInv, Enqueue
<1>2. TypeOK'
  <2>1. CASE pending[s] \notin Redis
    <3>1. /\ pc' = [pc EXCEPT ![s][1] = "start"]
          /\ host' = [host EXCEPT ![s][1] = pending[s]]
          /\ jobState' = [jobState EXCEPT ![s] = "active"]
          /\ current' = [current EXCEPT ![s] = 1]
          /\ pending' = [pending EXCEPT ![s] = NoProc]
      BY <2>1 DEF Enqueue, Invoke
    <3>2. /\ pc \in PerRun(PC)
          /\ host \in PerRun(Procs \cup {NoProc})
          /\ "start" \in PC
          /\ pending[s] \in Procs \cup {NoProc}
      BY <1>1 DEF TypeInv, TypeOK, PC, Live
    <3>3. pc' \in PerRun(PC)
      BY <3>1, <3>2, RunsFact, PerRunExcept
    <3>4. host' \in PerRun(Procs \cup {NoProc})
      BY <3>1, <3>2, RunsFact, PerRunExcept
    <3> QED
      BY <3>1, <3>3, <3>4, RunsFact
         DEF TypeInv, TypeOK, Enqueue, JobState, rowVars, observed
  <2>2. CASE pending[s] \in Redis
    BY <1>1, <2>2
       DEF TypeInv, TypeOK, Enqueue, PerRun, JobState, rowVars, observed
  <2> QED
    BY <2>1, <2>2
<1>3. JobInv'
  <2>1. \A t \in ScanIds : t # s => /\ jobState'[t] = jobState[t]
                                  /\ current'[t] = current[t]
                                  /\ pending'[t] = pending[t]
    BY DEF TypeInv, TypeOK, Enqueue, Invoke
  <2>2. /\ pending'[s] = NoProc
        /\ jobState'[s] \in {"waiting", "active"}
        /\ jobState'[s] = "active" => current'[s] = 1
    BY DEF TypeInv, TypeOK, Enqueue, Invoke
  <2> QED
    BY <1>1, <2>1, <2>2 DEF TypeInv, TypeOK, JobInv, Enqueue, Created, rowVars
<1> QED
  BY <1>2, <1>3 DEF TypeInv

LEMMA TypeStep == TypeInv /\ [Next]_vars => TypeInv'
<1> SUFFICES ASSUME TypeInv, [Next]_vars PROVE TypeInv'
  OBVIOUS
<1> USE DEF TypeInv, TypeOK, JobInv, Created, PerRun, rowVars, jobVars,
            localVars, observed, Status, JobState
<1>1. ASSUME NEW q \in Procs, NEW p \in Projects, CreateQueued(q, p) PROVE TypeInv'
  BY <1>1 DEF CreateQueued
<1>3. ASSUME NEW s \in ScanIds, NEW q \in Procs, Deliver(s, q) PROVE TypeInv'
  <2>1. attempts[s] \in 0 .. MaxAttempts /\ stalls[s] \in 0 .. MaxStalls /\ attempts[s] < MaxAttempts
    BY <1>3 DEF Deliver
  <2>2. attempts[s] + stalls[s] + 1 \in Runs
    BY <2>1, RunsFact
  <2> QED
    BY <1>3, <2>2 DEF Deliver, Invoke, PC, Live
<1>4. ASSUME NEW s \in ScanIds, CompleteJob(s) PROVE TypeInv'
  BY <1>4 DEF CompleteJob
<1>5. ASSUME NEW s \in ScanIds, TimeoutJob(s) PROVE TypeInv'
  BY <1>5 DEF TimeoutJob
<1>6. ASSUME NEW q \in Procs, Crash(q) PROVE TypeInv'
  BY <1>6 DEF Crash, Redelivered, AfterStall, ActiveOn, Remains, PC
<1>7. CASE UNCHANGED vars
  BY <1>7 DEF vars
<1>8. ASSUME NEW s \in ScanIds, Stall(s) PROVE TypeInv'
  BY <1>8 DEF Stall, AfterStall
<1> QED
  BY <1>1, TypeEnqueue, <1>3, <1>4, <1>5, <1>6, <1>7, <1>8, TypeHandle
     DEF Next, Produce, StartScan, MonitorScan, Queue, Fault

(* Rows, jobs and invocations keep their types; in particular a job is     *)
(* invoked at most attempts + maxStalledCount times.                       *)
THEOREM TypeCorrect == Spec => []TypeOK
<1>1. Spec => []TypeInv
  BY TypeInit, TypeStep, PTL DEF Spec
<1>2. TypeInv => TypeOK
  BY DEF TypeInv
<1> QED
  BY <1>1, <1>2, PTL

LEMMA SpecTypeInv == Spec => []TypeInv
  BY TypeInit, TypeStep, PTL DEF Spec

-----------------------------------------------------------------------------
(* A handler step moves one live invocation: to another live point, maybe  *)
(* marking the row running, or to its end, with an outcome in the row or a *)
(* write the store swallowed.  The background alert touches no row.        *)
LEMMA HandleEffect ==
  ASSUME TypeInv, NEW s \in ScanIds, NEW k \in Runs, Handle(s, k) \/ Hang(s, k)
  PROVE  /\ UNCHANGED <<pending, jobVars>>
         /\ lostWrites \subseteq lostWrites'
         /\ \E to \in PC : pc' = [pc EXCEPT ![s][k] = to]
         /\ \A t \in ScanIds : t # s => status'[t] = status[t]
         /\ \/ /\ IsLive(s, k) /\ pc'[s][k] \in Live
               /\ status'[s] \in {status[s], "running"}
            \/ /\ IsLive(s, k) /\ pc'[s][k] \notin Live
               /\ status'[s] \in Terminal \/ (s \in lostWrites' /\ status'[s] = status[s])
            \/ /\ pc[s][k] = "alert" /\ pc'[s][k] = "done"
               /\ status' = status
<1> USE DEF TypeInv, TypeOK, PerRun, Goto, IsLive, PC, Live, Settled
<1>1. CASE MarkRunning(s, k)
  BY <1>1 DEF MarkRunning, WriteStatus, Swallowed, jobVars, observed
<1>2. CASE CollectGraph(s, k)
  BY <1>2 DEF CollectGraph, rowVars, jobVars, observed
<1>3. CASE ReadPrior(s, k)
  BY <1>3 DEF ReadPrior, rowVars, jobVars, observed
<1>4. CASE WriteSuccess(s, k)
  BY <1>4 DEF WriteSuccess, WriteStatus, Swallowed, jobVars, Terminal
<1>5. CASE Throw(s, k)
  BY <1>5 DEF Throw, rowVars, jobVars, observed
<1>6. CASE WriteFailure(s, k)
  BY <1>6 DEF WriteFailure, WriteStatus, Swallowed, jobVars, Terminal
<1>7. CASE SendAlert(s, k)
  BY <1>7 DEF SendAlert, rowVars, jobVars
<1>8. CASE Hang(s, k)
  BY <1>8 DEF Hang, rowVars, jobVars, observed
<1> QED
  BY <1>1, <1>2, <1>3, <1>4, <1>5, <1>6, <1>7, <1>8 DEF Handle

(* Until an attempt times out or its lock expires under a living process,  *)
(* the queue supervises every live handler.                                *)
Supervised ==
    \A s \in ScanIds : attempts[s] + expired[s] = 0 =>
        \A k \in Runs : IsLive(s, k) => jobState[s] = "active" /\ current[s] = k

(* Until a job is retried or redelivered, an outcome in the row means that *)
(* the one delivery was made and its handler is through.                   *)
FirstOutcome ==
    \A s \in ScanIds : attempts[s] + stalls[s] = 0 /\ status[s] \in Terminal =>
        /\ jobState[s] \notin {"none", "waiting"}
        /\ \A k \in Runs : ~ IsLive(s, k)

IInv == TypeInv /\ Supervised /\ FirstOutcome /\ StrandedOnlyByLoss

LEMMA IInvInit == Init => IInv
<1> SUFFICES ASSUME Init PROVE IInv
  OBVIOUS
<1>1. TypeInv
  BY TypeInit
<1>2. /\ \A s \in ScanIds : status[s] = "absent"
      /\ \A s \in ScanIds, k \in Runs : pc[s][k] = "idle"
  BY DEF Init, EachRun
<1> QED
  BY <1>1, <1>2 DEF IInv, Supervised, FirstOutcome, StrandedOnlyByLoss, Lost, Stranded,
                    Created, IsLive, Live, Terminal

(* Delivery k of the job of s, by Enqueue (inline) or by Deliver. *)
LEMMA IInvInvoke ==
  ASSUME IInv, TypeInv', NEW s \in ScanIds, NEW k \in Runs, NEW q, Invoke(s, k, q),
         jobState[s] \in {"none", "waiting"},
         status' = status, lostWrites' = lostWrites,
         attempts' = attempts, stalls' = stalls, expired' = expired,
         \A t \in ScanIds : t # s => pending'[t] = pending[t]
  PROVE  Supervised' /\ FirstOutcome' /\ StrandedOnlyByLoss'
<1>1. /\ pc'[s][k] = "start"
      /\ jobState'[s] = "active" /\ current'[s] = k
      /\ \A j \in Runs : j # k => pc'[s][j] = pc[s][j]
      /\ \A t \in ScanIds : t # s => /\ pc'[t] = pc[t]
                                  /\ jobState'[t] = jobState[t]
                                  /\ current'[t] = current[t]
  BY DEF Invoke, IInv, TypeInv, TypeOK, PerRun
<1>2. Supervised'
  BY <1>1 DEF IInv, Supervised, IsLive
<1>3. FirstOutcome'
  BY <1>1 DEF IInv, FirstOutcome, IsLive
<1>4. StrandedOnlyByLoss'
  BY <1>1 DEF IInv, StrandedOnlyByLoss, Lost, Stranded, Attended, Created, IsLive, Live
<1> QED
  BY <1>2, <1>3, <1>4

LEMMA IInvHandle ==
  ASSUME IInv, TypeInv', NEW s \in ScanIds, NEW k \in Runs, Handle(s, k) \/ Hang(s, k)
  PROVE  Supervised' /\ FirstOutcome' /\ StrandedOnlyByLoss'
<1>1. /\ UNCHANGED <<pending, jobVars>>
      /\ lostWrites \subseteq lostWrites'
      /\ \A t \in ScanIds : t # s => status'[t] = status[t] /\ pc'[t] = pc[t]
      /\ \A j \in Runs : j # k => pc'[s][j] = pc[s][j]
      /\ \/ /\ IsLive(s, k) /\ pc'[s][k] \in Live
            /\ status'[s] \in {status[s], "running"}
         \/ /\ IsLive(s, k) /\ pc'[s][k] \notin Live
            /\ status'[s] \in Terminal \/ (s \in lostWrites' /\ status'[s] = status[s])
         \/ /\ pc[s][k] = "alert" /\ pc'[s][k] = "done"
            /\ status' = status
  <2>1. \E to \in PC : pc' = [pc EXCEPT ![s][k] = to]
    BY HandleEffect DEF IInv
  <2>2. /\ \A t \in ScanIds : t # s => pc'[t] = pc[t]
        /\ \A j \in Runs : j # k => pc'[s][j] = pc[s][j]
    BY <2>1 DEF IInv, TypeInv, TypeOK, PerRun
  <2> QED
    BY <2>2, HandleEffect DEF IInv
<1>2. Supervised'
  BY <1>1 DEF IInv, Supervised, IsLive, Live, jobVars
<1>3. FirstOutcome'
  <2>1. attempts[s] + stalls[s] = 0 => attempts[s] + expired[s] = 0
    BY DEF IInv, TypeInv, TypeOK, JobInv
  <2>2. ASSUME attempts[s] + stalls[s] = 0, status'[s] \in Terminal
        PROVE  /\ jobState[s] \notin {"none", "waiting"}
               /\ \A j \in Runs : pc'[s][j] \notin Live
    BY <1>1, <2>1, <2>2 DEF IInv, Supervised, FirstOutcome, IsLive, Live, Terminal
  <2> QED
    BY <1>1, <2>2 DEF IInv, FirstOutcome, IsLive, jobVars
<1>4. StrandedOnlyByLoss'
  BY <1>1 DEF IInv, StrandedOnlyByLoss, Lost, Stranded, Attended, Created, IsLive, Live,
              Terminal, jobVars
<1> QED
  BY <1>2, <1>3, <1>4

(* The death of a process takes its handlers along: a job that is given    *)
(* back has none left, and one that is not leaves a mark that              *)
(* StrandedOnlyByLoss names.                                               *)
LEMMA IInvCrash ==
  ASSUME IInv, TypeInv', NEW q \in Procs, Crash(q)
  PROVE  Supervised' /\ FirstOutcome' /\ StrandedOnlyByLoss'
<1>1. /\ UNCHANGED <<status, attempts, expired, current, host, lostWrites>>
      /\ \A s \in ScanIds :
           /\ pending'[s] = IF pending[s] = q THEN NoProc ELSE pending[s]
           /\ jobState'[s] # "none" <=> jobState[s] # "none"
           /\ jobState'[s] = jobState[s] \/ s \in ActiveOn(q)
           /\ jobState[s] = "waiting" => jobState'[s] = "waiting"
           /\ s \in Redelivered(q) => jobState'[s] = "waiting"
           /\ stalls'[s] >= stalls[s]
           /\ jobState'[s] = "waiting" => jobState[s] = "waiting" \/ stalls'[s] > 0
  BY DEF Crash, rowVars, localVars, observed, Redelivered, ActiveOn, IInv, TypeInv, TypeOK
<1>9. \A s \in ScanIds, k \in Runs :
           pc'[s][k] = IF Killed(s, k, q) THEN Remains(s, k, q) ELSE pc[s][k]
  BY DEF Crash
<1>10. \A s \in ScanIds, k \in Runs : Remains(s, k, q) \in {"dead", "gone"}
  BY DEF Remains
<1>2. Supervised'
  <2> SUFFICES ASSUME NEW s \in ScanIds, attempts[s] + expired[s] = 0,
                      NEW k \in Runs, IsLive(s, k)'
               PROVE  jobState'[s] = "active" /\ current'[s] = k
    BY <1>1 DEF Supervised
  <2>1. IsLive(s, k) /\ ~ Killed(s, k, q)
    BY <1>9, <1>10 DEF IsLive, Live
  <2>2. jobState[s] = "active" /\ current[s] = k /\ host[s][k] # q
    BY <2>1 DEF IInv, Supervised, Killed, IsLive
  <2> QED
    BY <1>1, <2>2 DEF ActiveOn
<1>3. FirstOutcome'
  <2> SUFFICES ASSUME NEW s \in ScanIds, attempts[s] + stalls'[s] = 0,
                      status[s] \in Terminal
               PROVE  /\ jobState'[s] \notin {"none", "waiting"}
                      /\ \A k \in Runs : ~ IsLive(s, k)'
    BY <1>1 DEF FirstOutcome
  <2>1. attempts[s] \in Nat /\ stalls[s] \in Nat /\ stalls'[s] \in Nat
    BY DEF IInv, TypeInv, TypeOK
  <2>2. attempts[s] + stalls[s] = 0 /\ stalls'[s] = 0
    BY <1>1, <2>1
  <2> QED
    BY <1>1, <1>9, <1>10, <2>2 DEF IInv, FirstOutcome, IsLive, Live
<1>4. StrandedOnlyByLoss'
  <2> SUFFICES ASSUME NEW s \in ScanIds, Stranded(s)', jobState'[s] # "none",
                      s \notin lostWrites
               PROVE  \E k \in Runs : pc'[s][k] = "gone"
    BY <1>1 DEF StrandedOnlyByLoss, Lost
  <2>1. CASE Stranded(s)
    <3>1. PICK k \in Runs : pc[s][k] = "gone"
      BY <1>1, <2>1 DEF IInv, StrandedOnlyByLoss, Lost
    <3>2. ~ Killed(s, k, q)
      BY <3>1 DEF Killed, Live
    <3> QED
      BY <1>9, <3>1, <3>2
  <2>2. CASE ~ Stranded(s)
    <3>1. pending[s] = NoProc /\ jobState[s] # "waiting" /\ s \notin Redelivered(q)
      BY <1>1 DEF IInv, TypeInv, JobInv, Stranded, Attended
    <3>2. PICK k \in Runs : IsLive(s, k)
      BY <1>1, <2>2, <3>1 DEF Stranded, Attended, Created
    <3>3. ~ IsLive(s, k)'
      BY DEF Stranded, Attended
    <3>4. Killed(s, k, q)
      BY <1>9, <3>2, <3>3 DEF IsLive
    <3> QED
      BY <1>9, <3>1, <3>2, <3>4 DEF Remains
  <2> QED
    BY <2>1, <2>2
<1> QED
  BY <1>2, <1>3, <1>4

(* A lock that expires takes the job away and leaves its handler.          *)
LEMMA IInvStall ==
  ASSUME IInv, TypeInv', NEW s \in ScanIds, Stall(s)
  PROVE  Supervised' /\ FirstOutcome' /\ StrandedOnlyByLoss'
<1>1. /\ UNCHANGED <<status, pending, attempts, current, pc, lostWrites>>
      /\ jobState[s] = "active" /\ jobState'[s] \in {"waiting", "failed"}
      /\ stalls'[s] > 0 /\ expired'[s] > 0 /\ attempts[s] \in Nat
      /\ \A t \in ScanIds : t # s => /\ jobState'[t] = jobState[t]
                                   /\ stalls'[t] = stalls[t]
                                   /\ expired'[t] = expired[t]
  BY DEF Stall, AfterStall, rowVars, observed, IInv, TypeInv, TypeOK
<1>2. attempts[s] + stalls'[s] > 0 /\ attempts[s] + expired'[s] > 0
  <2>1. stalls'[s] \in Nat /\ expired'[s] \in Nat
    BY DEF TypeInv, TypeOK
  <2> QED
    BY <1>1, <2>1
<1>3. Supervised'
  BY <1>1, <1>2 DEF IInv, Supervised, IsLive
<1>4. FirstOutcome'
  BY <1>1, <1>2 DEF IInv, FirstOutcome, IsLive
<1>5. StrandedOnlyByLoss'
  BY <1>1 DEF IInv, StrandedOnlyByLoss, Stranded, Lost, Attended, Created, IsLive
<1> QED
  BY <1>3, <1>4, <1>5

LEMMA IInvStep == IInv /\ [Next]_vars => IInv'
<1> SUFFICES ASSUME IInv, [Next]_vars PROVE Supervised' /\ FirstOutcome' /\ StrandedOnlyByLoss'
  BY TypeStep DEF IInv
<1> TypeInv'
  BY TypeStep DEF IInv
<1> USE DEF IInv, TypeInv, TypeOK, IsLive, Live
<1>1. ASSUME NEW q \in Procs, NEW p \in Projects, CreateQueued(q, p)
      PROVE  Supervised' /\ FirstOutcome' /\ StrandedOnlyByLoss'
  <2>1. PICK s \in ScanIds : /\ ~ Created(s)
                             /\ status' = [status EXCEPT ![s] = "queued"]
                             /\ pending' = [pending EXCEPT ![s] = q]
                             /\ UNCHANGED <<jobVars, pc, observed>>
    BY <1>1 DEF CreateQueued
  <2> QED
    BY <2>1 DEF Supervised, FirstOutcome, StrandedOnlyByLoss, Lost, Stranded, Attended,
                Created, jobVars, observed, Terminal
<1>2. ASSUME NEW s \in ScanIds, Enqueue(s)
      PROVE  Supervised' /\ FirstOutcome' /\ StrandedOnlyByLoss'
  <2>1. jobState[s] = "none" /\ attempts[s] = 0 /\ stalls[s] = 0
    BY <1>2 DEF Enqueue, JobInv
  <2>2. CASE pending[s] \notin Redis
    BY <1>2, <2>1, <2>2, RunsFact, IInvInvoke DEF Enqueue, rowVars, observed
  <2>3. CASE pending[s] \in Redis
    <3>1. /\ UNCHANGED <<status, counters, current, pc, lostWrites>>
          /\ jobState' = [jobState EXCEPT ![s] = "waiting"]
          /\ pending' = [pending EXCEPT ![s] = NoProc]
      BY <1>2, <2>3 DEF Enqueue, rowVars, observed
    <3> QED
      BY <2>1, <3>1 DEF Supervised, FirstOutcome, StrandedOnlyByLoss, Lost, Stranded, Attended,
                        Created
  <2> QED
    BY <2>2, <2>3
<1>3. ASSUME NEW s \in ScanIds, NEW q \in Procs, Deliver(s, q)
      PROVE  Supervised' /\ FirstOutcome' /\ StrandedOnlyByLoss'
  <2>1. attempts[s] + stalls[s] + 1 \in Runs
    BY <1>3, RunsFact DEF Deliver, JobInv
  <2> QED
    BY <1>3, <2>1, IInvInvoke DEF Deliver, rowVars, observed
<1>4. ASSUME NEW s \in ScanIds, CompleteJob(s)
      PROVE  Supervised' /\ FirstOutcome' /\ StrandedOnlyByLoss'
  BY <1>4 DEF CompleteJob, Supervised, FirstOutcome, StrandedOnlyByLoss, Lost, Stranded,
              Attended, Created, Settled, rowVars, observed
<1>5. ASSUME NEW s \in ScanIds, TimeoutJob(s)
      PROVE  Supervised' /\ FirstOutcome' /\ StrandedOnlyByLoss'
  BY <1>5 DEF TimeoutJob, JobInv, Supervised, FirstOutcome, StrandedOnlyByLoss, Lost, Stranded,
              Attended, Created, rowVars, observed
<1>6. CASE UNCHANGED vars
  BY <1>6 DEF vars, rowVars, jobVars, observed, Supervised, FirstOutcome,
              StrandedOnlyByLoss, Lost, Stranded, Attended, Created
<1> QED
  BY <1>1, <1>2, <1>3, <1>4, <1>5, <1>6, IInvHandle, IInvCrash, IInvStall
     DEF Next, Produce, StartScan, MonitorScan, Queue, Fault

LEMMA SpecIInv == Spec => []IInv
  BY IInvInit, IInvStep, PTL DEF Spec

(* Whatever times out, crashes or is swallowed, a scan that nobody works   *)
(* on any more and that has no outcome lost its producer, a handler or a   *)
(* write: retries and overlapping attempts alone strand nothing.           *)
THEOREM OnlyLossStrands == Spec => []StrandedOnlyByLoss
<1>1. IInv => StrandedOnlyByLoss
  BY DEF IInv
<1> QED
  BY <1>1, SpecIInv, PTL

(* A finished scan is reopened only by a job that timed out or stalled: a  *)
(* job delivered once moves its row forward only.                          *)
THEOREM OnlyRetryReopens == Spec => ReopenedOnlyByRetry
<1> DEFINE Reopen == \A s \in ScanIds :
             status[s] \in Terminal /\ status'[s] # status[s]
               => attempts[s] + stalls[s] > 0
<1>1. IInv /\ [Next]_vars => [Reopen]_vars
  <2> SUFFICES ASSUME IInv, Next, NEW s \in ScanIds,
                      status[s] \in Terminal, status'[s] # status[s]
               PROVE  attempts[s] + stalls[s] > 0
    OBVIOUS
  <2>1. \E k \in Runs : IsLive(s, k)
    <3>1. ASSUME NEW t \in ScanIds, NEW k \in Runs, Handle(t, k) \/ Hang(t, k)
          PROVE  \E j \in Runs : IsLive(s, j)
      BY <3>1, HandleEffect DEF IInv
    <3>2. ASSUME NEW q \in Procs, NEW p \in Projects, CreateQueued(q, p) PROVE FALSE
      BY <3>2 DEF CreateQueued, Created, Terminal, IInv, TypeInv, TypeOK
    <3>3. ASSUME NEW t \in ScanIds, Queue(t) \/ TimeoutJob(t) \/ Stall(t) PROVE FALSE
      BY <3>3 DEF Queue, Enqueue, Deliver, CompleteJob, TimeoutJob, Stall, rowVars
    <3>4. ASSUME NEW q \in Procs, Crash(q) PROVE FALSE
      BY <3>4 DEF Crash, rowVars
    <3> QED
      BY <3>1, <3>2, <3>3, <3>4 DEF Next, Produce, StartScan, MonitorScan, Fault
  <2>2. attempts[s] \in Nat /\ stalls[s] \in Nat
    BY DEF IInv, TypeInv, TypeOK
  <2> QED
    BY <2>1, <2>2 DEF IInv, FirstOutcome
<1> QED
  BY <1>1, SpecIInv, PTL DEF Spec, ReopenedOnlyByRetry

(* Mutual exclusion by the queue: while no attempt of a scan timed out and *)
(* no lock expired under a living process, no two handlers work on it,     *)
(* whatever dies and is redelivered.                                       *)
THEOREM OnlyLetGoOverlaps == Spec => []OverlapOnlyIfLetGo
<1>1. IInv => OverlapOnlyIfLetGo
  <2> SUFFICES ASSUME IInv, NEW s \in ScanIds, attempts[s] + expired[s] = 0
               PROVE  \A j, k \in Runs : IsLive(s, j) /\ IsLive(s, k) => j = k
    BY DEF OverlapOnlyIfLetGo, IInv, TypeInv, TypeOK
  <2> QED
    BY DEF IInv, Supervised
<1> QED
  BY <1>1, SpecIInv, PTL

-----------------------------------------------------------------------------
(* Refinement.  With no timeout, no crash and no swallowed write a job is  *)
(* delivered once, and its handler and the row move in step.               *)
RowInStep(s) ==
    /\ attempts[s] = 0 /\ stalls[s] = 0 /\ expired[s] = 0
    /\ jobState[s] = "none" => status[s] \in {"absent", "queued"}
    /\ jobState[s] = "waiting" => status[s] = "queued"
    /\ \A k \in Runs :
         /\ pc[s][k] = "start" => status[s] = "queued"
         /\ pc[s][k] \in Live \ {"start"} => status[s] = "running"
InStep == \A s \in ScanIds : RowInStep(s)

(* Under InStep each step of the pipeline is a step of the customer's view *)
(* of one scan, or none.                                                   *)
LEMMA LifecycleStep ==
  ASSUME Faults = {}, MaxCrashes = 0, IInv, IInv', InStep, Next
  PROVE  InStep' /\ [Lifecycle!Next]_status
<1>0. TypeInv /\ Supervised
  BY DEF IInv
<1>00. \A s \in ScanIds, k \in Runs : IsLive(s, k) => jobState[s] = "active" /\ current[s] = k
  BY DEF IInv, Supervised, InStep, RowInStep
<1> USE DEF IInv, TypeInv, TypeOK, PerRun, Live
<1>1. ASSUME NEW q \in Procs, NEW p \in Projects, CreateQueued(q, p)
      PROVE  InStep' /\ Lifecycle!Next
  <2>1. PICK s \in ScanIds : /\ status[s] = "absent"
                             /\ status' = [status EXCEPT ![s] = "queued"]
                             /\ UNCHANGED <<jobVars, pc>>
    BY <1>1 DEF CreateQueued, Created
  <2>2. jobState[s] = "none" /\ \A k \in Runs : pc[s][k] \notin Live
    BY <1>00, <2>1 DEF JobInv, Created, IsLive
  <2>3. InStep'
    BY <2>1, <2>2 DEF InStep, RowInStep, jobVars
  <2>4. Lifecycle!Create(s)
    BY <2>1 DEF Lifecycle!Create, Lifecycle!Move
  <2> QED
    BY <2>3, <2>4 DEF Lifecycle!Next
<1>2. ASSUME NEW s \in ScanIds, NEW k \in Runs, NEW q, Invoke(s, k, q),
             status[s] = "queued", UNCHANGED <<status, counters>>
      PROVE  InStep'
  BY <1>2 DEF Invoke, InStep, RowInStep
<1>3. ASSUME NEW s \in ScanIds, Queue(s)
      PROVE  InStep' /\ UNCHANGED status
  <2>1. CASE Enqueue(s)
    <3>1. status[s] = "queued" /\ UNCHANGED <<status, counters>>
      BY <2>1 DEF Enqueue, JobInv, Created, InStep, RowInStep, rowVars
    <3>2. CASE pending[s] \notin Redis
      BY <2>1, <3>1, <3>2, <1>2, RunsFact DEF Enqueue
    <3>3. CASE pending[s] \in Redis
      <4>1. /\ jobState' = [jobState EXCEPT ![s] = "waiting"]
            /\ UNCHANGED <<pc, status, counters>>
        BY <2>1, <3>1, <3>3 DEF Enqueue
      <4> QED
        BY <3>1, <4>1 DEF InStep, RowInStep
    <3> QED
      BY <3>1, <3>2, <3>3
  <2>2. ASSUME NEW q \in Procs, Deliver(s, q) PROVE InStep' /\ UNCHANGED status
    <3>1. attempts[s] + stalls[s] + 1 \in Runs
      BY <2>2, RunsFact DEF Deliver, JobInv
    <3> QED
      BY <2>2, <3>1, <1>2 DEF Deliver, InStep, RowInStep, rowVars
  <2>3. CASE CompleteJob(s)
    <3>1. /\ jobState' = [jobState EXCEPT ![s] = "completed"]
          /\ UNCHANGED <<pc, status, counters>>
      BY <2>3 DEF CompleteJob, rowVars
    <3> QED
      BY <3>1 DEF InStep, RowInStep
  <2> QED
    BY <1>3, <2>1, <2>2, <2>3 DEF Queue
<1>4. ASSUME NEW s \in ScanIds, NEW k \in Runs, Handle(s, k)
      PROVE  InStep' /\ [Lifecycle!Next]_status
  <2>1. /\ UNCHANGED jobVars
        /\ \A t \in ScanIds : t # s => status'[t] = status[t] /\ pc'[t] = pc[t]
        /\ \A j \in Runs : j # k => pc'[s][j] = pc[s][j]
    <3> HIDE DEF IInv, TypeInv, TypeOK, PerRun, Live
    <3>0. /\ UNCHANGED <<pending, jobVars>>
          /\ \A t \in ScanIds : t # s => status'[t] = status[t]
          /\ \E to \in PC : pc' = [pc EXCEPT ![s][k] = to]
      BY <1>0, <1>4, HandleEffect
    <3>1. pc \in [ScanIds -> [Runs -> PC]]
      BY <1>0 DEF TypeInv, TypeOK, PerRun
    <3>2. /\ \A t \in ScanIds : t # s => pc'[t] = pc[t]
          /\ \A j \in Runs : j # k => pc'[s][j] = pc[s][j]
      BY <3>0, <3>1
    <3> QED
      BY <3>0, <3>2
  <2>2. \A j \in Runs : j # k /\ IsLive(s, k) => pc[s][j] \notin Live
    BY <1>00 DEF IsLive
  <2>3. IsLive(s, k) => jobState[s] = "active"
    BY <1>00
  <2>9. \A t \in ScanIds : t # s => RowInStep(t)'
    BY <2>1 DEF InStep, RowInStep, jobVars
  <2>4. ASSUME IsLive(s, k), pc'[s][k] # "start",
               pc'[s][k] \in Live => status'[s] = "running"
        PROVE  InStep'
    <3> HIDE DEF IInv, TypeInv, TypeOK, PerRun, Live
    <3>1. jobState[s] = "active" /\ attempts[s] = 0 /\ stalls[s] = 0 /\ expired[s] = 0
      BY <2>3, <2>4 DEF InStep, RowInStep
    <3>2. jobState'[s] = "active" /\ attempts'[s] = 0 /\ stalls'[s] = 0 /\ expired'[s] = 0
      BY <2>1, <3>1 DEF jobVars
    <3>3. \A j \in Runs : j # k => pc'[s][j] \notin Live
      BY <2>1, <2>2, <2>4
    <3>4. \A j \in Runs : /\ pc'[s][j] = "start" => status'[s] = "queued"
                          /\ pc'[s][j] \in Live \ {"start"} => status'[s] = "running"
      BY <2>4, <3>3 DEF Live
    <3>5. RowInStep(s)'
      BY <3>2, <3>4 DEF RowInStep, Live
    <3> QED
      BY <2>9, <3>5 DEF InStep
  <2>5. CASE MarkRunning(s, k)
    <3>1. status[s] = "queued" /\ status' = [status EXCEPT ![s] = "running"]
      BY <2>5 DEF MarkRunning, Goto, WriteStatus, Swallowed, InStep, RowInStep
    <3>2. IsLive(s, k) /\ pc'[s][k] = "collect"
      BY <2>5 DEF MarkRunning, Goto, IsLive
    <3>3. Lifecycle!Begin(s)
      BY <3>1 DEF Lifecycle!Begin, Lifecycle!Move
    <3> QED
      BY <2>4, <3>1, <3>2, <3>3 DEF Lifecycle!Next
  <2>6. CASE CollectGraph(s, k) \/ ReadPrior(s, k) \/ Throw(s, k)
    <3>1. /\ IsLive(s, k) /\ status' = status /\ status[s] = "running"
          /\ pc'[s][k] \in Live \ {"start"}
      BY <2>6 DEF CollectGraph, ReadPrior, Throw, Goto, IsLive, InStep, RowInStep, rowVars
    <3> QED
      BY <2>4, <3>1
  <2>7. CASE WriteSuccess(s, k) \/ WriteFailure(s, k)
    <3>1. /\ status[s] = "running"
          /\ \E o \in Lifecycle!Terminal : status' = [status EXCEPT ![s] = o]
      BY <2>7 DEF WriteSuccess, WriteFailure, Goto, WriteStatus, Swallowed, InStep, RowInStep,
                  Lifecycle!Terminal
    <3>2. IsLive(s, k) /\ pc'[s][k] \notin Live
      BY <2>7 DEF WriteSuccess, WriteFailure, Goto, IsLive
    <3>3. Lifecycle!Finish(s)
      BY <3>1 DEF Lifecycle!Finish, Lifecycle!Move
    <3> QED
      BY <2>4, <3>2, <3>3 DEF Lifecycle!Next
  <2>8. CASE SendAlert(s, k)
    <3>1. status' = status /\ pc'[s][k] \notin Live
      BY <2>8 DEF SendAlert, Goto, rowVars
    <3>2. RowInStep(s)'
      <4> HIDE DEF IInv, TypeInv, TypeOK, PerRun, Live
      <4>1. RowInStep(s)
        BY DEF InStep
      <4>2. \A j \in Runs : pc'[s][j] \in Live => pc'[s][j] = pc[s][j]
        BY <2>1, <3>1
      <4>3. \A j \in Runs : /\ pc'[s][j] = "start" => status'[s] = "queued"
                            /\ pc'[s][j] \in Live \ {"start"} => status'[s] = "running"
        BY <3>1, <4>1, <4>2 DEF RowInStep, Live
      <4> QED
        BY <2>1, <3>1, <4>1, <4>3 DEF RowInStep, jobVars, Live
    <3> QED
      BY <2>9, <3>1, <3>2 DEF InStep
  <2> QED
    BY <1>4, <2>5, <2>6, <2>7, <2>8 DEF Handle
<1>5. ASSUME NEW s \in ScanIds, TimeoutJob(s) PROVE FALSE
  BY <1>5 DEF TimeoutJob
<1>6. CASE Fault
  BY <1>6 DEF Fault, Crash, Stall, Hang
<1> QED
  BY <1>1, <1>3, <1>4, <1>5, <1>6 DEF Next, Produce, StartScan, MonitorScan

(* The faultless pipeline implements ScanLifecycle: queued, then running,  *)
(* then one outcome for good, for either driver and any concurrency.       *)
THEOREM FaultlessImplementsLifecycle ==
  Faults = {} /\ MaxCrashes = 0 => (Spec => ImplementsLifecycle)
<1> SUFFICES ASSUME Faults = {}, MaxCrashes = 0 PROVE Spec => ImplementsLifecycle
  OBVIOUS
<1>1. Init => InStep /\ Lifecycle!Init
  BY DEF Init, InStep, RowInStep, EachRun, Live, Lifecycle!Init
<1>2. IInv /\ IInv' /\ InStep /\ [Next]_vars => InStep' /\ [Lifecycle!Next]_status
  <2>1. ASSUME InStep, UNCHANGED vars PROVE InStep' /\ UNCHANGED status
    BY <2>1 DEF InStep, RowInStep, vars, rowVars, jobVars
  <2> QED
    BY <2>1, LifecycleStep
<1> QED
  BY <1>1, <1>2, SpecIInv, PTL DEF Spec, ImplementsLifecycle, Lifecycle!Spec
-----------------------------------------------------------------------------
(* What retries leave behind, and what the mail of a scan says when there  *)
(* are none.                                                               *)

(* The handlers the queue has lost are runs, of which there are finitely   *)
(* many: a set of them that does not grow does not outnumber what it was.  *)
LEMMA UnsupervisedFinite ==
  \A s \in ScanIds : IsFiniteSet(Unsupervised(s)) /\ Cardinality(Unsupervised(s)) \in Nat
<1>1. IsFiniteSet(Runs)
  BY FS_Interval DEF Runs
<1>2. \A s \in ScanIds : Unsupervised(s) \subseteq Runs
  BY DEF Unsupervised
<1> QED
  BY <1>1, <1>2, FS_Subset, FS_CardinalityType

LEMMA NoNewZombie ==
  ASSUME TypeInv, ZombiesAreCounted, attempts' = attempts, expired' = expired,
         \A s \in ScanIds, k \in Runs : k \in Unsupervised(s)' => k \in Unsupervised(s)
  PROVE  ZombiesAreCounted'
<1> SUFFICES ASSUME NEW s \in ScanIds
             PROVE  Cardinality(Unsupervised(s)') <= attempts[s] + expired[s]
  BY DEF ZombiesAreCounted
<1>1. Unsupervised(s)' \subseteq Unsupervised(s)
  BY DEF Unsupervised
<1>2. /\ Cardinality(Unsupervised(s)') <= Cardinality(Unsupervised(s))
      /\ Cardinality(Unsupervised(s)') \in Nat
  BY <1>1, UnsupervisedFinite, FS_Subset, FS_CardinalityType
<1>3. /\ Cardinality(Unsupervised(s)) <= attempts[s] + expired[s]
      /\ attempts[s] \in Nat /\ expired[s] \in Nat
  BY DEF ZombiesAreCounted, TypeInv, TypeOK
<1> QED
  BY <1>2, <1>3, UnsupervisedFinite

(* A timeout, or a lock that expires, loses one handler, the current one,  *)
(* and is counted.                                                         *)
LEMMA ZombieLetGo ==
  ASSUME TypeInv, ZombiesAreCounted, NEW s \in ScanIds, TimeoutJob(s) \/ Stall(s)
  PROVE  ZombiesAreCounted'
<1>1. /\ attempts'[s] + expired'[s] = attempts[s] + expired[s] + 1
      /\ attempts[s] \in Nat /\ expired[s] \in Nat
      /\ \A t \in ScanIds : t # s => /\ attempts'[t] = attempts[t]
                                  /\ expired'[t] = expired[t]
                                  /\ jobState'[t] = jobState[t]
      /\ jobState'[s] # "active"
      /\ UNCHANGED <<pc, current>>
  BY DEF TimeoutJob, Stall, AfterStall, TypeInv, TypeOK
<1>2. ASSUME NEW t \in ScanIds, t # s
      PROVE  Cardinality(Unsupervised(t)') <= attempts'[t] + expired'[t]
  <2>1. Unsupervised(t)' = Unsupervised(t)
    BY <1>1, <1>2 DEF Unsupervised, IsLive
  <2> QED
    BY <1>1, <1>2, <2>1 DEF ZombiesAreCounted
<1>3. Cardinality(Unsupervised(s)') <= attempts'[s] + expired'[s]
  <2> DEFINE grown == Unsupervised(s) \cup {current[s]}
  <2>1. Unsupervised(s)' \subseteq grown
    BY <1>1 DEF Unsupervised, IsLive
  <2>2. /\ IsFiniteSet(grown) /\ Cardinality(grown) \in Nat
        /\ Cardinality(grown) <= Cardinality(Unsupervised(s)) + 1
    <3>1. IsFiniteSet(Unsupervised(s)) /\ Cardinality(Unsupervised(s)) \in Nat
      BY UnsupervisedFinite
    <3>2. /\ IsFiniteSet(grown)
          /\ Cardinality(grown) \in {Cardinality(Unsupervised(s)),
                                    Cardinality(Unsupervised(s)) + 1}
      BY <3>1, FS_AddElement
    <3> QED
      BY <3>1, <3>2
  <2>3. /\ Cardinality(Unsupervised(s)') <= Cardinality(grown)
        /\ Cardinality(Unsupervised(s)') \in Nat
    BY <2>1, <2>2, FS_Subset, FS_CardinalityType
  <2>4. /\ Cardinality(Unsupervised(s)) <= attempts[s] + expired[s]
        /\ Cardinality(Unsupervised(s)) \in Nat
    BY UnsupervisedFinite DEF ZombiesAreCounted
  <2>5. Cardinality(Unsupervised(s)') <= attempts[s] + expired[s] + 1
    <3> HIDE DEF grown
    <3> QED
      BY <1>1, <2>2, <2>3, <2>4
  <2> QED
    BY <1>1, <2>5
<1> QED
  BY <1>2, <1>3 DEF ZombiesAreCounted

(* No other step takes a live handler from the queue: a delivery adds one  *)
(* that is supervised, an acknowledgement follows its end, and a job is    *)
(* taken from a dead process together with its handler.                    *)
LEMMA ZombieStep == TypeInv /\ TypeInv' /\ ZombiesAreCounted /\ [Next]_vars
                      => ZombiesAreCounted'
<1> SUFFICES ASSUME TypeInv, TypeInv', ZombiesAreCounted, [Next]_vars
             PROVE  ZombiesAreCounted'
  OBVIOUS
<1> DEFINE Supervises == /\ attempts' = attempts /\ expired' = expired
                         /\ \A s \in ScanIds, k \in Runs :
                              k \in Unsupervised(s)' => k \in Unsupervised(s)
<1>1. ASSUME NEW s \in ScanIds, NEW k \in Runs, NEW q, Invoke(s, k, q),
             jobState[s] \in {"none", "waiting"}, attempts' = attempts, expired' = expired
      PROVE  Supervises
  BY <1>1 DEF Invoke, TypeInv, TypeOK, PerRun, Unsupervised, IsLive
<1>2. ASSUME NEW s \in ScanIds, Queue(s) PROVE Supervises
  <2>1. CASE Enqueue(s)
    <3>1. jobState[s] = "none" /\ attempts' = attempts /\ expired' = expired
      BY <2>1 DEF Enqueue, TypeInv, JobInv
    <3>2. CASE pending[s] \in Redis
      BY <2>1, <3>1, <3>2 DEF Enqueue, TypeInv, TypeOK, Unsupervised, IsLive
    <3>3. CASE pending[s] \notin Redis
      BY <1>1, <2>1, <3>1, <3>3, RunsFact DEF Enqueue
    <3> QED
      BY <3>2, <3>3
  <2>2. ASSUME NEW q \in Procs, Deliver(s, q) PROVE Supervises
    <3>1. attempts[s] + stalls[s] + 1 \in Runs
      BY <2>2, RunsFact DEF Deliver, TypeInv, TypeOK, JobInv
    <3> QED
      BY <1>1, <2>2, <3>1 DEF Deliver
  <2>3. CASE CompleteJob(s)
    BY <2>3 DEF CompleteJob, TypeInv, TypeOK, Unsupervised, IsLive, Live, Settled
  <2> QED
    BY <1>2, <2>1, <2>2, <2>3 DEF Queue
<1>3. ASSUME NEW s \in ScanIds, NEW k \in Runs, Handle(s, k) \/ Hang(s, k) PROVE Supervises
  <2>1. UNCHANGED jobVars /\ \E to \in PC : pc' = [pc EXCEPT ![s][k] = to]
    BY <1>3, HandleEffect
  <2>2. IsLive(s, k)' => IsLive(s, k)
    BY <1>3, HandleEffect DEF IsLive, Live
  <2> QED
    BY <2>1, <2>2 DEF jobVars, TypeInv, TypeOK, PerRun, Unsupervised, IsLive
<1>4. ASSUME NEW q \in Procs, Crash(q) PROVE Supervises
  <2>1. /\ UNCHANGED <<attempts, expired, current, host>>
        /\ \A s \in ScanIds : jobState'[s] = jobState[s] \/ s \in ActiveOn(q)
        /\ \A s \in ScanIds, k \in Runs :
              pc'[s][k] = IF Killed(s, k, q) THEN Remains(s, k, q) ELSE pc[s][k]
    BY <1>4 DEF Crash, localVars, Redelivered
  <2>2. \A s \in ScanIds, k \in Runs : IsLive(s, k)' => IsLive(s, k) /\ host[s][k] # q
    BY <2>1 DEF Killed, Remains, IsLive, Live
  <2> QED
    BY <2>1, <2>2 DEF ActiveOn, Unsupervised
<1>5. ASSUME NEW q \in Procs, NEW p \in Projects, CreateQueued(q, p) PROVE Supervises
  BY <1>5 DEF CreateQueued, jobVars, Unsupervised, IsLive
<1>6. CASE UNCHANGED vars
  BY <1>6, NoNewZombie DEF vars, jobVars, Unsupervised, IsLive
<1> QED
  BY <1>2, <1>3, <1>4, <1>5, <1>6, NoNewZombie, ZombieLetGo
     DEF Next, Produce, StartScan, MonitorScan, Fault

(* Each handler that outlives the queue's interest in it was let go by a   *)
(* timeout of its own (bull-queue.ts, Promise.race) or by a lock that      *)
(* expired under it.                                                       *)
THEOREM ZombiesCounted == Spec => []ZombiesAreCounted
<1>1. Init => ZombiesAreCounted
  <2> SUFFICES ASSUME Init, NEW s \in ScanIds
               PROVE  Cardinality(Unsupervised(s)) <= attempts[s] + expired[s]
    BY DEF ZombiesAreCounted
  <2>1. Unsupervised(s) = {}
    BY DEF Init, EachRun, Unsupervised, IsLive, Live
  <2> QED
    BY <2>1, FS_EmptySet DEF Init
<1> QED
  BY <1>1, SpecTypeInv, ZombieStep, PTL DEF Spec

-----------------------------------------------------------------------------
(* With no timeout, no expired lock and no death a job is delivered once,  *)
(* so its handler sends at most one mail.                                  *)
Undisturbed == {"timeout", "stall"} \cap Faults = {} /\ MaxCrashes = 0

OneDelivery ==
    \A s \in ScanIds :
        /\ attempts[s] = 0 /\ stalls[s] = 0
        /\ \A k \in Runs \ {1} : pc[s][k] = "idle" /\ mailed[s][k] = {}

LEMMA OneDeliveryStep ==
  ASSUME Undisturbed, TypeInv, OneDelivery, [Next]_vars
  PROVE  OneDelivery'
<1> USE DEF OneDelivery, TypeInv, TypeOK, PerRun
<1>1. ASSUME NEW s \in ScanIds, NEW k \in Runs, Handle(s, k) \/ Hang(s, k) PROVE OneDelivery'
  <2>1. k = 1
    BY <1>1 DEF Handle, MarkRunning, CollectGraph, ReadPrior, WriteSuccess, Throw,
                WriteFailure, SendAlert, Hang, Goto
  <2>2. UNCHANGED jobVars /\ \E to \in PC : pc' = [pc EXCEPT ![s][1] = to]
    <3> HIDE DEF OneDelivery, TypeInv, TypeOK, PerRun
    <3> QED
      BY <1>1, <2>1, HandleEffect
  <2>3. \E m : mailed' = mailed \/ mailed' = [mailed EXCEPT ![s][1] = m]
    BY <1>1, <2>1 DEF Handle, MarkRunning, CollectGraph, ReadPrior, WriteSuccess, Throw,
                      WriteFailure, SendAlert, Hang, observed
  <2> QED
    BY <2>2, <2>3 DEF jobVars
<1>2. ASSUME NEW s \in ScanIds, Queue(s) PROVE OneDelivery'
  <2>1. UNCHANGED <<attempts, stalls, mailed>>
    BY <1>2 DEF Queue, Enqueue, Deliver, CompleteJob, observed
  <2>2. \/ pc' = pc
        \/ pc' = [pc EXCEPT ![s][1] = "start"]
    <3>1. attempts[s] + stalls[s] + 1 = 1
      OBVIOUS
    <3> HIDE DEF OneDelivery, TypeInv, TypeOK, PerRun
    <3>2. CASE Enqueue(s)
      BY <3>2 DEF Enqueue, Invoke
    <3>3. ASSUME NEW q \in Procs, Deliver(s, q) PROVE pc' = [pc EXCEPT ![s][1] = "start"]
      BY <3>1, <3>3 DEF Deliver, Invoke
    <3>4. CASE CompleteJob(s)
      BY <3>4 DEF CompleteJob
    <3> QED
      BY <1>2, <3>2, <3>3, <3>4 DEF Queue
  <2>3. \A t \in ScanIds : \A k \in Runs \ {1} : pc'[t][k] = pc[t][k]
    <3> HIDE DEF OneDelivery
    <3>1. CASE pc' = [pc EXCEPT ![s][1] = "start"]
      BY <3>1
    <3> QED
      BY <2>2, <3>1
  <2> QED
    BY <2>1, <2>3
<1>3. ASSUME NEW q \in Procs, NEW p \in Projects, CreateQueued(q, p) PROVE OneDelivery'
  BY <1>3 DEF CreateQueued, jobVars, observed
<1>4. ASSUME NEW s \in ScanIds, TimeoutJob(s) \/ Stall(s) PROVE FALSE
  BY <1>4 DEF TimeoutJob, Stall, Undisturbed
<1>5. ASSUME NEW q \in Procs, Crash(q) PROVE FALSE
  BY <1>5 DEF Crash, Undisturbed
<1>6. CASE UNCHANGED vars
  BY <1>6 DEF vars, jobVars, observed
<1> QED
  BY <1>1, <1>2, <1>3, <1>4, <1>5, <1>6 DEF Next, Produce, StartScan, MonitorScan, Fault

LEMMA OneDeliveryInit == Init => OneDelivery
  BY DEF Init, EachRun, OneDelivery

(* scan.processor.ts mails each new risk of a scan once, unless an attempt *)
(* of the job timed out or lost its lock or process: the retry mails again. *)
THEOREM OnceUnlessRetried == Undisturbed => (Spec => []AlertedOncePerScan)
<1> SUFFICES ASSUME Undisturbed PROVE Spec => []AlertedOncePerScan
  OBVIOUS
<1>1. TypeInv /\ OneDelivery /\ [Next]_vars => OneDelivery'
  BY OneDeliveryStep
<1>2. OneDelivery => AlertedOncePerScan
  <2> SUFFICES ASSUME OneDelivery, NEW s \in ScanIds, NEW f \in Findings
               PROVE  Cardinality({k \in Runs : f \in mailed[s][k]}) <= 1
    BY DEF AlertedOncePerScan
  <2>1. {k \in Runs : f \in mailed[s][k]} \subseteq {1}
    BY DEF OneDelivery
  <2>2. IsFiniteSet({1}) /\ Cardinality({1}) = 1
    BY FS_Singleton
  <2> QED
    BY <2>1, <2>2, FS_Subset, FS_CardinalityType
<1> QED
  BY <1>1, <1>2, OneDeliveryInit, SpecTypeInv, PTL DEF Spec

-----------------------------------------------------------------------------
(* What the mails of any number of workers repeat.                         *)

(* A job that was not delivered yet has no handler. *)
FreshJob(s) == jobState[s] \in {"none", "waiting"} => pc[s][1] = "idle"

(* A success once written is the graph whose risks are mailed, and what a  *)
(* handler saw of the other scans is still so when it mails.               *)
RowMatches(s) ==
    /\ status[s] = "succeeded" => result[s] = graph[s][1]
    /\ \A t \in seen[s][1] : status[t] = "succeeded"
    /\ \A t \in seen[s][1] :
          \E u \in seen[s][1] : u >= t /\ result[u] \subseteq prior[s][1]
    /\ mailed[s][1] \subseteq graph[s][1] \ prior[s][1]
    /\ mailed[s][1] # {} => pc[s][1] = "done"

NewsInv ==
    /\ IInv /\ OneDelivery
    /\ \A s \in ScanIds : FreshJob(s) /\ RowMatches(s)

(* The newest of some scans. *)
LEMMA NewestExists ==
  ASSUME NEW S, S \subseteq ScanIds, S # {}
  PROVE  \E u \in S : \A v \in S : v <= u
<1> DEFINE R == {ss \in Nat \X Nat : ss[1] < ss[2]}
           T == {MaxScans - u : u \in S}
<1>1. IsWellFoundedOn(R, Nat)
  <2>1. R = OpToRel(<, Nat)
    BY DEF OpToRel
  <2> QED
    BY <2>1, NatLessThanWellFounded
<1>2. T \subseteq Nat /\ T # {}
  <2>1. \A u \in S : MaxScans - u \in Nat
    BY DEF ScanIds
  <2> QED
    BY <2>1
<1>3. PICK m \in T : \A k \in T : ~(<<k, m>> \in R)
  <2> HIDE DEF R, T
  <2> QED
    BY <1>1, <1>2, WFMin
<1>4. PICK u \in S : m = MaxScans - u
  BY <1>3
<1>5. ASSUME NEW v \in S PROVE v <= u
  <2>1. /\ v \in Nat /\ u \in Nat /\ v <= MaxScans /\ u <= MaxScans
        /\ MaxScans - v \in T
    BY DEF ScanIds
  <2>2. ~(<<MaxScans - v, m>> \in R)
    BY <1>3, <2>1
  <2>3. /\ <<MaxScans - v, m>> \in Nat \X Nat
        /\ <<MaxScans - v, m>>[1] = MaxScans - v /\ <<MaxScans - v, m>>[2] = m
    BY <1>2, <1>3, <2>1
  <2>4. ~(MaxScans - v < m)
    BY <2>2, <2>3
  <2> QED
    BY <1>4, <2>1, <2>4
<1> QED
  BY <1>5

(* A success is final: only a live handler writes a row, and it has none.  *)
LEMMA SuccessFinal ==
  ASSUME NewsInv, NEW s \in ScanIds, status[s] = "succeeded"
  PROVE  pc[s][1] \notin Live /\ pc[s][1] \notin AtWork
<1>1. attempts[s] + stalls[s] = 0
  BY DEF NewsInv, OneDelivery
<1> QED
  BY <1>1, RunsFact DEF NewsInv, IInv, FirstOutcome, IsLive, Live, Terminal

(* A step that writes no success and leaves the successes alone, and the   *)
(* locals of all handlers but that of s, has only the row of s to account  *)
(* for.                                                                    *)
LEMMA QuietStep ==
  ASSUME NewsInv,
         \A t \in ScanIds : status'[t] = "succeeded" <=> status[t] = "succeeded",
         \A t \in ScanIds : status[t] = "succeeded" => result'[t] = result[t],
         NEW s \in ScanIds,
         \A t \in ScanIds \ {s} : /\ pc'[t][1] = pc[t][1] /\ graph'[t][1] = graph[t][1]
                                  /\ prior'[t][1] = prior[t][1] /\ seen'[t][1] = seen[t][1]
                                  /\ mailed'[t][1] = mailed[t][1],
         RowMatches(s)'
  PROVE  \A t \in ScanIds : RowMatches(t)'
<1> SUFFICES ASSUME NEW t \in ScanIds \ {s} PROVE RowMatches(t)'
  OBVIOUS
<1>1. RowMatches(t) /\ seen[t][1] \subseteq ScanIds
  BY RunsFact DEF NewsInv, IInv, TypeInv, TypeOK, PerRun
<1> QED
  BY <1>1 DEF RowMatches

LEMMA NewsHandle ==
  ASSUME NewsInv, TypeInv', NEW s \in ScanIds, Handle(s, 1) \/ Hang(s, 1)
  PROVE  \A t \in ScanIds : RowMatches(t)'
<1>1. /\ TypeOK /\ RowMatches(s)
      /\ status[s] = "succeeded" => pc[s][1] \notin AtWork
      /\ \A t \in ScanIds : seen[t][1] \subseteq ScanIds
  <2>1. TypeOK /\ RowMatches(s) /\ \A t \in ScanIds : seen[t][1] \subseteq ScanIds
    BY RunsFact DEF NewsInv, IInv, TypeInv, TypeOK, PerRun
  <2> QED
    BY <2>1, SuccessFinal
<1>2. ASSUME NEW to, pc' = [pc EXCEPT ![s][1] = to]
      PROVE  pc'[s][1] = to /\ \A t \in ScanIds \ {s} : pc'[t][1] = pc[t][1]
  BY <1>1, <1>2, RunsFact DEF TypeOK, PerRun
<1>3. ASSUME pc[s][1] \in AtWork PROVE status[s] # "succeeded" /\ mailed[s][1] = {}
  BY <1>1, <1>3 DEF RowMatches
(* Steps that write no success and change no local. *)
<1>4. ASSUME UNCHANGED <<graph, prior, seen, mailed, result>>,
             pc[s][1] \in AtWork, NEW to, pc' = [pc EXCEPT ![s][1] = to],
             \A t \in ScanIds : status'[t] = "succeeded" <=> status[t] = "succeeded"
      PROVE  \A t \in ScanIds : RowMatches(t)'
  <2>1. RowMatches(s)'
    BY <1>1, <1>3, <1>4 DEF RowMatches
  <2> QED
    BY <1>2, <1>4, <2>1, QuietStep
<1>5. CASE MarkRunning(s, 1)
  <2>1. /\ status' = [status EXCEPT ![s] = "running"] \/ status' = status
        /\ pc[s][1] = "start" /\ pc' = [pc EXCEPT ![s][1] = "collect"]
        /\ UNCHANGED <<graph, prior, seen, mailed, result>>
    BY <1>5 DEF MarkRunning, Goto, WriteStatus, Swallowed, localVars, observed
  <2>2. pc[s][1] \in AtWork
    BY <2>1 DEF Live
  <2>3. \A t \in ScanIds : status'[t] = "succeeded" <=> status[t] = "succeeded"
    BY <1>1, <1>3, <2>1, <2>2 DEF TypeOK
  <2> QED
    BY <1>4, <2>1, <2>2, <2>3
<1>6. CASE Throw(s, 1) \/ Hang(s, 1)
  <2>1. /\ UNCHANGED <<status, graph, prior, seen, mailed, result>>
        /\ pc[s][1] \in AtWork /\ \E to : pc' = [pc EXCEPT ![s][1] = to]
    BY <1>6 DEF Throw, Hang, Goto, rowVars, localVars, observed
  <2> QED
    BY <1>4, <2>1
<1>7. CASE WriteFailure(s, 1)
  <2>1. /\ status' = [status EXCEPT ![s] = "failed"] \/ status' = status
        /\ pc[s][1] = "catch" /\ pc' = [pc EXCEPT ![s][1] = "done"]
        /\ UNCHANGED <<graph, prior, seen, mailed, result>>
    BY <1>7 DEF WriteFailure, Goto, WriteStatus, Swallowed, localVars
  <2>2. pc[s][1] \in AtWork
    BY <2>1 DEF Live
  <2>3. \A t \in ScanIds : status'[t] = "succeeded" <=> status[t] = "succeeded"
    BY <1>1, <1>3, <2>1, <2>2 DEF TypeOK
  <2> QED
    BY <1>4, <2>1, <2>2, <2>3
<1>8. CASE CollectGraph(s, 1)
  <2>1. /\ pc' = [pc EXCEPT ![s][1] = "prior"] /\ pc[s][1] = "collect"
        /\ \E g : graph' = [graph EXCEPT ![s][1] = g]
        /\ UNCHANGED <<status, result, prior, seen, mailed>>
    BY <1>8 DEF CollectGraph, Goto, rowVars, observed
  <2>2. \A t \in ScanIds \ {s} : graph'[t][1] = graph[t][1]
    BY <1>1, <2>1 DEF TypeOK, PerRun
  <2>3. status[s] # "succeeded" /\ mailed[s][1] = {}
    BY <1>3, <2>1 DEF Live
  <2>4. RowMatches(s)'
    BY <1>1, <2>1, <2>3 DEF RowMatches
  <2> QED
    BY <1>2, <2>1, <2>2, <2>4, QuietStep
<1>9. CASE ReadPrior(s, 1)
  <2>1. /\ pc' = [pc EXCEPT ![s][1] = "write"] /\ pc[s][1] = "prior"
        /\ prior' = [prior EXCEPT ![s][1] = PriorFindings(s)]
        /\ seen' = [seen EXCEPT ![s][1] = SucceededOthers(s)]
        /\ UNCHANGED <<status, result, graph, mailed>>
    BY <1>9 DEF ReadPrior, Goto, rowVars, observed
  <2>2. /\ \A t \in ScanIds \ {s} : prior'[t][1] = prior[t][1] /\ seen'[t][1] = seen[t][1]
        /\ prior'[s][1] = PriorFindings(s) /\ seen'[s][1] = SucceededOthers(s)
    BY <1>1, <2>1, RunsFact DEF TypeOK, PerRun
  <2>3. status[s] # "succeeded" /\ mailed[s][1] = {}
    BY <1>3, <2>1 DEF Live
  <2>4. \A t \in SucceededOthers(s) :
           \E u \in SucceededOthers(s) : u >= t /\ result[u] \subseteq PriorFindings(s)
    <3> SUFFICES ASSUME NEW t \in SucceededOthers(s)
                 PROVE  \E u \in SucceededOthers(s) : u >= t /\ result[u] \subseteq PriorFindings(s)
      OBVIOUS
    <3>1. PICK u \in SucceededOthers(s) : \A v \in SucceededOthers(s) : v <= u
      BY NewestExists DEF SucceededOthers
    <3>2. result[u] \subseteq PriorFindings(s)
      BY <3>1 DEF PriorFindings
    <3>3. u \in Nat /\ t \in Nat
      BY DEF SucceededOthers, ScanIds
    <3> QED
      BY <3>1, <3>2, <3>3
  <2>5. \A t \in SucceededOthers(s) : status[t] = "succeeded"
    BY DEF SucceededOthers
  <2>6. RowMatches(s)'
    BY <2>1, <2>2, <2>3, <2>4, <2>5 DEF RowMatches
  <2> QED
    BY <1>2, <2>1, <2>2, <2>6, QuietStep
<1>10. CASE SendAlert(s, 1)
  <2>1. /\ pc' = [pc EXCEPT ![s][1] = "done"] /\ pc[s][1] = "alert"
        /\ \E m : m \subseteq graph[s][1] \ prior[s][1] /\ mailed' = [mailed EXCEPT ![s][1] = m]
        /\ UNCHANGED <<status, result, graph, prior, seen>>
    BY <1>10 DEF SendAlert, Goto, rowVars, localVars
  <2>2. /\ \A t \in ScanIds \ {s} : mailed'[t][1] = mailed[t][1]
        /\ mailed'[s][1] \subseteq graph[s][1] \ prior[s][1]
    BY <1>1, <2>1, RunsFact DEF TypeOK, PerRun
  <2>3. RowMatches(s)'
    BY <1>1, <1>2, <2>1, <2>2 DEF RowMatches
  <2> QED
    BY <1>2, <2>1, <2>2, <2>3, QuietStep
<1>11. CASE WriteSuccess(s, 1)
  <2>1. /\ pc[s][1] = "write" /\ pc' = [pc EXCEPT ![s][1] = "alert"]
        /\ UNCHANGED <<graph, prior, seen, mailed>>
        /\ \/ status' = [status EXCEPT ![s] = "succeeded"]
              /\ result' = [result EXCEPT ![s] = graph[s][1]]
           \/ UNCHANGED <<status, result>>
    BY <1>11 DEF WriteSuccess, WriteStatus, Swallowed, Goto, localVars
  <2>2. pc[s][1] \in AtWork /\ status[s] # "succeeded" /\ mailed[s][1] = {}
    BY <1>3, <2>1 DEF Live
  <2>3. CASE UNCHANGED <<status, result>>
    BY <1>4, <2>1, <2>2, <2>3
  <2>4. CASE status' = [status EXCEPT ![s] = "succeeded"]
             /\ result' = [result EXCEPT ![s] = graph[s][1]]
    <3>1. /\ result'[s] = graph[s][1] /\ status'[s] = "succeeded"
          /\ \A t \in ScanIds \ {s} : status'[t] = status[t] /\ result'[t] = result[t]
          /\ \A t \in ScanIds \ {s} : pc'[t][1] = pc[t][1]
      BY <1>1, <1>2, <2>1, <2>4 DEF TypeOK
    <3>2. SUFFICES ASSUME NEW t \in ScanIds PROVE RowMatches(t)'
      OBVIOUS
    <3>3. RowMatches(t) /\ seen[t][1] \subseteq ScanIds
      BY <1>1 DEF NewsInv
    <3>4. s \notin seen[t][1]
      BY <2>2, <3>3 DEF RowMatches
    <3>5. \A u \in seen[t][1] : status'[u] = status[u] /\ result'[u] = result[u]
      BY <3>1, <3>3, <3>4
    <3>6. t = s => mailed[t][1] = {}
      BY <2>2
    <3> QED
      BY <2>1, <3>1, <3>3, <3>5, <3>6 DEF RowMatches
  <2> QED
    BY <2>1, <2>3, <2>4
<1> QED
  BY <1>5, <1>6, <1>7, <1>8, <1>9, <1>10, <1>11 DEF Handle

LEMMA NewsStep ==
  ASSUME Undisturbed, NewsInv, IInv', OneDelivery', Next
  PROVE  \A s \in ScanIds : FreshJob(s)' /\ RowMatches(s)'
<1>1. /\ TypeInv /\ TypeOK /\ OneDelivery /\ TypeInv'
      /\ \A t \in ScanIds : FreshJob(t) /\ RowMatches(t)
  BY DEF NewsInv, IInv, TypeInv
<1>2. ASSUME NEW s \in ScanIds, UNCHANGED <<status, result, graph, prior, seen, mailed>>,
             \/ pc' = pc
             \/ pc[s][1] = "idle" /\ pc' = [pc EXCEPT ![s][1] = "start"]
      PROVE  \A t \in ScanIds : RowMatches(t)'
  <2>1. \A t \in ScanIds \ {s} : pc'[t][1] = pc[t][1]
    BY <1>1, <1>2 DEF TypeOK, PerRun
  <2>2. pc'[s][1] = pc[s][1] \/ pc[s][1] = "idle"
    BY <1>2
  <2>3. RowMatches(s)'
    BY <1>1, <1>2, <2>2 DEF RowMatches
  <2> QED
    BY <1>2, <2>1, <2>3, QuietStep
<1>3. ASSUME NEW s \in ScanIds, NEW k \in Runs, Handle(s, k) \/ Hang(s, k)
      PROVE  \A t \in ScanIds : FreshJob(t)' /\ RowMatches(t)'
  <2>1. k = 1
    BY <1>1, <1>3 DEF OneDelivery, Handle, MarkRunning, CollectGraph, ReadPrior, WriteSuccess,
                      Throw, WriteFailure, SendAlert, Hang, Goto
  <2>2. UNCHANGED jobVars /\ (\E to \in PC : pc' = [pc EXCEPT ![s][k] = to]) /\ pc[s][k] # "idle"
    <3>1. UNCHANGED jobVars /\ \E to \in PC : pc' = [pc EXCEPT ![s][k] = to]
      BY <1>1, <1>3, HandleEffect
    <3>2. pc[s][k] # "idle"
      BY <1>3 DEF Handle, MarkRunning, CollectGraph, ReadPrior, WriteSuccess,
                  Throw, WriteFailure, SendAlert, Hang, Goto
    <3> QED
      BY <3>1, <3>2
  <2>3. \A t \in ScanIds : FreshJob(t)'
    <3>1. \A t \in ScanIds \ {s} : pc'[t][1] = pc[t][1]
      BY <1>1, <2>2 DEF TypeOK, PerRun
    <3>2. jobState' = jobState /\ jobState[s] \notin {"none", "waiting"}
      BY <1>1, <2>1, <2>2 DEF FreshJob, jobVars
    <3> QED
      BY <1>1, <3>1, <3>2 DEF FreshJob
  <2> QED
    BY <1>1, <1>3, <2>1, <2>3, NewsHandle
<1>4. ASSUME NEW s \in ScanIds, Queue(s)
      PROVE  \A t \in ScanIds : FreshJob(t)' /\ RowMatches(t)'
  <2>1. /\ UNCHANGED <<status, result, graph, prior, seen, mailed>>
        /\ \A t \in ScanIds \ {s} : jobState'[t] = jobState[t]
    BY <1>1, <1>4 DEF Queue, Enqueue, Deliver, CompleteJob, Invoke, TypeOK, rowVars, localVars, observed
  <2>2. \/ pc' = pc /\ (jobState[s] = "none" \/ jobState'[s] = "completed")
        \/ /\ pc[s][1] = "idle" /\ pc' = [pc EXCEPT ![s][1] = "start"]
           /\ jobState'[s] = "active"
    <3>1. CASE Enqueue(s)
      <4>1. jobState[s] = "none"
        BY <1>1, <3>1 DEF Enqueue, TypeInv, JobInv
      <4> QED
        BY <1>1, <3>1, <4>1 DEF Enqueue, Invoke, FreshJob, TypeOK
    <3>2. ASSUME NEW q \in Procs, Deliver(s, q)
          PROVE  /\ pc[s][1] = "idle" /\ pc' = [pc EXCEPT ![s][1] = "start"]
                 /\ jobState'[s] = "active"
      <4>1. attempts[s] + stalls[s] + 1 = 1
        BY <1>1 DEF OneDelivery
      <4> QED
        BY <1>1, <3>2, <4>1 DEF Deliver, Invoke, FreshJob, TypeOK
    <3>3. CASE CompleteJob(s)
      BY <1>1, <3>3 DEF CompleteJob, TypeOK
    <3> QED
      BY <1>4, <3>1, <3>2, <3>3 DEF Queue
  <2>3. \A t \in ScanIds : FreshJob(t)'
    <3>1. \A t \in ScanIds \ {s} : pc'[t][1] = pc[t][1]
      BY <1>1, <2>2 DEF TypeOK, PerRun
    <3>2. FreshJob(s)'
      BY <1>1, <2>2 DEF FreshJob
    <3> QED
      BY <1>1, <2>1, <3>1, <3>2 DEF FreshJob
  <2> QED
    BY <1>2, <2>1, <2>2, <2>3
<1>5. ASSUME NEW q \in Procs, NEW p \in Projects, CreateQueued(q, p)
      PROVE  \A t \in ScanIds : FreshJob(t)' /\ RowMatches(t)'
  <2>1. PICK s \in ScanIds : /\ status[s] = "absent"
                             /\ status' = [status EXCEPT ![s] = "queued"]
                             /\ UNCHANGED <<jobState, result, pc, graph, prior, seen, mailed>>
    BY <1>5 DEF CreateQueued, Created, jobVars, localVars, observed
  <2>2. \A t \in ScanIds : status'[t] = "succeeded" <=> status[t] = "succeeded"
    BY <1>1, <2>1 DEF TypeOK
  <2>3. RowMatches(s)'
    BY <1>1, <2>1, <2>2 DEF RowMatches, TypeInv, TypeOK, PerRun
  <2>4. \A t \in ScanIds : FreshJob(t)'
    BY <1>1, <2>1 DEF FreshJob
  <2> QED
    BY <2>1, <2>2, <2>3, <2>4, QuietStep
<1>6. ASSUME NEW s \in ScanIds, TimeoutJob(s) \/ Stall(s) PROVE FALSE
  BY <1>6 DEF TimeoutJob, Stall, Undisturbed
<1>7. ASSUME NEW q \in Procs, Crash(q) PROVE FALSE
  BY <1>1, <1>7 DEF Crash, Undisturbed, TypeOK
<1> QED
  BY <1>3, <1>4, <1>5, <1>6, <1>7 DEF Next, Produce, StartScan, MonitorScan, Fault

LEMMA NewsInvInit == Init => NewsInv
<1> SUFFICES ASSUME Init PROVE NewsInv
  OBVIOUS
<1>1. IInv /\ OneDelivery
  BY IInvInit, OneDeliveryInit
<1>2. /\ \A s \in ScanIds : status[s] = "absent" /\ jobState[s] = "none"
      /\ \A s \in ScanIds, k \in Runs : pc[s][k] = "idle" /\ mailed[s][k] = {} /\ seen[s][k] = {}
  BY DEF Init, EachRun
<1> QED
  BY <1>1, <1>2, RunsFact DEF NewsInv, FreshJob, RowMatches

LEMMA NewsInvStep == Undisturbed /\ NewsInv /\ [Next]_vars => NewsInv'
<1> SUFFICES ASSUME Undisturbed, NewsInv, [Next]_vars PROVE NewsInv'
  OBVIOUS
<1>1. IInv' /\ OneDelivery'
  BY IInvStep, OneDeliveryStep DEF NewsInv, IInv
<1>2. CASE Next
  BY <1>1, <1>2, NewsStep DEF NewsInv
<1>3. CASE UNCHANGED vars
  <2>1. UNCHANGED <<status, result, jobState, pc, graph, prior, seen, mailed>>
    BY <1>3 DEF vars, rowVars, jobVars, localVars, observed
  <2> QED
    BY <1>1, <2>1 DEF NewsInv, FreshJob, RowMatches
<1> QED
  BY <1>2, <1>3

(* scan.processor.ts:149-150, "alert only on what's newly introduced": for *)
(* any number of workers and any concurrency, the mails of two scans that  *)
(* each ran once repeat a finding only if neither could be seen by the     *)
(* other's, or a newer success lacked it.                                  *)
THEOREM NewsIsNewOrOverlaps == Undisturbed => (Spec => []NewsAgainOnlyByOverlap)
<1> SUFFICES ASSUME Undisturbed PROVE Spec => []NewsAgainOnlyByOverlap
  OBVIOUS
<1>1. NewsInv => NewsAgainOnlyByOverlap
  <2> SUFFICES ASSUME NewsInv, NEW s \in ScanIds, NEW t \in ScanIds, NEW j \in Runs, NEW k \in Runs,
                      NEW f \in mailed[s][j] \cap mailed[t][k], t \in seen[s][j]
               PROVE  \E u \in seen[s][j] : u > t /\ f \notin result[u]
    BY DEF NewsAgainOnlyByOverlap
  <2>1. j = 1 /\ k = 1
    BY DEF NewsInv, OneDelivery
  <2>2. RowMatches(s) /\ RowMatches(t) /\ seen[s][1] \subseteq Nat
    BY RunsFact DEF NewsInv, IInv, TypeInv, TypeOK, PerRun, ScanIds
  <2>3. f \in result[t] /\ f \notin prior[s][1]
    BY <2>1, <2>2 DEF RowMatches
  <2>4. PICK u \in seen[s][1] : u >= t /\ result[u] \subseteq prior[s][1]
    BY <2>1, <2>2 DEF RowMatches
  <2>5. u \in Nat /\ t \in Nat /\ u # t /\ f \notin result[u]
    BY <2>1, <2>2, <2>3, <2>4
  <2> QED
    BY <2>1, <2>4, <2>5
<1>2. NewsInv /\ [Next]_vars => NewsInv'
  BY NewsInvStep
<1>3. Init => NewsInv
  BY NewsInvInit
<1> QED
  BY <1>1, <1>2, <1>3, PTL DEF Spec
=============================================================================
