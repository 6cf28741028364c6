---------------------------- MODULE ScanLifecycle ----------------------------
(***************************************************************************)
(* What a scan promises the customer who polls GET /scans/:id              *)
(* (docs/JOBS.md, the diagram, and the comment on ScanProcessor): a scan   *)
(* goes queued -> running -> succeeded or failed, once, and a finished     *)
(* scan stays finished.  ScanPipeline is the program that has to keep it.  *)
(***************************************************************************)
CONSTANT Scans

VARIABLE status

Terminal == {"succeeded", "failed"}
Status == {"absent", "queued", "running"} \cup Terminal

Init == status = [s \in Scans |-> "absent"]

Move(s, from, to) ==
    /\ status[s] = from
    /\ status' = [status EXCEPT ![s] = to]

Create(s) == Move(s, "absent", "queued")
Begin(s) == Move(s, "queued", "running")
Finish(s) == \E outcome \in Terminal : Move(s, "running", outcome)

Next == \E s \in Scans : Create(s) \/ Begin(s) \/ Finish(s)

Spec == Init /\ [][Next]_status
=============================================================================
