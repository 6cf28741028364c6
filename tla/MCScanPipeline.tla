---------------------------- MODULE MCScanPipeline ----------------------------
(* Model-checking instances of ScanPipeline: the cfg files give every      *)
(* constant a value.  Processes are model values; the runs with liveness   *)
(* properties rule symmetry out, and the others do not need it.            *)
EXTENDS ScanPipeline
=============================================================================
