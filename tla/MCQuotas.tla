------------------------------- MODULE MCQuotas -------------------------------
(* Model-checking instances of Quotas. *)
EXTENDS Quotas, TLC

Symmetry == Permutations(Requests)

(* Bound: no more projects, usage rows in flight or fixes counted than the *)
(* invariants can tell apart.                                              *)
Bounded == recording <= MaxFixes /\ fixes <= MaxFixes
=============================================================================
