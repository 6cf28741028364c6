------------------------------- MODULE MCBilling -------------------------------
(* Model-checking instances of Billing. *)
EXTENDS Billing, TLC

Symmetry == Permutations(Procs) \cup Permutations(Calls)
=============================================================================
