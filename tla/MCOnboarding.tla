---------------------------- MODULE MCOnboarding ----------------------------
(* Model-checking instances of Onboarding. *)
EXTENDS Onboarding, TLC

CONSTANTS u1, u2, p1, p2

(* The first account may get two projects, the second has none. *)
MCOwner == p1 :> u1 @@ p2 :> u1
=============================================================================
