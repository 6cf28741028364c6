----------------------------- MODULE MCWorkbench -----------------------------
(* Model-checking instances of Workbench: a committed secret and an issue  *)
(* only the AI finds, in one file of the first repository.                 *)
EXTENDS Workbench, TLC

CONSTANTS m1, m2, f1, r1, r2, i1, i2

MCOneFile == f1 :> r1
MCAt == i1 :> f1 @@ i2 :> f1

Symmetry == Permutations({m1, m2})

(* Bound: the code view, the deep scans and the validation runs share the  *)
(* files alone, so they are explored apart.                                *)
Viewing == \E m \in Members : sel[m] # Nothing
Scanning == \E m \in Members : deep[m] # Nothing
Validating == run # Nothing \/ stored # {} \/ triaged # {} \/ branches # {}
Apart ==
    /\ Viewing => rows = << >> /\ ~Validating
    /\ Validating => ~Scanning /\ Len(rows) <= 1
    /\ branches # {} => rows = << >>
    /\ Cardinality(triaged) <= 1
=============================================================================
