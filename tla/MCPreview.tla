------------------------------ MODULE MCPreview ------------------------------
(* A model-checking instance of Preview.  The windows keep their order: a  *)
(* minute, ten minutes, an hour.                                           *)
EXTENDS Preview, TLC

Symmetry == Permutations(Clients) \cup Permutations(Repos)
=============================================================================
