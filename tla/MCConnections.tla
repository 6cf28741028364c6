---------------------------- MODULE MCConnections ----------------------------
(* Model-checking instances of Connections. *)
EXTENDS Connections, TLC

MCAnswers == {{}, Repos}

(* Bound: one authorization at a time, with one request beside it and two  *)
(* projects; a third project comes from the sign-ins alone.                *)
OneEnvelope ==
    /\ Cardinality(envelopes) <= 1
    /\ envelopes # {} => /\ Cardinality({r \in Requests : req[r].at # "idle"}) <= 1
                         /\ Cardinality(projects) <= 2

Symmetry == Permutations(Projects) \cup Permutations(Requests) \cup Permutations(Repos)
=============================================================================
