------------------------------ MODULE MCWorker ------------------------------
(* Symmetry for TLC. *)
EXTENDS Worker, TLC

CONSTANTS e1, e2, j1, j2, j3, p1, p2, w1, v1, v2

Symmetry == Permutations({j1, j2}) \cup Permutations({p1, p2}) \cup Permutations({v1, v2})
=============================================================================
