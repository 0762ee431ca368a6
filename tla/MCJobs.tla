------------------------------- MODULE MCJobs -------------------------------
(* Instances of Jobs for TLC: one or two executions, two workers. *)
EXTENDS Jobs, TLC

CONSTANTS e1, e2, j1, j2, j3, j4, w1, w2

Symmetry == Permutations({w1, w2}) \cup Permutations({j1, j2, j3, j4})
=============================================================================
