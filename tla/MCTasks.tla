------------------------------- MODULE MCTasks -------------------------------
(* Instances of Tasks for TLC: two engines, two or three rows. *)
EXTENDS Tasks

CONSTANTS t1, t2, t3, a, b
=============================================================================
