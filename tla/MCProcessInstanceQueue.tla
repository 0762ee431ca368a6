----------------------- MODULE MCProcessInstanceQueue -----------------------
(* An instance of ProcessInstanceQueue for TLC: p1 is created by a client, c1 *)
(* and c2 by call activities and x by one whose called process has no none    *)
(* start event.                                                               *)
EXTENDS ProcessInstanceQueue, TLC

CONSTANTS p1, c1, c2, x

AllInstances == {p1, c1, c2, x}
AllChildren == {c1, c2, x}
=============================================================================
