------------------------------ MODULE MCMessages ------------------------------
(* Instances of Messages for TLC: a catch event and a repeating boundary event. *)
EXTENDS Messages

CONSTANTS m1, m2, k1, c1, b1
=============================================================================
