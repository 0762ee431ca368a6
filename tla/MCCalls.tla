------------------------------- MODULE MCCalls -------------------------------
(* Three process instances for TLC.                                          *)
EXTENDS Calls

CONSTANTS e1, n1, t1, e2, n2, s2, m2, leafU, leafA, leafB, codeX, codeY

(* Call activity 1 catches any error, is escalated without an interruption   *)
(* by the code x, and is interrupted by a timer.  Call activity 2 catches    *)
(* the error x, is escalated without an interruption by any code, is         *)
(* interrupted by an escalation with the code x, and has a timer that a      *)
(* worker sets and that repeats.                                             *)
MCBoundary ==
  LET B(level, type, interrupting, defined, code) ==
        [level |-> level, type |-> type, interrupting |-> interrupting,
         defined |-> defined, code |-> code]
  IN [e \in {e1, n1, t1, e2, n2, s2, m2} |->
        CASE e = e1 -> B(1, "error", TRUE, TRUE, AnyCode)
          [] e = n1 -> B(1, "escalation", FALSE, TRUE, codeX)
          [] e = t1 -> B(1, "event", TRUE, TRUE, AnyCode)
          [] e = e2 -> B(2, "error", TRUE, TRUE, codeX)
          [] e = n2 -> B(2, "escalation", FALSE, TRUE, AnyCode)
          [] e = s2 -> B(2, "escalation", TRUE, TRUE, codeX)
          [] e = m2 -> B(2, "event", FALSE, FALSE, AnyCode)]

MCLevelOf == [l \in {leafU, leafA, leafB} |-> IF l = leafU THEN 2 ELSE 3]

(* A user task in instance 2, and two elements in instance 3.                *)
MCModels ==
  {m \in [{leafU, leafA, leafB} -> Kinds] :
     /\ m[leafU] = "userTask"
     /\ <<m[leafA], m[leafB]>> \in {<<"errorEnd", "task">>, <<"escalationEnd", "escalationThrow">>}}
=============================================================================
