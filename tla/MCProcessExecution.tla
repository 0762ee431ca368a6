------------------------- MODULE MCProcessExecution -------------------------
(* Processes for TLC. *)
EXTENDS ProcessExecution

N(type, scope, outgoing) ==
  [type |-> type, scope |-> scope, outgoing |-> outgoing, boundary |-> <<>>,
   defined |-> TRUE, interrupting |-> TRUE,
   default |-> 0, multiple |-> FALSE, loop |-> 0, sequential |-> FALSE]

Undef(n) == [n EXCEPT !.defined = FALSE]
NonInterrupting(n) == [n EXCEPT !.interrupting = FALSE]
With(n, boundary) == [n EXCEPT !.boundary = boundary]
Multi(n, loop) == [n EXCEPT !.multiple = TRUE, !.loop = loop]
Sequential(n, loop) == [Multi(n, loop) EXCEPT !.sequential = TRUE]

(* A task next to a sub-process, either of which may be interrupted. *)
ForkJoin ==
  [P1 |-> N("process", Null, <<>>),
   start1 |-> N("startEvent", "P1", <<"fork1">>),
   fork1 |-> N("parallel", "P1", <<"A1", "S1">>),
   A1 |-> With(N("task", "P1", <<"m11">>), <<"Aerror1", "Atimer1">>),
   Aerror1 |-> Undef(N("errorBoundary", "P1", <<"m11">>)),
   Atimer1 |-> N("timerBoundary", "P1", <<"m11">>),
   m11 |-> N("exclusive", "P1", <<"join1">>),
   S1 |-> With(N("subProcess", "P1", <<"m21">>), <<"Stimer1">>),
   Stimer1 |-> N("timerBoundary", "P1", <<"m21">>),
   s1 |-> N("startEvent", "S1", <<"T1">>),
   T1 |-> N("task", "S1", <<"e1">>),
   e1 |-> N("event", "S1", <<>>),
   m21 |-> N("exclusive", "P1", <<"join1">>),
   join1 |-> N("parallel", "P1", <<"end1">>),
   end1 |-> N("event", "P1", <<>>)]

(* Sub-processes within each other, in a loop: an error that ends the inner  *)
(* one is caught there or around the outer one, which a timer cycle and an   *)
(* interrupting timer watch.                                                 *)
Nested ==
  [P2 |-> N("process", Null, <<>>),
   start2 |-> N("startEvent", "P2", <<"O2">>),
   O2 |-> With(N("subProcess", "P2", <<"x2">>), <<"Oerror2", "Ocycle2", "Otimer2">>),
   Oerror2 |-> N("errorBoundary", "P2", <<"oc2">>),
   Ocycle2 |-> Undef(NonInterrupting(N("timerBoundary", "P2", <<"tick2">>))),
   Otimer2 |-> N("timerBoundary", "P2", <<"end2">>),
   os2 |-> N("startEvent", "O2", <<"I2">>),
   I2 |-> With(N("subProcess", "O2", <<"oe2">>), <<"Ierror2">>),
   Ierror2 |-> Undef(N("errorBoundary", "O2", <<"oe2">>)),
   is2 |-> N("startEvent", "I2", <<"fork2">>),
   fork2 |-> N("parallel", "I2", <<"ee2", "xi2">>),
   ee2 |-> Undef(N("errorEnd", "I2", <<>>)),
   xi2 |-> N("exclusive", "I2", <<"ie2", "ed2">>),
   ie2 |-> N("event", "I2", <<>>),
   ed2 |-> N("errorEnd", "I2", <<>>),
   oe2 |-> N("event", "O2", <<>>),
   oc2 |-> N("task", "P2", <<"end2">>),
   tick2 |-> N("event", "P2", <<>>),
   x2 |-> N("exclusive", "P2", <<"O2", "end2">>),
   end2 |-> N("event", "P2", <<>>)]

(* Two executions arrive by each of the two flows into a join. *)
TwoJoins ==
  [P3 |-> N("process", Null, <<>>),
   start3 |-> N("startEvent", "P3", <<"fork3">>),
   fork3 |-> N("parallel", "P3", <<"A13", "A23", "B13", "B23">>),
   A13 |-> N("task", "P3", <<"a3">>), A23 |-> N("task", "P3", <<"a3">>),
   B13 |-> N("task", "P3", <<"b3">>), B23 |-> N("task", "P3", <<"b3">>),
   a3 |-> N("exclusive", "P3", <<"join3">>),
   b3 |-> N("exclusive", "P3", <<"join3">>),
   join3 |-> N("parallel", "P3", <<"end3">>),
   end3 |-> N("event", "P3", <<>>)]

(* A sub-process with a task, and an error boundary event around it. *)
TaskInSubProcess ==
  [P4 |-> N("process", Null, <<>>),
   start4 |-> N("startEvent", "P4", <<"S4">>),
   S4 |-> With(N("subProcess", "P4", <<"end4">>), <<"Serror4">>),
   Serror4 |-> N("errorBoundary", "P4", <<"end4">>),
   s4 |-> N("startEvent", "S4", <<"T4">>),
   T4 |-> N("task", "S4", <<"e4">>),
   e4 |-> N("event", "S4", <<>>),
   end4 |-> N("event", "P4", <<>>)]

(* A sub-process that ends with an error nobody catches. *)
ErrorInSubProcess ==
  [P5 |-> N("process", Null, <<>>),
   start5 |-> N("startEvent", "P5", <<"S5">>),
   S5 |-> N("subProcess", "P5", <<"end5">>),
   s5 |-> N("startEvent", "S5", <<"ee5">>),
   ee5 |-> N("errorEnd", "S5", <<>>),
   end5 |-> N("event", "P5", <<>>)]

(* A boundary event no sequence flow starts at. *)
ImplicitEnd ==
  [P6 |-> N("process", Null, <<>>),
   start6 |-> N("startEvent", "P6", <<"T6">>),
   T6 |-> With(N("task", "P6", <<"end6">>), <<"Ttimer6">>),
   Ttimer6 |-> N("timerBoundary", "P6", <<>>),
   end6 |-> N("event", "P6", <<>>)]

(* An exclusive gateway that decides to join, or to try again. *)
DecidedJoin ==
  [P7 |-> N("process", Null, <<>>),
   start7 |-> N("startEvent", "P7", <<"fork7">>),
   fork7 |-> N("parallel", "P7", <<"A7", "B7">>),
   A7 |-> N("task", "P7", <<"join7">>),
   B7 |-> N("task", "P7", <<"x7">>),
   x7 |-> N("exclusive", "P7", <<"join7", "B7">>),
   join7 |-> N("parallel", "P7", <<"end7">>),
   end7 |-> N("event", "P7", <<>>)]

(* A sub-process without a wait state, which a timer watches. *)
PassedSubProcess ==
  [P8 |-> N("process", Null, <<>>),
   start8 |-> N("startEvent", "P8", <<"S8">>),
   S8 |-> With(N("subProcess", "P8", <<"end8">>), <<"Stimer8">>),
   Stimer8 |-> N("timerBoundary", "P8", <<"end8">>),
   s8 |-> N("startEvent", "S8", <<"e8">>),
   e8 |-> N("event", "S8", <<>>),
   end8 |-> N("event", "P8", <<>>)]

(* A task in a sub-process with an error boundary event, next to a task that *)
(* a timer interrupts for good: transactions that fail are rolled back.      *)
Failing ==
  [P9 |-> N("process", Null, <<>>),
   start9 |-> N("startEvent", "P9", <<"fork9">>),
   fork9 |-> N("parallel", "P9", <<"S9", "U9">>),
   S9 |-> With(N("subProcess", "P9", <<>>), <<"Serror9">>),
   Serror9 |-> N("errorBoundary", "P9", <<"end9">>),
   s9 |-> N("startEvent", "S9", <<"T9">>),
   T9 |-> N("task", "S9", <<"e9">>),
   e9 |-> N("event", "S9", <<>>),
   U9 |-> With(N("task", "P9", <<>>), <<"Utimer9">>),
   Utimer9 |-> N("timerBoundary", "P9", <<>>),
   end9 |-> N("event", "P9", <<>>)]

(* A parallel multi-instance whose cardinality a worker chooses, watched by a *)
(* timer, and a sub-process that is run several times, in sequence.           *)
Multiple ==
  [P10 |-> N("process", Null, <<>>),
   start10 |-> N("startEvent", "P10", <<"i10">>),
   i10 |-> [N("inclusive", "P10", <<"M10", "S10">>) EXCEPT !.default = 2],
   M10 |-> With(Multi(N("task", "P10", <<"end10">>), 0), <<"Mtimer10">>),
   Mtimer10 |-> Undef(N("timerBoundary", "P10", <<"end10">>)),
   S10 |-> Sequential(N("subProcess", "P10", <<"end10">>), 2),
   s10 |-> N("startEvent", "S10", <<"T10">>),
   T10 |-> N("task", "S10", <<"e10">>),
   e10 |-> N("event", "S10", <<>>),
   end10 |-> N("event", "P10", <<>>)]

(* A sub-process that is run twice, and may be suspended. *)
Repeated ==
  [P12 |-> N("process", Null, <<>>),
   start12 |-> N("startEvent", "P12", <<"S12">>),
   S12 |-> With(Sequential(N("subProcess", "P12", <<"end12">>), 2), <<"Stimer12">>),
   Stimer12 |-> N("timerBoundary", "P12", <<"end12">>),
   s12 |-> N("startEvent", "S12", <<"T12">>),
   T12 |-> N("task", "S12", <<"e12">>),
   e12 |-> N("event", "S12", <<>>),
   end12 |-> N("event", "P12", <<>>)]

(* A multi-instance of two tasks. *)
TwoTasks ==
  [P11 |-> N("process", Null, <<>>),
   start11 |-> N("startEvent", "P11", <<"M11">>),
   M11 |-> Multi(N("task", "P11", <<"end11">>), 2),
   end11 |-> N("event", "P11", <<>>)]

Composed == Nested @@ TwoJoins @@ Failing @@ Multiple @@ Repeated
=============================================================================
