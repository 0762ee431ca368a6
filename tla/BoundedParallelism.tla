------------------------- MODULE BoundedParallelism -------------------------
(***************************************************************************)
(* What a process with a parallelism promises its clients                  *)
(* (CreateProcessCmd.Parallelism, Process.Parallelism): no instance is     *)
(* given a slot beyond the limit of the latest version, and slots are      *)
(* given in the order the instances arrived.  There is no list, no count   *)
(* and no task here: an instance waits, runs, or has left.                 *)
(***************************************************************************)
EXTENDS Naturals, Sequences, FiniteSets

CONSTANTS
  Instances,      \* process instances
  Parallelisms    \* limits; 0 is unlimited

VARIABLES
  limit,          \* limit of the latest version
  line,           \* the instances that wait, in order of arrival
  running,        \* the instances that occupy a slot
  arrived         \* all instances so far

vars == <<limit, line, running, arrived>>

HasRoom(used) == limit = 0 \/ Cardinality(used) < limit

Init ==
  /\ limit \in Parallelisms
  /\ line = <<>> /\ running = {} /\ arrived = {}

SetLimit(n) == limit' = n /\ UNCHANGED <<line, running, arrived>>

(* An instance overtakes nobody: it runs at once only if nobody waits. *)
Run(i) ==
  /\ line = <<>> /\ HasRoom(running)
  /\ running' = running \cup {i}
  /\ UNCHANGED line

Wait(i) ==
  /\ line # <<>> \/ ~HasRoom(running)
  /\ line' = Append(line, i)
  /\ UNCHANGED running

RunAndLeave == line = <<>> /\ HasRoom(running) /\ UNCHANGED <<line, running>>

Arrive(i) ==
  /\ i \notin arrived
  /\ arrived' = arrived \cup {i}
  /\ Run(i) \/ Wait(i) \/ RunAndLeave
  /\ UNCHANGED limit

(* The first in line takes a slot next to those that others still use. *)
RunFirst(others) ==
  /\ line # <<>> /\ HasRoom(others)
  /\ running' = others \cup {Head(line)}
  /\ line' = Tail(line)

(* A slot is free: it is taken. *)
Admit == RunFirst(running) /\ UNCHANGED <<limit, arrived>>

(* An instance leaves, and the first in line takes over if the limit holds. *)
Leave(i) ==
  /\ i \in running
  /\ LET others == running \ {i}
     IN  \/ RunFirst(others)
         \/ /\ line = <<>> \/ ~HasRoom(others)
            /\ running' = others
            /\ UNCHANGED line
  /\ UNCHANGED <<limit, arrived>>

Next ==
  \/ \E n \in Parallelisms : SetLimit(n)
  \/ Admit
  \/ \E i \in Instances : Arrive(i) \/ Leave(i)

Spec == Init /\ [][Next]_vars
=============================================================================
