----------------------------- MODULE MCProcesses -----------------------------
(* What is deployed: two BPMN processes, "a" in two versions. *)
EXTENDS Processes

Element(id, kind, role, name) == [id |-> id, kind |-> kind, role |-> role, name |-> name]
Name(kind, id, name) == [kind |-> kind, id |-> id, name |-> name]

Request(bpmn, version, max, elements, named) ==
  [bpmn |-> bpmn, version |-> version, parallelism |-> max, elements |-> elements, named |-> named]

MessageStart == Element("s", "MESSAGE", "START", "m")
TimerStart == Element("t", "TIMER", "START", Null)
Cycle == Name("TIMER", "t", "CYCLE")

MCRequests ==
  {Request("a", 1, 0, {MessageStart, TimerStart}, {Cycle}),
   Request("a", 2, 1, {MessageStart}, {Name("MESSAGE", "s", "n")}),
   Request("b", 1, 0, {MessageStart, Element("e", "ERROR", "END", "c")}, {Name("ERROR", "e", "d")}),
   Request("b", 1, 2, {Element("c", "MESSAGE", "CATCH", "m"), TimerStart}, {Name("TIMER", "t", "ONCE")}),
   Request("b", 2, 0, {MessageStart}, {}),
   Request("b", 2, 0, {MessageStart}, {Cycle})}

ThreeDeployments == 1 .. 3
=============================================================================
