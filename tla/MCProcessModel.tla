----------------------------- MODULE MCProcessModel -----------------------------
(* Documents for TLC. *)
EXTENDS ProcessModel

(* The event definitions that BPMN has for an event, of those the parser      *)
(* knows: without errors, which differ from escalations by where they may be, *)
(* and messages, which are read like signals.                                 *)
MCDefinitions ==
  [tag \in Events |->
     CASE tag = "boundaryEvent" -> {"escalation", "signal", "timer"}
       [] tag = "endEvent" -> {"escalation", "signal"}
       [] tag = "intermediateCatchEvent" -> {"link", "signal", "timer"}
       [] tag = "intermediateThrowEvent" -> {"escalation", "link", "signal"}
       [] tag = "startEvent" -> {"signal", "timer"}]

(* All that BPMN has for each event. *)
AllDefinitions ==
  [tag \in Events |->
     CASE tag = "boundaryEvent" -> Triggers \ {"link"}
       [] tag = "endEvent" -> Triggers \ {"link", "timer"}
       [] tag = "intermediateCatchEvent" -> Triggers \ {"error", "escalation"}
       [] tag = "intermediateThrowEvent" -> Triggers \ {"error", "timer"}
       [] tag = "startEvent" -> {"message", "signal", "timer"}]
=============================================================================
