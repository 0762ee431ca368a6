------------------------------ MODULE ProcessModel ------------------------------
(***************************************************************************)
(* From a BPMN document to a process that is accepted: the parser of       *)
(* model/model.go, with the types of model/element.go, validateProcess of  *)
(* engine/internal/graph.go, and the type assertions of CreateProcess.     *)
(*                                                                         *)
(* The parser reads one token after the other.  It keeps the element that  *)
(* is open in a variable, and notes in others what the next tokens are     *)
(* about.  Elements have their position in the document for an id.  The    *)
(* decoder guarantees that tags are nested; the guards on what is opened   *)
(* are those of the schema of BPMN.  An element with an unknown tag is     *)
(* skipped with all it contains, which is no step: the flows from and to   *)
(* it are those that another element names alone.  Tags that contain only  *)
(* text are one token with what they contain.                              *)
(***************************************************************************)
EXTENDS Naturals, Sequences, FiniteSets

CONSTANTS
  Tags,            \* tags that the documents have, see below
  MaxElements,     \* bound on the elements of a document,
  MaxDefinitions,  \* on the event definitions of an event,
  Flows,           \* and ids of sequence flows
  Definitions      \* the event definitions that an event may have, by its tag

Events ==
  {"boundaryEvent", "endEvent", "intermediateCatchEvent", "intermediateThrowEvent", "startEvent"}

Triggers == {"error", "escalation", "link", "message", "signal", "timer"}

(* Tasks of BPMN, of which "task" and "manualTask" are passed through. *)
Tasks == {"serviceTask", "task"}
Gateways == {"eventBasedGateway", "exclusiveGateway", "inclusiveGateway"}
Scopes == {"process", "subProcess"}
Activities == Tasks \cup {"callActivity", "subProcess"}

ASSUME ProcessModelAssumption ==
  /\ Tags \subseteq Events \cup Gateways \cup Scopes \cup Activities
  /\ MaxElements \in Nat /\ MaxDefinitions \in Nat
  /\ Definitions \in [Events -> SUBSET Triggers]

VARIABLES
  elements,         \* Model.Elements, see Element
  source,           \* of each sequence flow, 0 if unknown
  target,
  cursor,           \* the variable element, 0 for nil
  isBoundaryEvent,
  multiInstance,    \* the element whose MultiInstance is open, 0 for nil
  open,             \* tags that are open: of the decoder
  outcome           \* "PARSING", "MODEL", "ERROR"; of a process "VALID", "INVALID"; "PANIC"

parserVars == <<elements, source, target, cursor, isBoundaryEvent, multiInstance, open, outcome>>

None == 0
Ids == 1..MaxElements

(* A type is a position and a trigger, which are "unknown" and "none" until  *)
(* an event definition is read; model is the Go type of Element.Model.       *)
(* Names, and the default flow of a gateway, are left out.                    *)
TypeOfTag(tag) ==
  CASE tag = "endEvent" -> <<"end", "none">>
    [] tag = "startEvent" -> <<"start", "none">>
    [] tag = "intermediateThrowEvent" -> <<"throw", "none">>
    [] tag \in {"boundaryEvent", "intermediateCatchEvent"} -> <<"unknown", "none">>
    [] OTHER -> <<tag, "none">>

ModelOfTag(tag) ==
  CASE tag = "boundaryEvent" -> "boundary"
    [] tag = "endEvent" -> "end"
    [] tag = "intermediateCatchEvent" -> "catch"
    [] tag = "intermediateThrowEvent" -> "throw"
    [] tag = "startEvent" -> "start"
    [] OTHER -> tag

Element(tag, attributes) ==
  [tag |-> tag, type |-> TypeOfTag(tag), model |-> ModelOfTag(tag), parent |-> cursor,
   incoming |-> {}, outgoing |-> {}, definitions |-> 0, attachedTo |-> attributes.attachedTo,
   executable |-> attributes.executable, isMultiInstance |-> FALSE, cardinality |-> 0]

ParserInit ==
  /\ elements = <<>>
  /\ source = [f \in Flows |-> None] /\ target = [f \in Flows |-> None]
  /\ cursor = None
  /\ isBoundaryEvent = FALSE
  /\ multiInstance = None
  /\ open = <<>>
  /\ outcome = "PARSING"

-----------------------------------------------------------------------------

(* Operators named Mutant... are mistaken variants of the operator that       *)
(* follows them; some property of this module fails for each of them.         *)

Current == elements[cursor]
Top == open[Len(open)]
Push(tag) == open' = Append(open, tag)
Pop == open' = SubSeq(open, 1, Len(open) - 1)

(* What an element may contain. *)
MayContain(tag) ==
  IF open = <<>> THEN tag = "process"
  ELSE Top \in Scopes /\ tag # "process"

(* xml.StartElement of an element. *)
StartElement(tag, attributes) ==
  /\ outcome = "PARSING"
  /\ MayContain(tag)
  /\ Len(elements) < MaxElements
  /\ elements' = Append(elements, Element(tag, attributes))
  /\ cursor' = Len(elements) + 1
  /\ isBoundaryEvent' = (isBoundaryEvent \/ tag = "boundaryEvent")
  /\ Push(tag)
  /\ UNCHANGED <<source, target, multiInstance, outcome>>

MutantTypeWith(trigger) ==   \* whatever is not a throw event is a catch event
  CASE isBoundaryEvent -> <<"boundary", trigger>>
    [] Current.type = <<"throw", "none">> -> <<"throw", trigger>>
    [] OTHER -> <<"catch", trigger>>

(* The type of an event with an event definition, by the trigger. *)
TypeWith(trigger) ==
  LET none == Current.type[2] = "none"
      at == Current.type[1]
  IN  CASE trigger = "error" ->
             IF isBoundaryEvent THEN <<"boundary", "error">>
             ELSE IF none /\ at = "end" THEN <<"end", "error">> ELSE Current.type
        [] trigger = "escalation" ->
             IF none /\ at = "unknown" THEN <<"boundary", "escalation">>
             ELSE IF none /\ at \in {"end", "throw"} THEN <<at, "escalation">>
             ELSE Current.type
        [] trigger = "link" ->
             IF none /\ at = "throw" THEN <<"throw", "link">> ELSE <<"catch", "link">>
        [] trigger = "timer" ->
             IF isBoundaryEvent THEN <<"boundary", "timer">>
             ELSE IF none /\ at = "start" THEN <<"start", "timer">> ELSE <<"catch", "timer">>
        [] OTHER ->   \* message and signal
             IF isBoundaryEvent THEN <<"boundary", trigger>>
             ELSE IF none /\ at \in {"start", "end", "throw"} THEN <<at, trigger>>
             ELSE <<"catch", trigger>>

(* xml.StartElement and xml.EndElement of an event definition. *)
EventDefinition(trigger) ==
  /\ outcome = "PARSING"
  /\ open # <<>> /\ Top \in Events
  /\ trigger \in Definitions[Top] /\ Current.definitions < MaxDefinitions
  /\ elements' = [elements EXCEPT ![cursor].type = TypeWith(trigger),
                                  ![cursor].definitions = @ + 1]
  /\ UNCHANGED <<source, target, cursor, isBoundaryEvent, multiInstance, open, outcome>>

(* xml.CharData of an incoming element, which all but a process may contain.  *)
(* (An element names a flow once; of several targets the last one counts.)    *)
Incoming(f) ==
  /\ outcome = "PARSING"
  /\ open # <<>> /\ Top \notin {"process", "multiInstance"}
  /\ f \notin Current.incoming
  /\ target' = [target EXCEPT ![f] = cursor]
  /\ elements' = [elements EXCEPT ![cursor].incoming = @ \cup {f}]
  /\ UNCHANGED <<source, cursor, isBoundaryEvent, multiInstance, open, outcome>>

Outgoing(f) ==
  /\ outcome = "PARSING"
  /\ open # <<>> /\ Top \notin {"process", "multiInstance"}
  /\ f \notin Current.outgoing
  /\ source' = [source EXCEPT ![f] = cursor]
  /\ elements' = [elements EXCEPT ![cursor].outgoing = @ \cup {f}]
  /\ UNCHANGED <<target, cursor, isBoundaryEvent, multiInstance, open, outcome>>

(* Those whose Model has a MultiInstance. *)
Repeats(tag) == tag \in {"serviceTask", "callActivity", "subProcess"}

StartMultiInstance ==
  /\ outcome = "PARSING"
  /\ open # <<>> /\ Top \in Activities /\ multiInstance = None
  /\ ~Current.isMultiInstance
  /\ elements' = [elements EXCEPT ![cursor].isMultiInstance = Repeats(Current.tag)]
  /\ multiInstance' = cursor
  /\ Push("multiInstance")
  /\ UNCHANGED <<source, target, cursor, isBoundaryEvent, outcome>>

LoopCardinality ==
  /\ outcome = "PARSING"
  /\ open # <<>> /\ Top = "multiInstance"
  /\ elements[multiInstance].cardinality = 0
  /\ elements' = [elements EXCEPT ![multiInstance].cardinality = 1]
  /\ UNCHANGED <<source, target, cursor, isBoundaryEvent, multiInstance, open, outcome>>

EndMultiInstance ==
  /\ outcome = "PARSING"
  /\ open # <<>> /\ Top = "multiInstance"
  /\ multiInstance' = None
  /\ Pop
  /\ UNCHANGED <<elements, source, target, cursor, isBoundaryEvent, outcome>>

MutantEndBoundaryEvent ==   \* the next event is a boundary event too
  /\ outcome = "PARSING"
  /\ open # <<>> /\ Top # "multiInstance"
  /\ \/ /\ Current.type[1] = "unknown"
        /\ outcome' = "ERROR"
        /\ UNCHANGED <<cursor, open>>
     \/ /\ Current.type[1] # "unknown"
        /\ cursor' = Current.parent
        /\ Pop
        /\ UNCHANGED outcome
  /\ UNCHANGED <<elements, source, target, multiInstance, isBoundaryEvent>>

MutantEndElement ==   \* a sub-process stays open
  /\ outcome = "PARSING"
  /\ open # <<>> /\ Top # "multiInstance"
  /\ \/ /\ Current.type[1] = "unknown"
        /\ outcome' = "ERROR"
        /\ UNCHANGED <<cursor, open, isBoundaryEvent>>
     \/ /\ Current.type[1] # "unknown"
        /\ cursor' = IF Top = "subProcess" THEN cursor ELSE Current.parent
        /\ isBoundaryEvent' = (isBoundaryEvent /\ Top # "boundaryEvent")
        /\ Pop
        /\ UNCHANGED outcome
  /\ UNCHANGED <<elements, source, target, multiInstance>>

(* xml.EndElement of an element. *)
EndElement ==
  /\ outcome = "PARSING"
  /\ open # <<>> /\ Top # "multiInstance"
  /\ \/ /\ Current.type[1] = "unknown"
        /\ outcome' = "ERROR"
        /\ UNCHANGED <<cursor, open, isBoundaryEvent>>
     \/ /\ Current.type[1] # "unknown"
        /\ cursor' = Current.parent
        /\ isBoundaryEvent' = (isBoundaryEvent /\ Top # "boundaryEvent")
        /\ Pop
        /\ UNCHANGED outcome
  /\ UNCHANGED <<elements, source, target, multiInstance>>

-----------------------------------------------------------------------------

Id == DOMAIN elements
IsBoundary(e) == elements[e].type[1] = "boundary"

(* ElementById of attachedToRef. *)
Attached(e) == IF elements[e].attachedTo \in Id THEN elements[e].attachedTo ELSE None

(* The end of the document: what boundary events are attached to is resolved. *)
EndDocument ==
  /\ outcome = "PARSING"
  /\ open = <<>> /\ elements # <<>>
  /\ outcome' = IF \E e \in Id : IsBoundary(e) /\ elements[e].model # "boundary"
                  THEN "PANIC" ELSE "MODEL"
  /\ UNCHANGED <<elements, source, target, cursor, isBoundaryEvent, multiInstance, open>>

Children(e) == {c \in Id : elements[c].parent = e}

(* ElementsByProcessId: the process, its children, theirs, and no others. *)
ElementsOf(p) ==
  LET IsClosed(members) == p \in members /\ \A m \in members : Children(m) \subseteq members
  IN  {e \in Id : \A members \in SUBSET Id : IsClosed(members) => e \in members}

IsNoneStart(e) == elements[e].type = <<"start", "none">>

(* What validateProcess finds of an element. *)
GatewayCauses(e) ==
  /\ elements[e].tag = "eventBasedGateway"
  /\ \/ Cardinality(elements[e].outgoing) < 2
     \/ \E f \in elements[e].outgoing :
          /\ target[f] # None
          /\ ~(elements[target[f]].type[1] = "catch" /\ elements[target[f]].type[2] # "link")

JoinCauses(e) ==
  elements[e].tag = "inclusiveGateway" /\ Cardinality(elements[e].incoming) > 1

SubProcessCauses(e) ==
  /\ elements[e].tag = "subProcess"
  /\ \/ \E c \in Children(e) : elements[c].type[1] = "start" /\ ~IsNoneStart(c)
     \/ Cardinality({c \in Children(e) : IsNoneStart(c)}) # 1

FlowCauses(e) ==
  \/ \E f \in elements[e].incoming : source[f] = None
  \/ \E f \in elements[e].outgoing : target[f] = None

BoundaryCauses(e) == IsBoundary(e) /\ Attached(e) = None

(* All links of the documents have the same name. *)
LinkCauses(members) ==
  LET linked(at) == {e \in members : elements[e].type = <<at, "link">>}
  IN  \/ Cardinality(linked("catch")) > 1
      \/ \E t \in linked("throw") :
           \/ linked("catch") = {}
           \/ \E c \in linked("catch") : elements[c].parent # elements[t].parent

IsInvalid(p) ==
  LET members == ElementsOf(p)
  IN  \/ ~elements[p].executable
      \/ Cardinality({c \in Children(p) : IsNoneStart(c)}) > 1
      \/ \E e \in members :
           GatewayCauses(e) \/ JoinCauses(e) \/ SubProcessCauses(e) \/ FlowCauses(e)
             \/ BoundaryCauses(e)
      \/ LinkCauses(members)

(* The type assertions, of validateProcess on links and of CreateProcess on   *)
(* what has an event definition: those on timers, and on messages thrown,     *)
(* are none.                                                                  *)
IsAsserted(e) ==
  /\ elements[e].type[2] \notin {"none", "timer"}
  /\ ~(elements[e].type[2] = "message" /\ elements[e].type[1] \in {"end", "throw"})

Panics(e) == IsAsserted(e) /\ elements[e].model # elements[e].type[1]

(* CreateProcess with a process of the document: links are asserted while it *)
(* is validated, the others when it has been found valid.                     *)
Validate(p) ==
  /\ outcome = "MODEL"
  /\ elements[p].tag = "process"
  /\ outcome' =
       IF \E e \in ElementsOf(p) : elements[e].type[2] = "link" /\ Panics(e) THEN "PANIC"
       ELSE IF IsInvalid(p) THEN "INVALID"
       ELSE IF \E e \in ElementsOf(p) : Panics(e) THEN "PANIC"
       ELSE "VALID"
  /\ cursor' = p
  /\ UNCHANGED <<elements, source, target, isBoundaryEvent, multiInstance, open>>

Attributes == [attachedTo: Ids \cup {None}, executable: BOOLEAN]

(* Attributes that a tag has not are as if they were empty. *)
AttributesOf(tag) ==
  {a \in Attributes : /\ tag # "boundaryEvent" => a.attachedTo = None
                      /\ tag # "process" => a.executable = FALSE}

ParserNext ==
  \/ \E tag \in Tags : \E a \in AttributesOf(tag) : StartElement(tag, a)
  \/ \E trigger \in Triggers : EventDefinition(trigger)
  \/ \E f \in Flows : Incoming(f) \/ Outgoing(f)
  \/ StartMultiInstance \/ LoopCardinality \/ EndMultiInstance
  \/ EndElement \/ EndDocument
  \/ \E p \in Id : Validate(p)

ParserSpec == ParserInit /\ [][ParserNext]_parserVars

-----------------------------------------------------------------------------

(* The open tags of elements: a multiInstanceLoopCharacteristics contains none. *)
ElementTags ==
  IF open # <<>> /\ Top = "multiInstance" THEN SubSeq(open, 1, Len(open) - 1) ELSE open

(* The elements whose tags are open, from the process to the cursor. *)
IsPath(path) ==
  /\ cursor = IF ElementTags = <<>> THEN None ELSE path[Len(ElementTags)]
  /\ \A n \in 1..Len(ElementTags) :
       /\ elements[path[n]].tag = ElementTags[n]
       /\ elements[path[n]].parent = IF n = 1 THEN None ELSE path[n - 1]

(* The element whose tag is the innermost that is open is the one that what  *)
(* follows is about, however deep and after whatever has been closed or       *)
(* skipped: so that an element, a flow or a definition belongs to the element *)
(* it is written in.  TestNilSafety (model_test.go) relies on it.             *)
CursorIsInnermost ==
  outcome = "PARSING" => \E path \in [1..Len(ElementTags) -> Id] : IsPath(path)

(* An element that has been read has the type of what it is: the Go type of   *)
(* its Model is the one its type stands for, as the type assertions assume.   *)
TypeFitsModel ==
  \A e \in Id : elements[e].tag \in Events /\ elements[e].type[2] # "none" =>
    elements[e].type[1] = elements[e].model

(* "If the process is invalid, causes are returned" (graph.go): no type       *)
(* assertion of the parser, of validateProcess or of CreateProcess fails,     *)
(* whatever the document.  It holds as long as an event has one event         *)
(* definition, and is refuted when it may have two.                           *)
NeverPanics == outcome # "PANIC"

(* "validateProcess validates if the process and its elements can be          *)
(* executed" (graph.go): what a flow of a valid process leads to is one of    *)
(* its elements, as newGraph and continueExecution assume.  It is refuted: a  *)
(* flow to an element of another process of the document is never found.      *)
ValidCanBeExecuted ==
  outcome = "VALID" =>
    LET members == ElementsOf(cursor)
    IN  \A e \in members : \A f \in elements[e].outgoing : target[f] \in members
=============================================================================
