-------------------------- MODULE DeploymentProofs --------------------------
(***************************************************************************)
(* Proofs about the deployment of a process.                               *)
(*                                                                         *)
(* ProcessModel, for documents of any size and depth: what the parser      *)
(* reads belongs to the element it is written in, each event gets the type *)
(* of what it is, and no type assertion fails.                             *)
(*                                                                         *)
(* Processes, for any number of deployments of any processes, in both      *)
(* engines: which version of a BPMN process is in force, and the cache of  *)
(* processes.                                                              *)
(***************************************************************************)
EXTENDS ProcessModel, Processes, FiniteSetTheorems, SequenceTheorems, TLAPS

Positions == Tags \cup {"unknown", "start", "end", "throw", "catch", "boundary"}
Type == Positions \X (Triggers \cup {"none"})

ElementType ==
  [tag: Tags, type: Type, model: Positions, parent: Nat,
   incoming: SUBSET Flows, outgoing: SUBSET Flows, definitions: Nat,
   attachedTo: Ids \cup {None}, executable: BOOLEAN, isMultiInstance: BOOLEAN,
   cardinality: {0, 1}]

ParserTypeOK ==
  /\ elements \in Seq(ElementType)
  /\ source \in [Flows -> Nat] /\ target \in [Flows -> Nat]
  /\ cursor \in Id \cup {None}
  /\ isBoundaryEvent \in BOOLEAN
  /\ multiInstance \in Id \cup {None}
  /\ open \in Seq(Tags \cup {"multiInstance"})
  /\ outcome \in {"PARSING", "MODEL", "ERROR", "VALID", "INVALID", "PANIC"}

(* What is open around something else is not an event. *)
StackOK ==
  /\ \A n \in 1..Len(open) - 1 : open[n] \in Scopes \cup Activities
  /\ open # <<>> /\ Top = "multiInstance" =>
       Len(open) > 1 /\ (outcome = "PARSING" => multiInstance = cursor)

(* The variable isBoundaryEvent is about the element that is open. *)
BoundaryOK ==
  outcome = "PARSING" => (isBoundaryEvent <=> open # <<>> /\ Top = "boundaryEvent")

ParserInv == ParserTypeOK /\ StackOK /\ BoundaryOK /\ CursorIsInnermost

LEMMA NotElements ==
  /\ "multiInstance" \notin Tags
  /\ Scopes \cap (Events \cup {"multiInstance"}) = {}
  /\ Activities \cap (Events \cup {"multiInstance"}) = {}
  BY ProcessModelAssumption DEF Events, Gateways, Scopes, Activities, Tasks

(* The tags of elements are the open ones but for a multiInstance. *)
LEMMA TagsOpen ==
  ASSUME ParserTypeOK, StackOK
  PROVE  /\ ElementTags \in Seq(Tags \cup {"multiInstance"})
         /\ \A n \in 1..Len(ElementTags) : ElementTags[n] = open[n]
         /\ open # <<>> /\ Top = "multiInstance" =>
              Len(ElementTags) = Len(open) - 1 /\ Len(ElementTags) > 0
         /\ ~(open # <<>> /\ Top = "multiInstance") => ElementTags = open
  <1>1. CASE open # <<>> /\ Top = "multiInstance"
    BY <1>1 DEF ParserTypeOK, StackOK, ElementTags
  <1>2. CASE ~(open # <<>> /\ Top = "multiInstance")
    BY <1>2 DEF ParserTypeOK, ElementTags
  <1>. QED BY <1>1, <1>2

(* Inside of an element the cursor is there. *)
LEMMA CursorInside ==
  ASSUME ParserInv, outcome = "PARSING", open # <<>>
  PROVE  /\ cursor \in Id
         /\ Current \in ElementType
         /\ Top # "multiInstance" => Current.tag = Top
  <1>. PICK path \in [1..Len(ElementTags) -> Id] : IsPath(path)
    BY DEF ParserInv, CursorIsInnermost
  <1>. DEFINE d == Len(ElementTags)
  <1>1. ElementTags \in Seq(Tags \cup {"multiInstance"}) /\ ElementTags # <<>>
    BY TagsOpen DEF ParserInv, ParserTypeOK
  <1>2. d \in 1..d /\ cursor = path[d] /\ elements[path[d]].tag = ElementTags[d]
    BY <1>1 DEF IsPath
  <1>5. cursor \in Id
    BY <1>2
  <1>3. Current \in ElementType
    <2>1. elements \in Seq(ElementType)
      BY DEF ParserInv, ParserTypeOK
    <2>. QED BY ONLY <1>5, <2>1 DEF Id, Current
  <1>4. ASSUME Top # "multiInstance" PROVE Current.tag = Top
    BY <1>2, <1>4, TagsOpen DEF ParserInv, Current, Top
  <1>. QED BY <1>3, <1>4, <1>5

(* A step that keeps the tags and parents of all elements, and the cursor. *)
LEMMA PathKept ==
  ASSUME CursorIsInnermost, outcome = "PARSING",
         UNCHANGED cursor, ElementTags' = ElementTags,
         Id' = Id,
         \A e \in Id : elements'[e].tag = elements[e].tag /\ elements'[e].parent = elements[e].parent
  PROVE  CursorIsInnermost'
  <1>. PICK path \in [1..Len(ElementTags) -> Id] : IsPath(path)
    BY DEF CursorIsInnermost
  <1>1. IsPath(path)'
    BY DEF IsPath
  <1>. QED BY <1>1 DEF CursorIsInnermost

LEMMA InitParser == ParserInit => ParserInv
  <1>. SUFFICES ASSUME ParserInit PROVE ParserInv
    OBVIOUS
  <1>1. ParserTypeOK /\ BoundaryOK
    <2>1. elements \in Seq(ElementType) /\ open \in Seq(Tags \cup {"multiInstance"})
      BY DEF ParserInit
    <2>. QED BY <2>1 DEF ParserInit, ParserTypeOK, BoundaryOK, None
  <1>5. StackOK
    BY DEF ParserInit, StackOK
  <1>2. ElementTags = <<>>
    BY DEF ParserInit, ElementTags
  <1>3. [n \in {} |-> None] \in [1..Len(ElementTags) -> Id]
    BY <1>2
  <1>4. IsPath([n \in {} |-> None])
    BY <1>2 DEF ParserInit, IsPath, None
  <1>. QED BY <1>1, <1>3, <1>4, <1>5 DEF ParserInv, CursorIsInnermost
(* One element is updated: its tag and its parent never change. *)
LEMMA UpdatedElements ==
  ASSUME ParserTypeOK, NEW e \in Id, NEW r \in ElementType,
         r.tag = elements[e].tag, r.parent = elements[e].parent,
         elements' = [elements EXCEPT ![e] = r]
  PROVE  /\ elements' \in Seq(ElementType)
         /\ Id' = Id
         /\ \A x \in Id :
              elements'[x].tag = elements[x].tag /\ elements'[x].parent = elements[x].parent
  BY DEF ParserTypeOK, Id

(* A step that updates one element, and no tag. *)
LEMMA UpdatedInv ==
  ASSUME ParserInv, outcome = "PARSING", NEW e \in Id, NEW r \in ElementType,
         r.tag = elements[e].tag, r.parent = elements[e].parent,
         elements' = [elements EXCEPT ![e] = r],
         source' \in [Flows -> Nat], target' \in [Flows -> Nat],
         UNCHANGED <<cursor, isBoundaryEvent, multiInstance, open, outcome>>
  PROVE  ParserInv'
  <1>1. ParserTypeOK'
    BY UpdatedElements DEF ParserInv, ParserTypeOK
  <1>2. StackOK' /\ BoundaryOK'
    BY DEF ParserInv, StackOK, BoundaryOK, Top
  <1>3. ElementTags' = ElementTags
    BY DEF ElementTags, Top
  <1>4. CursorIsInnermost'
    BY <1>3, UpdatedElements, PathKept DEF ParserInv
  <1>. QED BY <1>1, <1>2, <1>4 DEF ParserInv

LEMMA TypeWithTyped ==
  ASSUME Current \in ElementType, NEW trigger \in Triggers
  PROVE  TypeWith(trigger) \in Type
  <1>. DEFINE at == Current.type[1]
              old == Current.type[2]
  <1>1. Current.type \in Type
    BY DEF ElementType
  <1>2. Current.type = <<at, old>> /\ at \in Positions /\ old \in Triggers \cup {"none"}
    BY <1>1 DEF Type
  <1>3. TypeWith(trigger) \in {<<at, old>>} \cup
          {<<x, trigger>> : x \in {"boundary", "start", "end", "throw", "catch"}}
    BY <1>2 DEF TypeWith, Triggers
  <1>4. \A x \in {"boundary", "start", "end", "throw", "catch"} : x \in Positions
    BY DEF Positions
  <1>. HIDE DEF at, old
  <1>. QED BY <1>2, <1>3, <1>4 DEF Type

LEMMA NextEventDefinition ==
  ASSUME ParserInv, NEW trigger \in Triggers, EventDefinition(trigger)
  PROVE  ParserInv'
  <1>. DEFINE r == [Current EXCEPT !.type = TypeWith(trigger), !.definitions = @ + 1]
  <1>1. cursor \in Id /\ Current \in ElementType
    BY CursorInside DEF EventDefinition
  <1>4. TypeWith(trigger) \in Type /\ Current.definitions + 1 \in Nat
    BY <1>1, TypeWithTyped DEF ElementType
  <1>2. r \in ElementType /\ r.tag = Current.tag /\ r.parent = Current.parent
    BY <1>1, <1>4 DEF ElementType
  <1>3. elements' = [elements EXCEPT ![cursor] = r]
    BY <1>1 DEF EventDefinition, Current
  <1>. HIDE DEF r
  <1>. QED BY <1>1, <1>2, <1>3, UpdatedInv DEF EventDefinition, Current, ParserInv, ParserTypeOK

LEMMA NextIncoming ==
  ASSUME ParserInv, NEW f \in Flows, Incoming(f)
  PROVE  ParserInv'
  <1>. DEFINE r == [Current EXCEPT !.incoming = @ \cup {f}]
  <1>1. cursor \in Id /\ Current \in ElementType
    BY CursorInside DEF Incoming
  <1>2. r \in ElementType /\ r.tag = Current.tag /\ r.parent = Current.parent
    BY <1>1 DEF ElementType
  <1>3. elements' = [elements EXCEPT ![cursor] = r]
    BY <1>1 DEF Incoming, Current
  <1>4. target' \in [Flows -> Nat]
    BY <1>1 DEF Incoming, ParserInv, ParserTypeOK, Id
  <1>. HIDE DEF r
  <1>. QED BY <1>1, <1>2, <1>3, <1>4, UpdatedInv DEF Incoming, Current, ParserInv, ParserTypeOK

LEMMA NextOutgoing ==
  ASSUME ParserInv, NEW f \in Flows, Outgoing(f)
  PROVE  ParserInv'
  <1>. DEFINE r == [Current EXCEPT !.outgoing = @ \cup {f}]
  <1>1. cursor \in Id /\ Current \in ElementType
    BY CursorInside DEF Outgoing
  <1>2. r \in ElementType /\ r.tag = Current.tag /\ r.parent = Current.parent
    BY <1>1 DEF ElementType
  <1>3. elements' = [elements EXCEPT ![cursor] = r]
    BY <1>1 DEF Outgoing, Current
  <1>4. source' \in [Flows -> Nat]
    BY <1>1 DEF Outgoing, ParserInv, ParserTypeOK, Id
  <1>. HIDE DEF r
  <1>. QED BY <1>1, <1>2, <1>3, <1>4, UpdatedInv DEF Outgoing, Current, ParserInv, ParserTypeOK

LEMMA NextLoopCardinality ==
  ASSUME ParserInv, LoopCardinality
  PROVE  ParserInv'
  <1>. DEFINE r == [Current EXCEPT !.cardinality = 1]
  <1>1. cursor \in Id /\ Current \in ElementType /\ multiInstance = cursor
    BY CursorInside DEF LoopCardinality, ParserInv, StackOK
  <1>2. r \in ElementType /\ r.tag = Current.tag /\ r.parent = Current.parent
    BY <1>1 DEF ElementType
  <1>3. elements' = [elements EXCEPT ![cursor] = r]
    BY <1>1 DEF LoopCardinality, Current
  <1>. HIDE DEF r
  <1>. QED BY <1>1, <1>2, <1>3, UpdatedInv DEF LoopCardinality, Current, ParserInv, ParserTypeOK

(* What an operator of a stack does to open. *)
LEMMA Pushed ==
  ASSUME ParserTypeOK, NEW tag \in Tags \cup {"multiInstance"}, Push(tag)
  PROVE  /\ open' \in Seq(Tags \cup {"multiInstance"})
         /\ Len(open') = Len(open) + 1 /\ open' # <<>>
         /\ \A n \in 1..Len(open) : open'[n] = open[n]
         /\ Top' = tag
         /\ SubSeq(open', 1, Len(open') - 1) = open
  <1>. DEFINE S == Tags \cup {"multiInstance"}
              t == Append(open, tag)
  <1>1. open \in Seq(S) /\ open' = t
    BY DEF ParserTypeOK, Push
  <1>2. /\ t \in Seq(S) /\ t # <<>> /\ Len(t) = Len(open) + 1 /\ Len(open) \in Nat
        /\ \A n \in 1..Len(open) : t[n] = open[n]
        /\ t[Len(open) + 1] = tag
    BY <1>1, AppendProperties
  <1>3. SubSeq(t, 1, Len(open)) = open
    BY <1>1
  <1>. QED BY <1>1, <1>2, <1>3 DEF Top

LEMMA Popped ==
  ASSUME ParserTypeOK, open # <<>>, Pop
  PROVE  /\ open' \in Seq(Tags \cup {"multiInstance"})
         /\ Len(open') = Len(open) - 1 /\ (open' # <<>> => Len(open) - 1 \in 1..Len(open) - 1)
         /\ \A n \in 1..Len(open) - 1 : open'[n] = open[n]
         /\ open' # <<>> => Top' = open[Len(open) - 1]
         /\ open' = SubSeq(open, 1, Len(open) - 1)
  <1>1. open \in Seq(Tags \cup {"multiInstance"}) /\ Len(open) \in Nat /\ Len(open) > 0
    BY DEF ParserTypeOK
  <1>2. open' = SubSeq(open, 1, Len(open) - 1)
    BY DEF Pop
  <1>3. /\ open' \in Seq(Tags \cup {"multiInstance"})
        /\ Len(open') = Len(open) - 1
        /\ \A n \in 1..Len(open) - 1 : open'[n] = open[n]
    <2>1. PICK k \in Nat : k = Len(open) - 1
      BY <1>1
    <2>2. \A n \in 1..k : open[n] \in Tags \cup {"multiInstance"}
      BY <1>1, <2>1
    <2>3. /\ SubSeq(open, 1, k) \in Seq(Tags \cup {"multiInstance"})
          /\ Len(SubSeq(open, 1, k)) = IF 1 <= k THEN k - 1 + 1 ELSE 0
          /\ \A n \in 1..k - 1 + 1 : SubSeq(open, 1, k)[n] = open[1 + n - 1]
      BY ONLY <2>2, k \in Nat, SubSeqProperties
    <2>4. \A n \in 1..k : n \in 1..k - 1 + 1 /\ 1 + n - 1 = n
      BY k \in Nat
    <2>5. Len(SubSeq(open, 1, k)) = k
      BY <2>3
    <2>. QED BY <1>2, <2>1, <2>3, <2>4, <2>5
  <1>4. open' # <<>> => Len(open) - 1 \in 1..Len(open) - 1
    BY <1>1, <1>3
  <1>. QED BY <1>2, <1>3, <1>4 DEF Top

LEMMA NextStartMultiInstance ==
  ASSUME ParserInv, StartMultiInstance
  PROVE  ParserInv'
  <1>. DEFINE r == [Current EXCEPT !.isMultiInstance = Repeats(Current.tag)]
  <1>1. cursor \in Id /\ Current \in ElementType
    BY CursorInside DEF StartMultiInstance
  <1>11. Repeats(Current.tag) \in BOOLEAN
    BY DEF Repeats
  <1>2. r \in ElementType /\ r.tag = Current.tag /\ r.parent = Current.parent
    BY <1>1, <1>11 DEF ElementType
  <1>3. elements' = [elements EXCEPT ![cursor] = r]
    BY <1>1 DEF StartMultiInstance, Current
  <1>. HIDE DEF r
  <1>4. /\ elements' \in Seq(ElementType) /\ Id' = Id
        /\ \A x \in Id :
             elements'[x].tag = elements[x].tag /\ elements'[x].parent = elements[x].parent
    BY <1>1, <1>2, <1>3, UpdatedElements DEF Current, ParserInv
  <1>5. Top # "multiInstance" /\ Top # "boundaryEvent" /\ Top \in Scopes \cup Activities
    BY NotElements DEF StartMultiInstance, Events
  <1>6. ParserTypeOK'
    BY <1>1, <1>4, Pushed DEF StartMultiInstance, ParserInv, ParserTypeOK
  <1>7. StackOK'
    <2>1. \A n \in 1..Len(open) : open[n] \in Scopes \cup Activities
      BY <1>5 DEF ParserInv, ParserTypeOK, StackOK, Top
    <2>2. Len(open) > 0
      BY DEF ParserInv, ParserTypeOK, StartMultiInstance
    <2>. QED BY <2>1, <2>2, Pushed DEF StartMultiInstance, ParserInv, ParserTypeOK, StackOK
  <1>8. BoundaryOK'
    BY <1>5, Pushed DEF StartMultiInstance, ParserInv, BoundaryOK
  <1>9. ElementTags' = ElementTags
    BY <1>5, Pushed DEF StartMultiInstance, ParserInv, ElementTags
  <1>10. CursorIsInnermost'
    BY <1>4, <1>9, PathKept DEF StartMultiInstance, ParserInv
  <1>. QED BY <1>6, <1>7, <1>8, <1>10 DEF ParserInv

LEMMA NextEndMultiInstance ==
  ASSUME ParserInv, EndMultiInstance
  PROVE  ParserInv'
  <1>1. open # <<>> /\ Len(open) > 1 /\ Top = "multiInstance"
    BY DEF EndMultiInstance, ParserInv, StackOK
  <1>2. Len(open) - 1 \in 1..Len(open) - 1 /\ open' # <<>> /\ Top' = open[Len(open) - 1]
    BY <1>1, Popped DEF EndMultiInstance, ParserInv, ParserTypeOK
  <1>3. Top' \notin {"multiInstance", "boundaryEvent"}
    BY <1>2, NotElements DEF ParserInv, StackOK, Events
  <1>4. ParserTypeOK'
    BY <1>1, Popped DEF EndMultiInstance, ParserInv, ParserTypeOK, None, Id
  <1>5. StackOK'
    <2>1. Len(open) \in Nat /\ Len(open') = Len(open) - 1
      BY <1>1, Popped DEF EndMultiInstance, ParserInv, ParserTypeOK
    <2>2. \A n \in 1..Len(open') - 1 : open'[n] \in Scopes \cup Activities
      BY <1>1, <2>1, Popped DEF EndMultiInstance, ParserInv, StackOK
    <2>. QED BY <1>3, <2>2 DEF StackOK
  <1>6. BoundaryOK'
    BY <1>1, <1>3 DEF EndMultiInstance, ParserInv, BoundaryOK
  <1>7. ElementTags' = ElementTags
    BY <1>1, <1>3, Popped DEF EndMultiInstance, ParserInv, ElementTags
  <1>8. CursorIsInnermost'
    BY <1>7, PathKept DEF EndMultiInstance, ParserInv, Id
  <1>. QED BY <1>4, <1>5, <1>6, <1>8 DEF ParserInv

(* A new element is the innermost one. *)
LEMMA NextStartElement ==
  ASSUME ParserInv, NEW tag \in Tags, NEW a \in AttributesOf(tag), StartElement(tag, a)
  PROVE  ParserInv'
  <1>. DEFINE new == Len(elements) + 1
              d == Len(ElementTags)
  <1>1. Element(tag, a) \in ElementType
    <2>1. TypeOfTag(tag) \in Type /\ ModelOfTag(tag) \in Positions
      BY DEF TypeOfTag, ModelOfTag, Type, Positions
    <2>2. a.attachedTo \in Ids \cup {None} /\ a.executable \in BOOLEAN
      BY DEF AttributesOf, Attributes
    <2>3. cursor \in Nat
      BY DEF ParserInv, ParserTypeOK, Id, None
    <2>. QED BY <2>1, <2>2, <2>3 DEF Element, ElementType
  <1>2. /\ new \in Id' /\ Id \subseteq Id' /\ None \notin Id
        /\ elements' \in Seq(ElementType) /\ elements'[new] = Element(tag, a)
        /\ \A e \in Id : elements'[e] = elements[e]
    BY <1>1 DEF StartElement, ParserInv, ParserTypeOK, Id, None
  <1>3. /\ ~(open # <<>> /\ Top = "multiInstance")
        /\ ~(open # <<>> /\ Top = "boundaryEvent")
        /\ open # <<>> => Top \in Scopes
    BY NotElements DEF StartElement, MayContain, Events
  <1>4. ParserTypeOK'
    BY <1>2, Pushed DEF StartElement, ParserInv, ParserTypeOK
  <1>5. tag # "multiInstance" /\ tag \in Tags \cup {"multiInstance"}
    BY NotElements
  <1>6. StackOK'
    <2>1. \A n \in 1..Len(open) : open[n] \in Scopes \cup Activities
      BY <1>3 DEF ParserInv, ParserTypeOK, StackOK, Top
    <2>2. /\ Len(open') = Len(open) + 1 /\ Top' = tag /\ Len(open) \in Nat
          /\ \A n \in 1..Len(open) : open'[n] = open[n]
      BY <1>5, Pushed DEF StartElement, ParserInv, ParserTypeOK
    <2>. QED BY <2>1, <2>2, <1>5 DEF StackOK
  <1>7. BoundaryOK'
    BY <1>3, <1>5, Pushed DEF StartElement, ParserInv, BoundaryOK
  <1>8. ElementTags = open /\ ElementTags' = open'
    BY <1>3, <1>5, Pushed DEF StartElement, ParserInv, ElementTags
  <1>9. CursorIsInnermost'
    <2>. PICK path \in [1..d -> Id] : IsPath(path)
      BY DEF StartElement, ParserInv, CursorIsInnermost
    <2>1. /\ d \in Nat /\ Len(ElementTags') = d + 1 /\ ElementTags'[d + 1] = tag
          /\ \A n \in 1..d : ElementTags'[n] = ElementTags[n]
      BY <1>5, <1>8, Pushed DEF StartElement, ParserInv, ParserTypeOK, Top
    <2>2. PICK longer \in [1..d + 1 -> Id'] :
            longer[d + 1] = new /\ \A n \in 1..d : longer[n] = path[n]
      <3>. DEFINE longer == [n \in 1..d + 1 |-> IF n = d + 1 THEN new ELSE path[n]]
      <3>1. longer \in [1..d + 1 -> Id']
        BY <1>2, <2>1
      <3>2. longer[d + 1] = new /\ \A n \in 1..d : longer[n] = path[n]
        BY <2>1
      <3>. QED BY <3>1, <3>2
    <2>3. cursor' = longer[Len(ElementTags')] /\ ElementTags' # <<>>
      BY <1>5, <1>8, <2>1, <2>2, Pushed DEF StartElement, ParserInv
    <2>4. elements'[longer[d + 1]].tag = tag /\ elements'[longer[d + 1]].parent = cursor
      BY <1>2, <2>1, <2>2 DEF Element
    <2>5. cursor = IF d + 1 = 1 THEN None ELSE longer[d]
      BY <2>1, <2>2, <1>8 DEF IsPath, ParserInv, ParserTypeOK
    <2>6. ASSUME NEW n \in 1..d
          PROVE  /\ elements'[longer[n]].tag = ElementTags[n]
                 /\ elements'[longer[n]].parent = IF n = 1 THEN None ELSE longer[n - 1]
      <3>1. path[n] \in Id /\ longer[n] = path[n] /\ elements'[path[n]] = elements[path[n]]
        BY <1>2, <2>2
      <3>2. n # 1 => n - 1 \in 1..d /\ longer[n - 1] = path[n - 1]
        BY <2>1, <2>2
      <3>. QED BY <3>1, <3>2 DEF IsPath
    <2>7. IsPath(longer)'
      <3>1. ASSUME NEW n \in 1..d + 1
            PROVE  /\ elements'[longer[n]].tag = ElementTags'[n]
                   /\ elements'[longer[n]].parent = IF n = 1 THEN None ELSE longer[n - 1]
        <4>. HIDE DEF d, new
        <4>1. CASE n = d + 1
          BY <2>1, <2>4, <2>5, <4>1
        <4>2. CASE n \in 1..d
          BY <2>1, <2>6, <4>2
        <4>. QED BY <2>1, <4>1, <4>2
      <3>. QED BY <2>1, <2>3, <3>1 DEF IsPath
    <2>. QED BY <2>1, <2>7 DEF CursorIsInnermost
  <1>. QED BY <1>4, <1>6, <1>7, <1>9 DEF ParserInv
(* The parent of the innermost element is the one around it. *)
LEMMA NextEndElement ==
  ASSUME ParserInv, EndElement
  PROVE  ParserInv'
  <1>1. CASE Current.type[1] = "unknown" /\ outcome' = "ERROR" /\ UNCHANGED <<cursor, open, isBoundaryEvent>>
    <2>1. ParserTypeOK' /\ StackOK'
      BY <1>1 DEF EndElement, ParserInv, ParserTypeOK, StackOK, Top, Id
    <2>. QED BY <1>1, <2>1 DEF ParserInv, BoundaryOK, CursorIsInnermost
  <1>2. CASE /\ cursor' = Current.parent /\ Pop /\ UNCHANGED outcome
             /\ isBoundaryEvent' = (isBoundaryEvent /\ Top # "boundaryEvent")
    <2>. DEFINE d == Len(open)
    <2>1. open # <<>> /\ Top # "multiInstance" /\ d \in Nat /\ d > 0
      BY DEF EndElement, ParserInv, ParserTypeOK
    <2>2. /\ open' \in Seq(Tags \cup {"multiInstance"}) /\ Len(open') = d - 1
          /\ \A n \in 1..d - 1 : open'[n] = open[n]
          /\ open' # <<>> => d - 1 \in 1..d - 1 /\ Top' = open[d - 1]
      BY <1>2, <2>1, Popped DEF ParserInv
    <2>3. open' # <<>> => Top' \notin {"multiInstance", "boundaryEvent"}
      BY <2>2, NotElements DEF ParserInv, StackOK, Events
    <2>4. ElementTags = open /\ ElementTags' = open'
      BY <2>1, <2>3 DEF ElementTags
    <2>. PICK path \in [1..d -> Id] : IsPath(path)
      BY <2>4 DEF EndElement, ParserInv, CursorIsInnermost
    <2>5. Current.parent = IF d = 1 THEN None ELSE path[d - 1]
      <3>1. d \in 1..d
        BY <2>1
      <3>2. cursor = path[d] /\ elements[path[d]].parent = IF d = 1 THEN None ELSE path[d - 1]
        BY <2>1, <2>4, <3>1 DEF IsPath
      <3>. QED BY <3>2 DEF Current
    <2>6. d # 1 => d - 1 \in 1..d /\ path[d - 1] \in Id
      <3>1. d # 1 => d - 1 \in 1..d
        BY <2>1
      <3>. HIDE DEF d
      <3>. QED BY <3>1
    <2>7. ParserTypeOK'
      BY <1>2, <2>2, <2>5, <2>6 DEF EndElement, ParserInv, ParserTypeOK, Id
    <2>8. StackOK'
      <3>1. \A n \in 1..Len(open') - 1 : open'[n] \in Scopes \cup Activities
        BY <2>1, <2>2 DEF ParserInv, StackOK
      <3>. QED BY <2>3, <3>1 DEF StackOK
    <2>9. BoundaryOK'
      BY <1>2, <2>1, <2>3 DEF EndElement, ParserInv, BoundaryOK
    <2>10. PICK shorter \in [1..d - 1 -> Id'] : \A n \in 1..d - 1 : shorter[n] = path[n]
      <3>. DEFINE shorter == [n \in 1..d - 1 |-> path[n]]
      <3>1. shorter \in [1..d - 1 -> Id'] /\ \A n \in 1..d - 1 : shorter[n] = path[n]
        BY <2>1 DEF EndElement, Id
      <3>. QED BY <3>1
    <2>11. ASSUME NEW n \in 1..d - 1
           PROVE  /\ elements'[shorter[n]].tag = open'[n]
                  /\ elements'[shorter[n]].parent = IF n = 1 THEN None ELSE shorter[n - 1]
      <3>1. n \in 1..d /\ shorter[n] = path[n] /\ (n # 1 => shorter[n - 1] = path[n - 1])
        BY <2>1, <2>10
      <3>. QED BY <2>2, <2>4, <3>1 DEF IsPath, EndElement
    <2>12. cursor' = IF open' = <<>> THEN None ELSE shorter[Len(open')]
      BY <1>2, <2>1, <2>2, <2>5, <2>10
    <2>13. IsPath(shorter)'
      BY <2>2, <2>4, <2>11, <2>12 DEF IsPath
    <2>14. CursorIsInnermost'
      BY <2>2, <2>4, <2>13 DEF CursorIsInnermost
    <2>. QED BY <2>7, <2>8, <2>9, <2>14 DEF ParserInv
  <1>. QED BY <1>1, <1>2 DEF EndElement

(* The document has ended: nothing is read any more. *)
LEMMA NextDocument ==
  ASSUME ParserInv, EndDocument \/ \E p \in Id : Validate(p)
  PROVE  ParserInv'
  <1>1. /\ UNCHANGED <<elements, source, target, isBoundaryEvent, multiInstance, open>>
        /\ outcome' \in {"MODEL", "PANIC", "VALID", "INVALID"}
        /\ cursor' \in Id \cup {None}
    BY DEF EndDocument, Validate, ParserInv, ParserTypeOK
  <1>2. ParserTypeOK' /\ BoundaryOK' /\ CursorIsInnermost'
    BY <1>1 DEF ParserInv, ParserTypeOK, BoundaryOK, CursorIsInnermost, Id
  <1>3. StackOK'
    <2>1. CASE EndDocument
      BY <2>1 DEF EndDocument, ParserInv, StackOK, Top
    <2>2. ASSUME NEW p \in Id, Validate(p) PROVE StackOK'
      BY <2>2 DEF Validate, ParserInv, StackOK, Top
    <2>. QED BY <2>1, <2>2
  <1>. QED BY <1>2, <1>3 DEF ParserInv

LEMMA NextParser == ParserInv /\ [ParserNext]_parserVars => ParserInv'
  <1>. SUFFICES ASSUME ParserInv, [ParserNext]_parserVars PROVE ParserInv'
    OBVIOUS
  <1>1. CASE UNCHANGED parserVars
    <2>1. ParserTypeOK' /\ StackOK' /\ BoundaryOK'
      BY <1>1 DEF parserVars, ParserInv, ParserTypeOK, StackOK, BoundaryOK, Id, Top
    <2>2. CursorIsInnermost'
      BY <1>1, PathKept DEF parserVars, ParserInv, ElementTags, Top, Id, CursorIsInnermost
    <2>. QED BY <2>1, <2>2 DEF ParserInv
  <1>2. CASE ParserNext
    BY <1>2, NextStartElement, NextEventDefinition, NextIncoming, NextOutgoing,
       NextStartMultiInstance, NextLoopCardinality, NextEndMultiInstance, NextEndElement,
       NextDocument DEF ParserNext
  <1>. QED BY <1>1, <1>2

(* What a document consists of keeps its type, of any size: also, each       *)
(* element has one of the types of element_type.go.                          *)
THEOREM ProcessModelTypeCorrect == ParserSpec => []ParserTypeOK
  <1>1. ParserInv => ParserTypeOK
    BY DEF ParserInv
  <1>. QED BY <1>1, InitParser, NextParser, PTL DEF ParserSpec

(* However deep elements are nested, and whatever has been closed before,     *)
(* what the parser (model.go) reads belongs to the innermost element.         *)
THEOREM CursorCorrect == ParserSpec => []CursorIsInnermost
  <1>1. ParserInv => CursorIsInnermost
    BY DEF ParserInv
  <1>. QED BY <1>1, InitParser, NextParser, PTL DEF ParserSpec
(* The event definitions that BPMN has for each event, one at most. *)
IsBpmn ==
  /\ MaxDefinitions <= 1
  /\ "link" \notin Definitions["boundaryEvent"] \cup Definitions["startEvent"]
                     \cup Definitions["endEvent"]
  /\ "timer" \notin Definitions["endEvent"] \cup Definitions["intermediateThrowEvent"]
  /\ "escalation" \notin Definitions["intermediateCatchEvent"]

(* Without an event definition, an element has the type of its tag; so has    *)
(* one with a definition that does not change its type.                       *)
TypesOK ==
  \A e \in Id :
    /\ elements[e].model = ModelOfTag(elements[e].tag)
    /\ \/ elements[e].tag \notin Events
       \/ elements[e].definitions = 0
       \/ elements[e].type[2] = "none"
       => elements[e].type = TypeOfTag(elements[e].tag)

TypesInv == ParserInv /\ TypesOK /\ TypeFitsModel

(* With its one event definition, an event has the type of what it is. *)
LEMMA DefinitionFits ==
  ASSUME IsBpmn, NEW tag \in Events, NEW trigger \in Definitions[tag], trigger \in Triggers,
         Current.tag = tag, Current.type = TypeOfTag(tag),
         isBoundaryEvent <=> tag = "boundaryEvent"
  PROVE  /\ TypeWith(trigger)[2] # "none" => TypeWith(trigger)[1] = ModelOfTag(tag)
         /\ TypeWith(trigger)[2] = "none" => TypeWith(trigger) = TypeOfTag(tag)
  <1>1. CASE tag = "boundaryEvent"
    BY <1>1 DEF IsBpmn, Triggers, TypeWith, TypeOfTag, ModelOfTag
  <1>2. CASE tag = "startEvent"
    BY <1>2 DEF IsBpmn, Triggers, TypeWith, TypeOfTag, ModelOfTag
  <1>3. CASE tag = "endEvent"
    BY <1>3 DEF IsBpmn, Triggers, TypeWith, TypeOfTag, ModelOfTag
  <1>4. CASE tag = "intermediateThrowEvent"
    BY <1>4 DEF IsBpmn, Triggers, TypeWith, TypeOfTag, ModelOfTag
  <1>5. CASE tag = "intermediateCatchEvent"
    BY <1>5 DEF IsBpmn, Triggers, TypeWith, TypeOfTag, ModelOfTag
  <1>. QED BY <1>1, <1>2, <1>3, <1>4, <1>5 DEF Events

(* A step that updates one element without an event definition. *)
LEMMA TypesUpdated ==
  ASSUME TypesInv, NEW e \in Id, NEW r,
         r.tag = elements[e].tag, r.type = elements[e].type, r.model = elements[e].model,
         r.definitions = elements[e].definitions,
         elements' = [elements EXCEPT ![e] = r]
  PROVE  TypesOK' /\ TypeFitsModel'
  <1>1. Id' = Id
    BY DEF Id
  <1>2. \A x \in Id : /\ elements'[x].tag = elements[x].tag
                      /\ elements'[x].type = elements[x].type
                      /\ elements'[x].model = elements[x].model
                      /\ elements'[x].definitions = elements[x].definitions
    BY DEF Id
  <1>. QED BY <1>1, <1>2 DEF TypesInv, TypesOK, TypeFitsModel

LEMMA TypesDefinition ==
  ASSUME IsBpmn, TypesInv, NEW trigger \in Triggers, EventDefinition(trigger)
  PROVE  TypesOK' /\ TypeFitsModel'
  <1>. DEFINE r == [Current EXCEPT !.type = TypeWith(trigger), !.definitions = @ + 1]
  <1>1. cursor \in Id /\ Current \in ElementType /\ Top # "multiInstance" /\ Current.tag = Top
    BY CursorInside DEF EventDefinition, TypesInv, Events
  <1>2. elements' = [elements EXCEPT ![cursor] = r]
    BY <1>1 DEF EventDefinition, Current
  <1>3. /\ r.tag = Current.tag /\ r.model = Current.model
        /\ r.type = TypeWith(trigger) /\ r.definitions = Current.definitions + 1
    BY <1>1 DEF ElementType
  <1>4. Current.definitions = 0
    BY <1>1, ProcessModelAssumption DEF EventDefinition, IsBpmn, ElementType
  <1>5. /\ Current.type = TypeOfTag(Current.tag) /\ Current.model = ModelOfTag(Current.tag)
        /\ isBoundaryEvent <=> Current.tag = "boundaryEvent"
    BY <1>1, <1>4 DEF EventDefinition, TypesInv, TypesOK, ParserInv, BoundaryOK, Current
  <1>6. /\ r.type[2] # "none" => r.type[1] = r.model
        /\ r.type[2] = "none" => r.type = TypeOfTag(r.tag)
    BY <1>1, <1>3, <1>5, DefinitionFits DEF EventDefinition
  <1>7. r.model = ModelOfTag(r.tag) /\ r.definitions # 0 /\ r.tag \in Events
    BY <1>1, <1>3, <1>4, <1>5 DEF EventDefinition
  <1>. HIDE DEF r
  <1>8. Id' = Id /\ elements'[cursor] = r /\ \A x \in Id \ {cursor} : elements'[x] = elements[x]
    BY <1>1, <1>2 DEF Id
  <1>9. TypesOK'
    BY <1>6, <1>7, <1>8 DEF TypesInv, TypesOK
  <1>10. TypeFitsModel'
    BY <1>6, <1>8 DEF TypesInv, TypeFitsModel
  <1>. QED BY <1>9, <1>10

LEMMA TypesStartElement ==
  ASSUME TypesInv, NEW tag \in Tags, NEW a \in AttributesOf(tag), StartElement(tag, a)
  PROVE  TypesOK' /\ TypeFitsModel'
  <1>. DEFINE new == Len(elements) + 1
  <1>1. /\ Id' = Id \cup {new} /\ elements'[new] = Element(tag, a)
        /\ \A e \in Id : elements'[e] = elements[e]
    BY DEF StartElement, TypesInv, ParserInv, ParserTypeOK, Id
  <1>2. /\ elements'[new].tag = tag /\ elements'[new].model = ModelOfTag(tag)
        /\ elements'[new].type = TypeOfTag(tag)
    BY <1>1 DEF Element
  <1>3. tag \in Events => TypeOfTag(tag)[2] = "none"
    BY DEF Events, TypeOfTag
  <1>. HIDE DEF new
  <1>. QED BY <1>1, <1>2, <1>3 DEF TypesInv, TypesOK, TypeFitsModel

LEMMA NextTypes == IsBpmn /\ TypesInv /\ [ParserNext]_parserVars => TypesInv'
  <1>. SUFFICES ASSUME IsBpmn, TypesInv, [ParserNext]_parserVars PROVE TypesOK' /\ TypeFitsModel'
    BY NextParser DEF TypesInv
  <1>1. ASSUME UNCHANGED elements PROVE TypesOK' /\ TypeFitsModel'
    BY <1>1 DEF TypesInv, TypesOK, TypeFitsModel, Id
  <1>2. ASSUME NEW f \in Flows, Incoming(f) \/ Outgoing(f) PROVE TypesOK' /\ TypeFitsModel'
    <2>1. cursor \in Id /\ Current \in ElementType
      BY <1>2, CursorInside DEF Incoming, Outgoing, TypesInv
    <2>2. CASE Incoming(f)
      <3>. DEFINE r == [Current EXCEPT !.incoming = @ \cup {f}]
      <3>1. elements' = [elements EXCEPT ![cursor] = r]
        BY <2>1, <2>2 DEF Incoming, Current
      <3>2. /\ r.tag = Current.tag /\ r.type = Current.type /\ r.model = Current.model
            /\ r.definitions = Current.definitions
        BY <2>1 DEF ElementType
      <3>. HIDE DEF r
      <3>. QED BY <2>1, <3>1, <3>2, TypesUpdated DEF Current
    <2>3. CASE Outgoing(f)
      <3>. DEFINE r == [Current EXCEPT !.outgoing = @ \cup {f}]
      <3>1. elements' = [elements EXCEPT ![cursor] = r]
        BY <2>1, <2>3 DEF Outgoing, Current
      <3>2. /\ r.tag = Current.tag /\ r.type = Current.type /\ r.model = Current.model
            /\ r.definitions = Current.definitions
        BY <2>1 DEF ElementType
      <3>. HIDE DEF r
      <3>. QED BY <2>1, <3>1, <3>2, TypesUpdated DEF Current
    <2>. QED BY <1>2, <2>2, <2>3
  <1>3. CASE StartMultiInstance
    <2>. DEFINE r == [Current EXCEPT !.isMultiInstance = Repeats(Current.tag)]
    <2>1. cursor \in Id /\ Current \in ElementType
      BY <1>3, CursorInside DEF StartMultiInstance, TypesInv
    <2>2. elements' = [elements EXCEPT ![cursor] = r]
      BY <1>3, <2>1 DEF StartMultiInstance, Current
    <2>3. /\ r.tag = Current.tag /\ r.type = Current.type /\ r.model = Current.model
          /\ r.definitions = Current.definitions
      BY <2>1 DEF ElementType
    <2>. HIDE DEF r
    <2>. QED BY <2>1, <2>2, <2>3, TypesUpdated DEF Current
  <1>4. CASE LoopCardinality
    <2>. DEFINE r == [Current EXCEPT !.cardinality = 1]
    <2>1. cursor \in Id /\ Current \in ElementType /\ multiInstance = cursor
      BY <1>4, CursorInside DEF LoopCardinality, TypesInv, ParserInv, StackOK
    <2>2. elements' = [elements EXCEPT ![cursor] = r]
      BY <1>4, <2>1 DEF LoopCardinality, Current
    <2>3. /\ r.tag = Current.tag /\ r.type = Current.type /\ r.model = Current.model
          /\ r.definitions = Current.definitions
      BY <2>1 DEF ElementType
    <2>. HIDE DEF r
    <2>. QED BY <2>1, <2>2, <2>3, TypesUpdated DEF Current
  <1>5. CASE EndMultiInstance \/ EndElement \/ EndDocument \/ \E p \in Id : Validate(p)
    BY <1>1, <1>5 DEF EndMultiInstance, EndElement, EndDocument, Validate
  <1>6. CASE UNCHANGED parserVars
    BY <1>1, <1>6 DEF parserVars
  <1>. QED BY <1>2, <1>3, <1>4, <1>5, <1>6, TypesStartElement, TypesDefinition DEF ParserNext

LEMMA InitTypes == ParserInit => TypesInv
  <1>. SUFFICES ASSUME ParserInit PROVE TypesInv
    OBVIOUS
  <1>1. Id = {}
    BY DEF ParserInit, Id
  <1>. QED BY <1>1, InitParser DEF TypesInv, TypesOK, TypeFitsModel

(* If each event has at most one of the definitions BPMN has for it, its type *)
(* is the one of its model, for which process.go asserts the Go type.         *)
THEOREM TypeFitsCorrect == ASSUME IsBpmn PROVE ParserSpec => []TypeFitsModel
  <1>1. ParserInit => TypesInv
    BY InitTypes
  <1>2. TypesInv /\ [ParserNext]_parserVars => TypesInv'
    BY NextTypes
  <1>3. TypesInv => TypeFitsModel
    BY DEF TypesInv
  <1>. QED BY <1>1, <1>2, <1>3, PTL DEF ParserSpec

(* What has no type of an event definition has the one of its tag, and what   *)
(* has one has the model that is asserted.                                    *)
LEMMA FitsIsAsserted ==
  ASSUME TypesInv, NEW e \in Id
  PROVE  /\ IsBoundary(e) => elements[e].model = "boundary"
         /\ ~Panics(e)
  <1>. DEFINE tag == elements[e].tag
  <1>1. elements[e] \in ElementType
    BY DEF TypesInv, ParserInv, ParserTypeOK, Id
  <1>2. tag \in Events \cup Gateways \cup Scopes \cup Activities
    BY <1>1, ProcessModelAssumption DEF ElementType
  <1>3. CASE elements[e].type[2] = "none"
    <2>1. elements[e].type = TypeOfTag(tag)
      BY <1>3 DEF TypesInv, TypesOK
    <2>2. TypeOfTag(tag)[1] # "boundary"
      BY <1>2 DEF TypeOfTag, Events, Gateways, Scopes, Activities, Tasks
    <2>. QED BY <1>3, <2>1, <2>2 DEF IsBoundary, Panics, IsAsserted
  <1>4. CASE elements[e].type[2] # "none"
    <2>1. tag \in Events
      <3>. SUFFICES ASSUME tag \notin Events PROVE FALSE
        OBVIOUS
      <3>1. elements[e].type = TypeOfTag(tag)
        BY DEF TypesInv, TypesOK
      <3>2. TypeOfTag(tag)[2] = "none"
        BY DEF TypeOfTag
      <3>. QED BY <1>4, <3>1, <3>2
    <2>2. elements[e].type[1] = elements[e].model
      BY <1>4, <2>1 DEF TypesInv, TypeFitsModel
    <2>. QED BY <2>2 DEF IsBoundary, Panics
  <1>. QED BY <1>3, <1>4

(* If each event has at most one of the definitions BPMN has for it, neither  *)
(* the parser nor CreateProcess panics, whatever the document: no type        *)
(* assertion of model.go, graph.go and process.go fails.                      *)
THEOREM NeverPanicsCorrect == ASSUME IsBpmn PROVE ParserSpec => []NeverPanics
  <1>1. ParserInit => TypesInv /\ NeverPanics
    BY InitTypes DEF ParserInit, NeverPanics
  <1>2. TypesInv /\ NeverPanics /\ [ParserNext]_parserVars => TypesInv' /\ NeverPanics'
    <2>. SUFFICES ASSUME TypesInv, NeverPanics, [ParserNext]_parserVars PROVE NeverPanics'
      BY NextTypes
    <2>1. CASE EndDocument
      BY <2>1, FitsIsAsserted DEF EndDocument, NeverPanics
    <2>2. ASSUME NEW p \in Id, Validate(p) PROVE NeverPanics'
      <3>1. ElementsOf(p) \subseteq Id
        BY DEF ElementsOf
      <3>2. \A e \in ElementsOf(p) : ~Panics(e)
        BY <3>1, FitsIsAsserted
      <3>. QED BY <2>2, <3>2 DEF Validate, NeverPanics
    <2>3. CASE ~EndDocument /\ ~\E p \in Id : Validate(p)
      <3>1. outcome' \in {outcome, "ERROR"}
        BY <2>3 DEF ParserNext, parserVars, StartElement, EventDefinition, Incoming, Outgoing,
           StartMultiInstance, LoopCardinality, EndMultiInstance, EndElement
      <3>. QED BY <3>1 DEF NeverPanics
    <2>. QED BY <2>1, <2>2, <2>3
  <1>. QED BY <1>1, <1>2, PTL DEF ParserSpec

-----------------------------------------------------------------------------

RulesTypeOK ==
  /\ phase \in [Deployments -> Phases]
  /\ request \in [Deployments -> Requests \cup {Null}]
  /\ suspending \in [Deployments -> SUBSET Deployments]
  /\ suspended \subseteq Deployments /\ ticks \subseteq Deployments
  /\ DOMAIN parallelism = BpmnProcesses
  /\ last \in [BpmnProcesses -> Deployments \cup {Null}]

(* What has a row has been requested. *)
RequestsOK ==
  \A d \in Deployments :
    phase[d] \in {"INSERTED", "CHECKED", "STORED", "COMMITTED", "LEFT"} => request[d] \in Requests

(* Who has stored a process holds the row of its queue: what it suspends is   *)
(* what is in force until it commits.                                         *)
StoredOK ==
  /\ \A c, d \in Deployments :
       phase[c] = "STORED" /\ phase[d] = "STORED" /\ request[c].bpmn = request[d].bpmn => c = d
  /\ \A d \in Deployments :
       phase[d] = "STORED" => suspending[d] = Unsuspended(request[d].bpmn)

(* The one version in force is the last one, with its parallelism. *)
LastOK ==
  /\ suspended \subseteq Committed
  /\ \A d \in Committed \ suspended : d = last[request[d].bpmn]
  /\ \A b \in BpmnProcesses : last[b] # Null =>
       /\ last[b] \in Committed \ suspended
       /\ request[last[b]].bpmn = b
       /\ parallelism[b] = request[last[b]].parallelism

RulesInv == RulesTypeOK /\ RequestsOK /\ StoredOK /\ LastOK

LEMMA BpmnOf == ASSUME NEW r \in Requests PROVE r.bpmn \in BpmnProcesses
  BY DEF BpmnProcesses

LEMMA InitRules == Init => RulesInv /\ TimerTicks
  <1>. SUFFICES ASSUME Init PROVE RulesInv /\ TimerTicks
    OBVIOUS
  <1>1. Committed = {}
    BY DEF Init, Committed
  <1>2. RulesTypeOK
    BY DEF Init, RulesTypeOK, Phases
  <1>3. RequestsOK /\ StoredOK
    BY DEF Init, RequestsOK, StoredOK
  <1>4. LastOK /\ TimerTicks
    BY <1>1 DEF Init, LastOK, TimerTicks
  <1>. QED BY <1>2, <1>3, <1>4 DEF RulesInv

(* A step that leaves what is committed as it is, and stores nothing. *)
LEMMA QuietRules ==
  ASSUME RulesInv, UNCHANGED rows,
         phase' \in [Deployments -> Phases],
         request' \in [Deployments -> Requests \cup {Null}],
         suspending' \in [Deployments -> SUBSET Deployments],
         \A d \in Deployments :
           /\ phase'[d] = "COMMITTED" <=> phase[d] = "COMMITTED"
           /\ phase'[d] = "STORED" => phase[d] = "STORED" /\ suspending'[d] = suspending[d]
           /\ phase'[d] \in {"INSERTED", "CHECKED", "STORED", "COMMITTED", "LEFT"} =>
                request'[d] \in Requests
           /\ phase[d] # "NEW" => request'[d] = request[d]
  PROVE  RulesInv'
  <1>1. UNCHANGED <<suspended, parallelism, ticks, last>>
    BY DEF rows
  <1>2. Committed' = Committed /\ \A d \in Committed : request'[d] = request[d]
    BY DEF Committed
  <1>3. \A b : Unsuspended(b)' = Unsuspended(b)
    BY <1>1, <1>2 DEF Unsuspended
  <1>4. RulesTypeOK' /\ RequestsOK'
    BY <1>1 DEF RulesInv, RulesTypeOK, RequestsOK
  <1>5. StoredOK'
    BY <1>3 DEF RulesInv, StoredOK
  <1>6. LastOK'
    BY <1>1, <1>2 DEF RulesInv, LastOK
  <1>. QED BY <1>4, <1>5, <1>6 DEF RulesInv
LEMMA StoreRules ==
  ASSUME RulesInv, NEW d \in Deployments, StoreProcess(d)
  PROVE  RulesInv'
  <1>0. /\ RulesTypeOK /\ RequestsOK /\ StoredOK /\ LastOK
        /\ phase[d] = "CHECKED" /\ request' = request
        /\ UNCHANGED <<suspended, parallelism, ticks, last>>
        /\ phase' = [phase EXCEPT ![d] = "STORED"]
        /\ suspending' = [suspending EXCEPT ![d] = Unsuspended(request[d].bpmn)]
        /\ \A c \in Running : request[c].bpmn = request[d].bpmn => phase[c] # "STORED"
    BY DEF RulesInv, StoreProcess, rows
  <1>1. \A c \in Deployments : phase'[c] = IF c = d THEN "STORED" ELSE phase[c]
    BY <1>0 DEF RulesTypeOK
  <1>2. Committed' = Committed
    BY <1>0, <1>1 DEF Committed
  <1>3. \A b : Unsuspended(b)' = Unsuspended(b) /\ Unsuspended(b) \subseteq Deployments
    BY <1>0, <1>2 DEF Unsuspended, Committed
  <1>4. RulesTypeOK'
    BY <1>0, <1>3 DEF RulesTypeOK, Phases
  <1>5. RequestsOK'
    BY <1>0, <1>1 DEF RequestsOK
  <1>6. StoredOK'
    <2>1. \A c \in Deployments : phase[c] = "STORED" => request[c].bpmn # request[d].bpmn
      BY <1>0 DEF Running
    <2>2. \A c \in Deployments :
            suspending'[c] = IF c = d THEN Unsuspended(request[d].bpmn) ELSE suspending[c]
      BY <1>0 DEF RulesTypeOK
    <2>. QED BY <1>0, <1>1, <1>3, <2>1, <2>2 DEF StoredOK
  <1>7. LastOK'
    BY <1>0, <1>2 DEF LastOK
  <1>. QED BY <1>4, <1>5, <1>6, <1>7 DEF RulesInv

(* The committed version takes over: all others of its BPMN process are      *)
(* suspended, and no other deployment of it has stored anything.             *)
LEMMA CommitRules ==
  ASSUME RulesInv, NEW d \in Deployments, CommitProcess(d)
  PROVE  RulesInv'
  <1>. DEFINE b == request[d].bpmn
  <1>0. /\ RulesTypeOK /\ RequestsOK /\ StoredOK /\ LastOK
        /\ phase[d] = "STORED" /\ request' = request
        /\ phase' = [phase EXCEPT ![d] = "COMMITTED"]
        /\ suspended' = suspended \cup suspending[d]
        /\ suspending' = [suspending EXCEPT ![d] = {}]
        /\ parallelism' = [parallelism EXCEPT ![b] = request[d].parallelism]
        /\ ticks' \subseteq ticks \cup {d}
        /\ last' = [last EXCEPT ![b] = d]
    BY DEF RulesInv, CommitProcess
  <1>1. \A c \in Deployments : phase'[c] = IF c = d THEN "COMMITTED" ELSE phase[c]
    BY <1>0 DEF RulesTypeOK
  <1>2. /\ Committed' = Committed \cup {d} /\ d \notin Committed
        /\ suspending[d] = Unsuspended(b)
    BY <1>0, <1>1 DEF Committed, StoredOK
  <1>3. request[d] \in Requests /\ b \in BpmnProcesses
    BY <1>0, BpmnOf DEF RequestsOK
  <1>4. /\ \A a \in BpmnProcesses :
             /\ last'[a] = IF a = b THEN d ELSE last[a]
             /\ parallelism'[a] = IF a = b THEN request[d].parallelism ELSE parallelism[a]
        /\ DOMAIN parallelism' = BpmnProcesses
    BY <1>0, <1>3 DEF RulesTypeOK
  <1>5. /\ suspended' \subseteq Committed
        /\ \A c \in Committed : c \in suspended' <=> c \in suspended \/ request[c].bpmn = b
    BY <1>0, <1>2 DEF LastOK, Unsuspended
  <1>6. RulesTypeOK'
    <2>1. suspending[d] \subseteq Deployments
      BY <1>0 DEF RulesTypeOK
    <2>. QED BY <1>0, <1>4, <2>1 DEF RulesTypeOK, Phases
  <1>7. RequestsOK'
    BY <1>0, <1>1 DEF RequestsOK
  <1>8. StoredOK'
    <2>1. ASSUME NEW c \in Deployments, phase'[c] = "STORED"
          PROVE  suspending'[c] = Unsuspended(request[c].bpmn)'
      <3>1. c # d /\ phase[c] = "STORED" /\ request[c].bpmn # b
        BY <1>0, <1>1, <2>1 DEF StoredOK
      <3>2. suspending'[c] = Unsuspended(request[c].bpmn)
        BY <1>0, <3>1 DEF RulesTypeOK, StoredOK
      <3>3. \A e : e \in Unsuspended(request[c].bpmn) <=>
                     /\ e \in Committed' /\ request'[e].bpmn = request'[c].bpmn
                     /\ e \notin suspended'
        BY <1>0, <1>2, <1>5, <3>1 DEF Unsuspended
      <3>. QED BY <3>2, <3>3 DEF Unsuspended
    <2>2. \A c, e \in Deployments :
            phase'[c] = "STORED" /\ phase'[e] = "STORED" /\ request'[c].bpmn = request'[e].bpmn
              => c = e
      BY <1>0, <1>1 DEF StoredOK
    <2>. QED BY <1>0, <2>1, <2>2 DEF StoredOK
  <1>9. LastOK'
    <2>1. suspended' \subseteq Committed'
      BY <1>2, <1>5
    <2>2. ASSUME NEW c \in Committed', c \notin suspended'
          PROVE  c = last'[request'[c].bpmn]
      <3>1. CASE c = d
        BY <1>0, <1>3, <1>4, <3>1
      <3>2. CASE c # d
        <4>1. c \in Committed \ suspended /\ request[c].bpmn # b
          BY <1>2, <1>5, <2>2, <3>2
        <4>2. request[c].bpmn \in BpmnProcesses
          BY <1>0, <4>1, BpmnOf DEF Committed, RequestsOK
        <4>. QED BY <1>0, <1>4, <4>1, <4>2 DEF LastOK
      <3>. QED BY <3>1, <3>2
    <2>3. ASSUME NEW a \in BpmnProcesses, last'[a] # Null
          PROVE  /\ last'[a] \in Committed' \ suspended'
                 /\ request'[last'[a]].bpmn = a
                 /\ parallelism'[a] = request'[last'[a]].parallelism
      <3>1. CASE a = b
        BY <1>0, <1>2, <1>4, <1>5, <3>1
      <3>2. CASE a # b
        BY <1>0, <1>2, <1>4, <1>5, <2>3, <3>2 DEF LastOK
      <3>. QED BY <3>1, <3>2
    <2>. QED BY <2>1, <2>2, <2>3 DEF LastOK
  <1>. QED BY <1>6, <1>7, <1>8, <1>9 DEF RulesInv

LEMMA NextRules == RulesInv /\ [Next]_vars => RulesInv'
  <1>. SUFFICES ASSUME RulesInv, [Next]_vars PROVE RulesInv'
    OBVIOUS
  <1>0. RulesTypeOK /\ RequestsOK
    BY DEF RulesInv
  <1>1. ASSUME NEW d \in Deployments, NEW r \in Requests, CreateProcess(d, r)
        PROVE  RulesInv'
    BY <1>0, <1>1, QuietRules
       DEF CreateProcess, IsNext, RulesTypeOK, RequestsOK, Phases
  <1>2. ASSUME NEW d \in Deployments, CheckDefinitions(d) PROVE RulesInv'
    <2>1. \E p \in {"CHECKED", "LEFT", "GONE"} : phase' = [phase EXCEPT ![d] = p]
      BY <1>2 DEF CheckDefinitions
    <2>2. phase[d] = "INSERTED" /\ UNCHANGED <<request, suspending, rows>>
      BY <1>2 DEF CheckDefinitions
    <2>. QED BY <1>0, <2>1, <2>2, QuietRules DEF RulesTypeOK, RequestsOK, Phases
  <1>3. ASSUME NEW d \in Deployments, Rollback(d) PROVE RulesInv'
    BY <1>0, <1>3, QuietRules DEF Rollback, Running, RulesTypeOK, RequestsOK, Phases
  <1>4. CASE Restart
    BY <1>0, <1>4, QuietRules DEF Restart, Running, RulesTypeOK, RequestsOK, Phases
  <1>5. CASE UNCHANGED <<phase, request, suspending, suspended, parallelism, last>>
             /\ ticks' \subseteq ticks
    BY <1>0, <1>5 DEF RulesInv, RulesTypeOK, RequestsOK, StoredOK, LastOK, Committed, Unsuspended
  <1>6. ASSUME NEW d \in Deployments, Expire(d) \/ TriggerTimerStartEvent(d) PROVE RulesInv'
    BY <1>5, <1>6 DEF Expire, TriggerTimerStartEvent, rows
  <1>7. ASSUME NEW d, NEW k \in Keys, CreateProcessInstance(k, d) \/ ProcessNotFound(k)
        PROVE  RulesInv'
    BY <1>5, <1>7 DEF CreateProcessInstance, ProcessNotFound, rows
  <1>8. CASE UNCHANGED vars
    BY <1>5, <1>8 DEF vars, rows
  <1>. QED BY <1>1, <1>2, <1>3, <1>4, <1>6, <1>7, <1>8, StoreRules, CommitRules DEF Next

(* The version in force of a BPMN process is the one committed last, however  *)
(* its deployments overlap, fail, are refused or rolled back: its parallelism *)
(* is that of the queue, and the start events of all others are suspended.    *)
THEOREM LastRulesCorrect == Spec => []LastRules
  <1>1. RulesInv => LastRules
    <2>. SUFFICES ASSUME RulesInv PROVE LastRules
      OBVIOUS
    <2>1. ASSUME NEW d \in Committed PROVE d \notin suspended <=> d = last[request[d].bpmn]
      <3>1. request[d].bpmn \in BpmnProcesses /\ d # Null
        BY BpmnOf, ProcessesAssumption DEF RulesInv, RequestsOK, Committed
      <3>. QED BY <3>1 DEF RulesInv, LastOK
    <2>. QED BY <2>1 DEF RulesInv, LastOK, LastRules
  <1>. QED BY <1>1, InitRules, NextRules, PTL DEF Spec

LEMMA NextTicks == RulesInv /\ TimerTicks /\ [Next]_vars => TimerTicks'
  <1>. SUFFICES ASSUME RulesInv, TimerTicks, [Next]_vars,
                       NEW d \in (Committed \ suspended)', IsCycle(request[d])'
                PROVE  d \in ticks'
    BY DEF TimerTicks
  <1>0. RulesTypeOK /\ d \in Deployments /\ phase'[d] = "COMMITTED"
    BY DEF RulesInv, Committed
  <1>1. CASE CommitProcess(d)
    BY <1>0, <1>1 DEF CommitProcess, IsCycle, StartsByTimer
  <1>2. CASE d \in Committed \ suspended /\ request'[d] = request[d]
             /\ (IsCycle(request[d]) /\ d \in ticks => d \in ticks')
    BY <1>2 DEF TimerTicks
  <1>3. ASSUME d \in Committed, suspended \subseteq suspended', request'[d] = request[d],
               IsCycle(request[d]) /\ d \notin suspended /\ d \in ticks => d \in ticks'
        PROVE  d \in ticks'
    BY <1>2, <1>3
  <1>4. ASSUME NEW c \in Deployments, NEW r \in Requests, CreateProcess(c, r)
        PROVE  d \in ticks'
    <2>1. c # d
      BY <1>0, <1>4 DEF CreateProcess, RulesTypeOK
    <2>. QED BY <1>0, <1>3, <1>4, <2>1 DEF CreateProcess, RulesTypeOK, Committed, rows
  <1>5. ASSUME NEW c \in Deployments, CheckDefinitions(c) \/ StoreProcess(c) \/ Rollback(c)
        PROVE  d \in ticks'
    <2>1. /\ \E p \in {"CHECKED", "LEFT", "GONE", "STORED"} : phase' = [phase EXCEPT ![c] = p]
          /\ UNCHANGED <<request, rows>>
      BY <1>5 DEF CheckDefinitions, StoreProcess, Rollback
    <2>2. phase[d] = "COMMITTED"
      BY <1>0, <2>1 DEF RulesTypeOK
    <2>. QED BY <1>0, <1>3, <2>1, <2>2 DEF Committed, rows
  <1>6. ASSUME NEW c \in Deployments, CommitProcess(c), c # d PROVE d \in ticks'
    <2>1. phase[d] = "COMMITTED"
      BY <1>0, <1>6 DEF CommitProcess, RulesTypeOK
    <2>2. ticks \subseteq ticks' /\ suspended \subseteq suspended' /\ request' = request
      BY <1>6 DEF CommitProcess
    <2>. QED BY <1>0, <1>3, <2>1, <2>2 DEF Committed
  <1>7. ASSUME NEW c \in Deployments, TriggerTimerStartEvent(c) PROVE d \in ticks'
    BY <1>0, <1>3, <1>7 DEF TriggerTimerStartEvent, Committed
  <1>8. ASSUME UNCHANGED <<phase, request, rows>> PROVE d \in ticks'
    BY <1>0, <1>3, <1>8 DEF Committed, rows
  <1>9. CASE Restart
    <2>1. phase[d] = "COMMITTED"
      BY <1>0, <1>9 DEF Restart, RulesTypeOK
    <2>. QED BY <1>0, <1>3, <1>9, <2>1 DEF Restart, Committed, rows
  <1>10. ASSUME NEW c \in Deployments, Expire(c) PROVE d \in ticks'
    BY <1>8, <1>10 DEF Expire
  <1>11. ASSUME NEW c, NEW k \in Keys, CreateProcessInstance(k, c) \/ ProcessNotFound(k)
         PROVE  d \in ticks'
    BY <1>8, <1>11 DEF CreateProcessInstance, ProcessNotFound
  <1>12. CASE UNCHANGED vars
    BY <1>8, <1>12 DEF vars
  <1>. QED BY <1>1, <1>4, <1>5, <1>6, <1>7, <1>9, <1>10, <1>11, <1>12 DEF Next

(* The repeating timer of the version in force always has its next task due:  *)
(* no tick is lost with a deployment, a rollback or a restart.                *)
THEOREM TimerTicksOn == Spec => []TimerTicks
  BY InitRules, NextRules, NextTicks, PTL DEF Spec
-----------------------------------------------------------------------------
(* The cache of processes.                                                   *)

Distinct(s) == \A i, j \in 1 .. Len(s) : s[i] = s[j] => i = j

(* The cache, but for its size. *)
ListOK(c) ==
  /\ c \in Cache
  /\ Distinct(c.list) /\ ToSet(c.list) = c.processesById
  /\ c.expired \subseteq c.processesById
  /\ \A k \in Keys : c.processes[k] # Null =>
       c.processes[k] \in c.processesById /\ KeyOf(request[c.processes[k]]) = k

CacheOK(c) == ListOK(c) /\ Len(c.list) <= Capacity

(* What is cached has been requested, also if it has been rolled back since. *)
CachedOK == \A d \in cache.processesById : phase[d] # "NEW" /\ request[d] \in Requests

CacheInv == RulesInv /\ CacheOK(cache) /\ CachedOK

LEMMA CacheFields ==
  ASSUME NEW c \in Cache
  PROVE  /\ c.list \in Seq(Deployments) /\ c.processes \in [Keys -> Deployments \cup {Null}]
         /\ c.processesById \subseteq Deployments /\ c.expired \subseteq Deployments
  BY DEF Cache

(* Without the one that is removed the entries keep their order. *)
LEMMA RemovedList ==
  ASSUME NEW s \in Seq(Deployments), Distinct(s), NEW d \in ToSet(s)
  PROVE  LET t == Removed(s, d)
         IN  /\ t \in Seq(Deployments) /\ Len(t) = Len(s) - 1
             /\ Distinct(t) /\ ToSet(t) = ToSet(s) \ {d}
  <1>. DEFINE n == CHOOSE m \in 1 .. Len(s) : s[m] = d
              t == Removed(s, d)
              before == SubSeq(s, 1, n - 1)
              after == SubSeq(s, n + 1, Len(s))
  <1>1. n \in 1 .. Len(s) /\ s[n] = d
    BY DEF ToSet
  <1>2. t = before \o after
    BY DEF Removed, RemoveAt
  <1>. HIDE DEF n
  <1>3. /\ before \in Seq(Deployments) /\ Len(before) = n - 1
        /\ \A i \in 1 .. n - 1 : before[i] = s[i]
    BY <1>1
  <1>4. /\ after \in Seq(Deployments) /\ Len(after) = Len(s) - n
        /\ \A i \in 1 .. Len(s) - n : after[i] = s[n + i]
    BY <1>1
  <1>. HIDE DEF t, before, after
  <1>5. /\ t \in Seq(Deployments) /\ Len(t) = Len(s) - 1 /\ Len(s) \in Nat
        /\ \A i \in 1 .. Len(t) : t[i] = IF i <= n - 1 THEN before[i] ELSE after[i - (n - 1)]
    <2>1. /\ t \in Seq(Deployments) /\ Len(t) = Len(before) + Len(after)
          /\ \A i \in 1 .. Len(before) + Len(after) :
               t[i] = IF i <= Len(before) THEN before[i] ELSE after[i - Len(before)]
      BY <1>2, <1>3, <1>4, ConcatProperties
    <2>2. Len(s) \in Nat
      BY LenProperties
    <2>. QED BY <1>1, <1>3, <1>4, <2>1, <2>2
  <1>6. ASSUME NEW i \in 1 .. Len(t)
        PROVE  t[i] = IF i < n THEN s[i] ELSE s[i + 1]
    <2>1. CASE i < n
      BY <1>1, <1>3, <1>5, <2>1
    <2>2. CASE i >= n
      <3>1. PICK j \in 1 .. Len(s) - n : j = i - (n - 1)
        BY <1>1, <1>5, <2>2
      <3>2. t[i] = after[j] /\ after[j] = s[n + j] /\ n + j = i + 1
        BY <1>1, <1>4, <1>5, <2>2, <3>1
      <3>. QED BY <1>1, <2>2, <3>2
    <2>. QED BY <1>1, <2>1, <2>2
  <1>7. Distinct(t)
    <2>1. SUFFICES ASSUME NEW i \in 1 .. Len(t), NEW j \in 1 .. Len(t), t[i] = t[j]
                   PROVE  i = j
      BY DEF Distinct
    <2>2. PICK k \in 1 .. Len(s) : k = (IF i < n THEN i ELSE i + 1) /\ s[k] = t[i]
      BY <1>1, <1>5, <1>6
    <2>3. PICK l \in 1 .. Len(s) : l = (IF j < n THEN j ELSE j + 1) /\ s[l] = t[j]
      BY <1>1, <1>5, <1>6
    <2>4. k = l
      BY <2>1, <2>2, <2>3 DEF Distinct
    <2>. QED BY <1>1, <2>2, <2>3, <2>4
  <1>8. ASSUME NEW x PROVE x \in ToSet(t) <=> x \in ToSet(s) \ {d}
    <2>1. ASSUME x \in ToSet(t) PROVE x \in ToSet(s) \ {d}
      <3>1. PICK i \in 1 .. Len(t) : t[i] = x
        BY <1>5, <2>1 DEF ToSet
      <3>2. \E j \in 1 .. Len(s) : s[j] = x /\ j # n
        <4>1. CASE i < n
          <5>1. i \in 1 .. Len(s) /\ i # n /\ s[i] = x
            BY <1>1, <1>5, <1>6, <3>1, <4>1
          <5>. QED BY <5>1
        <4>2. CASE i >= n
          <5>1. i + 1 \in 1 .. Len(s) /\ i + 1 # n /\ s[i + 1] = x
            BY <1>1, <1>5, <1>6, <3>1, <4>2
          <5>. QED BY <5>1
        <4>. QED BY <1>1, <4>1, <4>2
      <3>. QED BY <1>1, <3>2 DEF ToSet, Distinct
    <2>2. ASSUME x \in ToSet(s) \ {d} PROVE x \in ToSet(t)
      <3>1. PICK j \in 1 .. Len(s) : s[j] = x /\ j # n
        BY <1>1, <2>2 DEF ToSet
      <3>2. PICK i \in 1 .. Len(t) : t[i] = x
        <4>1. CASE j < n
          <5>1. j \in 1 .. Len(t)
            BY <1>1, <1>5, <4>1
          <5>2. t[j] = x
            BY <1>1, <1>6, <3>1, <4>1, <5>1
          <5>. QED BY <5>1, <5>2
        <4>2. CASE j > n
          <5>1. j - 1 \in 1 .. Len(t) /\ t[j - 1] = x
            BY <1>1, <1>5, <1>6, <3>1, <4>2
          <5>. QED BY <5>1
        <4>. QED BY <1>1, <3>1, <4>1, <4>2
      <3>. QED BY <1>5, <3>2 DEF ToSet
    <2>. QED BY <2>1, <2>2
  <1>. QED BY <1>5, <1>7, <1>8 DEF t

(* An entry is put in front of the others. *)
LEMMA PushedList ==
  ASSUME NEW s \in Seq(Deployments), Distinct(s), NEW d \in Deployments, d \notin ToSet(s)
  PROVE  LET t == <<d>> \o s
         IN  /\ t \in Seq(Deployments) /\ Len(t) = Len(s) + 1
             /\ Distinct(t) /\ ToSet(t) = ToSet(s) \cup {d}
  <1>. DEFINE one == <<d>>
              t == one \o s
  <1>0. one \in Seq(Deployments) /\ Len(one) = 1 /\ one[1] = d
    OBVIOUS
  <1>. HIDE DEF one
  <1>1. t \in Seq(Deployments) /\ Len(t) = Len(s) + 1 /\ Len(s) \in Nat
    <2>1. t \in Seq(Deployments) /\ Len(t) = Len(one) + Len(s) /\ Len(s) \in Nat
      BY <1>0, ConcatProperties, LenProperties
    <2>. QED BY <1>0, <2>1
  <1>2. t[1] = d /\ \A i \in 1 .. Len(s) : t[i + 1] = s[i]
    <2>1. \A i \in 1 .. 1 + Len(s) : t[i] = IF i <= 1 THEN one[i] ELSE s[i - 1]
      <3>1. \A i \in 1 .. Len(one) + Len(s) :
              t[i] = IF i <= Len(one) THEN one[i] ELSE s[i - Len(one)]
        BY <1>0, ConcatProperties
      <3>. QED BY <1>0, <3>1
    <2>2. t[1] = d
      BY <1>0, <1>1, <2>1
    <2>3. ASSUME NEW i \in 1 .. Len(s) PROVE t[i + 1] = s[i]
      <3>1. PICK j \in 1 .. 1 + Len(s) : j = i + 1 /\ j - 1 = i /\ ~(j <= 1)
        BY <1>1
      <3>. QED BY <2>1, <3>1
    <2>. QED BY <2>2, <2>3
  <1>. HIDE DEF t
  <1>3. \A i \in 1 .. Len(t) : i # 1 => i - 1 \in 1 .. Len(s) /\ t[i] = s[i - 1]
    <2>1. ASSUME NEW i \in 1 .. Len(t), i # 1 PROVE i - 1 \in 1 .. Len(s)
      BY <1>1, <2>1
    <2>2. ASSUME NEW i \in 1 .. Len(t), i # 1 PROVE t[i] = s[i - 1]
      <3>1. PICK j \in 1 .. Len(s) : j = i - 1
        BY <2>1, <2>2
      <3>2. t[j + 1] = s[j] /\ j + 1 = i
        BY <1>1, <1>2, <3>1
      <3>. QED BY <3>1, <3>2
    <2>. QED BY <2>1, <2>2
  <1>4. \A i \in 1 .. Len(s) : s[i] # d
    BY DEF ToSet
  <1>5. Distinct(t)
    <2>1. SUFFICES ASSUME NEW i \in 1 .. Len(t), NEW j \in 1 .. Len(t), t[i] = t[j]
                   PROVE  i = j
      BY DEF Distinct
    <2>2. CASE i = 1 /\ j = 1
      BY <2>2
    <2>3. CASE i # 1 /\ j # 1
      <3>1. i - 1 = j - 1
        BY <1>3, <2>1, <2>3 DEF Distinct
      <3>. QED BY <1>1, <3>1
    <2>4. CASE i = 1 /\ j # 1
      BY <1>2, <1>3, <1>4, <2>1, <2>4
    <2>5. CASE i # 1 /\ j = 1
      BY <1>2, <1>3, <1>4, <2>1, <2>5
    <2>. QED BY <2>2, <2>3, <2>4, <2>5
  <1>6. ASSUME NEW x PROVE x \in ToSet(t) <=> x \in ToSet(s) \cup {d}
    <2>1. ASSUME x \in ToSet(t) PROVE x \in ToSet(s) \cup {d}
      <3>1. PICK i \in 1 .. Len(t) : t[i] = x
        BY <1>1, <2>1 DEF ToSet
      <3>. QED BY <1>2, <1>3, <3>1 DEF ToSet
    <2>2. ASSUME x \in ToSet(s) PROVE x \in ToSet(t)
      <3>1. PICK i \in 1 .. Len(s) : s[i] = x
        BY <2>2 DEF ToSet
      <3>2. i + 1 \in 1 .. Len(t) /\ t[i + 1] = x
        BY <1>1, <1>2, <3>1
      <3>. QED BY <1>1, <3>2 DEF ToSet
    <2>3. d \in ToSet(t)
      BY <1>1, <1>2 DEF ToSet
    <2>. QED BY <2>1, <2>2, <2>3
  <1>. QED BY <1>1, <1>5, <1>6 DEF t, one

LEMMA WithoutCache ==
  ASSUME NEW c, ListOK(c), NEW d \in c.processesById
  PROVE  /\ ListOK(Without(c, d)) /\ Len(Without(c, d).list) = Len(c.list) - 1
         /\ Without(c, d).processesById = c.processesById \ {d}
  <1>. DEFINE w == Without(c, d)
  <1>1. /\ c.list \in Seq(Deployments) /\ c.processes \in [Keys -> Deployments \cup {Null}]
        /\ c.processesById \subseteq Deployments /\ c.expired \subseteq c.processesById
        /\ Distinct(c.list) /\ ToSet(c.list) = c.processesById
        /\ \A k \in Keys : c.processes[k] # Null =>
             c.processes[k] \in c.processesById /\ KeyOf(request[c.processes[k]]) = k
    BY CacheFields DEF ListOK
  <1>2. /\ w.list = Removed(c.list, d) /\ w.processesById = c.processesById \ {d}
        /\ w.processes = [c.processes EXCEPT ![KeyOf(request[d])] = Null]
        /\ w.expired = c.expired \ {d}
        /\ w = [list |-> w.list, processes |-> w.processes,
                processesById |-> w.processesById, expired |-> w.expired]
    BY DEF Without
  <1>3. /\ w.list \in Seq(Deployments) /\ Len(w.list) = Len(c.list) - 1
        /\ Distinct(w.list) /\ ToSet(w.list) = ToSet(c.list) \ {d}
    BY <1>1, <1>2, RemovedList
  <1>. HIDE DEF w
  <1>4. \A k \in Keys : w.processes[k] \in {c.processes[k], Null}
                        /\ (KeyOf(request[d]) = k => w.processes[k] = Null)
    BY <1>1, <1>2
  <1>5. w \in Cache
    <2>1. w.processes \in [Keys -> Deployments \cup {Null}]
      BY <1>1, <1>2
    <2>. QED BY <1>1, <1>2, <1>3, <2>1 DEF Cache
  <1>6. \A k \in Keys : w.processes[k] # Null =>
          w.processes[k] \in w.processesById /\ KeyOf(request[w.processes[k]]) = k
    BY <1>1, <1>2, <1>4
  <1>. QED BY <1>1, <1>2, <1>3, <1>5, <1>6 DEF ListOK, w

LEMMA UsedCache ==
  ASSUME NEW c, ListOK(c), NEW d \in c.processesById
  PROVE  /\ ListOK(Used(c, d)) /\ Len(Used(c, d).list) = Len(c.list)
         /\ Used(c, d).processesById = c.processesById
  <1>. DEFINE u == Used(c, d)
              t == Removed(c.list, d)
  <1>1. /\ c \in Cache /\ c.list \in Seq(Deployments) /\ d \in Deployments
        /\ Distinct(c.list) /\ ToSet(c.list) = c.processesById
    BY CacheFields DEF ListOK
  <1>2. u = [c EXCEPT !.list = <<d>> \o t]
    BY DEF Used
  <1>3. /\ t \in Seq(Deployments) /\ Len(t) = Len(c.list) - 1
        /\ Distinct(t) /\ ToSet(t) = ToSet(c.list) \ {d}
    BY <1>1, RemovedList
  <1>. HIDE DEF t, u
  <1>4. /\ <<d>> \o t \in Seq(Deployments) /\ Len(<<d>> \o t) = Len(t) + 1
        /\ Distinct(<<d>> \o t) /\ ToSet(<<d>> \o t) = ToSet(t) \cup {d}
    BY <1>1, <1>3, PushedList
  <1>5. /\ u \in Cache /\ u.list = <<d>> \o t /\ u.processes = c.processes
        /\ u.processesById = c.processesById /\ u.expired = c.expired
    BY <1>1, <1>2, <1>4 DEF Cache
  <1>6. Len(u.list) = Len(c.list)
    <2>1. Len(c.list) \in Nat
      BY <1>1
    <2>. QED BY <1>3, <1>4, <1>5, <2>1
  <1>7. ToSet(u.list) = u.processesById
    BY <1>1, <1>3, <1>4, <1>5, Zenon
  <1>. QED BY <1>1, <1>4, <1>5, <1>6, <1>7 DEF ListOK, u

LEMMA PutCache ==
  ASSUME NEW c, CacheOK(c), NEW d \in Deployments, request[d] \in Requests
  PROVE  CacheOK(Put(c, d)) /\ Put(c, d).processesById \subseteq c.processesById \cup {d}
  <1>0. /\ c \in Cache /\ c.list \in Seq(Deployments) /\ c.processes \in [Keys -> Deployments \cup {Null}]
        /\ c.processesById \subseteq Deployments /\ c.expired \subseteq c.processesById
        /\ Distinct(c.list) /\ ToSet(c.list) = c.processesById /\ ListOK(c)
        /\ Len(c.list) <= Capacity /\ Capacity \in Nat
        /\ \A k \in Keys : c.processes[k] # Null =>
             c.processes[k] \in c.processesById /\ KeyOf(request[c.processes[k]]) = k
    BY CacheFields, ProcessesAssumption DEF CacheOK, ListOK
  <1>1. CASE d \in c.processesById
    <2>. DEFINE u == Used(c, d)
                p == [u EXCEPT !.expired = @ \ {d}]
    <2>1. ListOK(u) /\ Len(u.list) <= Capacity /\ u.processesById = c.processesById
      BY <1>0, <1>1, UsedCache
    <2>2. Put(c, d) = p
      BY <1>1 DEF Put
    <2>. HIDE DEF u
    <2>3. /\ p \in Cache /\ p.list = u.list /\ p.processes = u.processes
          /\ p.processesById = u.processesById /\ p.expired = u.expired \ {d}
      BY <2>1 DEF ListOK, Cache
    <2>. HIDE DEF p
    <2>4. CacheOK(p)
      BY <2>1, <2>3 DEF CacheOK, ListOK
    <2>. QED BY <2>1, <2>2, <2>3, <2>4
  <1>2. CASE d \notin c.processesById
    <2>. DEFINE all == Added(c, d)
                key == KeyOf(request[d])
    <2>1. key \in Keys /\ d # Null
      BY ProcessesAssumption DEF Keys
    <2>2. /\ all.list = <<d>> \o c.list /\ all.processesById = c.processesById \cup {d}
          /\ all.processes = [c.processes EXCEPT ![key] = d]
          /\ all.expired = c.expired
          /\ all = [list |-> all.list, processes |-> all.processes,
                    processesById |-> all.processesById, expired |-> all.expired]
      BY DEF Added
    <2>3. /\ all.list \in Seq(Deployments) /\ Len(all.list) = Len(c.list) + 1
          /\ Distinct(all.list) /\ ToSet(all.list) = ToSet(c.list) \cup {d}
      BY <1>0, <1>2, <2>2, PushedList
    <2>. HIDE DEF all
    <2>4. /\ all.processes \in [Keys -> Deployments \cup {Null}]
          /\ \A k \in Keys : all.processes[k] = IF k = key THEN d ELSE c.processes[k]
      <3>. HIDE DEF key
      <3>. QED BY <1>0, <2>1, <2>2
    <2>5. all \in Cache
      BY <1>0, <2>2, <2>3, <2>4 DEF Cache
    <2>6. \A k \in Keys : all.processes[k] # Null =>
            all.processes[k] \in all.processesById /\ KeyOf(request[all.processes[k]]) = k
      BY <1>0, <2>2, <2>4
    <2>7. ListOK(all)
      BY <1>0, <2>2, <2>3, <2>5, <2>6 DEF ListOK
    <2>8. CASE Len(all.list) > Capacity
      <3>. DEFINE x == Last(all.list)
      <3>1. Put(c, d) = Without(all, x)
        BY <1>2, <2>8 DEF Put, all
      <3>2. x \in all.processesById
        <4>1. Len(all.list) \in DOMAIN all.list
          BY <1>0, <2>3
        <4>. QED BY <1>0, <2>2, <2>3, <4>1 DEF ToSet, Last
      <3>. HIDE DEF x
      <3>3. /\ ListOK(Without(all, x)) /\ Len(Without(all, x).list) = Len(c.list)
            /\ Without(all, x).processesById \subseteq all.processesById
        BY <1>0, <2>3, <2>7, <3>2, WithoutCache
      <3>. QED BY <1>0, <2>2, <3>1, <3>3 DEF CacheOK
    <2>9. CASE ~(Len(all.list) > Capacity)
      <3>1. Put(c, d) = all
        BY <1>2, <2>9 DEF Put, all
      <3>. QED BY <1>0, <2>2, <2>3, <2>7, <2>9, <3>1 DEF CacheOK
    <2>. QED BY <2>8, <2>9
  <1>. QED BY <1>1, <1>2
(* Both ways to get an entry: it is used, or it has expired and goes. *)
LEMMA GetByIdCache ==
  ASSUME NEW c, CacheOK(c), NEW d \in c.processesById
  PROVE  CacheOK(GetById(c, d)) /\ GetById(c, d).processesById \subseteq c.processesById
  <1>1. ListOK(c) /\ Len(c.list) \in Nat /\ Len(c.list) <= Capacity /\ Capacity \in Nat
    BY CacheFields, LenProperties, ProcessesAssumption DEF CacheOK, ListOK
  <1>2. CASE d \in c.expired
    <2>1. GetById(c, d) = Without(c, d)
      BY <1>2 DEF GetById
    <2>. QED BY <1>1, <2>1, WithoutCache DEF CacheOK
  <1>3. CASE d \notin c.expired
    <2>1. GetById(c, d) = Used(c, d)
      BY <1>3 DEF GetById
    <2>. QED BY <1>1, <2>1, UsedCache DEF CacheOK
  <1>. QED BY <1>2, <1>3

LEMMA WithoutIsSmaller ==
  ASSUME NEW c, CacheOK(c), NEW d \in c.processesById
  PROVE  CacheOK(Without(c, d)) /\ Without(c, d).processesById \subseteq c.processesById
  <1>1. ListOK(c) /\ Len(c.list) \in Nat /\ Len(c.list) <= Capacity /\ Capacity \in Nat
    BY CacheFields, LenProperties, ProcessesAssumption DEF CacheOK, ListOK
  <1>. QED BY <1>1, WithoutCache DEF CacheOK

LEMMA EmptyCache == CacheOK(NewProcessCache) /\ NewProcessCache.processesById = {}
  <1>1. NewProcessCache.list = <<>> /\ NewProcessCache.processesById = {}
        /\ NewProcessCache.expired = {} /\ \A k \in Keys : NewProcessCache.processes[k] = Null
    BY DEF NewProcessCache
  <1>2. NewProcessCache \in Cache
    BY DEF NewProcessCache, Cache
  <1>3. Len(<<>>) = 0 /\ ToSet(<<>>) = {}
    BY DEF ToSet
  <1>4. Distinct(NewProcessCache.list)
    BY <1>1, <1>3 DEF Distinct
  <1>. QED BY <1>1, <1>2, <1>3, <1>4, ProcessesAssumption DEF CacheOK, ListOK

(* Of a process in the cache the key cannot change any more. *)
LEMMA NextCached ==
  ASSUME NEW c, CacheOK(c), cache' = c,
         \A d \in c.processesById :
           phase[d] # "NEW" /\ request[d] \in Requests
             /\ phase'[d] # "NEW" /\ request'[d] = request[d]
  PROVE  CacheOK(cache)' /\ CachedOK'
  <1>1. \A k \in Keys : c.processes[k] # Null =>
          c.processes[k] \in c.processesById /\ KeyOf(request'[c.processes[k]]) = k
    BY DEF CacheOK, ListOK
  <1>2. CachedOK'
    BY DEF CachedOK
  <1>. QED BY <1>1, <1>2 DEF CacheOK, ListOK

LEMMA CacheSteps ==
  ASSUME CacheInv, [Next]_vars
  PROVE  CacheOK(cache)' /\ CachedOK'
  <1>0. /\ RulesTypeOK /\ RequestsOK /\ CacheOK(cache)
        /\ cache.processesById \subseteq Deployments /\ cache.expired \subseteq cache.processesById
        /\ \A d \in cache.processesById : phase[d] # "NEW" /\ request[d] \in Requests
    BY CacheFields DEF CacheInv, RulesInv, CacheOK, ListOK, CachedOK
  <1>1. ASSUME NEW d \in Deployments, NEW r \in Requests, CreateProcess(d, r)
        PROVE  CacheOK(cache)' /\ CachedOK'
    <2>1. cache' = cache /\ d \notin cache.processesById
      BY <1>0, <1>1 DEF CreateProcess, IsNext
    <2>2. \A e \in cache.processesById : phase'[e] = phase[e] /\ request'[e] = request[e]
      BY <1>0, <1>1, <2>1 DEF CreateProcess, RulesTypeOK
    <2>. QED BY <1>0, <2>1, <2>2, NextCached
  <1>2. ASSUME NEW c, cache' = c, CacheOK(c), request' = request,
               \A d \in Deployments : phase[d] # "NEW" => phase'[d] # "NEW",
               \A d \in c.processesById :
                 d \in cache.processesById
                   \/ (d \in Deployments /\ phase[d] # "NEW" /\ request[d] \in Requests)
        PROVE  CacheOK(cache)' /\ CachedOK'
    BY <1>0, <1>2, NextCached
  <1>3. ASSUME NEW d \in Deployments, CheckDefinitions(d) \/ CommitProcess(d) \/ Rollback(d)
        PROVE  CacheOK(cache)' /\ CachedOK'
    <2>1. /\ \E p \in {"CHECKED", "LEFT", "GONE", "COMMITTED"} : phase' = [phase EXCEPT ![d] = p]
          /\ request' = request /\ cache' = cache
      BY <1>3 DEF CheckDefinitions, CommitProcess, Rollback
    <2>2. \A e \in Deployments : phase[e] # "NEW" => phase'[e] # "NEW"
      BY <1>0, <2>1 DEF RulesTypeOK
    <2>. QED BY <1>0, <1>2, <2>1, <2>2
  <1>4. ASSUME NEW d \in Deployments, StoreProcess(d)
        PROVE  CacheOK(cache)' /\ CachedOK'
    <2>1. phase[d] = "CHECKED" /\ request[d] \in Requests
      BY <1>0, <1>4 DEF StoreProcess, RequestsOK
    <2>2. CacheOK(Put(cache, d)) /\ Put(cache, d).processesById \subseteq cache.processesById \cup {d}
      BY <1>0, <2>1, PutCache
    <2>3. /\ cache' = Put(cache, d) /\ request' = request
          /\ phase' = [phase EXCEPT ![d] = "STORED"]
      BY <1>4 DEF StoreProcess
    <2>4. \A e \in Deployments : phase[e] # "NEW" => phase'[e] # "NEW"
      BY <1>0, <2>3 DEF RulesTypeOK
    <2>. QED BY <1>0, <1>2, <2>1, <2>2, <2>3, <2>4
  <1>5. ASSUME NEW d \in Deployments, Expire(d)
        PROVE  CacheOK(cache)' /\ CachedOK'
    <2>. DEFINE c == [cache EXCEPT !.expired = @ \cup {d}]
    <2>1. /\ c \in Cache /\ c.list = cache.list /\ c.processes = cache.processes
          /\ c.processesById = cache.processesById /\ c.expired = cache.expired \cup {d}
      BY <1>0, <1>5 DEF Expire, CacheOK, ListOK, Cache
    <2>2. cache' = c /\ request' = request /\ phase' = phase /\ d \in cache.processesById
      BY <1>5 DEF Expire
    <2>. HIDE DEF c
    <2>3. CacheOK(c)
      BY <1>0, <2>1, <2>2 DEF CacheOK, ListOK
    <2>. QED BY <1>2, <2>1, <2>2, <2>3
  <1>6. ASSUME NEW d \in Deployments, TriggerTimerStartEvent(d)
        PROVE  CacheOK(cache)' /\ CachedOK'
    <2>. DEFINE c == IF d \in cache.processesById THEN GetById(cache, d) ELSE cache
    <2>1. request' = request /\ phase' = phase /\ GetOrCacheById(d)
      BY <1>6 DEF TriggerTimerStartEvent
    <2>2. CacheOK(c) /\ c.processesById \subseteq cache.processesById
      BY <1>0, GetByIdCache
    <2>3. \/ cache' = c
          \/ d \in Stored \ c.processesById /\ cache' = Put(c, d)
      BY <2>1 DEF GetOrCacheById
    <2>. HIDE DEF c
    <2>4. CASE cache' = c
      BY <1>2, <2>1, <2>2, <2>4
    <2>5. CASE d \in Stored /\ cache' = Put(c, d)
      <3>1. phase[d] # "NEW" /\ request[d] \in Requests
        BY <1>0, <2>5 DEF Stored, RequestsOK
      <3>2. CacheOK(Put(c, d)) /\ Put(c, d).processesById \subseteq c.processesById \cup {d}
        BY <2>2, <3>1, PutCache
      <3>. QED BY <1>2, <2>1, <2>2, <2>5, <3>1, <3>2
    <2>. QED BY <2>3, <2>4, <2>5
  <1>7. ASSUME NEW k \in Keys
        PROVE  CacheOK(Missed(k)) /\ Missed(k).processesById \subseteq cache.processesById
    <2>1. CASE cache.processes[k] = Null
      BY <1>0, <2>1 DEF Missed
    <2>2. CASE cache.processes[k] # Null
      <3>1. cache.processes[k] \in cache.processesById /\ Missed(k) = Without(cache, cache.processes[k])
        BY <1>0, <2>2 DEF Missed, CacheOK, ListOK
      <3>. QED BY <1>0, <3>1, WithoutIsSmaller
    <2>. QED BY <2>1, <2>2
  <1>8. ASSUME NEW d \in Deployments, NEW k \in Keys, CreateProcessInstance(k, d)
        PROVE  CacheOK(cache)' /\ CachedOK'
    <2>1. request' = request /\ phase' = phase /\ GetOrCache(k, d)
      BY <1>8 DEF CreateProcessInstance
    <2>2. CASE ~IsMissed(k) /\ d = cache.processes[k] /\ cache' = Used(cache, d)
      <3>1. d \in cache.processesById /\ d \notin cache.expired
        BY <1>0, <2>2 DEF IsMissed, CacheOK, ListOK
      <3>2. cache' = GetById(cache, d)
        BY <2>2, <3>1 DEF GetById
      <3>3. CacheOK(GetById(cache, d)) /\ GetById(cache, d).processesById \subseteq cache.processesById
        BY <1>0, <3>1, GetByIdCache
      <3>. QED BY <1>2, <2>1, <3>2, <3>3
    <2>3. CASE d \in RowsOf(k) /\ cache' = Put(Missed(k), d)
      <3>. DEFINE c == Missed(k)
      <3>0. CacheOK(c) /\ c.processesById \subseteq cache.processesById
        BY <1>7
      <3>. HIDE DEF c
      <3>1. phase[d] # "NEW" /\ request[d] \in Requests
        BY <1>0, <2>3 DEF RowsOf, Stored, RequestsOK
      <3>2. CacheOK(Put(c, d)) /\ Put(c, d).processesById \subseteq c.processesById \cup {d}
        BY <3>0, <3>1, PutCache
      <3>3. cache' = Put(c, d)
        BY <2>3 DEF c
      <3>. QED BY <1>2, <2>1, <3>0, <3>1, <3>2, <3>3
    <2>. QED BY <2>1, <2>2, <2>3 DEF GetOrCache
  <1>9. ASSUME NEW k \in Keys, ProcessNotFound(k)
        PROVE  CacheOK(cache)' /\ CachedOK'
    BY <1>2, <1>7, <1>9 DEF ProcessNotFound
  <1>10. CASE Restart
    <2>1. cache' = NewProcessCache /\ request' = request
      BY <1>10 DEF Restart
    <2>2. \A e \in Deployments : phase[e] # "NEW" => phase'[e] # "NEW"
      BY <1>10 DEF Restart
    <2>. QED BY <1>2, <2>1, <2>2, EmptyCache
  <1>11. CASE UNCHANGED vars
    BY <1>0, <1>2, <1>11 DEF vars
  <1>. QED BY <1>1, <1>3, <1>4, <1>5, <1>6, <1>8, <1>9, <1>10, <1>11 DEF Next

LEMMA NextCache == CacheInv /\ [Next]_vars => CacheInv'
  BY CacheSteps, NextRules DEF CacheInv

LEMMA InitCache == Init => CacheInv
  <1>. SUFFICES ASSUME Init PROVE CacheInv
    OBVIOUS
  <1>1. cache = NewProcessCache
    BY DEF Init
  <1>2. CacheOK(cache) /\ CachedOK
    BY <1>1, EmptyCache DEF CachedOK
  <1>. QED BY <1>2, InitRules DEF CacheInv

(* A list without duplicates is as long as its set is large. *)
LEMMA DistinctLength ==
  ASSUME NEW s \in Seq(Deployments), Distinct(s)
  PROVE  Len(s) = Cardinality(ToSet(s))
  <1>1. Len(s) \in Nat /\ s \in [1 .. Len(s) -> Deployments] /\ DOMAIN s = 1 .. Len(s)
    BY LenProperties
  <1>2. s \in [1 .. Len(s) -> ToSet(s)]
    BY <1>1 DEF ToSet
  <1>3. s \in Bijection(1 .. Len(s), ToSet(s))
    BY <1>1, <1>2 DEF Distinct, ToSet, Bijection, Injection, Surjection, IsInjective
  <1>4. ExistsBijection(1 .. Len(s), ToSet(s))
    BY <1>3 DEF ExistsBijection
  <1>. QED BY <1>1, <1>4, FS_CountingElements

(* The cache of processes, its list and its two maps, stays consistent       *)
(* through every Get, GetById, Put, Remove and expiry, also of processes     *)
(* that were put there by a deployment which is rolled back (process.go),    *)
(* and never exceeds its capacity.                                           *)
THEOREM CacheCorrect == Spec => []CacheIsConsistent
  <1>1. CacheInv => CacheIsConsistent
    <2>. SUFFICES ASSUME CacheInv PROVE CacheIsConsistent
      OBVIOUS
    <2>1. Len(cache.list) = Cardinality(ToSet(cache.list))
      BY CacheFields, DistinctLength DEF CacheInv, CacheOK, ListOK
    <2>. QED BY <2>1 DEF CacheInv, CacheOK, ListOK, CacheIsConsistent
  <1>. QED BY <1>1, InitCache, NextCache, PTL DEF Spec
=============================================================================
