-------------------------- MODULE ProcessExecution --------------------------
(***************************************************************************)
(* How a process instance is executed: engine/internal/execution.go with   *)
(* graph.go, the part of event.go and error.go that starts boundary        *)
(* events, and the commands and tasks that call continueExecutions.        *)
(*                                                                         *)
(* A command or task is a transaction that holds the row of the process    *)
(* instance.  It fills a list of executions and continues them one by one, *)
(* while the list grows and loses entries, until it can commit: one step   *)
(* of Continue is one iteration of that loop.  The rows of element         *)
(* instances change with the commit only.                                  *)
(*                                                                         *)
(* One root process instance is modelled, with tasks and sub-processes,    *)
(* also as multi-instances, with exclusive, inclusive and parallel         *)
(* gateways, error and timer boundary events, error end events and events  *)
(* that are passed through.  Whether a thrown error code is the one of a   *)
(* boundary event is left open, and so is which paths and how many         *)
(* instances a worker chooses.  Workers, retries and incidents are those   *)
(* of Jobs and Tasks: here a row has a number of open jobs and tasks.      *)
(***************************************************************************)
EXTENDS Integers, Sequences, FiniteSets, SequencesExt

CONSTANTS
  Graph,          \* node of each BPMN element of the processes
  MaySuspend,     \* the processes whose instances are ever suspended
  AnyOrder,       \* may rows be selected in any order, or by their ids only?
  MaxRows,        \* bound on the rows before a timer cycle or loop goes on
  MaxLoop,        \* bound on the loop cardinality a worker chooses
  Null

Elements == DOMAIN Graph
Processes == {e \in Elements : Graph[e].type = "process"}
Activities == {"task", "subProcess"}
BoundaryEvents == {"errorBoundary", "timerBoundary"}
ElementTypes == Activities \cup BoundaryEvents \cup
  {"process", "startEvent", "event", "errorEnd", "exclusive", "inclusive", "parallel"}

(* A multi-instance has the loop cardinality 0 if a worker decides on it, and *)
(* default is the index of a sequence flow, or 0.                             *)
Node == [type: ElementTypes, scope: Elements \cup {Null}, outgoing: Seq(Elements),
         boundary: Seq(Elements), defined: BOOLEAN, interrupting: BOOLEAN,
         default: Nat, multiple: BOOLEAN, loop: Nat, sequential: BOOLEAN]

ASSUME GraphAssumption ==
  /\ Null \notin Elements
  /\ \A e \in Elements : Graph[e] \in Node
  /\ \A e \in Elements : Graph[e].scope = Null <=> e \in Processes

(* What the parser puts together, and validateProcess and CreateProcessInstance *)
(* ask for.                                                                     *)
ASSUME ValidAssumption ==
  \A e \in Elements :
    /\ Graph[e].type \in {"process", "subProcess"} =>
         \E s \in Elements : Graph[s].type = "startEvent" /\ Graph[s].scope = e
    /\ \A b \in Range(Graph[e].boundary) : Graph[b].type \in BoundaryEvents
    /\ Graph[e].multiple => Graph[e].type \in Activities

(* BPMN has no sequence flows into processes and boundary events. *)
ASSUME FlowAssumption ==
  \A e \in Elements : \A f \in Range(Graph[e].outgoing) :
    Graph[f].type \notin {"process"} \cup BoundaryEvents

ASSUME BoundAssumption ==
  AnyOrder \in BOOLEAN /\ MaySuspend \subseteq Processes /\ {MaxRows, MaxLoop} \subseteq Nat

VARIABLES
  rows,           \* the committed element instances, by their ids
  instance,       \* State of the process instance, "NONE" before its creation
  tx,             \* the executionContext of the transaction that runs, or Null
  failures        \* history: why transactions have been rolled back

vars == <<rows, instance, tx, failures>>

Ended == {"COMPLETED", "TERMINATED"}
InstanceState == {"NEW", "QUEUED", "CREATED", "STARTED", "SUSPENDED"} \cup Ended

(* An element instance.  Of prev_id and prev_element_id 0 and Null are the   *)
(* NULLs; context says if Context is valid: the error code, or the timer, of *)
(* an event has been set, or the loop cardinality of a multi-instance.  The  *)
(* rows of a multi-instance are one that is multi, which boundary events are *)
(* attached to, and, within it, one for each of its activities.              *)
Row == [element: Elements, parent: Nat, prev: Nat, from: Elements \cup {Null}, multi: BOOLEAN,
        state: InstanceState, count: Int, context: BOOLEAN, work: Nat]

NewRow(e, parent, prev, from) ==
  [element |-> e, parent |-> parent, prev |-> prev, from |-> from, multi |-> Graph[e].multiple,
   state |-> "NEW", count |-> 0, context |-> FALSE, work |-> 0]

Type(r) == Graph[r.element].type
Outgoing(r) == Graph[r.element].outgoing
IsActive(r) == r.state \notin Ended
IsActivity(r) == Type(r) \in Activities
IsMultiInstanceActivity(r) == Graph[r.element].multiple /\ ~r.multi
IsBoundaryEvent(r) == Type(r) \in BoundaryEvents

(* Sequence flows into e: the k-th of each source. *)
Incoming(e) ==
  UNION {{<<f, k>> : k \in {l \in DOMAIN Graph[f].outgoing : Graph[f].outgoing[l] = e}} :
           f \in Elements}

StartEvent(e) == CHOOSE s \in Elements : Graph[s].type = "startEvent" /\ Graph[s].scope = e

-----------------------------------------------------------------------------

(* Operators named Mutant... are mistaken variants of the operator that       *)
(* follows them; some property of this module fails for each of them.         *)

(* The state of a transaction, a context, has the entities by their ids (new *)
(* ones get theirs in the order of their creation, which is that of their    *)
(* insertion), the list of executions, where 0 is a nil entry, the index of  *)
(* the next one and the state of the process instance.                       *)
IsNew(x) == x > Len(rows)

(* Ids in ascending and in descending order. *)
Ids(S) ==
  [k \in 1..Cardinality(S) |-> CHOOSE x \in S : Cardinality({y \in S : y < x}) = k - 1]
ReversedIds(S) == Reverse(Ids(S))

(* addExecution: what has an id is in the list once. *)
AddExecutions(c, S) ==
  [c EXCEPT !.list =
     [k \in DOMAIN @ |-> IF @[k] \in S /\ ~IsNew(@[k]) THEN 0 ELSE @[k]] \o Ids(S)]

AddExecution(c, x) == AddExecutions(c, {x})

SetState(c, x, s) == [c EXCEPT !.entities[x].state = s]
AddCount(c, x, n) == [c EXCEPT !.entities[x].count = @ + n]

(* New executions within the scope s, one after the other. *)
Branches(c, s, new) ==
  [AddCount(c, s, Len(new)) EXCEPT
     !.entities = @ \o [k \in DOMAIN new |->
                          [new[k] EXCEPT !.multi = @ /\ ~c.entities[s].multi]],
     !.list = @ \o [k \in DOMAIN new |-> Len(c.entities) + k]]

(* One new execution at e. *)
Branch(c, s, e) == Branches(c, s, <<NewRow(e, s, 0, Null)>>)

MutantTakeOutgoing(c, s, x) ==   \* where an execution comes from is not kept
  LET outgoing == Outgoing(c.entities[x])
  IN  Branches(c, s, [k \in DOMAIN outgoing |-> NewRow(outgoing[k], s, 0, Null)])

(* The execution x goes on along its outgoing sequence flows.  A parallel    *)
(* gateway is told where it is reached from.                                 *)
TakeOutgoing(c, s, x) ==
  LET r == c.entities[x]
      taken(e) == IF Graph[e].type = "parallel"
                  THEN NewRow(e, s, x, r.element) ELSE NewRow(e, s, 0, Null)
  IN  Branches(c, s, [k \in DOMAIN Outgoing(r) |-> taken(Outgoing(r)[k])])

(* How many boundary events an activity has to wait for. *)
Undefined(r) ==
  LET boundary == Graph[r.element].boundary
  IN  Cardinality({k \in DOMAIN boundary : ~Graph[boundary[k]].defined})

AttachBoundaryEvents(c, s, x) ==
  LET r == c.entities[x]
      boundary == Graph[r.element].boundary
      attached == [k \in DOMAIN boundary |-> NewRow(boundary[k], s, x, r.element)]
  IN  AddCount(Branches(c, s, attached), x, -Undefined(r))

(* A sub-process is started within the scope s, which may be suspended. *)
EnterSubProcess(c, s, x) ==
  Branch(SetState(c, x, c.entities[s].state), x, StartEvent(c.entities[x].element))

MutantStartMultiInstance(c, x, n) ==   \* none waits for the one before it
  LET started == [SetState(c, x, "STARTED") EXCEPT !.entities[x].context = TRUE]
  IN  Branches(started, x, [k \in 1..n |-> NewRow(c.entities[x].element, x, 0, Null)])

(* n activities, which are linked if they are run one after the other. *)
StartMultiInstance(c, x, n) ==
  LET e == c.entities[x].element
      started == [SetState(c, x, "STARTED") EXCEPT !.entities[x].context = TRUE]
      linked(k) == Graph[e].sequential /\ k > 1
      before(k) == IF linked(k) THEN Len(c.entities) + k - 1 ELSE 0
  IN  Branches(started, x, [k \in 1..n |-> NewRow(e, x, before(k), Null)])

-----------------------------------------------------------------------------

(* nextState of an execution that is not ended *)

MutantHeld(r) == FALSE   \* nothing is held back by a suspended scope

(* A suspended scope holds back what is new. *)
Held(r) == IF Type(r) = "errorEnd" THEN ~r.context ELSE r.state = "NEW"

Prepares(r) ==
  \/ /\ IsActivity(r) /\ ~IsMultiInstanceActivity(r)
     /\ r.state \in {"NEW", "SUSPENDED"} \/ r.count < 0
  \/ IsMultiInstanceActivity(r) /\ r.state = "NEW" /\ r.prev # 0
  \/ IsBoundaryEvent(r)
  \/ Type(r) = "errorEnd" /\ ~Graph[r.element].defined /\ r.state # "CREATED"

Waits(r) ==
  \/ IsActivity(r) \/ r.state = "CREATED"
  \/ Type(r) \in {"exclusive", "inclusive"} /\ Len(Outgoing(r)) > 1
  \/ Type(r) = "parallel" /\ Cardinality(Incoming(r.element)) > 1
  \/ Type(r) = "errorEnd" /\ Graph[r.element].defined

NextState(scope, r) ==
  IF scope.state = "QUEUED" THEN "QUEUED"
  ELSE IF r.state = "STARTED" THEN "COMPLETED"
  ELSE IF scope.state = "SUSPENDED" /\ Held(r) THEN "SUSPENDED"
  ELSE IF Prepares(r) THEN "CREATED"
  ELSE IF Waits(r) THEN "STARTED"
  ELSE "COMPLETED"

Started(c, s, x) ==
  LET r == c.entities[x]
  IN  IF Type(r) = "subProcess" /\ ~IsMultiInstanceActivity(r)
      THEN EnterSubProcess(c, s, x) ELSE SetState(c, x, "STARTED")

Created(c, s, x) ==
  LET r == c.entities[x]
      d == AttachBoundaryEvents(c, s, x)
  IN  IF ~IsActivity(r) \/ IsMultiInstanceActivity(r) THEN SetState(c, x, "CREATED")
      ELSE IF d.entities[x].count = 0 THEN Started(d, s, x)
      ELSE SetState(d, x, "CREATED")

Completed(c, s, x) ==
  LET d == AddCount(SetState(c, x, "COMPLETED"), s, -1)
  IN  IF IsMultiInstanceActivity(c.entities[x]) THEN d ELSE TakeOutgoing(d, s, x)

(* continueExecution *)
ContinueExecution(c, s, x) ==
  LET r == c.entities[x]
      next == NextState(c.entities[s], r)
  IN  CASE ~IsActive(r)                                -> AddCount(c, s, -1)
        [] IsActive(r) /\ r.state = next               -> c
        [] IsActive(r) /\ r.state # next /\ next = "CREATED"   -> Created(c, s, x)
        [] IsActive(r) /\ r.state # next /\ next = "STARTED"   -> Started(c, s, x)
        [] IsActive(r) /\ r.state # next /\ next = "COMPLETED" -> Completed(c, s, x)
        [] OTHER                                       -> SetState(c, x, next)

NextMultiInstanceState(scope, r) ==
  IF r.state = "STARTED" THEN IF r.context THEN "STARTED" ELSE "COMPLETED"
  ELSE IF r.state = "NEW" /\ scope.state = "SUSPENDED" THEN "SUSPENDED"
  ELSE "CREATED"

(* A multi-instance whose boundary events are set starts, if the model says  *)
(* with how many activities.                                                 *)
Prepared(c, x) ==
  LET r == c.entities[x]
      loop == Graph[r.element].loop
  IN  IF r.count = 0 /\ loop > 0 THEN StartMultiInstance(c, x, loop) ELSE c

(* Parallel gateways are not told that a multi-instance has come to them. *)
CompletedMultiInstance(c, s, x) ==
  LET outgoing == Outgoing(c.entities[x])
  IN  Branches(AddCount(SetState(c, x, "COMPLETED"), s, -1), s,
               [k \in DOMAIN outgoing |-> NewRow(outgoing[k], s, 0, Null)])

(* continueMultiInstanceExecution.  Context is cleared, for the job that     *)
(* ends the multi-instance to be created, when all its activities have ended.*)
ContinueMultiInstance(c, s, x) ==
  LET r == c.entities[x]
      next == NextMultiInstanceState(c.entities[s], r)
  IN  CASE r.state = "TERMINATED" -> AddCount(c, s, -1)
        [] r.state = next /\ next = "CREATED" -> Prepared(c, x)
        [] r.state = next /\ next = "STARTED" -> [c EXCEPT !.entities[x].context = FALSE]
        [] r.state # next /\ r.state # "TERMINATED" /\ next = "CREATED" ->
             Prepared(AttachBoundaryEvents(SetState(c, x, "CREATED"), s, x), x)
        [] r.state # next /\ r.state # "TERMINATED" /\ next = "COMPLETED" ->
             CompletedMultiInstance(c, s, x)
        [] OTHER -> SetState(c, x, next)

(* Committed element instances that are attached to x, or come after it in a *)
(* sequence, and are not triggered.                                          *)
AttachedTo(x) == {b \in DOMAIN rows : rows[b].prev = x /\ rows[b].state = "CREATED"}

(* The next activity of a sequential multi-instance goes on. *)
ContinueSequence(c, x) ==
  LET r == c.entities[x]
      next == IF IsMultiInstanceActivity(r) /\ r.state = "COMPLETED" /\ Graph[r.element].sequential
              THEN AttachedTo(x) ELSE {}
  IN  AddExecutions(c, next)

MutantEndBoundaryEvents(c, x) == c   \* they stay attached

(* The boundary events of a completed activity are read and terminated. *)
EndBoundaryEvents(c, x) ==
  LET r == c.entities[x]
      ended == IF IsActivity(r) /\ r.state = "COMPLETED" /\ ~IsMultiInstanceActivity(r)
               THEN AttachedTo(x) ELSE {}
      terminated(y) == [rows[y] EXCEPT !.state = "TERMINATED"]
  IN  AddExecutions([c EXCEPT !.entities =
                       [y \in DOMAIN @ |-> IF y \in ended THEN terminated(y) ELSE @[y]]], ended)

(* A scope whose last execution has ended goes on itself. *)
EndScope(c, s) ==
  IF c.entities[s].count # 0 THEN c
  ELSE IF Type(c.entities[s]) = "process"
       THEN [SetState(c, s, "COMPLETED") EXCEPT !.instance = "COMPLETED"]
  ELSE IF c.entities[s].state = "STARTED" THEN AddExecution(c, s)
  ELSE c

(* findScope looks for the id of the parent in the list, where new entities  *)
(* have the id 0, as has the parent of the process.                          *)
ScopeOf(c, x) ==
  LET new == {k \in DOMAIN c.list : IsNew(c.list[k])}
  IN  IF c.entities[x].parent # 0 THEN c.entities[x].parent
      ELSE IF new = {} THEN 0
      ELSE c.list[CHOOSE k \in new : \A l \in new : k <= l]

(* A scope that is not in the list is read and added to it. *)
WithScope(c, s) ==
  IF \E k \in DOMAIN c.list : c.list[k] = s THEN c ELSE AddExecution(c, s)

-----------------------------------------------------------------------------

(* Transactions *)

Current == tx.list[tx.next]

Continue ==
  /\ tx # Null /\ tx.next <= Len(tx.list)
  /\ Current # 0
  /\ LET c == [tx EXCEPT !.next = @ + 1]
         s == ScopeOf(tx, Current)
     IN  \/ /\ tx.entities[Current].count > 0
            /\ tx' = c
         \/ /\ tx.entities[Current].count <= 0
            /\ s # 0
            /\ LET d == WithScope(c, s)
                   continued == IF d.entities[Current].multi
                                THEN ContinueMultiInstance(d, s, Current)
                                ELSE ContinueExecution(d, s, Current)
               IN  tx' = EndScope(EndBoundaryEvents(ContinueSequence(continued, Current), Current), s)
  /\ UNCHANGED <<rows, instance, failures>>

Rollback(cause) ==
  /\ tx' = Null
  /\ failures' = failures \cup {cause}
  /\ UNCHANGED <<rows, instance>>

(* A nil entry of the list is dereferenced. *)
ContinueNil ==
  /\ tx # Null /\ tx.next <= Len(tx.list)
  /\ Current = 0
  /\ Rollback("NIL")

(* The parent of the process scope cannot be selected. *)
ContinueProcess ==
  /\ tx # Null /\ tx.next <= Len(tx.list)
  /\ Current # 0
  /\ tx.entities[Current].count <= 0 /\ ScopeOf(tx, Current) = 0
  /\ Rollback("SCOPE")

Events == BoundaryEvents \cup {"errorEnd"}

MutantNeedsWork(r) ==   \* boundary events are forgotten
  /\ r.count = 0 /\ ~r.context
  /\ \/ r.state = "STARTED"
     \/ r.state = "CREATED" /\ (r.multi \/ Type(r) = "errorEnd")

(* A job or task is created for an execution that waits for one: an activity *)
(* that is started, a multi-instance that starts or ends, a gateway or an    *)
(* event.                                                                    *)
NeedsWork(r) ==
  /\ r.count = 0 /\ ~r.context
  /\ r.state = "STARTED" \/ (r.state = "CREATED" /\ (r.multi \/ ~IsActivity(r)))

WithWork(r) ==
  [r EXCEPT !.context = Type(r) \in Events /\ Graph[r.element].defined,
            !.work = @ + (IF Type(r) = "errorBoundary" /\ Graph[r.element].defined THEN 0 ELSE 1)]

(* What is left of the jobs and tasks of ended executions will be canceled. *)
Inserted(x) ==
  LET r == tx.entities[x]
      listed == \E k \in DOMAIN tx.list : tx.list[k] = x
  IN  IF ~IsActive(r) THEN [r EXCEPT !.work = 0]
      ELSE IF listed /\ NeedsWork(r) THEN WithWork(r)
      ELSE r

Commit ==
  /\ tx # Null /\ tx.next > Len(tx.list)
  /\ rows' = [x \in DOMAIN tx.entities |-> Inserted(x)]
  /\ instance' = tx.instance
  /\ tx' = Null
  /\ UNCHANGED failures

(* A command or task begins to continue the executions of its list. *)
Begin(c) ==
  /\ tx' = c
  /\ UNCHANGED <<rows, instance, failures>>

Context(entities, list) ==
  [entities |-> entities, list |-> list, next |-> 1, instance |-> instance]

-----------------------------------------------------------------------------

(* Commands and tasks *)

Init == rows = <<>> /\ instance = "NONE" /\ tx = Null /\ failures = {}

(* CreateProcessInstance: with a free slot, or queued *)
CreateProcessInstance(process, state) ==
  /\ tx = Null /\ instance = "NONE"
  /\ LET scope == [NewRow(process, 0, 0, Null) EXCEPT !.state = state]
         created == [Context(<<scope>>, <<1>>) EXCEPT !.instance = state]
     IN  Begin(Branch(created, 1, StartEvent(process)))

(* The rows in the state of the process instance, whose scopes are started. *)
Awaken ==
  \E order \in IF AnyOrder THEN SetToSeqs({x \in DOMAIN rows : rows[x].state = instance})
               ELSE {Ids({x \in DOMAIN rows : rows[x].state = instance})} :
    LET awake(x) == rows[x].state = instance /\ rows[x].count > 0
        entities == [x \in DOMAIN rows |->
                       [rows[x] EXCEPT !.state = IF awake(x) THEN "STARTED" ELSE @]]
    IN  Begin([Context(entities, order) EXCEPT !.instance = "STARTED"])

(* StartProcessInstanceTask *)
StartProcessInstance == tx = Null /\ instance = "QUEUED" /\ Awaken

ResumeProcessInstance == tx = Null /\ instance = "SUSPENDED" /\ Awaken

(* SuspendProcessInstance: nothing is continued *)
SuspendProcessInstance ==
  /\ tx = Null /\ instance = "STARTED"
  /\ rows[1].element \in MaySuspend
  /\ rows' = [x \in DOMAIN rows |->
               IF rows[x].state = "STARTED" /\ rows[x].count > 0
               THEN [rows[x] EXCEPT !.state = "SUSPENDED"] ELSE rows[x]]
  /\ instance' = "SUSPENDED"
  /\ UNCHANGED <<tx, failures>>

(* A job or task of an active execution x is executed. *)
Work(x, types) ==
  /\ tx = Null /\ instance \notin Ended
  /\ x \in DOMAIN rows
  /\ rows[x].work > 0 /\ IsActive(rows[x])
  /\ Type(rows[x]) \in types

Worked(x) == [rows EXCEPT ![x].work = @ - 1]
Parent(x) == rows[x].parent

(* CompleteJob, EXECUTE, or END_MULTI_INSTANCE *)
CompleteTask(x) ==
  /\ Work(x, Activities)
  /\ \/ Type(rows[x]) = "task" /\ ~rows[x].multi
     \/ rows[x].multi /\ rows[x].state = "STARTED"
  /\ Begin(Context(Worked(x), <<Parent(x), x>>))

(* CompleteJob, START_MULTI_INSTANCE, with a loop cardinality *)
CompleteStartMultiInstance(x) ==
  /\ Work(x, Activities) /\ rows[x].multi /\ rows[x].state = "CREATED"
  /\ Len(rows) < MaxRows
  /\ \E n \in 0..MaxLoop :
       Begin(StartMultiInstance(Context(Worked(x), <<Parent(x), x>>), x, n))

(* ContinueExecutionTask of a sub-process within a multi-instance *)
ContinueSubProcess(x) ==
  /\ Work(x, {"subProcess"}) /\ ~rows[x].multi
  /\ Begin(EnterSubProcess(Context(Worked(x), <<Parent(x), x>>), Parent(x), x))

(* CompleteJob, EVALUATE_EXCLUSIVE_GATEWAY: createExecutionAt the decision *)
EvaluateExclusiveGateway(x) ==
  /\ Work(x, {"exclusive"})
  /\ Len(rows) < MaxRows
  /\ \E k \in DOMAIN Outgoing(rows[x]) :
       LET c == SetState(Context(Worked(x), <<Parent(x), x>>), x, "COMPLETED")
       IN  Begin(Branch(c, Parent(x), Outgoing(rows[x])[k]))

(* CompleteJob, EVALUATE_INCLUSIVE_GATEWAY: the default is always taken *)
EvaluateInclusiveGateway(x) ==
  /\ Work(x, {"inclusive"})
  /\ Len(rows) < MaxRows
  /\ \E decision \in SUBSET DOMAIN Outgoing(rows[x]) \ {{}} :
       LET default == Graph[rows[x].element].default
           c == SetState(Context(Worked(x), <<Parent(x), x>>), x, "COMPLETED")
           taken(k) == NewRow(Outgoing(rows[x])[k], Parent(x), 0, Null)
       IN  /\ default = 0 \/ default \in decision
           /\ Begin(Branches(c, Parent(x), [k \in DOMAIN Ids(decision) |-> taken(Ids(decision)[k])]))

(* CompleteJob, SET_ERROR_CODE or SET_TIMER of a boundary event, for which a *)
(* timer inserts its TRIGGER_EVENT task.                                     *)
SetBoundaryEvent(x) ==
  /\ Work(x, BoundaryEvents) /\ ~rows[x].context
  /\ LET entities == IF Type(rows[x]) = "timerBoundary" THEN rows ELSE Worked(x)
         c == Context([entities EXCEPT ![x].context = TRUE], <<Parent(x), x>>)
     IN  Begin(AddExecution(AddCount(c, rows[x].prev, 1), rows[x].prev))

(* CompleteJob, SET_ERROR_CODE of an error end event: its job is followed by *)
(* a TRIGGER_EVENT task.                                                     *)
SetErrorEndEvent(x) ==
  /\ Work(x, {"errorEnd"}) /\ ~rows[x].context
  /\ Begin(Context([rows EXCEPT ![x].context = TRUE], <<Parent(x), x>>))

MutantBelow(a) == {a}   \* an interrupted sub-process leaves its executions

(* What is within a, by parents all of whom are rows of W: a itself, and a    *)
(* row of W whose parent is within a.                                         *)
Within(a, W) ==
  LET within[x \in DOMAIN rows] == x = a \/ (x \in W /\ within[rows[x].parent])
  IN  {x \in DOMAIN rows : within[x]}

(* Row a and everything active below it. *)
Below(a) ==
  Within(a, {x \in DOMAIN rows : /\ IsActive(rows[x]) /\ rows[x].parent # 0
                                /\ rows[rows[x].parent].count > 0})

(* startBoundaryEvent, interrupting, with the executions <<s, b>>: the other *)
(* boundary events, what b is attached to and all below it are terminated,   *)
(* children before their scopes.                                             *)
Interrupted(s, b) ==
  LET a == rows[b].prev
      ended == Below(a) \cup (AttachedTo(a) \ {b})
      entities == [x \in DOMAIN rows |->
                     IF x \in ended THEN [rows[x] EXCEPT !.state = "TERMINATED"]
                     ELSE IF x = b THEN [rows[x] EXCEPT !.state = "STARTED"]
                     ELSE rows[x]]
  IN  Context(entities, ReversedIds(ended \cup {s, b}))

(* If s itself is terminated, its first entry is nil when it is read. *)
StartBoundaryEvent(s, b, c) ==
  \/ s \notin Below(rows[b].prev) /\ Begin(c)
  \/ s \in Below(rows[b].prev) /\ tx = Null /\ Rollback("NIL")

(* Error boundary events of x and of the scopes around it: which of them     *)
(* catches an error, if any, depends on the codes.                           *)
ErrorBoundaryEvents(x) ==
  {b \in DOMAIN rows :
     /\ Type(rows[b]) = "errorBoundary" /\ rows[b].state = "CREATED"
     /\ x \in Within(rows[b].prev, {y \in DOMAIN rows : rows[y].parent # 0})}

(* CompleteJob, EXECUTE with an error code that some boundary event catches. *)
(* If none does, the job has failed.                                         *)
ThrowError(x) ==
  /\ Work(x, {"task"}) /\ ~rows[x].multi
  /\ \E b \in ErrorBoundaryEvents(x) : StartBoundaryEvent(Parent(x), b, Interrupted(Parent(x), b))

(* TriggerEventTask of an error end event *)
TriggerErrorEndEvent(x) ==
  /\ Work(x, {"errorEnd"}) /\ rows[x].context
  /\ \/ Begin(Context(Worked(x), <<Parent(x), x>>))
     \/ \E b \in ErrorBoundaryEvents(x) :
          LET c == Interrupted(Parent(b), b)
              caught == \E k \in DOMAIN c.list : c.list[k] = x
          IN  StartBoundaryEvent(Parent(b), b, IF caught THEN SetState(c, x, "COMPLETED") ELSE c)

MutantReattached(b) ==   \* the scope does not count it
  LET new == [rows[b] EXCEPT !.work = 1]
      c == SetState(Context(Worked(b), <<Parent(b), b>>), b, "STARTED")
  IN  [c EXCEPT !.entities = Append(@, new), !.list = Append(@, Len(rows) + 1)]

(* A new boundary event takes the place of b, with a task of its own. *)
Reattached(b) ==
  LET new == [rows[b] EXCEPT !.work = 1]
      c == SetState(Context(Worked(b), <<Parent(b), b>>), b, "STARTED")
  IN  [AddCount(c, Parent(b), 1) EXCEPT
         !.entities = Append(@, new), !.list = Append(@, Len(rows) + 1)]

(* TriggerEventTask of a timer boundary event *)
TriggerTimerBoundaryEvent(b) ==
  /\ Work(b, {"timerBoundary"}) /\ rows[b].context
  /\ \/ Graph[rows[b].element].interrupting /\ Begin(Interrupted(Parent(b), b))
     \/ /\ ~Graph[rows[b].element].interrupting
        /\ Len(rows) < MaxRows
        /\ Begin(Reattached(b))

AtSameGateway(x) ==
  {y \in DOMAIN rows : /\ rows[y].element = rows[x].element
                       /\ rows[y].parent = Parent(x) /\ rows[y].state = rows[x].state}

MutantWaiting(x) == Ids(AtSameGateway(x))   \* not x first

(* The executions that wait at the same gateway as x, x first. *)
Waiting(x) == <<x>> \o Ids(AtSameGateway(x) \ {x})

(* Those that joinParallelGateway picks: for each incoming sequence flow one *)
(* that has come from its source.                                            *)
Joined(x) ==
  LET waiting == Waiting(x)
      from(k) == rows[waiting[k]].from
      capacity(e) == Cardinality({f \in Incoming(rows[x].element) : f[1] = e})
      rank(k) == Cardinality({l \in 1..k : from(l) = from(k)})
      picked == {k \in DOMAIN waiting : rank(k) <= capacity(from(k))}
  IN  [k \in 1..Cardinality(picked) |-> waiting[Ids(picked)[k]]]

MutantJoinParallelGateway(x) ==   \* off by one: never enough to join
  /\ Work(x, {"parallel"})
  /\ rows' = Worked(x)
  /\ UNCHANGED <<instance, tx, failures>>

(* JoinParallelGatewayTask.  Of the picked executions all but x complete. *)
JoinParallelGateway(x) ==
  /\ Work(x, {"parallel"})
  /\ LET joined == Joined(x)
         completed == Range(joined) \ {x}
         entities == [y \in DOMAIN rows |->
                        IF y \in completed THEN [rows[y] EXCEPT !.state = "COMPLETED"]
                        ELSE Worked(x)[y]]
     IN  \/ /\ Len(joined) = Cardinality(Incoming(rows[x].element))
            /\ Begin(Context(entities, <<Parent(x)>> \o joined))
         \/ /\ Len(joined) < Cardinality(Incoming(rows[x].element))
            /\ rows' = Worked(x)
            /\ UNCHANGED <<instance, tx, failures>>

WorkOn(x) ==
  \/ CompleteTask(x) \/ ThrowError(x)
  \/ CompleteStartMultiInstance(x) \/ ContinueSubProcess(x)
  \/ EvaluateExclusiveGateway(x) \/ EvaluateInclusiveGateway(x)
  \/ SetBoundaryEvent(x) \/ SetErrorEndEvent(x)
  \/ TriggerErrorEndEvent(x) \/ TriggerTimerBoundaryEvent(x)
  \/ JoinParallelGateway(x)

Run == Continue \/ ContinueNil \/ ContinueProcess \/ Commit

Next ==
  \/ \E process \in Processes, state \in {"STARTED", "QUEUED"} :
       CreateProcessInstance(process, state)
  \/ StartProcessInstance \/ SuspendProcessInstance \/ ResumeProcessInstance
  \/ \E x \in DOMAIN rows : WorkOn(x)
  \/ Run

Spec == Init /\ [][Next]_vars

(* The engine finishes its transactions and executes its tasks, workers lock *)
(* and complete jobs again and again, and no process instance is left        *)
(* suspended.  A transaction of another command only delays these.  The      *)
(* first conjunct is WF_vars(Run): Run is enabled while there is a           *)
(* transaction.                                                              *)
Fairness ==
  /\ []<>(tx = Null) \/ []<><<Run>>_vars
  /\ SF_vars(StartProcessInstance) /\ SF_vars(ResumeProcessInstance)
  /\ SF_vars(\E x \in DOMAIN rows : WorkOn(x))

FairSpec == Spec /\ Fairness

-----------------------------------------------------------------------------

Contexts == [entities: Seq(Row), list: Seq(Nat), next: Nat \ {0}, instance: InstanceState]

TypeOK ==
  /\ rows \in Seq(Row)
  /\ instance \in InstanceState \cup {"NONE"}
  /\ tx = Null \/ tx \in Contexts
  /\ failures \subseteq {"NIL", "SCOPE"}

(* The properties below are about what transactions leave behind. *)
Children(x) == {y \in DOMAIN rows : rows[y].parent = x /\ IsActive(rows[y])}
Unset(x) ==
  {b \in DOMAIN rows : /\ rows[b].prev = x /\ IsBoundaryEvent(rows[b]) /\ IsActive(rows[b])
                       /\ ~Graph[rows[b].element].defined /\ ~rows[b].context}

(* ExecutionCount, which decides when a scope ends and when an activity      *)
(* starts, is the number of the active executions within a scope, or minus   *)
(* the number of the boundary events an activity still waits for, those held *)
(* back while suspended among them, whatever happens in parallel within the  *)
(* scope or interrupts it.                                                   *)
CountIsChildren ==
  \A x \in DOMAIN rows : IsActive(rows[x]) =>
    rows[x].count = Cardinality(Children(x)) - Cardinality(Unset(x))

(* What is active is within an active scope: an interrupted or completed     *)
(* scope leaves nothing behind, and a process instance ends with its last    *)
(* execution.                                                                *)
NoOrphans ==
  /\ \A x \in DOMAIN rows : IsActive(rows[x]) =>
       \/ rows[x].element \in Processes /\ rows[x].state = instance
       \/ rows[x].element \notin Processes /\ IsActive(rows[Parent(x)])
  /\ instance \in Ended => \A x \in DOMAIN rows : ~IsActive(rows[x])

(* Each started activity has one triggerable execution of each boundary      *)
(* event attached, and nothing but an active activity has.                   *)
BoundaryEventsAttached ==
  /\ \A x \in DOMAIN rows :
       /\ IsActivity(rows[x]) /\ ~IsMultiInstanceActivity(rows[x])
       /\ rows[x].state \in {"CREATED", "STARTED"}
       => \A e \in Range(Graph[rows[x].element].boundary) :
            Cardinality({b \in AttachedTo(x) : rows[b].element = e}) = 1
  /\ \A b \in DOMAIN rows : IsBoundaryEvent(rows[b]) /\ IsActive(rows[b]) =>
       IsActive(rows[rows[b].prev])

IsJoin(r) == Type(r) = "parallel" /\ r.state = "STARTED"

(* Everything active can go on: it has exactly one open job or task, or      *)
(* waits for what is within or attached to it, to be resumed or started, to  *)
(* be triggered by an error, or to be joined.                                *)
NothingIsStuck ==
  \A x \in DOMAIN rows : IsActive(rows[x]) =>
    LET r == rows[x]
    IN  \/ r.work = 1 /\ r.state \in {"CREATED", "STARTED"}
        \/ /\ r.work = 0
           /\ \/ r.count # 0
              \/ r.state \in {"SUSPENDED", "QUEUED"} /\ r.state = instance
              \/ Type(r) = "errorBoundary" /\ r.context
              \/ IsJoin(r)
              \/ /\ IsMultiInstanceActivity(r) /\ r.prev # 0
                 /\ IsActive(rows[r.prev])

(* No join is missed: when an execution has arrived by each incoming flow of *)
(* a parallel gateway, one of them has a task that will join them.           *)
NoMissedJoin ==
  \A x \in DOMAIN rows : IsJoin(rows[x]) =>
    \/ Len(Joined(x)) < Cardinality(Incoming(rows[x].element))
    \/ \E y \in Range(Joined(x)) : rows[y].work > 0

(* "Continues a parallel gateway by joining executions" (model.go): each     *)
(* execution that waits at a join counts for one of its incoming flows.      *)
WaitsForItsFlow ==
  \A x \in DOMAIN rows : IsJoin(rows[x]) =>
    \E f \in Incoming(rows[x].element) : f[1] = rows[x].from

(* A multi-instance has each of its activities once, as often as the model   *)
(* says, and one of a sequence has not begun before those before it have     *)
(* completed, whatever is suspended or interrupted in between.               *)
ActivitiesRunOnce ==
  \A x \in DOMAIN rows : rows[x].multi =>
    LET node == Graph[rows[x].element]
        activities == {y \in DOMAIN rows : Parent(y) = x}
    IN  /\ node.loop > 0 => Cardinality(activities) \in {0, node.loop}
        /\ node.sequential =>
             \A y, z \in activities :
               y < z /\ rows[z].state \notin {"CREATED", "TERMINATED"}
               => rows[y].state = "COMPLETED"

(* What has ended stays as it is. *)
EndedForGood ==
  [][\A x \in DOMAIN rows : ~IsActive(rows[x]) => rows'[x] = rows[x]]_vars

(* "ResumeProcessInstance resumes a suspended process instance" (engine.go): *)
(* a sub-process that has been entered is not entered a second time.         *)
EnteredOnce ==
  \A x, y \in DOMAIN rows :
    /\ Type(rows[x]) = "startEvent" /\ Type(rows[y]) = "startEvent"
    /\ Parent(x) = Parent(y)
    => x = y

(* execution.go: "continues each execution until a wait state is reached or  *)
(* no more outgoing sequence flows exist", which does not fail.              *)
NeverFails == failures = {}

(* A nil entry of the list of executions is never dereferenced. *)
NeverNil == "NIL" \notin failures

(* Every process instance ends, if its timers fire, its jobs are completed   *)
(* and it is resumed.                                                        *)
InstanceEnds == instance # "NONE" ~> instance \in Ended
=============================================================================
