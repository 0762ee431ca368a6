-------------------------------- MODULE Calls --------------------------------
(***************************************************************************)
(* Process instances that call each other: the call activity of            *)
(* element_instance.go, the errors and escalations of error.go and         *)
(* escalation.go that leave a called process, the user tasks of            *)
(* user_task.go, and the termination of process_instance.go.               *)
(*                                                                         *)
(* Instance 1 is the root, and instance i + 1 is the one that the call     *)
(* activity of instance i calls.  Next to its call activity an instance    *)
(* executes some leaves in parallel: tasks, user tasks, and events that    *)
(* throw.  The boundary events are the ones of the call activities, and an *)
(* execution that leaves one ends.                                         *)
(*                                                                         *)
(* A command or task is a transaction that holds the row of one process    *)
(* instance.  What it reads of another instance is not locked: a search    *)
(* for a boundary event and the commit that uses its result are two steps. *)
(* How executions continue within an instance is in ProcessExecution, its  *)
(* queue in ProcessInstanceQueue, the locks of jobs and tasks, and their   *)
(* retries, in Jobs and Tasks.                                             *)
(***************************************************************************)
EXTENDS Integers, FiniteSets

CONSTANTS
  Depth,          \* number of process instances
  Leaves,
  LevelOf,        \* the instance of each leaf
  Models,         \* what kinds of element the leaves may be
  Boundaries,
  Boundary,       \* the model of each; an "event" is a timer, message or signal
  Codes,          \* error and escalation codes
  AnyCode,        \* the empty code
  Clients,        \* workers that update user tasks
  Observed,       \* the one of them whose reads may be old
  MaxThrown,      \* bound on the codes a task or user task throws
  MaxRevision,    \* bound on the revision of a user task that stays started
  MaxRepeats,     \* bound on how often an event that does not interrupt is triggered
  Null

Instances == 1..Depth
Callers == 1..(Depth - 1)
EndEvents == {"errorEnd", "escalationEnd"}
ThrowEvents == EndEvents \cup {"escalationThrow"}
Kinds == ThrowEvents \cup {"task", "userTask"}

ASSUME CallsAssumption ==
  /\ Depth \in Nat \ {0}
  /\ LevelOf \in [Leaves -> Instances] /\ Leaves \cap Boundaries = {}
  /\ Models \subseteq [Leaves -> Kinds]
  /\ Boundary \in [Boundaries -> [level: Callers, type: {"error", "escalation", "event"},
                                  interrupting: BOOLEAN, defined: BOOLEAN,
                                  code: Codes \cup {AnyCode}]]
  /\ \A b \in Boundaries : Boundary[b].type = "error" => Boundary[b].interrupting
  /\ Observed \in Clients /\ AnyCode \notin Codes
  /\ Null \notin Clients \cup Boundaries \cup Codes \cup {AnyCode}
  /\ MaxThrown \in Nat /\ MaxRevision \in Nat /\ MaxRepeats \in Nat

VARIABLES
  kind,           \* the kind of each leaf
  instance,       \* state of each process instance
  call,           \* state of each call activity
  leaf,           \* state and code of each leaf
  attached,       \* the last instance of each boundary event
  jobs,           \* jobs that have not been completed
  tasks,          \* tasks that have not been completed
  userTask,       \* the user task of each leaf, and Null if there is none
  seen,           \* what the observed client has read last
  tx,             \* the boundary event a transaction has found
  ignored         \* history: an escalation has not continued at a boundary event

vars == <<kind, instance, call, leaf, attached, jobs, tasks, userTask, seen, tx, ignored>>

Ended == {"COMPLETED", "TERMINATED"}
Active == {"QUEUED", "CREATED", "STARTED"}
InstanceState == {"NONE"} \cup Active \cup Ended

(* Only the n-th instance of a boundary event may be CREATED.                *)
Attached == [n: Nat, state: InstanceState, code: Codes \cup {AnyCode, Null}]

(* The engine is Null in UpdatedBy.                                          *)
UserTask == [state: {"STARTED", "COMPLETED", "TERMINATED"}, revision: Nat,
             by: Clients \cup {Null}]

ASSUME NullAssumption == Null \notin UserTask

Job == [type: {"EXECUTE", "SET_CODE"}, of: Leaves] \cup [type: {"SET_CODE"}, of: Boundaries]
       \cup [type: {"CALL_PROCESS", "PASS_VARIABLES"}, of: Callers]
TriggerEvent == [boundary: Boundaries, n: Nat, code: Codes, from: Leaves, nth: Nat]
TerminateProcessInstance == [instance: Instances]

Found == [leaf: Leaves, code: Codes, boundary: Boundaries \cup {Null}, n: Nat,
          client: Clients \cup {Null}]

TypeOK ==
  /\ kind \in Models
  /\ instance \in [Instances -> InstanceState]
  /\ call \in [Callers -> InstanceState]
  /\ leaf \in [Leaves -> [state: InstanceState, code: Codes \cup {Null}, thrown: Nat]]
  /\ attached \in [Boundaries -> Attached]
  /\ jobs \subseteq Job
  /\ tasks \subseteq TriggerEvent \cup TerminateProcessInstance
  /\ userTask \in [Leaves -> UserTask \cup {Null}]
  /\ seen \in [leaf: Leaves, row: UserTask] \cup {Null}
  /\ tx \in [Instances -> Found \cup {Null}]
  /\ ignored \in BOOLEAN

-----------------------------------------------------------------------------
LeavesOf(i) == {l \in Leaves : LevelOf[l] = i}
BoundariesOf(i) == {b \in Boundaries : Boundary[b].level = i}

NewJob(type, of) == [type |-> type, of |-> of]
Termination(i) == [instance |-> i]

(* What the transaction of a step writes: the rows of all instances.  A step *)
(* starts with Rows and commits the rows it ends with.                       *)
Rows == [instance |-> instance, call |-> call, leaf |-> leaf, attached |-> attached,
         jobs |-> jobs, tasks |-> tasks, userTask |-> userTask]

Write(r) ==
  /\ instance' = r.instance /\ call' = r.call /\ leaf' = r.leaf
  /\ attached' = r.attached /\ jobs' = r.jobs /\ tasks' = r.tasks
  /\ userTask' = r.userTask

(* A call activity whose boundary events all have a code is started.  (Of an *)
(* event, the code stands for the timer that is set, or the subscription.)   *)
StartCall(i, r) ==
  IF \E b \in BoundariesOf(i) : r.attached[b].code = Null THEN r
  ELSE [r EXCEPT !.call[i] = "STARTED", !.jobs = @ \cup {NewJob("CALL_PROCESS", i)}]

(* The elements of instance i are started or, while a worker has to tell the *)
(* code of a boundary event or throw event, created.                         *)
Enter(i, r) ==
  LET Entered(l) ==
        [state |-> IF kind[l] \in ThrowEvents THEN "CREATED" ELSE "STARTED",
         code |-> Null, thrown |-> 0]
      entered ==
        [r EXCEPT
          !.instance[i] = "STARTED",
          !.leaf = [l \in Leaves |-> IF l \in LeavesOf(i) THEN Entered(l) ELSE @[l]],
          !.userTask = [l \in Leaves |->
             IF l \in LeavesOf(i) /\ kind[l] = "userTask"
             THEN [state |-> "STARTED", revision |-> 1, by |-> Null] ELSE @[l]],
          !.jobs = @ \cup {NewJob("EXECUTE", l) : l \in {k \in LeavesOf(i) : kind[k] = "task"}}
                     \cup {NewJob("SET_CODE", l) : l \in {k \in LeavesOf(i) : kind[k] \in ThrowEvents}}]
      called ==
        [entered EXCEPT
          !.call[i] = "CREATED",
          !.attached = [b \in Boundaries |-> IF b \notin BoundariesOf(i) THEN @[b]
             ELSE [n |-> 1, state |-> "CREATED",
                   code |-> IF Boundary[b].defined THEN Boundary[b].code ELSE Null]],
          !.jobs = @ \cup {NewJob("SET_CODE", b) :
                             b \in {a \in BoundariesOf(i) : ~Boundary[a].defined}}]
  IN IF i \in Callers THEN StartCall(i, called) ELSE entered

(* Nothing is left to execute in instance i: it completes, and a worker may  *)
(* pass variables to the caller.                                             *)
Complete(i, r) ==
  IF \/ \E l \in LeavesOf(i) : r.leaf[l].state \notin Ended
     \/ i \in Callers /\ r.call[i] \notin Ended
  THEN r
  ELSE [r EXCEPT !.instance[i] = "COMPLETED",
                 !.jobs = @ \cup (IF i = 1 THEN {} ELSE {NewJob("PASS_VARIABLES", i - 1)})]

(* A queued instance is left in its queue.                                   *)
MutantTerminateTask(i, r) ==
  IF i \in Callers /\ r.call[i] \in Active /\ r.instance[i + 1] = "STARTED"
  THEN {Termination(i + 1)} ELSE {}

TerminateTask(i, r) ==
  IF i \in Callers /\ r.call[i] \in Active /\ r.instance[i + 1] \in Active
  THEN {Termination(i + 1)} ELSE {}

(* The boundary events of call activity i that wait are terminated.          *)
Detached(i, at) ==
  [b \in Boundaries |-> IF b \in BoundariesOf(i) /\ at[b].state = "CREATED"
                        THEN [at[b] EXCEPT !.state = "TERMINATED"] ELSE at[b]]

TerminatedUserTask(row) ==
  [state |-> "TERMINATED", revision |-> row.revision + 1, by |-> Null]

terminateProcessInstance(i, r) ==
  [r EXCEPT
    !.tasks = @ \cup TerminateTask(i, r),
    !.instance[i] = "TERMINATED",
    !.leaf = [l \in Leaves |-> IF l \in LeavesOf(i) /\ @[l].state \in Active
                               THEN [@[l] EXCEPT !.state = "TERMINATED"] ELSE @[l]],
    !.call = [c \in Callers |-> IF c = i /\ @[c] \in Active THEN "TERMINATED" ELSE @[c]],
    !.attached = Detached(i, @),
    !.userTask = [l \in Leaves |->
       IF l \in LeavesOf(i) /\ @[l] # Null /\ @[l].state = "STARTED"
       THEN TerminatedUserTask(@[l]) ELSE @[l]]]

(* The other boundary events stay where they are.                            *)
MutantStartBoundaryEvent(b, r) ==
  LET i == Boundary[b].level
      done == [r EXCEPT !.attached[b].state = "COMPLETED"]
  IN IF ~Boundary[b].interrupting
     THEN [r EXCEPT !.attached[b].n = @ + 1]
     ELSE Complete(i, [done EXCEPT
            !.tasks = @ \cup TerminateTask(i, r), !.call[i] = "TERMINATED"])

(* The boundary event b, started by its n-th instance, continues.  Another   *)
(* instance is attached, or the call activity is terminated.                 *)
startBoundaryEvent(b, r) ==
  LET i == Boundary[b].level
      done == [r EXCEPT !.attached[b].state = "COMPLETED"]
  IN IF ~Boundary[b].interrupting
     THEN [r EXCEPT !.attached[b].n = @ + 1]
     ELSE Complete(i, [done EXCEPT
            !.tasks = @ \cup TerminateTask(i, r),
            !.call[i] = "TERMINATED",
            !.attached = Detached(i, @)])

(* Element l ends.                                                           *)
EndLeaf(l, r) == Complete(LevelOf[l], [r EXCEPT !.leaf[l].state = "COMPLETED"])

-----------------------------------------------------------------------------
(* Jobs, which workers complete.  The job of an execution that has ended is  *)
(* canceled.                                                                 *)

Free(i) == tx[i] = Null
Done(job, r) == [r EXCEPT !.jobs = @ \ {job}]

CancelJob(job, i, state) ==
  /\ job \in jobs /\ Free(i) /\ state \in Ended
  /\ Write(Done(job, Rows))
  /\ UNCHANGED <<kind, seen, tx, ignored>>

CancelLeafJob(l) == \E type \in {"EXECUTE", "SET_CODE"} :
  CancelJob(NewJob(type, l), LevelOf[l], leaf[l].state)

CancelCallJob(i) == \E type \in {"CALL_PROCESS", "PASS_VARIABLES"} :
  CancelJob(NewJob(type, i), i, call[i])

CancelBoundaryJob(b) == CancelJob(NewJob("SET_CODE", b), Boundary[b].level, attached[b].state)

(* The called process has as many active instances as it may have, or not.   *)
CallProcess(i) ==
  LET job == NewJob("CALL_PROCESS", i)
  IN /\ job \in jobs /\ Free(i) /\ call[i] \notin Ended
     /\ \/ Write(Enter(i + 1, Done(job, Rows)))
        \/ Write([Done(job, Rows) EXCEPT !.instance[i + 1] = "QUEUED"])
     /\ UNCHANGED <<kind, seen, tx, ignored>>

PassVariables(i) ==
  LET job == NewJob("PASS_VARIABLES", i)
      r == [Done(job, Rows) EXCEPT !.call[i] = "COMPLETED", !.attached = Detached(i, @)]
  IN /\ job \in jobs /\ Free(i) /\ call[i] \notin Ended
     /\ Write(Complete(i, r))
     /\ UNCHANGED <<kind, seen, tx, ignored>>

(* An error or escalation code of a boundary event may be empty; an event    *)
(* has none.                                                                 *)
SetBoundaryCode(b, code) ==
  LET job == NewJob("SET_CODE", b)
      i == Boundary[b].level
  IN /\ Boundary[b].type = "event" => code = AnyCode
     /\ job \in jobs /\ Free(i) /\ attached[b].state \notin Ended
     /\ Write(StartCall(i, [Done(job, Rows) EXCEPT !.attached[b].code = code]))
     /\ UNCHANGED <<kind, seen, tx, ignored>>

SetThrowCode(l, code) ==
  LET job == NewJob("SET_CODE", l)
  IN /\ job \in jobs /\ Free(LevelOf[l]) /\ leaf[l].state \notin Ended
     /\ Write([Done(job, Rows) EXCEPT
                 !.leaf[l] = [state |-> "STARTED", code |-> code, thrown |-> leaf[l].thrown]])
     /\ UNCHANGED <<kind, seen, tx, ignored>>

ExecuteTask(l) ==
  LET job == NewJob("EXECUTE", l)
  IN /\ job \in jobs /\ Free(LevelOf[l]) /\ leaf[l].state \notin Ended
     /\ Write(EndLeaf(l, Done(job, Rows)))
     /\ UNCHANGED <<kind, seen, tx, ignored>>

-----------------------------------------------------------------------------
(* Errors and escalations that leave instance i: the boundary events of the  *)
(* call activity of instance i - 1 are searched.                             *)

(* The waiting boundary events for a code, of the sources that may trigger   *)
(* them.                                                                     *)
Waiting(i, type, source) ==
  {b \in BoundariesOf(i - 1) :
     /\ Boundary[b].type = type /\ attached[b].state = "CREATED"
     /\ source = "escalationEnd" => Boundary[b].interrupting
     /\ source = "escalationThrow" => ~Boundary[b].interrupting}

(* One with the code, or else one for any code.                              *)
Preferred(waiting, code) ==
  LET Of(c) == {b \in waiting : attached[b].code = c}
  IN IF Of(code) # {} THEN Of(code) ELSE Of(AnyCode)

findBoundaryEvent(i, type, source, code) ==
  LET found == Preferred(Waiting(i, type, source), code)
  IN IF found = {} THEN {Null} ELSE found

(* A transaction locks the instance of l, and reads what its caller waits for. *)
Find(l, type, code, client) ==
  LET i == LevelOf[l]
  IN /\ Free(i) /\ instance[i] = "STARTED" /\ leaf[l].state = "STARTED"
     /\ \E b \in findBoundaryEvent(i, type, kind[l], code) :
          tx' = [tx EXCEPT ![i] = [leaf |-> l, code |-> code, boundary |-> b, client |-> client,
                                   n |-> IF b = Null THEN 0 ELSE attached[b].n]]
     /\ UNCHANGED <<kind, instance, call, leaf, attached, jobs, tasks, userTask, seen, ignored>>

(* The task of an event that throws.                                         *)
TriggerThrowEvent(l) ==
  /\ kind[l] \in ThrowEvents
  /\ Find(l, IF kind[l] = "errorEnd" THEN "error" ELSE "escalation", leaf[l].code, Null)

(* The job of a task is completed with an error or escalation code.          *)
ThrowByJob(l, type, code) ==
  NewJob("EXECUTE", l) \in jobs /\ leaf[l].thrown < MaxThrown /\ Find(l, type, code, Null)

(* The revision is not compared.                                             *)
MutantUpdatable(c, l) ==
  /\ userTask[l] # Null /\ userTask[l].state = "STARTED"
  /\ c = Observed => seen # Null /\ seen.leaf = l

(* A user task is updated by a client that has read it before, unless it has *)
(* been updated since.  Clients are alike: of one the last read is recorded, *)
(* the others update what they have just read.                               *)
Updatable(c, l) ==
  /\ userTask[l] # Null /\ userTask[l].state = "STARTED"
  /\ c = Observed =>
       seen # Null /\ seen.leaf = l /\ seen.row.revision = userTask[l].revision

ThrowByUserTask(c, l, type, code) ==
  Updatable(c, l) /\ leaf[l].thrown < MaxThrown /\ Find(l, type, code, c)

(* A user task is written as it was read.                                    *)
MutantUpdated(c, l, state, r) ==
  [r EXCEPT !.userTask[l] =
     [state |-> userTask[l].state, revision |-> userTask[l].revision + 1, by |-> c]]

(* The row of a user task as its update writes it, over what has been        *)
(* written of it in the same transaction.                                    *)
Updated(c, l, state, r) ==
  [r EXCEPT !.userTask[l] =
     [state |-> state, revision |-> userTask[l].revision + 1, by |-> c]]

(* The task that triggers a boundary event in the calling instance.          *)
Triggering(i, r) ==
  LET t == tx[i]
      l == t.leaf
  IN [r EXCEPT !.tasks = @ \cup {[boundary |-> t.boundary, n |-> t.n, code |-> t.code,
                                  from |-> l, nth |-> r.leaf[l].thrown]},
               !.leaf[l].thrown = @ + 1]

(* No boundary event: an event that throws is passed.  A task is not, its    *)
(* job fails and is tried again, and so does the update of a user task.      *)
NotFound(i) ==
  LET l == tx[i].leaf
  IN IF kind[l] \in ThrowEvents THEN EndLeaf(l, Rows) ELSE Rows

(* The caller is not told.                                                   *)
MutantInterrupt(i) ==
  LET l == tx[i].leaf
  IN IF kind[l] \in ThrowEvents
     THEN terminateProcessInstance(i, [Rows EXCEPT !.leaf[l].state = "COMPLETED"])
     ELSE terminateProcessInstance(i, Rows)

(* The called instance is terminated, after the end event has been completed. *)
Interrupt(i) ==
  LET l == tx[i].leaf
      r == Triggering(i, Rows)
  IN CASE kind[l] \in ThrowEvents ->
            terminateProcessInstance(i, [r EXCEPT !.leaf[l].state = "COMPLETED"])
       [] kind[l] = "task" ->
            terminateProcessInstance(i, Done(NewJob("EXECUTE", l), r))
       [] OTHER ->
            Updated(tx[i].client, l, "TERMINATED", terminateProcessInstance(i, r))

(* The called instance continues: a task gets another job, and a user task   *)
(* stays started.                                                            *)
Escalate(i) ==
  LET l == tx[i].leaf
      r == Triggering(i, Rows)
  IN CASE kind[l] \in ThrowEvents -> EndLeaf(l, r)
       [] kind[l] = "task" -> r
       [] OTHER -> Updated(tx[i].client, l, "STARTED", r)

Commit(i) ==
  /\ tx[i] # Null
  /\ LET b == tx[i].boundary
     IN Write(IF b = Null THEN NotFound(i)
              ELSE IF Boundary[b].interrupting THEN Interrupt(i) ELSE Escalate(i))
  /\ tx' = [tx EXCEPT ![i] = Null]
  /\ UNCHANGED <<kind, seen, ignored>>

-----------------------------------------------------------------------------
(* Clients.                                                                  *)

(* A client waits for what becomes of its update before it reads again.      *)
ReadUserTask(l) ==
  /\ userTask[l] # Null
  /\ \A i \in Instances : tx[i] # Null => tx[i].client # Observed
  /\ seen' = [leaf |-> l, row |-> userTask[l]]
  /\ UNCHANGED <<kind, instance, call, leaf, attached, jobs, tasks, userTask, tx, ignored>>

(* Tags are added, or the user task is completed.                            *)
TagUserTask(c, l) ==
  /\ Free(LevelOf[l]) /\ Updatable(c, l) /\ userTask[l].revision < MaxRevision
  /\ Write(Updated(c, l, "STARTED", Rows))
  /\ UNCHANGED <<kind, seen, tx, ignored>>

CompleteUserTask(c, l) ==
  /\ Free(LevelOf[l]) /\ Updatable(c, l)
  /\ Write(Updated(c, l, "COMPLETED", EndLeaf(l, Rows)))
  /\ UNCHANGED <<kind, seen, tx, ignored>>

-----------------------------------------------------------------------------
(* Tasks, which the engine executes.                                         *)

(* The call activity that an escalation has been thrown for still waits.     *)
Ignores(t) ==
  Boundary[t.boundary].type = "escalation" /\ call[Boundary[t.boundary].level] \notin Ended

(* A boundary event of an instance or execution that has ended is not        *)
(* triggered.                                                                *)
IsOver(b, n) ==
  \/ instance[Boundary[b].level] \in Ended
  \/ attached[b].n # n \/ attached[b].state \in Ended

TriggerBoundaryEvent(t) ==
  /\ t \in tasks \cap TriggerEvent /\ Free(Boundary[t.boundary].level)
  /\ LET r == [Rows EXCEPT !.tasks = @ \ {t}]
         over == IsOver(t.boundary, t.n)
     IN /\ Write(IF over THEN r ELSE startBoundaryEvent(t.boundary, r))
        /\ ignored' = (ignored \/ (over /\ Ignores(t)))
  /\ UNCHANGED <<kind, seen, tx>>

(* The timer of a boundary event is due, or its message or signal has been   *)
(* sent.  If it does not interrupt, the instance that is attached then waits *)
(* for the next time at once.                                                *)
TriggerEventOf(b) ==
  /\ Boundary[b].type = "event" /\ attached[b].state = "CREATED" /\ attached[b].code # Null
  /\ Boundary[b].interrupting \/ attached[b].n <= MaxRepeats
  /\ Free(Boundary[b].level)
  /\ Write(startBoundaryEvent(b, Rows))
  /\ UNCHANGED <<kind, seen, tx, ignored>>

(* The task of an instance that has ended is canceled.                       *)
Terminate(i) ==
  LET t == Termination(i)
      r == [Rows EXCEPT !.tasks = @ \ {t}]
  IN /\ t \in tasks /\ Free(i)
     /\ Write(IF instance[i] \in Ended THEN r ELSE terminateProcessInstance(i, r))
     /\ UNCHANGED <<kind, seen, tx, ignored>>

(* The queue of its process has let a called instance go.                    *)
StartProcessInstance(i) ==
  /\ instance[i] = "QUEUED" /\ Free(i)
  /\ Write(Enter(i, Rows))
  /\ UNCHANGED <<kind, seen, tx, ignored>>

-----------------------------------------------------------------------------
Init ==
  /\ kind \in Models
  /\ seen = Null
  /\ tx = [i \in Instances |-> Null]
  /\ ignored = FALSE
  /\ LET r == Enter(1, [instance |-> [i \in Instances |-> "NONE"],
                        call |-> [i \in Callers |-> "NONE"],
                        leaf |-> [l \in Leaves |-> [state |-> "NONE", code |-> Null, thrown |-> 0]],
                        attached |-> [b \in Boundaries |-> [n |-> 0, state |-> "NONE", code |-> Null]],
                        jobs |-> {}, tasks |-> {}, userTask |-> [l \in Leaves |-> Null]])
     IN /\ instance = r.instance /\ call = r.call /\ leaf = r.leaf /\ attached = r.attached
        /\ jobs = r.jobs /\ tasks = r.tasks /\ userTask = r.userTask

Execute ==
  \/ \E t \in tasks : TriggerBoundaryEvent(t)
  \/ \E i \in Instances : Terminate(i) \/ StartProcessInstance(i) \/ Commit(i)
  \/ \E l \in Leaves : TriggerThrowEvent(l)

Work ==
  \/ \E i \in Callers : CallProcess(i) \/ PassVariables(i) \/ CancelCallJob(i)
  \/ \E b \in Boundaries :
       CancelBoundaryJob(b) \/ \E code \in Codes \cup {AnyCode} : SetBoundaryCode(b, code)
  \/ \E l \in Leaves :
       \/ ExecuteTask(l) \/ CancelLeafJob(l)
       \/ \E code \in Codes :
            \/ SetThrowCode(l, code)
            \/ \E type \in {"error", "escalation"} : ThrowByJob(l, type, code)

Update ==
  \E l \in Leaves :
    \/ ReadUserTask(l)
    \/ \E c \in Clients :
         \/ TagUserTask(c, l) \/ CompleteUserTask(c, l)
         \/ \E type \in {"error", "escalation"}, code \in Codes : ThrowByUserTask(c, l, type, code)

Next == Execute \/ Work \/ Update \/ \E b \in Boundaries : TriggerEventOf(b)

Spec == Init /\ [][Next]_vars

-----------------------------------------------------------------------------
(* A call activity never waits in vain: when the process it has called has   *)
(* ended, there is the job that lets it continue, or the task of a boundary  *)
(* event that still waits and interrupts it (element_instance.go 267-347,    *)
(* execution.go 509-540, and the tasks of error.go and escalation.go).       *)
NoStuckCall ==
  \A i \in Callers :
    call[i] = "STARTED" /\ instance[i + 1] \in Ended =>
      \/ NewJob("PASS_VARIABLES", i) \in jobs
      \/ \E t \in tasks \cap TriggerEvent :
           /\ Boundary[t.boundary].level = i /\ Boundary[t.boundary].interrupting
           /\ ~IsOver(t.boundary, t.n)

(* While a call activity waits, one instance of each of its boundary events  *)
(* does, and none once it has ended; at most one boundary event has          *)
(* interrupted it, and none one that has completed (event.go 311-502).       *)
InterruptedOnce ==
  \A i \in Callers :
    LET Completed == {b \in BoundariesOf(i) : attached[b].state = "COMPLETED"}
        Created == {b \in BoundariesOf(i) : attached[b].state = "CREATED"}
    IN /\ call[i] \in Active => Created = BoundariesOf(i)
       /\ call[i] \in Ended => Created = {} /\ Cardinality(Completed) <= 1
       /\ call[i] = "COMPLETED" => Completed = {} /\ instance[i + 1] = "COMPLETED"

(* A process that was called does not outlive the call activity: it is about *)
(* to be terminated (process_instance.go 417-553, event.go 372-400).         *)
NoOrphanedInstance ==
  \A i \in Callers :
    call[i] \in Ended /\ instance[i + 1] \in Active => Termination(i + 1) \in tasks

(* A user task can be updated as long as its execution waits for it, and     *)
(* not longer, however the execution ends: by an update, by another event of *)
(* its instance, or with the instance (user_task.go 74-218, event.go         *)
(* 452-479, process_instance.go 521-541).                                    *)
UserTaskFollowsExecution ==
  \A l \in Leaves :
    userTask[l] # Null =>
      userTask[l].state = leaf[l].state

(* An update is based on what its client has read of the user task: no       *)
(* update between is lost, also not one that a terminating transaction has   *)
(* made, and nothing is written over an ended user task (user_task.go        *)
(* 74-108, "To avoid concurrent updates" in engine.go 100).                  *)
UpdatesWhatWasRead ==
  \A l \in Leaves : userTask[l] # Null /\ userTask'[l] # userTask[l] =>
    /\ userTask[l].state = "STARTED"
    /\ userTask'[l].by = Observed => seen = [leaf |-> l, row |-> userTask[l]]

NoLostUpdate == [][UpdatesWhatWasRead]_vars

(* "If an appropriate escalation boundary event is found, the execution      *)
(* continues at the escalation boundary event." (escalation.go 307)          *)
EscalationContinues == ~ignored
=============================================================================
