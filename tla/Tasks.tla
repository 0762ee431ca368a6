-------------------------------- MODULE Tasks --------------------------------
(***************************************************************************)
(* The tasks of the engines (engine/internal/task.go, incident.go) as the  *)
(* engines of one PostgreSQL database lock, execute and unlock them.       *)
(*                                                                         *)
(* ExecuteTasks locks tasks in one transaction and then executes each in a *)
(* transaction of its own, from what the first one has read: the row is    *)
(* not read again.  What an engine has locked and not yet executed is in   *)
(* its memory only and is lost with it, while the rows stay locked.        *)
(*                                                                         *)
(* Due dates are left out: a task that is not due yet is one that nobody   *)
(* has locked yet.                                                         *)
(***************************************************************************)
EXTENDS Naturals, FiniteSets

CONSTANTS
  Engines,        \* Options.EngineId of each engine
  TaskIds,        \* bound on the number of rows
  TaskRetryLimit, \* Options.TaskRetryLimit
  MaxFailures,    \* bound on the number of crashes and rolled back executions
  UnlockRunning,  \* is UnlockTasks called for an engine that still executes?
  None

ASSUME TasksAssumption ==
  /\ TaskRetryLimit \in Nat /\ MaxFailures \in Nat
  /\ UnlockRunning \in BOOLEAN
  /\ None \notin Engines /\ None \notin TaskIds

VARIABLES
  taskState,      \* State of each task, "NONE" before its insertion
  lockedBy,       \* LockedBy of each task, None if it is not locked
  completed,      \* the tasks with a CompletedAt
  retryCount,     \* RetryCount of each task
  payload,        \* SerializedTask: "NONE" for types without data, "FULL", "LOST"
  origin,         \* history: the first task of the retries a task belongs to
  incidents,      \* the tasks with an unresolved incident
  batch,          \* the tasks each engine has locked and not yet executed
  effects,        \* history: how often the work of an origin has been done
  failures        \* number of crashes and rolled back executions

rows == <<taskState, lockedBy, completed, retryCount, payload, origin>>
taskVars == <<rows, incidents, batch, effects, failures>>

WorkState == {"CREATED", "LOCKED", "DONE", "CANCELED", "CAUSED_RETRY", "CAUSED_INCIDENT"}
Tasks == {t \in TaskIds : taskState[t] # "NONE"}

-----------------------------------------------------------------------------

(* Operators named Mutant... are mistaken variants of the operator that       *)
(* follows them; some property of this module fails for each of them.         *)

(* A task r, of origin o, is inserted next to rows in the given states. *)
Inserted(states, r, o, retries, data) ==
  /\ taskState[r] = "NONE"
  /\ taskState' = [states EXCEPT ![r] = "CREATED"]
  /\ origin' = [origin EXCEPT ![r] = o]
  /\ retryCount' = [retryCount EXCEPT ![r] = retries]
  /\ payload' = [payload EXCEPT ![r] = data]

NothingInserted(states) ==
  /\ taskState' = states
  /\ UNCHANGED <<origin, retryCount, payload>>

TasksInit ==
  /\ taskState = [t \in TaskIds |-> "NONE"]
  /\ lockedBy = [t \in TaskIds |-> None]
  /\ completed = {}
  /\ retryCount = [t \in TaskIds |-> 0]
  /\ payload = [t \in TaskIds |-> "NONE"]
  /\ origin = [t \in TaskIds |-> None]
  /\ incidents = {}
  /\ batch = [e \in Engines |-> {}]
  /\ effects = [t \in TaskIds |-> 0]
  /\ failures = 0

(* A command, or another task, inserts a task. *)
InsertTask(r) ==
  /\ \E data \in {"NONE", "FULL"} : Inserted(taskState, r, r, 0, data)
  /\ UNCHANGED <<lockedBy, completed, incidents, batch, effects, failures>>

MutantLockable == Tasks \ completed   \* those of other engines, too

(* The first transaction of ExecuteTasks asks for tasks with no LockedAt. *)
Lockable == {t \in Tasks : lockedBy[t] = None}

LockTasks(e) ==
  \E locked \in SUBSET Lockable \ {{}} :
    /\ lockedBy' = [t \in TaskIds |-> IF t \in locked THEN e ELSE lockedBy[t]]
    /\ taskState' = [t \in TaskIds |-> IF t \in locked THEN "LOCKED" ELSE taskState[t]]
    /\ batch' = [batch EXCEPT ![e] = @ \cup locked]
    /\ UNCHANGED <<completed, retryCount, payload, origin, incidents, effects, failures>>

(* ExecuteTask executes what is in memory and writes CompletedAt. *)
Executed(e, t) ==
  /\ t \in batch[e]
  /\ batch' = [batch EXCEPT ![e] = @ \ {t}]
  /\ completed' = completed \cup {t}
  /\ UNCHANGED <<lockedBy, failures>>

Completed(t, s) == [taskState EXCEPT ![t] = s]

(* The work of the task is done, or there is nothing left to do, because    *)
(* what it was meant for has ended.                                          *)
TaskDone(e, t) ==
  /\ Executed(e, t)
  /\ \E s \in {"DONE", "CANCELED"} : NothingInserted(Completed(t, s))
  /\ effects' = [effects EXCEPT ![origin[t]] = @ + 1]
  /\ UNCHANGED incidents

(* It is rejected with an engine.Error. *)
TaskRejected(e, t) ==
  /\ Executed(e, t)
  /\ \/ /\ TaskRetryLimit > retryCount[t]
        /\ \E r \in TaskIds :
             Inserted(Completed(t, "CAUSED_RETRY"), r, origin[t], retryCount[t] + 1, payload[t])
        /\ UNCHANGED incidents
     \/ /\ TaskRetryLimit <= retryCount[t]
        /\ NothingInserted(Completed(t, "CAUSED_INCIDENT"))
        /\ incidents' = incidents \cup {t}
  /\ UNCHANGED effects

(* Any other error rolls the transaction back: the task stays locked, and    *)
(* the engine does not try it again.                                         *)
TaskFailed(e, t) ==
  /\ failures < MaxFailures
  /\ t \in batch[e]
  /\ batch' = [batch EXCEPT ![e] = @ \ {t}]
  /\ failures' = failures + 1
  /\ UNCHANGED <<rows, incidents, effects>>

(* The engine stops, or is refused a connection in the middle of its batch,  *)
(* and forgets the rest of it.                                               *)
Crash(e) ==
  /\ failures < MaxFailures
  /\ batch[e] # {}
  /\ batch' = [batch EXCEPT ![e] = {}]
  /\ failures' = failures + 1
  /\ UNCHANGED <<rows, incidents, effects>>

MutantUnlockable(e) == {t \in Tasks : lockedBy[t] = e}   \* completed ones, too

(* UnlockTasks: all of an engine's uncompleted tasks, those of a partition,  *)
(* or one.                                                                   *)
Unlockable(e) == {t \in Tasks \ completed : lockedBy[t] = e}

MutantUnlockTasks(e) ==   \* LockedAt is not reset
  \E unlocked \in SUBSET Unlockable(e) \ {{}} :
    /\ UnlockRunning \/ batch[e] = {}
    /\ taskState' = [t \in TaskIds |-> IF t \in unlocked THEN "CREATED" ELSE taskState[t]]
    /\ UNCHANGED <<lockedBy, completed, retryCount, payload, origin, incidents, batch, effects, failures>>

UnlockTasks(e) ==
  \E unlocked \in SUBSET Unlockable(e) \ {{}} :
    /\ UnlockRunning \/ batch[e] = {}
    /\ lockedBy' = [t \in TaskIds |-> IF t \in unlocked THEN None ELSE lockedBy[t]]
    /\ taskState' = [t \in TaskIds |-> IF t \in unlocked THEN "CREATED" ELSE taskState[t]]
    /\ UNCHANGED <<completed, retryCount, payload, origin, incidents, batch, effects, failures>>

(* The statement that selects the task of an incident leaves Instance nil,   *)
(* and the one that inserts its retry serializes Instance: null replaces     *)
(* what the task has been given.                                             *)
Reserialized(data) == IF data = "NONE" THEN "NONE" ELSE "LOST"

(* ResolveIncident locks the row of the incident, which is resolved once. *)
ResolveIncident(t) ==
  /\ t \in incidents
  /\ incidents' = incidents \ {t}
  /\ \E r \in TaskIds : Inserted(taskState, r, origin[t], 0, Reserialized(payload[t]))
  /\ UNCHANGED <<lockedBy, completed, batch, effects, failures>>

Execute(e) == \E t \in TaskIds : TaskDone(e, t) \/ TaskRejected(e, t)

TasksNext ==
  \/ \E t \in TaskIds : InsertTask(t) \/ ResolveIncident(t)
  \/ \E e \in Engines :
       \/ LockTasks(e) \/ Execute(e) \/ Crash(e) \/ UnlockTasks(e)
       \/ \E t \in TaskIds : TaskFailed(e, t)

TasksSpec == TasksInit /\ [][TasksNext]_taskVars

(* The task executor of every engine keeps locking and executing. *)
ExecutorFairness ==
  /\ WF_taskVars(\E e \in Engines : LockTasks(e))
  /\ \A e \in Engines : WF_taskVars(Execute(e))

(* No engine unlocks tasks on its own: the operator, who calls UnlockTasks,  *)
(* keeps unlocking what engines have left behind.                            *)
OperatorFairness == \A e \in Engines : WF_taskVars(UnlockTasks(e))

TasksFairSpec == TasksSpec /\ ExecutorFairness /\ OperatorFairness

-----------------------------------------------------------------------------

TasksTypeOK ==
  /\ taskState \in [TaskIds -> WorkState \cup {"NONE"}]
  /\ lockedBy \in [TaskIds -> Engines \cup {None}]
  /\ completed \subseteq Tasks
  /\ retryCount \in [TaskIds -> Nat]
  /\ payload \in [TaskIds -> {"NONE", "FULL", "LOST"}]
  /\ origin \in [TaskIds -> TaskIds \cup {None}]
  /\ incidents \subseteq completed
  /\ batch \in [Engines -> SUBSET Tasks]
  /\ effects \in [TaskIds -> Nat]
  /\ failures \in Nat

(* What is left of an origin's work: a task to be executed, or the incident  *)
(* of a rejected one.                                                        *)
Handles(o) == {t \in Tasks : origin[t] = o /\ (t \notin completed \/ t \in incidents)}

(* The work of a task is done once, whatever engines crash and whoever       *)
(* unlocks their tasks, and until then there is exactly one task or incident *)
(* for it.                                                                   *)
DoneOnce ==
  \A o \in TaskIds : origin[o] = o =>
    \/ effects[o] = 1 /\ Handles(o) = {}
    \/ effects[o] = 0 /\ \E t \in TaskIds : Handles(o) = {t}

(* A locked task is in the memory of one engine, which is the one that has   *)
(* locked it.                                                                *)
OneExecutor ==
  \A e \in Engines : \A t \in batch[e] : lockedBy[t] = e /\ t \notin completed

(* Nothing stays locked, or due, for ever. *)
TaskCompletes == \A t \in TaskIds : t \in Tasks ~> t \in completed

(* A retry is given what the task was given. *)
RetryKeepsPayload == \A t \in Tasks : payload[t] # "LOST"
=============================================================================
