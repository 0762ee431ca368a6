# Verification of go-bpmn

TLA+ specifications of [go-bpmn](../src/README.md), an engine that executes BPMN 2.0
processes, the TLC models that check them on small instances and the proofs TLAPS
checks for every value of the constants. Paths below are relative to `src/engine`
unless they start with `model/` or `worker/`.

## 1. The system

A BPMN file is parsed (`model/`) and deployed. The core is `internal/`. A client calls a
command of `engine.Engine`; a command runs as one transaction, with a `Context` that gives
it repositories. Work the engine does later is a **task** it inserts for itself; work for
others is a **job** a worker locks and completes. `pg/` keeps everything in PostgreSQL and
may run as several engines on one database; `mem/` keeps it in memory. `worker/` is the
library workers are written with.

What makes the behaviour hard:

* **Interleaving.** `mem` runs every command under one mutex. `pg` runs a command as one
  READ COMMITTED transaction (`pg/pg.go:158`). It locks the row of the process instance,
  of the queue, the incident, message or signal (`FOR UPDATE`), and jobs, tasks, buffered
  messages and subscriptions with `FOR UPDATE SKIP LOCKED`. A row that is read without a
  lock may have changed when it is written.
* **Failure.** An `engine.Error` of a job or task is *committed* with whatever the command
  has done so far, as a retry or an incident; any other error rolls back in `pg` (in `mem`
  nothing is rolled back). `ExecuteTasks` locks a batch in one transaction and executes
  each task in another; an engine that stops in between leaves them locked.
* **Order.** Tasks are executed in any order; rows are often selected without `ORDER BY`.
* **Long transactions.** `continueExecutions` is a loop over a list that it extends and
  punches holes into, with counts kept by hand that decide what ends.
* **Several instances.** Errors and escalations leave a called process for the one that
  called it, and terminations go the other way, each by tasks and jobs of its own.

### Components

| component | state | operations | what makes it correct | module |
|---|---|---|---|---|
| process instance queue (`process_instance_queue.go`) | a row per BPMN process: parallelism, active and queued count, head, tail; list elements | enqueue, dequeue, start task, dequeue task | FIFO; the limit holds; no lost wakeup; every one is started | `ProcessInstanceQueue`, `BoundedParallelism` |
| process instance life cycle (`process_instance.go`) | state of the instance | create, start, suspend, resume, complete, terminate | see queue, execution, call activities | `ProcessInstanceQueue`, `ProcessExecution`, `Calls` |
| jobs (`job.go`) | job rows | lock, unlock, complete, fail | an execution goes on once per job, never without one | `Jobs` |
| incidents (`incident.go`) | incident rows | resolve | resolved once, into a retry that is like the original | `Jobs`, `Tasks` |
| tasks and their executor (`task.go`, `pg/task.go`) | task rows; the batch in an engine's memory | lock, execute, fail, unlock | executed once and in the end, despite crashes | `Tasks` |
| execution (`execution.go`, `graph.go`, `element_instance.go`) | element instances with parent, previous, state, execution count | continue, join, enter and leave sub-processes, multi-instance activities | no execution is lost, left behind, or run twice | `ProcessExecution` |
| boundary events (`event.go`, `error.go`, `timer.go`) | boundary executions | attach, set, trigger, interrupt | attached exactly as long as the activity | `ProcessExecution`, `Calls`, `Messages`, `Signals` |
| call activities, escalations (`escalation.go`, `error.go`) | called instances, jobs, tasks | call, pass variables, throw, interrupt, terminate | nobody waits in vain; interrupted once; no orphan | `Calls` |
| user tasks (`user_task.go`) | rows with a revision | update, complete | no update is lost, none comes too late | `Calls` |
| messages (`message.go`) | messages, subscriptions | send, subscribe, correlate, trigger, expire, purge | correlated with one event; never missed; unique keys | `Messages` |
| signals (`signal.go`) | signals, subscriptions, count of subscribers | send, fan out, trigger, purge | each subscriber triggered once, the signal then released | `Signals` |
| start events (`timer.go`, `event.go`) | event definitions of the latest version | create instances | only the version in force; the timer ticks on | `Messages`, `Signals`, `Processes` |
| deployment, process cache (`process.go`) | process rows, event definitions, the cache | create, get, evict | one version in force, cache agrees with rows | `Processes` |
| element and process model (`model/`, `graph.go`) | the model being parsed | parse, validate | nothing is read into the wrong element; types fit; no panic | `ProcessModel` (partly) |
| job worker (`worker/`) | executors, their batches | start, stop, lock, handle, complete | no job run twice while locked; the latest variables stored | `Worker` |
| variables, encryption (`variable.go`, `encryption.go`) | variables of element and process instances | set, delete, insert, encrypt | last one wins, the others are gone | `Worker` (partly) |
| in-memory engine (`mem/`) | maps under one mutex | all commands | – | variables of `Messages` and `Processes` (partly) |
| management of PostgreSQL (`pg/management.go`) | daily partitions | create, detach, drop; purge | nothing still needed is removed | purges in `Messages`, `Signals` (partly) |
| HTTP, CLI, daemons, OpenAPI generator | – | – | – | not modelled, section 7 |

## 2. Modules

| module | models |
|---|---|
| `BoundedParallelism` | abstract promise of a process with a parallelism: a limit, a line, who runs |
| `ProcessInstanceQueue` | the queue as the code keeps it; implements `BoundedParallelism` |
| `Jobs` | jobs, workers, incidents |
| `Worker` | executors of a worker and the variables of its jobs; extends and implements `Jobs` |
| `Tasks` | tasks, engines that crash, incidents |
| `ProcessExecution` | the execution of one process instance |
| `Calls` | instances that call one another, user tasks |
| `Messages`, `Signals` | messages and signals, their subscriptions and start events |
| `Processes` | deployment, event definitions, timer start events, cache |
| `ProcessModel` | the parser and the validation of a process |
| `EnginesProofs`, `WorkerProofs`, `CallsProofs`, `MessagesProofs`, `SignalsProofs` | theorems about the queue and tasks; jobs and worker; calls and user tasks; messages; signals |
| `DeploymentProofs` | theorems about processes, their cache and the parser |
| `ContinueExecutionsProofs`, `ProcessExecutionProofs` | theorems about the execution: the loop of `continueExecutions`; commands, tasks and commits |
| `MC...` | the instances TLC checks |

The modules meet where the code's components do, and each says what it takes from the
others. `Worker` composes with `Jobs` by extension, and `WorkerExecutesJobs` shows that it
is an implementation of it. The dequeue and start tasks of `ProcessInstanceQueue`, the work
of `ProcessExecution` and the trigger tasks of `Messages`, `Signals` and `Calls` are due from
their insertion to the end of their execution, which is what `Tasks` shows of any task
(`DoneOnce`, `TaskCompletes`); likewise for the jobs of these modules and `Jobs`. The
graphs of `ProcessExecution` are processes as `ProcessModel` accepts them.

### ProcessInstanceQueue

`queue` is the row of `process_instance_queue`, `next` the `NextId` of the list's elements,
`startTasks` and `dequeueTasks` the due tasks. `waiting` is a history variable: who queued
up, in order. Every command and task holds the queue's row, so each is one action.
`Enqueued`, `Popped`, `MustDequeue` and `Release` are `enqueueProcessInstance`,
the dequeueing of the head, `MustDequeue` and `dequeueProcessInstance`. `CreateProcess`
sets the parallelism and inserts a dequeue task if the head may start. `Children` are
instances a call activity creates; only these can be terminated by the code.
`Startless` instances belong to a version without a none start event: the engine finds this
out after it has counted them, and commits.

### Jobs and Worker

`CompleteJob` locks the process instance and reads the job, but not for update; it is
`BeginCompleteJob`, followed by one of `CompleteJob`, `CancelJob`, `FailJob` or `Rollback`.
`LockJobs`, `UnlockJobs` and `ResolveIncident` happen in between. The writing statement
sets the state and `completed_at` and leaves the lock alone. A completed job never unlocks, as
the statement of `UnlockJobs` asks for `completed_at IS NULL`.

In `Worker` each `Start` runs an executor: a goroutine that locks a batch, calls handlers
one job after the other and sends completions. `Stop` does not wait for it, so that the
executor of the next `Start` may run beside it (`worker/worker.go:304`). `store` holds the
rows of the one variable in the scope of each execution and of the process; commands,
completed jobs and events write to it. Of several rows, PostgreSQL deletes all and updates
any, memory deletes and updates the first (`Deleted`, `Upserted`). History variables: `again`,
a handler has been called a second time without an unlock in between; `last`, what has been
put last in a scope; `doubled`, where an event has inserted a row next to another one.

### Tasks

`batch` is what an engine has locked and keeps in memory. `Crash` empties it, which also
stands for a connection refused in the middle of a batch (`pg/pg.go:271`); `TaskFailed`
is an error that rolls the task's transaction back and leaves the row locked. `origin`
ties retries to the task they repeat. `UnlockRunning` says whether the operator calls
`UnlockTasks` for an engine that still runs.

### ProcessExecution

`Graph` is the process model: each element's type, scope, outgoing flows, boundary events,
whether its event has a definition, whether it interrupts, whether it is a multi-instance
activity. `rows` are the committed element instances; `tx` is the `executionContext` of a
running transaction: its entities, the list of executions, the index of the loop. A command
(`CreateProcessInstance`, `SuspendProcessInstance`, `ResumeProcessInstance`, a completed
job or an executed task on row `x`, `WorkOn(x)`) fills the list; `Continue` is one iteration of
`continueExecutions` (skip what has children, find the scope, `graph.continueExecution`,
end boundary events, end the scope); `Commit` inserts the jobs and tasks and writes all
rows. The two ways the loop is known to fail are `ContinueNil` (a nil entry is dereferenced)
and `ContinueProcess` (the parent of the process scope is looked for); both roll back. An
inclusive gateway's worker decides for any set of its flows; the loop cardinality of a
multi-instance activity is any number up to `MaxLoop`.

### Calls

Instance `i + 1` is the one that the call activity of instance `i` calls; beside its call
activity an instance executes *leaves*: tasks, user tasks, events that throw an error or
escalation. A transaction holds the row of one instance. What it reads of another instance
in search of a boundary event is not locked, so the search and the commit are two steps
(`tx` in between). `Rows` and `Write` let an action that touches several tables be written
as a function from rows to rows, as `terminateProcessInstance` and its kin are called from
many places. `seen` is what one client has last read of a user task.

### Messages and Signals

All messages have the same name and correlation key, and all signals the same name, as
others never meet. `sending` and `looking` are what a transaction has found and not yet
committed; what it has found it holds. `Start` and `Starts` stand for start events. The rigid
variable `serialized` of `Messages` says if only one transaction runs at a time (`mem`).
An instance started by a message holds its unique key until it is completed.

In `Signals`, an instance of each `Scenario` exists: catch events, an event-based gateway with
signal events and a timer, an activity with repeating and interrupting boundary events, an
event that throws. `active` is `ActiveSubscriberCount`, decremented by each executed task;
`PurgeSignalVariables` and `PurgeSignals` are the two statements of the purge.

### Processes

A deployment is a transaction of `CreateProcess`: it inserts the process, checks its event
definitions, takes the queue's row and with it suspends the event definitions of the
version in force, and commits. `engine` chooses PostgreSQL (interleaved, rolled back at any
point) or `mem` (one at a time, never rolled back: `LEFT`). `cache` is the
least-recently-used cache, which all transactions of an engine share, committed or not.

### ProcessModel

`model/model.go` as a machine: `elements`, the `cursor` at the element that is read, the
variables that say what the next token is about, and the tags the decoder has `open`. Then
`EndDocument` resolves what boundary events are attached to and `Validate` is
`validateProcess`, with the type assertions of `CreateProcess`. Sequence flows may be
written in any element that is not a process, also in a sub-process, and lead anywhere: across
the border of a sub-process or to another process of the document.

## 3. Runs

| run | shows | bounds |
|---|---|---|
| `ProcessInstanceQueue` | The linked list is the queue (`ListIsQueue`); a head that may start has a dequeue task due (`NoStuckQueue`); the queue implements `BoundedParallelism` unless a queued child is terminated (`KeepsPromise`); a queued instance is started if others end, unless instances without a start event hold every slot (`QueuedIsStarted`). | 4 instances: one of a client, three children, one of these without a start event; parallelism 0 (unlimited), 1, 2; three versions |
| `Worker` | An execution that waits for a worker has exactly one job or incident (`OneHandle`); a handler is called again only for a job that was unlocked (`RunAgainOnlyIfUnlocked`); what was put last in a scope is what is stored there (`LatestIsStored`). | 1 execution, 2 jobs, 2 executors, 2 puts, 2 values, 2 rows, retry limits 0 and 1; symmetric in jobs, executors and values |
| `Tasks` | If only stopped engines' tasks are unlocked, a task's work is done once (`DoneOnce`), by the one engine that holds it (`OneExecutor`), and always in the end (`TaskCompletes`). | 2 engines, 3 rows, 1 retry, 2 crashes or failures |
| `ProcessExecution` | Nothing active outlives its scope (`NoOrphans`); boundary events live with their activity (`BoundaryEventsAttached`); no sub-process is entered twice (`EnteredOnce`); the instance ends (`InstanceEnds`). | a fork into a task and a sub-process, with error and timer boundary events, suspended and resumed |
| `ProcessExecutionNested` | The counts kept by hand are the number of active children (`CountIsChildren`); what is active can go on (`NothingIsStuck`); no possible join is missed (`NoMissedJoin`), and what waits at a join counts for the flow it came by (`WaitsForItsFlow`); a multi-instance activity runs as often as its cardinality says (`ActivitiesRunOnce`). | five processes in one graph (`Nested`, `TwoJoins`, `Failing`, `Multiple`, `Repeated`): nested sub-processes in a loop, two arrivals at each flow of a join, transactions that fail, an inclusive gateway before a parallel and a sequential multi-instance activity, a multi-instance activity that is suspended; rows in any order; at most 22 rows before a loop goes on |
| `Calls` | No call waits in vain (`NoStuckCall`); each is interrupted once at most (`InterruptedOnce`); no called instance outlives its call activity (`NoOrphanedInstance`); a user task is open as long as its execution (`UserTaskFollowsExecution`), and its updates rest on what the client has read (`NoLostUpdate`). | 3 instances, 7 boundary events (error, escalation, timer; interrupting or not; with and without a code; one set by a worker, which repeats), 3 leaves, 2 codes, 1 escalation of a job per leaf, 2 revisions |
| `Messages` | A message triggers one event at most and is kept exactly as long as a task or instance needs it (`CorrelatedOnce`); who waits has a subscription or a message, never both or neither (`WaitsForOne`); unique keys are unique among active instances (`UniqueInstances`); under the mutex, a buffered message and a subscriber never miss each other (`NoMissedMessage`); a correlated message is used and released (`MessageReleased`). | 2 messages, one catch event, one repeating boundary event, a start event that comes and goes, one unique key; both engines, rollbacks |
| `Signals` | The count of active subscribers is that of the due tasks (`CountIsDueTasks`); one event of a gateway is triggered at most (`OneEventPerGateway`); a repeating boundary event waits on in exactly one execution (`BoundaryKeepsWaiting`); each signal is purged in the end (`SignalReleased`). | 2 signals, 1 start event, three scenarios: gateway, activity with three executions of its repeating boundary event, thrower; rollbacks |
| `Processes` | Queue and start events are those of the version committed last (`LastRules`); the cache is consistent (`CacheIsConsistent`); the timer of the version in force has its next task (`TimerTicks`). | 3 deployments of 6 requests for two BPMN processes, a cache of 2; both engines, rollbacks |
| `ProcessModel` | What is read belongs to the innermost element (`CursorIsInnermost`); a type stands for the Go type of the model (`TypeFitsModel`); no type assertion of the deployment fails (`NeverPanics`). | all documents of up to 3 elements, of all 13 kinds the model tells apart, 1 flow, 1 definition per event |

and `ProcessInstanceQueueCount` and `ProcessExecutionThrow`, of section 4, which are expected to be
violated.

Every property of a passing run is broken by a `Mutant...` operator next to the definition
it mistakes (`PROJECT.json`, `mutants`): a property no plausible mistake violates is not
kept. `PROJECT.json`, `hazards`, says for each place that is hard to test which property
would catch it going wrong.

**Are the bounds enough?** Three queued elements are the smallest list with a head, a middle
and a tail, and the fourth instance holds the slot. Three task rows are a task, its retry and
an incident's. Two workers, executors or engines show all interference, as a row is held by
one. For the execution, a fork of two shows parallel branches, two levels of sub-processes
an end that propagates through a scope, two arrivals per flow a join that must choose.
Three instances are the smallest chain in which an error or escalation passes through an
instance that does not catch it, and a termination through one that did not ask for it.
Two messages or signals are the one that is being used and one that competes or comes next.
Three deployments are the version in force, one that replaces it, and one that overlaps with
that; two of them for one BPMN process evict the other from the cache. Three executions of a
repeating boundary event are one that has completed, one that takes over and one that does so
again. Three elements are a process, an element and another one in, next or attached to it.
Where a theorem of section 5 exists, its property does not depend on the bounds at all.

The bounds named in the constants (`MaxVersions`, `MaxFailures`, `MaxRows`, `MaxLoop`,
`MaxPuts`, `MaxVariables`, `MaxThrown`, `MaxRevision`, `MaxRepeats`, `MaxElements`,
`MaxDefinitions`, `JobIds`, `TaskIds`, `Messages`, `Signals`, `Deployments`) cut a behaviour
off; in particular, at the last row of `TaskIds` a task cannot be rejected any more, so that
`TaskCompletes` is about finitely many rejections. `CHECK_DEADLOCK FALSE` is set
throughout: when every instance has ended and the bound of new ones is reached, the system
rightly stops.

**Fairness.** The engine's own steps are weakly fair: every engine has a goroutine that
executes due tasks again and again (`internal/task.go:83`), a purge task inserts itself for
the next day, and a transaction comes to its end. Steps of workers, operators and timers
are fair only where a property says "if": `WorkerFairSpec` (instances end),
`OperatorFairness` (somebody calls `UnlockTasks` after a crash, since no engine does so on
its own), `Fairness` of `ProcessExecution` and `Messages` (jobs are completed, timers fire,
suspended instances are resumed). Strong fairness is asked for steps that wait for a row or
a mutex, as PostgreSQL and Go queue waiters, so that a waiter that is served infinitely often
between others is served; and, in `Messages`, for the commit of a triggering task: a task
that is executed over and over is not rolled back each time. `Calls`, `Processes`, `Worker`
and `ProcessModel` are checked for safety only.

## 4. Disagreements of the code with its documentation

Two runs are expected to be violated.

* `ProcessExecutionThrow`, `NeverNil`. A worker's error caught by a boundary event of the
  enclosing sub-process makes `internal/event.go:424` dereference a nil entry
  (`internal/error.go:53`).
* `ProcessInstanceQueueCount`, `ActiveCountIsSlots`. `ActiveCount` is documented as the "number
  of active process instances (started or due StartProcessInstanceTask exists)"
  (`internal/process_instance_queue.go:14`). Terminating a *queued* child gives back a slot it
  never had (`internal/process_instance.go:548`): with a parallelism of 1, `p1` is started,
  `c2` and `c1` are queued, `c1` is terminated, and `c2` is started beside `p1`.
  `ActiveCountLessGhosts`, which is proved, says by exactly how much the count is off.

More were met while modelling. These have a configuration of their own, each refuted by TLC:

| configuration (module) | property | what happens |
|---|---|---|
| `JobsLock` (`MCJobs`) | `LocksDueJobs` | `UnlockJobs` commits between the read and the write of `CompleteJob`; the job is completed and not locked, and `LockJobs` (`pg/sql/job_lock.sql:14`), which does not look at `completed_at`, hands it out and overwrites its state. Its completion is refused afterwards. |
| `TasksPayload` (`MCTasks`) | `RetryKeepsPayload` | The retry of a resolved task incident (`internal/incident.go:131`) has lost timer, signal or message: `Instance` is nil in what is selected and is serialized as `null` over it (`pg/task.go:23`). |
| `MessagesPurge` (`MCMessages`) | `NeverFails` | A message *with* an expiration timer that started an instance expires at once (`internal/message.go:722`) and is purged (`pg/management.go:520`); completing the instance then looks for it (`internal/execution.go:554`) and fails on every attempt. |
| `ProcessExecutionMultiple` (`MCProcessExecution`) | `ActivitiesRunOnce` | A multi-instance activity whose activities all complete while the instance is suspended is run again when it is resumed (`engine.go:56`). |
| `CallsEscalation` (`MCCalls`) | `EscalationContinues` | Two escalations find the same execution of a non-interrupting escalation boundary event. The task of the second finds it completed and does nothing, although the call activity waits on and has a new one (`internal/escalation.go:308`). |
| `WorkerVariables` (`MCWorker`) | `OneRow` | A message or signal event *inserts* the variables it brings, also where there is one of that name (`internal/message.go:415`), although a variable is "identified by a name" in its scope (`model.go:955`). In PostgreSQL a later deletion removes all rows and an update any one of them, in memory both concern the first (`mem/variable.go:16`). |
| `ProcessModelFlows` (`MCProcessModel`) | `ValidCanBeExecuted` | `validateProcess` accepts a sequence flow to an element of another process of the document (`internal/graph.go:175`), which the graph of the process has no node for. |
| `ProcessModelMultiple` (`MCProcessModel`) | `NeverPanics` | An event with two event definitions gets a type whose model it has not; the type assertions of `internal/process.go:448` and `internal/graph.go:199` panic instead of returning causes (`internal/graph.go:14`). |

These are reproduced by changing the constants of a configuration:

| change | property violated | where |
|---|---|---|
| `ProcessExecution`, `Graph <- ErrorInSubProcess`, `MaySuspend = {"P5"}` | `EnteredOnce` | A sub-process whose last execution ends while suspended is entered again on resume (`internal/execution.go:120`). |
| `Graph <- TaskInSubProcess`, `MaySuspend = {"P4"}`, `AnyOrder = TRUE` | `NeverNil` | Resume with rows selected child first (no `ORDER BY`) leaves a nil entry ahead of the loop (`internal/execution.go:24`). |
| `Graph <- ImplicitEnd`, `MaySuspend = {}` | `NeverFails` | An interrupting boundary event without outgoing flow lets the process scope be continued as an execution (`internal/execution.go:580`). |
| `Graph <- DecidedJoin`, `MaySuspend = {}`, `MaxRows = 14` | `WaitsForItsFlow` | An exclusive gateway that decides for a join creates an execution there without a previous element (`internal/graph.go:672`); it is never joined. |
| `Graph <- PassedSubProcess`, `MaySuspend = {}` | `BoundaryEventsAttached` | Boundary events of a sub-process passed within one transaction are never terminated (`internal/execution.go:95`). |

The graphs that pass avoid exactly these cases, or (`Failing`) include them with the
rollback they cause, so that they show the rest: `ForkJoin` and `Nested` put an exclusive
gateway or event behind each boundary event, and tasks into each sub-process whose
boundary events matter.

Seen in the code without a run of their own:

* Under READ COMMITTED sender and subscriber do not see each other's insertion
  (`internal/message.go:268`, `:322`): the message waits, and expires, next to its
  subscriber. `NoMissedMessage` is therefore about `serialized` alone, and covers nothing of
  this race.
* An error of completing an event-based gateway is dropped (`internal/timer.go:161`,
  `internal/message.go:540`, `internal/signal.go:414`). The model leaves it out: in PostgreSQL a
  statement that fails fails the rest of its transaction too, and in memory none fails. Only a
  row that is read and cannot be scanned would leave the other events armed.
* End events that errors and escalations reach in another instance are COMPLETED without
  an `EndedAt`.
* `EncryptData` changes the command of its caller in place; `worker/worker.go:126` drops the
  error of an encoding.
* The next activity of a sequential multi-instance activity starts although the instance is
  suspended, and a parallel join behind a multi-instance activity loses the previous element.
* Two transactions that throw signals may deadlock in PostgreSQL, which aborts one of them.

## 5. What is proved

TLAPS proves, for every process graph, for every set of instances, jobs, executions, workers, executors, tasks,
engines, messages, signals, subscribers, deployments and elements, for calls of any depth
with boundary events of every kind (errors always interrupt, others may repeat), for every capacity of the cache and for every limit, under
the assumptions named in the modules (`InstancesAssumption`, `ParallelismsAssumption`,
`JobsAssumption`, `WorkerAssumption`, `TasksAssumption`, `CallsAssumption`,
`NullAssumption`, `MessagesAssumption`, `SignalsAssumption`, `ProcessesAssumption`,
`ProcessModelAssumption`, and `GraphAssumption`, `ValidAssumption`, `FlowAssumption` and
`BoundAssumption` of `ProcessExecution`, all of them about the constants: finite or disjoint
sets, natural numbers, what the parser and the validation ask of a process, `Null` different from all else, a gateway that is wholly in a scenario or not at
all, error boundary events that interrupt, as `internal/error.go` makes all of them):

* `EnginesProofs`, of `ProcessInstanceQueue`: `TypeCorrect`, `ListCorrect`, `QueuedOnceCorrect`,
  `NoStuckQueueCorrect`, `ActiveCountCorrect` (`ActiveCountLessGhosts`), the refinement
  `PromiseKept` (`Spec => KeepsPromise`) and `LimitRespected`, also with children; and if
  `Children = {}`, `WithoutChildren`: `ActiveCountIsSlots`, and the refinement without a
  condition. Of `Tasks`: `TasksTypeCorrect`,
  `TaskDoneOnce`, `TaskHasOneExecutor`, each under `UnlockRunning = FALSE`.
* `WorkerProofs`: of `Jobs`, `JobsTypeCorrect`, `JobCompletedOnce`, `ExecutionHasOneHandle`;
  the refinement `WorkerExecutesJobs`, and from it `WorkerCompletesOnce` and
  `WorkerKeepsHandle`; `RunAgainCorrect` and `LatestCorrect`.
* `CallsProofs`: `TypeCorrect`, `CallContinues` (`NoStuckCall`), `OneInterruption`
  (`InterruptedOnce`), `CalledEnds` (`NoOrphanedInstance`), `UserTaskInStep`
  (`UserTaskFollowsExecution`) and the action property `UpdateOfWhatWasRead`
  (`NoLostUpdate`).
* `MessagesProofs`: `MessagesTypeCorrect`, `MessageCorrelatedOnce`, `ExecutionWaitsForOne`,
  `InstancesAreUnique`, in both engines, and `NoMessageMissed` under the mutex.
* `SignalsProofs`: `SignalsTypeCorrect`, `CountCorrect`, `SubscriberWaitsForOne`,
  `GatewayTriggersOnce`, `BoundaryWaitsOn`.
* `DeploymentProofs`, of `Processes`: `LastRulesCorrect`, `TimerTicksOn`, `CacheCorrect`. Of
  `ProcessModel`: `ProcessModelTypeCorrect`, `CursorCorrect`, and
  `TypeFitsCorrect` and `NeverPanicsCorrect` for documents in which an event has at most one of the definitions BPMN has for it
  (`IsBpmn`; `ProcessModelMultiple` shows that it is needed).
* `ProcessExecutionProofs`: `CountsAreRight` (`CountIsChildren`), `OrphansAreNone`
  (`NoOrphans`) and `TypeCorrect`, suspended instances included, as long as boundary events
  are attached to what is active (`AttachedToActive`).

**The queue.** None of the invariants is inductive alone. `LineInv` joins `TypeOK`,
`ListIsQueue` and `QueuedOnce` with two facts about the list's cells: `NewUnlinked`, an
instance not created yet has no successor, so that appending it makes it the tail; and
`WaitingState`, who is in the list is queued or was terminated there, so that whoever leaves
the head may be given a start task. The central lemma, `StartHeadList`, shows that taking the
head off shifts the list by one; `ReleaseLine` and `EndedLine` use it for everything that
gives a slot back. `NoStuckQueue` is inductive relative to `LineInv`: every action that makes
`MustDequeue` true either starts the head itself or inserts a task. `ActiveCountLessGhosts`
follows from how each action changes the sets `Slots` and `Ghosts`, by one member at most
(`HeadStartedSlots`, `NobodyStartedSlots`, `EndedSlots`). As long as there are no ghosts the
active count *is* the number of those at work (`ViewInv`). A slot the code gives away is then one
the promise has (`RoomOf`), and each step that makes no ghost is mapped to a step of
`BoundedParallelism` (`RowView`, `ReleaseView`, `NextPromise`). Without children nobody is ever
terminated in the queue (`NextNoneTerminated`), and the condition falls away.

**Jobs and the worker.** The inductive invariant `Inv` adds `RowsOK` to the type: a row
exists exactly if it has an execution, and what `CompleteJob` has read is an existing job
that is not completed. The last is the reason why the unlocked read is harmless for
`CompletedOnce`: whoever completes a job holds the process instance's row, and the others
never set `completed_at`. The worker adds guards and variables to `Jobs` and therefore
implements it; `RunAgainCorrect` rests on `FreshJobs`: what is in a batch and has been
handled before has been unlocked since it was locked.

**Variables.** A job handler's puts are folded into a list in which a later one takes the place
of an earlier one (`Puts`), and of this list `SetVariables` stores for each scope the first entry,
while `last` remembers the last one. `StoreInv` adds the types of rows (`StoreOK`) to
`LatestIsStored` and is inductive: `StoredRows` follows a scope through `Upserted` and `Deleted` of
both engines, with one row and with several. That first and last are the same
is shown by induction on the number of values. The library's induction theorems cannot be
used here (their parameter is an operator), but its least-element theorem for well-founded
relations is about a set: `InductiveSet` takes the set of numbers for which a claim holds
and refutes the least one outside of it. With it `FoldExists` shows that the fold of
`SequencesExt` has a value for every sequence, `PutsStay` that folding over a part and then
over the rest is folding over the whole, and `PutsOnce` that a list of puts has each scope once.

**Tasks.** `Inv` adds `RowsOK`: each row belongs to the work of a first task, and a
completed row keeps its lock, so that nobody locks it again (this is what `LockJobs` and
`LockTasks`, which do not look at `completed_at`, rest on). With it `OneExecutor` is
inductive: a lock is released only for an engine with no batch. The executing engine
therefore has the only handle of its work (`ExecutedRows`), which it ends or replaces by
one other (`ReplacedDoneOnce`). If the tasks of a running engine are unlocked
(`UnlockRunning = TRUE`), both theorems fail: a second engine executes the same task.

**The execution of an instance.** The counts are wrong most of the time: the loop of
`continueExecutions` ends an execution in one place and counts it out of its scope in
another, and between the two a scope has been listed whose last execution is gone. `Consistent(c,
t, s)` is what a context `c` satisfies at the head of the loop (`t = 0`), while row `t` is
continued, and before the scope `s` is looked at: the shape of the rows (`ShapeOf`: parents,
previous elements, what is within a multi-instance activity); what is active is within an
active scope (`ActiveWithin`), an ended scope is continued after what has ended with it (`Order`,
about the *places* in the list, which has holes); the count of an active row is the
number of its active executions that the loop has not dealt with yet, less the boundary events
still to be set (`CountedRow`), an ended one's is at most that; what each state says of count,
job and place in the list (`StateOf`); and the process row mirrors the instance
(`ProcessOf`). `NewOnce` says that a new execution is listed once.

`ContinueExecutionsProofs` follows this through the operators of `ProcessExecution`, each of
which changes one row and the end of the list (`PutFacts`, `ExtendedBy`, `Moves`), to
`IterationKeeps`: the iteration of the loop keeps it. `ProcessExecutionProofs` shows with one
lemma for each command and task (`...Keeps`) that it fills the list such that it holds, and
with `CommitKeeps` that it holds of the rows that are committed: then no execution is pending
and the counts are those of `CountIsChildren`. For an interrupting boundary event
or a thrown error the list holds everything below the activity in the order in which the code
collects it, children first (`InterruptedRows`, `Led`). The least-element theorem for well-founded
relations stands in for an induction over the list and along parents. `Inv` is the
invariant: committed rows are consistent, a running transaction is, and it keeps what its
start has read of boundary events and of multi-instance activities that wait (`Kept`).

Suspension is the hard part of `Consistent`. A scope that is suspended holds back what is new
in it, also the boundary events of a sub-process that is begun again (section 4), so that an
activity waits for events that are `SUSPENDED` and not only for those that are `CREATED`
(`Unset`, `IsUnset`); an activity with an open job is never suspended, since it would be given
a second job on resume, and nothing that is continued has one (`Idle`, `HeldIdle`).
`RestatedConsistent` is what start, suspend and resume have in common: they change the state of
scopes that count something, and of nothing else.

The hypothesis is not for convenience. `AttachedToActive`, the second half of
`BoundaryEventsAttached`, is not an invariant of every graph: section 4, `PassedSubProcess`.
Where a run checks it, it holds (`ProcessExecution`).

**Calls.** None of the four invariants is inductive. `Inv` is stated over *rows*, the
record that `Rows` and `Write` compose a step of, so that each conjunct can be followed
through the operators a step calls one after the other (`Enter`, `startBoundaryEvent`,
`terminateProcessInstance`, `Complete`), and not only from state to state:

* `LeafPart` and `CalledPart` tie leaves and call activity to the instance: they are active
  only while it is started, the called instance exists only if the call activity has been
  started, and a job is of the right kind and not older than what it is about. With
  the last two conjuncts of `CalledPart` a call activity that has ended owes the
  called instance its termination task as long as that is active (`NoOrphanedInstance`).
* `BoundaryPart`: boundary events wait exactly as long as the call activity does, and one of
  them at most is completed, which makes up `InterruptedOnce`.
* `StuckPart` is `NoStuckCall` in a form that survives a step: a called instance that has ended
  has left a job or the task of a boundary event that *will* interrupt. That it will, and
  not only exists, needs the number `n` of the boundary event; and that this number has not
  moved since it was found is `FoundPart`, on which everything rests that a transaction
  commits after an unlocked read: its own instance and leaf are still as they were, as it
  holds the instance's row, and an interrupting boundary event of the caller, whose row it
  does not hold, cannot have been attached anew. For one that does not interrupt this fails;
  that is the escalation of `CallsEscalation`, section 4. `Kept` says what a transaction leaves
  to the ones that run beside it.
* `SeenPart`: a user task with the revision a client has read is the row it has read. It is
  what optimistic locking rests on, and gives `NoLostUpdate`. One client's read is
  kept in `seen`, the others' is any; that client waits for its update before it reads again
  (`ReadUserTask`), since `seen` would otherwise forget the read an update is based on.

**Messages.** What makes the interleavings harmless is what a transaction may rely on
between finding and committing. `SendingOK`: the subscription that `SendMessage` has found
is still there and found by no other. `LookingOK`: the message a subscriber has found has
expired at most, it is found by no other, and the task that is being executed is still due.
Together with `TasksOK` (a due task is the only one of its message and of its execution),
`StatesOK` and `WaitsOK` they make up `Inv`, from which `CorrelatedOnce` and `WaitsForOne`
follow; `KeysOK` says that the unique index holds over committed and uncommitted messages,
and gives `UniqueInstances`. `NoMissedMessage` needs the mutex, since what a transaction has
*not* found it does not lock: `MutexOK` says that one transaction runs (`OneRuns`), and that
one that has found nothing would still find nothing (`NotFoundOK`).

**Signals.** What a sender has found is gone for everybody else, though not committed: so
each subscriber is subscribed, found by one sender or triggered by one task. The count of a
signal is written once, when the sender commits, together with as many tasks; afterwards
each executed task removes one from either side. The gateway's instance and its timer meet at
the lock of the instance: the one that comes second finds its event ended. `BoundaryOK` says of
the executions of a repeating boundary event that at most one of them waits, and exactly one as long as
the activity goes on and not all have completed; `NextBoundaryOK` is the step that hands over.

**Processes.** Whoever has `STORED` a process holds the row of the queue of its BPMN process
(`StoredOK`), so that no other reaches this point; what it suspends is hence what is still in
force when it commits, and exactly one version, the last, stays (`LastOK`).

**The cache.** `CacheInv` adds to the invariant of deployments that the list has no element
twice and as many as `processesById`, and that what is cached has been requested (`CachedOK`):
the key of an entry is computed anew when it is evicted, so the removal would miss the map's
entry if the process changed. `RemovedList` and `PushedList` say what taking one out of the
list and putting one in front do to its members; all calls of the cache are compositions of
the two. A capacity of 0 is included, an entry is then evicted at once.

**The parser.** `CursorIsInnermost` says that there is a path of elements, each the parent of
the next, whose tags are the ones that are open. `StackOK` (what is open around something is
a scope or an activity) makes it inductive: opening appends to the path, closing drops its
end, and everything else keeps tags and parents (`PathKept`). `BoundaryOK`, that
`isBoundaryEvent` is about the open element, then gives the types. A type assertion is about the model of an element that has the
type of an event definition; as types fit models (`TypesInv`), none fails (`FitsIsAsserted`), and
`NeverPanicsCorrect` follows. Flows may lead anywhere in it.

## 6. What is model-checked only

* Liveness under fairness (`QueuedIsStarted`, `TaskCompletes`, `InstanceEnds`,
  `MessageReleased`, `SignalReleased`): out of the prover's reach, as is `ENABLED`.
* Of `ProcessExecution`, `BoundaryEventsAttached`, `EnteredOnce`, `NothingIsStuck`,
  `NoMissedJoin`, `WaitsForItsFlow` and `ActivitiesRunOnce`. Most of these hold for graphs that avoid the cases of
  section 4 and not for others, so that a theorem would have to assume of `Graph` what these cases
  have in common. `NothingIsStuck` and `NoMissedJoin` need beyond `Inv` that every execution that
  can go on has been given its work when the transaction commits.

Defined, and proved or checked in earlier versions, but not among the properties of a run,
since others imply them or say more: `QueuedOnce`, `CapacityIsUsed`, `ParallelismRespected`,
`ActiveCountLessGhosts` (queue), `CompletedOnce` (jobs), `EndedForGood` (execution), the `WaitsForOne` of `Signals`,
`StartNamesAreUnique`, `UniqueInMemory` and `InstancesOfExisting` (`Processes`), and the
type invariants.

## 7. What is not modelled

* *In the modelled parts*: due dates (a job or task that is not due yet is one nobody has
  locked yet), tags, encoding and encryption of variables, the registration of job handlers, attributes
  and extensions of elements that no property tells apart, several names of messages,
  signals and variables.
* *Partitions*: creation, detachment and removal of daily partitions are DDL driven by the
  clock. *API keys, migrations*: straight-line I/O.
* *Read-only queries*, also those that read variables: they change no state. The data race of
  their lock in `mem` (`mem/mem.go:230`) is undefined behaviour of a flag and not modelled;
  neither is that of the process cache, whose `Get` and `GetById` move and remove entries while
  they hold the mutex for reading only (`internal/process.go:55`, `:78`). `Processes`
  takes each call of the cache as one step; `CacheCorrect` says that such steps, in any order,
  keep the cache consistent.
* *HTTP, CLI, daemons*: one request is one command. *OpenAPI generator*: a build tool.

## 8. What is left

1. Of `ProcessExecution`, `NothingIsStuck` and `WaitsForItsFlow` for graphs without
   `DecidedJoin` (section 4).
2. Partitions: what may be detached while the queue still refers to it
   (`pg/management.go:394`).
3. A composition of `Tasks` with the start events: a retry that is given the id of the
   instance a first attempt has created (`internal/timer.go:230`).

## 9. Running it

    tlc -config <run>.cfg <module>.tla      # module and run: PROJECT.json
    tlapm EnginesProofs.tla
    tlapm WorkerProofs.tla
    tlapm CallsProofs.tla
    tlapm MessagesProofs.tla
    tlapm SignalsProofs.tla
    tlapm DeploymentProofs.tla
    tlapm ContinueExecutionsProofs.tla      # about a quarter of an hour,
    tlapm ProcessExecutionProofs.tla        # and as long again
