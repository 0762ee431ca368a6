------------------------ MODULE ProcessInstanceQueue ------------------------
(***************************************************************************)
(* The queue that limits how many instances of one BPMN process run in     *)
(* parallel: engine/internal/process_instance_queue.go, the commands and   *)
(* tasks of process_instance.go that touch it, and CreateProcess, which    *)
(* sets the parallelism of the latest version.                             *)
(*                                                                         *)
(* Every command and every task execution is one transaction that holds    *)
(* the queue row (pg: SELECT ... FOR UPDATE) or the engine mutex (mem), so *)
(* it is one action here.  A task counts as due from its insertion to the  *)
(* end of its execution: locking it, losing the engine that locked it and  *)
(* unlocking it again only delay the action.                               *)
(***************************************************************************)
EXTENDS Integers, Sequences, FiniteSets

CONSTANTS
  Instances,      \* process instances of the BPMN process, over all versions
  Children,       \* those created by a call activity of a parent instance
  Startless,      \* those of a version that has no none start event
  Parallelisms,   \* values of CreateProcessCmd.Parallelism; 0 is unlimited
  MaxVersions,    \* bound on the number of CreateProcess commands
  Null            \* an SQL NULL: no head, no tail, no next element

ASSUME InstancesAssumption ==
  /\ IsFiniteSet(Instances)
  /\ Children \subseteq Instances
  /\ Startless \subseteq Instances
  /\ Null \notin Instances
ASSUME ParallelismsAssumption == Parallelisms \subseteq Nat /\ MaxVersions \in Nat

VARIABLES
  queue,          \* row of process_instance_queue
  next,           \* NextId of the rows of process_instance_queue_element
  state,          \* State of each process instance, "NONE" before its creation
  startTasks,     \* number of due StartProcessInstance tasks of each instance
  dequeueTasks,   \* number of due DequeueProcessInstance tasks
  versions,       \* number of CreateProcess commands so far
  waiting         \* history: the queued instances, in the order they arrived

vars == <<queue, next, state, startTasks, dequeueTasks, versions, waiting>>

Active == {"STARTED", "SUSPENDED"}
Ended == {"COMPLETED", "TERMINATED"}
InstanceState == {"NONE", "QUEUED"} \cup Active \cup Ended

Queue == [parallelism: Parallelisms, activeCount: Int, queuedCount: Int,
          head: Instances \cup {Null}, tail: Instances \cup {Null}]

-----------------------------------------------------------------------------

(* Operators named Mutant... are mistaken variants of the operator that       *)
(* follows them; some property of this module fails for each of them.         *)

(* A queued instance exists and there is capacity for an active one. *)
MustDequeue(q) ==
  q.queuedCount > 0 /\ (q.parallelism <= 0 \/ q.activeCount < q.parallelism)

(* There is no capacity for another active instance. *)
MustEnqueue(q) == q.parallelism > 0 /\ q.activeCount >= q.parallelism

(* The row with i queued up as its new tail, and with one more active. *)
WithQueued(q, i, head) ==
  [parallelism |-> q.parallelism, activeCount |-> q.activeCount,
   queuedCount |-> q.queuedCount + 1, head |-> head, tail |-> i]

WithActive(q) == [q EXCEPT !.activeCount = @ + 1]

MutantEnqueued(q, i) ==   \* only capacity decides: the queued are overtaken
  IF MustEnqueue(q)
  THEN WithQueued(q, i, IF q.tail = Null THEN i ELSE q.head)
  ELSE WithActive(q)

(* The queue row after enqueueProcessInstance(i): behind a valid tail an     *)
(* instance always queues up, with an empty queue only at full capacity.     *)
Enqueued(q, i) ==
  LET head == IF q.tail = Null /\ MustEnqueue(q) THEN i ELSE q.head
  IN  IF head # Null THEN WithQueued(q, i, head) ELSE WithActive(q)

MutantPopped(q) ==   \* the tail is not reset with the last element
  [parallelism |-> q.parallelism, activeCount |-> q.activeCount + 1,
   queuedCount |-> q.queuedCount - 1, head |-> next[q.head], tail |-> q.tail]

(* The queue row after its head has been taken off the list. *)
Popped(q) ==
  [parallelism |-> q.parallelism, activeCount |-> q.activeCount + 1,
   queuedCount |-> q.queuedCount - 1, head |-> next[q.head],
   tail |-> IF next[q.head] = Null THEN Null ELSE q.tail]

MutantStartHead(q, tasks) ==   \* no task is inserted
  /\ queue' = Popped(q)
  /\ startTasks' = tasks
  /\ waiting' = Tail(waiting)

(* Pop the head of q and insert its StartProcessInstance task into tasks. *)
StartHead(q, tasks) ==
  /\ queue' = Popped(q)
  /\ startTasks' = [tasks EXCEPT ![q.head] = @ + 1]
  /\ waiting' = Tail(waiting)

(* dequeueProcessInstance: an instance has ended and gives its slot back,    *)
(* which is passed on when an instance is waiting for it.                    *)
Release(q, tasks) ==
  LET released == [q EXCEPT !.activeCount = @ - 1]
  IN  \/ /\ MustDequeue(released)
         /\ StartHead(released, tasks)
      \/ /\ ~MustDequeue(released)
         /\ queue' = released
         /\ startTasks' = tasks
         /\ UNCHANGED waiting

-----------------------------------------------------------------------------

(* The first version of the process has been created. *)
Init ==
  /\ queue \in [parallelism: Parallelisms, activeCount: {0}, queuedCount: {0},
                head: {Null}, tail: {Null}]
  /\ next = [i \in Instances |-> Null]
  /\ state = [i \in Instances |-> "NONE"]
  /\ startTasks = [i \in Instances |-> 0]
  /\ dequeueTasks = 0
  /\ versions = 1
  /\ waiting = <<>>

(* A further version is created: its parallelism applies to all versions. *)
CreateProcess(p) ==
  /\ versions < MaxVersions
  /\ versions' = versions + 1
  /\ queue' = [queue EXCEPT !.parallelism = p]
  /\ dequeueTasks' = dequeueTasks + (IF MustDequeue(queue') THEN 1 ELSE 0)
  /\ UNCHANGED <<next, state, startTasks, waiting>>

(* The state a new instance has unless it is queued: a child takes over the *)
(* state of its parent, which may be suspended.                             *)
InitialStates(i) == IF i \in Children THEN Active ELSE {"STARTED"}

(* CreateProcessInstance at full capacity, or behind a queued instance. *)
QueueProcessInstance(i) ==
  /\ state[i] = "NONE"
  /\ Enqueued(queue, i).head # Null
  /\ queue' = Enqueued(queue, i)
  /\ next' = IF queue.tail = Null THEN next ELSE [next EXCEPT ![queue.tail] = i]
  /\ state' = [state EXCEPT ![i] = "QUEUED"]
  /\ waiting' = Append(waiting, i)
  /\ UNCHANGED <<startTasks, dequeueTasks, versions>>

(* CreateProcessInstance with a free slot.  A start event is missing only    *)
(* after the instance has been inserted and counted; the job that called the *)
(* process then fails, but its transaction is committed.                     *)
CreateProcessInstance(i) ==
  /\ state[i] = "NONE"
  /\ Enqueued(queue, i).head = Null
  /\ queue' = Enqueued(queue, i)
  /\ \E s \in InitialStates(i) : state' = [state EXCEPT ![i] = s]
  /\ UNCHANGED <<next, startTasks, dequeueTasks, versions, waiting>>

(* CreateProcessInstance of an instance that meets no wait state: it starts *)
(* and completes in the same transaction.                                   *)
CreateAndComplete(i) ==
  /\ state[i] = "NONE" /\ i \notin Startless
  /\ Enqueued(queue, i).head = Null
  /\ Release(Enqueued(queue, i), startTasks)
  /\ state' = [state EXCEPT ![i] = "COMPLETED"]
  /\ UNCHANGED <<next, dequeueTasks, versions>>

(* SuspendProcessInstance *)
SuspendProcessInstance(i) ==
  /\ state[i] = "STARTED"
  /\ state' = [state EXCEPT ![i] = "SUSPENDED"]
  /\ UNCHANGED <<queue, next, startTasks, dequeueTasks, versions, waiting>>

(* ResumeProcessInstance of an instance that reaches another wait state. *)
ResumeProcessInstance(i) ==
  /\ state[i] = "SUSPENDED"
  /\ state' = [state EXCEPT ![i] = "STARTED"]
  /\ UNCHANGED <<queue, next, startTasks, dequeueTasks, versions, waiting>>

(* The last execution of an active instance completes.  A suspended one may  *)
(* complete as well: when it is resumed, or when the job of its last element *)
(* is completed and that element has no outgoing sequence flow.              *)
CompleteProcessInstance(i) ==
  /\ state[i] \in Active /\ i \notin Startless
  /\ state' = [state EXCEPT ![i] = "COMPLETED"]
  /\ Release(queue, startTasks)
  /\ UNCHANGED <<next, dequeueTasks, versions>>

(* terminateProcessInstance: by the task that a terminated call activity     *)
(* inserts for its child, or by an error or escalation thrown to the parent. *)
(* A queued child is not taken off the list, yet its slot is given back.     *)
TerminateProcessInstance(i) ==
  /\ i \in Children \ Startless
  /\ state[i] \in Active \cup {"QUEUED"}
  /\ state' = [state EXCEPT ![i] = "TERMINATED"]
  /\ Release(queue, startTasks)
  /\ UNCHANGED <<next, dequeueTasks, versions>>

MutantExecuteDequeue ==   \* no task for the next one
  /\ dequeueTasks > 0
  /\ MustDequeue(queue)
  /\ StartHead(queue, startTasks)
  /\ dequeueTasks' = dequeueTasks - 1
  /\ UNCHANGED <<next, state, versions>>

(* DequeueProcessInstanceTask: start the head, and insert a task to dequeue  *)
(* the next one if there still is capacity.                                  *)
ExecuteDequeue ==
  /\ dequeueTasks > 0
  /\ MustDequeue(queue)
  /\ StartHead(queue, startTasks)
  /\ dequeueTasks' = dequeueTasks - 1 + (IF MustDequeue(queue') THEN 1 ELSE 0)
  /\ UNCHANGED <<next, state, versions>>

CancelDequeue ==
  /\ dequeueTasks > 0
  /\ ~MustDequeue(queue)
  /\ dequeueTasks' = dequeueTasks - 1
  /\ UNCHANGED <<queue, next, state, startTasks, versions, waiting>>

Without(tasks, i) == [tasks EXCEPT ![i] = @ - 1]

(* StartProcessInstanceTask: the instance runs up to its first wait state *)
ExecuteStart(i) ==
  /\ startTasks[i] > 0 /\ state[i] = "QUEUED"
  /\ startTasks' = Without(startTasks, i)
  /\ state' = [state EXCEPT ![i] = "STARTED"]
  /\ UNCHANGED <<queue, next, dequeueTasks, versions, waiting>>

(* or to its end, *)
ExecuteStartToEnd(i) ==
  /\ startTasks[i] > 0 /\ state[i] = "QUEUED" /\ i \notin Startless
  /\ Release(queue, Without(startTasks, i))
  /\ state' = [state EXCEPT ![i] = "COMPLETED"]
  /\ UNCHANGED <<next, dequeueTasks, versions>>

(* and the task is canceled if the instance is no longer queued. *)
CancelStart(i) ==
  /\ startTasks[i] > 0 /\ state[i] # "QUEUED"
  /\ startTasks' = Without(startTasks, i)
  /\ UNCHANGED <<queue, next, state, dequeueTasks, versions, waiting>>

-----------------------------------------------------------------------------

(* What the engine does on its own: execute the tasks that are due. *)
StartTask(i) == ExecuteStart(i) \/ ExecuteStartToEnd(i) \/ CancelStart(i)
DequeueTask == ExecuteDequeue \/ CancelDequeue

(* What the commands of clients and workers cause. *)
Command(i) ==
  \/ QueueProcessInstance(i) \/ CreateProcessInstance(i) \/ CreateAndComplete(i)
  \/ SuspendProcessInstance(i) \/ ResumeProcessInstance(i)
  \/ CompleteProcessInstance(i) \/ TerminateProcessInstance(i)

Next ==
  \/ \E p \in Parallelisms : CreateProcess(p)
  \/ DequeueTask
  \/ \E i \in Instances : Command(i) \/ StartTask(i)

Spec == Init /\ [][Next]_vars

(* The task executor keeps executing due tasks. *)
EngineFairness ==
  /\ WF_vars(DequeueTask)
  /\ \A i \in Instances : WF_vars(StartTask(i))

FairSpec == Spec /\ EngineFairness

(* And no instance stays active for ever, which is up to the workers. *)
WorkerFairSpec == FairSpec /\ \A i \in Instances : WF_vars(CompleteProcessInstance(i))

-----------------------------------------------------------------------------

(* Type correctness: also, no count leaves its range in the code's ints. *)
TypeOK ==
  /\ queue \in Queue
  /\ next \in [Instances -> Instances \cup {Null}]
  /\ state \in [Instances -> InstanceState]
  /\ startTasks \in [Instances -> Nat]
  /\ dequeueTasks \in Nat
  /\ versions \in Nat
  /\ waiting \in Seq(Instances)

IsWaiting(i) == \E k \in 1..Len(waiting) : waiting[k] = i

(* The linked list in the element rows is the queue: following next from     *)
(* head to tail meets exactly the instances that queued up and were not yet  *)
(* popped, in their order of arrival, and queuedCount is their number.       *)
ListIsQueue ==
  /\ queue.queuedCount = Len(waiting)
  /\ queue.head = IF waiting = <<>> THEN Null ELSE waiting[1]
  /\ queue.tail = IF waiting = <<>> THEN Null ELSE waiting[Len(waiting)]
  /\ \A k \in 1..Len(waiting) :
       next[waiting[k]] = IF k = Len(waiting) THEN Null ELSE waiting[k + 1]
  /\ \A k, l \in 1..Len(waiting) : waiting[k] = waiting[l] => k = l

(* No queued instance is lost and none is started twice: it is either still  *)
(* in the list or has exactly one start task due, never both.                *)
QueuedOnce ==
  \A i \in Instances :
    /\ startTasks[i] <= 1
    /\ state[i] = "NONE" => ~IsWaiting(i) /\ startTasks[i] = 0
    /\ state[i] = "QUEUED" => (IsWaiting(i) <=> startTasks[i] = 0)
    /\ state[i] \in Active => ~IsWaiting(i) /\ startTasks[i] = 0
    /\ IsWaiting(i) => startTasks[i] = 0

(* No lost wakeup: free capacity with an instance waiting for it is always   *)
(* followed up by a DequeueProcessInstance task that is already due.         *)
NoStuckQueue == MustDequeue(queue) => dequeueTasks > 0

(* The instances that occupy a slot: active, or about to be started. *)
Slots == {i \in Instances : state[i] \in Active \/ (state[i] = "QUEUED" /\ startTasks[i] > 0)}

(* Terminated while they were queued, and still in the list. *)
Ghosts == {i \in Instances : state[i] = "TERMINATED" /\ IsWaiting(i)}

(* "Number of active process instances (started or due StartProcessInstance- *)
(* Task exists)", as process_instance_queue.go documents ActiveCount.  The   *)
(* code breaks it: a child terminated while it is queued has no slot, yet    *)
(* terminateProcessInstance gives one back.                                  *)
ActiveCountIsSlots == queue.activeCount = Cardinality(Slots)

(* What ActiveCount really counts: the occupied slots, less the slots that   *)
(* terminated instances gave back without having had one.                    *)
ActiveCountLessGhosts == queue.activeCount = Cardinality(Slots) - Cardinality(Ghosts)

(* Nobody who waits has been or is being terminated. *)
OnlySlotsGivenBack ==
  /\ Ghosts = {}
  /\ \A i \in Instances : IsWaiting(i) => state'[i] # "TERMINATED"

(* "Maximum number of parallel process instances being executed", as         *)
(* model.go and command.go document Parallelism: an instance is given a slot *)
(* only if the limit of the latest version then still holds.                 *)
ParallelismRespected ==
  [][OnlySlotsGivenBack /\ Slots' \ Slots # {} =>
       \/ queue'.parallelism = 0
       \/ Cardinality(Slots') <= queue'.parallelism]_vars

(* The queue implements the abstract promise as long as no queued child is   *)
(* terminated: every step of the code, also the termination of an active     *)
(* child, is a step of BoundedParallelism or leaves its view, the waiting    *)
(* line and the occupied slots, as it is.                                    *)
Promise == INSTANCE BoundedParallelism WITH
  limit <- queue.parallelism,
  line <- waiting,
  running <- Slots,
  arrived <- {i \in Instances : state[i] # "NONE"}

KeepsPromise ==
  Promise!Init /\ [][OnlySlotsGivenBack => [Promise!Next]_(Promise!vars)]_vars

(* Capacity does not stay unused while instances are queued. *)
CapacityIsUsed == MustDequeue(queue) ~> ~MustDequeue(queue)

(* Instances without a start event that are active and can never complete. *)
Leaked == {i \in Startless : state[i] \in Active}

(* A queued instance does not stay queued if the active ones end, unless     *)
(* instances without a start event have taken every slot for ever.           *)
QueuedIsStarted ==
  \A i \in Instances :
    state[i] = "QUEUED" ~>
      \/ state[i] # "QUEUED"
      \/ queue.parallelism > 0 /\ Cardinality(Leaked) >= queue.parallelism
=============================================================================
