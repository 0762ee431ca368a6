------------------------------- MODULE Messages -------------------------------
(***************************************************************************)
(* Messages and those who wait for them: engine/internal/message.go, with  *)
(* TriggerEventTask of event.go, what ends an execution that waits, and    *)
(* the statements of pg/message.go.                                        *)
(*                                                                         *)
(* All messages have the same name and correlation key: others never meet. *)
(* Who sends looks for a subscription, who subscribes looks for a buffered *)
(* message, and each writes what follows from what it has found when it    *)
(* commits.  PostgreSQL, at READ COMMITTED, lets two such transactions run *)
(* at once; the mutex of the in-memory engine does not.  What a            *)
(* transaction has found it has locked, and the others skip locked rows.   *)
(*                                                                         *)
(* Each execution is one of a process instance of its own, so that only    *)
(* its own transactions wait for each other.  A task is due until a        *)
(* transaction that executes it commits, as in ProcessInstanceQueue.       *)
(***************************************************************************)
EXTENDS Naturals, FiniteSets

CONSTANTS
  Messages,       \* bound on the number of messages
  Keys,           \* unique keys
  Executions,     \* message catch events and message boundary events
  Repeating,      \* those of non-interrupting boundary events
  Start,          \* stands for a message start event
  Nothing,        \* found by a transaction that has found nothing
  Null

ASSUME MessagesAssumption ==
  /\ Repeating \subseteq Executions
  /\ Start \notin Executions /\ Null \notin Keys
  /\ {Nothing, Null} \cap (Messages \cup Executions \cup {Start}) = {}
  /\ Nothing # Null

VARIABLES
  serialized,     \* does a mutex serialize all commands and tasks? never changes
  state,          \* of the row of each message, see below
  key,            \* UniqueKey of each message, or Null
  timed,          \* the messages sent with an ExpirationTimer
  mode,           \* of an execution: "JOB" to be completed, "WAIT"ing, "ENDED"
  subscriptions,  \* the executions with a row in message_subscription
  tasks,          \* due TriggerEvent tasks: who is triggered by which message
  instances,      \* of the message start event: active ones, by their messages
  defined,        \* is there a message start event that is not suspended?
  sending,        \* what SendMessage has found for a message, Null if not sent
  looking,        \* what the transaction of an execution has found, or Null
  triggered,      \* history: how many events a message has triggered
  failed          \* history: the instances whose completion has failed

rows == <<state, subscriptions, tasks>>
vars == <<serialized, rows, key, timed, mode, instances, defined, sending, looking, triggered, failed>>

(* BUFFERED:   not correlated, expires_at in the future                      *)
(* EXPIRED:    not correlated, expires_at in the past                        *)
(* CORRELATED: correlated, expires_at is NULL                                *)
(* DONE:       correlated, expires_at in the past                            *)
MessageState == {"NONE", "BUFFERED", "EXPIRED", "CORRELATED", "DONE", "PURGED"}

Task == [message: Messages, execution: Executions \cup {Start}]

TasksOf(m) == {t \in tasks : t.message = m}

TaskOf(m, e) == [message |-> m, execution |-> e]

(* What the transaction of an execution is about: it completes the job that *)
(* subscribes (by is Null), or executes the task of the message by.          *)
Look == [found: Messages \cup {Nothing}, by: Messages \cup {Null}]

Init ==
  /\ serialized \in BOOLEAN
  /\ state = [m \in Messages |-> "NONE"]
  /\ key = [m \in Messages |-> Null]
  /\ timed = {}
  /\ mode = [e \in Executions |-> "JOB"]
  /\ subscriptions = {} /\ tasks = {} /\ instances = {}
  /\ defined \in BOOLEAN
  /\ sending = [m \in Messages |-> Null]
  /\ looking = [e \in Executions |-> Null]
  /\ triggered = [m \in Messages |-> 0]
  /\ failed = {}

-----------------------------------------------------------------------------

(* Operators named Mutant... are mistaken variants of the operator that       *)
(* follows them; some property of this module fails for each of them.         *)

Idle ==
  /\ \A m \in Messages : sending[m] = Null
  /\ \A e \in Executions : looking[e] = Null

(* May a transaction begin? *)
MayBegin == serialized => Idle

(* Rows that a transaction holds. *)
LockedSubscriptions == {e \in Executions : \E m \in Messages : sending[m] = e}
LockedMessages ==
  {m \in Messages : \E e \in Executions : looking[e] # Null /\ looking[e].found = m}

MutantSubscribers == subscriptions   \* does not skip locked rows

(* SelectByNameAndCorrelationKey: the oldest one, but the order of creation  *)
(* is that in which transactions have begun, so that it may be any.          *)
Subscribers == subscriptions \ LockedSubscriptions

(* SelectBuffered, likewise *)
Buffered == {m \in Messages : state[m] = "BUFFERED"} \ LockedMessages

MutantKeyIsFree(k) ==   \* only what is buffered is a conflict
  k = Null \/ \A m \in Messages : key[m] = k => state[m] # "BUFFERED" /\ sending[m] = Null

(* The unique index on messages that are not correlated or do not expire.    *)
(* An insertion that conflicts is discarded; one that conflicts with another *)
(* that is not committed yet waits for it.                                   *)
KeyIsFree(k) ==
  k = Null \/ \A m \in Messages : key[m] = k =>
    state[m] \notin {"BUFFERED", "EXPIRED", "CORRELATED"} /\ sending[m] = Null

(* SendMessage up to findMessageSubscriber. *)
SendMessage(m, k, hasTimer) ==
  /\ MayBegin
  /\ state[m] = "NONE" /\ sending[m] = Null
  /\ KeyIsFree(k)
  /\ \/ \E e \in Subscribers : sending' = [sending EXCEPT ![m] = e]
     \/ /\ Subscribers = {}
        /\ sending' = [sending EXCEPT ![m] = IF defined THEN Start ELSE Nothing]
  /\ key' = [key EXCEPT ![m] = k]
  /\ timed' = IF hasTimer THEN timed \cup {m} ELSE timed
  /\ UNCHANGED <<serialized, rows, mode, instances, defined, looking, triggered, failed>>

(* Without a timer a message expires at the time it is sent. *)
CommitMessage(m) ==
  /\ sending[m] # Null
  /\ sending' = [sending EXCEPT ![m] = Null]
  /\ \/ /\ sending[m] = Nothing
        /\ state' = [state EXCEPT ![m] = IF m \in timed THEN "BUFFERED" ELSE "EXPIRED"]
        /\ UNCHANGED <<subscriptions, tasks>>
     \/ /\ sending[m] # Nothing
        /\ state' = [state EXCEPT ![m] = "CORRELATED"]
        /\ tasks' = tasks \cup {TaskOf(m, sending[m])}
        /\ subscriptions' = subscriptions \ {sending[m]}
  /\ UNCHANGED <<serialized, key, timed, mode, instances, defined, looking, triggered, failed>>

MutantLookFor(e, by) ==   \* what is buffered is ignored
  /\ MayBegin
  /\ looking[e] = Null
  /\ looking' = [looking EXCEPT ![e] = [found |-> Nothing, by |-> by]]
  /\ UNCHANGED <<serialized, rows, key, timed, mode, instances, defined, sending, triggered, failed>>

(* subscribeMessage, and the end of triggerMessageBoundaryEvent for the next *)
(* execution of a repeating event: look for a buffered message, *)
LookFor(e, by) ==
  /\ MayBegin
  /\ looking[e] = Null
  /\ \/ \E m \in Buffered : looking' = [looking EXCEPT ![e] = [found |-> m, by |-> by]]
     \/ /\ Buffered = {}
        /\ looking' = [looking EXCEPT ![e] = [found |-> Nothing, by |-> by]]
  /\ UNCHANGED <<serialized, rows, key, timed, mode, instances, defined, sending, triggered, failed>>

(* and either correlate it, or subscribe.  states and due are the messages   *)
(* and the tasks next to it.                                                 *)
Correlated(e, states, due) ==
  LET m == looking[e].found
  IN  \/ /\ m # Nothing
         /\ state' = [states EXCEPT ![m] = "CORRELATED"]
         /\ tasks' = due \cup {TaskOf(m, e)}
         /\ UNCHANGED subscriptions
      \/ /\ m = Nothing
         /\ state' = states
         /\ tasks' = due
         /\ subscriptions' = subscriptions \cup {e}

(* CompleteJob with a correlation key. *)
SubscribeMessage(e) == mode[e] = "JOB" /\ LookFor(e, Null)

CommitSubscription(e) ==
  /\ looking[e] # Null /\ looking[e].by = Null
  /\ Correlated(e, state, tasks)
  /\ mode' = [mode EXCEPT ![e] = "WAIT"]
  /\ looking' = [looking EXCEPT ![e] = Null]
  /\ UNCHANGED <<serialized, key, timed, instances, defined, sending, triggered, failed>>

-----------------------------------------------------------------------------

(* TriggerEventTask *)

Done(m) == [state EXCEPT ![m] = "DONE"]
Counted(m) == [triggered EXCEPT ![m] = @ + 1]

(* A message catch event, or an interrupting boundary event. *)
TriggerMessageEvent(t) ==
  /\ MayBegin
  /\ t.execution \in Executions \ Repeating
  /\ mode[t.execution] = "WAIT"
  /\ state' = Done(t.message)
  /\ tasks' = tasks \ {t}
  /\ mode' = [mode EXCEPT ![t.execution] = "ENDED"]
  /\ triggered' = Counted(t.message)
  /\ UNCHANGED <<serialized, key, timed, subscriptions, instances, defined, sending, looking, failed>>

(* A non-interrupting boundary event: the next execution, which for short is *)
(* the same, inherits what the event waits for.                              *)
TriggerMessageBoundaryEvent(t) ==
  /\ t.execution \in Repeating
  /\ mode[t.execution] = "WAIT"
  /\ LookFor(t.execution, t.message)

MutantCommitTrigger(e) ==   \* the task is due once more
  /\ looking[e] # Null /\ looking[e].by # Null
  /\ Correlated(e, Done(looking[e].by), tasks)
  /\ triggered' = Counted(looking[e].by)
  /\ looking' = [looking EXCEPT ![e] = Null]
  /\ UNCHANGED <<serialized, key, timed, mode, instances, defined, sending, failed>>

CommitTrigger(e) ==
  /\ looking[e] # Null /\ looking[e].by # Null
  /\ Correlated(e, Done(looking[e].by), tasks \ {TaskOf(looking[e].by, e)})
  /\ triggered' = Counted(looking[e].by)
  /\ looking' = [looking EXCEPT ![e] = Null]
  /\ UNCHANGED <<serialized, key, timed, mode, instances, defined, sending, failed>>

(* A message that starts an instance expires at once if it had a timer, and  *)
(* otherwise when the instance is completed.                                 *)
Started(m) == IF m \in timed THEN Done(m) ELSE state

TriggerMessageStartEvent(t) ==
  /\ MayBegin
  /\ t.execution = Start
  /\ state' = Started(t.message)
  /\ tasks' = tasks \ {t}
  /\ instances' = instances \cup {t.message}
  /\ triggered' = Counted(t.message)
  /\ UNCHANGED <<serialized, key, timed, mode, subscriptions, defined, sending, looking, failed>>

MutantCancelTask(t) ==   \* the message is forgotten
  /\ MayBegin
  /\ t.execution \in Executions
  /\ mode[t.execution] = "ENDED" /\ looking[t.execution] = Null
  /\ tasks' = tasks \ {t}
  /\ UNCHANGED <<serialized, state, key, timed, mode, subscriptions, instances, defined, sending,
                 looking, triggered, failed>>

(* The execution has ended: the message expires, and nobody gets it. *)
CancelTask(t) ==
  /\ MayBegin
  /\ t.execution \in Executions
  /\ mode[t.execution] = "ENDED" /\ looking[t.execution] = Null
  /\ state' = Done(t.message)
  /\ tasks' = tasks \ {t}
  /\ UNCHANGED <<serialized, key, timed, mode, subscriptions, instances, defined, sending,
                 looking, triggered, failed>>

ExecuteTask(t) ==
  \/ TriggerMessageEvent(t) \/ TriggerMessageBoundaryEvent(t)
  \/ TriggerMessageStartEvent(t) \/ CancelTask(t)

-----------------------------------------------------------------------------

(* Another transaction of the process instance ends the execution: the event *)
(* next to it has been triggered, the activity it is attached to has ended,  *)
(* an interrupting event or a termination.  It waits for a SendMessage that  *)
(* has locked the subscription, and then finds it gone.                      *)
EndExecution(e) ==
  /\ MayBegin
  /\ mode[e] # "ENDED" /\ looking[e] = Null /\ e \notin LockedSubscriptions
  /\ mode' = [mode EXCEPT ![e] = "ENDED"]
  /\ subscriptions' = subscriptions \ {e}
  /\ UNCHANGED <<serialized, state, tasks, key, timed, instances, defined, sending, looking,
                 triggered, failed>>

(* The last execution of an instance ends, and with it the message; if there *)
(* is no row the transaction fails.                                          *)
CompleteProcessInstance(m) ==
  /\ MayBegin
  /\ m \in instances
  /\ \/ /\ state[m] # "PURGED"
        /\ state' = Done(m)
        /\ instances' = instances \ {m}
        /\ UNCHANGED failed
     \/ /\ state[m] = "PURGED"
        /\ failed' = failed \cup {m}
        /\ UNCHANGED <<state, instances>>
  /\ UNCHANGED <<serialized, subscriptions, tasks, key, timed, mode, defined, sending, looking, triggered>>

(* A version of the process with a message start event is deployed, or one  *)
(* without it.                                                               *)
CreateProcess ==
  /\ MayBegin
  /\ defined' = ~defined
  /\ UNCHANGED <<serialized, rows, key, timed, mode, instances, sending, looking, triggered, failed>>

(* Time passes. *)
Expire(m) ==
  /\ state[m] = "BUFFERED"
  /\ state' = [state EXCEPT ![m] = "EXPIRED"]
  /\ UNCHANGED <<serialized, subscriptions, tasks, key, timed, mode, instances, defined, sending, looking,
                 triggered, failed>>

(* purgeMessagesTask, a task of the PostgreSQL engine only. *)
Purgeable == {m \in Messages : state[m] \in {"EXPIRED", "DONE"}} \ LockedMessages

PurgeMessages ==
  /\ ~serialized
  /\ Purgeable # {}
  /\ state' = [m \in Messages |-> IF m \in Purgeable THEN "PURGED" ELSE state[m]]
  /\ UNCHANGED <<serialized, subscriptions, tasks, key, timed, mode, instances, defined, sending, looking,
                 triggered, failed>>

(* A transaction that does not come to its end. *)
RollbackMessage(m) ==
  /\ ~serialized
  /\ sending[m] # Null
  /\ sending' = [sending EXCEPT ![m] = Null]
  /\ key' = [key EXCEPT ![m] = Null]
  /\ timed' = timed \ {m}
  /\ UNCHANGED <<serialized, rows, mode, instances, defined, looking, triggered, failed>>

RollbackExecution(e) ==
  /\ ~serialized
  /\ looking[e] # Null
  /\ looking' = [looking EXCEPT ![e] = Null]
  /\ UNCHANGED <<serialized, rows, key, timed, mode, instances, defined, sending, triggered, failed>>

Commit ==
  \/ \E m \in Messages : CommitMessage(m)
  \/ \E e \in Executions : CommitSubscription(e) \/ CommitTrigger(e)

Next ==
  \/ \E m \in Messages :
       \/ \E k \in Keys \cup {Null}, hasTimer \in BOOLEAN : SendMessage(m, k, hasTimer)
       \/ CompleteProcessInstance(m) \/ Expire(m) \/ RollbackMessage(m)
  \/ \E e \in Executions : SubscribeMessage(e) \/ EndExecution(e) \/ RollbackExecution(e)
  \/ \E t \in tasks : ExecuteTask(t)
  \/ Commit \/ CreateProcess \/ PurgeMessages

Spec == Init /\ [][Next]_vars

(* Commands and tasks come to their end, the engine executes its tasks again *)
(* and again, and instances are completed by their workers.  Whoever has the *)
(* mutex or a lock only delays them, and a task that is executed over and    *)
(* over is not rolled back each time.                                        *)
Fairness ==
  /\ WF_vars(Commit)
  /\ \A e \in Executions : SF_vars(CommitTrigger(e))
  /\ \A m \in Messages :
       /\ SF_vars(\E t \in TasksOf(m) : ExecuteTask(t))
       /\ SF_vars(CompleteProcessInstance(m))

FairSpec == Spec /\ Fairness

-----------------------------------------------------------------------------

TypeOK ==
  /\ serialized \in BOOLEAN
  /\ state \in [Messages -> MessageState]
  /\ key \in [Messages -> Keys \cup {Null}]
  /\ timed \subseteq Messages
  /\ mode \in [Executions -> {"JOB", "WAIT", "ENDED"}]
  /\ subscriptions \subseteq Executions
  /\ tasks \subseteq Task
  /\ instances \subseteq Messages
  /\ defined \in BOOLEAN
  /\ sending \in [Messages -> Executions \cup {Start, Nothing, Null}]
  /\ looking \in [Executions -> Look \cup {Null}]
  /\ triggered \in [Messages -> Nat]
  /\ failed \subseteq Messages

(* A message is kept as long as somebody needs it, and no longer: it is      *)
(* correlated, without a date to expire and be purged at, exactly while one  *)
(* task that is due or one instance it has started is to use it.  So it      *)
(* never triggers two events, whoever looks for it at the same time.         *)
CorrelatedOnce ==
  \A m \in Messages :
    /\ triggered[m] + Cardinality(TasksOf(m)) <= 1
    /\ state[m] = "CORRELATED" <=> TasksOf(m) # {} \/ m \in instances \ timed
    /\ m \in instances => TasksOf(m) = {}

(* An execution that waits has either a subscription or a message that is to *)
(* trigger it, never both or neither; one that has ended, or whose job is    *)
(* open, has no subscription a message could go to and be lost.              *)
WaitsForOne ==
  \A e \in Executions :
    LET due == {t \in tasks : t.execution = e}
    IN  /\ mode[e] = "WAIT" => IF e \in subscriptions THEN due = {} ELSE Cardinality(due) = 1
        /\ mode[e] # "WAIT" => e \notin subscriptions
        /\ mode[e] = "JOB" => due = {}

(* "If a message with the same name, correlation key and unique key exists,  *)
(* the message is discarded" (command.go): of the instances that messages    *)
(* without a timer have started one at most is active for a unique key.      *)
UniqueInstances ==
  \A m, n \in instances \ timed : key[m] = key[n] /\ key[m] # Null => m = n

(* "Otherwise a message is buffered (waiting to be correlated)" (engine.go): *)
(* when no transaction runs, a message that waits for a subscriber and a     *)
(* subscriber that waits for a message do not miss each other.               *)
NoMissedMessage == serialized /\ Idle => Buffered = {} \/ Subscribers = {}

(* An instance started by a message can be completed: execution.go continues *)
(* it "until ... no more outgoing sequence flows exist", which does not fail.*)
NeverFails == failed = {}

(* Each message that is correlated is used in the end, and then released, so *)
(* that it is purged and its unique key is free again.                       *)
MessageReleased == \A m \in Messages : state[m] = "CORRELATED" ~> state[m] # "CORRELATED"
=============================================================================
