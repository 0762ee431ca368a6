-------------------------------- MODULE Signals --------------------------------
(***************************************************************************)
(* Signals and those who wait for them: engine/internal/signal.go, with    *)
(* TriggerEventTask, completeEventBasedGateay and startBoundaryEvent of    *)
(* event.go, the timer catch event of timer.go, the statements of          *)
(* pg/signal.go and the task of pg/management.go that purges signals.      *)
(*                                                                         *)
(* All signals have the same name: others never meet.  A sender deletes    *)
(* the subscriptions, which locks their rows, and inserts the signal and a *)
(* task per subscriber when it commits.  What ends an execution selects    *)
(* the subscriptions of its process instance for update, so that it waits  *)
(* for a sender, and then finds them gone.  A transaction of a process     *)
(* instance holds the lock of the instance, so that it is one step here;   *)
(* one that does not come to its end changes nothing.                      *)
(***************************************************************************)
EXTENDS Integers, FiniteSets

CONSTANTS
  Signals,        \* bound on the number of signals
  Catches,        \* signal catch events, each in a process instance of its own
  Members,        \* the signal catch events next to an event-based gateway
  Timer,          \* the timer catch event next to it
  Boundaries,     \* executions of a non-interrupting signal boundary event
  Interrupting,   \* an interrupting signal boundary event of the same activity
  Thrower,        \* a signal throw event, in a process instance of its own
  Starts,         \* signal start events
  Scenarios,      \* sets of executions that exist together
  Null

Gateway == Members \cup {Timer}
Activity == Boundaries \cup {Interrupting}
Subscribers == Catches \cup Members \cup Activity
Executions == Subscribers \cup {Timer, Thrower}

ASSUME SignalsAssumption ==
  /\ IsFiniteSet(Subscribers) /\ IsFiniteSet(Starts)
  /\ Catches \cap (Gateway \cup Activity) = {} /\ Gateway \cap Activity = {}
  /\ Timer \notin Members /\ Interrupting \notin Boundaries
  /\ Thrower \notin Subscribers \cup {Timer}
  /\ Scenarios \subseteq SUBSET Executions
  /\ \A present \in Scenarios : Gateway \subseteq present \/ Gateway \cap present = {}
  /\ Starts \cap Executions = {} /\ Null \notin Executions

VARIABLES
  row,            \* of a signal: "NONE", "SENT" or "PURGED"
  active,         \* ActiveSubscriberCount of each signal
  variables,      \* the signals with rows in signal_variable
  state,          \* of an execution, see below
  subscriptions,  \* the executions with a row in signal_subscription
  defined,        \* the signal start events that are not suspended
  tasks,          \* due TriggerEvent tasks: who is triggered by which signal
  sending,        \* what a sender has found and who it is, or Null
  purging,        \* has the purge task deleted the variables?
  instances       \* of the signal start events: by whom they have been started

vars == <<row, active, variables, state, subscriptions, defined, tasks, sending, purging,
          instances>>

(* NONE:  there is no such execution yet                                      *)
(* JOB:   created; a worker is to say the name of the signal, or the timer    *)
(* WAIT:  subscribed, or triggered by a task that is due                      *)
ExecutionState == {"NONE", "JOB", "WAIT", "COMPLETED", "TERMINATED"}
Ended == {"COMPLETED", "TERMINATED"}

Task == [signal: Signals, target: Subscribers \cup Starts]

TaskOf(s, x) == [signal |-> s, target |-> x]

(* The executions of the process instance of e. *)
InstanceOf(e) ==
  CASE e \in Gateway -> Gateway
    [] e \in Activity -> Activity
    [] OTHER -> {e}

Init ==
  /\ row = [s \in Signals |-> "NONE"]
  /\ active = [s \in Signals |-> 0]
  /\ variables = {}
  /\ \E present \in Scenarios :
       state = [e \in Executions |-> IF e \in present \ Boundaries THEN "JOB" ELSE "NONE"]
  /\ subscriptions = {} /\ tasks = {} /\ instances = {}
  /\ defined \in SUBSET Starts
  /\ sending = [s \in Signals |-> Null]
  /\ purging = FALSE

-----------------------------------------------------------------------------

(* Operators named Mutant... are mistaken variants of the operator that       *)
(* follows them; some property of this module fails for each of them.         *)

(* Rows that a sender has deleted without having committed. *)
Locked == UNION {sending[s].found : s \in {t \in Signals : sending[t] # Null}}

(* May a transaction of the process instance of e select its subscriptions   *)
(* for update?                                                               *)
IsFree(e) == InstanceOf(e) \cap Locked = {}

(* The thrower's own transaction runs while it sends. *)
IsRunning(e) == \E s \in Signals : sending[s] # Null /\ sending[s].by = e

(* CompleteJob with a signal name, or the start of an execution whose event  *)
(* definition has one. *)
SubscribeSignal(e) ==
  /\ e \in Subscribers
  /\ state[e] = "JOB"
  /\ state' = [state EXCEPT ![e] = "WAIT"]
  /\ subscriptions' = subscriptions \cup {e}
  /\ UNCHANGED <<row, active, variables, defined, tasks, sending, purging, instances>>

(* The execution of the boundary event that is created next: they are alike.  *)
NextOf(new) == CHOOSE b \in new : TRUE

(* The activity is started, and with it the first execution of its           *)
(* non-interrupting boundary event.                                          *)
AttachBoundaryEvent(b) ==
  /\ b \in Boundaries /\ b = NextOf(Boundaries)
  /\ \A e \in Boundaries : state[e] = "NONE"
  /\ state[Interrupting] \in {"JOB", "WAIT"}
  /\ state' = [state EXCEPT ![b] = "JOB"]
  /\ UNCHANGED <<row, active, variables, subscriptions, defined, tasks, sending, purging,
                 instances>>

(* CompleteJob with a timer: the task of the timer catch event is due. *)
SetTimer ==
  /\ state[Timer] = "JOB"
  /\ state' = [state EXCEPT ![Timer] = "WAIT"]
  /\ UNCHANGED <<row, active, variables, subscriptions, defined, tasks, sending, purging,
                 instances>>

(* CompleteJob with a signal name: the task of the throw event is due. *)
SetSignalName ==
  /\ state[Thrower] = "JOB"
  /\ state' = [state EXCEPT ![Thrower] = "WAIT"]
  /\ UNCHANGED <<row, active, variables, subscriptions, defined, tasks, sending, purging,
                 instances>>

-----------------------------------------------------------------------------

(* DeleteByName: what another sender has deleted is gone when it commits;     *)
(* whether a sender that waits gets it if the other rolls back is left open.  *)
DeleteByName == subscriptions \ Locked

(* SendSignal up to DeleteByName, as a command (by is Null) or as the task of *)
(* a throw event, which has no variables.                                     *)
SendSignal(s, by, hasVariables) ==
  /\ row[s] = "NONE" /\ sending[s] = Null
  /\ sending' = [sending EXCEPT ![s] = [found |-> DeleteByName, by |-> by]]
  /\ variables' = IF hasVariables THEN variables \cup {s} ELSE variables
  /\ UNCHANGED <<row, active, state, subscriptions, defined, tasks, purging, instances>>

TriggerSignalThrowEvent(s) ==
  /\ state[Thrower] = "WAIT" /\ ~IsRunning(Thrower)
  /\ SendSignal(s, Thrower, FALSE)

(* The rest of it: the start events that are not suspended are subscribers    *)
(* too.  A throw event is continued in the same transaction.                  *)
CommitSignal(s) ==
  /\ sending[s] # Null
  /\ sending' = [sending EXCEPT ![s] = Null]
  /\ subscriptions' = subscriptions \ sending[s].found
  /\ row' = [row EXCEPT ![s] = "SENT"]
  /\ active' = [active EXCEPT ![s] = Cardinality(sending[s].found) + Cardinality(defined)]
  /\ tasks' = tasks \cup {TaskOf(s, x) : x \in sending[s].found \cup defined}
  /\ state' = IF sending[s].by = Null THEN state
              ELSE [state EXCEPT ![sending[s].by] = "COMPLETED"]
  /\ UNCHANGED <<variables, defined, purging, instances>>

Rollback(s) ==
  /\ sending[s] # Null
  /\ sending' = [sending EXCEPT ![s] = Null]
  /\ variables' = variables \ {s}
  /\ UNCHANGED <<row, active, state, subscriptions, defined, tasks, purging, instances>>

(* A version of a process with a signal start event is deployed, or replaced. *)
CreateProcess(d) ==
  /\ defined' \in {defined \cup {d}, defined \ {d}} \ {defined}
  /\ UNCHANGED <<row, active, variables, state, subscriptions, tasks, sending, purging,
                 instances>>

-----------------------------------------------------------------------------

(* TriggerEventTask *)

(* A task has used its signal. *)
Used(s) == [active EXCEPT ![s] = @ - 1]

(* All other executions of es that are not ended are terminated. *)
Terminated(es, e) ==
  [x \in Executions |->
     IF x = e THEN "COMPLETED"
     ELSE IF x \in es /\ state[x] \notin Ended \cup {"NONE"} THEN "TERMINATED"
     ELSE state[x]]

MutantCompleteEventBasedGateway(e) ==   \* the others are not canceled
  /\ IsFree(e)
  /\ state' = [state EXCEPT ![e] = "COMPLETED"]
  /\ UNCHANGED subscriptions

(* completeEventBasedGateay: the first event that is triggered terminates the *)
(* others, and cancels what they wait for.  Its callers drop its error: in    *)
(* PostgreSQL a statement that fails fails all that follow in the transaction *)
(* too, which changes nothing then; in memory none fails, as the rows exist.  *)
(* (A row that is read but cannot be scanned is left out.)                    *)
CompleteEventBasedGateway(e) ==
  /\ IsFree(e)
  /\ state' = Terminated(Gateway, e)
  /\ subscriptions' = subscriptions \ Gateway

TriggerSignalCatchEvent(t) ==
  /\ t.target \in Catches \cup Members
  /\ state[t.target] = "WAIT"
  /\ row[t.signal] = "SENT"
  /\ IF t.target \in Members
       THEN CompleteEventBasedGateway(t.target)
       ELSE state' = [state EXCEPT ![t.target] = "COMPLETED"] /\ UNCHANGED subscriptions
  /\ active' = Used(t.signal)
  /\ tasks' = tasks \ {t}
  /\ UNCHANGED <<row, variables, defined, sending, purging, instances>>

TriggerTimerCatchEvent ==
  /\ state[Timer] = "WAIT"
  /\ CompleteEventBasedGateway(Timer)
  /\ UNCHANGED <<row, active, variables, defined, tasks, sending, purging, instances>>

MutantNextBoundary(e) ==   \* subscribes the execution that has been triggered
  /\ subscriptions' = subscriptions \cup {e}
  /\ state' = [state EXCEPT ![e] = "COMPLETED"]

(* startBoundaryEvent and the end of triggerSignalBoundaryEvent: the next     *)
(* execution of a non-interrupting event is subscribed at once.  (Boundaries  *)
(* bounds their number: the last one has no next.)                            *)
NextBoundary(e) ==
  LET new == {b \in Boundaries : state[b] = "NONE"}
  IN  \/ \E b \in new :
           /\ b = NextOf(new)
           /\ subscriptions' = subscriptions \cup {b}
           /\ state' = [state EXCEPT ![e] = "COMPLETED", ![b] = "WAIT"]
      \/ /\ new = {}
         /\ subscriptions' = subscriptions
         /\ state' = [state EXCEPT ![e] = "COMPLETED"]

(* startBoundaryEvent of an interrupting event: the activity and the other    *)
(* events attached to it are terminated.                                      *)
Interrupt ==
  /\ IsFree(Interrupting)
  /\ state' = Terminated(Activity, Interrupting)
  /\ subscriptions' = subscriptions \ Activity

TriggerSignalBoundaryEvent(t) ==
  /\ t.target \in Activity
  /\ state[t.target] = "WAIT"
  /\ row[t.signal] = "SENT"
  /\ IF t.target = Interrupting THEN Interrupt ELSE NextBoundary(t.target)
  /\ active' = Used(t.signal)
  /\ tasks' = tasks \ {t}
  /\ UNCHANGED <<row, variables, defined, sending, purging, instances>>

TriggerSignalStartEvent(t) ==
  /\ t.target \in Starts
  /\ row[t.signal] = "SENT"
  /\ instances' = instances \cup {t}
  /\ active' = Used(t.signal)
  /\ tasks' = tasks \ {t}
  /\ UNCHANGED <<row, variables, state, subscriptions, defined, sending, purging>>

MutantCancelTask(t) ==   \* the signal is forgotten
  /\ t.target \in Subscribers /\ state[t.target] \in Ended
  /\ tasks' = tasks \ {t}
  /\ UNCHANGED <<row, active, variables, state, subscriptions, defined, sending, purging,
                 instances>>

(* The execution has ended: the signal has one subscriber less. *)
CancelTask(t) ==
  /\ t.target \in Subscribers /\ state[t.target] \in Ended
  /\ row[t.signal] = "SENT"
  /\ active' = Used(t.signal)
  /\ tasks' = tasks \ {t}
  /\ UNCHANGED <<row, variables, state, subscriptions, defined, sending, purging, instances>>

ExecuteTask(t) ==
  \/ TriggerSignalCatchEvent(t) \/ TriggerSignalBoundaryEvent(t)
  \/ TriggerSignalStartEvent(t) \/ CancelTask(t)

(* The activity is completed, the process instance is terminated, or an error *)
(* ends it: its subscriptions are canceled.                                   *)
EndInstance(e) ==
  /\ state[e] \notin Ended /\ ~IsRunning(e)
  /\ IsFree(e)
  /\ state' = [x \in Executions |-> IF x \in InstanceOf(e) /\ state[x] \notin Ended
                                      THEN "TERMINATED" ELSE state[x]]
  /\ subscriptions' = subscriptions \ InstanceOf(e)
  /\ UNCHANGED <<row, active, variables, defined, tasks, sending, purging, instances>>

-----------------------------------------------------------------------------

MutantUnused == {s \in Signals : row[s] = "SENT" /\ active[s] <= 1}

(* What purgeSignalsTask finds at each of its two statements: a signal may    *)
(* lose its last subscriber between them.                                     *)
Unused == {s \in Signals : row[s] = "SENT" /\ active[s] = 0}

PurgeSignalVariables ==
  /\ ~purging
  /\ purging' = TRUE
  /\ variables' = variables \ Unused
  /\ UNCHANGED <<row, active, state, subscriptions, defined, tasks, sending, instances>>

PurgeSignals ==
  /\ purging
  /\ purging' = FALSE
  /\ row' = [s \in Signals |-> IF s \in Unused THEN "PURGED" ELSE row[s]]
  /\ UNCHANGED <<active, variables, state, subscriptions, defined, tasks, sending, instances>>

Next ==
  \/ \E s \in Signals :
       \/ \E hasVariables \in BOOLEAN : SendSignal(s, Null, hasVariables)
       \/ TriggerSignalThrowEvent(s) \/ CommitSignal(s) \/ Rollback(s)
  \/ \E e \in Executions : SubscribeSignal(e) \/ AttachBoundaryEvent(e) \/ EndInstance(e)
  \/ \E d \in Starts : CreateProcess(d)
  \/ \E t \in tasks : ExecuteTask(t)
  \/ SetTimer \/ SetSignalName \/ TriggerTimerCatchEvent
  \/ PurgeSignalVariables \/ PurgeSignals

Spec == Init /\ [][Next]_vars

(* A transaction comes to its end, one way or the other; the engine executes  *)
(* its tasks again and again, and the purge task inserts itself for the next  *)
(* day.  A lock only delays a task.                                           *)
Fairness ==
  /\ \A s \in Signals : WF_vars(CommitSignal(s) \/ Rollback(s))
  /\ \A s \in Signals : SF_vars(\E t \in tasks : t.signal = s /\ ExecuteTask(t))
  /\ WF_vars(PurgeSignalVariables \/ PurgeSignals)

FairSpec == Spec /\ Fairness

-----------------------------------------------------------------------------

Sending == [found: SUBSET Subscribers, by: {Thrower, Null}]

TypeOK ==
  /\ row \in [Signals -> {"NONE", "SENT", "PURGED"}]
  /\ active \in [Signals -> Int]
  /\ variables \subseteq Signals
  /\ state \in [Executions -> ExecutionState]
  /\ subscriptions \subseteq Subscribers
  /\ defined \subseteq Starts
  /\ tasks \subseteq Task
  /\ sending \in [Signals -> Sending \cup {Null}]
  /\ purging \in BOOLEAN
  /\ instances \subseteq Task

TasksOf(s) == {t \in tasks : t.signal = s}

(* ActiveSubscriberCount is the number of tasks that are still to use the     *)
(* signal, also of those that will only be canceled: it is neither purged     *)
(* under a task, which would fail for good, nor kept for nobody.              *)
CountIsDueTasks ==
  \A s \in Signals :
    /\ row[s] = "SENT" => active[s] = Cardinality(TasksOf(s))
    /\ row[s] # "SENT" => TasksOf(s) = {}

(* An execution that waits has a subscription, or one task that is to trigger *)
(* it, never both or neither: two signals that are sent at the same time do   *)
(* not both find it.  One that has ended has no subscription a signal could   *)
(* go to.                                                                     *)
WaitsForOne ==
  \A e \in Subscribers :
    LET due == {t \in tasks : t.target = e}
    IN  /\ state[e] = "WAIT" => IF e \in subscriptions THEN due = {} ELSE Cardinality(due) = 1
        /\ state[e] # "WAIT" => e \notin subscriptions

(* One event next to an event-based gateway is triggered at most, whatever    *)
(* signals and timers fire at the same time, and then nobody waits any more.  *)
OneEventPerGateway ==
  LET completed == {e \in Gateway : state[e] = "COMPLETED"}
  IN  /\ Cardinality(completed) <= 1
      /\ completed # {} => \A e \in Gateway : state[e] \in Ended

(* Once it has been attached, exactly one execution of a non-interrupting     *)
(* boundary event waits as long as its activity is active, and a signal will  *)
(* find it or has found it: each execution that is triggered is followed by   *)
(* the next one, whichever signals have been sent meanwhile (unless all of    *)
(* Boundaries have been triggered, which takes as many signals).              *)
BoundaryKeepsWaiting ==
  /\ state[Interrupting] \notin Ended
  /\ \E b \in Boundaries : state[b] # "NONE"
  /\ \E b \in Boundaries : state[b] # "COMPLETED"
  => \E b \in Boundaries :
       /\ {x \in Boundaries : state[x] \in {"JOB", "WAIT"}} = {b}
       /\ state[b] = "WAIT" => b \in subscriptions \/ \E t \in tasks : t.target = b

(* "SendSignalCmd is used to notify all subscribers" (command.go): whoever    *)
(* subscribed is triggered by the signal, unless it has ended, and the signal *)
(* is purged when all of them are.                                            *)
SignalReleased == \A s \in Signals : row[s] = "SENT" ~> row[s] = "PURGED"
=============================================================================
