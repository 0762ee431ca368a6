---------------------------- MODULE SignalsProofs ----------------------------
(***************************************************************************)
(* Proofs about Signals, for any number of signals, subscribers and start  *)
(* events.                                                                 *)
(***************************************************************************)
EXTENDS Signals, FiniteSetTheorems, TLAPS

(* What a sender has found stays subscribed until it commits, and is found    *)
(* by no other.                                                               *)
SendingOK ==
  /\ \A s \in Signals : sending[s] # Null =>
       row[s] = "NONE" /\ sending[s].found \subseteq subscriptions
  /\ \A s, t \in Signals :
       /\ s # t /\ sending[s] # Null /\ sending[t] # Null
       => sending[s].found \cap sending[t].found = {}

(* A subscription or a task is that of an execution that waits, or has ended  *)
(* since the task was inserted.                                               *)
WaitsOK ==
  /\ \A e \in Subscribers : state[e] = "WAIT" =>
       e \in subscriptions \/ \E t \in tasks : t.target = e
  /\ \A e \in subscriptions : state[e] = "WAIT"
  /\ \A t \in tasks : t.target \in Subscribers =>
       state[t.target] \in {"WAIT"} \cup Ended /\ t.target \notin subscriptions
  /\ \A t, u \in tasks : t.target = u.target /\ t.target \in Subscribers => t = u

(* The events next to a gateway are there together, and the first one that is *)
(* triggered is the only one.                                                 *)
GatewayOK ==
  /\ \/ \A e \in Gateway : state[e] = "NONE"
     \/ \A e \in Gateway : state[e] # "NONE"
  /\ \A e \in Gateway : state[e] = "COMPLETED" =>
       \A f \in Gateway : f # e => state[f] = "TERMINATED"

Awaiting == {b \in Boundaries : state[b] \in {"JOB", "WAIT"}}

(* The activity has ended; or none of its executions is terminated, and its   *)
(* event has not been attached, or one execution waits, or as many as there   *)
(* may be have been triggered.                                                *)
BoundaryOK ==
  \/ state[Interrupting] \in Ended
  \/ /\ \A b \in Boundaries : state[b] # "TERMINATED"
     /\ \/ \A b \in Boundaries : state[b] = "NONE"
        \/ \E b \in Boundaries : Awaiting = {b}
        \/ \A b \in Boundaries : state[b] = "COMPLETED"

Inv == TypeOK /\ SendingOK /\ CountIsDueTasks /\ WaitsOK /\ GatewayOK /\ BoundaryOK

-----------------------------------------------------------------------------

LEMMA SetsFacts ==
  /\ Members \subseteq Gateway /\ Timer \in Gateway /\ Boundaries \subseteq Activity
  /\ Interrupting \in Activity /\ Interrupting \notin Boundaries
  /\ Timer \notin Subscribers /\ Thrower \notin Subscribers \cup {Timer}
  /\ Thrower \notin Gateway /\ Thrower \notin Activity
  /\ Catches \cap (Gateway \cup Activity) = {} /\ Gateway \cap Activity = {}
  /\ Activity \subseteq Subscribers /\ Gateway \subseteq Executions
  /\ Subscribers \subseteq Executions /\ Timer \in Executions /\ Thrower \in Executions
  /\ Subscribers \cap Starts = {} /\ Null \notin Executions
  BY SignalsAssumption DEF Gateway, Activity, Subscribers, Executions

(* What the boundary event leaves behind, whichever execution is the next.     *)
LEMMA NextBoundaryFacts ==
  ASSUME NEW e, NextBoundary(e)
  PROVE  \/ \E b \in Boundaries :
              /\ state[b] = "NONE"
              /\ subscriptions' = subscriptions \cup {b}
              /\ state' = [state EXCEPT ![e] = "COMPLETED", ![b] = "WAIT"]
         \/ /\ \A b \in Boundaries : state[b] # "NONE"
            /\ subscriptions' = subscriptions
            /\ state' = [state EXCEPT ![e] = "COMPLETED"]
  BY Zenon DEF NextBoundary

LEMMA TaskOfFacts ==
  ASSUME NEW s \in Signals, NEW x \in Subscribers \cup Starts
  PROVE  TaskOf(s, x) \in Task /\ TaskOf(s, x).signal = s /\ TaskOf(s, x).target = x
  BY DEF Task, TaskOf

(* Each task of a signal has a target of its own. *)
LEMMA TasksFinite ==
  ASSUME NEW s \in Signals, tasks \subseteq Task
  PROVE  IsFiniteSet(TasksOf(s))
  <1>. DEFINE f == [t \in TasksOf(s) |-> t.target]
  <1>1. \A t \in TasksOf(s) : t \in Task /\ t.signal = s /\ t = TaskOf(s, t.target)
    BY DEF TasksOf, Task, TaskOf
  <1>2. f \in Injection(TasksOf(s), Subscribers \cup Starts)
    BY <1>1, Zenon DEF Injection, IsInjective, Task
  <1>3. IsFiniteSet(Subscribers \cup Starts)
    BY SignalsAssumption, FS_Union
  <1>. QED BY <1>2, <1>3, FS_Injection

LEMMA InitInv == Init => Inv
  <1>. SUFFICES ASSUME Init PROVE Inv
    OBVIOUS
  <1>1. PICK present \in Scenarios :
          state = [e \in Executions |-> IF e \in present \ Boundaries THEN "JOB" ELSE "NONE"]
    BY DEF Init
  <1>2. TypeOK
    <2>1. state \in [Executions -> ExecutionState]
      BY <1>1 DEF ExecutionState
    <2>2. row \in [Signals -> {"NONE", "SENT", "PURGED"}] /\ active \in [Signals -> Int]
      BY DEF Init
    <2>3. sending \in [Signals -> Sending \cup {Null}]
      BY DEF Init
    <2>. QED BY <2>1, <2>2, <2>3 DEF Init, TypeOK
  <1>3. SendingOK /\ WaitsOK
    BY <1>1, SetsFacts DEF Init, SendingOK, WaitsOK
  <1>4. CountIsDueTasks
    BY DEF Init, CountIsDueTasks, TasksOf
  <1>5. GatewayOK
    BY <1>1, SetsFacts, SignalsAssumption DEF GatewayOK
  <1>6. BoundaryOK
    BY <1>1, SetsFacts DEF BoundaryOK
  <1>. QED BY <1>2, <1>3, <1>4, <1>5, <1>6 DEF Inv
-----------------------------------------------------------------------------

(* Types *)

LEMMA StatesType ==
  ASSUME TypeOK, NEW es, NEW e
  PROVE  /\ Terminated(es, e) \in [Executions -> ExecutionState]
         /\ \A x \in Executions :
              /\ Terminated(es, e)[x] = state[x] \/ Terminated(es, e)[x] \in Ended
  BY DEF TypeOK, Terminated, ExecutionState, Ended

LEMMA TaskType ==
  ASSUME TypeOK, NEW t \in tasks, ExecuteTask(t)
  PROVE  TypeOK'
  <1>1. t \in Task /\ t.signal \in Signals /\ t.target \in Subscribers \cup Starts
    BY DEF TypeOK, Task
  <1>2. active' = Used(t.signal) /\ tasks' = tasks \ {t}
        /\ UNCHANGED <<row, variables, defined, sending, purging>>
        /\ instances' \in {instances, instances \cup {t}}
    BY DEF ExecuteTask, TriggerSignalCatchEvent, TriggerSignalBoundaryEvent,
           TriggerSignalStartEvent, CancelTask
  <1>3. Used(t.signal) \in [Signals -> Int]
    BY <1>1 DEF TypeOK, Used
  <1>4. state' \in [Executions -> ExecutionState] /\ subscriptions' \subseteq Subscribers
    <2>1. CASE TriggerSignalCatchEvent(t)
      BY <2>1, StatesType, SetsFacts DEF TriggerSignalCatchEvent, CompleteEventBasedGateway,
         TypeOK, ExecutionState
    <2>2. CASE TriggerSignalBoundaryEvent(t)
      <3>1. CASE Interrupt
        BY <3>1, StatesType DEF Interrupt, TypeOK
      <3>2. CASE NextBoundary(t.target)
        BY <3>2, NextBoundaryFacts, SetsFacts DEF TypeOK, ExecutionState
      <3>. QED BY <2>2, <3>1, <3>2 DEF TriggerSignalBoundaryEvent
    <2>3. CASE TriggerSignalStartEvent(t)
      BY <2>3 DEF TriggerSignalStartEvent, TypeOK
    <2>4. CASE CancelTask(t)
      BY <2>4 DEF CancelTask, TypeOK
    <2>. QED BY <2>1, <2>2, <2>3, <2>4 DEF ExecuteTask
  <1>. QED BY <1>1, <1>2, <1>3, <1>4 DEF TypeOK

LEMMA SendingType ==
  ASSUME TypeOK, NEW s \in Signals, NEW by \in {Thrower, Null}, NEW hasVariables \in BOOLEAN,
         SendSignal(s, by, hasVariables)
  PROVE  TypeOK'
  <1>1. [found |-> DeleteByName, by |-> by] \in Sending
    BY DEF Sending, DeleteByName, TypeOK
  <1>2. variables' \subseteq Signals
    BY DEF SendSignal, TypeOK
  <1>. QED BY <1>1, <1>2 DEF SendSignal, TypeOK

LEMMA CommitType ==
  ASSUME TypeOK, NEW s \in Signals, CommitSignal(s)
  PROVE  TypeOK'
  <1>1. sending[s] \in Sending
    BY DEF TypeOK, CommitSignal
  <1>2. IsFiniteSet(sending[s].found) /\ IsFiniteSet(defined)
    BY <1>1, SignalsAssumption, FS_Subset DEF Sending, TypeOK
  <1>3. active' \in [Signals -> Int]
    BY <1>2, FS_CardinalityType DEF CommitSignal, TypeOK
  <1>4. tasks' \subseteq Task
    BY <1>1, TaskOfFacts DEF CommitSignal, TypeOK, Sending
  <1>5. state' \in [Executions -> ExecutionState]
    BY <1>1, SetsFacts DEF CommitSignal, TypeOK, Sending, ExecutionState
  <1>. QED BY <1>3, <1>4, <1>5 DEF CommitSignal, TypeOK

LEMMA NextType == TypeOK /\ [Next]_vars => TypeOK'
  <1>. SUFFICES ASSUME TypeOK, [Next]_vars PROVE TypeOK'
    OBVIOUS
  <1>1. ASSUME NEW s \in Signals, NEW hasVariables \in BOOLEAN,
               SendSignal(s, Null, hasVariables)
        PROVE  TypeOK'
    BY <1>1, SendingType
  <1>2. ASSUME NEW s \in Signals, TriggerSignalThrowEvent(s) PROVE TypeOK'
    BY <1>2, SendingType DEF TriggerSignalThrowEvent
  <1>3. ASSUME NEW s \in Signals, CommitSignal(s) PROVE TypeOK'
    BY <1>3, CommitType
  <1>4. ASSUME NEW s \in Signals, Rollback(s) PROVE TypeOK'
    BY <1>4 DEF Rollback, TypeOK
  <1>5. ASSUME NEW e \in Executions, SubscribeSignal(e) PROVE TypeOK'
    BY <1>5 DEF SubscribeSignal, TypeOK, ExecutionState
  <1>6. ASSUME NEW e \in Executions, AttachBoundaryEvent(e) PROVE TypeOK'
    BY <1>6 DEF AttachBoundaryEvent, TypeOK, ExecutionState
  <1>7. ASSUME NEW e \in Executions, EndInstance(e) PROVE TypeOK'
    <2>1. state' \in [Executions -> ExecutionState]
      BY <1>7 DEF EndInstance, TypeOK, ExecutionState
    <2>. QED BY <1>7, <2>1 DEF EndInstance, TypeOK
  <1>8. ASSUME NEW d \in Starts, CreateProcess(d) PROVE TypeOK'
    BY <1>8 DEF CreateProcess, TypeOK
  <1>9. ASSUME NEW t \in tasks, ExecuteTask(t) PROVE TypeOK'
    BY <1>9, TaskType
  <1>10. CASE SetTimer
    BY <1>10 DEF SetTimer, TypeOK, ExecutionState
  <1>11. CASE SetSignalName
    BY <1>11 DEF SetSignalName, TypeOK, ExecutionState
  <1>12. CASE TriggerTimerCatchEvent
    BY <1>12, StatesType DEF TriggerTimerCatchEvent, CompleteEventBasedGateway, TypeOK
  <1>13. CASE PurgeSignalVariables
    BY <1>13 DEF PurgeSignalVariables, TypeOK
  <1>14. CASE PurgeSignals
    BY <1>14 DEF PurgeSignals, TypeOK
  <1>15. CASE UNCHANGED vars
    BY <1>15 DEF vars, TypeOK
  <1>. QED BY <1>1, <1>2, <1>3, <1>4, <1>5, <1>6, <1>7, <1>8, <1>9, <1>10, <1>11, <1>12,
              <1>13, <1>14, <1>15 DEF Next
-----------------------------------------------------------------------------

(* The count of active subscribers *)

LEMMA CountKept ==
  ASSUME CountIsDueTasks, UNCHANGED <<row, active, tasks>>
  PROVE  CountIsDueTasks'
  BY DEF CountIsDueTasks, TasksOf

(* Each subscriber that is found gets a task of its own. *)
LEMMA CommitCount ==
  ASSUME TypeOK, CountIsDueTasks, SendingOK, NEW s \in Signals, CommitSignal(s)
  PROVE  CountIsDueTasks'
  <1>. DEFINE found == sending[s].found
              targets == found \cup defined
              new == {TaskOf(s, x) : x \in targets}
  <1>1. sending[s] \in Sending /\ row[s] = "NONE"
    BY DEF TypeOK, CommitSignal, SendingOK
  <1>2. found \subseteq Subscribers /\ defined \subseteq Starts /\ found \cap defined = {}
    BY <1>1, SetsFacts DEF Sending, TypeOK
  <1>3. /\ IsFiniteSet(found) /\ IsFiniteSet(defined) /\ IsFiniteSet(targets)
        /\ Cardinality(targets) = Cardinality(found) + Cardinality(defined)
    <2>1. IsFiniteSet(found) /\ IsFiniteSet(defined)
      BY <1>2, SignalsAssumption, FS_Subset
    <2>2. Cardinality(targets)
            = Cardinality(found) + Cardinality(defined) - Cardinality(found \cap defined)
          /\ IsFiniteSet(targets)
      BY <2>1, FS_Union
    <2>3. Cardinality(found \cap defined) = 0
      BY <1>2, FS_EmptySet, Zenon
    <2>4. Cardinality(found) \in Nat /\ Cardinality(defined) \in Nat
      BY <2>1, FS_CardinalityType
    <2>. QED BY <2>1, <2>2, <2>3, <2>4
  <1>4. Cardinality(new) = Cardinality(targets)
    <2>. DEFINE f == [x \in targets |-> TaskOf(s, x)]
    <2>1. \A x, y \in targets : TaskOf(s, x) = TaskOf(s, y) => x = y
      BY <1>2, TaskOfFacts
    <2>2. f \in Bijection(targets, new)
      BY <2>1, Zenon DEF Bijection, Injection, Surjection, IsInjective
    <2>3. ExistsBijection(targets, new)
      BY <2>2 DEF ExistsBijection
    <2>. QED BY <1>3, <2>3, FS_Bijection
  <1>5. \A t \in new : t.signal = s
    BY <1>2, TaskOfFacts
  <1>6. tasks' = tasks \cup new /\ row' = [row EXCEPT ![s] = "SENT"]
        /\ active' = [active EXCEPT ![s] = Cardinality(found) + Cardinality(defined)]
    BY DEF CommitSignal
  <1>7. ASSUME NEW r \in Signals, r # s
        PROVE  TasksOf(r)' = TasksOf(r) /\ row'[r] = row[r] /\ active'[r] = active[r]
    BY <1>5, <1>6, <1>7 DEF TasksOf, TypeOK
  <1>8. TasksOf(s)' = new
    <2>1. TasksOf(s) = {}
      BY <1>1 DEF CountIsDueTasks
    <2>. QED BY <1>5, <1>6, <2>1 DEF TasksOf
  <1>9. row'[s] = "SENT" /\ active'[s] = Cardinality(TasksOf(s)')
    <2>1. active'[s] = Cardinality(found) + Cardinality(defined) /\ row'[s] = "SENT"
      BY <1>6 DEF TypeOK
    <2>2. Cardinality(TasksOf(s)') = Cardinality(new)
      BY <1>8, Zenon
    <2>. QED BY <1>3, <1>4, <2>1, <2>2
  <1>10. ASSUME NEW r \in Signals
         PROVE  /\ row'[r] = "SENT" => active'[r] = Cardinality(TasksOf(r)')
                /\ row'[r] # "SENT" => TasksOf(r)' = {}
    <2>1. CASE r = s
      BY <2>1, <1>9
    <2>2. CASE r # s
      <3>1. Cardinality(TasksOf(r)') = Cardinality(TasksOf(r))
        BY <1>7, <2>2, Zenon
      <3>. QED BY <1>7, <2>2, <3>1 DEF CountIsDueTasks
    <2>. QED BY <2>1, <2>2
  <1>. QED BY <1>10 DEF CountIsDueTasks

(* A task that is executed or canceled uses its signal. *)
LEMMA TaskCount ==
  ASSUME TypeOK, CountIsDueTasks, NEW t \in tasks, ExecuteTask(t)
  PROVE  CountIsDueTasks'
  <1>1. /\ t.signal \in Signals /\ row[t.signal] = "SENT" /\ row' = row
        /\ active' = [active EXCEPT ![t.signal] = @ - 1] /\ tasks' = tasks \ {t}
    BY DEF ExecuteTask, TriggerSignalCatchEvent, TriggerSignalBoundaryEvent,
           TriggerSignalStartEvent, CancelTask, Used, TypeOK, Task
  <1>2. ASSUME NEW s \in Signals
        PROVE  /\ row'[s] = "SENT" => active'[s] = Cardinality(TasksOf(s)')
               /\ row'[s] # "SENT" => TasksOf(s)' = {}
    <2>1. CASE s = t.signal
      <3>1. t \in TasksOf(s) /\ TasksOf(s)' = TasksOf(s) \ {t}
        BY <1>1, <2>1 DEF TasksOf
      <3>2. IsFiniteSet(TasksOf(s))
        BY TasksFinite DEF TypeOK
      <3>3. Cardinality(TasksOf(s) \ {t}) = Cardinality(TasksOf(s)) - 1
        BY <3>1, <3>2, FS_RemoveElement
      <3>4. Cardinality(TasksOf(s)') = Cardinality(TasksOf(s) \ {t})
        BY <3>1, Zenon
      <3>5. active[s] = Cardinality(TasksOf(s)) /\ active'[s] = active[s] - 1
        BY <1>1, <2>1 DEF CountIsDueTasks, TypeOK
      <3>. QED BY <1>1, <2>1, <3>3, <3>4, <3>5
    <2>2. CASE s # t.signal
      <3>1. TasksOf(s)' = TasksOf(s) /\ active'[s] = active[s]
        BY <1>1, <2>2 DEF TasksOf, TypeOK
      <3>2. Cardinality(TasksOf(s)') = Cardinality(TasksOf(s))
        BY <3>1, Zenon
      <3>. QED BY <1>1, <3>1, <3>2 DEF CountIsDueTasks
    <2>. QED BY <2>1, <2>2
  <1>. QED BY <1>2 DEF CountIsDueTasks

(* A signal that is purged has no task. *)
LEMMA PurgeCount ==
  ASSUME TypeOK, CountIsDueTasks, PurgeSignals
  PROVE  CountIsDueTasks'
  <1>1. active' = active /\ tasks' = tasks
        /\ row' = [s \in Signals |-> IF s \in Unused THEN "PURGED" ELSE row[s]]
    BY DEF PurgeSignals
  <1>2. ASSUME NEW s \in Signals
        PROVE  /\ row'[s] = "SENT" => active'[s] = Cardinality(TasksOf(s)')
               /\ row'[s] # "SENT" => TasksOf(s)' = {}
    <2>1. TasksOf(s)' = TasksOf(s)
      BY <1>1 DEF TasksOf
    <2>2. Cardinality(TasksOf(s)') = Cardinality(TasksOf(s))
      BY <2>1, Zenon
    <2>3. CASE s \in Unused
      <3>1. IsFiniteSet(TasksOf(s)) /\ Cardinality(TasksOf(s)) = 0
        BY <2>3, TasksFinite DEF Unused, CountIsDueTasks, TypeOK
      <3>2. TasksOf(s) = {}
        BY <3>1, FS_EmptySet
      <3>. QED BY <1>1, <2>1, <2>3, <3>2
    <2>4. CASE s \notin Unused
      BY <1>1, <2>1, <2>2, <2>4 DEF CountIsDueTasks
    <2>. QED BY <2>3, <2>4
  <1>. QED BY <1>2 DEF CountIsDueTasks

LEMMA NextCount == TypeOK /\ SendingOK /\ CountIsDueTasks /\ [Next]_vars => CountIsDueTasks'
  <1>. SUFFICES ASSUME TypeOK, SendingOK, CountIsDueTasks, [Next]_vars PROVE CountIsDueTasks'
    OBVIOUS
  <1>1. ASSUME NEW s \in Signals, CommitSignal(s) PROVE CountIsDueTasks'
    BY <1>1, CommitCount
  <1>2. ASSUME NEW t \in tasks, ExecuteTask(t) PROVE CountIsDueTasks'
    BY <1>2, TaskCount
  <1>3. CASE PurgeSignals
    BY <1>3, PurgeCount
  <1>4. ASSUME NEW s \in Signals, Rollback(s) \/ TriggerSignalThrowEvent(s)
                 \/ \E hasVariables \in BOOLEAN : SendSignal(s, Null, hasVariables)
        PROVE  CountIsDueTasks'
    BY <1>4, CountKept DEF Rollback, TriggerSignalThrowEvent, SendSignal
  <1>5. ASSUME NEW e \in Executions,
               SubscribeSignal(e) \/ AttachBoundaryEvent(e) \/ EndInstance(e)
        PROVE  CountIsDueTasks'
    BY <1>5, CountKept DEF SubscribeSignal, AttachBoundaryEvent, EndInstance
  <1>6. ASSUME NEW d \in Starts, CreateProcess(d) PROVE CountIsDueTasks'
    BY <1>6, CountKept DEF CreateProcess
  <1>7. CASE SetTimer \/ SetSignalName \/ TriggerTimerCatchEvent \/ PurgeSignalVariables
    BY <1>7, CountKept DEF SetTimer, SetSignalName, TriggerTimerCatchEvent,
       PurgeSignalVariables
  <1>8. CASE UNCHANGED vars
    BY <1>8, CountKept DEF vars
  <1>. QED BY <1>1, <1>2, <1>3, <1>4, <1>5, <1>6, <1>7, <1>8 DEF Next
-----------------------------------------------------------------------------

(* Subscriptions, tasks and those who wait *)

LEMMA LockedFacts ==
  ASSUME NEW s \in Signals, sending[s] # Null
  PROVE  sending[s].found \subseteq Locked
  BY DEF Locked

(* Whoever takes subscriptions that no sender has found leaves what a sender  *)
(* has found. *)
LEMMA SendingKept ==
  ASSUME SendingOK, UNCHANGED <<row, sending>>,
         (subscriptions \cap Locked) \subseteq subscriptions'
  PROVE  SendingOK'
  BY LockedFacts DEF SendingOK

LEMMA SendSignalOK ==
  ASSUME TypeOK, SendingOK, NEW s \in Signals, NEW by \in {Thrower, Null},
         NEW hasVariables \in BOOLEAN, SendSignal(s, by, hasVariables)
  PROVE  SendingOK'
  <1>1. /\ row[s] = "NONE" /\ sending[s] = Null /\ row' = row /\ subscriptions' = subscriptions
        /\ sending' = [sending EXCEPT ![s] = [found |-> DeleteByName, by |-> by]]
    BY DEF SendSignal
  <1>2. sending'[s] = [found |-> DeleteByName, by |-> by]
        /\ \A r \in Signals : r # s => sending'[r] = sending[r]
    BY <1>1 DEF TypeOK
  <1>3. sending'[s].found = DeleteByName
    BY <1>2
  <1>4. ASSUME NEW r \in Signals, sending'[r] # Null
        PROVE  row'[r] = "NONE" /\ sending'[r].found \subseteq subscriptions'
    BY <1>1, <1>2, <1>3, <1>4 DEF SendingOK, DeleteByName
  <1>5. ASSUME NEW r \in Signals, r # s, sending'[r] # Null
        PROVE  sending'[r].found \cap sending'[s].found = {}
    BY <1>2, <1>3, <1>5, LockedFacts DEF DeleteByName
  <1>6. ASSUME NEW r \in Signals, NEW t \in Signals,
               r # t, sending'[r] # Null, sending'[t] # Null
        PROVE  sending'[r].found \cap sending'[t].found = {}
    <2>1. CASE r = s \/ t = s
      BY <1>5, <1>6, <2>1
    <2>2. CASE r # s /\ t # s
      BY <1>2, <1>6, <2>2 DEF SendingOK
    <2>. QED BY <2>1, <2>2
  <1>. QED BY <1>4, <1>6 DEF SendingOK

(* What is found by others is not what is deleted with the commit. *)
LEMMA CommitOK ==
  ASSUME TypeOK, SendingOK, WaitsOK, NEW s \in Signals, CommitSignal(s)
  PROVE  SendingOK' /\ WaitsOK'
  <1>. DEFINE found == sending[s].found
  <1>1. /\ sending[s] # Null /\ sending[s] \in Sending /\ found \subseteq subscriptions
        /\ sending' = [sending EXCEPT ![s] = Null]
        /\ subscriptions' = subscriptions \ found
        /\ row' = [row EXCEPT ![s] = "SENT"]
        /\ tasks' = tasks \cup {TaskOf(s, x) : x \in found \cup defined}
    BY DEF TypeOK, CommitSignal, SendingOK
  <1>2. \A r \in Signals :
          /\ sending'[r] = IF r = s THEN Null ELSE sending[r]
          /\ r # s => row'[r] = row[r]
    BY <1>1 DEF TypeOK
  <1>3. SendingOK'
    <2>1. ASSUME NEW r \in Signals, sending'[r] # Null
          PROVE  row'[r] = "NONE" /\ sending'[r].found \subseteq subscriptions'
      BY <1>1, <1>2, <2>1 DEF SendingOK
    <2>2. ASSUME NEW r \in Signals, NEW t \in Signals,
                 r # t, sending'[r] # Null, sending'[t] # Null
          PROVE  sending'[r].found \cap sending'[t].found = {}
      BY <1>2, <2>2 DEF SendingOK
    <2>. QED BY <2>1, <2>2 DEF SendingOK
  <1>4. \A e \in Subscribers : state'[e] = state[e]
    BY <1>1, SetsFacts DEF CommitSignal, TypeOK, Sending
  <1>5. found \subseteq Subscribers /\ defined \subseteq Starts /\ subscriptions \subseteq Subscribers
        /\ \A t \in tasks : t \in Task
    BY DEF TypeOK, SendingOK, CommitSignal
  <1>6. \A t \in tasks' : \/ t \in tasks
                          \/ /\ t = TaskOf(s, t.target)
                             /\ t.target \in Subscribers => t.target \in found
    BY <1>1, <1>5, TaskOfFacts, SetsFacts
  <1>7. \A e \in found : state[e] = "WAIT" /\ \A t \in tasks : t.target # e
    BY <1>1, <1>5 DEF WaitsOK
  <1>8. \A e \in Subscribers : state'[e] = "WAIT" =>
          e \in subscriptions' \/ \E t \in tasks' : t.target = e
    <2>1. \A e \in found : \E t \in tasks' : t.target = e
      BY <1>1, <1>5, TaskOfFacts
    <2>. QED BY <1>1, <1>4, <2>1 DEF WaitsOK
  <1>9. \A e \in subscriptions' : state'[e] = "WAIT"
    BY <1>1, <1>4, <1>5 DEF WaitsOK
  <1>10. \A t \in tasks' : t.target \in Subscribers =>
           state'[t.target] \in {"WAIT"} \cup Ended /\ t.target \notin subscriptions'
    BY <1>1, <1>4, <1>6, <1>7 DEF WaitsOK
  <1>11. \A t, u \in tasks' : t.target = u.target /\ t.target \in Subscribers => t = u
    BY <1>6, <1>7 DEF WaitsOK
  <1>. QED BY <1>3, <1>8, <1>9, <1>10, <1>11 DEF WaitsOK

LEMMA WaitsKept ==
  ASSUME WaitsOK, tasks' = tasks, subscriptions' = subscriptions,
         \A e \in Subscribers : state'[e] = state[e], subscriptions \subseteq Subscribers
  PROVE  WaitsOK'
  BY DEF WaitsOK

(* Executions end, and with them their subscriptions. *)
LEMMA EndedWaits ==
  ASSUME WaitsOK, tasks' = tasks, subscriptions \subseteq Subscribers,
         \A e \in Subscribers : state'[e] = state[e] \/ state'[e] \in Ended,
         subscriptions' \subseteq subscriptions,
         \A e \in subscriptions' : state'[e] \notin Ended,
         \A e \in subscriptions : state'[e] \notin Ended => e \in subscriptions'
  PROVE  WaitsOK'
  <1>1. \A e \in Subscribers : state'[e] = "WAIT" =>
          e \in subscriptions' \/ \E t \in tasks' : t.target = e
    BY DEF WaitsOK, Ended
  <1>2. \A e \in subscriptions' : state'[e] = "WAIT"
    BY DEF WaitsOK
  <1>3. \A t \in tasks' : t.target \in Subscribers =>
           state'[t.target] \in {"WAIT"} \cup Ended /\ t.target \notin subscriptions'
    BY DEF WaitsOK
  <1>. QED BY <1>1, <1>2, <1>3 DEF WaitsOK

(* The same, and with them a task of theirs. *)
LEMMA ExecutedWaits ==
  ASSUME WaitsOK, NEW t \in tasks, tasks' = tasks \ {t}, subscriptions \subseteq Subscribers,
         \A e \in Subscribers : state'[e] = state[e] \/ state'[e] \in Ended,
         t.target \in Subscribers => state'[t.target] \in Ended,
         subscriptions' \subseteq subscriptions,
         \A e \in subscriptions' : state'[e] \notin Ended,
         \A e \in subscriptions : state'[e] \notin Ended => e \in subscriptions'
  PROVE  WaitsOK'
  <1>1. \A e \in Subscribers : state'[e] = "WAIT" =>
          e \in subscriptions' \/ \E u \in tasks' : u.target = e
    BY DEF WaitsOK, Ended
  <1>2. \A e \in subscriptions' : state'[e] = "WAIT"
    BY DEF WaitsOK
  <1>3. \A u \in tasks' : u.target \in Subscribers =>
           state'[u.target] \in {"WAIT"} \cup Ended /\ u.target \notin subscriptions'
    BY DEF WaitsOK
  <1>. QED BY <1>1, <1>2, <1>3 DEF WaitsOK
LEMMA InstanceOfFacts ==
  /\ \A e \in Gateway : InstanceOf(e) = Gateway
  /\ \A e \in Activity : InstanceOf(e) = Activity
  /\ \A e \in Executions : e \notin Gateway \cup Activity => InstanceOf(e) = {e}
  /\ \A e \in Executions : e \in InstanceOf(e)
  BY SetsFacts DEF InstanceOf

(* What the termination of the executions es but e does to those who wait. *)
LEMMA TerminatedFacts ==
  ASSUME TypeOK, WaitsOK, NEW es \in {Gateway, Activity}, NEW e \in es,
         state' = Terminated(es, e), subscriptions' = subscriptions \ es
  PROVE  /\ \A x \in Subscribers : state'[x] = state[x] \/ state'[x] \in Ended
         /\ e \in Subscribers => state'[e] \in Ended
         /\ \A x \in subscriptions' : state'[x] \notin Ended
         /\ \A x \in subscriptions : state'[x] \notin Ended => x \in subscriptions'
  <1>1. /\ es \subseteq Executions /\ Subscribers \subseteq Executions
        /\ subscriptions \subseteq Subscribers
    BY SetsFacts DEF TypeOK
  <1>2. \A x \in Executions : state'[x] =
          IF x = e THEN "COMPLETED"
          ELSE IF x \in es /\ state[x] \notin Ended \cup {"NONE"} THEN "TERMINATED" ELSE state[x]
    BY DEF Terminated
  <1>3. \A x \in subscriptions : state[x] = "WAIT"
    BY DEF WaitsOK
  <1>. QED BY <1>1, <1>2, <1>3 DEF Ended

LEMMA BoundaryWaits ==
  ASSUME TypeOK, WaitsOK, NEW t \in tasks, tasks' = tasks \ {t},
         t.target \in Boundaries, state[t.target] = "WAIT", NextBoundary(t.target)
  PROVE  WaitsOK' /\ subscriptions \subseteq subscriptions'
  <1>1. /\ Boundaries \subseteq Subscribers /\ Subscribers \subseteq Executions
        /\ subscriptions \subseteq Subscribers
    BY SetsFacts DEF TypeOK
  <1>2. ASSUME NEW b \in Boundaries, state[b] = "NONE",
               subscriptions' = subscriptions \cup {b},
               state' = [state EXCEPT ![t.target] = "COMPLETED", ![b] = "WAIT"]
        PROVE  WaitsOK'
    <2>1. /\ state'[b] = "WAIT" /\ state'[t.target] = "COMPLETED" /\ b # t.target
          /\ \A x \in Subscribers : x \notin {b, t.target} => state'[x] = state[x]
      BY <1>1, <1>2 DEF TypeOK
    <2>2. \A u \in tasks : u.target # b
      BY <1>1, <1>2 DEF WaitsOK, Ended
    <2>3. \A x \in Subscribers : state'[x] = "WAIT" =>
            x \in subscriptions' \/ \E u \in tasks' : u.target = x
      BY <1>2, <2>1 DEF WaitsOK
    <2>4. \A x \in subscriptions' : state'[x] = "WAIT"
      BY <1>1, <1>2, <2>1 DEF WaitsOK
    <2>5. \A u \in tasks' : u.target \in Subscribers =>
            state'[u.target] \in {"WAIT"} \cup Ended /\ u.target \notin subscriptions'
      BY <1>2, <2>1, <2>2 DEF WaitsOK, Ended
    <2>. QED BY <2>3, <2>4, <2>5 DEF WaitsOK
  <1>3. ASSUME subscriptions' = subscriptions, state' = [state EXCEPT ![t.target] = "COMPLETED"]
        PROVE  WaitsOK'
    <2>1. /\ state'[t.target] = "COMPLETED" /\ t.target \notin subscriptions
          /\ \A x \in Subscribers : x # t.target => state'[x] = state[x]
      BY <1>1, <1>3 DEF TypeOK, WaitsOK
    <2>2. \A x \in subscriptions : state[x] = "WAIT"
      BY DEF WaitsOK
    <2>. QED BY <1>1, <1>3, <2>1, <2>2, ExecutedWaits DEF Ended
  <1>. QED BY <1>2, <1>3 DEF NextBoundary

LEMMA TaskWaits ==
  ASSUME TypeOK, SendingOK, WaitsOK, NEW t \in tasks, ExecuteTask(t)
  PROVE  SendingOK' /\ WaitsOK'
  <1>1. /\ tasks' = tasks \ {t} /\ UNCHANGED <<row, sending>>
        /\ subscriptions \subseteq Subscribers
    BY DEF ExecuteTask, TriggerSignalCatchEvent, TriggerSignalBoundaryEvent,
           TriggerSignalStartEvent, CancelTask, TypeOK
  <1>2. \A x \in subscriptions : state[x] = "WAIT"
    BY DEF WaitsOK
  <1>3. CASE TriggerSignalCatchEvent(t) /\ t.target \in Members
    <2>1. t.target \in Gateway /\ CompleteEventBasedGateway(t.target)
      BY <1>3, SetsFacts DEF TriggerSignalCatchEvent
    <2>2. Gateway \cap Locked = {}
      BY <2>1, InstanceOfFacts DEF CompleteEventBasedGateway, IsFree
    <2>3. SendingOK'
      BY <1>1, <2>1, <2>2, SendingKept DEF CompleteEventBasedGateway
    <2>4. WaitsOK'
      BY <1>1, <2>1, TerminatedFacts, ExecutedWaits DEF CompleteEventBasedGateway
    <2>. QED BY <2>3, <2>4
  <1>4. CASE TriggerSignalCatchEvent(t) /\ t.target \notin Members
    <2>1. /\ t.target \in Subscribers /\ subscriptions' = subscriptions
          /\ state' = [state EXCEPT ![t.target] = "COMPLETED"]
      BY <1>4 DEF TriggerSignalCatchEvent, Subscribers
    <2>2. /\ state'[t.target] = "COMPLETED" /\ t.target \notin subscriptions
          /\ \A x \in Subscribers : x # t.target => state'[x] = state[x]
      BY <2>1, SetsFacts DEF TypeOK, WaitsOK
    <2>3. SendingOK'
      BY <1>1, <2>1, SendingKept
    <2>4. WaitsOK'
      BY <1>1, <1>2, <2>1, <2>2, ExecutedWaits DEF Ended
    <2>. QED BY <2>3, <2>4
  <1>5. CASE TriggerSignalBoundaryEvent(t) /\ t.target = Interrupting
    <2>1. t.target \in Activity /\ Interrupt /\ Interrupting \in Activity
      BY <1>5, SetsFacts DEF TriggerSignalBoundaryEvent
    <2>2. Activity \cap Locked = {}
      BY <2>1, InstanceOfFacts DEF Interrupt, IsFree
    <2>3. SendingOK'
      BY <1>1, <2>1, <2>2, SendingKept DEF Interrupt
    <2>4. WaitsOK'
      BY <1>1, <1>5, <2>1, TerminatedFacts, ExecutedWaits DEF Interrupt
    <2>. QED BY <2>3, <2>4
  <1>6. CASE TriggerSignalBoundaryEvent(t) /\ t.target # Interrupting
    <2>1. /\ t.target \in Boundaries /\ state[t.target] = "WAIT"
          /\ NextBoundary(t.target)
      BY <1>6 DEF TriggerSignalBoundaryEvent, Activity
    <2>2. WaitsOK' /\ subscriptions \subseteq subscriptions'
      BY <1>1, <2>1, BoundaryWaits
    <2>3. SendingOK'
      BY <1>1, <2>2, SendingKept
    <2>. QED BY <2>2, <2>3
  <1>7. CASE TriggerSignalStartEvent(t)
    <2>1. /\ t.target \notin Subscribers /\ UNCHANGED <<state, subscriptions>>
      BY <1>7, SetsFacts DEF TriggerSignalStartEvent
    <2>2. SendingOK'
      BY <1>1, <2>1, SendingKept
    <2>3. WaitsOK'
      BY <1>1, <1>2, <2>1, ExecutedWaits DEF Ended
    <2>. QED BY <2>2, <2>3
  <1>8. CASE CancelTask(t)
    <2>1. /\ state[t.target] \in Ended /\ UNCHANGED <<state, subscriptions>>
      BY <1>8 DEF CancelTask
    <2>2. SendingOK'
      BY <1>1, <2>1, SendingKept
    <2>3. WaitsOK'
      BY <1>1, <1>2, <2>1, ExecutedWaits DEF Ended
    <2>. QED BY <2>2, <2>3
  <1>. QED BY <1>3, <1>4, <1>5, <1>6, <1>7, <1>8 DEF ExecuteTask

LEMMA NextWaits ==
  TypeOK /\ SendingOK /\ WaitsOK /\ [Next]_vars => SendingOK' /\ WaitsOK'
  <1>. SUFFICES ASSUME TypeOK, SendingOK, WaitsOK, [Next]_vars PROVE SendingOK' /\ WaitsOK'
    OBVIOUS
  <1>0. subscriptions \subseteq Subscribers /\ \A x \in subscriptions : state[x] = "WAIT"
    BY DEF TypeOK, WaitsOK
  <1>1. ASSUME NEW s \in Signals, NEW hasVariables \in BOOLEAN,
               SendSignal(s, Null, hasVariables) \/ TriggerSignalThrowEvent(s)
        PROVE  SendingOK' /\ WaitsOK'
    <2>1. UNCHANGED <<state, subscriptions, tasks>>
      BY <1>1 DEF SendSignal, TriggerSignalThrowEvent
    <2>2. PICK by \in {Thrower, Null} :
            SendSignal(s, by, hasVariables) \/ SendSignal(s, by, FALSE)
      BY <1>1 DEF TriggerSignalThrowEvent
    <2>3. SendingOK'
      BY <2>2, SendSignalOK
    <2>. QED BY <1>0, <2>1, <2>3, WaitsKept
  <1>2. ASSUME NEW s \in Signals, CommitSignal(s) PROVE SendingOK' /\ WaitsOK'
    BY <1>2, CommitOK
  <1>3. ASSUME NEW s \in Signals, Rollback(s) PROVE SendingOK' /\ WaitsOK'
    <2>1. SendingOK'
      BY <1>3 DEF Rollback, SendingOK, TypeOK
    <2>. QED BY <1>0, <1>3, <2>1, WaitsKept DEF Rollback
  <1>4. ASSUME NEW e \in Executions, SubscribeSignal(e) PROVE SendingOK' /\ WaitsOK'
    <2>1. /\ state[e] = "JOB" /\ e \in Subscribers /\ tasks' = tasks
          /\ state' = [state EXCEPT ![e] = "WAIT"] /\ UNCHANGED <<row, sending>>
          /\ subscriptions' = subscriptions \cup {e}
      BY <1>4 DEF SubscribeSignal
    <2>2. /\ state'[e] = "WAIT" /\ \A x \in Subscribers : x # e => state'[x] = state[x]
      BY <1>4, <2>1, SetsFacts DEF TypeOK
    <2>3. \A t \in tasks : t.target # e
      BY <2>1 DEF WaitsOK, Ended
    <2>4. SendingOK'
      BY <2>1, SendingKept
    <2>5. \A x \in Subscribers : state'[x] = "WAIT" =>
            x \in subscriptions' \/ \E u \in tasks' : u.target = x
      BY <2>1, <2>2 DEF WaitsOK
    <2>6. \A x \in subscriptions' : state'[x] = "WAIT"
      BY <1>0, <2>1, <2>2
    <2>7. \A t \in tasks' : t.target \in Subscribers =>
            state'[t.target] \in {"WAIT"} \cup Ended /\ t.target \notin subscriptions'
      BY <2>1, <2>2, <2>3 DEF WaitsOK
    <2>. QED BY <2>1, <2>4, <2>5, <2>6, <2>7 DEF WaitsOK
  <1>5. ASSUME NEW e \in Executions, AttachBoundaryEvent(e) PROVE SendingOK' /\ WaitsOK'
    <2>1. /\ e \in Boundaries /\ state[e] = "NONE" /\ state' = [state EXCEPT ![e] = "JOB"]
          /\ UNCHANGED <<row, sending, tasks, subscriptions>>
      BY <1>5 DEF AttachBoundaryEvent
    <2>2. e \in Subscribers /\ state'[e] = "JOB"
          /\ \A x \in Subscribers : x # e => state'[x] = state[x]
      BY <1>5, <2>1, SetsFacts DEF TypeOK
    <2>3. /\ \A t \in tasks : t.target # e
          /\ e \notin subscriptions
      BY <2>1, <2>2 DEF WaitsOK, Ended
    <2>4. SendingOK'
      BY <2>1, SendingKept
    <2>5. WaitsOK'
      BY <2>1, <2>2, <2>3 DEF WaitsOK
    <2>. QED BY <2>4, <2>5
  <1>6. ASSUME NEW e \in Executions, EndInstance(e) PROVE SendingOK' /\ WaitsOK'
    <2>1. /\ InstanceOf(e) \cap Locked = {} /\ UNCHANGED <<row, sending, tasks>>
          /\ subscriptions' = subscriptions \ InstanceOf(e)
          /\ \A x \in Executions : state'[x] =
               IF x \in InstanceOf(e) /\ state[x] \notin Ended THEN "TERMINATED" ELSE state[x]
      BY <1>6 DEF EndInstance, IsFree
    <2>2. SendingOK'
      BY <2>1, SendingKept
    <2>3. WaitsOK'
      BY <1>0, <2>1, SetsFacts, EndedWaits DEF Ended
    <2>. QED BY <2>2, <2>3
  <1>7. ASSUME NEW t \in tasks, ExecuteTask(t) PROVE SendingOK' /\ WaitsOK'
    BY <1>7, TaskWaits
  <1>8. ASSUME NEW e \in {Timer, Thrower}, state' = [state EXCEPT ![e] = "WAIT"],
               UNCHANGED <<row, sending, tasks, subscriptions>>
        PROVE  SendingOK' /\ WaitsOK'
    <2>1. \A x \in Subscribers : state'[x] = state[x]
      BY <1>8, SetsFacts DEF TypeOK
    <2>. QED BY <1>0, <1>8, <2>1, SendingKept, WaitsKept
  <1>9. CASE TriggerTimerCatchEvent
    <2>1. /\ Timer \in Gateway /\ Gateway \cap Locked = {}
          /\ state' = Terminated(Gateway, Timer) /\ subscriptions' = subscriptions \ Gateway
          /\ UNCHANGED <<row, sending, tasks>>
      BY <1>9, SetsFacts, InstanceOfFacts
         DEF TriggerTimerCatchEvent, CompleteEventBasedGateway, IsFree
    <2>2. SendingOK'
      BY <2>1, SendingKept
    <2>3. WaitsOK'
      BY <1>0, <2>1, TerminatedFacts, EndedWaits
    <2>. QED BY <2>2, <2>3
  <1>10. CASE PurgeSignals
    <2>1. SendingOK'
      BY <1>10 DEF PurgeSignals, SendingOK, Unused
    <2>. QED BY <1>0, <1>10, <2>1, WaitsKept DEF PurgeSignals
  <1>11. CASE \/ PurgeSignalVariables \/ UNCHANGED vars
              \/ \E d \in Starts : CreateProcess(d)
    <2>1. UNCHANGED <<row, sending, tasks, subscriptions, state>>
      BY <1>11 DEF PurgeSignalVariables, CreateProcess, vars
    <2>. QED BY <1>0, <2>1, SendingKept, WaitsKept
  <1>. QED BY <1>1, <1>2, <1>3, <1>4, <1>5, <1>6, <1>7, <1>8, <1>9, <1>10, <1>11
       DEF Next, SetTimer, SetSignalName
-----------------------------------------------------------------------------

(* Event-based gateways *)

LEMMA GatewayKept ==
  ASSUME GatewayOK, \A e \in Gateway : state'[e] = state[e]
  PROVE  GatewayOK'
  BY DEF GatewayOK

LEMMA GatewayWaits ==
  ASSUME TypeOK, GatewayOK, NEW e \in Gateway, state[e] = "JOB",
         state' = [state EXCEPT ![e] = "WAIT"]
  PROVE  GatewayOK'
  <1>1. /\ state'[e] = "WAIT" /\ \A f \in Gateway : f # e => state'[f] = state[f]
    BY SetsFacts DEF TypeOK
  <1>. QED BY <1>1 DEF GatewayOK

(* The event that is triggered still waits, so that no other has been. *)
LEMMA GatewayCompleted ==
  ASSUME GatewayOK, NEW e \in Gateway, state[e] = "WAIT", CompleteEventBasedGateway(e)
  PROVE  GatewayOK'
  <1>1. \A f \in Gateway : state[f] \notin {"NONE", "COMPLETED"}
    BY DEF GatewayOK
  <1>2. \A f \in Gateway : state'[f] =
          IF f = e THEN "COMPLETED"
          ELSE IF state[f] \notin Ended \cup {"NONE"} THEN "TERMINATED" ELSE state[f]
    BY SetsFacts DEF CompleteEventBasedGateway, Terminated
  <1>3. state'[e] = "COMPLETED" /\ \A f \in Gateway : f # e => state'[f] = "TERMINATED"
    BY <1>1, <1>2 DEF Ended
  <1>. QED BY <1>3 DEF GatewayOK

LEMMA NextGateway == TypeOK /\ GatewayOK /\ [Next]_vars => GatewayOK'
  <1>. SUFFICES ASSUME TypeOK, GatewayOK, [Next]_vars PROVE GatewayOK'
    OBVIOUS
  <1>1. ASSUME NEW s \in Signals, CommitSignal(s) PROVE GatewayOK'
    <2>1. \A e \in Gateway : state'[e] = state[e]
      BY <1>1, SetsFacts DEF CommitSignal, TypeOK, Sending
    <2>. QED BY <2>1, GatewayKept
  <1>2. ASSUME NEW e \in Executions, SubscribeSignal(e) PROVE GatewayOK'
    <2>1. CASE e \in Gateway
      BY <1>2, <2>1, GatewayWaits DEF SubscribeSignal
    <2>2. CASE e \notin Gateway
      BY <1>2, <2>2, GatewayKept, SetsFacts DEF SubscribeSignal, TypeOK
    <2>. QED BY <2>1, <2>2
  <1>3. ASSUME NEW e \in Executions, AttachBoundaryEvent(e) PROVE GatewayOK'
    BY <1>3, GatewayKept, SetsFacts DEF AttachBoundaryEvent, TypeOK
  <1>4. ASSUME NEW e \in Executions, EndInstance(e) PROVE GatewayOK'
    <2>1. /\ state[e] \notin Ended
          /\ \A x \in Executions : state'[x] =
               IF x \in InstanceOf(e) /\ state[x] \notin Ended THEN "TERMINATED" ELSE state[x]
      BY <1>4 DEF EndInstance
    <2>2. CASE e \in Gateway
      <3>1. \A f \in Gateway : state[f] # "COMPLETED"
        BY <2>1, <2>2 DEF GatewayOK, Ended
      <3>2. \A f \in Gateway : state'[f] = "TERMINATED"
        BY <2>1, <2>2, <3>1, InstanceOfFacts, SetsFacts DEF Ended
      <3>. QED BY <3>2 DEF GatewayOK
    <2>3. CASE e \notin Gateway
      <3>1. InstanceOf(e) \cap Gateway = {}
        BY <2>3, InstanceOfFacts, SetsFacts
      <3>. QED BY <2>1, <3>1, GatewayKept, SetsFacts
    <2>. QED BY <2>2, <2>3
  <1>5. ASSUME NEW t \in tasks, ExecuteTask(t) PROVE GatewayOK'
    <2>1. CASE TriggerSignalCatchEvent(t) /\ t.target \in Members
      BY <2>1, GatewayCompleted, SetsFacts DEF TriggerSignalCatchEvent
    <2>2. CASE TriggerSignalCatchEvent(t) /\ t.target \notin Members
      BY <2>2, GatewayKept, SetsFacts DEF TriggerSignalCatchEvent, TypeOK
    <2>3. CASE TriggerSignalBoundaryEvent(t)
      <3>1. CASE Interrupt
        <4>1. \A e \in Gateway : state'[e] = state[e]
          BY <3>1, SetsFacts DEF Interrupt, Terminated
        <4>. QED BY <4>1, GatewayKept
      <3>2. CASE t.target \in Activity /\ NextBoundary(t.target)
        <4>1. \A e \in Gateway : state'[e] = state[e]
          BY <3>2, NextBoundaryFacts, SetsFacts DEF TypeOK
        <4>. QED BY <4>1, GatewayKept
      <3>. QED BY <2>3, <3>1, <3>2 DEF TriggerSignalBoundaryEvent
    <2>4. CASE TriggerSignalStartEvent(t) \/ CancelTask(t)
      BY <2>4, GatewayKept DEF TriggerSignalStartEvent, CancelTask
    <2>. QED BY <1>5, <2>1, <2>2, <2>3, <2>4 DEF ExecuteTask
  <1>6. CASE SetTimer
    BY <1>6, GatewayWaits, SetsFacts DEF SetTimer
  <1>7. CASE SetSignalName
    BY <1>7, GatewayKept, SetsFacts DEF SetSignalName, TypeOK
  <1>8. CASE TriggerTimerCatchEvent
    BY <1>8, GatewayCompleted, SetsFacts DEF TriggerTimerCatchEvent
  <1>9. ASSUME NEW s \in Signals,
               \/ TriggerSignalThrowEvent(s) \/ Rollback(s)
               \/ \E hasVariables \in BOOLEAN : SendSignal(s, Null, hasVariables)
        PROVE  GatewayOK'
    BY <1>9, GatewayKept DEF TriggerSignalThrowEvent, SendSignal, Rollback
  <1>10. CASE \/ PurgeSignalVariables \/ PurgeSignals \/ UNCHANGED vars
              \/ \E d \in Starts : CreateProcess(d)
    BY <1>10, GatewayKept DEF PurgeSignalVariables, PurgeSignals, CreateProcess, vars
  <1>. QED BY <1>1, <1>2, <1>3, <1>4, <1>5, <1>6, <1>7, <1>8, <1>9, <1>10 DEF Next

-----------------------------------------------------------------------------

(* Non-interrupting boundary events *)

LEMMA BoundaryKept ==
  ASSUME BoundaryOK, \A e \in Activity : state'[e] = state[e]
  PROVE  BoundaryOK'
  BY SetsFacts DEF BoundaryOK, Awaiting

(* The execution that follows the one that has been triggered is the only one *)
(* that waits. *)
LEMMA NextBoundaryOK ==
  ASSUME TypeOK, BoundaryOK, NEW e \in Boundaries, state[e] = "WAIT", NextBoundary(e)
  PROVE  BoundaryOK'
  <1>1. Boundaries \subseteq Executions /\ Interrupting \in Executions
        /\ Interrupting \notin Boundaries
    BY SetsFacts
  <1>2. ASSUME NEW b \in Boundaries, state[b] = "NONE",
               state' = [state EXCEPT ![e] = "COMPLETED", ![b] = "WAIT"]
        PROVE  BoundaryOK'
    <2>1. /\ state'[b] = "WAIT" /\ state'[e] = "COMPLETED" /\ b # e
          /\ \A x \in Executions : x \notin {b, e} => state'[x] = state[x]
      BY <1>1, <1>2 DEF TypeOK
    <2>2. CASE state[Interrupting] \in Ended
      BY <1>1, <2>1, <2>2 DEF BoundaryOK
    <2>3. CASE state[Interrupting] \notin Ended
      <3>1. PICK c \in Boundaries : Awaiting = {c}
        BY <1>2, <2>3 DEF BoundaryOK
      <3>2. c = e
        BY <3>1 DEF Awaiting
      <3>3. Awaiting' = {b}
        BY <1>1, <2>1, <3>1, <3>2 DEF Awaiting
      <3>4. \A x \in Boundaries : state'[x] # "TERMINATED"
        BY <1>1, <2>1, <2>3 DEF BoundaryOK
      <3>. QED BY <3>3, <3>4 DEF BoundaryOK
    <2>. QED BY <2>2, <2>3
  <1>3. ASSUME \A b \in Boundaries : state[b] # "NONE",
               state' = [state EXCEPT ![e] = "COMPLETED"]
        PROVE  BoundaryOK'
    <2>1. state'[e] = "COMPLETED" /\ \A x \in Executions : x # e => state'[x] = state[x]
      BY <1>1, <1>3 DEF TypeOK
    <2>2. CASE state[Interrupting] \in Ended
      BY <1>1, <2>1, <2>2 DEF BoundaryOK
    <2>3. CASE state[Interrupting] \notin Ended
      <3>1. PICK c \in Boundaries : Awaiting = {c}
        BY <1>3, <2>3 DEF BoundaryOK
      <3>2. \A b \in Boundaries : b # e => state[b] \notin {"JOB", "WAIT", "NONE", "TERMINATED"}
        BY <1>3, <2>3, <3>1 DEF BoundaryOK, Awaiting
      <3>3. \A b \in Boundaries : state'[b] = "COMPLETED"
        BY <1>1, <2>1, <3>2 DEF TypeOK, ExecutionState
      <3>. QED BY <3>3 DEF BoundaryOK
    <2>. QED BY <2>2, <2>3
  <1>. QED BY <1>2, <1>3 DEF NextBoundary

LEMMA NextBoundaries == TypeOK /\ BoundaryOK /\ [Next]_vars => BoundaryOK'
  <1>. SUFFICES ASSUME TypeOK, BoundaryOK, [Next]_vars PROVE BoundaryOK'
    OBVIOUS
  <1>0. /\ Boundaries \subseteq Executions /\ Interrupting \in Executions
        /\ Interrupting \notin Boundaries /\ Activity = Boundaries \cup {Interrupting}
    BY SetsFacts DEF Activity
  <1>1. ASSUME NEW s \in Signals, CommitSignal(s) PROVE BoundaryOK'
    <2>1. \A e \in Activity : state'[e] = state[e]
      BY <1>1, SetsFacts DEF CommitSignal, TypeOK, Sending
    <2>. QED BY <2>1, BoundaryKept
  <1>2. ASSUME NEW e \in Executions, SubscribeSignal(e) PROVE BoundaryOK'
    <2>1. /\ state[e] = "JOB" /\ state'[e] = "WAIT"
          /\ \A x \in Executions : x # e => state'[x] = state[x]
      BY <1>2 DEF SubscribeSignal, TypeOK
    <2>2. Awaiting' = Awaiting
      BY <1>0, <2>1 DEF Awaiting
    <2>3. CASE state[Interrupting] \in Ended
      BY <1>0, <2>1, <2>3 DEF BoundaryOK, Ended
    <2>4. CASE state[Interrupting] \notin Ended
      <3>1. \A b \in Boundaries : state'[b] # "TERMINATED"
        BY <1>0, <2>1, <2>4 DEF BoundaryOK
      <3>2. CASE e \in Boundaries
        <4>1. PICK c \in Boundaries : Awaiting = {c}
          BY <2>1, <2>4, <3>2 DEF BoundaryOK
        <4>. QED BY <2>2, <3>1, <4>1 DEF BoundaryOK
      <3>3. CASE e \notin Boundaries
        <4>1. \A b \in Boundaries : state'[b] = state[b]
          BY <1>0, <2>1, <3>3
        <4>. QED BY <2>2, <2>4, <3>1, <4>1 DEF BoundaryOK
      <3>. QED BY <3>2, <3>3
    <2>. QED BY <2>3, <2>4
  <1>3. ASSUME NEW e \in Executions, AttachBoundaryEvent(e) PROVE BoundaryOK'
    <2>1. /\ e \in Boundaries /\ state'[e] = "JOB" /\ \A b \in Boundaries : state[b] = "NONE"
          /\ \A x \in Executions : x # e => state'[x] = state[x]
      BY <1>3 DEF AttachBoundaryEvent, TypeOK
    <2>2. Awaiting' = {e}
      BY <1>0, <2>1 DEF Awaiting
    <2>3. \A b \in Boundaries : state'[b] # "TERMINATED"
      BY <1>0, <2>1
    <2>. QED BY <2>1, <2>2, <2>3 DEF BoundaryOK
  <1>4. ASSUME NEW e \in Executions, EndInstance(e) PROVE BoundaryOK'
    <2>1. \A x \in Executions : state'[x] =
            IF x \in InstanceOf(e) /\ state[x] \notin Ended THEN "TERMINATED" ELSE state[x]
      BY <1>4 DEF EndInstance
    <2>2. CASE e \in Activity
      <3>1. state'[Interrupting] \in Ended
        BY <1>0, <2>1, <2>2, InstanceOfFacts DEF Ended
      <3>. QED BY <3>1 DEF BoundaryOK
    <2>3. CASE e \notin Activity
      <3>1. InstanceOf(e) \cap Activity = {}
        BY <2>3, InstanceOfFacts, SetsFacts
      <3>. QED BY <2>1, <3>1, BoundaryKept, SetsFacts
    <2>. QED BY <2>2, <2>3
  <1>5. ASSUME NEW t \in tasks, ExecuteTask(t) PROVE BoundaryOK'
    <2>1. CASE TriggerSignalCatchEvent(t)
      <3>1. \A e \in Activity : state'[e] = state[e]
        BY <2>1, SetsFacts
           DEF TriggerSignalCatchEvent, CompleteEventBasedGateway, Terminated, TypeOK
      <3>. QED BY <3>1, BoundaryKept
    <2>2. CASE TriggerSignalBoundaryEvent(t) /\ t.target = Interrupting
      <3>1. state'[Interrupting] \in Ended
        BY <1>0, <2>2 DEF TriggerSignalBoundaryEvent, Interrupt, Terminated, Ended
      <3>. QED BY <3>1 DEF BoundaryOK
    <2>3. CASE TriggerSignalBoundaryEvent(t) /\ t.target # Interrupting
      BY <1>0, <2>3, NextBoundaryOK DEF TriggerSignalBoundaryEvent
    <2>4. CASE TriggerSignalStartEvent(t) \/ CancelTask(t)
      BY <2>4, BoundaryKept DEF TriggerSignalStartEvent, CancelTask
    <2>. QED BY <1>5, <2>1, <2>2, <2>3, <2>4 DEF ExecuteTask
  <1>6. CASE SetTimer
    BY <1>6, BoundaryKept, SetsFacts DEF SetTimer, TypeOK
  <1>7. CASE SetSignalName
    BY <1>7, BoundaryKept, SetsFacts DEF SetSignalName, TypeOK
  <1>8. CASE TriggerTimerCatchEvent
    <2>1. \A e \in Activity : state'[e] = state[e]
      BY <1>8, SetsFacts DEF TriggerTimerCatchEvent, CompleteEventBasedGateway, Terminated
    <2>. QED BY <2>1, BoundaryKept
  <1>9. ASSUME NEW s \in Signals,
               \/ TriggerSignalThrowEvent(s) \/ Rollback(s)
               \/ \E hasVariables \in BOOLEAN : SendSignal(s, Null, hasVariables)
        PROVE  BoundaryOK'
    BY <1>9, BoundaryKept DEF TriggerSignalThrowEvent, SendSignal, Rollback
  <1>10. CASE \/ PurgeSignalVariables \/ PurgeSignals \/ UNCHANGED vars
              \/ \E d \in Starts : CreateProcess(d)
    BY <1>10, BoundaryKept DEF PurgeSignalVariables, PurgeSignals, CreateProcess, vars
  <1>. QED BY <1>1, <1>2, <1>3, <1>4, <1>5, <1>6, <1>7, <1>8, <1>9, <1>10 DEF Next

-----------------------------------------------------------------------------

(* The inductive invariant, of which the theorems below are consequences.      *)
THEOREM InvAlways == Spec => []Inv
  <1>1. Inv /\ [Next]_vars => Inv'
    BY NextType, NextCount, NextWaits, NextGateway, NextBoundaries DEF Inv
  <1>. QED BY InitInv, <1>1, PTL DEF Spec

(* Signals, subscriptions, tasks and transactions keep their types.           *)
THEOREM SignalsTypeCorrect == Spec => []TypeOK
  <1>1. Inv => TypeOK
    BY DEF Inv
  <1>. QED BY InvAlways, <1>1, PTL

(* ActiveSubscriberCount is the number of tasks that are still to use the     *)
(* signal (signal.go:176-215, event.go:150-170), whatever interleaves.        *)
THEOREM CountCorrect == Spec => []CountIsDueTasks
  <1>1. Inv => CountIsDueTasks
    BY DEF Inv
  <1>. QED BY InvAlways, <1>1, PTL

(* An execution that waits for a signal has a subscription or one task that   *)
(* is to trigger it: signals that are sent at the same time never both find   *)
(* it.                                                                        *)
THEOREM SubscriberWaitsForOne == Spec => []WaitsForOne
  <1>1. Inv => WaitsForOne
    <2>. SUFFICES ASSUME Inv, NEW e \in Subscribers
         PROVE  LET due == {t \in tasks : t.target = e}
                IN  /\ state[e] = "WAIT" =>
                         IF e \in subscriptions THEN due = {} ELSE Cardinality(due) = 1
                    /\ state[e] # "WAIT" => e \notin subscriptions
      BY DEF WaitsForOne
    <2>. DEFINE due == {t \in tasks : t.target = e}
    <2>1. WaitsOK
      BY DEF Inv
    <2>2. e \in subscriptions => due = {} /\ state[e] = "WAIT"
      BY <2>1 DEF WaitsOK
    <2>3. ASSUME state[e] = "WAIT", e \notin subscriptions PROVE Cardinality(due) = 1
      <3>1. PICK t \in tasks : t.target = e
        BY <2>1, <2>3 DEF WaitsOK
      <3>2. due = {t}
        BY <2>1, <3>1 DEF WaitsOK
      <3>3. Cardinality({t}) = 1
        BY FS_Singleton
      <3>. QED BY ONLY <3>2, <3>3, Zenon
    <2>. QED BY <2>2, <2>3
  <1>. QED BY InvAlways, <1>1, PTL

(* Of the events next to an event-based gateway one is triggered at most,     *)
(* whatever signals and timers fire (completeEventBasedGateay, event.go).     *)
THEOREM GatewayTriggersOnce == Spec => []OneEventPerGateway
  <1>1. Inv => OneEventPerGateway
    <2>. SUFFICES ASSUME Inv PROVE OneEventPerGateway
      OBVIOUS
    <2>. DEFINE completed == {e \in Gateway : state[e] = "COMPLETED"}
    <2>1. GatewayOK
      BY DEF Inv
    <2>2. CASE completed = {}
      <3>1. Cardinality(completed) = 0
        BY <2>2, FS_EmptySet, Zenon
      <3>. QED BY <2>2, <3>1 DEF OneEventPerGateway
    <2>3. CASE completed # {}
      <3>1. PICK e \in Gateway : state[e] = "COMPLETED"
        BY <2>3
      <3>2. completed = {e}
        BY <2>1, <3>1 DEF GatewayOK
      <3>3. Cardinality({e}) = 1
        BY FS_Singleton
      <3>4. Cardinality(completed) = 1
        BY ONLY <3>2, <3>3, Zenon
      <3>5. \A f \in Gateway : state[f] \in Ended
        BY <2>1, <3>1 DEF GatewayOK, Ended
      <3>. QED BY <3>4, <3>5 DEF OneEventPerGateway
    <2>. QED BY <2>2, <2>3
  <1>. QED BY InvAlways, <1>1, PTL

(* A non-interrupting boundary event waits on after it has been triggered, as *)
(* long as its activity is active (startBoundaryEvent, event.go).             *)
THEOREM BoundaryWaitsOn == Spec => []BoundaryKeepsWaiting
  <1>1. Inv => BoundaryKeepsWaiting
    <2>. SUFFICES ASSUME Inv, state[Interrupting] \notin Ended,
                         \E b \in Boundaries : state[b] # "NONE",
                         \E b \in Boundaries : state[b] # "COMPLETED"
         PROVE  \E b \in Boundaries :
                  /\ Awaiting = {b}
                  /\ state[b] = "WAIT" => b \in subscriptions \/ \E t \in tasks : t.target = b
      BY DEF BoundaryKeepsWaiting, Awaiting
    <2>1. PICK b \in Boundaries : Awaiting = {b}
      BY DEF Inv, BoundaryOK
    <2>2. b \in Subscribers
      BY SetsFacts
    <2>3. state[b] = "WAIT" => b \in subscriptions \/ \E t \in tasks : t.target = b
      BY <2>2 DEF Inv, WaitsOK
    <2>. QED BY <2>1, <2>3
  <1>. QED BY InvAlways, <1>1, PTL
=============================================================================
