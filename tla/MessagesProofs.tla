--------------------------- MODULE MessagesProofs ---------------------------
(***************************************************************************)
(* Proofs about Messages, for any number of messages, keys and executions, *)
(* with and without a mutex.                                               *)
(***************************************************************************)
EXTENDS Messages, FiniteSetTheorems, TLAPS

(* A due task is the only one of its message and the only one of its          *)
(* execution, which has no subscription then.                                 *)
TasksOK ==
  /\ \A s, t \in tasks : s.message = t.message => s = t
  /\ \A s, t \in tasks : s.execution = t.execution /\ t.execution # Start => s = t
  /\ \A t \in tasks :
       /\ state[t.message] = "CORRELATED"
       /\ triggered[t.message] = 0
       /\ t.message \notin instances
       /\ t.execution # Start => /\ mode[t.execution] # "JOB"
                                 /\ t.execution \notin subscriptions

Unused(m) == state[m] \in {"NONE", "BUFFERED", "EXPIRED"}

(* A message is correlated for the sake of a task or an instance. *)
StatesOK ==
  /\ \A m \in Messages : state[m] = "CORRELATED" =>
       (\E t \in tasks : t.message = m) \/ m \in instances \ timed
  /\ \A m \in instances : ~Unused(m) /\ (m \notin timed => state[m] = "CORRELATED")
  /\ \A m \in Messages : triggered[m] \in {0, 1} /\ (Unused(m) => triggered[m] = 0)

(* An execution waits for a message it is subscribed to or has been given. *)
WaitsOK ==
  /\ \A e \in Executions : mode[e] = "WAIT" =>
       e \in subscriptions \/ \E t \in tasks : t.execution = e
  /\ \A e \in subscriptions : mode[e] = "WAIT"

(* What SendMessage has found stays as it is until it commits, *)
SendingOK ==
  /\ \A m \in Messages : sending[m] # Null => state[m] = "NONE"
  /\ \A m \in Messages : sending[m] \in Executions => sending[m] \in subscriptions
  /\ \A m, n \in Messages : sending[m] = sending[n] /\ sending[m] \in Executions => m = n

(* and so does what the transaction of an execution has found, but that time  *)
(* passes.                                                                    *)
LookingOK ==
  /\ \A e \in Executions : looking[e] # Null =>
       /\ looking[e].by = Null => mode[e] = "JOB"
       /\ looking[e].by # Null =>
            mode[e] = "WAIT" /\ e \in Repeating /\ TaskOf(looking[e].by, e) \in tasks
       /\ looking[e].found # Nothing => state[looking[e].found] \in {"BUFFERED", "EXPIRED"}
  /\ \A e, f \in Executions :
       /\ looking[e] # Null /\ looking[f] # Null
       /\ looking[e].found = looking[f].found /\ looking[e].found # Nothing
       => e = f

(* The messages that the unique index holds, or is about to. *)
Holds(m) == state[m] \in {"BUFFERED", "EXPIRED", "CORRELATED"} \/ sending[m] # Null

KeysOK ==
  \A m, n \in Messages : Holds(m) /\ Holds(n) /\ key[m] = key[n] /\ key[m] # Null => m = n

Inv == TypeOK /\ TasksOK /\ StatesOK /\ WaitsOK /\ SendingOK /\ LookingOK /\ KeysOK

LEMMA InitInv == Init => Inv
  <1>. SUFFICES ASSUME Init PROVE Inv
    OBVIOUS
  <1>1. TypeOK
    BY DEF Init, TypeOK, MessageState
  <1>2. TasksOK /\ StatesOK /\ WaitsOK
    BY DEF Init, TasksOK, StatesOK, WaitsOK, Unused
  <1>3. SendingOK /\ LookingOK
    BY MessagesAssumption DEF Init, SendingOK, LookingOK
  <1>4. KeysOK
    BY DEF Init, KeysOK
  <1>. QED BY <1>1, <1>2, <1>3, <1>4 DEF Inv

LEMMA TaskOfFacts ==
  ASSUME NEW m \in Messages, NEW e \in Executions \cup {Start}
  PROVE  TaskOf(m, e) \in Task /\ TaskOf(m, e).message = m /\ TaskOf(m, e).execution = e
  BY DEF Task, TaskOf

LEMMA NextInv == Inv /\ [Next]_vars => Inv'
  <1>. SUFFICES ASSUME Inv, [Next]_vars PROVE Inv'
    OBVIOUS
  <1>. USE MessagesAssumption
  <1>0. TypeOK /\ TasksOK /\ StatesOK /\ WaitsOK /\ SendingOK /\ LookingOK /\ KeysOK
    BY DEF Inv
  <1>1. ASSUME NEW m \in Messages, NEW k \in Keys \cup {Null}, NEW hasTimer \in BOOLEAN, SendMessage(m, k, hasTimer) PROVE Inv'
    <2>1. TypeOK' /\ TasksOK' /\ WaitsOK' /\ LookingOK'
      BY <1>0, <1>1 DEF SendMessage, Subscribers, rows, TypeOK, TasksOK, WaitsOK, LookingOK
    <2>2. StatesOK'
      BY <1>0, <1>1 DEF SendMessage, rows, StatesOK, Unused
    <2>3. SendingOK'
      BY <1>0, <1>1 DEF SendMessage, Subscribers, LockedSubscriptions, rows, TypeOK,
         SendingOK
    <2>4. KeysOK'
      BY <1>0, <1>1 DEF SendMessage, KeyIsFree, rows, TypeOK, KeysOK, Holds
    <2>. QED BY <2>1, <2>2, <2>3, <2>4 DEF Inv
  <1>2. ASSUME NEW m \in Messages, CompleteProcessInstance(m) PROVE Inv'
    <2>1. TypeOK' /\ WaitsOK'
      BY <1>0, <1>2 DEF CompleteProcessInstance, Done, TypeOK, MessageState, WaitsOK
    <2>2. TasksOK'
      BY <1>0, <1>2 DEF CompleteProcessInstance, Done, TypeOK, TasksOK, Task
    <2>3. StatesOK'
      BY <1>0, <1>2 DEF CompleteProcessInstance, Done, TypeOK, StatesOK, Unused
    <2>4. SendingOK'
      BY <1>0, <1>2 DEF CompleteProcessInstance, Done, TypeOK, SendingOK, StatesOK, Unused
    <2>5. LookingOK'
      BY <1>0, <1>2 DEF CompleteProcessInstance, Done, TypeOK, LookingOK, Look, StatesOK,
         Unused
    <2>6. KeysOK'
      BY <1>0, <1>2 DEF CompleteProcessInstance, Done, TypeOK, KeysOK, Holds
    <2>. QED BY <2>1, <2>2, <2>3, <2>4, <2>5, <2>6 DEF Inv
  <1>3. ASSUME NEW m \in Messages, Expire(m) PROVE Inv'
    <2>1. TypeOK' /\ WaitsOK'
      BY <1>0, <1>3 DEF Expire, TypeOK, MessageState, WaitsOK
    <2>2. TasksOK'
      BY <1>0, <1>3 DEF Expire, TasksOK
    <2>3. StatesOK'
      BY <1>0, <1>3 DEF Expire, StatesOK, Unused
    <2>4. SendingOK'
      BY <1>0, <1>3 DEF Expire, SendingOK
    <2>5. LookingOK'
      BY <1>0, <1>3 DEF Expire, LookingOK
    <2>6. KeysOK'
      BY <1>0, <1>3 DEF Expire, KeysOK, Holds
    <2>. QED BY <2>1, <2>2, <2>3, <2>4, <2>5, <2>6 DEF Inv
  <1>4. ASSUME NEW m \in Messages, RollbackMessage(m) PROVE Inv'
    <2>1. TypeOK' /\ TasksOK' /\ WaitsOK' /\ LookingOK'
      BY <1>0, <1>4 DEF RollbackMessage, rows, TypeOK, TasksOK, WaitsOK, LookingOK
    <2>2. StatesOK'
      BY <1>0, <1>4 DEF RollbackMessage, rows, StatesOK, Unused, SendingOK
    <2>3. SendingOK'
      BY <1>0, <1>4 DEF RollbackMessage, rows, SendingOK
    <2>4. KeysOK'
      BY <1>0, <1>4 DEF RollbackMessage, rows, KeysOK, Holds
    <2>. QED BY <2>1, <2>2, <2>3, <2>4 DEF Inv
  <1>5. ASSUME NEW e \in Executions, SubscribeMessage(e) PROVE Inv'
    <2>1. TasksOK' /\ StatesOK' /\ WaitsOK' /\ SendingOK' /\ KeysOK'
      BY <1>0, <1>5 DEF SubscribeMessage, LookFor, rows, TasksOK, StatesOK, WaitsOK, Unused,
         SendingOK, KeysOK, Holds
    <2>2. TypeOK'
      BY <1>0, <1>5 DEF SubscribeMessage, LookFor, Buffered, rows, TypeOK, Look
    <2>3. LookingOK'
      BY <1>0, <1>5 DEF SubscribeMessage, LookFor, Buffered, LockedMessages, rows, TypeOK,
         LookingOK
    <2>. QED BY <2>1, <2>2, <2>3 DEF Inv
  <1>6. ASSUME NEW e \in Executions, EndExecution(e) PROVE Inv'
    <2>1. TypeOK' /\ StatesOK' /\ KeysOK'
      BY <1>0, <1>6 DEF EndExecution, TypeOK, StatesOK, Unused, KeysOK, Holds
    <2>2. TasksOK'
      BY <1>0, <1>6 DEF EndExecution, TasksOK
    <2>3. WaitsOK'
      BY <1>0, <1>6 DEF EndExecution, TypeOK, WaitsOK
    <2>4. SendingOK'
      BY <1>0, <1>6 DEF EndExecution, LockedSubscriptions, SendingOK
    <2>5. LookingOK'
      BY <1>0, <1>6 DEF EndExecution, LookingOK
    <2>. QED BY <2>1, <2>2, <2>3, <2>4, <2>5 DEF Inv
  <1>7. ASSUME NEW e \in Executions, RollbackExecution(e) PROVE Inv'
    <2>1. TasksOK' /\ StatesOK' /\ WaitsOK' /\ SendingOK' /\ KeysOK'
      BY <1>0, <1>7 DEF RollbackExecution, rows, TasksOK, StatesOK, WaitsOK, Unused,
         SendingOK, KeysOK, Holds
    <2>2. TypeOK'
      BY <1>0, <1>7 DEF RollbackExecution, rows, TypeOK
    <2>3. LookingOK'
      BY <1>0, <1>7 DEF RollbackExecution, rows, LookingOK
    <2>. QED BY <2>1, <2>2, <2>3 DEF Inv
  <1>8. ASSUME NEW t \in tasks, TriggerMessageEvent(t) PROVE Inv'
    <2>1. TypeOK'
      BY <1>0, <1>8 DEF TriggerMessageEvent, Done, Counted, TypeOK, MessageState, Task
    <2>2. TasksOK'
      BY <1>0, <1>8 DEF TriggerMessageEvent, Done, Counted, TasksOK
    <2>3. StatesOK'
      BY <1>0, <1>8 DEF TriggerMessageEvent, Done, Counted, TypeOK, TasksOK, StatesOK,
         Unused
    <2>4. WaitsOK'
      BY <1>0, <1>8 DEF TriggerMessageEvent, TypeOK, TasksOK, WaitsOK
    <2>5. SendingOK'
      BY <1>0, <1>8 DEF TriggerMessageEvent, Done, SendingOK, TasksOK
    <2>6. LookingOK'
      BY <1>0, <1>8 DEF TriggerMessageEvent, Done, LookingOK, TasksOK, TaskOf
    <2>7. KeysOK'
      BY <1>0, <1>8 DEF TriggerMessageEvent, Done, KeysOK, Holds
    <2>. QED BY <2>1, <2>2, <2>3, <2>4, <2>5, <2>6, <2>7 DEF Inv
  <1>9. ASSUME NEW t \in tasks, TriggerMessageBoundaryEvent(t) PROVE Inv'
    <2>1. PICK e \in Repeating, b \in Messages :
            e \in Executions /\ t.execution = e /\ t.message = b /\ t = TaskOf(b, e)
      BY <1>0, <1>9 DEF TriggerMessageBoundaryEvent, TypeOK, Task, TaskOf
    <2>2. /\ mode[e] = "WAIT" /\ looking[e] = Null
          /\ UNCHANGED <<serialized, rows, key, timed, mode, instances, defined, sending, triggered,
                         failed>>
      BY <1>9, <2>1 DEF TriggerMessageBoundaryEvent, LookFor
    <2>3. PICK found \in Messages \cup {Nothing} :
            /\ looking' = [looking EXCEPT ![e] = [found |-> found, by |-> b]]
            /\ found # Nothing => found \in Buffered
      BY <1>9, <2>1 DEF TriggerMessageBoundaryEvent, LookFor, Buffered
    <2>4. TypeOK'
      <3>1. [found |-> found, by |-> b] \in Look
        BY <2>1, <2>3 DEF Look
      <3>. QED BY <1>0, <2>1, <2>2, <2>3, <3>1 DEF rows, TypeOK
    <2>5. TasksOK' /\ StatesOK' /\ WaitsOK' /\ SendingOK' /\ KeysOK'
      BY <1>0, <2>2 DEF rows, TasksOK, StatesOK, Unused, WaitsOK, SendingOK, KeysOK, Holds
    <2>6. LookingOK'
      <3>1. /\ looking'[e].found = found /\ looking'[e].by = b
            /\ \A f \in Executions : f # e => looking'[f] = looking[f]
        BY <1>0, <2>1, <2>3 DEF TypeOK
      <3>2. found # Nothing =>
              /\ state[found] = "BUFFERED"
              /\ \A f \in Executions : looking[f] # Null => looking[f].found # found
        BY <2>3 DEF Buffered, LockedMessages
      <3>. QED BY <1>0, <2>1, <2>2, <3>1, <3>2 DEF rows, LookingOK
    <2>. QED BY <2>4, <2>5, <2>6 DEF Inv
  <1>10. ASSUME NEW t \in tasks, TriggerMessageStartEvent(t) PROVE Inv'
    <2>1. TypeOK'
      BY <1>0, <1>10 DEF TriggerMessageStartEvent, Started, Done, Counted, TypeOK,
         MessageState, Task
    <2>2. TasksOK'
      BY <1>0, <1>10 DEF TriggerMessageStartEvent, Started, Done, Counted, TasksOK
    <2>3. StatesOK'
      BY <1>0, <1>10 DEF TriggerMessageStartEvent, Started, Done, Counted, TypeOK, TasksOK,
         StatesOK, Unused
    <2>4. WaitsOK'
      BY <1>0, <1>10 DEF TriggerMessageStartEvent, WaitsOK
    <2>5. SendingOK'
      BY <1>0, <1>10 DEF TriggerMessageStartEvent, Started, Done, SendingOK, TasksOK
    <2>6. LookingOK'
      BY <1>0, <1>10 DEF TriggerMessageStartEvent, Started, Done, LookingOK, TasksOK, TaskOf
    <2>7. KeysOK'
      BY <1>0, <1>10 DEF TriggerMessageStartEvent, Started, Done, KeysOK, Holds
    <2>. QED BY <2>1, <2>2, <2>3, <2>4, <2>5, <2>6, <2>7 DEF Inv
  <1>11. ASSUME NEW t \in tasks, CancelTask(t) PROVE Inv'
    <2>1. TypeOK'
      BY <1>0, <1>11 DEF CancelTask, Done, TypeOK, MessageState
    <2>2. TasksOK'
      BY <1>0, <1>11 DEF CancelTask, Done, TasksOK
    <2>3. StatesOK'
      BY <1>0, <1>11 DEF CancelTask, Done, TypeOK, TasksOK, StatesOK, Unused
    <2>4. WaitsOK'
      BY <1>0, <1>11 DEF CancelTask, WaitsOK
    <2>5. SendingOK'
      BY <1>0, <1>11 DEF CancelTask, Done, SendingOK, TasksOK
    <2>6. LookingOK'
      BY <1>0, <1>11 DEF CancelTask, Done, LookingOK, TasksOK, TaskOf
    <2>7. KeysOK'
      BY <1>0, <1>11 DEF CancelTask, Done, KeysOK, Holds
    <2>. QED BY <2>1, <2>2, <2>3, <2>4, <2>5, <2>6, <2>7 DEF Inv
  <1>12. ASSUME NEW m \in Messages, CommitMessage(m) PROVE Inv'
    <2>1. /\ sending[m] # Null /\ state[m] = "NONE" /\ m \notin instances
          /\ triggered[m] = 0 /\ \A t \in tasks : t.message # m
      BY <1>0, <1>12 DEF CommitMessage, SendingOK, StatesOK, TasksOK, Unused
    <2>2. TypeOK' /\ SendingOK' /\ KeysOK'
      <3>1. TypeOK'
        BY <1>0, <1>12 DEF CommitMessage, TypeOK, MessageState, Task, TaskOf
      <3>2. SendingOK'
        BY <1>0, <1>12 DEF CommitMessage, TypeOK, SendingOK
      <3>3. KeysOK'
        BY <1>0, <1>12 DEF CommitMessage, TypeOK, KeysOK, Holds
      <3>. QED BY <3>1, <3>2, <3>3
    <2>3. /\ UNCHANGED <<timed, mode, instances, looking, triggered>>
          /\ \A n \in Messages : n # m => state'[n] = state[n]
      BY <1>0, <1>12 DEF CommitMessage, TypeOK
    <2>4. CASE sending[m] = Nothing
      <3>1. state'[m] \in {"BUFFERED", "EXPIRED"} /\ UNCHANGED <<subscriptions, tasks>>
        BY <1>0, <1>12, <2>4 DEF CommitMessage, TypeOK
      <3>2. TasksOK' /\ WaitsOK'
        BY <1>0, <2>1, <2>3, <3>1 DEF TypeOK, Task, TasksOK, WaitsOK
      <3>3. StatesOK'
        BY <1>0, <2>1, <2>3, <3>1 DEF TypeOK, StatesOK, Unused
      <3>4. LookingOK'
        BY <1>0, <2>1, <2>3, <3>1 DEF TypeOK, Look, LookingOK
      <3>. QED BY <1>0, <2>2, <3>2, <3>3, <3>4 DEF Inv
    <2>5. CASE sending[m] # Nothing
      <3>1. PICK x \in Executions \cup {Start}, t \in Task :
              /\ x = sending[m] /\ t = TaskOf(m, x)
              /\ t.message = m /\ t.execution = x
        <4>1. sending[m] \in Executions \cup {Start}
          BY <1>0, <2>1, <2>5 DEF TypeOK
        <4>. QED BY <4>1, TaskOfFacts
      <3>2. /\ state'[m] = "CORRELATED" /\ tasks' = tasks \cup {t}
            /\ subscriptions' = subscriptions \ {x}
        BY <1>0, <1>12, <2>5, <3>1 DEF CommitMessage, TypeOK
      <3>3. x # Start => /\ x \in subscriptions /\ mode[x] = "WAIT"
                         /\ \A s \in tasks : s.execution # x
        BY <1>0, <3>1 DEF SendingOK, WaitsOK, TasksOK
      <3>4. TasksOK'
        BY <1>0, <2>1, <2>3, <3>1, <3>2, <3>3 DEF TypeOK, Task, TasksOK
      <3>5. StatesOK'
        BY <1>0, <2>1, <2>3, <3>1, <3>2 DEF TypeOK, StatesOK, Unused
      <3>6. WaitsOK'
        BY <1>0, <2>3, <3>1, <3>2 DEF TypeOK, WaitsOK
      <3>7. LookingOK'
        BY <1>0, <2>1, <2>3, <3>2 DEF TypeOK, Look, LookingOK
      <3>. QED BY <2>2, <3>4, <3>5, <3>6, <3>7 DEF Inv
    <2>. QED BY <2>4, <2>5
  <1>13. ASSUME NEW e \in Executions, CommitSubscription(e) PROVE Inv'
    <2>1. /\ looking[e] # Null /\ looking[e].by = Null /\ mode[e] = "JOB"
          /\ e \notin subscriptions /\ \A t \in tasks : t.execution # e
      BY <1>0, <1>13 DEF CommitSubscription, LookingOK, WaitsOK, TasksOK
    <2>2. /\ mode' = [mode EXCEPT ![e] = "WAIT"] /\ looking' = [looking EXCEPT ![e] = Null]
          /\ UNCHANGED <<key, timed, instances, defined, sending, triggered, failed>>
      BY <1>13 DEF CommitSubscription
    <2>3. TypeOK'
      BY <1>0, <1>13 DEF CommitSubscription, Correlated, TypeOK, MessageState, Task, TaskOf,
         Look
    <2>4. CASE looking[e].found = Nothing
      <3>1. UNCHANGED <<state, tasks>> /\ subscriptions' = subscriptions \cup {e}
        BY <1>13, <2>4 DEF CommitSubscription, Correlated
      <3>2. TasksOK'
        BY <1>0, <2>1, <2>2, <3>1 DEF TypeOK, Task, TasksOK
      <3>3. StatesOK' /\ SendingOK' /\ KeysOK'
        BY <1>0, <2>2, <3>1 DEF StatesOK, Unused, SendingOK, KeysOK, Holds
      <3>4. WaitsOK'
        BY <1>0, <2>2, <3>1 DEF TypeOK, WaitsOK
      <3>5. LookingOK'
        BY <1>0, <2>2, <3>1 DEF TypeOK, LookingOK
      <3>. QED BY <2>3, <3>2, <3>3, <3>4, <3>5 DEF Inv
    <2>5. CASE looking[e].found # Nothing
      <3>1. PICK m \in Messages, t \in Task :
              /\ m = looking[e].found /\ t = TaskOf(m, e)
              /\ t.message = m /\ t.execution = e
        <4>1. looking[e].found \in Messages
          BY <1>0, <2>1, <2>5 DEF TypeOK, Look
        <4>. QED BY <4>1, TaskOfFacts
      <3>2. /\ state[m] \in {"BUFFERED", "EXPIRED"} /\ sending[m] = Null
            /\ m \notin instances /\ triggered[m] = 0
            /\ \A s \in tasks : s.message # m
        BY <1>0, <2>1, <3>1 DEF LookingOK, SendingOK, StatesOK, TasksOK, Unused
      <3>3. /\ state' = [state EXCEPT ![m] = "CORRELATED"]
            /\ tasks' = tasks \cup {t} /\ UNCHANGED subscriptions
        BY <1>13, <2>5, <3>1 DEF CommitSubscription, Correlated
      <3>4. TasksOK'
        BY <1>0, <2>1, <2>2, <3>1, <3>2, <3>3 DEF TypeOK, Task, TasksOK
      <3>5. StatesOK'
        BY <1>0, <2>2, <3>1, <3>2, <3>3 DEF TypeOK, StatesOK, Unused
      <3>6. WaitsOK'
        BY <1>0, <2>2, <3>1, <3>3 DEF TypeOK, WaitsOK
      <3>7. SendingOK' /\ KeysOK'
        BY <1>0, <2>2, <3>2, <3>3 DEF TypeOK, SendingOK, KeysOK, Holds
      <3>8. LookingOK'
        BY <1>0, <2>1, <2>2, <3>1, <3>2, <3>3 DEF TypeOK, Look, LookingOK
      <3>. QED BY <2>3, <3>4, <3>5, <3>6, <3>7, <3>8 DEF Inv
    <2>. QED BY <2>4, <2>5
  <1>14. ASSUME NEW e \in Executions, CommitTrigger(e) PROVE Inv'
    <2>1. PICK b \in Messages, old \in tasks :
            /\ looking[e] # Null /\ looking[e].by = b /\ old = TaskOf(b, e)
            /\ old.message = b /\ old.execution = e
      <3>1. /\ looking[e] # Null /\ looking[e].by \in Messages
            /\ TaskOf(looking[e].by, e) \in tasks
        BY <1>0, <1>14 DEF CommitTrigger, LookingOK, TypeOK, Look
      <3>. QED BY <3>1, TaskOfFacts
    <2>2. /\ mode[e] = "WAIT" /\ e \in Repeating /\ e \notin subscriptions
          /\ state[b] = "CORRELATED" /\ triggered[b] = 0 /\ b \notin instances
          /\ sending[b] = Null
          /\ \A t \in tasks \ {old} : t.message # b /\ t.execution # e
      BY <1>0, <2>1 DEF LookingOK, TasksOK, SendingOK
    <2>3. /\ triggered' = [triggered EXCEPT ![b] = @ + 1]
          /\ looking' = [looking EXCEPT ![e] = Null]
          /\ UNCHANGED <<key, timed, mode, instances, defined, sending, failed>>
      BY <1>14, <2>1 DEF CommitTrigger, Counted
    <2>4. TypeOK'
      BY <1>0, <1>14 DEF CommitTrigger, Correlated, Done, Counted, TypeOK, MessageState,
         Task, TaskOf, Look
    <2>5. CASE looking[e].found = Nothing
      <3>1. /\ state' = [state EXCEPT ![b] = "DONE"] /\ tasks' = tasks \ {old}
            /\ subscriptions' = subscriptions \cup {e}
        BY <1>14, <2>1, <2>5 DEF CommitTrigger, Correlated, Done
      <3>2. TasksOK'
        BY <1>0, <2>2, <2>3, <3>1 DEF TypeOK, Task, TasksOK
      <3>3. StatesOK'
        BY <1>0, <2>1, <2>2, <2>3, <3>1 DEF TypeOK, StatesOK, Unused
      <3>4. WaitsOK'
        BY <1>0, <2>1, <2>2, <2>3, <3>1 DEF TypeOK, WaitsOK
      <3>5. SendingOK' /\ KeysOK'
        BY <1>0, <2>2, <2>3, <3>1 DEF TypeOK, SendingOK, KeysOK, Holds
      <3>6. LookingOK'
        <4>1. ASSUME NEW f \in Executions, f # e, looking[f] # Null, looking[f].by # Null
              PROVE  TaskOf(looking[f].by, f) # old
          BY <2>1, <4>1 DEF TaskOf
        <4>. QED BY <1>0, <2>2, <2>3, <3>1, <4>1 DEF TypeOK, Look, LookingOK
      <3>. QED BY <2>4, <3>2, <3>3, <3>4, <3>5, <3>6 DEF Inv
    <2>6. CASE looking[e].found # Nothing
      <3>1. PICK m \in Messages, t \in Task :
              /\ m = looking[e].found /\ t = TaskOf(m, e)
              /\ t.message = m /\ t.execution = e
        <4>1. looking[e].found \in Messages
          BY <1>0, <2>1, <2>6 DEF TypeOK, Look
        <4>. QED BY <4>1, TaskOfFacts
      <3>2. /\ state[m] \in {"BUFFERED", "EXPIRED"} /\ sending[m] = Null /\ m # b
            /\ m \notin instances /\ triggered[m] = 0
            /\ \A s \in tasks : s.message # m
        BY <1>0, <2>1, <2>2, <3>1 DEF LookingOK, SendingOK, StatesOK, TasksOK, Unused
      <3>3. /\ state' = [state EXCEPT ![b] = "DONE", ![m] = "CORRELATED"]
            /\ tasks' = (tasks \ {old}) \cup {t} /\ UNCHANGED subscriptions
        BY <1>14, <2>1, <2>6, <3>1 DEF CommitTrigger, Correlated, Done
      <3>4. /\ state'[b] = "DONE" /\ state'[m] = "CORRELATED"
            /\ \A n \in Messages \ {b, m} : state'[n] = state[n]
        BY <1>0, <3>2, <3>3 DEF TypeOK
      <3>5. TasksOK'
        BY <1>0, <2>2, <2>3, <3>1, <3>2, <3>3, <3>4 DEF TypeOK, Task, TasksOK
      <3>6. StatesOK'
        BY <1>0, <2>1, <2>2, <2>3, <3>1, <3>2, <3>3, <3>4 DEF TypeOK, StatesOK, Unused
      <3>7. WaitsOK'
        BY <1>0, <2>1, <2>2, <2>3, <3>1, <3>3 DEF TypeOK, WaitsOK
      <3>8. SendingOK' /\ KeysOK'
        BY <1>0, <2>2, <2>3, <3>2, <3>3, <3>4 DEF TypeOK, SendingOK, KeysOK, Holds
      <3>9. LookingOK'
        <4>1. ASSUME NEW f \in Executions, f # e, looking[f] # Null, looking[f].by # Null
              PROVE  TaskOf(looking[f].by, f) # old
          BY <2>1, <4>1 DEF TaskOf
        <4>. QED BY <1>0, <2>1, <2>2, <2>3, <3>1, <3>2, <3>3, <3>4, <4>1
             DEF TypeOK, Look, LookingOK
      <3>. QED BY <2>4, <3>5, <3>6, <3>7, <3>8, <3>9 DEF Inv
    <2>. QED BY <2>5, <2>6
  <1>15. CASE CreateProcess
    <2>1. TypeOK' /\ TasksOK' /\ StatesOK' /\ WaitsOK' /\ SendingOK' /\ LookingOK' /\ KeysOK'
      BY <1>0, <1>15 DEF CreateProcess, rows, TypeOK, TasksOK, StatesOK, WaitsOK, Unused,
         SendingOK, LookingOK, KeysOK, Holds
    <2>. QED BY <2>1 DEF Inv
  <1>16. CASE PurgeMessages
    <2>1. TypeOK' /\ WaitsOK'
      BY <1>0, <1>16 DEF PurgeMessages, TypeOK, MessageState, WaitsOK
    <2>2. TasksOK'
      BY <1>0, <1>16 DEF PurgeMessages, Purgeable, TypeOK, TasksOK, Task
    <2>3. StatesOK'
      BY <1>0, <1>16 DEF PurgeMessages, Purgeable, TypeOK, StatesOK, Unused
    <2>4. SendingOK'
      BY <1>0, <1>16 DEF PurgeMessages, Purgeable, SendingOK
    <2>5. LookingOK'
      BY <1>0, <1>16 DEF PurgeMessages, Purgeable, LockedMessages, TypeOK, LookingOK, Look
    <2>6. KeysOK'
      BY <1>0, <1>16 DEF PurgeMessages, KeysOK, Holds
    <2>. QED BY <2>1, <2>2, <2>3, <2>4, <2>5, <2>6 DEF Inv
  <1>17. CASE UNCHANGED vars
    BY <1>0, <1>17 DEF vars, rows, Inv, TypeOK, TasksOK, StatesOK, WaitsOK, SendingOK,
       LookingOK, KeysOK, Unused, Holds
  <1>. QED BY <1>1, <1>2, <1>3, <1>4, <1>5, <1>6, <1>7, <1>8, <1>9, <1>10, <1>11,
       <1>12, <1>13, <1>14, <1>15, <1>16, <1>17 DEF Next, Commit, ExecuteTask

LEMMA Invariance == Spec => []Inv
  BY InitInv, NextInv, PTL DEF Spec

(* Messages, subscriptions and tasks keep their types in every interleaving. *)
THEOREM MessagesTypeCorrect == Spec => []TypeOK
  <1>1. Inv => TypeOK
    BY DEF Inv
  <1>. QED BY <1>1, Invariance, PTL

(* A set whose members are all the same has one member at most. *)
LEMMA AtMostOne ==
  ASSUME NEW S, \A s, t \in S : s = t
  PROVE  IsFiniteSet(S) /\ Cardinality(S) \in {0, 1} /\ (S # {} => Cardinality(S) = 1)
  <1>1. CASE S = {}
    BY <1>1, FS_EmptySet
  <1>2. CASE S # {}
    <2>1. PICK s \in S : S = {s}
      BY <1>2
    <2>. QED BY <2>1, FS_Singleton
  <1>. QED BY <1>1, <1>2

(* A message triggers one event at most, and is kept for the one task or     *)
(* instance that needs it, whoever sends, subscribes and purges meanwhile.   *)
THEOREM MessageCorrelatedOnce == Spec => []CorrelatedOnce
  <1>1. Inv => CorrelatedOnce
    <2>. SUFFICES ASSUME Inv, NEW m \in Messages
                  PROVE  /\ triggered[m] + Cardinality(TasksOf(m)) <= 1
                         /\ state[m] = "CORRELATED" <=>
                              TasksOf(m) # {} \/ m \in instances \ timed
                         /\ m \in instances => TasksOf(m) = {}
      BY DEF CorrelatedOnce
    <2>1. \A s, t \in TasksOf(m) : s = t
      BY DEF Inv, TasksOK, TasksOf
    <2>2. Cardinality(TasksOf(m)) \in {0, 1}
      BY <2>1, AtMostOne, Zenon
    <2>3. TasksOf(m) # {} => triggered[m] = 0
      BY DEF Inv, TasksOK, TasksOf
    <2>4. triggered[m] \in {0, 1}
      BY DEF Inv, StatesOK
    <2>5. TasksOf(m) = {} => Cardinality(TasksOf(m)) = 0
      BY FS_EmptySet, Zenon
    <2>6. triggered[m] + Cardinality(TasksOf(m)) <= 1
      BY ONLY <2>2, <2>3, <2>4, <2>5
    <2>7. state[m] = "CORRELATED" <=> TasksOf(m) # {} \/ m \in instances \ timed
      BY DEF Inv, TasksOK, StatesOK, TasksOf
    <2>8. m \in instances => TasksOf(m) = {}
      BY DEF Inv, TasksOK, TasksOf
    <2>. QED BY <2>6, <2>7, <2>8
  <1>. QED BY <1>1, Invariance, PTL

(* An execution that waits has a subscription or a message, not both, and    *)
(* one that does not wait has no subscription.                               *)
THEOREM ExecutionWaitsForOne == Spec => []WaitsForOne
  <1>1. Inv => WaitsForOne
    <2>. SUFFICES ASSUME Inv, NEW e \in Executions, NEW due,
                         due = {t \in tasks : t.execution = e}
                  PROVE  /\ mode[e] = "WAIT" =>
                              IF e \in subscriptions THEN due = {} ELSE Cardinality(due) = 1
                         /\ mode[e] # "WAIT" => e \notin subscriptions
                         /\ mode[e] = "JOB" => due = {}
      BY DEF WaitsForOne
    <2>0. e # Start
      BY MessagesAssumption
    <2>1. \A s, t \in due : s = t
      BY <2>0 DEF Inv, TasksOK
    <2>2. due # {} => Cardinality(due) = 1
      BY <2>1, AtMostOne, Zenon
    <2>3. /\ e \in subscriptions => due = {} /\ mode[e] = "WAIT"
          /\ mode[e] = "JOB" => due = {}
          /\ mode[e] = "WAIT" => e \in subscriptions \/ due # {}
      BY <2>0 DEF Inv, TasksOK, WaitsOK
    <2>. QED BY <2>2, <2>3
  <1>. QED BY <1>1, Invariance, PTL

(* Of the instances that hold the unique key of the message that started     *)
(* them, one at most is active for each key.                                 *)
THEOREM InstancesAreUnique == Spec => []UniqueInstances
  <1>1. Inv => UniqueInstances
    BY DEF Inv, TypeOK, StatesOK, KeysOK, Holds, UniqueInstances
  <1>. QED BY <1>1, Invariance, PTL
-----------------------------------------------------------------------------

(* Under the mutex one transaction runs at most, *)
OneRuns ==
  /\ \A m, n \in Messages : sending[m] # Null /\ sending[n] # Null => m = n
  /\ \A e, f \in Executions : looking[e] # Null /\ looking[f] # Null => e = f
  /\ \A m \in Messages, e \in Executions : sending[m] = Null \/ looking[e] = Null

NoneBuffered == \A m \in Messages : state[m] # "BUFFERED"

(* so that what it has not found is still not there when it commits: no       *)
(* message is ever buffered next to a subscription.                           *)
NotFoundOK ==
  /\ \A m \in Messages : sending[m] = Nothing => subscriptions = {}
  /\ \A e \in Executions : looking[e] # Null /\ looking[e].found = Nothing => NoneBuffered
  /\ NoneBuffered \/ subscriptions = {}

MutexOK == serialized => OneRuns /\ NotFoundOK

LEMMA NextMutex == Inv /\ MutexOK /\ [Next]_vars => MutexOK'
  <1>. SUFFICES ASSUME Inv, MutexOK, [Next]_vars, serialized'
                PROVE  OneRuns' /\ NotFoundOK'
    BY DEF MutexOK
  <1>. USE MessagesAssumption
  <1>0. /\ serialized /\ UNCHANGED serialized /\ OneRuns /\ NotFoundOK
        /\ TypeOK /\ LookingOK /\ SendingOK
    <2>1. UNCHANGED serialized
      BY DEF Next, Commit, ExecuteTask, SendMessage, CompleteProcessInstance, Expire,
             RollbackMessage, SubscribeMessage, LookFor, EndExecution, RollbackExecution,
             TriggerMessageEvent, TriggerMessageBoundaryEvent, TriggerMessageStartEvent,
             CancelTask, CommitMessage, CommitSubscription, CommitTrigger, CreateProcess,
             PurgeMessages, vars
    <2>. QED BY <2>1 DEF Inv, MutexOK
  (* Steps that begin and end no transaction, buffer nothing and subscribe nobody. *)
  <1>1. ASSUME UNCHANGED <<sending, looking>>, subscriptions' \subseteq subscriptions,
               \A m \in Messages : state'[m] = "BUFFERED" => state[m] = "BUFFERED"
        PROVE  OneRuns' /\ NotFoundOK'
    BY <1>0, <1>1 DEF OneRuns, NotFoundOK, NoneBuffered
  <1>2. ASSUME NEW m \in Messages, CompleteProcessInstance(m) \/ Expire(m)
        PROVE  OneRuns' /\ NotFoundOK'
    <2>1. \A n \in Messages : state'[n] = "BUFFERED" => state[n] = "BUFFERED"
      BY <1>0, <1>2 DEF CompleteProcessInstance, Expire, Done, TypeOK
    <2>. QED BY <1>1, <1>2, <2>1 DEF CompleteProcessInstance, Expire
  <1>3. ASSUME NEW e \in Executions, EndExecution(e) PROVE OneRuns' /\ NotFoundOK'
    BY <1>1, <1>3 DEF EndExecution
  <1>4. ASSUME NEW t \in tasks,
               TriggerMessageEvent(t) \/ TriggerMessageStartEvent(t) \/ CancelTask(t)
        PROVE  OneRuns' /\ NotFoundOK'
    <2>1. \A n \in Messages : state'[n] = "BUFFERED" => state[n] = "BUFFERED"
      BY <1>0, <1>4 DEF TriggerMessageEvent, TriggerMessageStartEvent, CancelTask, Started,
                        Done, TypeOK, Task
    <2>. QED BY <1>1, <1>4, <2>1
             DEF TriggerMessageEvent, TriggerMessageStartEvent, CancelTask
  <1>5. CASE CreateProcess \/ UNCHANGED vars
    BY <1>1, <1>5 DEF CreateProcess, vars, rows
  <1>6. /\ ~PurgeMessages
        /\ \A m \in Messages : ~RollbackMessage(m)
        /\ \A e \in Executions : ~RollbackExecution(e)
    BY <1>0 DEF PurgeMessages, RollbackMessage, RollbackExecution
  <1>7. ASSUME NEW m \in Messages, NEW k \in Keys \cup {Null}, NEW hasTimer \in BOOLEAN,
               SendMessage(m, k, hasTimer)
        PROVE  OneRuns' /\ NotFoundOK'
    <2>1. Idle /\ LockedSubscriptions = {} /\ Subscribers = subscriptions
      BY <1>0, <1>7 DEF SendMessage, MayBegin, Idle, LockedSubscriptions, Subscribers
    <2>2. /\ \A n \in Messages : n # m => sending'[n] = Null
          /\ sending'[m] = Nothing => subscriptions = {}
          /\ UNCHANGED <<rows, looking>>
      BY <1>0, <1>7, <2>1 DEF SendMessage, Idle, TypeOK
    <2>. QED BY <1>0, <2>1, <2>2 DEF OneRuns, NotFoundOK, NoneBuffered, Idle, rows
  <1>8. ASSUME NEW e \in Executions, NEW by \in Messages \cup {Null}, LookFor(e, by)
        PROVE  OneRuns' /\ NotFoundOK'
    <2>1. Idle /\ LockedMessages = {} /\ Buffered = {m \in Messages : state[m] = "BUFFERED"}
      BY <1>0, <1>8 DEF LookFor, MayBegin, Idle, LockedMessages, Buffered
    <2>2. /\ \A f \in Executions : f # e => looking'[f] = Null
          /\ looking'[e].found = Nothing => NoneBuffered
          /\ UNCHANGED <<rows, sending>>
      BY <1>0, <1>8, <2>1 DEF LookFor, Idle, TypeOK, NoneBuffered
    <2>. QED BY <1>0, <2>1, <2>2 DEF OneRuns, NotFoundOK, NoneBuffered, Idle, rows
  <1>9. ASSUME NEW t \in tasks, TriggerMessageBoundaryEvent(t)
        PROVE  OneRuns' /\ NotFoundOK'
    BY <1>0, <1>8, <1>9 DEF TriggerMessageBoundaryEvent, TypeOK, Task
  <1>10. ASSUME NEW e \in Executions, SubscribeMessage(e) PROVE OneRuns' /\ NotFoundOK'
    BY <1>8, <1>10 DEF SubscribeMessage
  <1>11. ASSUME NEW m \in Messages, CommitMessage(m) PROVE OneRuns' /\ NotFoundOK'
    <2>1. /\ UNCHANGED looking /\ sending[m] # Null
          /\ \A n \in Messages : sending'[n] = Null
          /\ \A e \in Executions : looking[e] = Null
          /\ subscriptions' \subseteq subscriptions
      <3>1. /\ UNCHANGED looking /\ sending[m] # Null
            /\ sending' = [sending EXCEPT ![m] = Null]
            /\ subscriptions' \subseteq subscriptions
        BY <1>11 DEF CommitMessage
      <3>. QED BY <1>0, <3>1 DEF OneRuns, TypeOK
    <2>2. CASE sending[m] = Nothing
      <3>1. subscriptions = {} /\ subscriptions' = {}
        BY <1>0, <2>1, <2>2 DEF NotFoundOK
      <3>. QED BY <1>0, <2>1, <3>1 DEF OneRuns, NotFoundOK
    <2>3. CASE sending[m] # Nothing
      <3>1. \A n \in Messages : state'[n] = "BUFFERED" => state[n] = "BUFFERED"
        BY <1>0, <1>11, <2>3 DEF CommitMessage, TypeOK
      <3>. QED BY <1>0, <2>1, <3>1 DEF OneRuns, NotFoundOK, NoneBuffered
    <2>. QED BY <2>2, <2>3
  <1>12. ASSUME NEW e \in Executions, CommitSubscription(e) \/ CommitTrigger(e)
         PROVE  OneRuns' /\ NotFoundOK'
    <2>1. /\ UNCHANGED sending /\ looking[e] # Null
          /\ \A f \in Executions : looking'[f] = Null
          /\ \A m \in Messages : sending[m] = Null
      BY <1>0, <1>12 DEF CommitSubscription, CommitTrigger, OneRuns, TypeOK
    <2>2. \A n \in Messages : state'[n] = "BUFFERED" => state[n] = "BUFFERED"
      <3>1. looking[e].by # Null => looking[e].by \in Messages
        BY <1>0, <2>1 DEF TypeOK, Look
      <3>. QED BY <1>0, <1>12, <3>1
               DEF CommitSubscription, CommitTrigger, Correlated, Done, TypeOK
    <2>3. NoneBuffered \/ subscriptions' = subscriptions
      BY <1>0, <1>12, <2>1 DEF CommitSubscription, CommitTrigger, Correlated, NotFoundOK
    <2>. QED BY <1>0, <2>1, <2>2, <2>3 DEF OneRuns, NotFoundOK, NoneBuffered
  <1>. QED BY <1>2, <1>3, <1>4, <1>5, <1>6, <1>7, <1>9, <1>10, <1>11, <1>12
           DEF Next, Commit, ExecuteTask

(* Under the mutex of the in-memory engine a buffered message and a           *)
(* subscriber never miss each other.  Without it they do: what a transaction  *)
(* has not found it cannot lock.                                              *)
THEOREM NoMessageMissed == Spec => []NoMissedMessage
  <1>1. Init => MutexOK
    BY MessagesAssumption DEF Init, MutexOK, OneRuns, NotFoundOK, NoneBuffered
  <1>2. MutexOK => NoMissedMessage
    BY DEF MutexOK, NotFoundOK, NoneBuffered, NoMissedMessage, Buffered, Subscribers
  <1>. QED BY <1>1, <1>2, InitInv, NextInv, NextMutex, PTL DEF Spec
=============================================================================
