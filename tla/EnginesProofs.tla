--------------------------- MODULE EnginesProofs ---------------------------
(***************************************************************************)
(* Proofs about what the engines of one database share.                    *)
(*                                                                         *)
(* ProcessInstanceQueue, for any number of instances, any parallelisms and *)
(* any number of versions.                                                 *)
(*                                                                         *)
(* Tasks, for any number of engines, tasks, crashes and retries, if        *)
(* UnlockTasks is called for stopped engines only.                         *)
(***************************************************************************)
EXTENDS ProcessInstanceQueue, Tasks, FiniteSetTheorems, TLAPS

(* A queue row q describes the waiting line. *)
RowMatches(q) ==
  /\ q.queuedCount = Len(waiting)
  /\ q.head = IF waiting = <<>> THEN Null ELSE waiting[1]
  /\ q.tail = IF waiting = <<>> THEN Null ELSE waiting[Len(waiting)]

(* The element rows link the waiting line. *)
Linked ==
  /\ \A k \in 1..Len(waiting) :
       next[waiting[k]] = IF k = Len(waiting) THEN Null ELSE waiting[k + 1]
  /\ \A k, l \in 1..Len(waiting) : waiting[k] = waiting[l] => k = l

(* The element row of an instance to come links to nothing. *)
NewUnlinked == \A i \in Instances : state[i] = "NONE" => next[i] = Null

(* What a slot that is passed on does to the line and to the start tasks. *)
HeadStarted(tasks) ==
  /\ waiting # <<>>
  /\ waiting[1] \in Instances
  /\ startTasks' = [tasks EXCEPT ![waiting[1]] = @ + 1]
  /\ IsWaiting(waiting[1])
  /\ \A j \in Instances : IsWaiting(j)' <=> IsWaiting(j) /\ j # waiting[1]

NobodyStarted(tasks) == startTasks' = tasks /\ UNCHANGED waiting

LEMMA TailFacts ==
  ASSUME NEW S, NEW s \in Seq(S), Len(s) > 0
  PROVE  /\ Tail(s) \in Seq(S) /\ Len(Tail(s)) = Len(s) - 1
         /\ \A k \in 1..Len(s) - 1 : Tail(s)[k] = s[k + 1]
  OBVIOUS

LEMMA AppendFacts ==
  ASSUME NEW S, NEW s \in Seq(S), NEW e \in S
  PROVE  /\ Append(s, e) \in Seq(S) /\ Len(Append(s, e)) = Len(s) + 1
         /\ \A k \in 1..Len(s) : Append(s, e)[k] = s[k]
         /\ Append(s, e)[Len(s) + 1] = e
  OBVIOUS

LEMMA ListIsQueueParts == ListIsQueue <=> RowMatches(queue) /\ Linked
  BY DEF ListIsQueue, RowMatches, Linked

(* Taking the head off the list leaves a well-formed list. *)
LEMMA StartHeadList ==
  ASSUME NEW STATE q, q \in Queue, NEW STATE tasks, tasks \in [Instances -> Nat], TypeOK,
         RowMatches(q), Linked, MustDequeue(q), StartHead(q, tasks),
         UNCHANGED next
  PROVE  /\ queue' \in Queue /\ startTasks' \in [Instances -> Nat]
         /\ waiting' \in Seq(Instances)
         /\ ListIsQueue'
         /\ HeadStarted(tasks)
         /\ queue'.activeCount = q.activeCount + 1
         /\ queue'.parallelism = q.parallelism
  <1>. DEFINE n == Len(waiting)
  <1>1. /\ waiting \in Seq(Instances) /\ n \in Nat /\ n > 0 /\ waiting # <<>>
        /\ q.head = waiting[1] /\ q.head \in Instances
        /\ q.tail = waiting[n] /\ q.queuedCount = n
    BY DEF MustDequeue, RowMatches, TypeOK, Queue
  <1>0. n \in Nat /\ n > 0 /\ (n = 1 \/ n > 1)
    <2>1. \A m \in Nat : m > 0 => m = 1 \/ m > 1
      OBVIOUS
    <2>2. n \in Nat /\ n > 0
      BY <1>1
    <2>. QED BY ONLY <2>1, <2>2
  <1>2. /\ waiting' \in Seq(Instances) /\ Len(waiting') = n - 1
        /\ \A k \in 1..n - 1 : waiting'[k] = waiting[k + 1]
    BY <1>1, TailFacts DEF StartHead
  <1>3. next[q.head] \in Instances \cup {Null}
    BY <1>1 DEF TypeOK
  <1>4. /\ queue' \in Queue
        /\ queue'.head = next[q.head]
        /\ queue'.tail = IF next[q.head] = Null THEN Null ELSE q.tail
        /\ queue'.queuedCount = q.queuedCount - 1
        /\ queue'.activeCount = q.activeCount + 1
        /\ queue'.parallelism = q.parallelism
    BY <1>3 DEF StartHead, Popped, Queue
  <1>5. startTasks' \in [Instances -> Nat]
    BY <1>1 DEF StartHead
  <1>6. Linked'
    <2>1. ASSUME NEW k \in 1..Len(waiting')
          PROVE  next'[waiting'[k]] = IF k = Len(waiting') THEN Null ELSE waiting'[k + 1]
      <3>1. waiting'[k] = waiting[k + 1] /\ k + 1 \in 1..n
        BY <1>1, <1>2
      <3>2. next[waiting[k + 1]] = IF k + 1 = n THEN Null ELSE waiting[k + 2]
        BY <3>1 DEF Linked
      <3>3. CASE k + 1 = n
        BY <3>1, <3>2, <3>3, <1>2, <1>1
      <3>4. CASE k + 1 # n
        <4>1. k + 1 \in 1..n - 1 /\ k # Len(waiting')
          BY <3>1, <3>4, <1>1, <1>2
        <4>2. waiting'[k + 1] = waiting[(k + 1) + 1]
          BY <4>1, <1>2
        <4>. QED BY <4>1, <4>2, <3>1, <3>2, <3>4
      <3>. QED BY <3>3, <3>4
    <2>2. ASSUME NEW k \in 1..Len(waiting'), NEW l \in 1..Len(waiting'),
                 waiting'[k] = waiting'[l]
          PROVE  k = l
      <3>0. k \in 1..n - 1 /\ l \in 1..n - 1
        BY <1>2
      <3>1. waiting[k + 1] = waiting[l + 1]
        BY <1>2, <2>2, <3>0
      <3>4. k + 1 \in 1..n /\ l + 1 \in 1..n
        BY ONLY <1>0, <3>0
      <3>2. \A a, b \in 1..n : waiting[a] = waiting[b] => a = b
        BY DEF Linked
      <3>3. k + 1 = l + 1
        BY ONLY <3>1, <3>2, <3>4
      <3>. QED BY ONLY <3>0, <3>3, <1>0
    <2>. QED BY <2>1, <2>2 DEF Linked
  <1>7. RowMatches(queue)'
    <2>1. CASE n = 1
      <3>1. next[q.head] = Null
        BY <2>1, <1>1 DEF Linked
      <3>2. waiting' = <<>>
        BY <2>1, <1>2
      <3>. QED BY <3>1, <3>2, <1>4, <1>1, <2>1 DEF RowMatches
    <2>2. CASE n > 1
      <3>1. next[q.head] = waiting[2] /\ waiting[2] \in Instances
        BY <2>2, <1>1 DEF Linked
      <3>2. next[q.head] # Null
        BY <3>1, InstancesAssumption
      <3>3. waiting' # <<>> /\ 1 \in 1..n - 1 /\ n - 1 \in 1..n - 1
        BY <2>2, <1>2, <1>1
      <3>4. waiting'[1] = waiting[2] /\ waiting'[Len(waiting')] = waiting[n]
        BY <3>3, <1>2, <1>1
      <3>5. queue'.head = waiting'[1] /\ queue'.tail = waiting'[Len(waiting')]
        BY <3>1, <3>2, <3>4, <1>4, <1>1
      <3>6. queue'.queuedCount = Len(waiting')
        BY <1>4, <1>1, <1>2
      <3>. QED BY <3>3, <3>5, <3>6 DEF RowMatches
    <2>. QED BY <2>1, <2>2, <1>0
  <1>8. HeadStarted(tasks)
    <2>1. ASSUME NEW j \in Instances
          PROVE  IsWaiting(j)' <=> IsWaiting(j) /\ j # waiting[1]
      <3>1. ASSUME IsWaiting(j)' PROVE IsWaiting(j) /\ j # waiting[1]
        <4>1. PICK k \in 1..n - 1 : waiting'[k] = j
          BY <3>1, <1>2 DEF IsWaiting
        <4>2. k + 1 \in 1..n /\ 1 \in 1..n /\ waiting[k + 1] = j /\ k + 1 # 1
          <5>1. waiting[k + 1] = j
            BY <4>1, <1>2
          <5>2. k + 1 \in 1..n /\ 1 \in 1..n /\ k + 1 # 1
            BY ONLY <4>1, <1>0
          <5>. QED BY <5>1, <5>2
        <4>3. waiting[1] # j
          BY <4>2 DEF Linked
        <4>. QED BY <4>2, <4>3 DEF IsWaiting
      <3>2. ASSUME IsWaiting(j), j # waiting[1] PROVE IsWaiting(j)'
        <4>1. PICK k \in 1..n : waiting[k] = j
          BY <3>2 DEF IsWaiting
        <4>2. k - 1 \in 1..n - 1 /\ waiting'[k - 1] = waiting[(k - 1) + 1]
          BY <4>1, <3>2, <1>1, <1>2
        <4>. QED BY <4>1, <4>2, <1>2 DEF IsWaiting
      <3>. QED BY <3>1, <3>2
    <2>2. IsWaiting(waiting[1])
      BY <1>1 DEF IsWaiting
    <2>. QED BY <2>1, <2>2, <1>1 DEF HeadStarted, StartHead
  <1>9. ListIsQueue'
    BY <1>6, <1>7 DEF ListIsQueue, RowMatches, Linked
  <1>. QED BY <1>2, <1>4, <1>5, <1>8, <1>9

(* A slot given back is passed on, or left free because nobody may have it. *)
LEMMA ReleaseLine ==
  ASSUME NEW STATE q, q \in Queue, NEW STATE tasks, tasks \in [Instances -> Nat], TypeOK,
         RowMatches(q), Linked, Release(q, tasks), UNCHANGED next
  PROVE  /\ queue' \in Queue /\ startTasks' \in [Instances -> Nat]
         /\ waiting' \in Seq(Instances)
         /\ ListIsQueue'
         /\ \/ HeadStarted(tasks) /\ queue'.activeCount = q.activeCount
            \/ NobodyStarted(tasks) /\ queue'.activeCount = q.activeCount - 1
         /\ MustDequeue(queue') => MustDequeue(q)
  <1>. DEFINE released == [q EXCEPT !.activeCount = @ - 1]
  <1>1. /\ released.parallelism = q.parallelism /\ released.head = q.head
        /\ released.tail = q.tail /\ released.queuedCount = q.queuedCount
        /\ released.activeCount = q.activeCount - 1
    BY DEF Queue
  <1>2. released \in Queue
    BY DEF Queue
  <1>3. RowMatches(released)
    BY <1>1 DEF RowMatches
  <1>4. /\ q.parallelism \in Nat /\ q.activeCount \in Int /\ q.queuedCount \in Int
    BY ParallelismsAssumption DEF Queue
  <1>5. CASE MustDequeue(released) /\ StartHead(released, tasks)
    <2>1. /\ queue' \in Queue /\ startTasks' \in [Instances -> Nat]
          /\ waiting' \in Seq(Instances) /\ ListIsQueue' /\ HeadStarted(tasks)
          /\ queue'.activeCount = released.activeCount + 1
          /\ queue'.parallelism = released.parallelism
      BY <1>2, <1>3, <1>5, StartHeadList
    <2>2. MustDequeue(queue') => MustDequeue(q)
      BY <2>1, <1>1, <1>4, <1>5 DEF MustDequeue
    <2>. QED BY <2>1, <2>2, <1>1, <1>4
  <1>6. CASE ~MustDequeue(released) /\ queue' = released /\ NobodyStarted(tasks)
    <2>1. MustDequeue(queue') => MustDequeue(q)
      BY <1>6
    <2>2. ListIsQueue'
      BY <1>3, <1>6 DEF NobodyStarted, RowMatches, Linked, ListIsQueue
    <2>. QED BY <2>1, <2>2, <1>1, <1>2, <1>6 DEF NobodyStarted, TypeOK
  <1>. QED BY <1>5, <1>6 DEF Release, NobodyStarted

(* The row of a new instance that is not queued: nobody is waiting. *)
LEMMA EnqueuedActive ==
  ASSUME TypeOK, ListIsQueue, NEW i \in Instances, Enqueued(queue, i).head = Null
  PROVE  /\ Enqueued(queue, i) = WithActive(queue)
         /\ Enqueued(queue, i) \in Queue
         /\ RowMatches(Enqueued(queue, i))
         /\ waiting = <<>> /\ ~MustDequeue(Enqueued(queue, i))
         /\ Enqueued(queue, i).activeCount = queue.activeCount + 1
  <1>1. queue \in Queue /\ waiting \in Seq(Instances)
    BY DEF TypeOK
  <1>2. queue.head = Null /\ Enqueued(queue, i) = WithActive(queue)
    <2>. DEFINE head == IF queue.tail = Null /\ MustEnqueue(queue) THEN i ELSE queue.head
    <2>1. CASE head # Null
      BY <2>1 DEF Enqueued, WithQueued
    <2>2. CASE head = Null
      BY <2>2, InstancesAssumption DEF Enqueued
    <2>. QED BY <2>1, <2>2
  <1>3. waiting = <<>>
    <2>1. CASE waiting # <<>>
      <3>1. waiting[1] \in Instances
        BY <2>1, <1>1
      <3>. QED BY <3>1, <2>1, <1>2, InstancesAssumption DEF ListIsQueue
    <2>. QED BY <2>1
  <1>4. /\ WithActive(queue).queuedCount = queue.queuedCount
        /\ WithActive(queue).head = queue.head /\ WithActive(queue).tail = queue.tail
        /\ WithActive(queue).activeCount = queue.activeCount + 1
        /\ WithActive(queue) \in Queue
    BY <1>1 DEF WithActive, Queue
  <1>5. queue.queuedCount = 0
    BY <1>3 DEF ListIsQueue
  <1>. QED BY <1>2, <1>3, <1>4, <1>5 DEF RowMatches, ListIsQueue, MustDequeue

(* Queueing up appends to the line. *)
LEMMA QueueProcessInstanceLine ==
  ASSUME TypeOK, ListIsQueue, QueuedOnce, NewUnlinked, NEW i \in Instances,
         QueueProcessInstance(i)
  PROVE  /\ TypeOK' /\ ListIsQueue' /\ NewUnlinked'
         /\ queue'.activeCount = queue.activeCount
         /\ \A j \in Instances : IsWaiting(j)' <=> IsWaiting(j) \/ j = i
         /\ ~IsWaiting(i) /\ startTasks[i] = 0
         /\ MustDequeue(queue') => MustDequeue(queue)
  <1>. DEFINE n == Len(waiting)
  <1>0. queue \in Queue /\ waiting \in Seq(Instances) /\ n \in Nat
    BY DEF TypeOK
  <1>1. ~IsWaiting(i) /\ startTasks[i] = 0
    BY DEF QueueProcessInstance, QueuedOnce
  <1>2. /\ waiting' = Append(waiting, i) /\ waiting' \in Seq(Instances)
        /\ Len(waiting') = n + 1 /\ waiting'[n + 1] = i
        /\ \A k \in 1..n : waiting'[k] = waiting[k]
    BY <1>0, AppendFacts DEF QueueProcessInstance
  <1>3. /\ \A k \in 1..n : waiting[k] # i /\ waiting[k] \in Instances
        /\ \A k \in 1..n : IsWaiting(waiting[k])
    BY <1>0, <1>1 DEF IsWaiting
  <1>4. /\ queue.queuedCount = n /\ next \in [Instances -> Instances \cup {Null}]
        /\ queue.head = IF n = 0 THEN Null ELSE waiting[1]
        /\ queue.tail = IF n = 0 THEN Null ELSE waiting[n]
        /\ \A k \in 1..n : next[waiting[k]] = IF k = n THEN Null ELSE waiting[k + 1]
        /\ \A k, l \in 1..n : waiting[k] = waiting[l] => k = l
    BY <1>0 DEF ListIsQueue, TypeOK
  <1>5. /\ queue' = WithQueued(queue, i, IF n = 0 THEN i ELSE waiting[1])
        /\ n = 0 => MustEnqueue(queue)
    <2>1. CASE n = 0 /\ ~MustEnqueue(queue)
      <3>1. Enqueued(queue, i) = WithActive(queue)
        BY <2>1, <1>4 DEF Enqueued
      <3>2. WithActive(queue).head = Null
        BY <2>1, <1>4, <1>0 DEF WithActive, Queue
      <3>. QED BY <3>1, <3>2 DEF QueueProcessInstance
    <2>2. CASE n = 0 /\ MustEnqueue(queue)
      BY <2>2, <1>4, InstancesAssumption DEF Enqueued, QueueProcessInstance
    <2>3. CASE n # 0
      <3>1. waiting[1] # Null /\ waiting[n] # Null
        BY <2>3, <1>0, <1>3, InstancesAssumption
      <3>. QED BY <2>3, <3>1, <1>4 DEF Enqueued, QueueProcessInstance
    <2>. QED BY <2>1, <2>2, <2>3
  <1>6. /\ queue' \in Queue /\ queue'.queuedCount = n + 1
        /\ queue'.head = (IF n = 0 THEN i ELSE waiting[1]) /\ queue'.tail = i
        /\ queue'.activeCount = queue.activeCount
        /\ queue'.parallelism = queue.parallelism
    <2>1. n # 0 => waiting[1] \in Instances
      BY <1>0, <1>3
    <2>2. n \in Int /\ n + 1 \in Int
      BY <1>0
    <2>. QED BY <2>1, <2>2, <1>0, <1>4, <1>5 DEF WithQueued, Queue
  <1>7. RowMatches(queue)'
    <2>1. waiting' # <<>> /\ waiting'[Len(waiting')] = i
      BY <1>0, <1>2
    <2>2. waiting'[1] = IF n = 0 THEN i ELSE waiting[1]
      BY <1>0, <1>2
    <2>. QED BY <2>1, <2>2, <1>2, <1>6 DEF RowMatches
  <1>8. next' = IF n = 0 THEN next ELSE [next EXCEPT ![waiting[n]] = i]
    <2>1. CASE n = 0
      BY <2>1, <1>4 DEF QueueProcessInstance
    <2>2. CASE n # 0
      <3>1. waiting[n] # Null
        BY <2>2, <1>0, <1>3, InstancesAssumption
      <3>. QED BY <2>2, <3>1, <1>4 DEF QueueProcessInstance
    <2>. QED BY <2>1, <2>2
  <1>9. Linked'
    <2>1. next'[i] = Null
      <3>1. next[i] = Null
        BY DEF NewUnlinked, QueueProcessInstance
      <3>2. n # 0 => waiting[n] # i /\ waiting[n] \in Instances
        BY <1>0, <1>3
      <3>. QED BY <3>1, <3>2, <1>4, <1>8
    <2>2. ASSUME NEW k \in 1..n
          PROVE  next'[waiting[k]] = IF k = n THEN i ELSE waiting[k + 1]
      <3>1. n # 0 /\ n \in 1..n /\ waiting[k] \in Instances
        BY <1>0, <1>3
      <3>2. waiting[k] = waiting[n] => k = n
        BY <3>1, <1>4
      <3>. QED BY <3>1, <3>2, <1>4, <1>8
    <2>3. ASSUME NEW k \in 1..Len(waiting')
          PROVE  next'[waiting'[k]] = IF k = Len(waiting') THEN Null ELSE waiting'[k + 1]
      <3>1. CASE k = n + 1
        BY <3>1, <2>1, <1>2
      <3>2. CASE k \in 1..n
        <4>1. k # n + 1 /\ waiting'[k] = waiting[k]
          BY <3>2, <1>0, <1>2
        <4>2. waiting'[k + 1] = IF k = n THEN i ELSE waiting[k + 1]
          BY <3>2, <1>0, <1>2
        <4>. QED BY <4>1, <4>2, <3>2, <2>2, <1>2
      <3>. QED BY <3>1, <3>2, <1>0, <1>2
    <2>4. ASSUME NEW k \in 1..Len(waiting'), NEW l \in 1..Len(waiting'),
                 waiting'[k] = waiting'[l]
          PROVE  k = l
      <3>1. /\ k = n + 1 \/ (k \in 1..n /\ waiting'[k] = waiting[k] /\ waiting[k] # i)
            /\ l = n + 1 \/ (l \in 1..n /\ waiting'[l] = waiting[l] /\ waiting[l] # i)
        BY <1>0, <1>2, <1>3
      <3>. QED BY <3>1, <2>4, <1>2, <1>4
    <2>. QED BY <2>3, <2>4 DEF Linked
  <1>10. \A j \in Instances : IsWaiting(j)' <=> IsWaiting(j) \/ j = i
    <2>1. ASSUME NEW j \in Instances, IsWaiting(j)' PROVE IsWaiting(j) \/ j = i
      <3>1. PICK k \in 1..n + 1 : waiting'[k] = j
        BY <2>1, <1>2 DEF IsWaiting
      <3>. QED BY <3>1, <1>0, <1>2 DEF IsWaiting
    <2>2. ASSUME NEW j \in Instances, IsWaiting(j) PROVE IsWaiting(j)'
      <3>1. PICK k \in 1..n : waiting[k] = j
        BY <2>2 DEF IsWaiting
      <3>. QED BY <3>1, <1>0, <1>2 DEF IsWaiting
    <2>3. IsWaiting(i)'
      BY <1>0, <1>2 DEF IsWaiting
    <2>. QED BY <2>1, <2>2, <2>3
  <1>11. TypeOK'
    <2>1. next' \in [Instances -> Instances \cup {Null}]
      BY <1>4, <1>8
    <2>. QED BY <2>1, <1>2, <1>6 DEF TypeOK, QueueProcessInstance, InstanceState
  <1>12. NewUnlinked'
    <2>1. n # 0 => waiting[n] \in Instances /\ state[waiting[n]] # "NONE"
      BY <1>0, <1>3 DEF QueuedOnce
    <2>. QED BY <2>1, <1>4, <1>8 DEF NewUnlinked, QueueProcessInstance, TypeOK
  <1>13. MustDequeue(queue') => MustDequeue(queue)
    <2>1. queue.parallelism \in Nat /\ queue.activeCount \in Int
      BY <1>0, ParallelismsAssumption DEF Queue
    <2>2. CASE n = 0
      BY <2>1, <2>2, <1>5, <1>6 DEF MustDequeue, MustEnqueue
    <2>3. CASE n # 0
      BY <2>1, <2>3, <1>0, <1>4, <1>6 DEF MustDequeue
    <2>. QED BY <2>2, <2>3
  <1>14. ListIsQueue'
    BY <1>7, <1>9 DEF ListIsQueue, RowMatches, Linked
  <1>. QED BY <1>1, <1>6, <1>10, <1>11, <1>12, <1>13, <1>14

-----------------------------------------------------------------------------

(* Those in the line are queued, or were terminated there. *)
WaitingState == \A i \in Instances : IsWaiting(i) => state[i] \in {"QUEUED", "TERMINATED"}

(* The line part of the inductive invariant: what is waiting, and where. *)
LineInv == TypeOK /\ ListIsQueue /\ QueuedOnce /\ NewUnlinked /\ WaitingState

LEMMA InitLine == Init => LineInv
  <1>. SUFFICES ASSUME Init PROVE LineInv
    OBVIOUS
  <1>1. waiting = <<>> /\ Len(waiting) = 0 /\ \A i \in Instances : ~IsWaiting(i)
    BY DEF Init, IsWaiting
  <1>2. TypeOK
    BY <1>1 DEF Init, TypeOK, Queue, InstanceState
  <1>3. ListIsQueue
    BY <1>1 DEF Init, ListIsQueue
  <1>4. QueuedOnce /\ NewUnlinked /\ WaitingState
    BY <1>1 DEF Init, QueuedOnce, NewUnlinked, WaitingState, Active
  <1>. QED BY <1>2, <1>3, <1>4 DEF LineInv

(* The head, which is waiting, becomes due; i changes its state and takes   *)
(* the start tasks of which tasks no longer has one.                        *)
LEMMA ReleaseQueuedOnce ==
  ASSUME LineInv, NEW i \in Instances, NEW s \in Ended,
         NEW STATE tasks, tasks \in [Instances -> Nat],
         state' = [state EXCEPT ![i] = s],
         HeadStarted(tasks) \/ NobodyStarted(tasks),
         \A j \in Instances : IsWaiting(j) => tasks[j] = 0,
         \A j \in Instances : tasks[j] <= 1,
         \A j \in Instances : j # i => tasks[j] = startTasks[j]
  PROVE  QueuedOnce'
  <1>1. state \in [Instances -> InstanceState] /\ startTasks \in [Instances -> Nat]
    BY DEF LineInv, TypeOK
  <1>2. /\ \A j \in Instances : state'[j] = IF j = i THEN s ELSE state[j]
        /\ s # "NONE" /\ s # "QUEUED" /\ s \notin Active
    BY <1>1 DEF Ended, Active
  <1>3. CASE HeadStarted(tasks)
    <2>1. ASSUME NEW j \in Instances
          PROVE  /\ IsWaiting(j)' <=> IsWaiting(j) /\ j # waiting[1]
                 /\ startTasks'[j] = IF j = waiting[1] THEN tasks[j] + 1 ELSE tasks[j]
                 /\ j = waiting[1] => IsWaiting(j) /\ tasks[j] = 0
      BY <1>3 DEF HeadStarted
    <2>. QED BY <2>1, <1>1, <1>2 DEF QueuedOnce, LineInv
  <1>4. CASE NobodyStarted(tasks)
    <2>1. \A j \in Instances : IsWaiting(j)' <=> IsWaiting(j)
      BY <1>4 DEF NobodyStarted, IsWaiting
    <2>. QED BY <2>1, <1>1, <1>2, <1>4 DEF QueuedOnce, LineInv, NobodyStarted
  <1>. QED BY <1>3, <1>4

-----------------------------------------------------------------------------

(* Every action preserves LineInv.  The actions that move the line are       *)
(* reduced to the lemmas above.                                              *)
LEMMA EndedLine ==
  ASSUME LineInv, NEW i \in Instances, NEW s \in Ended,
         NEW STATE q, q \in Queue, NEW STATE tasks, tasks \in [Instances -> Nat],
         RowMatches(q), Release(q, tasks),
         UNCHANGED <<next, dequeueTasks, versions>>,
         state' = [state EXCEPT ![i] = s],
         \A j \in Instances : IsWaiting(j) => tasks[j] = 0,
         \A j \in Instances : tasks[j] <= 1,
         \A j \in Instances : j # i => tasks[j] = startTasks[j],
         IsWaiting(i) => s = "TERMINATED"
  PROVE  LineInv'
  <1>1. TypeOK /\ Linked
    BY DEF LineInv, ListIsQueue, Linked
  <1>2. /\ queue' \in Queue /\ startTasks' \in [Instances -> Nat]
        /\ waiting' \in Seq(Instances) /\ ListIsQueue'
        /\ HeadStarted(tasks) \/ NobodyStarted(tasks)
    BY <1>1, ReleaseLine
  <1>3. /\ TypeOK' /\ NewUnlinked'
    BY <1>2 DEF TypeOK, LineInv, NewUnlinked, InstanceState, Ended
  <1>4. QueuedOnce'
    BY <1>2, ReleaseQueuedOnce
  <1>5. WaitingState'
    <2>1. ASSUME NEW j \in Instances, IsWaiting(j)' PROVE IsWaiting(j)
      BY <1>2, <2>1 DEF HeadStarted, NobodyStarted, IsWaiting
    <2>. QED BY <2>1 DEF LineInv, TypeOK, WaitingState
  <1>. QED BY <1>2, <1>3, <1>4, <1>5 DEF LineInv

LEMMA QuietLine ==
  ASSUME LineInv, UNCHANGED <<next, waiting>>,
         queue' \in Queue, RowMatches(queue'),
         state' \in [Instances -> InstanceState],
         startTasks' \in [Instances -> Nat],
         dequeueTasks' \in Nat, versions' \in Nat,
         \A j \in Instances :
           \/ state'[j] = state[j] /\ startTasks'[j] = startTasks[j]
           \/ /\ state[j] # "QUEUED" /\ state'[j] = state[j]
              /\ startTasks'[j] = 0
           \/ ~IsWaiting(j) /\ state'[j] \in Active /\ startTasks'[j] = 0
  PROVE  LineInv'
  <1>1. \A j : IsWaiting(j)' <=> IsWaiting(j)
    BY DEF IsWaiting
  <1>2. ListIsQueue'
    BY DEF LineInv, ListIsQueue, RowMatches
  <1>3. TypeOK'
    BY DEF LineInv, TypeOK
  <1>4. QueuedOnce' /\ NewUnlinked' /\ WaitingState'
    BY <1>1 DEF LineInv, QueuedOnce, NewUnlinked, WaitingState, Active
  <1>. QED BY <1>2, <1>3, <1>4 DEF LineInv

LEMMA NextLine == LineInv /\ [Next]_vars => LineInv'
  <1>. SUFFICES ASSUME LineInv, [Next]_vars PROVE LineInv'
    OBVIOUS
  <1>0. /\ TypeOK /\ ListIsQueue /\ QueuedOnce /\ NewUnlinked /\ WaitingState
        /\ RowMatches(queue) /\ Linked /\ queue \in Queue
        /\ state \in [Instances -> InstanceState] /\ startTasks \in [Instances -> Nat]
        /\ dequeueTasks \in Nat /\ versions \in Nat
        /\ \A j \in Instances : /\ startTasks[j] <= 1
                                /\ IsWaiting(j) => startTasks[j] = 0
    BY DEF LineInv, ListIsQueue, RowMatches, Linked, TypeOK, QueuedOnce
  <1>1. ASSUME NEW p \in Parallelisms, CreateProcess(p) PROVE LineInv'
    <2>1. /\ queue' \in Queue /\ RowMatches(queue')
      BY <1>0, <1>1 DEF CreateProcess, Queue, RowMatches
    <2>2. dequeueTasks' \in Nat /\ versions' \in Nat
      BY <1>0, <1>1 DEF CreateProcess
    <2>. QED BY <1>0, <1>1, <2>1, <2>2, QuietLine DEF CreateProcess
  <1>2. CASE ExecuteDequeue
    <2>1. /\ queue' \in Queue /\ startTasks' \in [Instances -> Nat]
          /\ waiting' \in Seq(Instances) /\ ListIsQueue' /\ HeadStarted(startTasks)
      BY <1>0, <1>2, StartHeadList DEF ExecuteDequeue
    <2>2. dequeueTasks' \in Nat
      BY <1>0, <1>2 DEF ExecuteDequeue
    <2>3. TypeOK' /\ NewUnlinked'
      BY <1>0, <1>2, <2>1, <2>2 DEF ExecuteDequeue, TypeOK, NewUnlinked
    <2>4. ASSUME NEW j \in Instances
          PROVE  /\ IsWaiting(j)' <=> IsWaiting(j) /\ j # waiting[1]
                 /\ startTasks'[j] = IF j = waiting[1] THEN startTasks[j] + 1 ELSE startTasks[j]
                 /\ j = waiting[1] => IsWaiting(j) /\ startTasks[j] = 0
      BY <1>0, <2>1 DEF HeadStarted
    <2>5. QueuedOnce' /\ WaitingState'
      BY <2>4, <1>0, <1>2 DEF QueuedOnce, WaitingState, ExecuteDequeue
    <2>. QED BY <2>1, <2>3, <2>5 DEF LineInv
  <1>3. CASE CancelDequeue
    <2>1. dequeueTasks' \in Nat
      BY <1>0, <1>3 DEF CancelDequeue
    <2>. QED BY <1>0, <1>3, <2>1, QuietLine DEF CancelDequeue
  <1>4. ASSUME NEW i \in Instances, QueueProcessInstance(i) PROVE LineInv'
    <2>1. /\ TypeOK' /\ ListIsQueue' /\ NewUnlinked'
          /\ \A j \in Instances : IsWaiting(j)' <=> IsWaiting(j) \/ j = i
          /\ ~IsWaiting(i) /\ startTasks[i] = 0
      BY <1>0, <1>4, QueueProcessInstanceLine
    <2>2. QueuedOnce' /\ WaitingState'
      BY <2>1, <1>0, <1>4 DEF QueuedOnce, WaitingState, QueueProcessInstance, Active
    <2>. QED BY <2>1, <2>2 DEF LineInv
  <1>5. ASSUME NEW i \in Instances, CreateProcessInstance(i) PROVE LineInv'
    <2>1. /\ queue' \in Queue /\ RowMatches(queue')
      BY <1>0, <1>5, EnqueuedActive DEF CreateProcessInstance
    <2>2. PICK s \in Active : state' = [state EXCEPT ![i] = s]
      BY <1>5 DEF CreateProcessInstance, InitialStates, Active
    <2>3. state' \in [Instances -> InstanceState] /\ ~IsWaiting(i) /\ startTasks[i] = 0
      BY <1>0, <1>5, <2>2 DEF CreateProcessInstance, QueuedOnce, InstanceState
    <2>. QED BY <1>0, <1>5, <2>1, <2>2, <2>3, QuietLine DEF CreateProcessInstance
  <1>6. ASSUME NEW i \in Instances, CreateAndComplete(i) PROVE LineInv'
    <2>1. /\ Enqueued(queue, i) \in Queue /\ RowMatches(Enqueued(queue, i))
      BY <1>0, <1>6, EnqueuedActive DEF CreateAndComplete
    <2>2. ~IsWaiting(i) /\ "COMPLETED" \in Ended
      BY <1>0, <1>6 DEF CreateAndComplete, QueuedOnce, Ended
    <2>. QED BY <1>0, <1>6, <2>1, <2>2, EndedLine DEF CreateAndComplete
  <1>7. ASSUME NEW i \in Instances, SuspendProcessInstance(i) \/ ResumeProcessInstance(i)
        PROVE  LineInv'
    <2>1. PICK s \in Active : state' = [state EXCEPT ![i] = s]
      BY <1>7 DEF SuspendProcessInstance, ResumeProcessInstance, Active
    <2>2. /\ UNCHANGED <<queue, next, startTasks, dequeueTasks, versions, waiting>>
          /\ state[i] \in Active
      BY <1>7 DEF SuspendProcessInstance, ResumeProcessInstance, Active
    <2>3. state' \in [Instances -> InstanceState] /\ ~IsWaiting(i) /\ startTasks[i] = 0
      BY <1>0, <2>1, <2>2 DEF QueuedOnce, InstanceState
    <2>. QED BY <1>0, <2>1, <2>2, <2>3, QuietLine
  <1>8. ASSUME NEW i \in Instances, CompleteProcessInstance(i) PROVE LineInv'
    <2>1. ~IsWaiting(i) /\ "COMPLETED" \in Ended
      BY <1>0, <1>8 DEF CompleteProcessInstance, QueuedOnce, Ended
    <2>. QED BY <1>0, <1>8, <2>1, EndedLine DEF CompleteProcessInstance
  <1>9. ASSUME NEW i \in Instances, TerminateProcessInstance(i) PROVE LineInv'
    BY <1>0, <1>9, EndedLine DEF TerminateProcessInstance, Ended
  <1>10. ASSUME NEW i \in Instances, ExecuteStart(i) PROVE LineInv'
    <2>1. /\ startTasks' \in [Instances -> Nat] /\ startTasks'[i] = 0
          /\ state' \in [Instances -> InstanceState] /\ state'[i] \in Active
          /\ ~IsWaiting(i)
          /\ \A j \in Instances \ {i} : state'[j] = state[j] /\ startTasks'[j] = startTasks[j]
      BY <1>0, <1>10 DEF ExecuteStart, Without, InstanceState, Active
    <2>. QED BY <1>0, <1>10, <2>1, QuietLine DEF ExecuteStart
  <1>11. ASSUME NEW i \in Instances, ExecuteStartToEnd(i) PROVE LineInv'
    <2>1. /\ Without(startTasks, i) \in [Instances -> Nat]
          /\ \A j \in Instances : Without(startTasks, i)[j] =
               IF j = i THEN startTasks[j] - 1 ELSE startTasks[j]
          /\ ~IsWaiting(i) /\ startTasks[i] = 1 /\ "COMPLETED" \in Ended
      BY <1>0, <1>11 DEF ExecuteStartToEnd, Without, Ended
    <2>2. /\ \A j \in Instances : IsWaiting(j) => Without(startTasks, i)[j] = 0
          /\ \A j \in Instances : Without(startTasks, i)[j] <= 1
          /\ \A j \in Instances : j # i => Without(startTasks, i)[j] = startTasks[j]
      BY <1>0, <2>1
    <2>3. /\ Release(queue, Without(startTasks, i))
          /\ state' = [state EXCEPT ![i] = "COMPLETED"]
          /\ UNCHANGED <<next, dequeueTasks, versions>>
      BY <1>11 DEF ExecuteStartToEnd
    <2>4. /\ LineInv /\ ~IsWaiting(i) /\ "COMPLETED" \in Ended
          /\ Without(startTasks, i) \in [Instances -> Nat]
          /\ queue \in Queue /\ RowMatches(queue)
      BY <1>0, <2>1
    <2>. QED BY <2>2, <2>3, <2>4, EndedLine
  <1>12. ASSUME NEW i \in Instances, CancelStart(i) PROVE LineInv'
    <2>1. /\ startTasks' \in [Instances -> Nat] /\ startTasks'[i] = 0
          /\ \A j \in Instances \ {i} : startTasks'[j] = startTasks[j]
      BY <1>0, <1>12 DEF CancelStart, Without
    <2>. QED BY <1>0, <1>12, <2>1, QuietLine DEF CancelStart
  <1>13. CASE UNCHANGED vars
    BY <1>0, <1>13, QuietLine DEF vars
  <1>. QED BY <1>1, <1>2, <1>3, <1>4, <1>5, <1>6, <1>7, <1>8, <1>9, <1>10, <1>11,
             <1>12, <1>13 DEF Next, Command, StartTask, DequeueTask

(* Every reachable state has well-typed rows, and the head that is popped is  *)
(* always an element; the number of due tasks never becomes negative.         *)
THEOREM TypeCorrect == Spec => []TypeOK
  <1>1. LineInv => TypeOK
    BY DEF LineInv
  <1>. QED BY <1>1, InitLine, NextLine, PTL DEF Spec

(* The linked list of element rows is the queue in its order of arrival: an   *)
(* instance that queues up is popped after all who came before it.            *)
THEOREM ListCorrect == Spec => []ListIsQueue
  <1>1. LineInv => ListIsQueue
    BY DEF LineInv
  <1>. QED BY <1>1, InitLine, NextLine, PTL DEF Spec

(* No queued instance is lost, and none has two start tasks. *)
THEOREM QueuedOnceCorrect == Spec => []QueuedOnce
  <1>1. LineInv => QueuedOnce
    BY DEF LineInv
  <1>. QED BY <1>1, InitLine, NextLine, PTL DEF Spec

-----------------------------------------------------------------------------

(* No lost wakeup.  Only CreateProcess can make MustDequeue true, and it      *)
(* inserts a task; ExecuteDequeue replaces its own.                           *)
LEMMA NextNoStuckQueue == LineInv /\ NoStuckQueue /\ [Next]_vars => NoStuckQueue'
  <1>. SUFFICES ASSUME LineInv, NoStuckQueue, [Next]_vars PROVE NoStuckQueue'
    OBVIOUS
  <1>0. /\ TypeOK /\ ListIsQueue /\ QueuedOnce /\ NewUnlinked
        /\ RowMatches(queue) /\ Linked /\ queue \in Queue
        /\ startTasks \in [Instances -> Nat] /\ dequeueTasks \in Nat
        /\ MustDequeue(queue) => dequeueTasks > 0
    BY DEF LineInv, ListIsQueue, RowMatches, Linked, TypeOK, NoStuckQueue
  <1>1. ASSUME NEW p \in Parallelisms, CreateProcess(p) PROVE NoStuckQueue'
    BY <1>0, <1>1 DEF CreateProcess, NoStuckQueue
  <1>2. CASE ExecuteDequeue
    BY <1>0, <1>2 DEF ExecuteDequeue, NoStuckQueue
  <1>3. CASE CancelDequeue
    BY <1>0, <1>3 DEF CancelDequeue, NoStuckQueue
  <1>4. CASE UNCHANGED <<queue, dequeueTasks>>
    BY <1>0, <1>4 DEF NoStuckQueue
  <1>5. CASE /\ MustDequeue(queue') => MustDequeue(queue)
             /\ UNCHANGED dequeueTasks
    BY <1>0, <1>5 DEF NoStuckQueue
  <1>6. ASSUME NEW i \in Instances, QueueProcessInstance(i) PROVE NoStuckQueue'
    BY <1>0, <1>5, <1>6, QueueProcessInstanceLine DEF QueueProcessInstance
  <1>7. ASSUME NEW i \in Instances, CreateProcessInstance(i) PROVE NoStuckQueue'
    BY <1>0, <1>7, EnqueuedActive DEF CreateProcessInstance, NoStuckQueue
  <1>8. ASSUME NEW i \in Instances, CreateAndComplete(i) PROVE NoStuckQueue'
    <2>1. /\ Enqueued(queue, i) \in Queue /\ RowMatches(Enqueued(queue, i))
          /\ ~MustDequeue(Enqueued(queue, i))
      BY <1>0, <1>8, EnqueuedActive DEF CreateAndComplete
    <2>2. MustDequeue(queue') => MustDequeue(Enqueued(queue, i))
      BY <1>0, <1>8, <2>1, ReleaseLine DEF CreateAndComplete
    <2>. QED BY <2>1, <2>2 DEF NoStuckQueue
  <1>9. ASSUME NEW i \in Instances,
               CompleteProcessInstance(i) \/ TerminateProcessInstance(i)
        PROVE  NoStuckQueue'
    <2>1. Release(queue, startTasks) /\ UNCHANGED <<next, dequeueTasks>>
      BY <1>9 DEF CompleteProcessInstance, TerminateProcessInstance
    <2>2. MustDequeue(queue') => MustDequeue(queue)
      BY <1>0, <2>1, ReleaseLine
    <2>. QED BY <2>1, <2>2, <1>5
  <1>10. ASSUME NEW i \in Instances, ExecuteStartToEnd(i) PROVE NoStuckQueue'
    <2>1. Without(startTasks, i) \in [Instances -> Nat]
      BY <1>0, <1>10 DEF ExecuteStartToEnd, Without
    <2>2. MustDequeue(queue') => MustDequeue(queue)
      BY <1>0, <1>10, <2>1, ReleaseLine DEF ExecuteStartToEnd
    <2>. QED BY <2>2, <1>5, <1>10 DEF ExecuteStartToEnd
  <1>11. ASSUME NEW i \in Instances,
                \/ SuspendProcessInstance(i) \/ ResumeProcessInstance(i)
                \/ ExecuteStart(i) \/ CancelStart(i)
         PROVE  UNCHANGED <<queue, dequeueTasks>>
    BY <1>11 DEF SuspendProcessInstance, ResumeProcessInstance, ExecuteStart, CancelStart
  <1>12. CASE UNCHANGED vars
    BY <1>4, <1>12 DEF vars
  <1>. QED BY <1>1, <1>2, <1>3, <1>4, <1>6, <1>7, <1>8, <1>9, <1>10, <1>11, <1>12
           DEF Next, Command, StartTask, DequeueTask

(* Free capacity with an instance waiting for it is always followed up by a   *)
(* DequeueProcessInstance task, whatever the order of commands and tasks.     *)
THEOREM NoStuckQueueCorrect == Spec => []NoStuckQueue
  <1>1. Init => NoStuckQueue
    BY DEF Init, NoStuckQueue, MustDequeue
  <1>. QED BY <1>1, InitLine, NextLine, NextNoStuckQueue, PTL DEF Spec

-----------------------------------------------------------------------------

(* What ActiveCount counts.  The actions that give a slot back are taken in   *)
(* two strides: instance i changes its state, then the head may leave the     *)
(* line.  SlotsAt and GhostsAt are the counted sets between the two.          *)
SlotsAt(st, tasks) ==
  {j \in Instances : st[j] \in Active \/ (st[j] = "QUEUED" /\ tasks[j] > 0)}
GhostsAt(st) == {j \in Instances : st[j] = "TERMINATED" /\ IsWaiting(j)}

LEMMA CardinalityOfInstances ==
  ASSUME NEW S \in SUBSET Instances
  PROVE  /\ IsFiniteSet(S) /\ Cardinality(S) \in Nat
         /\ \A i \in Instances :
              /\ i \notin S => Cardinality(S \cup {i}) = Cardinality(S) + 1
              /\ i \in S => Cardinality(S \ {i}) = Cardinality(S) - 1
  <1>1. IsFiniteSet(S)
    BY FS_Subset, InstancesAssumption
  <1>. QED BY <1>1, FS_CardinalityType, FS_AddElement, FS_RemoveElement

(* The head gets a slot, or a terminated head is no longer in the line. *)
LEMMA HeadStartedSlots ==
  ASSUME LineInv, NEW STATE tasks, tasks \in [Instances -> Nat], HeadStarted(tasks),
         state'[waiting[1]] \in {"QUEUED", "TERMINATED"}, tasks[waiting[1]] = 0
  PROVE  Cardinality(Slots') - Cardinality(Ghosts') =
           Cardinality(SlotsAt(state', tasks)) - Cardinality(GhostsAt(state')) + 1
  <1>. DEFINE h == waiting[1]
              S == SlotsAt(state', tasks)
              G == GhostsAt(state')
  <1>1. /\ h \in Instances /\ IsWaiting(h)
        /\ \A j \in Instances :
             /\ IsWaiting(j)' <=> IsWaiting(j) /\ j # h
             /\ startTasks'[j] = IF j = h THEN tasks[j] + 1 ELSE tasks[j]
    BY DEF HeadStarted
  <1>2. S \in SUBSET Instances /\ G \in SUBSET Instances
    BY DEF SlotsAt, GhostsAt
  <1>3. CASE state'[h] = "QUEUED"
    <2>1. h \notin S /\ Slots' = S \cup {h}
      BY <1>1, <1>3 DEF SlotsAt, Slots, Active
    <2>2. Ghosts' = G
      BY <1>1, <1>3 DEF GhostsAt, Ghosts
    <2>3. Cardinality(S \cup {h}) = Cardinality(S) + 1
      BY <2>1, <1>1, <1>2, CardinalityOfInstances
    <2>. QED BY <2>1, <2>2, <2>3, <1>2, CardinalityOfInstances
  <1>4. CASE state'[h] = "TERMINATED"
    <2>1. Slots' = S
      BY <1>1, <1>4 DEF SlotsAt, Slots, Active
    <2>2. h \in G /\ Ghosts' = G \ {h}
      BY <1>1, <1>4 DEF GhostsAt, Ghosts
    <2>3. Cardinality(G \ {h}) = Cardinality(G) - 1
      BY <2>2, <1>1, <1>2, CardinalityOfInstances
    <2>. QED BY <2>1, <2>2, <2>3, <1>2, CardinalityOfInstances
  <1>. QED BY <1>3, <1>4

LEMMA NobodyStartedSlots ==
  ASSUME NEW STATE tasks, NobodyStarted(tasks)
  PROVE  Slots' = SlotsAt(state', tasks) /\ Ghosts' = GhostsAt(state')
  BY DEF NobodyStarted, Slots, Ghosts, SlotsAt, GhostsAt, IsWaiting

(* The first stride: i ends, and is one slot less or one ghost more. *)
LEMMA EndedSlots ==
  ASSUME LineInv, NEW i \in Instances, NEW s \in Ended,
         state' = [state EXCEPT ![i] = s],
         NEW STATE tasks, tasks \in [Instances -> Nat],
         \A j \in Instances : j # i => tasks[j] = startTasks[j],
         \/ i \in Slots
         \/ state[i] = "QUEUED" /\ s = "TERMINATED"
  PROVE  Cardinality(SlotsAt(state', tasks)) - Cardinality(GhostsAt(state')) =
           Cardinality(Slots) - Cardinality(Ghosts) - 1
  <1>. DEFINE S == SlotsAt(state', tasks)
              G == GhostsAt(state')
  <1>1. /\ state \in [Instances -> InstanceState] /\ startTasks \in [Instances -> Nat]
        /\ \A j \in Instances : state'[j] = IF j = i THEN s ELSE state[j]
        /\ s \notin Active /\ s # "QUEUED"
    BY DEF LineInv, TypeOK, Active, Ended
  <1>2. /\ S \in SUBSET Instances /\ G \in SUBSET Instances
        /\ Slots \in SUBSET Instances /\ Ghosts \in SUBSET Instances
    BY DEF SlotsAt, GhostsAt, Slots, Ghosts
  <1>5. Cardinality(Slots) \in Nat /\ Cardinality(Ghosts) \in Nat
    BY <1>2, CardinalityOfInstances
  <1>3. CASE i \in Slots
    <2>1. S = Slots \ {i}
      BY <1>1 DEF SlotsAt, Slots
    <2>2. G = Ghosts
      <3>1. ~IsWaiting(i) /\ state[i] # "TERMINATED"
        BY <1>3, <1>1 DEF Slots, LineInv, QueuedOnce, Active
      <3>. QED BY <3>1, <1>1 DEF GhostsAt, Ghosts
    <2>3. Cardinality(Slots \ {i}) = Cardinality(Slots) - 1
      BY <1>2, <1>3, CardinalityOfInstances
    <2>4. Cardinality(S) = Cardinality(Slots) - 1 /\ Cardinality(G) = Cardinality(Ghosts)
      BY ONLY <2>1, <2>2, <2>3, Zenon
    <2>. QED BY <2>4, <1>5
  <1>4. CASE i \notin Slots /\ state[i] = "QUEUED" /\ s = "TERMINATED"
    <2>1. S = Slots
      BY <1>1, <1>4 DEF SlotsAt, Slots
    <2>2. IsWaiting(i)
      BY <1>1, <1>4 DEF Slots, LineInv, QueuedOnce
    <2>3. i \notin Ghosts /\ G = Ghosts \cup {i}
      BY <1>1, <1>4, <2>2 DEF GhostsAt, Ghosts
    <2>4. Cardinality(Ghosts \cup {i}) = Cardinality(Ghosts) + 1
      BY <1>2, <2>3, CardinalityOfInstances
    <2>5. Cardinality(S) = Cardinality(Slots) /\ Cardinality(G) = Cardinality(Ghosts) + 1
      BY ONLY <2>1, <2>3, <2>4, Zenon
    <2>. QED BY <2>5, <1>5
  <1>. QED BY <1>3, <1>4

(* Both strides: a step that ends i and gives its slot back keeps the count.  *)
LEMMA EndedActiveCount ==
  ASSUME LineInv, NEW i \in Instances, NEW s \in Ended,
         NEW STATE tasks, tasks \in [Instances -> Nat],
         Release(queue, tasks), UNCHANGED next,
         state' = [state EXCEPT ![i] = s],
         \A j \in Instances : IsWaiting(j) => tasks[j] = 0,
         \A j \in Instances : j # i => tasks[j] = startTasks[j],
         \/ i \in Slots
         \/ state[i] = "QUEUED" /\ s = "TERMINATED",
         ActiveCountLessGhosts
  PROVE  ActiveCountLessGhosts'
  <1>1. /\ TypeOK /\ queue \in Queue /\ RowMatches(queue) /\ Linked
        /\ queue.activeCount \in Int
    BY DEF LineInv, TypeOK, ListIsQueue, RowMatches, Linked, Queue
  <1>2. \/ HeadStarted(tasks) /\ queue'.activeCount = queue.activeCount
        \/ NobodyStarted(tasks) /\ queue'.activeCount = queue.activeCount - 1
    BY <1>1, ReleaseLine
  <1>3. Cardinality(SlotsAt(state', tasks)) - Cardinality(GhostsAt(state')) =
           Cardinality(Slots) - Cardinality(Ghosts) - 1
    BY EndedSlots
  <1>4. queue.activeCount = Cardinality(Slots) - Cardinality(Ghosts)
    BY DEF ActiveCountLessGhosts
  <1>5. /\ SlotsAt(state', tasks) \in SUBSET Instances
        /\ GhostsAt(state') \in SUBSET Instances
        /\ Slots \in SUBSET Instances /\ Ghosts \in SUBSET Instances
    BY DEF SlotsAt, GhostsAt, Slots, Ghosts
  <1>6. /\ Cardinality(SlotsAt(state', tasks)) \in Nat
        /\ Cardinality(GhostsAt(state')) \in Nat
        /\ Cardinality(Slots) \in Nat /\ Cardinality(Ghosts) \in Nat
    BY <1>5, CardinalityOfInstances
  <1>7. CASE HeadStarted(tasks) /\ queue'.activeCount = queue.activeCount
    <2>1. /\ waiting[1] \in Instances /\ IsWaiting(waiting[1])
          /\ tasks[waiting[1]] = 0
          /\ state[waiting[1]] \in {"QUEUED", "TERMINATED"}
      BY <1>7 DEF HeadStarted, LineInv, WaitingState
    <2>2. state'[waiting[1]] \in {"QUEUED", "TERMINATED"}
      <3>1. CASE waiting[1] # i
        BY <3>1, <2>1, <1>1 DEF TypeOK
      <3>2. CASE waiting[1] = i
        <4>1. i \notin Slots
          BY <3>2, <2>1 DEF Slots, LineInv, QueuedOnce, Active
        <4>. QED BY <4>1, <3>2, <1>1 DEF TypeOK
      <3>. QED BY <3>1, <3>2
    <2>3. Cardinality(Slots') - Cardinality(Ghosts') =
           Cardinality(SlotsAt(state', tasks)) - Cardinality(GhostsAt(state')) + 1
      BY <1>7, <2>1, <2>2, HeadStartedSlots
    <2>. QED BY <2>3, <1>3, <1>4, <1>6, <1>7 DEF ActiveCountLessGhosts
  <1>8. CASE NobodyStarted(tasks) /\ queue'.activeCount = queue.activeCount - 1
    BY <1>8, <1>3, <1>4, <1>6, NobodyStartedSlots DEF ActiveCountLessGhosts
  <1>. QED BY <1>2, <1>7, <1>8

LEMMA NextActiveCount == LineInv /\ ActiveCountLessGhosts /\ [Next]_vars => ActiveCountLessGhosts'
  <1>. SUFFICES ASSUME LineInv, ActiveCountLessGhosts, [Next]_vars PROVE ActiveCountLessGhosts'
    OBVIOUS
  <1>0. /\ TypeOK /\ ListIsQueue /\ QueuedOnce /\ NewUnlinked /\ WaitingState
        /\ RowMatches(queue) /\ Linked /\ queue \in Queue
        /\ state \in [Instances -> InstanceState] /\ startTasks \in [Instances -> Nat]
        /\ \A j \in Instances : IsWaiting(j) => startTasks[j] = 0
        /\ Slots \in SUBSET Instances
        /\ queue.activeCount = Cardinality(Slots) - Cardinality(Ghosts)
    BY DEF LineInv, ListIsQueue, RowMatches, Linked, TypeOK, QueuedOnce, Slots,
           ActiveCountLessGhosts
  <1>. DEFINE Same == /\ Slots' = Slots /\ Ghosts' = Ghosts
                      /\ queue'.activeCount = queue.activeCount
  <1>1. CASE Same
    BY <1>0, <1>1 DEF ActiveCountLessGhosts
  <1>2. ASSUME NEW p \in Parallelisms, CreateProcess(p) PROVE Same
    BY <1>0, <1>2 DEF CreateProcess, Queue, Slots, Ghosts, IsWaiting
  <1>3. CASE ExecuteDequeue
    <2>1. HeadStarted(startTasks) /\ queue'.activeCount = queue.activeCount + 1
      BY <1>0, <1>3, StartHeadList DEF ExecuteDequeue
    <2>2. /\ state' = state /\ startTasks[waiting[1]] = 0
          /\ state'[waiting[1]] \in {"QUEUED", "TERMINATED"}
      BY <1>0, <1>3, <2>1 DEF ExecuteDequeue, HeadStarted, WaitingState
    <2>3. Cardinality(Slots') - Cardinality(Ghosts') =
           Cardinality(SlotsAt(state', startTasks)) - Cardinality(GhostsAt(state')) + 1
      BY <1>0, <2>1, <2>2, HeadStartedSlots
    <2>4. SlotsAt(state', startTasks) = Slots /\ GhostsAt(state') = Ghosts
      BY <2>2 DEF SlotsAt, GhostsAt, Slots, Ghosts
    <2>. QED BY <1>0, <2>1, <2>3, <2>4 DEF ActiveCountLessGhosts
  <1>4. ASSUME CancelDequeue \/ UNCHANGED vars PROVE Same
    BY <1>4 DEF CancelDequeue, vars, Slots, Ghosts, IsWaiting
  <1>5. ASSUME NEW i \in Instances, QueueProcessInstance(i) PROVE Same
    <2>1. /\ queue'.activeCount = queue.activeCount /\ startTasks[i] = 0
          /\ \A j \in Instances : IsWaiting(j)' <=> IsWaiting(j) \/ j = i
      BY <1>0, <1>5, QueueProcessInstanceLine
    <2>2. /\ startTasks' = startTasks /\ state[i] = "NONE"
          /\ \A j \in Instances : state'[j] = IF j = i THEN "QUEUED" ELSE state[j]
      BY <1>0, <1>5 DEF QueueProcessInstance
    <2>. QED BY <2>1, <2>2 DEF Slots, Ghosts, Active
  <1>6. ASSUME NEW i \in Instances, CreateProcessInstance(i) PROVE ActiveCountLessGhosts'
    <2>1. /\ queue'.activeCount = queue.activeCount + 1
      BY <1>0, <1>6, EnqueuedActive DEF CreateProcessInstance
    <2>2. PICK s \in Active : state' = [state EXCEPT ![i] = s]
      BY <1>6 DEF CreateProcessInstance, InitialStates, Active
    <2>3. i \notin Slots /\ Slots' = Slots \cup {i} /\ Ghosts' = Ghosts
      BY <1>0, <1>6, <2>2 DEF CreateProcessInstance, Slots, Ghosts, IsWaiting, Active
    <2>4. Cardinality(Slots \cup {i}) = Cardinality(Slots) + 1
      BY <1>0, <2>3, CardinalityOfInstances
    <2>5. Cardinality(Slots) \in Nat /\ Cardinality(Ghosts) \in Nat
      BY CardinalityOfInstances DEF Slots, Ghosts
    <2>. QED BY <1>0, <2>1, <2>3, <2>4, <2>5 DEF ActiveCountLessGhosts
  <1>7. ASSUME NEW i \in Instances, CreateAndComplete(i) PROVE Same
    <2>1. /\ Enqueued(queue, i) \in Queue /\ RowMatches(Enqueued(queue, i))
          /\ waiting = <<>> /\ queue.activeCount \in Int
          /\ Enqueued(queue, i).activeCount = queue.activeCount + 1
      BY <1>0, <1>7, EnqueuedActive DEF CreateAndComplete, Queue
    <2>2. NobodyStarted(startTasks) /\ queue'.activeCount = (queue.activeCount + 1) - 1
      BY <1>0, <1>7, <2>1, ReleaseLine DEF CreateAndComplete, HeadStarted
    <2>3. Slots' = Slots /\ Ghosts' = Ghosts
      BY <1>0, <1>7, <2>2 DEF CreateAndComplete, NobodyStarted, Slots, Ghosts, IsWaiting, Active
    <2>. QED BY <2>1, <2>2, <2>3
  <1>8. ASSUME NEW i \in Instances, SuspendProcessInstance(i) \/ ResumeProcessInstance(i)
        PROVE  Same
    BY <1>0, <1>8 DEF SuspendProcessInstance, ResumeProcessInstance, Slots, Ghosts,
                      IsWaiting, Active
  <1>9. ASSUME NEW i \in Instances, CompleteProcessInstance(i) PROVE ActiveCountLessGhosts'
    <2>1. i \in Slots
      BY <1>9 DEF CompleteProcessInstance, Slots
    <2>. QED BY <1>0, <1>9, <2>1, EndedActiveCount DEF CompleteProcessInstance, Ended
  <1>10. ASSUME NEW i \in Instances, TerminateProcessInstance(i) PROVE ActiveCountLessGhosts'
    <2>1. i \in Slots \/ state[i] = "QUEUED"
      BY <1>10 DEF TerminateProcessInstance, Slots
    <2>. QED BY <1>0, <1>10, <2>1, EndedActiveCount DEF TerminateProcessInstance, Ended
  <1>11. ASSUME NEW i \in Instances, ExecuteStart(i) PROVE Same
    BY <1>0, <1>11 DEF ExecuteStart, Without, Slots, Ghosts, IsWaiting, Active
  <1>12. ASSUME NEW i \in Instances, ExecuteStartToEnd(i) PROVE ActiveCountLessGhosts'
    <2>1. /\ Without(startTasks, i) \in [Instances -> Nat] /\ i \in Slots
          /\ \A j \in Instances : Without(startTasks, i)[j] =
               IF j = i THEN startTasks[j] - 1 ELSE startTasks[j]
          /\ ~IsWaiting(i) /\ "COMPLETED" \in Ended
      BY <1>0, <1>12 DEF ExecuteStartToEnd, Without, Ended, Slots
    <2>2. \A j \in Instances :
            /\ IsWaiting(j) => Without(startTasks, i)[j] = 0
            /\ j # i => Without(startTasks, i)[j] = startTasks[j]
      BY <1>0, <2>1
    <2>3. /\ Release(queue, Without(startTasks, i)) /\ UNCHANGED next
          /\ state' = [state EXCEPT ![i] = "COMPLETED"]
      BY <1>12 DEF ExecuteStartToEnd
    <2>. QED BY <1>0, <2>1, <2>2, <2>3, EndedActiveCount
  <1>13. ASSUME NEW i \in Instances, CancelStart(i) PROVE Same
    BY <1>0, <1>13 DEF CancelStart, Without, Slots, Ghosts, IsWaiting
  <1>. QED BY <1>1, <1>2, <1>3, <1>4, <1>5, <1>6, <1>7, <1>8, <1>9, <1>10, <1>11,
             <1>12, <1>13 DEF Next, Command, StartTask, DequeueTask

(* The persisted ActiveCount is the number of occupied slots, but for the     *)
(* children terminated while queued, which still are in the list.             *)
THEOREM ActiveCountCorrect == Spec => []ActiveCountLessGhosts
  <1>1. Init => ActiveCountLessGhosts
    <2>1. ASSUME Init PROVE Slots = {} /\ Ghosts = {} /\ queue.activeCount = 0
      BY <2>1 DEF Init, Slots, Ghosts, Active
    <2>. QED BY <2>1, FS_EmptySet DEF ActiveCountLessGhosts
  <1>. QED BY <1>1, InitLine, NextLine, NextActiveCount, PTL DEF Spec
-----------------------------------------------------------------------------

(* The refinement of BoundedParallelism.  While nobody in the line has been   *)
(* terminated there, the count kept by hand is that of the slots.             *)
CountInv == LineInv /\ ActiveCountLessGhosts

ViewInv == CountInv /\ Ghosts = {}

(* There is room for the promise as the row's count of active instances says. *)
LEMMA RoomOf ==
  ASSUME NEW S
  PROVE  Promise!HasRoom(S) <=> queue.parallelism = 0 \/ Cardinality(S) < queue.parallelism
  <1>1. Promise!Cardinality(S) = Cardinality(S)
    BY Zenon DEF Promise!Cardinality, Cardinality
  <1>. QED BY <1>1 DEF Promise!HasRoom

(* What the queue row says in the words of the promise. *)
LEMMA RowView ==
  ASSUME ViewInv
  PROVE  /\ TypeOK /\ ListIsQueue /\ QueuedOnce /\ NewUnlinked /\ RowMatches(queue) /\ Linked
         /\ queue \in Queue /\ queue.parallelism \in Nat /\ waiting \in Seq(Instances)
         /\ Slots \in SUBSET Instances
         /\ queue.activeCount = Cardinality(Slots) /\ queue.activeCount \in Nat
         /\ queue.queuedCount = Len(waiting)
         /\ waiting # <<>> => /\ queue.head = Head(waiting) /\ Head(waiting) \in Instances
                              /\ state[Head(waiting)] = "QUEUED"
                              /\ startTasks[Head(waiting)] = 0
         /\ MustDequeue(queue) <=> waiting # <<>> /\ Promise!HasRoom(Slots)
  <1>1. /\ TypeOK /\ ListIsQueue /\ QueuedOnce /\ NewUnlinked /\ RowMatches(queue) /\ Linked
        /\ queue \in Queue /\ queue.parallelism \in Nat /\ waiting \in Seq(Instances)
    BY ParallelismsAssumption
       DEF ViewInv, CountInv, LineInv, TypeOK, ListIsQueue, RowMatches, Linked, Queue
  <1>2. Slots \in SUBSET Instances /\ Cardinality(Slots) \in Nat
    BY CardinalityOfInstances DEF Slots
  <1>3. Ghosts = {} /\ Cardinality(Ghosts) = 0
    BY FS_EmptySet DEF ViewInv
  <1>4. queue.activeCount = Cardinality(Slots)
    BY <1>2, <1>3 DEF ViewInv, CountInv, ActiveCountLessGhosts
  <1>5. queue.queuedCount = Len(waiting) /\ (waiting # <<>> <=> Len(waiting) > 0)
    BY <1>1 DEF RowMatches
  <1>6. ASSUME waiting # <<>>
        PROVE  /\ queue.head = Head(waiting) /\ Head(waiting) \in Instances
               /\ state[Head(waiting)] = "QUEUED" /\ startTasks[Head(waiting)] = 0
    <2>1. Head(waiting) = waiting[1] /\ waiting[1] \in Instances /\ IsWaiting(waiting[1])
      BY <1>1, <1>6 DEF IsWaiting
    <2>. QED BY <1>1, <1>6, <2>1
             DEF RowMatches, QueuedOnce, ViewInv, CountInv, LineInv, WaitingState, Ghosts
  <1>7. MustDequeue(queue) <=> waiting # <<>> /\ Promise!HasRoom(Slots)
    BY <1>1, <1>2, <1>4, <1>5, RoomOf DEF MustDequeue
  <1>. QED BY <1>1, <1>2, <1>4, <1>5, <1>6, <1>7
(* A slot that i gives back is passed on to the head of the line if the limit *)
(* then holds, and only then.                                                 *)
LEMMA ReleaseView ==
  ASSUME ViewInv, NEW i \in Slots,
         NEW STATE tasks, tasks \in [Instances -> Nat], Release(queue, tasks),
         NEW s \in Ended, state' = [state EXCEPT ![i] = s],
         \A j \in Instances : j # i => tasks[j] = startTasks[j]
  PROVE  Promise!Leave(i)
  <1>. DEFINE released == [queue EXCEPT !.activeCount = @ - 1]
              others == Slots \ {i}
  <1>1. /\ queue.parallelism \in Nat /\ queue.activeCount = Cardinality(Slots)
        /\ queue.activeCount \in Nat /\ queue.queuedCount = Len(waiting)
        /\ queue \in Queue /\ waiting \in Seq(Instances)
        /\ i \in Instances /\ Slots \in SUBSET Instances
        /\ waiting # <<>> => /\ queue.head = Head(waiting) /\ Head(waiting) \in Instances
                             /\ state[Head(waiting)] = "QUEUED"
                             /\ startTasks[Head(waiting)] = 0
    BY RowView DEF Slots
  <1>2. Cardinality(others) = queue.activeCount - 1
    BY <1>1, CardinalityOfInstances
  <1>3. /\ released.parallelism = queue.parallelism
        /\ released.activeCount = queue.activeCount - 1
        /\ released.queuedCount = queue.queuedCount /\ released.head = queue.head
    BY <1>1 DEF Queue
  <1>4. MustDequeue(released) <=> waiting # <<>> /\ Promise!HasRoom(others)
    BY <1>1, <1>2, <1>3, RoomOf DEF MustDequeue
  <1>5. state \in [Instances -> InstanceState] /\ startTasks \in [Instances -> Nat]
    BY DEF ViewInv, CountInv, LineInv, TypeOK
  <1>6. SlotsAt(state', tasks) = others
    BY <1>1, <1>5 DEF SlotsAt, Slots, Active, Ended
  <1>7. {j \in Instances : state'[j] # "NONE"} = {j \in Instances : state[j] # "NONE"}
    BY <1>1, <1>5 DEF Slots, Active, Ended
  <1>8. CASE MustDequeue(released) /\ StartHead(released, tasks)
    <2>. DEFINE h == Head(waiting)
    <2>1. /\ waiting # <<>> /\ Promise!HasRoom(others)
          /\ waiting' = Tail(waiting) /\ queue'.parallelism = queue.parallelism
          /\ startTasks' = [tasks EXCEPT ![h] = @ + 1]
      BY <1>1, <1>3, <1>4, <1>8 DEF StartHead, Popped
    <2>2. h \in Instances /\ h # i /\ state'[h] = "QUEUED" /\ startTasks'[h] = 1
      BY <2>1, <1>1, <1>5 DEF Slots, Active
    <2>3. Slots' = others \cup {h}
      BY <2>1, <2>2, <1>1, <1>6 DEF Slots, SlotsAt
    <2>. QED BY <2>1, <2>3, <1>7 DEF Promise!Leave, Promise!RunFirst
  <1>9. CASE ~MustDequeue(released) /\ queue' = released /\ startTasks' = tasks
             /\ UNCHANGED waiting
    <2>1. Slots' = others
      BY <1>9, <1>6 DEF Slots, SlotsAt
    <2>. QED BY <2>1, <1>3, <1>4, <1>7, <1>9 DEF Promise!Leave
  <1>. QED BY <1>8, <1>9 DEF Release
(* Every step of the code is a step of the promise or hidden from it. *)
LEMMA NextPromise ==
  ASSUME CountInv, OnlySlotsGivenBack, [Next]_vars
  PROVE  [Promise!Next]_(Promise!vars)
  <1>. DEFINE Arrived == {j \in Instances : state[j] # "NONE"}
              Hidden == UNCHANGED <<queue.parallelism, waiting, Slots, Arrived>>
  <1>0. /\ TypeOK /\ ListIsQueue /\ QueuedOnce /\ NewUnlinked /\ RowMatches(queue) /\ Linked
        /\ queue \in Queue /\ queue.parallelism \in Nat /\ waiting \in Seq(Instances)
        /\ Slots \in SUBSET Instances
        /\ queue.activeCount = Cardinality(Slots) /\ queue.activeCount \in Nat
        /\ queue.queuedCount = Len(waiting)
        /\ waiting # <<>> => /\ queue.head = Head(waiting) /\ Head(waiting) \in Instances
                             /\ state[Head(waiting)] = "QUEUED"
                             /\ startTasks[Head(waiting)] = 0
        /\ MustDequeue(queue) <=> waiting # <<>> /\ Promise!HasRoom(Slots)
        /\ state \in [Instances -> InstanceState] /\ startTasks \in [Instances -> Nat]
    BY RowView DEF TypeOK, ViewInv, OnlySlotsGivenBack
  <1>. ViewInv
    BY DEF ViewInv, OnlySlotsGivenBack
  <1>1. CASE Hidden
    BY <1>1 DEF Promise!vars
  <1>2. ASSUME NEW p \in Parallelisms, CreateProcess(p) PROVE Promise!SetLimit(p)
    BY <1>0, <1>2 DEF CreateProcess, Queue, Slots, Promise!SetLimit
  <1>3. CASE ExecuteDequeue
    <2>. DEFINE h == Head(waiting)
    <2>1. /\ waiting # <<>> /\ Promise!HasRoom(Slots) /\ waiting' = Tail(waiting)
          /\ queue'.parallelism = queue.parallelism
          /\ startTasks' = [startTasks EXCEPT ![h] = @ + 1] /\ state' = state
      BY <1>0, <1>3 DEF ExecuteDequeue, StartHead, Popped
    <2>2. Slots' = Slots \cup {h}
      BY <1>0, <2>1 DEF Slots
    <2>. QED BY <2>1, <2>2 DEF Promise!Next, Promise!Admit, Promise!RunFirst
  <1>4. CASE CancelDequeue \/ UNCHANGED vars
    <2>1. Hidden
      BY <1>4 DEF CancelDequeue, vars, Slots
    <2>. QED BY <2>1, <1>1
  <1>5. ASSUME NEW i \in Instances, QueueProcessInstance(i) PROVE Promise!Arrive(i)
    <2>1. /\ i \notin Arrived /\ Arrived' = Arrived \cup {i}
          /\ Slots' = Slots /\ waiting' = Append(waiting, i)
          /\ queue'.parallelism = queue.parallelism
      <3>1. queue'.parallelism = queue.parallelism
        BY <1>0, <1>5 DEF QueueProcessInstance, Enqueued, WithQueued, WithActive, Queue
      <3>2. startTasks[i] = 0
        BY <1>0, <1>5 DEF QueueProcessInstance, QueuedOnce
      <3>. QED BY <1>0, <1>5, <3>1, <3>2 DEF QueueProcessInstance, Slots, Active
    <2>2. waiting # <<>> \/ ~Promise!HasRoom(Slots)
      <3>1. CASE waiting = <<>> /\ ~MustEnqueue(queue)
        <4>1. queue.head = Null
          BY <1>0, <3>1 DEF RowMatches
        <4>2. Enqueued(queue, i) = WithActive(queue)
          BY <4>1, <3>1 DEF Enqueued
        <4>3. WithActive(queue).head = Null
          BY <1>0, <4>1 DEF WithActive, Queue
        <4>. QED BY <1>5, <4>2, <4>3 DEF QueueProcessInstance
      <3>2. CASE MustEnqueue(queue)
        BY <1>0, <3>2, RoomOf DEF MustEnqueue
      <3>. QED BY <3>1, <3>2
    <2>. QED BY <2>1, <2>2 DEF Promise!Arrive, Promise!Wait
  <1>6. ASSUME NEW i \in Instances, Enqueued(queue, i).head = Null
        PROVE  /\ waiting = <<>> /\ Promise!HasRoom(Slots)
               /\ Enqueued(queue, i).parallelism = queue.parallelism
    <2>1. Enqueued(queue, i) = WithActive(queue) /\ waiting = <<>>
      BY <1>0, <1>6, EnqueuedActive
    <2>2. ~MustEnqueue(queue)
      <3>1. SUFFICES ASSUME MustEnqueue(queue) PROVE FALSE
        OBVIOUS
      <3>2. queue.tail = Null
        BY <1>0, <2>1 DEF RowMatches
      <3>3. Enqueued(queue, i) = WithQueued(queue, i, i)
        BY <3>1, <3>2, InstancesAssumption DEF Enqueued
      <3>. QED BY <3>3, <1>6, InstancesAssumption DEF WithQueued
    <2>3. Promise!HasRoom(Slots)
      BY <1>0, <2>2, RoomOf DEF MustEnqueue
    <2>. QED BY <1>0, <2>1, <2>3 DEF WithActive, Queue
  <1>7. ASSUME NEW i \in Instances, CreateProcessInstance(i) PROVE Promise!Arrive(i)
    <2>1. PICK s \in Active : state' = [state EXCEPT ![i] = s]
      BY <1>7 DEF CreateProcessInstance, InitialStates, Active
    <2>2. /\ i \notin Arrived /\ Arrived' = Arrived \cup {i}
          /\ Slots' = Slots \cup {i} /\ waiting' = waiting
          /\ queue'.parallelism = queue.parallelism
      BY <1>0, <1>6, <1>7, <2>1 DEF CreateProcessInstance, Slots, Active
    <2>. QED BY <1>6, <1>7, <2>2 DEF CreateProcessInstance, Promise!Arrive, Promise!Run
  <1>8. ASSUME NEW i \in Instances, CreateAndComplete(i) PROVE Promise!Arrive(i)
    <2>1. waiting = <<>> /\ Promise!HasRoom(Slots) /\ Enqueued(queue, i).head = Null
      BY <1>6, <1>8 DEF CreateAndComplete
    <2>2. /\ Enqueued(queue, i) \in Queue /\ RowMatches(Enqueued(queue, i))
          /\ Enqueued(queue, i).parallelism = queue.parallelism
      BY <1>0, <1>6, <2>1, EnqueuedActive
    <2>3. NobodyStarted(startTasks)
      BY <1>0, <1>8, <2>1, <2>2, ReleaseLine DEF CreateAndComplete, HeadStarted
    <2>4. queue'.parallelism = queue.parallelism
      BY <1>0, <1>8, <2>2 DEF CreateAndComplete, Release, StartHead, Popped, Queue
    <2>5. i \notin Arrived /\ Arrived' = Arrived \cup {i} /\ Slots' = Slots
      BY <1>0, <1>8, <2>3 DEF CreateAndComplete, NobodyStarted, Slots, Active
    <2>. QED BY <2>1, <2>3, <2>4, <2>5
             DEF NobodyStarted, Promise!Arrive, Promise!RunAndLeave
  <1>9. ASSUME NEW i \in Instances, SuspendProcessInstance(i) \/ ResumeProcessInstance(i)
        PROVE  Hidden
    BY <1>0, <1>9 DEF SuspendProcessInstance, ResumeProcessInstance, Slots, Active
  <1>10. ASSUME NEW i \in Instances, CompleteProcessInstance(i) PROVE Promise!Leave(i)
    BY <1>0, <1>10, ReleaseView DEF CompleteProcessInstance, Slots, Ended
  <1>11. ASSUME NEW i \in Instances, ExecuteStart(i) \/ CancelStart(i) PROVE Hidden
    BY <1>0, <1>11 DEF ExecuteStart, CancelStart, Without, Slots, Active
  <1>12. ASSUME NEW i \in Instances, ExecuteStartToEnd(i) PROVE Promise!Leave(i)
    <2>1. /\ i \in Slots /\ Without(startTasks, i) \in [Instances -> Nat]
          /\ \A j \in Instances : j # i => Without(startTasks, i)[j] = startTasks[j]
      BY <1>0, <1>12 DEF ExecuteStartToEnd, Without, Slots
    <2>2. /\ Release(queue, Without(startTasks, i))
          /\ state' = [state EXCEPT ![i] = "COMPLETED"] /\ "COMPLETED" \in Ended
      BY <1>12 DEF ExecuteStartToEnd, Ended
    <2>. QED BY <2>1, <2>2, ReleaseView
  <1>13. ASSUME NEW i \in Instances, TerminateProcessInstance(i) PROVE Promise!Leave(i)
    <2>1. /\ Release(queue, startTasks) /\ state[i] \in Active \cup {"QUEUED"}
          /\ state' = [state EXCEPT ![i] = "TERMINATED"] /\ "TERMINATED" \in Ended
      BY <1>13 DEF TerminateProcessInstance, Ended
    <2>2. ~IsWaiting(i)
      BY <1>0, <2>1 DEF OnlySlotsGivenBack
    <2>3. i \in Slots
      BY <1>0, <2>1, <2>2 DEF Slots, QueuedOnce
    <2>. QED BY <1>0, <2>1, <2>3, ReleaseView
  <1>. QED BY <1>1, <1>2, <1>3, <1>4, <1>5, <1>7, <1>8, <1>9, <1>10, <1>11, <1>12, <1>13
           DEF Next, Command, StartTask, DequeueTask, Promise!Next

LEMMA InitView == Init => ViewInv /\ Promise!Init
  <1>. SUFFICES ASSUME Init PROVE ViewInv /\ Promise!Init
    OBVIOUS
  <1>1. Slots = {} /\ Ghosts = {} /\ {i \in Instances : state[i] # "NONE"} = {}
    BY DEF Init, Slots, Ghosts, Active
  <1>2. queue.activeCount = 0 /\ queue.parallelism \in Parallelisms /\ waiting = <<>>
    BY DEF Init
  <1>3. ActiveCountLessGhosts
    BY <1>1, <1>2, FS_EmptySet DEF ActiveCountLessGhosts
  <1>. QED BY <1>1, <1>2, <1>3, InitLine DEF ViewInv, CountInv, Promise!Init

LEMMA NextCount == CountInv /\ [Next]_vars => CountInv'
  BY NextLine, NextActiveCount DEF CountInv

(* The queue implements BoundedParallelism, for any number of instances and   *)
(* of children: first come first served, within the limit in force, as long   *)
(* as no child is terminated while it is queued.                              *)
THEOREM PromiseKept == Spec => KeepsPromise
  <1>1. Init => CountInv /\ Promise!Init
    BY InitView DEF ViewInv
  <1>2. CountInv /\ [Next]_vars => (OnlySlotsGivenBack => [Promise!Next]_(Promise!vars))
    BY NextPromise
  <1>3. CountInv /\ [Next]_vars => [OnlySlotsGivenBack => [Promise!Next]_(Promise!vars)]_vars
    BY <1>2
  <1>. QED BY <1>1, <1>3, NextCount, PTL DEF Spec, KeepsPromise

(* An instance is given a slot only if the limit of the latest version then   *)
(* still holds, as "maximum number of parallel process instances" promises,   *)
(* as long as no child is terminated while it is queued.                      *)
THEOREM LimitRespected == Spec => ParallelismRespected
  <1>. DEFINE Limited == OnlySlotsGivenBack /\ Slots' \ Slots # {} =>
                           \/ queue'.parallelism = 0
                           \/ Cardinality(Slots') <= queue'.parallelism
  <1>1. Init => CountInv
    BY InitView DEF ViewInv
  <1>2. ASSUME CountInv, OnlySlotsGivenBack, [Next]_vars PROVE Limited
    <2>. ViewInv
      BY <1>2 DEF ViewInv, OnlySlotsGivenBack
    <2>0. queue.parallelism \in Nat /\ Slots \in SUBSET Instances
          /\ (waiting # <<>> => Head(waiting) \in Instances)
      BY RowView
    <2>1. ASSUME NEW S \in SUBSET Instances, NEW i \in Instances, Promise!HasRoom(S),
                 Slots' = S \cup {i}, queue'.parallelism = queue.parallelism
          PROVE  Limited
      <3>1. queue.parallelism = 0 \/ Cardinality(S) < queue.parallelism
        BY <2>1, RoomOf
      <3>2. /\ Cardinality(S) \in Nat /\ IsFiniteSet(S)
            /\ (i \notin S => Cardinality(S \cup {i}) = Cardinality(S) + 1)
        BY CardinalityOfInstances
      <3>3. i \in S => Cardinality(S \cup {i}) = Cardinality(S)
        <4>1. i \in S => S \cup {i} = S
          OBVIOUS
        <4>. QED BY ONLY <4>1, Zenon
      <3>4. Cardinality(S \cup {i}) \in Nat /\ Cardinality(S \cup {i}) <= Cardinality(S) + 1
        BY <3>2, <3>3
      <3>5. Cardinality(Slots') = Cardinality(S \cup {i})
        BY ONLY <2>1, Zenon
      <3>. QED BY <3>1, <3>2, <3>4, <3>5, <2>0, <2>1
    <2>2. CASE \E i \in Instances : Promise!Arrive(i)
      BY <2>0, <2>1, <2>2 DEF Promise!Arrive, Promise!Run, Promise!Wait, Promise!RunAndLeave
    <2>3. ASSUME NEW S \in SUBSET Slots, Promise!RunFirst(S),
                 queue'.parallelism = queue.parallelism
          PROVE  Limited
      BY <2>0, <2>1, <2>3 DEF Promise!RunFirst
    <2>4. CASE Promise!Admit
      BY <2>3, <2>4 DEF Promise!Admit
    <2>5. CASE \E i \in Instances : Promise!Leave(i)
      BY <2>3, <2>5 DEF Promise!Leave
    <2>6. CASE (\E n \in Parallelisms : Promise!SetLimit(n)) \/ UNCHANGED Promise!vars
      BY <2>6 DEF Promise!SetLimit, Promise!vars
    <2>. QED BY <1>2, NextPromise, <2>2, <2>4, <2>5, <2>6 DEF Promise!Next
  <1>3. CountInv /\ [Next]_vars => Limited
    BY <1>2
  <1>4. CountInv /\ [Next]_vars => [Limited]_vars
    BY <1>3
  <1>. QED BY <1>1, <1>4, NextCount, PTL DEF Spec, ParallelismRespected

(* Without call activities nobody is terminated while queued. *)
NoneTerminated == \A i \in Instances : state[i] # "TERMINATED"

LEMMA NextNoneTerminated ==
  ASSUME Children = {}, LineInv, NoneTerminated, [Next]_vars
  PROVE  NoneTerminated'
  <1>1. state \in [Instances -> InstanceState]
    BY DEF LineInv, TypeOK
  <1>2. CASE UNCHANGED state
    BY <1>2 DEF NoneTerminated
  <1>3. ASSUME NEW i \in Instances, NEW s \in InstanceState \ {"TERMINATED"},
               state' = [state EXCEPT ![i] = s]
        PROVE  NoneTerminated'
    BY <1>1, <1>3 DEF NoneTerminated
  <1>4. ASSUME NEW i \in Instances, Command(i) \/ StartTask(i)
        PROVE  \/ UNCHANGED state
               \/ \E s \in InstanceState \ {"TERMINATED"} : state' = [state EXCEPT ![i] = s]
    BY <1>4 DEF Command, StartTask, QueueProcessInstance, CreateProcessInstance,
                InitialStates, CreateAndComplete, SuspendProcessInstance,
                ResumeProcessInstance, CompleteProcessInstance, TerminateProcessInstance,
                ExecuteStart, ExecuteStartToEnd, CancelStart, InstanceState, Active, Ended
  <1>5. CASE (\E p \in Parallelisms : CreateProcess(p)) \/ DequeueTask \/ UNCHANGED vars
    BY <1>2, <1>5 DEF CreateProcess, DequeueTask, ExecuteDequeue, CancelDequeue, vars
  <1>. QED BY <1>2, <1>3, <1>4, <1>5 DEF Next

(* Then ActiveCount is what its comment says it is, and the queue implements  *)
(* BoundedParallelism without any condition.                                  *)
THEOREM WithoutChildren ==
  ASSUME Children = {}
  PROVE  Spec => []ActiveCountIsSlots /\ Promise!Spec
  <1>. DEFINE I == CountInv /\ NoneTerminated
  <1>1. Init => I /\ Promise!Init
    BY InitView DEF ViewInv, Init, NoneTerminated
  <1>2. I /\ [Next]_vars => I'
    BY NextCount, NextNoneTerminated DEF CountInv
  <1>3. I => ViewInv
    BY DEF ViewInv, NoneTerminated, Ghosts
  <1>4. I => ActiveCountIsSlots
    BY <1>3, RowView DEF ActiveCountIsSlots
  <1>5. I /\ [Next]_vars => OnlySlotsGivenBack
    <2>. SUFFICES ASSUME I, [Next]_vars PROVE OnlySlotsGivenBack
      OBVIOUS
    <2>1. NoneTerminated'
      BY <1>2
    <2>. QED BY <1>3, <2>1 DEF OnlySlotsGivenBack, ViewInv, NoneTerminated
  <1>6. I /\ [Next]_vars => [Promise!Next]_(Promise!vars)
    BY <1>5, NextPromise
  <1>. HIDE DEF I
  <1>. QED BY <1>1, <1>2, <1>4, <1>6, PTL DEF Spec, Promise!Spec

-----------------------------------------------------------------------------

(* A row that is not inserted yet belongs to no work; each other one belongs  *)
(* to the work of a first task; and a completed task keeps its lock, so that  *)
(* nobody locks it again.                                                     *)
RowsOK ==
  /\ \A t \in TaskIds : taskState[t] = "NONE" => origin[t] = None /\ effects[t] = 0
  /\ \A t \in Tasks : origin[t] \in Tasks /\ origin[origin[t]] = origin[t]
  /\ \A t \in completed : lockedBy[t] # None

Inv == TasksTypeOK /\ RowsOK /\ OneExecutor /\ DoneOnce

LEMMA InitInv == TasksInit => Inv
  <1>. SUFFICES ASSUME TasksInit PROVE Inv
    OBVIOUS
  <1>1. Tasks = {}
    BY DEF TasksInit, Tasks
  <1>2. TasksTypeOK /\ RowsOK
    BY <1>1 DEF TasksInit, TasksTypeOK, RowsOK, WorkState
  <1>3. OneExecutor /\ DoneOnce
    BY TasksAssumption DEF TasksInit, OneExecutor, DoneOnce
  <1>. QED BY <1>2, <1>3 DEF Inv

(* What is inserted is a new row of a work, next to rows that stay in being. *)
LEMMA InsertedRows ==
  ASSUME TasksTypeOK, RowsOK, NEW r \in TaskIds, NEW o \in TaskIds, NEW n \in Nat,
         NEW data \in {"NONE", "FULL", "LOST"},
         NEW STATE states, states \in [TaskIds -> WorkState \cup {"NONE"}],
         \A t \in TaskIds : states[t] = "NONE" <=> taskState[t] = "NONE",
         Inserted(states, r, o, n, data)
  PROVE  /\ taskState' \in [TaskIds -> WorkState \cup {"NONE"}]
         /\ origin' \in [TaskIds -> TaskIds \cup {None}]
         /\ retryCount' \in [TaskIds -> Nat]
         /\ payload' \in [TaskIds -> {"NONE", "FULL", "LOST"}]
         /\ r \notin Tasks /\ Tasks' = Tasks \cup {r}
         /\ origin'[r] = o /\ \A t \in TaskIds \ {r} : origin'[t] = origin[t]
  BY DEF TasksTypeOK, Inserted, Tasks, WorkState

LEMMA NothingInsertedRows ==
  ASSUME TasksTypeOK, RowsOK,
         NEW STATE states, states \in [TaskIds -> WorkState \cup {"NONE"}],
         \A t \in TaskIds : states[t] = "NONE" <=> taskState[t] = "NONE",
         NothingInserted(states)
  PROVE  /\ taskState' \in [TaskIds -> WorkState \cup {"NONE"}]
         /\ UNCHANGED <<origin, retryCount, payload>>
         /\ Tasks' = Tasks
  BY DEF TasksTypeOK, NothingInserted, Tasks

LEMMA CompletedRows ==
  ASSUME TasksTypeOK, NEW t \in Tasks, NEW s \in WorkState
  PROVE  /\ Completed(t, s) \in [TaskIds -> WorkState \cup {"NONE"}]
         /\ \A u \in TaskIds : Completed(t, s)[u] = "NONE" <=> taskState[u] = "NONE"
  BY DEF TasksTypeOK, Completed, Tasks, WorkState

(* A step that only locks, unlocks or forgets leaves the work as it is. *)
LEMMA QuietDoneOnce ==
  ASSUME DoneOnce, Tasks' = Tasks, UNCHANGED <<origin, effects, completed, incidents>>
  PROVE  DoneOnce'
  BY DEF DoneOnce, Handles

(* The task t an engine executes is the only handle of its work. *)
LEMMA ExecutedRows ==
  ASSUME Inv, NEW e \in Engines, NEW t \in TaskIds, Executed(e, t)
  PROVE  /\ t \in Tasks /\ t \notin completed /\ t \notin incidents
         /\ lockedBy[t] = e /\ completed' = completed \cup {t} /\ UNCHANGED lockedBy
         /\ failures' \in Nat
         /\ origin[t] \in TaskIds /\ origin[origin[t]] = origin[t]
         /\ Handles(origin[t]) = {t} /\ effects[origin[t]] = 0
         /\ batch' \in [Engines -> SUBSET Tasks]
         /\ \A f \in Engines : batch'[f] \subseteq batch[f]
         /\ \A f \in Engines : t \notin batch'[f]
  <1>1. /\ t \in Tasks /\ t \notin completed /\ t \notin incidents /\ lockedBy[t] = e
        /\ completed' = completed \cup {t} /\ UNCHANGED lockedBy /\ failures' \in Nat
    BY DEF Inv, TasksTypeOK, OneExecutor, Executed
  <1>2. origin[t] \in Tasks /\ origin[t] \in TaskIds /\ origin[origin[t]] = origin[t]
    BY <1>1 DEF Inv, RowsOK, Tasks
  <1>3. t \in Handles(origin[t])
    BY <1>1 DEF Handles
  <1>4. Handles(origin[t]) = {t} /\ effects[origin[t]] = 0
    BY <1>2, <1>3 DEF Inv, DoneOnce
  <1>5. /\ batch' \in [Engines -> SUBSET Tasks]
        /\ \A f \in Engines : batch'[f] \subseteq batch[f]
        /\ t \notin batch'[e]
    BY DEF Inv, TasksTypeOK, Executed
  <1>6. \A f \in Engines : t \notin batch'[f]
    BY <1>1, <1>5 DEF Inv, OneExecutor
  <1>. QED BY <1>1, <1>2, <1>4, <1>5, <1>6

(* One handle of a work is replaced by another. *)
LEMMA ReplacedDoneOnce ==
  ASSUME DoneOnce, effects \in [TaskIds -> Nat], UNCHANGED effects,
         NEW o \in TaskIds, effects[o] = 0,
         NEW h \in TaskIds, Handles(o)' = {h},
         \A p \in TaskIds : p # o /\ origin'[p] = p => origin[p] = p /\ Handles(p)' = Handles(p)
  PROVE  DoneOnce'
  <1>1. ASSUME NEW p \in TaskIds, origin'[p] = p
        PROVE  \/ effects'[p] = 1 /\ Handles(p)' = {}
               \/ effects'[p] = 0 /\ \E t \in TaskIds : Handles(p)' = {t}
    <2>1. CASE p = o
      BY <2>1
    <2>2. CASE p # o
      BY <1>1, <2>2 DEF DoneOnce
    <2>. QED BY <2>1, <2>2
  <1>. QED BY <1>1 DEF DoneOnce

LEMMA NextInv ==
  ASSUME UnlockRunning = FALSE
  PROVE  Inv /\ [TasksNext]_taskVars => Inv'
  <1>. SUFFICES ASSUME Inv, [TasksNext]_taskVars PROVE Inv'
    OBVIOUS
  <1>0. TasksTypeOK /\ RowsOK /\ OneExecutor /\ DoneOnce
    BY DEF Inv
  <1>1. ASSUME NEW r \in TaskIds, InsertTask(r) PROVE Inv'
    <2>1. PICK data \in {"NONE", "FULL"} : Inserted(taskState, r, r, 0, data)
      BY <1>1 DEF InsertTask
    <2>2. /\ taskState' \in [TaskIds -> WorkState \cup {"NONE"}]
          /\ origin' \in [TaskIds -> TaskIds \cup {None}]
          /\ retryCount' \in [TaskIds -> Nat]
          /\ payload' \in [TaskIds -> {"NONE", "FULL", "LOST"}]
          /\ r \notin Tasks /\ Tasks' = Tasks \cup {r}
          /\ origin'[r] = r /\ \A t \in TaskIds \ {r} : origin'[t] = origin[t]
      <3>1. /\ taskState \in [TaskIds -> WorkState \cup {"NONE"}]
            /\ data \in {"NONE", "FULL", "LOST"} /\ 0 \in Nat
        BY <1>0 DEF TasksTypeOK
      <3>. QED BY <1>0, <2>1, <3>1, InsertedRows
    <2>3. UNCHANGED <<lockedBy, completed, incidents, batch, effects, failures>>
      BY <1>1 DEF InsertTask
    <2>4. TasksTypeOK'
      BY <1>0, <2>2, <2>3 DEF TasksTypeOK
    <2>5. RowsOK'
      BY <1>0, <2>2, <2>3 DEF TasksTypeOK, RowsOK, Tasks
    <2>6. OneExecutor'
      BY <1>0, <2>3 DEF OneExecutor
    <2>7. effects[r] = 0
      BY <1>0, <2>2 DEF RowsOK, Tasks
    <2>8. Handles(r)' = {r}
      BY <1>0, <2>2, <2>3 DEF Handles, RowsOK, TasksTypeOK, Tasks
    <2>9. ASSUME NEW p \in TaskIds, p # r, origin'[p] = p
          PROVE  origin[p] = p /\ Handles(p)' = Handles(p)
      BY <1>0, <2>2, <2>3, <2>9 DEF Handles, Tasks
    <2>10. DoneOnce'
      BY <1>0, <2>3, <2>7, <2>8, <2>9, ReplacedDoneOnce DEF TasksTypeOK
    <2>. QED BY <2>4, <2>5, <2>6, <2>10 DEF Inv
  <1>2. ASSUME NEW e \in Engines, LockTasks(e) PROVE Inv'
    <2>1. PICK locked \in SUBSET Lockable \ {{}} :
            /\ lockedBy' = [t \in TaskIds |-> IF t \in locked THEN e ELSE lockedBy[t]]
            /\ taskState' = [t \in TaskIds |-> IF t \in locked THEN "LOCKED" ELSE taskState[t]]
            /\ batch' = [batch EXCEPT ![e] = @ \cup locked]
            /\ UNCHANGED <<completed, retryCount, payload, origin, incidents, effects, failures>>
      BY <1>2 DEF LockTasks
    <2>2. locked \subseteq Tasks /\ \A t \in locked : lockedBy[t] = None /\ t \notin completed
      BY <1>0, <2>1 DEF Lockable, RowsOK
    <2>3. Tasks' = Tasks
      BY <2>1, <2>2 DEF Tasks
    <2>4. TasksTypeOK'
      BY <1>0, <2>1, <2>2, <2>3 DEF TasksTypeOK, WorkState
    <2>5. RowsOK'
      BY <1>0, <2>1, <2>2, <2>3, TasksAssumption DEF TasksTypeOK, RowsOK, Tasks
    <2>6. OneExecutor'
      <3>1. ASSUME NEW f \in Engines, NEW t \in batch'[f]
            PROVE  lockedBy'[t] = f /\ t \notin completed'
        <4>1. CASE t \in locked
          <5>1. t \notin batch[f]
            BY <1>0, <2>2, <4>1, TasksAssumption DEF OneExecutor
          <5>2. f = e
            BY <1>0, <2>1, <3>1, <5>1 DEF TasksTypeOK
          <5>. QED BY <2>1, <2>2, <4>1, <5>2 DEF Tasks
        <4>2. CASE t \notin locked
          <5>1. t \in batch[f] /\ t \in TaskIds
            BY <1>0, <2>1, <3>1, <4>2 DEF TasksTypeOK, Tasks
          <5>. QED BY <1>0, <2>1, <4>2, <5>1 DEF OneExecutor
        <4>. QED BY <4>1, <4>2
      <3>. QED BY <3>1 DEF OneExecutor
    <2>7. DoneOnce'
      BY <1>0, <2>1, <2>3, QuietDoneOnce
    <2>. QED BY <2>4, <2>5, <2>6, <2>7 DEF Inv
  <1>3. ASSUME NEW e \in Engines, NEW t \in TaskIds, TaskDone(e, t) PROVE Inv'
    <2>1. PICK s \in {"DONE", "CANCELED"} : NothingInserted(Completed(t, s))
      BY <1>3 DEF TaskDone
    <2>2. /\ t \in Tasks /\ t \notin completed /\ t \notin incidents
          /\ lockedBy[t] = e /\ completed' = completed \cup {t} /\ UNCHANGED lockedBy
          /\ failures' \in Nat
          /\ origin[t] \in TaskIds /\ origin[origin[t]] = origin[t]
          /\ Handles(origin[t]) = {t} /\ effects[origin[t]] = 0
          /\ batch' \in [Engines -> SUBSET Tasks]
          /\ \A f \in Engines : batch'[f] \subseteq batch[f]
          /\ \A f \in Engines : t \notin batch'[f]
      BY <1>3, ExecutedRows DEF TaskDone
    <2>3. /\ taskState' \in [TaskIds -> WorkState \cup {"NONE"}]
          /\ UNCHANGED <<origin, retryCount, payload>> /\ Tasks' = Tasks
      <3>1. s \in WorkState
        BY DEF WorkState
      <3>. QED BY <1>0, <2>1, <2>2, <3>1, CompletedRows, NothingInsertedRows
    <2>4. effects' = [effects EXCEPT ![origin[t]] = @ + 1] /\ UNCHANGED incidents
      BY <1>3 DEF TaskDone
    <2>5. TasksTypeOK'
      BY <1>0, <2>2, <2>3, <2>4 DEF TasksTypeOK
    <2>6. RowsOK'
      <3>1. taskState'[origin[t]] # "NONE"
        BY <1>0, <2>2, <2>3 DEF RowsOK, Tasks
      <3>2. \A u \in TaskIds : taskState'[u] = "NONE" => origin'[u] = None /\ effects'[u] = 0
        BY <1>0, <2>2, <2>3, <2>4, <3>1 DEF TasksTypeOK, RowsOK, Tasks
      <3>3. /\ \A u \in Tasks' : origin'[u] \in Tasks' /\ origin'[origin'[u]] = origin'[u]
            /\ \A u \in completed' : lockedBy'[u] # None
        BY <1>0, <2>2, <2>3, TasksAssumption DEF RowsOK
      <3>. QED BY <3>2, <3>3 DEF RowsOK
    <2>7. OneExecutor'
      BY <1>0, <2>2 DEF OneExecutor
    <2>8. ASSUME NEW o \in TaskIds, origin'[o] = o
          PROVE  \/ effects'[o] = 1 /\ Handles(o)' = {}
                 \/ effects'[o] = 0 /\ \E u \in TaskIds : Handles(o)' = {u}
      <3>1. CASE o = origin[t]
        <4>1. Handles(o)' = {}
          BY <1>0, <2>2, <2>3, <2>4, <3>1 DEF Handles, TasksTypeOK
        <4>2. effects'[o] = 1
          BY <1>0, <2>2, <2>4, <3>1 DEF TasksTypeOK
        <4>. QED BY <4>1, <4>2
      <3>2. CASE o # origin[t]
        <4>1. Handles(o)' = Handles(o)
          BY <2>2, <2>3, <2>4, <3>2 DEF Handles
        <4>2. effects'[o] = effects[o]
          BY <1>0, <2>4, <3>2 DEF TasksTypeOK
        <4>. QED BY <1>0, <2>3, <2>8, <4>1, <4>2 DEF DoneOnce
      <3>. QED BY <3>1, <3>2
    <2>9. DoneOnce'
      BY <2>8 DEF DoneOnce
    <2>. QED BY <2>5, <2>6, <2>7, <2>9 DEF Inv
  <1>4. ASSUME NEW e \in Engines, NEW t \in TaskIds, TaskRejected(e, t) PROVE Inv'
    <2>1. /\ t \in Tasks /\ t \notin completed /\ t \notin incidents
          /\ lockedBy[t] = e /\ completed' = completed \cup {t} /\ UNCHANGED lockedBy
          /\ failures' \in Nat
          /\ origin[t] \in TaskIds /\ origin[origin[t]] = origin[t]
          /\ Handles(origin[t]) = {t} /\ effects[origin[t]] = 0
          /\ batch' \in [Engines -> SUBSET Tasks]
          /\ \A f \in Engines : batch'[f] \subseteq batch[f]
          /\ \A f \in Engines : t \notin batch'[f]
      BY <1>4, ExecutedRows DEF TaskRejected
    <2>2. UNCHANGED effects
      BY <1>4 DEF TaskRejected
    <2>3. OneExecutor'
      BY <1>0, <2>1 DEF OneExecutor
    <2>4. ASSUME NEW r \in TaskIds, UNCHANGED incidents,
                 Inserted(Completed(t, "CAUSED_RETRY"), r, origin[t], retryCount[t] + 1, payload[t])
          PROVE  Inv'
      <3>1. "CAUSED_RETRY" \in WorkState /\ retryCount[t] + 1 \in Nat
            /\ payload[t] \in {"NONE", "FULL", "LOST"}
        BY <1>0 DEF TasksTypeOK, WorkState
      <3>2. /\ taskState' \in [TaskIds -> WorkState \cup {"NONE"}]
            /\ origin' \in [TaskIds -> TaskIds \cup {None}]
            /\ retryCount' \in [TaskIds -> Nat]
            /\ payload' \in [TaskIds -> {"NONE", "FULL", "LOST"}]
            /\ r \notin Tasks /\ Tasks' = Tasks \cup {r}
            /\ origin'[r] = origin[t] /\ \A u \in TaskIds \ {r} : origin'[u] = origin[u]
        <4>1. PICK states \in [TaskIds -> WorkState \cup {"NONE"}] :
                /\ states = Completed(t, "CAUSED_RETRY")
                /\ \A u \in TaskIds : states[u] = "NONE" <=> taskState[u] = "NONE"
          BY <1>0, <2>1, <3>1, CompletedRows
        <4>2. /\ TasksTypeOK /\ RowsOK /\ origin[t] \in TaskIds
              /\ Inserted(states, r, origin[t], retryCount[t] + 1, payload[t])
          BY <1>0, <2>1, <2>4, <4>1
        <4>. QED BY <3>1, <4>1, <4>2, InsertedRows
      <3>3. TasksTypeOK'
        BY <1>0, <2>1, <2>2, <2>4, <3>2 DEF TasksTypeOK
      <3>4. RowsOK'
        BY <1>0, <2>1, <2>2, <3>2, TasksAssumption DEF TasksTypeOK, RowsOK, Tasks
      <3>5. PICK o \in TaskIds : o = origin[t]
        BY <2>1
      <3>6. Handles(o)' = {r}
        BY <1>0, <2>1, <2>4, <3>2, <3>5 DEF Handles, TasksTypeOK, Tasks
      <3>7. ASSUME NEW p \in TaskIds, p # o, origin'[p] = p
            PROVE  origin[p] = p /\ Handles(p)' = Handles(p)
        BY <1>0, <2>1, <2>4, <3>2, <3>5, <3>7 DEF Handles, RowsOK, Tasks
      <3>8. effects \in [TaskIds -> Nat] /\ effects[o] = 0
        BY <1>0, <2>1, <3>5 DEF TasksTypeOK
      <3>9. DoneOnce'
        BY <1>0, <2>2, <3>6, <3>7, <3>8, ReplacedDoneOnce
      <3>. QED BY <2>3, <3>3, <3>4, <3>9 DEF Inv
    <2>5. ASSUME NothingInserted(Completed(t, "CAUSED_INCIDENT")),
                 incidents' = incidents \cup {t}
          PROVE  Inv'
      <3>1. "CAUSED_INCIDENT" \in WorkState
        BY DEF WorkState
      <3>2. /\ taskState' \in [TaskIds -> WorkState \cup {"NONE"}]
            /\ UNCHANGED <<origin, retryCount, payload>> /\ Tasks' = Tasks
        BY <1>0, <2>1, <2>5, <3>1, CompletedRows, NothingInsertedRows
      <3>3. TasksTypeOK'
        BY <1>0, <2>1, <2>2, <2>5, <3>2 DEF TasksTypeOK
      <3>4. RowsOK'
        BY <1>0, <2>1, <2>2, <3>2, TasksAssumption DEF TasksTypeOK, RowsOK, Tasks
      <3>5. \A p \in TaskIds : Handles(p)' = Handles(p)
        BY <2>1, <2>5, <3>2 DEF Handles
      <3>6. DoneOnce'
        BY <1>0, <2>2, <3>2, <3>5 DEF DoneOnce
      <3>. QED BY <2>3, <3>3, <3>4, <3>6 DEF Inv
    <2>. QED BY <1>4, <2>4, <2>5 DEF TaskRejected
  <1>5. ASSUME NEW e \in Engines, NEW t \in TaskIds, TaskFailed(e, t) PROVE Inv'
    <2>1. /\ batch' \in [Engines -> SUBSET Tasks]
          /\ \A f \in Engines : batch'[f] \subseteq batch[f]
          /\ failures' \in Nat /\ UNCHANGED <<rows, incidents, effects>>
      BY <1>0, <1>5 DEF TaskFailed, TasksTypeOK
    <2>2. TasksTypeOK' /\ RowsOK' /\ OneExecutor'
      BY <1>0, <2>1 DEF TasksTypeOK, RowsOK, OneExecutor, rows, Tasks
    <2>3. DoneOnce'
      BY <1>0, <2>1, QuietDoneOnce DEF rows, Tasks
    <2>. QED BY <2>2, <2>3 DEF Inv
  <1>6. ASSUME NEW e \in Engines, Crash(e) PROVE Inv'
    <2>1. /\ batch' \in [Engines -> SUBSET Tasks]
          /\ \A f \in Engines : batch'[f] \subseteq batch[f]
          /\ failures' \in Nat /\ UNCHANGED <<rows, incidents, effects>>
      BY <1>0, <1>6 DEF Crash, TasksTypeOK
    <2>2. TasksTypeOK' /\ RowsOK' /\ OneExecutor'
      BY <1>0, <2>1 DEF TasksTypeOK, RowsOK, OneExecutor, rows, Tasks
    <2>3. DoneOnce'
      BY <1>0, <2>1, QuietDoneOnce DEF rows, Tasks
    <2>. QED BY <2>2, <2>3 DEF Inv
  <1>7. ASSUME NEW e \in Engines, UnlockTasks(e) PROVE Inv'
    <2>1. PICK unlocked \in SUBSET Unlockable(e) \ {{}} :
            /\ UnlockRunning \/ batch[e] = {}
            /\ lockedBy' = [t \in TaskIds |-> IF t \in unlocked THEN None ELSE lockedBy[t]]
            /\ taskState' = [t \in TaskIds |-> IF t \in unlocked THEN "CREATED" ELSE taskState[t]]
            /\ UNCHANGED <<completed, retryCount, payload, origin, incidents, batch,
                           effects, failures>>
      BY <1>7 DEF UnlockTasks
    <2>2. unlocked \subseteq Tasks /\ \A t \in unlocked : lockedBy[t] = e /\ t \notin completed
      BY <2>1 DEF Unlockable
    <2>3. Tasks' = Tasks
      BY <2>1, <2>2 DEF Tasks
    <2>4. TasksTypeOK'
      BY <1>0, <2>1, <2>3 DEF TasksTypeOK, WorkState
    <2>5. RowsOK'
      BY <1>0, <2>1, <2>2, <2>3 DEF TasksTypeOK, RowsOK, Tasks
    <2>6. OneExecutor'
      <3>1. ASSUME NEW f \in Engines, NEW t \in batch[f] PROVE t \notin unlocked /\ t \in TaskIds
        <4>1. lockedBy[t] = f /\ t \in TaskIds
          BY <1>0 DEF OneExecutor, TasksTypeOK, Tasks
        <4>. QED BY <2>1, <2>2, <4>1
      <3>. QED BY <1>0, <2>1, <3>1 DEF OneExecutor
    <2>7. DoneOnce'
      BY <1>0, <2>1, <2>3, QuietDoneOnce
    <2>. QED BY <2>4, <2>5, <2>6, <2>7 DEF Inv
  <1>8. ASSUME NEW t \in TaskIds, ResolveIncident(t) PROVE Inv'
    <2>1. PICK r \in TaskIds : Inserted(taskState, r, origin[t], 0, Reserialized(payload[t]))
      BY <1>8 DEF ResolveIncident
    <2>2. /\ t \in incidents /\ incidents' = incidents \ {t}
          /\ UNCHANGED <<lockedBy, completed, batch, effects, failures>>
      BY <1>8 DEF ResolveIncident
    <2>3. /\ t \in Tasks /\ t \in completed
          /\ origin[t] \in TaskIds /\ origin[origin[t]] = origin[t] /\ origin[t] \in Tasks
      BY <1>0, <2>2 DEF TasksTypeOK, RowsOK, Tasks
    <2>4. Handles(origin[t]) = {t} /\ effects[origin[t]] = 0
      <3>1. t \in Handles(origin[t])
        BY <2>2, <2>3 DEF Handles
      <3>. QED BY <1>0, <2>3, <3>1 DEF DoneOnce
    <2>5. /\ taskState' \in [TaskIds -> WorkState \cup {"NONE"}]
          /\ origin' \in [TaskIds -> TaskIds \cup {None}]
          /\ retryCount' \in [TaskIds -> Nat]
          /\ payload' \in [TaskIds -> {"NONE", "FULL", "LOST"}]
          /\ r \notin Tasks /\ Tasks' = Tasks \cup {r}
          /\ origin'[r] = origin[t] /\ \A u \in TaskIds \ {r} : origin'[u] = origin[u]
      <3>1. Reserialized(payload[t]) \in {"NONE", "FULL", "LOST"} /\ 0 \in Nat
        BY DEF Reserialized
      <3>2. taskState \in [TaskIds -> WorkState \cup {"NONE"}]
        BY <1>0 DEF TasksTypeOK
      <3>. QED BY <1>0, <2>1, <2>3, <3>1, <3>2, InsertedRows
    <2>6. TasksTypeOK'
      BY <1>0, <2>2, <2>5 DEF TasksTypeOK
    <2>7. RowsOK'
      BY <1>0, <2>2, <2>3, <2>5 DEF TasksTypeOK, RowsOK, Tasks
    <2>8. OneExecutor'
      BY <1>0, <2>2 DEF OneExecutor
    <2>9. PICK o \in TaskIds : o = origin[t]
      BY <2>3
    <2>10. Handles(o)' = {r}
      BY <1>0, <2>2, <2>3, <2>4, <2>5, <2>9 DEF Handles, TasksTypeOK, Tasks
    <2>11. ASSUME NEW p \in TaskIds, p # o, origin'[p] = p
           PROVE  origin[p] = p /\ Handles(p)' = Handles(p)
      BY <1>0, <2>2, <2>3, <2>5, <2>9, <2>11 DEF Handles, RowsOK, Tasks
    <2>12. effects \in [TaskIds -> Nat] /\ effects[o] = 0
      BY <1>0, <2>4, <2>9 DEF TasksTypeOK
    <2>13. DoneOnce'
      BY <1>0, <2>2, <2>10, <2>11, <2>12, ReplacedDoneOnce
    <2>. QED BY <2>6, <2>7, <2>8, <2>13 DEF Inv
  <1>9. CASE UNCHANGED taskVars
    BY <1>0, <1>9 DEF taskVars, rows, Inv, TasksTypeOK, RowsOK, OneExecutor, DoneOnce, Handles, Tasks
  <1>. QED BY <1>1, <1>2, <1>3, <1>4, <1>5, <1>6, <1>7, <1>8, <1>9 DEF TasksNext, Execute

LEMMA Invariance ==
  ASSUME UnlockRunning = FALSE
  PROVE  TasksSpec => []Inv
  BY InitInv, NextInv, PTL DEF TasksSpec

(* The rows, the batches of the engines and the incidents keep their types. *)
THEOREM TasksTypeCorrect ==
  ASSUME UnlockRunning = FALSE
  PROVE  TasksSpec => []TasksTypeOK
  <1>1. Inv => TasksTypeOK
    BY DEF Inv
  <1>. QED BY <1>1, Invariance, PTL

(* The work of a task is done once and until then has exactly one task or    *)
(* incident, however engines crash, tasks fail and are retried.              *)
THEOREM TaskDoneOnce ==
  ASSUME UnlockRunning = FALSE
  PROVE  TasksSpec => []DoneOnce
  <1>1. Inv => DoneOnce
    BY DEF Inv
  <1>. QED BY <1>1, Invariance, PTL

(* No two engines ever execute the same task. *)
THEOREM TaskHasOneExecutor ==
  ASSUME UnlockRunning = FALSE
  PROVE  TasksSpec => []OneExecutor
  <1>1. Inv => OneExecutor
    BY DEF Inv
  <1>. QED BY <1>1, Invariance, PTL
=============================================================================
