----------------------------- MODULE CallsProofs -----------------------------
(***************************************************************************)
(* Proofs about Calls, for any number of process instances, elements,      *)
(* boundary events, codes and clients.                                     *)
(***************************************************************************)
EXTENDS Calls, TLAPS, FiniteSetTheorems

(***************************************************************************)
(* The inductive invariant.  Its parts are stated of rows, so that they    *)
(* can be followed through the operators a step is composed of.            *)
(***************************************************************************)

RowsType == [instance: [Instances -> InstanceState],
             call: [Callers -> InstanceState],
             leaf: [Leaves -> [state: InstanceState, code: Codes \cup {Null}, thrown: Nat]],
             attached: [Boundaries -> Attached],
             jobs: SUBSET Job,
             tasks: SUBSET (TriggerEvent \cup TerminateProcessInstance),
             userTask: [Leaves -> UserTask \cup {Null}]]

(* The elements of an instance are active at most while it is started.       *)
LeafPart(r) ==
  \A l \in Leaves :
    /\ r.leaf[l].state # "QUEUED"
    /\ r.instance[LevelOf[l]] \in {"NONE", "QUEUED"} => r.leaf[l].state = "NONE"
    /\ r.leaf[l].state \in Active => r.instance[LevelOf[l]] = "STARTED"
    /\ kind[l] \in ThrowEvents /\ r.leaf[l].state = "STARTED" => r.leaf[l].code \in Codes
    /\ NewJob("EXECUTE", l) \in r.jobs => kind[l] = "task" /\ r.leaf[l].state # "NONE"
    /\ NewJob("SET_CODE", l) \in r.jobs => kind[l] \in ThrowEvents /\ r.leaf[l].state # "NONE"

UserTaskPart(r) ==
  \A l \in Leaves :
    r.userTask[l] # Null => kind[l] = "userTask" /\ r.userTask[l].state = r.leaf[l].state

(* A call activity and the instance it calls.                                *)
CalledPart(i, r) ==
  /\ r.call[i] # "QUEUED"
  /\ r.instance[i] \in {"NONE", "QUEUED"} => r.call[i] = "NONE"
  /\ r.call[i] \in Active => r.instance[i] = "STARTED"
  /\ r.instance[i + 1] # "NONE" => r.call[i] \in {"STARTED"} \cup Ended
  /\ r.call[i] = "COMPLETED" => r.instance[i + 1] = "COMPLETED"
  /\ NewJob("CALL_PROCESS", i) \in r.jobs =>
       r.instance[i + 1] = "NONE" /\ r.call[i] \in {"STARTED"} \cup Ended
  /\ NewJob("PASS_VARIABLES", i) \in r.jobs => r.instance[i + 1] = "COMPLETED"
  /\ Termination(i + 1) \in r.tasks => r.instance[i + 1] # "NONE" /\ r.call[i] \in Ended
  /\ r.call[i] \in Ended /\ r.instance[i + 1] \in Active => Termination(i + 1) \in r.tasks

CallPart(r) == Termination(1) \notin r.tasks /\ \A i \in Callers : CalledPart(i, r)

(* The state of a call activity and those of its boundary events.            *)
BoundaryPart(r) ==
  /\ \A b \in Boundaries :
       /\ r.call[Boundary[b].level] = "NONE" => r.attached[b].state = "NONE"
       /\ r.call[Boundary[b].level] \in Active => r.attached[b].state = "CREATED"
       /\ r.call[Boundary[b].level] \in Ended => r.attached[b].state \in Ended
       /\ r.call[Boundary[b].level] = "COMPLETED" => r.attached[b].state = "TERMINATED"
       /\ r.call[Boundary[b].level] = "STARTED" => r.attached[b].code # Null
       /\ NewJob("SET_CODE", b) \in r.jobs =>
            r.attached[b].code = Null /\ r.call[Boundary[b].level] # "NONE"
  /\ \A b, c \in Boundaries :
       /\ Boundary[b].level = Boundary[c].level
       /\ r.attached[b].state = "COMPLETED" /\ r.attached[c].state = "COMPLETED"
       => b = c

TaskPart(r) ==
  \A t \in r.tasks \cap TriggerEvent : r.call[Boundary[t.boundary].level] # "NONE"

(* A task that will interrupt call activity i. *)
WillInterrupt(t, i, r) ==
  /\ t \in TriggerEvent /\ t.n = r.attached[t.boundary].n
  /\ Boundary[t.boundary].level = i /\ Boundary[t.boundary].interrupting

StuckPart(r) ==
  \A i \in Callers :
    r.call[i] = "STARTED" /\ r.instance[i + 1] \in Ended =>
      \/ NewJob("PASS_VARIABLES", i) \in r.jobs
      \/ \E t \in r.tasks : WillInterrupt(t, i, r)

RowsInv(r) == /\ r \in RowsType /\ LeafPart(r) /\ CallPart(r) /\ BoundaryPart(r)
              /\ TaskPart(r) /\ StuckPart(r)

(* What a transaction has found holds until it commits. *)
FoundPart ==
  \A i \in Instances : tx[i] # Null =>
    LET l == tx[i].leaf
        b == tx[i].boundary
    IN /\ LevelOf[l] = i /\ instance[i] = "STARTED" /\ leaf[l].state = "STARTED"
       /\ b # Null => /\ Boundary[b].level = i - 1
                      /\ Boundary[b].interrupting => tx[i].n = attached[b].n
       /\ kind[l] = "userTask" => userTask[l] # Null /\ tx[i].client \in Clients
       /\ tx[i].client = Observed => seen = [leaf |-> l, row |-> userTask[l]]

(* A user task that has the revision of a read one is as it has been read. *)
SeenPart ==
  seen # Null =>
    /\ userTask[seen.leaf] # Null
    /\ seen.row.revision <= userTask[seen.leaf].revision
    /\ seen.row.revision = userTask[seen.leaf].revision => seen.row = userTask[seen.leaf]

Inv == TypeOK /\ RowsInv(Rows) /\ UserTaskPart(Rows) /\ FoundPart /\ SeenPart

(* What a transaction of instance i leaves to those of the other instances. *)
Kept(i, r, s) ==
  /\ \A j \in Instances \ {i} : r.instance[j] = "STARTED" =>
       /\ s.instance[j] = "STARTED"
       /\ \A l \in LeavesOf(j) : s.leaf[l] = r.leaf[l] /\ s.userTask[l] = r.userTask[l]
  /\ \A b \in Boundaries : Boundary[b].interrupting /\ r.call[Boundary[b].level] # "NONE" =>
       s.call[Boundary[b].level] # "NONE" /\ s.attached[b].n = r.attached[b].n

-----------------------------------------------------------------------------
(* What the operators do to rows.                                            *)

LEMMA AtMostOne ==
  ASSUME NEW S, \A x, y \in S : x = y
  PROVE  Cardinality(S) <= 1
  <1>1. CASE S = {}
    <2>1. Cardinality(S) = 0
      BY <1>1, FS_EmptySet
    <2>. QED BY ONLY <2>1
  <1>2. ASSUME NEW x \in S PROVE Cardinality(S) <= 1
    <2>1. S = {x}
      OBVIOUS
    <2>2. Cardinality(S) = 1
      BY <2>1, FS_Singleton, Zenon
    <2>. QED BY ONLY <2>2
  <1>. QED BY <1>1, <1>2

LEMMA Levels ==
  /\ Callers \subseteq Instances /\ Instances \subseteq Int /\ 1 \in Instances
  /\ \A i \in Callers : i + 1 \in Instances /\ i + 1 # i /\ i + 1 # 1
  /\ \A i \in Instances : i # 1 => i - 1 \in Callers
  /\ \A l \in Leaves : LevelOf[l] \in Instances
  /\ \A b \in Boundaries : Boundary[b].level \in Callers
  BY CallsAssumption DEF Instances, Callers

LEMMA Records ==
  /\ \A type, of, type2, of2 : NewJob(type, of) = NewJob(type2, of2) <=> type = type2 /\ of = of2
  /\ \A i : Termination(i) \notin TriggerEvent
  /\ \A i, j : Termination(i) = Termination(j) <=> i = j
  BY DEF NewJob, Termination, TriggerEvent

LEMMA RowsTyped ==
  ASSUME NEW r \in RowsType
  PROVE  /\ r.instance \in [Instances -> InstanceState]
         /\ r.call \in [Callers -> InstanceState]
         /\ r.leaf \in [Leaves -> [state: InstanceState, code: Codes \cup {Null}, thrown: Nat]]
         /\ r.attached \in [Boundaries -> Attached]
         /\ r.jobs \subseteq Job
         /\ r.tasks \subseteq TriggerEvent \cup TerminateProcessInstance
         /\ r.userTask \in [Leaves -> UserTask \cup {Null}]
  BY DEF RowsType

LEMMA CompleteRows ==
  ASSUME NEW i \in Instances, NEW r, RowsInv(r), r.instance[i] = "STARTED"
  PROVE  LET s == Complete(i, r)
         IN /\ RowsInv(s) /\ s.call = r.call /\ s.leaf = r.leaf /\ s.attached = r.attached
            /\ s.tasks = r.tasks /\ s.userTask = r.userTask
            /\ \A j \in Instances \ {i} : s.instance[j] = r.instance[j]
  <1>. DEFINE s == Complete(i, r)
              job == NewJob("PASS_VARIABLES", i - 1)
  <1>0. r \in RowsType /\ LeafPart(r) /\ CallPart(r) /\ BoundaryPart(r) /\ TaskPart(r) /\ StuckPart(r)
    BY DEF RowsInv
  <1>1. CASE s = r
    BY <1>1
  <1>2. CASE s # r
    <2>1. /\ \A l \in LeavesOf(i) : r.leaf[l].state \in Ended
          /\ i \in Callers => r.call[i] \in Ended
          /\ s = [r EXCEPT !.instance[i] = "COMPLETED", !.jobs = @ \cup (IF i = 1 THEN {} ELSE {job})]
      BY <1>2 DEF Complete
    <2>2. i # 1 => job \in Job
      BY Levels DEF Job, NewJob
    <2>. HIDE DEF s, job
    <2>3. /\ s \in RowsType
          /\ s.instance = [r.instance EXCEPT ![i] = "COMPLETED"]
          /\ s.jobs = r.jobs \cup (IF i = 1 THEN {} ELSE {job})
          /\ s.call = r.call /\ s.leaf = r.leaf /\ s.attached = r.attached
          /\ s.tasks = r.tasks /\ s.userTask = r.userTask
      BY <1>0, <2>1, <2>2 DEF RowsType, InstanceState, Ended
    <2>4. /\ s.instance[i] = "COMPLETED"
          /\ \A j \in Instances \ {i} : s.instance[j] = r.instance[j]
          /\ \A type, of : NewJob(type, of) \in s.jobs <=>
               NewJob(type, of) \in r.jobs \/ (i # 1 /\ type = "PASS_VARIABLES" /\ of = i - 1)
      BY <1>0, <2>3, RowsTyped, Records DEF job
    <2>5. LeafPart(s)
      BY <1>0, <2>1, <2>3, <2>4, Levels DEF LeafPart, LeavesOf, Active, Ended
    <2>6. CallPart(s)
      BY <1>0, <2>1, <2>3, <2>4, Levels DEF CallPart, CalledPart, Active, Ended
    <2>7. BoundaryPart(s)
      BY <1>0, <2>3, <2>4 DEF BoundaryPart
    <2>8. TaskPart(s)
      BY <1>0, <2>3 DEF TaskPart
    <2>9. StuckPart(s)
      BY <1>0, <2>3, <2>4, Levels DEF StuckPart, WillInterrupt, Ended
    <2>. QED BY <2>3, <2>4, <2>5, <2>6, <2>7, <2>8, <2>9 DEF RowsInv, s
  <1>. QED BY <1>1, <1>2, <1>0

LEMMA KeptAlong ==
  ASSUME NEW i, NEW r, NEW s, NEW t, Kept(i, r, s), Kept(i, s, t)
  PROVE  Kept(i, r, t)
  BY DEF Kept

(* The job is not the one that lets a call activity continue that waits. *)
LEMMA DoneRows ==
  ASSUME NEW i, NEW r, RowsInv(r), NEW job,
         \A c \in Callers : r.call[c] = "STARTED" => job # NewJob("PASS_VARIABLES", c)
  PROVE  LET s == Done(job, r)
         IN /\ RowsInv(s) /\ Kept(i, r, s)
            /\ s.jobs = r.jobs \ {job} /\ s.instance = r.instance /\ s.call = r.call /\ s.leaf = r.leaf
            /\ s.attached = r.attached /\ s.tasks = r.tasks /\ s.userTask = r.userTask
  <1>. DEFINE s == Done(job, r)
  <1>0. r \in RowsType /\ LeafPart(r) /\ CallPart(r) /\ BoundaryPart(r) /\ TaskPart(r) /\ StuckPart(r)
    BY DEF RowsInv
  <1>1. /\ s \in RowsType
        /\ s.jobs = r.jobs \ {job} /\ s.instance = r.instance /\ s.call = r.call /\ s.leaf = r.leaf
        /\ s.attached = r.attached /\ s.tasks = r.tasks /\ s.userTask = r.userTask
    BY <1>0 DEF RowsType, Done
  <1>. HIDE DEF s
  <1>2. LeafPart(s)
    BY <1>0, <1>1 DEF LeafPart
  <1>3. CallPart(s)
    BY <1>0, <1>1 DEF CallPart, CalledPart
  <1>4. BoundaryPart(s)
    BY <1>0, <1>1 DEF BoundaryPart
  <1>5. TaskPart(s)
    BY <1>0, <1>1 DEF TaskPart
  <1>6. StuckPart(s)
    BY <1>0, <1>1 DEF StuckPart, WillInterrupt
  <1>7. Kept(i, r, s)
    BY <1>1 DEF Kept
  <1>. QED BY <1>1, <1>2, <1>3, <1>4, <1>5, <1>6, <1>7 DEF RowsInv, s

(* An active element is written. *)
LEMMA LeafRows ==
  ASSUME NEW r, RowsInv(r), NEW l \in Leaves, r.leaf[l].state \in Active,
         NEW s \in RowsType,
         s = [r EXCEPT !.leaf = s.leaf],
         \A k \in Leaves \ {l} : s.leaf[k] = r.leaf[k],
         s.leaf[l].state \in {r.leaf[l].state, "STARTED", "COMPLETED"},
         kind[l] \in ThrowEvents /\ s.leaf[l].state = "STARTED" => s.leaf[l].code \in Codes
  PROVE  RowsInv(s) /\ Kept(LevelOf[l], r, s)
  <1>0. r \in RowsType /\ LeafPart(r) /\ CallPart(r) /\ BoundaryPart(r) /\ TaskPart(r) /\ StuckPart(r)
    BY DEF RowsInv
  <1>1. /\ s.jobs = r.jobs /\ s.instance = r.instance /\ s.call = r.call
        /\ s.attached = r.attached /\ s.tasks = r.tasks /\ s.userTask = r.userTask
    BY <1>0 DEF RowsType
  <1>2. LeafPart(s)
    BY <1>0, <1>1 DEF LeafPart, Active, Ended
  <1>3. CallPart(s) /\ BoundaryPart(s)
    BY <1>0, <1>1 DEF CallPart, CalledPart, BoundaryPart
  <1>4. TaskPart(s) /\ StuckPart(s)
    BY <1>0, <1>1 DEF TaskPart, StuckPart, WillInterrupt
  <1>5. Kept(LevelOf[l], r, s)
    BY <1>1 DEF Kept, LeavesOf
  <1>. QED BY <1>2, <1>3, <1>4, <1>5 DEF RowsInv

(* The element of an instance is written as a whole. *)
LEMMA LeafWritten ==
  ASSUME NEW r \in RowsType, NEW l \in Leaves,
         NEW x \in [state: InstanceState, code: Codes \cup {Null}, thrown: Nat]
  PROVE  LET s == [r EXCEPT !.leaf[l] = x]
         IN /\ s \in RowsType /\ s = [r EXCEPT !.leaf = s.leaf]
            /\ s.leaf = [r.leaf EXCEPT ![l] = x] /\ s.leaf[l] = x
            /\ \A k \in Leaves \ {l} : s.leaf[k] = r.leaf[k]
            /\ s.instance = r.instance /\ s.call = r.call /\ s.attached = r.attached
            /\ s.jobs = r.jobs /\ s.tasks = r.tasks /\ s.userTask = r.userTask
  <1>1. [r.leaf EXCEPT ![l] = x]
          \in [Leaves -> [state: InstanceState, code: Codes \cup {Null}, thrown: Nat]]
    BY RowsTyped
  <1>. QED BY <1>1 DEF RowsType

LEMMA EndLeafRows ==
  ASSUME NEW r, RowsInv(r), NEW l \in Leaves, r.leaf[l].state \in Active
  PROVE  LET s == EndLeaf(l, r)
         IN /\ RowsInv(s) /\ Kept(LevelOf[l], r, s) /\ s.userTask = r.userTask
            /\ s.leaf = [r.leaf EXCEPT ![l].state = "COMPLETED"]
  <1>. DEFINE ended == [r EXCEPT !.leaf[l].state = "COMPLETED"]
              i == LevelOf[l]
              s == EndLeaf(l, r)
  <1>0. r \in RowsType /\ LeafPart(r) /\ i \in Instances
    BY Levels DEF RowsInv
  <1>1. ended = [r EXCEPT !.leaf[l] = [r.leaf[l] EXCEPT !.state = "COMPLETED"]]
    OBVIOUS
  <1>2. /\ [r.leaf[l] EXCEPT !.state = "COMPLETED"]
             \in [state: InstanceState, code: Codes \cup {Null}, thrown: Nat]
        /\ [r.leaf[l] EXCEPT !.state = "COMPLETED"].state = "COMPLETED"
    BY <1>0, RowsTyped DEF InstanceState, Ended
  <1>3. r.instance[i] = "STARTED"
    BY <1>0 DEF LeafPart
  <1>. HIDE DEF ended
  <1>4. /\ ended \in RowsType /\ ended = [r EXCEPT !.leaf = ended.leaf]
        /\ ended.leaf = [r.leaf EXCEPT ![l].state = "COMPLETED"]
        /\ ended.leaf[l].state = "COMPLETED"
        /\ \A k \in Leaves \ {l} : ended.leaf[k] = r.leaf[k]
        /\ ended.instance = r.instance /\ ended.userTask = r.userTask
    BY <1>0, <1>1, <1>2, LeafWritten
  <1>41. RowsInv(ended) /\ Kept(i, r, ended)
    BY <1>4, LeafRows
  <1>5. /\ RowsInv(s) /\ s.call = ended.call /\ s.leaf = ended.leaf /\ s.attached = ended.attached
        /\ s.tasks = ended.tasks /\ s.userTask = ended.userTask
        /\ \A j \in Instances \ {i} : s.instance[j] = ended.instance[j]
    <2>1. s = Complete(i, ended) /\ ended.instance[i] = "STARTED"
      BY <1>3, <1>4 DEF EndLeaf, ended
    <2>. HIDE DEF s
    <2>. QED BY <1>0, <1>41, <2>1, CompleteRows
  <1>6. Kept(i, ended, s)
    BY <1>5 DEF Kept
  <1>. QED BY <1>4, <1>41, <1>5, <1>6, KeptAlong

LEMMA StartCallRows ==
  ASSUME NEW i \in Callers, NEW r, RowsInv(r), r.call[i] = "CREATED"
  PROVE  LET s == StartCall(i, r)
         IN /\ RowsInv(s) /\ Kept(i, r, s)
            /\ s.instance = r.instance /\ s.leaf = r.leaf /\ s.userTask = r.userTask
  <1>. DEFINE s == StartCall(i, r)
              job == NewJob("CALL_PROCESS", i)
  <1>0. r \in RowsType /\ LeafPart(r) /\ CallPart(r) /\ BoundaryPart(r) /\ TaskPart(r) /\ StuckPart(r)
    BY DEF RowsInv
  <1>1. CASE s = r
    BY <1>1 DEF Kept
  <1>2. CASE s # r
    <2>1. /\ \A b \in BoundariesOf(i) : r.attached[b].code # Null
          /\ s = [r EXCEPT !.call[i] = "STARTED", !.jobs = @ \cup {job}]
      BY <1>2 DEF StartCall
    <2>2. job \in Job
      BY DEF Job, NewJob
    <2>. HIDE DEF s, job
    <2>3. /\ s \in RowsType
          /\ s.call = [r.call EXCEPT ![i] = "STARTED"]
          /\ s.jobs = r.jobs \cup {job}
          /\ s.instance = r.instance /\ s.leaf = r.leaf /\ s.attached = r.attached
          /\ s.tasks = r.tasks /\ s.userTask = r.userTask
      BY <1>0, <2>1, <2>2 DEF RowsType, InstanceState, Active
    <2>4. /\ s.call[i] = "STARTED"
          /\ \A c \in Callers \ {i} : s.call[c] = r.call[c]
          /\ \A type, of : NewJob(type, of) \in s.jobs <=>
               NewJob(type, of) \in r.jobs \/ (type = "CALL_PROCESS" /\ of = i)
      BY <1>0, <2>3, RowsTyped, Records DEF job
    <2>5. LeafPart(s)
      BY <1>0, <2>3, <2>4 DEF LeafPart
    <2>6. CallPart(s)
      BY <1>0, <2>3, <2>4, Levels DEF CallPart, CalledPart, Active, Ended
    <2>7. BoundaryPart(s)
      BY <1>0, <2>1, <2>3, <2>4, Levels DEF BoundaryPart, BoundariesOf, Active, Ended
    <2>8. TaskPart(s)
      BY <1>0, <2>3, <2>4, Levels DEF TaskPart, TriggerEvent
    <2>9. StuckPart(s)
      <3>1. r.instance[i + 1] = "NONE"
        BY <1>0, Levels DEF CallPart, CalledPart, Ended
      <3>2. \A c \in Callers : \A t : WillInterrupt(t, c, r) => WillInterrupt(t, c, s)
        BY <2>3 DEF WillInterrupt
      <3>. QED BY <1>0, <2>3, <2>4, <3>1, <3>2 DEF StuckPart, Ended
    <2>10. Kept(i, r, s)
      BY <2>3, <2>4, Levels DEF Kept
    <2>. QED BY <2>3, <2>4, <2>5, <2>6, <2>7, <2>8, <2>9, <2>10 DEF RowsInv, s
  <1>. QED BY <1>0, <1>1, <1>2

(* The instance that is called gets its row while it has none yet. *)
LEMMA EnterRows ==
  ASSUME kind \in [Leaves -> Kinds],
         NEW i \in Instances, NEW r, RowsInv(r), r.instance[i] \in {"NONE", "QUEUED"},
         i # 1 => /\ r.call[i - 1] \in {"STARTED"} \cup Ended
                  /\ r.call[i - 1] \in Ended => Termination(i) \in r.tasks
                  /\ NewJob("CALL_PROCESS", i - 1) \notin r.jobs
  PROVE  LET s == Enter(i, r)
         IN /\ RowsInv(s) /\ Kept(i, r, s)
            /\ \A l \in Leaves : LevelOf[l] # i =>
                 s.leaf[l] = r.leaf[l] /\ s.userTask[l] = r.userTask[l]
            /\ \A l \in Leaves : LevelOf[l] = i =>
                 IF kind[l] = "userTask"
                 THEN /\ s.leaf[l].state = "STARTED"
                      /\ s.userTask[l] = [state |-> "STARTED", revision |-> 1, by |-> Null]
                 ELSE s.userTask[l] = r.userTask[l]
  <1>. DEFINE Entered(l) ==
                [state |-> IF kind[l] \in ThrowEvents THEN "CREATED" ELSE "STARTED",
                 code |-> Null, thrown |-> 0]
              leaves == [l \in Leaves |-> IF l \in LeavesOf(i) THEN Entered(l) ELSE r.leaf[l]]
              userTasks == [l \in Leaves |->
                 IF l \in LeavesOf(i) /\ kind[l] = "userTask"
                 THEN [state |-> "STARTED", revision |-> 1, by |-> Null] ELSE r.userTask[l]]
              executed == {NewJob("EXECUTE", l) : l \in {k \in LeavesOf(i) : kind[k] = "task"}}
              thrown == {NewJob("SET_CODE", l) : l \in {k \in LeavesOf(i) : kind[k] \in ThrowEvents}}
              created == executed \cup thrown
              entered == [r EXCEPT !.instance[i] = "STARTED", !.leaf = leaves,
                                   !.userTask = userTasks,
                                   !.jobs = @ \cup executed \cup thrown]
              attachedTo == [b \in Boundaries |-> IF b \notin BoundariesOf(i) THEN entered.attached[b]
                 ELSE [n |-> 1, state |-> "CREATED",
                       code |-> IF Boundary[b].defined THEN Boundary[b].code ELSE Null]]
              codes == {NewJob("SET_CODE", b) : b \in {a \in BoundariesOf(i) : ~Boundary[a].defined}}
              called == [entered EXCEPT !.call[i] = "CREATED", !.attached = attachedTo,
                                        !.jobs = @ \cup codes]
  <1>0. r \in RowsType /\ LeafPart(r) /\ CallPart(r) /\ BoundaryPart(r) /\ TaskPart(r) /\ StuckPart(r)
    BY DEF RowsInv
  <1>1. RowsInv(entered) /\ Kept(i, r, entered)
        /\ entered.leaf = leaves /\ entered.userTask = userTasks
        /\ entered.instance[i] = "STARTED" /\ entered.call = r.call /\ entered.attached = r.attached
    <2>1. created \in SUBSET Job
      BY DEF LeavesOf, NewJob, Job
    <2>2. leaves \in [Leaves -> [state: InstanceState, code: Codes \cup {Null}, thrown: Nat]]
      BY <1>0, RowsTyped DEF InstanceState, Active
    <2>3. userTasks \in [Leaves -> UserTask \cup {Null}]
      <3>1. [state |-> "STARTED", revision |-> 1, by |-> Null] \in UserTask
        BY DEF UserTask
      <3>. QED BY <1>0, <3>1, RowsTyped
    <2>4. \A type, of : NewJob(type, of) \in created <=>
            \/ type = "EXECUTE" /\ of \in LeavesOf(i) /\ kind[of] = "task"
            \/ type = "SET_CODE" /\ of \in LeavesOf(i) /\ kind[of] \in ThrowEvents
      BY Records
    <2>5. \A l \in Leaves : IF LevelOf[l] = i
            THEN /\ leaves[l].state = IF kind[l] \in ThrowEvents THEN "CREATED" ELSE "STARTED"
                 /\ leaves[l].code = Null
            ELSE leaves[l] = r.leaf[l]
      BY DEF LeavesOf
    <2>6. \A l \in Leaves : LevelOf[l] # i => userTasks[l] = r.userTask[l]
      BY DEF LeavesOf
    <2>. HIDE DEF leaves, userTasks
    <2>7. /\ entered \in RowsType
          /\ entered.instance = [r.instance EXCEPT ![i] = "STARTED"]
          /\ entered.leaf = leaves /\ entered.userTask = userTasks
          /\ entered.jobs = r.jobs \cup created
          /\ entered.call = r.call /\ entered.attached = r.attached /\ entered.tasks = r.tasks
      BY <1>0, <2>1, <2>2, <2>3 DEF RowsType, InstanceState, Active
    <2>. HIDE DEF entered, created
    <2>8. /\ entered.instance[i] = "STARTED"
          /\ \A j \in Instances \ {i} : entered.instance[j] = r.instance[j]
          /\ \A type, of : NewJob(type, of) \in entered.jobs <=>
               NewJob(type, of) \in r.jobs \/ NewJob(type, of) \in created
      BY <1>0, <2>7, RowsTyped
    <2>9. LeafPart(entered)
      BY <1>0, <2>4, <2>5, <2>7, <2>8, Levels DEF LeafPart, LeavesOf, Active, Ended, ThrowEvents, EndEvents
    <2>10. CallPart(entered)
      BY <1>0, <2>4, <2>7, <2>8, Levels DEF CallPart, CalledPart, Active, Ended
    <2>11. BoundaryPart(entered)
      <3>1. \A b \in Boundaries : NewJob("SET_CODE", b) \notin created
        BY <2>4, CallsAssumption DEF LeavesOf
      <3>. QED BY <1>0, <2>7, <2>8, <3>1 DEF BoundaryPart
    <2>12. TaskPart(entered) /\ StuckPart(entered)
      BY <1>0, <2>7, <2>8, Levels DEF TaskPart, StuckPart, WillInterrupt, Ended
    <2>13. Kept(i, r, entered)
      BY <2>5, <2>6, <2>7, <2>8 DEF Kept, LeavesOf
    <2>. QED BY <2>7, <2>8, <2>9, <2>10, <2>11, <2>12, <2>13 DEF RowsInv
  <1>2. \A l \in Leaves :
          /\ LevelOf[l] # i => leaves[l] = r.leaf[l] /\ userTasks[l] = r.userTask[l]
          /\ LevelOf[l] = i =>
               IF kind[l] = "userTask"
               THEN /\ leaves[l].state = "STARTED"
                    /\ userTasks[l] = [state |-> "STARTED", revision |-> 1, by |-> Null]
               ELSE userTasks[l] = r.userTask[l]
    BY DEF LeavesOf, ThrowEvents, EndEvents
  <1>3. Enter(i, r) = IF i \in Callers THEN StartCall(i, called) ELSE entered
    BY DEF Enter
  <1>. HIDE DEF leaves, userTasks, executed, thrown, entered
  <1>4. ASSUME i \in Callers
        PROVE  /\ RowsInv(called) /\ Kept(i, entered, called) /\ called.call[i] = "CREATED"
               /\ called.leaf = entered.leaf /\ called.userTask = entered.userTask
    <2>0. /\ entered \in RowsType /\ LeafPart(entered) /\ CallPart(entered)
          /\ BoundaryPart(entered) /\ TaskPart(entered) /\ StuckPart(entered)
      BY <1>1 DEF RowsInv
    <2>1. codes \in SUBSET Job
      BY DEF BoundariesOf, NewJob, Job
    <2>2. attachedTo \in [Boundaries -> Attached]
      BY <2>0, RowsTyped, CallsAssumption DEF Attached, InstanceState, Active
    <2>3. \A type, of : NewJob(type, of) \in codes <=>
            type = "SET_CODE" /\ of \in BoundariesOf(i) /\ ~Boundary[of].defined
      BY Records
    <2>4. \A b \in Boundaries : IF Boundary[b].level = i
            THEN /\ attachedTo[b].state = "CREATED"
                 /\ ~Boundary[b].defined => attachedTo[b].code = Null
            ELSE attachedTo[b] = entered.attached[b]
      BY <1>1 DEF BoundariesOf
    <2>5. r.call[i] = "NONE"
      BY <1>0, <1>4 DEF CallPart, CalledPart
    <2>. HIDE DEF codes, attachedTo
    <2>6. /\ called \in RowsType
          /\ called.call = [entered.call EXCEPT ![i] = "CREATED"]
          /\ called.attached = attachedTo /\ called.jobs = entered.jobs \cup codes
          /\ called.instance = entered.instance /\ called.leaf = entered.leaf
          /\ called.tasks = entered.tasks /\ called.userTask = entered.userTask
      BY <1>4, <2>0, <2>1, <2>2 DEF RowsType, InstanceState, Active
    <2>. HIDE DEF called
    <2>7. /\ called.call[i] = "CREATED"
          /\ \A c \in Callers \ {i} : called.call[c] = entered.call[c]
          /\ \A type, of : NewJob(type, of) \in called.jobs <=>
               NewJob(type, of) \in entered.jobs \/ NewJob(type, of) \in codes
      BY <1>4, <2>0, <2>6, RowsTyped
    <2>8. LeafPart(called)
      <3>1. \A l \in Leaves : NewJob("SET_CODE", l) \notin codes /\ NewJob("EXECUTE", l) \notin codes
        BY <2>3, CallsAssumption DEF BoundariesOf
      <3>. QED BY <2>0, <2>6, <2>7, <3>1 DEF LeafPart
    <2>9. CallPart(called)
      BY <1>1, <1>4, <2>0, <2>3, <2>5, <2>6, <2>7, Levels DEF CallPart, CalledPart, Active, Ended
    <2>10. BoundaryPart(called)
      BY <1>1, <1>4, <2>0, <2>3, <2>4, <2>5, <2>6, <2>7, Levels
         DEF BoundaryPart, BoundariesOf, Active, Ended
    <2>11. TaskPart(called)
      BY <1>4, <2>0, <2>6, <2>7, Levels DEF TaskPart, TriggerEvent
    <2>12. StuckPart(called)
      <3>1. ASSUME NEW c \in Callers, NEW t, WillInterrupt(t, c, entered), c # i
            PROVE  WillInterrupt(t, c, called)
        BY <2>4, <2>6, <3>1 DEF WillInterrupt, TriggerEvent
      <3>. QED BY <1>4, <2>0, <2>6, <2>7, <3>1 DEF StuckPart
    <2>13. Kept(i, entered, called)
      BY <1>1, <1>4, <2>4, <2>5, <2>6, <2>7, Levels DEF Kept
    <2>. QED BY <2>6, <2>7, <2>8, <2>9, <2>10, <2>11, <2>12, <2>13 DEF RowsInv
  <1>. HIDE DEF called
  <1>5. CASE i \in Callers
    <2>1. /\ RowsInv(StartCall(i, called)) /\ Kept(i, called, StartCall(i, called))
          /\ StartCall(i, called).leaf = leaves /\ StartCall(i, called).userTask = userTasks
      BY <1>1, <1>4, <1>5, StartCallRows
    <2>2. Kept(i, r, StartCall(i, called))
      BY <1>1, <1>4, <1>5, <2>1, KeptAlong
    <2>. QED BY <1>2, <1>3, <1>5, <2>1, <2>2
  <1>6. CASE i \notin Callers
    BY <1>1, <1>2, <1>3, <1>6
  <1>. QED BY <1>5, <1>6

LEMMA QueueRows ==
  ASSUME NEW i \in Callers, NEW r, RowsInv(r), r.instance[i + 1] = "NONE", r.call[i] = "STARTED",
         NewJob("CALL_PROCESS", i) \notin r.jobs
  PROVE  LET s == [r EXCEPT !.instance[i + 1] = "QUEUED"]
         IN RowsInv(s) /\ Kept(i + 1, r, s) /\ s.leaf = r.leaf /\ s.userTask = r.userTask
  <1>. DEFINE s == [r EXCEPT !.instance[i + 1] = "QUEUED"]
  <1>0. /\ r \in RowsType /\ LeafPart(r) /\ CallPart(r) /\ BoundaryPart(r) /\ TaskPart(r) /\ StuckPart(r)
        /\ i + 1 \in Instances
    BY Levels DEF RowsInv
  <1>1. /\ s \in RowsType
        /\ s.instance = [r.instance EXCEPT ![i + 1] = "QUEUED"]
        /\ s.jobs = r.jobs /\ s.call = r.call /\ s.leaf = r.leaf
        /\ s.attached = r.attached /\ s.tasks = r.tasks /\ s.userTask = r.userTask
    BY <1>0 DEF RowsType, InstanceState, Active
  <1>. HIDE DEF s
  <1>2. /\ s.instance[i + 1] = "QUEUED"
        /\ \A j \in Instances \ {i + 1} : s.instance[j] = r.instance[j]
    BY <1>0, <1>1, RowsTyped
  <1>3. LeafPart(s)
    BY <1>0, <1>1, <1>2, Levels DEF LeafPart, Active, Ended
  <1>4. CallPart(s)
    <2>1. /\ r.call[i] \notin Ended /\ r.call[i] # "COMPLETED"
          /\ NewJob("PASS_VARIABLES", i) \notin r.jobs
      BY <1>0 DEF CallPart, CalledPart, Ended
    <2>2. ASSUME NEW c \in Callers, c # i PROVE c + 1 \in Instances \ {i + 1} /\ c \in Instances
      BY <2>2, CallsAssumption DEF Instances, Callers
    <2>3. \A c \in Callers \ {i} :
            /\ s.instance[c + 1] = r.instance[c + 1]
            /\ s.instance[c] \in {"NONE", "QUEUED"} => r.instance[c] \in {"NONE", "QUEUED"}
            /\ r.instance[c] = "STARTED" => s.instance[c] = "STARTED"
      BY <1>0, <1>2, <2>2
    <2>4. s.instance[i] = r.instance[i]
      BY <1>2, Levels
    <2>. QED BY <1>0, <1>1, <1>2, <2>1, <2>3, <2>4 DEF CallPart, CalledPart, Active
  <1>5. BoundaryPart(s) /\ TaskPart(s)
    BY <1>0, <1>1 DEF BoundaryPart, TaskPart
  <1>6. StuckPart(s)
    BY <1>0, <1>1, <1>2, Levels DEF StuckPart, WillInterrupt, Ended
  <1>7. Kept(i + 1, r, s)
    BY <1>1, <1>2 DEF Kept
  <1>. QED BY <1>1, <1>3, <1>4, <1>5, <1>6, <1>7 DEF RowsInv, s

LEMMA BoundaryCodeRows ==
  ASSUME NEW b \in Boundaries, NEW r, RowsInv(r), r.call[Boundary[b].level] = "CREATED",
         NewJob("SET_CODE", b) \notin r.jobs, NEW code \in Codes \cup {AnyCode}
  PROVE  LET s == [r EXCEPT !.attached[b].code = code]
         IN /\ RowsInv(s) /\ Kept(Boundary[b].level, r, s)
            /\ s.call = r.call /\ s.leaf = r.leaf /\ s.userTask = r.userTask
  <1>. DEFINE i == Boundary[b].level
              x == [r.attached[b] EXCEPT !.code = code]
              s == [r EXCEPT !.attached[b].code = code]
  <1>0. /\ r \in RowsType /\ LeafPart(r) /\ CallPart(r) /\ BoundaryPart(r) /\ TaskPart(r) /\ StuckPart(r)
        /\ i \in Callers
    BY Levels DEF RowsInv
  <1>1. x \in Attached /\ x.n = r.attached[b].n /\ x.state = r.attached[b].state
    BY <1>0, RowsTyped DEF Attached
  <1>2. s = [r EXCEPT !.attached = [r.attached EXCEPT ![b] = x]]
    OBVIOUS
  <1>. HIDE DEF x, s
  <1>3. [r.attached EXCEPT ![b] = x] \in [Boundaries -> Attached]
    BY <1>0, <1>1, RowsTyped
  <1>4. /\ s \in RowsType /\ s.attached = [r.attached EXCEPT ![b] = x]
        /\ s.instance = r.instance /\ s.jobs = r.jobs /\ s.call = r.call /\ s.leaf = r.leaf
        /\ s.tasks = r.tasks /\ s.userTask = r.userTask
    BY <1>0, <1>2, <1>3 DEF RowsType
  <1>5. \A a \in Boundaries :
          /\ s.attached[a].n = r.attached[a].n /\ s.attached[a].state = r.attached[a].state
          /\ a # b => s.attached[a] = r.attached[a]
    BY <1>0, <1>1, <1>4, RowsTyped
  <1>6. LeafPart(s) /\ CallPart(s) /\ TaskPart(s)
    BY <1>0, <1>4 DEF LeafPart, CallPart, CalledPart, TaskPart
  <1>7. BoundaryPart(s)
    BY <1>0, <1>4, <1>5 DEF BoundaryPart
  <1>8. StuckPart(s)
    <2>1. \A c \in Callers : \A t : WillInterrupt(t, c, r) => WillInterrupt(t, c, s)
      BY <1>5 DEF WillInterrupt, TriggerEvent
    <2>. QED BY <1>0, <1>4, <2>1 DEF StuckPart
  <1>9. Kept(i, r, s)
    BY <1>4, <1>5 DEF Kept
  <1>. QED BY <1>4, <1>6, <1>7, <1>8, <1>9 DEF RowsInv, s

LEMMA DetachedRows ==
  ASSUME NEW i, NEW at \in [Boundaries -> Attached]
  PROVE  /\ Detached(i, at) \in [Boundaries -> Attached]
         /\ \A b \in Boundaries :
              /\ Detached(i, at)[b].n = at[b].n /\ Detached(i, at)[b].code = at[b].code
              /\ Boundary[b].level # i => Detached(i, at)[b] = at[b]
              /\ Boundary[b].level = i => Detached(i, at)[b].state =
                   IF at[b].state = "CREATED" THEN "TERMINATED" ELSE at[b].state
  BY DEF Detached, BoundariesOf, Attached, InstanceState, Ended

(* A call activity ends: together with its boundary events, and with its    *)
(* called instance unless that has completed.                               *)
LEMMA CallEnds ==
  ASSUME NEW i \in Callers, NEW r, RowsInv(r), r.call[i] \in Active,
         NEW s \in RowsType, s.instance = r.instance, s.leaf = r.leaf, s.userTask = r.userTask,
         \A j \in Callers \ {i} : s.call[j] = r.call[j],
         s.call[i] \in Ended,
         s.call[i] = "COMPLETED" => r.instance[i + 1] = "COMPLETED",
         \A x \in s.tasks : x \in r.tasks \/ (x = Termination(i + 1) /\ r.instance[i + 1] \in Active),
         \A x \in r.tasks \ s.tasks : x \in TriggerEvent /\ Boundary[x.boundary].level = i,
         r.instance[i + 1] \in Active => Termination(i + 1) \in s.tasks,
         s.jobs \subseteq r.jobs,
         \A j \in Callers \ {i} : NewJob("PASS_VARIABLES", j) \in r.jobs => NewJob("PASS_VARIABLES", j) \in s.jobs,
         \A a \in Boundaries : s.attached[a].n = r.attached[a].n /\ s.attached[a].code = r.attached[a].code,
         \A a \in Boundaries : Boundary[a].level # i => s.attached[a].state = r.attached[a].state,
         \A a \in Boundaries : Boundary[a].level = i =>
           /\ s.attached[a].state \in Ended
           /\ s.call[i] = "COMPLETED" => s.attached[a].state = "TERMINATED",
         \A a, b \in Boundaries :
           Boundary[a].level = i /\ Boundary[b].level = i
             /\ s.attached[a].state = "COMPLETED" /\ s.attached[b].state = "COMPLETED" => a = b
  PROVE  RowsInv(s) /\ Kept(i, r, s)
  <1>0. /\ r \in RowsType /\ LeafPart(r) /\ CallPart(r) /\ BoundaryPart(r) /\ TaskPart(r) /\ StuckPart(r)
        /\ s.call[i] # "NONE"
    BY DEF RowsInv, Ended
  <1>1. LeafPart(s)
    BY <1>0 DEF LeafPart
  <1>2. CallPart(s)
    <2>1. \A j \in Instances : Termination(j) \in s.tasks <=>
            Termination(j) \in r.tasks \/ (j = i + 1 /\ r.instance[i + 1] \in Active)
      BY Records
    <2>2. ASSUME NEW c \in Callers, c # i PROVE c + 1 \in Instances /\ c + 1 # i + 1
      BY <2>2, CallsAssumption DEF Instances, Callers
    <2>3. \A c \in Callers \ {i} :
            s.call[c] = r.call[c] /\ (Termination(c + 1) \in s.tasks <=> Termination(c + 1) \in r.tasks)
      <3>. SUFFICES ASSUME NEW c \in Callers, c # i
                    PROVE  Termination(c + 1) \in s.tasks <=> Termination(c + 1) \in r.tasks
        OBVIOUS
      <3>1. PICK j : j = c + 1
        OBVIOUS
      <3>2. j \in Instances /\ j # i + 1
        BY <2>2, <3>1
      <3>3. Termination(j) \in s.tasks <=> Termination(j) \in r.tasks
        BY <2>1, <3>2
      <3>. QED BY <3>1, <3>3
    <2>4. Termination(1) \notin s.tasks
      BY <1>0, <2>1, Levels DEF CallPart, CalledPart
    <2>5. /\ s.call[i] # "QUEUED" /\ r.instance[i] = "STARTED"
          /\ r.call[i] \notin Ended
      BY <1>0 DEF CallPart, CalledPart, Active, Ended
    <2>6. Termination(i + 1) \in s.tasks => r.instance[i + 1] # "NONE"
      BY <1>0, <2>1, Levels DEF CallPart, CalledPart, Active
    <2>7. \A c \in Callers : CalledPart(c, r)
      BY <1>0 DEF CallPart
    <2>8. \A c \in Callers \ {i} : CalledPart(c, s)
      BY <2>3, <2>7 DEF CalledPart
    <2>9. CalledPart(i, s)
      BY <2>5, <2>6, <2>7 DEF CalledPart
    <2>. QED BY <2>4, <2>8, <2>9 DEF CallPart
  <1>3. BoundaryPart(s)
    <2>1. \A b \in Boundaries : Boundary[b].level # i =>
            s.call[Boundary[b].level] = r.call[Boundary[b].level]
      BY Levels
    <2>2. s.call[i] \notin Active /\ s.call[i] # "STARTED" /\ r.call[i] # "NONE"
      BY DEF Active, Ended
    <2>. QED BY <1>0, <2>1, <2>2 DEF BoundaryPart
  <1>4. TaskPart(s)
    <2>1. s.tasks \cap TriggerEvent \subseteq r.tasks
      BY Records
    <2>2. \A t \in TriggerEvent : Boundary[t.boundary].level \in Callers
      BY Levels DEF TriggerEvent
    <2>. QED BY <1>0, <2>1, <2>2 DEF TaskPart
  <1>5. StuckPart(s)
    <2>1. \A c \in Callers : \A t : WillInterrupt(t, c, r) => WillInterrupt(t, c, s)
      BY DEF WillInterrupt, TriggerEvent
    <2>2. ASSUME NEW c \in Callers \ {i}, NEW t \in r.tasks, WillInterrupt(t, c, r)
          PROVE  t \in s.tasks
      BY <2>2 DEF WillInterrupt
    <2>. QED BY <1>0, <2>1, <2>2 DEF StuckPart, Ended
  <1>6. Kept(i, r, s)
    BY <1>0, Levels DEF Kept
  <1>. QED BY <1>1, <1>2, <1>3, <1>4, <1>5, <1>6 DEF RowsInv

LEMMA PassRows ==
  ASSUME NEW i \in Callers, NEW r, RowsInv(r), NewJob("PASS_VARIABLES", i) \in r.jobs,
         r.call[i] \notin Ended
  PROVE  LET s == [Done(NewJob("PASS_VARIABLES", i), r) EXCEPT
                     !.call[i] = "COMPLETED", !.attached = Detached(i, @)]
         IN /\ RowsInv(s) /\ Kept(i, r, s)
            /\ s.instance = r.instance /\ s.leaf = r.leaf /\ s.userTask = r.userTask
  <1>. DEFINE job == NewJob("PASS_VARIABLES", i)
              s == [Done(job, r) EXCEPT !.call[i] = "COMPLETED", !.attached = Detached(i, @)]
  <1>0. /\ r \in RowsType /\ CallPart(r) /\ BoundaryPart(r)
        /\ r.attached \in [Boundaries -> Attached]
    BY RowsTyped DEF RowsInv
  <1>1. r.instance[i + 1] = "COMPLETED" /\ r.call[i] = "STARTED"
    BY <1>0 DEF CallPart, CalledPart, Ended
  <1>2. Detached(i, r.attached) \in [Boundaries -> Attached]
    BY <1>0, DetachedRows
  <1>3. /\ s \in RowsType
        /\ s.call = [r.call EXCEPT ![i] = "COMPLETED"] /\ s.attached = Detached(i, r.attached)
        /\ s.jobs = r.jobs \ {job} /\ s.instance = r.instance /\ s.leaf = r.leaf
        /\ s.tasks = r.tasks /\ s.userTask = r.userTask
    BY <1>0, <1>2 DEF RowsType, Done, InstanceState, Ended
  <1>. HIDE DEF s
  <1>4. /\ s.call[i] = "COMPLETED" /\ \A j \in Callers \ {i} : s.call[j] = r.call[j]
        /\ \A j \in Callers \ {i} : NewJob("PASS_VARIABLES", j) \in r.jobs => NewJob("PASS_VARIABLES", j) \in s.jobs
    BY <1>0, <1>3, RowsTyped, Records
  <1>5. \A a \in Boundaries : Boundary[a].level = i => r.attached[a].state = "CREATED"
    BY <1>0, <1>1 DEF BoundaryPart, Active
  <1>6. /\ \A a \in Boundaries :
             s.attached[a].n = r.attached[a].n /\ s.attached[a].code = r.attached[a].code
        /\ \A a \in Boundaries : Boundary[a].level # i => s.attached[a].state = r.attached[a].state
        /\ \A a \in Boundaries : Boundary[a].level = i => s.attached[a].state = "TERMINATED"
    BY <1>0, <1>3, <1>5, DetachedRows
  <1>7. RowsInv(s) /\ Kept(i, r, s)
    <2>1. /\ r.call[i] \in Active /\ s.call[i] \in Ended /\ "TERMINATED" \in Ended
          /\ r.instance[i + 1] \notin Active
      BY <1>1, <1>4 DEF Active, Ended
    <2>2. s.jobs \subseteq r.jobs
      BY <1>3
    <2>3. \A a, b \in Boundaries :
            Boundary[a].level = i /\ Boundary[b].level = i
              /\ s.attached[a].state = "COMPLETED" /\ s.attached[b].state = "COMPLETED" => a = b
      BY <1>6
    <2>4. \A a \in Boundaries : Boundary[a].level = i =>
            /\ s.attached[a].state \in Ended
            /\ s.call[i] = "COMPLETED" => s.attached[a].state = "TERMINATED"
      BY <1>6, <2>1
    <2>5. /\ \A x \in s.tasks : x \in r.tasks \/ (x = Termination(i + 1) /\ r.instance[i + 1] \in Active)
          /\ \A x \in r.tasks \ s.tasks : x \in TriggerEvent /\ Boundary[x.boundary].level = i
      BY <1>3
    <2>. QED BY <1>1, <1>3, <1>4, <1>6, <2>1, <2>2, <2>3, <2>4, <2>5, CallEnds
  <1>. QED BY <1>3, <1>7 DEF s

(* Boundary event b is started, after the task t has been done, if any. *)
LEMMA StartBoundaryEventRows ==
  ASSUME NEW b \in Boundaries, NEW r, RowsInv(r), r.attached[b].state = "CREATED",
         NEW o, o = [r EXCEPT !.tasks = o.tasks], o.tasks \subseteq r.tasks,
         \A x \in r.tasks \ o.tasks : x \in TriggerEvent /\ x.boundary = b
  PROVE  LET s == startBoundaryEvent(b, o)
         IN RowsInv(s) /\ Kept(Boundary[b].level, r, s) /\ s.leaf = r.leaf /\ s.userTask = r.userTask
  <1>. DEFINE i == Boundary[b].level
              s == startBoundaryEvent(b, o)
  <1>0. /\ r \in RowsType /\ LeafPart(r) /\ CallPart(r) /\ BoundaryPart(r) /\ TaskPart(r) /\ StuckPart(r)
        /\ i \in Callers /\ i \in Instances
    BY Levels DEF RowsInv
  <1>1. /\ o \in RowsType
        /\ o.instance = r.instance /\ o.call = r.call /\ o.leaf = r.leaf /\ o.attached = r.attached
        /\ o.jobs = r.jobs /\ o.userTask = r.userTask
    BY <1>0 DEF RowsType
  <1>2. r.call[i] \in {"CREATED", "STARTED"} /\ r.instance[i] = "STARTED"
    <2>1. r.call[i] \in Active
      BY <1>0, RowsTyped DEF BoundaryPart, InstanceState, Ended
    <2>. QED BY <1>0, <2>1 DEF CallPart, CalledPart, Active
  <1>3. CASE ~Boundary[b].interrupting
    <2>. DEFINE x == [r.attached[b] EXCEPT !.n = @ + 1]
    <2>1. s = [o EXCEPT !.attached = [r.attached EXCEPT ![b] = x]]
      BY <1>1, <1>3 DEF startBoundaryEvent
    <2>2. x \in Attached /\ x.state = r.attached[b].state /\ x.code = r.attached[b].code
      BY <1>0, RowsTyped DEF Attached
    <2>. HIDE DEF s, x
    <2>3. [r.attached EXCEPT ![b] = x] \in [Boundaries -> Attached]
      BY <1>0, <2>2, RowsTyped
    <2>4. /\ s \in RowsType /\ s.attached = [r.attached EXCEPT ![b] = x]
          /\ s.instance = r.instance /\ s.jobs = r.jobs /\ s.call = r.call /\ s.leaf = r.leaf
          /\ s.tasks = o.tasks /\ s.userTask = r.userTask
      BY <1>1, <2>1, <2>3 DEF RowsType
    <2>5. \A a \in Boundaries :
            /\ s.attached[a].state = r.attached[a].state /\ s.attached[a].code = r.attached[a].code
            /\ a # b => s.attached[a] = r.attached[a]
      BY <1>0, <2>2, <2>4, RowsTyped
    <2>6. LeafPart(s) /\ TaskPart(s)
      BY <1>0, <2>4 DEF LeafPart, TaskPart
    <2>7. CallPart(s)
      <3>1. \A j : Termination(j) \in s.tasks <=> Termination(j) \in r.tasks
        BY <2>4, Records
      <3>. QED BY <1>0, <2>4, <3>1 DEF CallPart, CalledPart
    <2>8. BoundaryPart(s)
      BY <1>0, <2>4, <2>5 DEF BoundaryPart
    <2>9. StuckPart(s)
      <3>1. ASSUME NEW c \in Callers, NEW t \in r.tasks, WillInterrupt(t, c, r)
            PROVE  t \in s.tasks /\ WillInterrupt(t, c, s)
        BY <1>3, <2>4, <2>5, <3>1 DEF WillInterrupt, TriggerEvent
      <3>. QED BY <1>0, <2>4, <3>1 DEF StuckPart
    <2>10. Kept(i, r, s)
      BY <1>3, <2>4, <2>5 DEF Kept
    <2>. QED BY <2>4, <2>6, <2>7, <2>8, <2>9, <2>10 DEF RowsInv, s
  <1>4. CASE Boundary[b].interrupting
    <2>. DEFINE x == [r.attached[b] EXCEPT !.state = "COMPLETED"]
                at == [r.attached EXCEPT ![b] = x]
                m == [o EXCEPT !.attached = Detached(i, at), !.tasks = @ \cup TerminateTask(i, o),
                               !.call[i] = "TERMINATED"]
    <2>1. s = Complete(i, m)
      <3>1. [[o EXCEPT !.attached[b].state = "COMPLETED"]
               EXCEPT !.tasks = @ \cup TerminateTask(i, o), !.call[i] = "TERMINATED",
                      !.attached = Detached(i, @)] = m
        BY <1>1 DEF RowsType
      <3>. QED BY <1>4, <3>1 DEF startBoundaryEvent
    <2>2. /\ x \in Attached /\ x.state = "COMPLETED" /\ x.n = r.attached[b].n
          /\ x.code = r.attached[b].code
      BY <1>0, RowsTyped DEF Attached, InstanceState, Ended
    <2>. HIDE DEF x
    <2>3. /\ at \in [Boundaries -> Attached] /\ at[b] = x
          /\ \A a \in Boundaries \ {b} : at[a] = r.attached[a]
      BY <1>0, <2>2, RowsTyped
    <2>. HIDE DEF at
    <2>4. Detached(i, at) \in [Boundaries -> Attached]
      BY <2>3, DetachedRows
    <2>5. TerminateTask(i, o) = IF r.instance[i + 1] \in Active THEN {Termination(i + 1)} ELSE {}
      BY <1>0, <1>1, <1>2 DEF TerminateTask, Active
    <2>6. TerminateTask(i, o) \subseteq TerminateProcessInstance
      BY <1>0, <2>5, Levels DEF Termination, TerminateProcessInstance
    <2>7. /\ m \in RowsType
          /\ m.call = [r.call EXCEPT ![i] = "TERMINATED"] /\ m.attached = Detached(i, at)
          /\ m.tasks = o.tasks \cup TerminateTask(i, o)
          /\ m.instance = r.instance /\ m.leaf = r.leaf /\ m.jobs = r.jobs
          /\ m.userTask = r.userTask
      BY <1>0, <1>1, <2>4, <2>6 DEF RowsType, InstanceState, Ended
    <2>. HIDE DEF m, s
    <2>8. m.call[i] = "TERMINATED" /\ \A j \in Callers \ {i} : m.call[j] = r.call[j]
      BY <1>0, <2>7, RowsTyped
    <2>9. \A a \in Boundaries : Boundary[a].level = i => r.attached[a].state = "CREATED"
      BY <1>0, <1>2 DEF BoundaryPart, Active
    <2>10. \A a \in Boundaries :
             /\ m.attached[a].n = r.attached[a].n /\ m.attached[a].code = r.attached[a].code
             /\ Boundary[a].level # i => m.attached[a].state = r.attached[a].state
             /\ Boundary[a].level = i =>
                  m.attached[a].state = IF a = b THEN "COMPLETED" ELSE "TERMINATED"
      BY <2>2, <2>3, <2>7, <2>9, DetachedRows
    <2>11. /\ \A y \in m.tasks : y \in r.tasks \/ (y = Termination(i + 1) /\ r.instance[i + 1] \in Active)
           /\ \A y \in r.tasks \ m.tasks : y \in TriggerEvent /\ Boundary[y.boundary].level = i
           /\ r.instance[i + 1] \in Active => Termination(i + 1) \in m.tasks
      <3>1. \A y : y \in m.tasks <=>
              y \in o.tasks \/ (y = Termination(i + 1) /\ r.instance[i + 1] \in Active)
        <4>1. CASE r.instance[i + 1] \in Active
          BY <2>5, <2>7, <4>1
        <4>2. CASE r.instance[i + 1] \notin Active
          BY <2>5, <2>7, <4>2
        <4>. QED BY <4>1, <4>2
      <3>2. \A y \in r.tasks \ m.tasks : y \in TriggerEvent /\ y.boundary = b
        BY <3>1
      <3>. QED BY <3>1, <3>2
    <2>12. RowsInv(m) /\ Kept(i, r, m)
      <3>1. /\ r.call[i] \in Active /\ m.call[i] \in Ended /\ m.call[i] # "COMPLETED"
            /\ "TERMINATED" \in Ended /\ "COMPLETED" \in Ended
        BY <1>2, <2>8 DEF Active, Ended
      <3>2. \A a, c \in Boundaries :
              Boundary[a].level = i /\ Boundary[c].level = i
                /\ m.attached[a].state = "COMPLETED" /\ m.attached[c].state = "COMPLETED" => a = c
        BY <2>10
      <3>3. \A a \in Boundaries : Boundary[a].level = i => m.attached[a].state \in Ended
        BY <2>10, <3>1
      <3>. QED BY <1>0, <2>7, <2>8, <2>10, <2>11, <3>1, <3>2, <3>3, CallEnds
    <2>13. /\ RowsInv(s) /\ s.call = m.call /\ s.leaf = m.leaf /\ s.attached = m.attached
           /\ s.userTask = m.userTask
           /\ \A j \in Instances \ {i} : s.instance[j] = m.instance[j]
      BY <1>0, <1>2, <2>1, <2>7, <2>12, CompleteRows
    <2>14. Kept(i, m, s)
      BY <2>13 DEF Kept
    <2>. QED BY <2>7, <2>12, <2>13, <2>14, KeptAlong DEF s
  <1>. QED BY <1>3, <1>4

(* A task is inserted that triggers a boundary event of a call activity. *)
LEMMA TaskAddedRows ==
  ASSUME NEW i, NEW r, RowsInv(r), NEW x \in TriggerEvent, r.call[Boundary[x.boundary].level] # "NONE"
  PROVE  LET s == [r EXCEPT !.tasks = @ \cup {x}]
         IN /\ RowsInv(s) /\ Kept(i, r, s)
            /\ s.tasks = r.tasks \cup {x} /\ s.instance = r.instance /\ s.call = r.call
            /\ s.leaf = r.leaf /\ s.attached = r.attached /\ s.userTask = r.userTask
  <1>. DEFINE s == [r EXCEPT !.tasks = @ \cup {x}]
  <1>0. r \in RowsType /\ LeafPart(r) /\ CallPart(r) /\ BoundaryPart(r) /\ TaskPart(r) /\ StuckPart(r)
    BY DEF RowsInv
  <1>1. /\ s \in RowsType
        /\ s.tasks = r.tasks \cup {x} /\ s.instance = r.instance /\ s.call = r.call /\ s.leaf = r.leaf
        /\ s.attached = r.attached /\ s.jobs = r.jobs /\ s.userTask = r.userTask
    BY <1>0 DEF RowsType
  <1>. HIDE DEF s
  <1>2. LeafPart(s) /\ BoundaryPart(s) /\ TaskPart(s)
    BY <1>0, <1>1 DEF LeafPart, BoundaryPart, TaskPart
  <1>3. CallPart(s)
    <2>1. \A j : Termination(j) \in s.tasks <=> Termination(j) \in r.tasks
      BY <1>1, Records
    <2>. QED BY <1>0, <1>1, <2>1 DEF CallPart, CalledPart
  <1>4. StuckPart(s)
    BY <1>0, <1>1 DEF StuckPart, WillInterrupt
  <1>5. Kept(i, r, s)
    BY <1>1 DEF Kept
  <1>. QED BY <1>1, <1>2, <1>3, <1>4, <1>5 DEF RowsInv, s

(* A task is removed that no longer has anything to do. *)
LEMMA TaskDoneRows ==
  ASSUME NEW i, NEW r, RowsInv(r), NEW x,
         \/ \E j \in Instances : x = Termination(j) /\ r.instance[j] \notin Active
         \/ x \in TriggerEvent /\ \A c \in Callers : r.call[c] = "STARTED" => ~WillInterrupt(x, c, r)
  PROVE  LET s == [r EXCEPT !.tasks = @ \ {x}]
         IN /\ RowsInv(s) /\ Kept(i, r, s)
            /\ s.instance = r.instance /\ s.leaf = r.leaf /\ s.userTask = r.userTask
  <1>. DEFINE s == [r EXCEPT !.tasks = @ \ {x}]
  <1>0. r \in RowsType /\ LeafPart(r) /\ CallPart(r) /\ BoundaryPart(r) /\ TaskPart(r) /\ StuckPart(r)
    BY DEF RowsInv
  <1>1. /\ s \in RowsType
        /\ s.tasks = r.tasks \ {x} /\ s.instance = r.instance /\ s.call = r.call /\ s.leaf = r.leaf
        /\ s.attached = r.attached /\ s.jobs = r.jobs /\ s.userTask = r.userTask
    BY <1>0 DEF RowsType
  <1>. HIDE DEF s
  <1>2. LeafPart(s) /\ BoundaryPart(s) /\ TaskPart(s)
    BY <1>0, <1>1 DEF LeafPart, BoundaryPart, TaskPart
  <1>3. CallPart(s)
    <2>1. \A j \in Instances : /\ Termination(j) \in s.tasks => Termination(j) \in r.tasks
                               /\ r.instance[j] \in Active /\ Termination(j) \in r.tasks => Termination(j) \in s.tasks
      BY <1>1, Records
    <2>. QED BY <1>0, <1>1, <2>1, Levels DEF CallPart, CalledPart
  <1>4. StuckPart(s)
    <2>1. ASSUME NEW c \in Callers, r.call[c] = "STARTED", NEW t \in r.tasks, WillInterrupt(t, c, r)
          PROVE  t \in s.tasks /\ WillInterrupt(t, c, s)
      BY <1>1, <2>1, Records DEF WillInterrupt
    <2>. QED BY <1>0, <1>1, <2>1 DEF StuckPart
  <1>5. Kept(i, r, s)
    BY <1>1 DEF Kept
  <1>. QED BY <1>1, <1>2, <1>3, <1>4, <1>5 DEF RowsInv, s

(* Only what is read of user tasks depends on their rows. *)
LEMMA UserTaskRows ==
  ASSUME NEW r, RowsInv(r), NEW l \in Leaves, NEW x \in UserTask
  PROVE  LET s == [r EXCEPT !.userTask[l] = x]
         IN /\ RowsInv(s) /\ Kept(LevelOf[l], r, s)
            /\ s.userTask = [r.userTask EXCEPT ![l] = x] /\ s.instance = r.instance /\ s.leaf = r.leaf
  <1>. DEFINE s == [r EXCEPT !.userTask[l] = x]
  <1>0. r \in RowsType /\ LeafPart(r) /\ CallPart(r) /\ BoundaryPart(r) /\ TaskPart(r) /\ StuckPart(r)
    BY DEF RowsInv
  <1>1. [r.userTask EXCEPT ![l] = x] \in [Leaves -> UserTask \cup {Null}]
    BY <1>0, RowsTyped
  <1>2. /\ s \in RowsType /\ s.userTask = [r.userTask EXCEPT ![l] = x]
        /\ s.tasks = r.tasks /\ s.instance = r.instance /\ s.call = r.call /\ s.leaf = r.leaf
        /\ s.attached = r.attached /\ s.jobs = r.jobs
    BY <1>0, <1>1 DEF RowsType
  <1>. HIDE DEF s
  <1>3. LeafPart(s) /\ BoundaryPart(s) /\ TaskPart(s)
    BY <1>0, <1>2 DEF LeafPart, BoundaryPart, TaskPart
  <1>4. CallPart(s)
    BY <1>0, <1>2 DEF CallPart, CalledPart
  <1>5. StuckPart(s)
    BY <1>0, <1>2 DEF StuckPart, WillInterrupt
  <1>6. Kept(LevelOf[l], r, s)
    BY <1>0, <1>2, RowsTyped DEF Kept, LeavesOf
  <1>. QED BY <1>2, <1>3, <1>4, <1>5, <1>6 DEF RowsInv, s

(* Instance i is terminated, after the task to do so has been done, if any. *)
LEMMA TerminateRows ==
  ASSUME NEW i \in Instances, NEW r, RowsInv(r), r.instance[i] \in Active,
         i # 1 /\ r.call[i - 1] = "STARTED" => \E t \in r.tasks : WillInterrupt(t, i - 1, r),
         NEW o, o = [r EXCEPT !.tasks = o.tasks], o.tasks \in {r.tasks, r.tasks \ {Termination(i)}}
  PROVE  LET s == terminateProcessInstance(i, o)
         IN /\ RowsInv(s) /\ Kept(i, r, s)
            /\ \A l \in Leaves :
                 IF LevelOf[l] = i
                 THEN /\ s.leaf[l].state = IF r.leaf[l].state \in Active THEN "TERMINATED"
                                           ELSE r.leaf[l].state
                      /\ s.userTask[l] =
                           IF r.userTask[l] # Null /\ r.userTask[l].state = "STARTED"
                           THEN TerminatedUserTask(r.userTask[l]) ELSE r.userTask[l]
                 ELSE s.leaf[l] = r.leaf[l] /\ s.userTask[l] = r.userTask[l]
  <1>. DEFINE s == terminateProcessInstance(i, o)
              leaves == [l \in Leaves |-> IF l \in LeavesOf(i) /\ r.leaf[l].state \in Active
                                          THEN [r.leaf[l] EXCEPT !.state = "TERMINATED"] ELSE r.leaf[l]]
              calls == [c \in Callers |-> IF c = i /\ r.call[c] \in Active THEN "TERMINATED" ELSE r.call[c]]
              userTasks == [l \in Leaves |->
                 IF l \in LeavesOf(i) /\ r.userTask[l] # Null /\ r.userTask[l].state = "STARTED"
                 THEN TerminatedUserTask(r.userTask[l]) ELSE r.userTask[l]]
  <1>0. r \in RowsType /\ LeafPart(r) /\ CallPart(r) /\ BoundaryPart(r) /\ TaskPart(r) /\ StuckPart(r)
    BY DEF RowsInv
  <1>1. /\ o \in RowsType
        /\ o.instance = r.instance /\ o.call = r.call /\ o.leaf = r.leaf /\ o.attached = r.attached
        /\ o.jobs = r.jobs /\ o.userTask = r.userTask
    BY <1>0 DEF RowsType
  <1>2. s = [o EXCEPT !.tasks = @ \cup TerminateTask(i, o), !.instance[i] = "TERMINATED",
                      !.leaf = leaves, !.call = calls, !.attached = Detached(i, @),
                      !.userTask = userTasks]
    BY <1>1 DEF terminateProcessInstance
  <1>3. leaves \in [Leaves -> [state: InstanceState, code: Codes \cup {Null}, thrown: Nat]]
    BY <1>0, RowsTyped DEF InstanceState, Ended
  <1>4. calls \in [Callers -> InstanceState]
    BY <1>0, RowsTyped DEF InstanceState, Ended
  <1>5. userTasks \in [Leaves -> UserTask \cup {Null}]
    <2>1. \A x \in UserTask : TerminatedUserTask(x) \in UserTask
      BY DEF UserTask, TerminatedUserTask
    <2>. QED BY <1>0, <2>1, RowsTyped
  <1>6. /\ Detached(i, r.attached) \in [Boundaries -> Attached]
        /\ \A b \in Boundaries :
             /\ Detached(i, r.attached)[b].n = r.attached[b].n
             /\ Detached(i, r.attached)[b].code = r.attached[b].code
             /\ Boundary[b].level # i => Detached(i, r.attached)[b] = r.attached[b]
             /\ Boundary[b].level = i => Detached(i, r.attached)[b].state =
                  IF r.attached[b].state = "CREATED" THEN "TERMINATED" ELSE r.attached[b].state
    BY <1>0, RowsTyped, DetachedRows
  <1>7. TerminateTask(i, o) = IF i \in Callers /\ r.call[i] \in Active /\ r.instance[i + 1] \in Active
                              THEN {Termination(i + 1)} ELSE {}
    BY <1>1 DEF TerminateTask
  <1>8. TerminateTask(i, o) \subseteq TerminateProcessInstance
    BY <1>7, Levels DEF Termination, TerminateProcessInstance
  <1>9. /\ \A l \in Leaves :
             /\ LevelOf[l] # i => leaves[l] = r.leaf[l] /\ userTasks[l] = r.userTask[l]
             /\ LevelOf[l] = i =>
                  /\ leaves[l].state = IF r.leaf[l].state \in Active THEN "TERMINATED" ELSE r.leaf[l].state
                  /\ leaves[l].code = r.leaf[l].code
                  /\ userTasks[l] = IF r.userTask[l] # Null /\ r.userTask[l].state = "STARTED"
                                    THEN TerminatedUserTask(r.userTask[l]) ELSE r.userTask[l]
        /\ \A c \in Callers :
             calls[c] = IF c = i /\ r.call[c] \in Active THEN "TERMINATED" ELSE r.call[c]
    BY <1>0, RowsTyped DEF LeavesOf
  <1>. HIDE DEF leaves, calls, userTasks, s
  <1>10. /\ s \in RowsType
         /\ s.instance = [r.instance EXCEPT ![i] = "TERMINATED"] /\ s.call = calls
         /\ s.leaf = leaves /\ s.attached = Detached(i, r.attached) /\ s.jobs = r.jobs
         /\ s.tasks = o.tasks \cup TerminateTask(i, o) /\ s.userTask = userTasks
    BY <1>1, <1>2, <1>3, <1>4, <1>5, <1>6, <1>8 DEF RowsType, InstanceState, Ended
  <1>11. /\ s.instance[i] = "TERMINATED"
         /\ \A j \in Instances \ {i} : s.instance[j] = r.instance[j]
    BY <1>0, <1>10, RowsTyped
  <1>12. LeafPart(s)
    BY <1>0, <1>9, <1>10, <1>11, Levels DEF LeafPart, Active, Ended
  <1>13. s.tasks \cap TriggerEvent = r.tasks \cap TriggerEvent
    BY <1>7, <1>10, Records
  <1>14. CallPart(s)
    <2>1. \A j \in Instances \ {i} : Termination(j) \in s.tasks <=>
            \/ Termination(j) \in r.tasks
            \/ i \in Callers /\ j = i + 1 /\ r.call[i] \in Active /\ r.instance[j] \in Active
      BY <1>7, <1>10, Records
    <2>2. Termination(i) \in s.tasks => Termination(i) \in r.tasks
      <3>1. i \in Callers => i + 1 # i
        BY Levels
      <3>. QED BY <1>7, <1>10, <3>1, Records
    <2>3. Termination(1) \notin s.tasks
      BY <1>0, <2>1, <2>2, Levels DEF CallPart
    <2>4. ASSUME NEW c \in Callers PROVE CalledPart(c, s)
      <3>1. CalledPart(c, r) /\ c + 1 \in Instances /\ c \in Instances /\ c + 1 # c
        BY <1>0, Levels DEF CallPart
      <3>2. CASE c = i
        BY <1>9, <1>10, <1>11, <2>1, <3>1, <3>2 DEF CalledPart, Active, Ended
      <3>3. CASE c + 1 = i
        BY <1>9, <1>10, <1>11, <2>2, <3>1, <3>3 DEF CalledPart, Active, Ended
      <3>4. CASE c # i /\ c + 1 # i
        <4>1. c + 1 # i + 1
          BY <3>4, CallsAssumption DEF Instances, Callers
        <4>2. Termination(c + 1) \in s.tasks <=> Termination(c + 1) \in r.tasks
          BY <2>1, <3>1, <3>4, <4>1
        <4>. QED BY <1>9, <1>10, <1>11, <3>1, <3>4, <4>2 DEF CalledPart
      <3>. QED BY <3>2, <3>3, <3>4
    <2>. QED BY <2>3, <2>4 DEF CallPart
  <1>15. BoundaryPart(s)
    <2>1. \A b \in Boundaries : calls[Boundary[b].level] =
            IF Boundary[b].level = i /\ r.call[Boundary[b].level] \in Active THEN "TERMINATED"
            ELSE r.call[Boundary[b].level]
      BY <1>9, Levels
    <2>. QED BY <1>0, <1>6, <1>10, <2>1 DEF BoundaryPart, Active, Ended
  <1>16. TaskPart(s)
    <2>1. \A t \in TriggerEvent : Boundary[t.boundary].level \in Callers
      BY Levels DEF TriggerEvent
    <2>. QED BY <1>0, <1>9, <1>10, <1>13, <2>1 DEF TaskPart, Active
  <1>17. StuckPart(s)
    <2>1. ASSUME NEW c \in Callers, NEW t \in r.tasks, WillInterrupt(t, c, r)
          PROVE  t \in s.tasks /\ WillInterrupt(t, c, s)
      BY <1>6, <1>10, <1>13, <2>1 DEF WillInterrupt, TriggerEvent
    <2>2. ASSUME NEW c \in Callers, s.call[c] = "STARTED", s.instance[c + 1] \in Ended
          PROVE  \/ NewJob("PASS_VARIABLES", c) \in s.jobs
                 \/ \E t \in s.tasks : WillInterrupt(t, c, s)
      <3>1. r.call[c] = "STARTED"
        BY <1>9, <1>10, <2>2
      <3>2. CASE c + 1 = i
        <4>1. i # 1 /\ i - 1 = c
          BY <3>2, Levels
        <4>. QED BY <2>1, <3>1, <4>1
      <3>3. CASE c + 1 # i
        <4>1. r.instance[c + 1] \in Ended
          BY <1>11, <2>2, <3>3, Levels
        <4>. QED BY <1>0, <1>10, <2>1, <3>1, <4>1 DEF StuckPart
      <3>. QED BY <3>2, <3>3
    <2>. QED BY <2>2 DEF StuckPart
  <1>18. Kept(i, r, s)
    <2>1. \A b \in Boundaries : r.call[Boundary[b].level] # "NONE" => s.call[Boundary[b].level] # "NONE"
      BY <1>9, <1>10, Levels
    <2>. QED BY <1>6, <1>9, <1>10, <1>11, <2>1 DEF Kept, LeavesOf
  <1>. QED BY <1>9, <1>10, <1>12, <1>14, <1>15, <1>16, <1>17, <1>18 DEF RowsInv, s

-----------------------------------------------------------------------------
(* Steps.                                                                    *)

(* What the transaction that writes r does to user tasks: it raises the      *)
(* revision of those it updates, and an observed client has read them.       *)
UserTaskStep(r) ==
  /\ UserTaskPart(r)
  /\ \A l \in Leaves : userTask[l] # Null /\ r.userTask[l] # userTask[l] =>
       /\ r.userTask[l] # Null /\ r.userTask[l].revision = userTask[l].revision + 1
       /\ userTask[l].state = "STARTED"
       /\ r.userTask[l].by = Observed => seen = [leaf |-> l, row |-> userTask[l]]

LEMMA RowsFields ==
  /\ Rows.instance = instance /\ Rows.call = call /\ Rows.leaf = leaf
  /\ Rows.attached = attached /\ Rows.jobs = jobs /\ Rows.tasks = tasks /\ Rows.userTask = userTask
  BY DEF Rows

LEMMA Written ==
  ASSUME NEW r \in RowsType, Write(r)
  PROVE  Rows' = r
  BY DEF Rows, RowsType, Write

LEMMA RowsInvPrime ==
  ASSUME NEW r, RowsInv(r), Rows' = r, kind' = kind
  PROVE  RowsInv(Rows)'
  <1>0. r \in RowsType /\ LeafPart(r) /\ CallPart(r) /\ BoundaryPart(r) /\ TaskPart(r) /\ StuckPart(r)
    BY DEF RowsInv
  <1>1. LeafPart(Rows)'
    BY <1>0 DEF LeafPart
  <1>2. CallPart(Rows)'
    BY <1>0 DEF CallPart, CalledPart
  <1>3. BoundaryPart(Rows)'
    BY <1>0 DEF BoundaryPart
  <1>4. TaskPart(Rows)'
    BY <1>0 DEF TaskPart
  <1>5. StuckPart(Rows)'
    BY <1>0 DEF StuckPart, WillInterrupt
  <1>. QED BY <1>0, <1>1, <1>2, <1>3, <1>4, <1>5 DEF RowsInv

LEMMA StepInv ==
  ASSUME Inv, NEW i \in Instances, NEW r, RowsInv(r), Kept(i, Rows, r), UserTaskStep(r), Write(r),
         kind' = kind, seen' = seen, ignored' \in BOOLEAN,
         tx' \in [Instances -> Found \cup {Null}], tx'[i] = Null,
         \A j \in Instances \ {i} : tx'[j] = tx[j]
  PROVE  Inv' /\ UpdatesWhatWasRead
  <1>0. r \in RowsType /\ TypeOK /\ RowsInv(Rows) /\ UserTaskPart(Rows) /\ FoundPart /\ SeenPart
    BY DEF Inv, RowsInv
  <1>1. /\ instance' = r.instance /\ call' = r.call /\ leaf' = r.leaf
        /\ attached' = r.attached /\ jobs' = r.jobs /\ tasks' = r.tasks
        /\ userTask' = r.userTask
    BY DEF Write
  <1>2. Rows' = r
    BY <1>0, Written
  <1>3. TypeOK'
    BY <1>0, <1>1, RowsTyped DEF TypeOK
  <1>4. RowsInv(Rows)'
    BY <1>2, RowsInvPrime
  <1>5. UserTaskPart(Rows)'
    BY <1>2 DEF UserTaskPart, UserTaskStep
  <1>6. UpdatesWhatWasRead
    BY <1>1 DEF UpdatesWhatWasRead, UserTaskStep
  <1>7. SeenPart'
    <2>1. CASE seen = Null
      BY <2>1 DEF SeenPart
    <2>2. CASE seen # Null
      <3>1. PICK l \in Leaves : l = seen.leaf
        BY <1>0, <2>2 DEF TypeOK
      <3>2. seen.row \in UserTask /\ userTask[l] \in UserTask
        BY <1>0, <2>2, <3>1 DEF TypeOK, SeenPart
      <3>3. \/ r.userTask[l] = userTask[l]
            \/ r.userTask[l] # Null /\ r.userTask[l].revision = userTask[l].revision + 1
        BY <1>0, <2>2, <3>1 DEF SeenPart, UserTaskStep
      <3>4. /\ userTask[l] # Null /\ seen.row.revision <= userTask[l].revision
            /\ seen.row.revision = userTask[l].revision => seen.row = userTask[l]
        BY <1>0, <2>2, <3>1 DEF SeenPart
      <3>5. seen.row.revision \in Nat /\ userTask[l].revision \in Nat
        BY <3>2 DEF UserTask
      <3>. QED BY <1>1, <3>1, <3>3, <3>4, <3>5 DEF SeenPart
    <2>. QED BY <2>1, <2>2
  <1>8. FoundPart'
    <2>. SUFFICES ASSUME NEW j \in Instances, tx'[j] # Null
                  PROVE  LET l == tx[j].leaf
                             b == tx[j].boundary
                         IN /\ LevelOf[l] = j /\ instance'[j] = "STARTED" /\ leaf'[l].state = "STARTED"
                            /\ b # Null => /\ Boundary[b].level = j - 1
                                           /\ Boundary[b].interrupting => tx[j].n = attached'[b].n
                            /\ kind[l] = "userTask" => userTask'[l] # Null /\ tx[j].client \in Clients
                            /\ tx[j].client = Observed => seen = [leaf |-> l, row |-> userTask'[l]]
      BY DEF FoundPart
    <2>1. j # i /\ tx[j] # Null /\ tx[j] \in Found
      BY <1>0 DEF TypeOK
    <2>2. PICK l \in Leaves : l = tx[j].leaf
      BY <2>1 DEF Found
    <2>3. /\ LevelOf[l] = j /\ instance[j] = "STARTED" /\ leaf[l].state = "STARTED"
          /\ kind[l] = "userTask" => userTask[l] # Null /\ tx[j].client \in Clients
          /\ tx[j].client = Observed => seen = [leaf |-> l, row |-> userTask[l]]
          /\ tx[j].boundary # Null =>
               /\ Boundary[tx[j].boundary].level = j - 1
               /\ Boundary[tx[j].boundary].interrupting => tx[j].n = attached[tx[j].boundary].n
      BY <1>0, <2>1, <2>2 DEF FoundPart
    <2>4. instance'[j] = "STARTED" /\ leaf'[l] = leaf[l] /\ userTask'[l] = userTask[l]
      BY <1>1, <2>1, <2>3, RowsFields DEF Kept, LeavesOf
    <2>5. ASSUME tx[j].boundary # Null, Boundary[tx[j].boundary].interrupting
          PROVE  attached'[tx[j].boundary].n = attached[tx[j].boundary].n
      <3>1. PICK b \in Boundaries : b = tx[j].boundary
        BY <2>1, <2>5 DEF Found
      <3>2. PICK c \in Callers : c = Boundary[b].level
        BY Levels
      <3>3. c + 1 = j
        BY <2>3, <2>5, <3>1, <3>2, Levels
      <3>4. call[c] # "NONE"
        BY <1>0, <2>3, <3>3, RowsFields DEF RowsInv, CallPart, CalledPart, Ended
      <3>. QED BY <1>1, <2>5, <3>1, <3>2, <3>4, RowsFields DEF Kept
    <2>. QED BY <2>1, <2>2, <2>3, <2>4, <2>5
  <1>. QED BY <1>3, <1>4, <1>5, <1>6, <1>7, <1>8 DEF Inv

(* A step that is a transaction of its own. *)
LEMMA OwnStep ==
  ASSUME Inv, NEW i \in Instances, NEW r, RowsInv(r), Kept(i, Rows, r), UserTaskStep(r), Write(r),
         kind' = kind, seen' = seen, tx' = tx, tx[i] = Null, ignored' \in BOOLEAN
  PROVE  Inv' /\ UpdatesWhatWasRead
  <1>1. tx' \in [Instances -> Found \cup {Null}]
    BY DEF Inv, TypeOK
  <1>. QED BY <1>1, StepInv

LEMMA InvFacts ==
  ASSUME Inv
  PROVE  /\ TypeOK /\ RowsInv(Rows) /\ UserTaskPart(Rows) /\ FoundPart /\ SeenPart
         /\ LeafPart(Rows) /\ CallPart(Rows) /\ BoundaryPart(Rows) /\ StuckPart(Rows)
         /\ kind \in [Leaves -> Kinds] /\ ignored \in BOOLEAN
  BY CallsAssumption DEF Inv, TypeOK, RowsInv

(* User tasks stay as they are, and so do the executions that wait for them. *)
LEMMA UserTasksLeftAlone ==
  ASSUME Inv, NEW r, r.userTask = userTask,
         \A l \in Leaves : kind[l] = "userTask" /\ userTask[l] # Null => r.leaf[l].state = leaf[l].state
  PROVE  UserTaskStep(r)
  BY InvFacts, RowsFields DEF UserTaskStep, UserTaskPart

(* A job that does not continue a call activity is completed. *)
LEMMA JobDone ==
  ASSUME Inv, NEW i, NEW job,
         \A c \in Callers : call[c] = "STARTED" => job # NewJob("PASS_VARIABLES", c)
  PROVE  LET s == Done(job, Rows)
         IN /\ RowsInv(s) /\ Kept(i, Rows, s)
            /\ s.jobs = jobs \ {job} /\ s.instance = instance /\ s.call = call /\ s.leaf = leaf
            /\ s.attached = attached /\ s.tasks = tasks /\ s.userTask = userTask
  <1>1. PICK r : r = Rows
    OBVIOUS
  <1>2. RowsInv(r) /\ \A c \in Callers : r.call[c] = "STARTED" => job # NewJob("PASS_VARIABLES", c)
    BY <1>1, InvFacts, RowsFields
  <1>3. LET s == Done(job, r)
        IN /\ RowsInv(s) /\ Kept(i, r, s)
           /\ s.jobs = r.jobs \ {job} /\ s.instance = r.instance /\ s.call = r.call /\ s.leaf = r.leaf
           /\ s.attached = r.attached /\ s.tasks = r.tasks /\ s.userTask = r.userTask
    BY <1>2, DoneRows
  <1>. QED BY <1>1, <1>3, RowsFields

LEMMA CancelJobStep ==
  ASSUME Inv, NEW i \in Instances, NEW job, NEW state, CancelJob(job, i, state),
         \A c \in Callers : call[c] = "STARTED" => job # NewJob("PASS_VARIABLES", c)
  PROVE  Inv' /\ UpdatesWhatWasRead
  <1>. DEFINE r == Done(job, Rows)
  <1>1. /\ RowsInv(r) /\ Kept(i, Rows, r) /\ r.leaf = leaf /\ r.userTask = userTask
    BY JobDone
  <1>2. /\ Write(r) /\ kind' = kind /\ seen' = seen /\ tx' = tx /\ tx[i] = Null
        /\ ignored' \in BOOLEAN
    BY InvFacts DEF CancelJob, Free
  <1>. HIDE DEF r
  <1>3. UserTaskStep(r)
    BY <1>1, UserTasksLeftAlone
  <1>. QED BY <1>1, <1>2, <1>3, OwnStep

LEMMA CallProcessStep ==
  ASSUME Inv, NEW i \in Callers, CallProcess(i)
  PROVE  Inv' /\ UpdatesWhatWasRead
  <1>. DEFINE job == NewJob("CALL_PROCESS", i)
              o == Done(job, Rows)
              entered == Enter(i + 1, o)
              queued == [o EXCEPT !.instance[i + 1] = "QUEUED"]
  <1>1. /\ job \in jobs /\ call[i] \notin Ended /\ (Write(entered) \/ Write(queued))
        /\ kind' = kind /\ seen' = seen /\ tx' = tx /\ ignored' \in BOOLEAN
        /\ i + 1 \in Instances /\ i + 1 # 1 /\ (i + 1) - 1 = i
    BY InvFacts, Levels DEF CallProcess
  <1>2. instance[i + 1] = "NONE" /\ call[i] = "STARTED"
    BY <1>1, InvFacts, RowsFields DEF CallPart, CalledPart
  <1>3. tx[i + 1] = Null
    BY <1>1, <1>2, InvFacts DEF FoundPart
  <1>4. /\ RowsInv(o) /\ Kept(i + 1, Rows, o)
        /\ o.jobs = jobs \ {job} /\ o.instance = instance /\ o.call = call /\ o.leaf = leaf
        /\ o.userTask = userTask
    <2>1. \A c \in Callers : job # NewJob("PASS_VARIABLES", c)
      BY Records
    <2>. HIDE DEF job
    <2>. QED BY <2>1, JobDone
  <1>5. o.call[i] \notin Ended /\ job \notin o.jobs
    BY <1>1, <1>4
  <1>6. \A l \in Leaves : LevelOf[l] = i + 1 => leaf[l].state = "NONE" /\ userTask[l] = Null
    <2>1. \A l \in Leaves : userTask[l] # Null => userTask[l].state # "NONE"
      BY InvFacts DEF TypeOK, UserTask
    <2>. QED BY <1>2, <2>1, InvFacts, RowsFields DEF LeafPart, UserTaskPart
  <1>. HIDE DEF o, entered, queued
  <1>7. CASE Write(entered)
    <2>1. /\ RowsInv(entered) /\ Kept(i + 1, o, entered)
          /\ \A l \in Leaves : LevelOf[l] # i + 1 =>
               entered.leaf[l] = leaf[l] /\ entered.userTask[l] = userTask[l]
          /\ \A l \in Leaves : LevelOf[l] = i + 1 =>
               IF kind[l] = "userTask"
               THEN /\ entered.leaf[l].state = "STARTED"
                    /\ entered.userTask[l] = [state |-> "STARTED", revision |-> 1, by |-> Null]
               ELSE entered.userTask[l] = userTask[l]
      BY <1>1, <1>2, <1>4, <1>5, InvFacts, EnterRows DEF entered
    <2>2. Kept(i + 1, Rows, entered)
      BY <1>4, <2>1, KeptAlong
    <2>3. UserTaskStep(entered)
      BY <1>6, <2>1, InvFacts, RowsFields DEF UserTaskStep, UserTaskPart
    <2>. QED BY <1>1, <1>3, <1>7, <2>1, <2>2, <2>3, OwnStep
  <1>8. CASE Write(queued)
    <2>1. RowsInv(queued) /\ Kept(i + 1, o, queued) /\ queued.leaf = leaf /\ queued.userTask = userTask
      BY <1>2, <1>4, <1>5, QueueRows DEF queued
    <2>2. Kept(i + 1, Rows, queued)
      BY <1>4, <2>1, KeptAlong
    <2>3. UserTaskStep(queued)
      BY <2>1, UserTasksLeftAlone
    <2>. QED BY <1>1, <1>3, <1>8, <2>1, <2>2, <2>3, OwnStep
  <1>. QED BY <1>1, <1>7, <1>8

LEMMA PassVariablesStep ==
  ASSUME Inv, NEW i \in Callers, PassVariables(i)
  PROVE  Inv' /\ UpdatesWhatWasRead
  <1>. DEFINE job == NewJob("PASS_VARIABLES", i)
              m == [Done(job, Rows) EXCEPT !.call[i] = "COMPLETED", !.attached = Detached(i, @)]
              r == Complete(i, m)
  <1>1. /\ job \in jobs /\ call[i] \notin Ended /\ Write(r) /\ tx[i] = Null
        /\ kind' = kind /\ seen' = seen /\ tx' = tx /\ ignored' \in BOOLEAN /\ i \in Instances
    BY InvFacts, Levels DEF PassVariables, Free
  <1>2. instance[i] = "STARTED"
    <2>1. call[i] = "STARTED"
      BY <1>1, InvFacts, RowsFields DEF CallPart, CalledPart
    <2>. QED BY <2>1, InvFacts, RowsFields DEF CallPart, CalledPart, Active
  <1>3. /\ RowsInv(m) /\ Kept(i, Rows, m)
        /\ m.instance = instance /\ m.leaf = leaf /\ m.userTask = userTask
    BY <1>1, InvFacts, RowsFields, PassRows
  <1>. HIDE DEF m
  <1>4. /\ RowsInv(r) /\ r.call = m.call /\ r.leaf = leaf /\ r.attached = m.attached
        /\ r.userTask = userTask /\ \A j \in Instances \ {i} : r.instance[j] = m.instance[j]
    BY <1>1, <1>2, <1>3, CompleteRows
  <1>. HIDE DEF r
  <1>5. Kept(i, m, r)
    BY <1>3, <1>4 DEF Kept
  <1>6. Kept(i, Rows, r) /\ UserTaskStep(r)
    BY <1>3, <1>4, <1>5, KeptAlong, UserTasksLeftAlone
  <1>. QED BY <1>1, <1>4, <1>6, OwnStep

LEMMA SetBoundaryCodeStep ==
  ASSUME Inv, NEW b \in Boundaries, NEW code \in Codes \cup {AnyCode}, SetBoundaryCode(b, code)
  PROVE  Inv' /\ UpdatesWhatWasRead
  <1>. DEFINE job == NewJob("SET_CODE", b)
              i == Boundary[b].level
              o == Done(job, Rows)
              m == [o EXCEPT !.attached[b].code = code]
              r == StartCall(i, m)
  <1>1. /\ job \in jobs /\ attached[b].state \notin Ended /\ Write(r) /\ tx[i] = Null
        /\ kind' = kind /\ seen' = seen /\ tx' = tx /\ ignored' \in BOOLEAN
        /\ i \in Callers /\ i \in Instances
    BY InvFacts, Levels DEF SetBoundaryCode, Free
  <1>2. call[i] = "CREATED"
    <2>1. attached[b].code = Null /\ call[i] # "NONE" /\ call[i] \notin Ended /\ call[i] # "STARTED"
      BY <1>1, InvFacts, RowsFields DEF BoundaryPart
    <2>2. call[i] \in InstanceState /\ call[i] # "QUEUED"
      BY <1>1, InvFacts, RowsFields DEF TypeOK, CallPart, CalledPart
    <2>. QED BY <2>1, <2>2 DEF InstanceState, Active
  <1>3. /\ RowsInv(o) /\ Kept(i, Rows, o)
        /\ o.jobs = jobs \ {job} /\ o.instance = instance /\ o.call = call /\ o.leaf = leaf
        /\ o.userTask = userTask
    <2>1. \A c \in Callers : job # NewJob("PASS_VARIABLES", c)
      BY Records
    <2>. HIDE DEF job
    <2>. QED BY <2>1, JobDone
  <1>. HIDE DEF o
  <1>4. /\ RowsInv(m) /\ Kept(i, o, m) /\ m.call = call /\ m.leaf = leaf /\ m.userTask = userTask
    BY <1>2, <1>3, BoundaryCodeRows
  <1>. HIDE DEF m
  <1>5. RowsInv(r) /\ Kept(i, m, r) /\ r.leaf = leaf /\ r.userTask = userTask
    BY <1>1, <1>2, <1>4, StartCallRows
  <1>. HIDE DEF r
  <1>6. Kept(i, Rows, r)
    BY <1>3, <1>4, <1>5, KeptAlong
  <1>7. UserTaskStep(r)
    BY <1>5, UserTasksLeftAlone
  <1>. QED BY <1>1, <1>5, <1>6, <1>7, OwnStep

LEMMA SetThrowCodeStep ==
  ASSUME Inv, NEW l \in Leaves, NEW code \in Codes, SetThrowCode(l, code)
  PROVE  Inv' /\ UpdatesWhatWasRead
  <1>. DEFINE job == NewJob("SET_CODE", l)
              i == LevelOf[l]
              o == Done(job, Rows)
              x == [state |-> "STARTED", code |-> code, thrown |-> leaf[l].thrown]
              r == [o EXCEPT !.leaf[l] = x]
  <1>1. /\ job \in jobs /\ leaf[l].state \notin Ended /\ tx[i] = Null
        /\ Write(r)
        /\ kind' = kind /\ seen' = seen /\ tx' = tx /\ ignored' \in BOOLEAN /\ i \in Instances
    BY InvFacts, Levels DEF SetThrowCode, Free
  <1>2. /\ RowsInv(o) /\ Kept(i, Rows, o)
        /\ o.leaf = leaf /\ o.userTask = userTask
    <2>1. \A c \in Callers : job # NewJob("PASS_VARIABLES", c)
      BY Records
    <2>. HIDE DEF job
    <2>. QED BY <2>1, JobDone
  <1>3. /\ leaf[l].state \in Active /\ kind[l] \in ThrowEvents
        /\ leaf[l] \in [state: InstanceState, code: Codes \cup {Null}, thrown: Nat]
    BY <1>1, InvFacts, RowsFields DEF TypeOK, LeafPart, InstanceState
  <1>4. x \in [state: InstanceState, code: Codes \cup {Null}, thrown: Nat]
    BY <1>3 DEF InstanceState, Active
  <1>. HIDE DEF o
  <1>5. o \in RowsType
    BY <1>2 DEF RowsInv
  <1>7. /\ r \in RowsType /\ r = [o EXCEPT !.leaf = r.leaf] /\ r.leaf[l] = x
        /\ \A k \in Leaves \ {l} : r.leaf[k] = leaf[k]
        /\ r.userTask = userTask
    BY <1>2, <1>4, <1>5, LeafWritten
  <1>. HIDE DEF r
  <1>8. RowsInv(r) /\ Kept(i, o, r)
    BY <1>2, <1>3, <1>7, LeafRows
  <1>9. Kept(i, Rows, r)
    BY <1>2, <1>8, KeptAlong
  <1>10. UserTaskStep(r)
    BY <1>3, <1>7, UserTasksLeftAlone DEF ThrowEvents, EndEvents
  <1>. QED BY <1>1, <1>8, <1>9, <1>10, OwnStep

LEMMA ExecuteTaskStep ==
  ASSUME Inv, NEW l \in Leaves, ExecuteTask(l)
  PROVE  Inv' /\ UpdatesWhatWasRead
  <1>. DEFINE job == NewJob("EXECUTE", l)
              i == LevelOf[l]
              o == Done(job, Rows)
              r == EndLeaf(l, o)
  <1>1. /\ job \in jobs /\ leaf[l].state \notin Ended /\ Write(r) /\ tx[i] = Null
        /\ kind' = kind /\ seen' = seen /\ tx' = tx /\ ignored' \in BOOLEAN /\ i \in Instances
    BY InvFacts, Levels DEF ExecuteTask, Free
  <1>2. /\ RowsInv(o) /\ Kept(i, Rows, o)
        /\ o.leaf = leaf /\ o.userTask = userTask
    <2>1. \A c \in Callers : job # NewJob("PASS_VARIABLES", c)
      BY Records
    <2>. HIDE DEF job
    <2>. QED BY <2>1, JobDone
  <1>3. leaf[l].state \in Active /\ kind[l] = "task"
    BY <1>1, InvFacts, RowsFields DEF TypeOK, LeafPart, InstanceState
  <1>. HIDE DEF o
  <1>4. /\ RowsInv(r) /\ Kept(i, o, r) /\ r.userTask = userTask
        /\ r.leaf = [leaf EXCEPT ![l].state = "COMPLETED"]
    BY <1>2, <1>3, EndLeafRows
  <1>. HIDE DEF r
  <1>5. Kept(i, Rows, r)
    BY <1>2, <1>4, KeptAlong
  <1>6. \A k \in Leaves \ {l} : r.leaf[k] = leaf[k]
    BY <1>4, InvFacts DEF TypeOK
  <1>7. UserTaskStep(r)
    BY <1>3, <1>4, <1>6, UserTasksLeftAlone
  <1>. QED BY <1>1, <1>4, <1>5, <1>7, OwnStep

(* What writes no rows. *)
LEMMA RowsLeftAlone ==
  ASSUME Inv, UNCHANGED <<kind, instance, call, leaf, attached, jobs, tasks, userTask>>
  PROVE  RowsInv(Rows)' /\ UserTaskPart(Rows)' /\ UpdatesWhatWasRead
  <1>1. Rows' = Rows
    BY DEF Rows
  <1>2. RowsInv(Rows)'
    BY <1>1, InvFacts, RowsInvPrime
  <1>3. UserTaskPart(Rows)'
    BY <1>1, InvFacts DEF UserTaskPart
  <1>. QED BY <1>2, <1>3 DEF UpdatesWhatWasRead

LEMMA FindStep ==
  ASSUME Inv, NEW l \in Leaves, NEW type, NEW code \in Codes, NEW client \in Clients \cup {Null},
         Find(l, type, code, client),
         kind[l] = "userTask" => userTask[l] # Null /\ client \in Clients,
         client = Observed => seen = [leaf |-> l, row |-> userTask[l]]
  PROVE  Inv' /\ UpdatesWhatWasRead
  <1>. DEFINE i == LevelOf[l]
  <1>1. /\ instance[i] = "STARTED" /\ leaf[l].state = "STARTED" /\ i \in Instances
        /\ UNCHANGED <<kind, instance, call, leaf, attached, jobs, tasks, userTask, seen, ignored>>
    BY Levels DEF Find
  <1>2. PICK b \in findBoundaryEvent(i, type, kind[l], code) :
          tx' = [tx EXCEPT ![i] = [leaf |-> l, code |-> code, boundary |-> b, client |-> client,
                                   n |-> IF b = Null THEN 0 ELSE attached[b].n]]
    BY DEF Find
  <1>. DEFINE found == [leaf |-> l, code |-> code, boundary |-> b, client |-> client,
                        n |-> IF b = Null THEN 0 ELSE attached[b].n]
  <1>3. b = Null \/ (b \in Boundaries /\ Boundary[b].level = i - 1 /\ b # Null)
    BY CallsAssumption DEF findBoundaryEvent, Preferred, Waiting, BoundariesOf
  <1>4. b \in Boundaries => attached[b].n \in Nat
    BY InvFacts DEF TypeOK, Attached
  <1>5. found \in Found
    BY <1>3, <1>4 DEF Found
  <1>6. /\ tx' \in [Instances -> Found \cup {Null}] /\ tx'[i] = found
        /\ \A j \in Instances \ {i} : tx'[j] = tx[j]
    BY <1>1, <1>2, <1>5, InvFacts DEF TypeOK
  <1>7. TypeOK'
    BY <1>1, <1>6, InvFacts DEF TypeOK
  <1>8. SeenPart'
    BY <1>1, InvFacts DEF SeenPart
  <1>9. FoundPart'
    <2>. SUFFICES ASSUME NEW j \in Instances, tx'[j] # Null
                  PROVE  LET k == tx'[j].leaf
                             a == tx'[j].boundary
                         IN /\ LevelOf[k] = j /\ instance[j] = "STARTED" /\ leaf[k].state = "STARTED"
                            /\ a # Null => /\ Boundary[a].level = j - 1
                                           /\ Boundary[a].interrupting => tx'[j].n = attached[a].n
                            /\ kind[k] = "userTask" => userTask[k] # Null /\ tx'[j].client \in Clients
                            /\ tx'[j].client = Observed => seen = [leaf |-> k, row |-> userTask[k]]
      BY <1>1 DEF FoundPart
    <2>1. CASE j = i
      <3>1. /\ tx'[j].leaf = l /\ tx'[j].boundary = b /\ tx'[j].client = client
            /\ b # Null => tx'[j].n = attached[b].n
        BY <1>6, <2>1
      <3>. QED BY <1>1, <1>3, <2>1, <3>1
    <2>2. CASE j # i
      BY <1>6, <2>2, InvFacts DEF FoundPart
    <2>. QED BY <2>1, <2>2
  <1>. QED BY <1>1, <1>7, <1>8, <1>9, RowsLeftAlone DEF Inv

LEMMA TriggerThrowEventStep ==
  ASSUME Inv, NEW l \in Leaves, TriggerThrowEvent(l)
  PROVE  Inv' /\ UpdatesWhatWasRead
  <1>1. /\ kind[l] \in ThrowEvents /\ kind[l] # "userTask"
        /\ \E type : Find(l, type, leaf[l].code, Null)
    BY DEF TriggerThrowEvent, ThrowEvents, EndEvents
  <1>2. leaf[l].code \in Codes
    BY <1>1, InvFacts, RowsFields DEF LeafPart, Find
  <1>3. Null # Observed
    BY CallsAssumption
  <1>. QED BY <1>1, <1>2, <1>3, FindStep

LEMMA ThrowByJobStep ==
  ASSUME Inv, NEW l \in Leaves, NEW type, NEW code \in Codes, ThrowByJob(l, type, code)
  PROVE  Inv' /\ UpdatesWhatWasRead
  <1>1. kind[l] = "task" /\ Find(l, type, code, Null) /\ Null # Observed
    BY CallsAssumption, InvFacts, RowsFields DEF ThrowByJob, LeafPart
  <1>. QED BY <1>1, FindStep

(* The observed client only updates what it has read. *)
LEMMA UpdatableRead ==
  ASSUME Inv, NEW c, NEW l \in Leaves, Updatable(c, l)
  PROVE  /\ userTask[l] \in UserTask /\ userTask[l] # Null /\ userTask[l].state = "STARTED"
         /\ kind[l] = "userTask" /\ leaf[l].state = "STARTED"
         /\ c = Observed => seen = [leaf |-> l, row |-> userTask[l]]
  <1>1. /\ userTask[l] \in UserTask /\ userTask[l] # Null /\ userTask[l].state = "STARTED"
        /\ kind[l] = "userTask" /\ leaf[l].state = "STARTED"
    BY InvFacts, RowsFields DEF Updatable, TypeOK, UserTaskPart
  <1>2. ASSUME c = Observed PROVE seen = [leaf |-> l, row |-> userTask[l]]
    <2>1. seen # Null /\ seen.leaf = l /\ seen.row = userTask[l]
      BY <1>2, InvFacts DEF Updatable, SeenPart
    <2>2. seen \in [leaf: Leaves, row: UserTask]
      BY <2>1, InvFacts DEF TypeOK
    <2>3. seen = [leaf |-> seen.leaf, row |-> seen.row]
      BY <2>2
    <2>. QED BY <2>1, <2>3
  <1>. QED BY <1>1, <1>2

LEMMA ThrowByUserTaskStep ==
  ASSUME Inv, NEW c \in Clients, NEW l \in Leaves, NEW type, NEW code \in Codes,
         ThrowByUserTask(c, l, type, code)
  PROVE  Inv' /\ UpdatesWhatWasRead
  BY UpdatableRead, FindStep DEF ThrowByUserTask

LEMMA ReadUserTaskStep ==
  ASSUME Inv, NEW l \in Leaves, ReadUserTask(l)
  PROVE  Inv' /\ UpdatesWhatWasRead
  <1>1. /\ userTask[l] # Null /\ seen' = [leaf |-> l, row |-> userTask[l]]
        /\ \A i \in Instances : tx[i] # Null => tx[i].client # Observed
        /\ UNCHANGED <<kind, instance, call, leaf, attached, jobs, tasks, userTask, tx, ignored>>
    BY DEF ReadUserTask
  <1>2. userTask[l] \in UserTask
    BY <1>1, InvFacts DEF TypeOK
  <1>3. TypeOK'
    BY <1>1, <1>2, InvFacts DEF TypeOK
  <1>4. SeenPart'
    <2>1. seen'.leaf = l /\ seen'.row = userTask[l] /\ userTask[l].revision \in Nat
      BY <1>1, <1>2 DEF UserTask
    <2>. QED BY <1>1, <2>1 DEF SeenPart
  <1>5. FoundPart'
    BY <1>1, InvFacts DEF FoundPart
  <1>. QED BY <1>1, <1>3, <1>4, <1>5, RowsLeftAlone DEF Inv

LEMMA UpdatedRow ==
  ASSUME NEW c \in Clients, NEW l \in Leaves, userTask[l] \in UserTask,
         NEW state \in {"STARTED", "COMPLETED", "TERMINATED"}
  PROVE  LET x == [state |-> state, revision |-> userTask[l].revision + 1, by |-> c]
         IN x \in UserTask /\ x # Null
  <1>1. [state |-> state, revision |-> userTask[l].revision + 1, by |-> c] \in UserTask
    BY DEF UserTask
  <1>. QED BY <1>1, NullAssumption

(* User tasks are terminated, or updated by a client that has read them. *)
LEMMA UserTasksWritten ==
  ASSUME Inv, NEW r,
         \A k \in Leaves :
           \/ /\ r.userTask[k] = userTask[k]
              /\ userTask[k] # Null => r.leaf[k].state = leaf[k].state
           \/ /\ userTask[k] \in UserTask /\ userTask[k].state = "STARTED" /\ kind[k] = "userTask"
              /\ r.userTask[k] = TerminatedUserTask(userTask[k]) /\ r.leaf[k].state = "TERMINATED"
           \/ /\ userTask[k] \in UserTask /\ userTask[k].state = "STARTED" /\ kind[k] = "userTask"
              /\ \E c \in Clients, state \in {"STARTED", "COMPLETED", "TERMINATED"} :
                   /\ r.userTask[k] = [state |-> state, revision |-> userTask[k].revision + 1, by |-> c]
                   /\ r.leaf[k].state = state
                   /\ c = Observed => seen = [leaf |-> k, row |-> userTask[k]]
  PROVE  UserTaskStep(r)
  <1>1. ASSUME NEW k \in Leaves
        PROVE  /\ r.userTask[k] # Null =>
                    kind[k] = "userTask" /\ r.userTask[k].state = r.leaf[k].state
               /\ userTask[k] # Null /\ r.userTask[k] # userTask[k] =>
                    /\ r.userTask[k] # Null /\ r.userTask[k].revision = userTask[k].revision + 1
                    /\ userTask[k].state = "STARTED"
                    /\ r.userTask[k].by = Observed => seen = [leaf |-> k, row |-> userTask[k]]
    <2>1. CASE r.userTask[k] = userTask[k] /\ (userTask[k] # Null => r.leaf[k].state = leaf[k].state)
      BY <2>1, InvFacts, RowsFields DEF UserTaskPart
    <2>2. CASE /\ userTask[k] \in UserTask /\ userTask[k].state = "STARTED" /\ kind[k] = "userTask"
               /\ r.userTask[k] = TerminatedUserTask(userTask[k]) /\ r.leaf[k].state = "TERMINATED"
      <3>1. TerminatedUserTask(userTask[k]) \in UserTask
        BY <2>2 DEF TerminatedUserTask, UserTask
      <3>2. Null # Observed
        BY CallsAssumption
      <3>. QED BY <2>2, <3>1, <3>2, NullAssumption DEF TerminatedUserTask
    <2>3. CASE /\ userTask[k] \in UserTask /\ userTask[k].state = "STARTED" /\ kind[k] = "userTask"
               /\ \E c \in Clients, state \in {"STARTED", "COMPLETED", "TERMINATED"} :
                    /\ r.userTask[k] = [state |-> state, revision |-> userTask[k].revision + 1, by |-> c]
                    /\ r.leaf[k].state = state
                    /\ c = Observed => seen = [leaf |-> k, row |-> userTask[k]]
      <3>1. PICK c \in Clients, state \in {"STARTED", "COMPLETED", "TERMINATED"} :
                    /\ r.userTask[k] = [state |-> state, revision |-> userTask[k].revision + 1, by |-> c]
                    /\ r.leaf[k].state = state
                    /\ c = Observed => seen = [leaf |-> k, row |-> userTask[k]]
        BY <2>3
      <3>2. r.userTask[k] # Null
        <4>1. [state |-> state, revision |-> userTask[k].revision + 1, by |-> c] # Null
          <5>1. userTask[k] \in UserTask
            BY <2>3
          <5>. QED BY <5>1, UpdatedRow
        <4>. QED BY <3>1, <4>1, Zenon
      <3>. QED BY <2>3, <3>1, <3>2
    <2>. QED BY <2>1, <2>2, <2>3
  <1>. QED BY <1>1 DEF UserTaskStep, UserTaskPart

LEMMA TagUserTaskStep ==
  ASSUME Inv, NEW c \in Clients, NEW l \in Leaves, TagUserTask(c, l)
  PROVE  Inv' /\ UpdatesWhatWasRead
  <1>. DEFINE i == LevelOf[l]
              r == Updated(c, l, "STARTED", Rows)
              x == [state |-> "STARTED", revision |-> userTask[l].revision + 1, by |-> c]
  <1>1. /\ Updatable(c, l) /\ Write(r) /\ tx[i] = Null /\ i \in Instances
        /\ kind' = kind /\ seen' = seen /\ tx' = tx /\ ignored' \in BOOLEAN
    BY InvFacts, Levels DEF TagUserTask, Free
  <1>2. /\ userTask[l] \in UserTask /\ userTask[l].state = "STARTED"
        /\ kind[l] = "userTask" /\ leaf[l].state = "STARTED"
        /\ c = Observed => seen = [leaf |-> l, row |-> userTask[l]]
    BY <1>1, UpdatableRead
  <1>3. x \in UserTask
    BY <1>2, UpdatedRow
  <1>4. r = [Rows EXCEPT !.userTask[l] = x]
    BY DEF Updated
  <1>. HIDE DEF r, x
  <1>5. /\ RowsInv(r) /\ Kept(i, Rows, r) /\ r.userTask = [userTask EXCEPT ![l] = x] /\ r.leaf = leaf
    BY <1>3, <1>4, InvFacts, RowsFields, UserTaskRows
  <1>6. r.userTask[l] = x /\ \A k \in Leaves \ {l} : r.userTask[k] = userTask[k]
    BY <1>5, InvFacts DEF TypeOK
  <1>7. UserTaskStep(r)
    BY <1>2, <1>5, <1>6, UserTasksWritten DEF x
  <1>. QED BY <1>1, <1>5, <1>7, OwnStep

LEMMA CompleteUserTaskStep ==
  ASSUME Inv, NEW c \in Clients, NEW l \in Leaves, CompleteUserTask(c, l)
  PROVE  Inv' /\ UpdatesWhatWasRead
  <1>. DEFINE i == LevelOf[l]
              o == EndLeaf(l, Rows)
              r == Updated(c, l, "COMPLETED", o)
              x == [state |-> "COMPLETED", revision |-> userTask[l].revision + 1, by |-> c]
  <1>1. /\ Updatable(c, l) /\ Write(r) /\ tx[i] = Null /\ i \in Instances
        /\ kind' = kind /\ seen' = seen /\ tx' = tx /\ ignored' \in BOOLEAN
    BY InvFacts, Levels DEF CompleteUserTask, Free
  <1>2. /\ userTask[l] \in UserTask /\ userTask[l].state = "STARTED"
        /\ kind[l] = "userTask" /\ leaf[l].state = "STARTED"
        /\ c = Observed => seen = [leaf |-> l, row |-> userTask[l]]
    BY <1>1, UpdatableRead
  <1>3. x \in UserTask
    BY <1>2, UpdatedRow
  <1>4. r = [o EXCEPT !.userTask[l] = x]
    BY DEF Updated
  <1>. HIDE DEF r, x
  <1>5. /\ RowsInv(o) /\ Kept(i, Rows, o) /\ o.userTask = userTask
        /\ o.leaf = [leaf EXCEPT ![l].state = "COMPLETED"]
    BY <1>2, InvFacts, RowsFields, EndLeafRows DEF Active
  <1>. HIDE DEF o
  <1>6. /\ RowsInv(r) /\ Kept(i, o, r) /\ r.userTask = [userTask EXCEPT ![l] = x] /\ r.leaf = o.leaf
    BY <1>3, <1>4, <1>5, UserTaskRows
  <1>7. /\ r.userTask[l] = x /\ \A k \in Leaves \ {l} : r.userTask[k] = userTask[k] /\ r.leaf[k] = leaf[k]
        /\ r.leaf[l].state = "COMPLETED"
    BY <1>5, <1>6, InvFacts DEF TypeOK
  <1>8. UserTaskStep(r)
    BY <1>2, <1>7, UserTasksWritten DEF x
  <1>9. Kept(i, Rows, r)
    BY <1>5, <1>6, KeptAlong
  <1>. QED BY <1>1, <1>6, <1>8, <1>9, OwnStep

LEMMA TriggerEventOfStep ==
  ASSUME Inv, NEW b \in Boundaries, TriggerEventOf(b)
  PROVE  Inv' /\ UpdatesWhatWasRead
  <1>. DEFINE i == Boundary[b].level
              r == startBoundaryEvent(b, Rows)
  <1>1. /\ attached[b].state = "CREATED" /\ Write(r) /\ tx[i] = Null /\ i \in Instances
        /\ kind' = kind /\ seen' = seen /\ tx' = tx /\ ignored' \in BOOLEAN
    BY InvFacts, Levels DEF TriggerEventOf, Free
  <1>2. Rows = [Rows EXCEPT !.tasks = Rows.tasks]
    BY DEF Rows
  <1>3. RowsInv(r) /\ Kept(i, Rows, r) /\ r.leaf = leaf /\ r.userTask = userTask
    BY <1>1, <1>2, InvFacts, RowsFields, StartBoundaryEventRows
  <1>. HIDE DEF r
  <1>4. UserTaskStep(r)
    BY <1>3, UserTasksLeftAlone
  <1>. QED BY <1>1, <1>3, <1>4, OwnStep

LEMMA TriggerBoundaryEventStep ==
  ASSUME Inv, NEW t \in tasks, TriggerBoundaryEvent(t)
  PROVE  Inv' /\ UpdatesWhatWasRead
  <1>1. t \in TriggerEvent
    BY DEF TriggerBoundaryEvent
  <1>2. PICK b \in Boundaries : b = t.boundary
    BY <1>1 DEF TriggerEvent
  <1>. DEFINE i == Boundary[b].level
              o == [Rows EXCEPT !.tasks = @ \ {t}]
              over == IsOver(b, t.n)
              r == IF over THEN o ELSE startBoundaryEvent(b, o)
  <1>3. /\ Write(r) /\ tx[i] = Null /\ i \in Callers /\ i \in Instances
        /\ kind' = kind /\ seen' = seen /\ tx' = tx
    BY <1>2, Levels DEF TriggerBoundaryEvent, Free
  <1>4. ignored' \in BOOLEAN
    BY DEF TriggerBoundaryEvent
  <1>5. call[i] # "NONE"
    BY <1>1, <1>2, InvFacts, RowsFields DEF RowsInv, TaskPart
  <1>6. CASE over
    <2>1. ASSUME NEW c \in Callers, call[c] = "STARTED" PROVE ~WillInterrupt(t, c, Rows)
      <3>. SUFFICES ASSUME WillInterrupt(t, c, Rows) PROVE FALSE
        OBVIOUS
      <3>1. c = i /\ t.n = attached[b].n
        BY <1>2, RowsFields DEF WillInterrupt
      <3>2. attached[b].state = "CREATED" /\ instance[i] = "STARTED"
        BY <2>1, <3>1, InvFacts, RowsFields DEF BoundaryPart, CallPart, CalledPart, Active
      <3>. QED BY <1>6, <3>1, <3>2 DEF IsOver, Ended
    <2>2. RowsInv(o) /\ Kept(i, Rows, o) /\ o.leaf = leaf /\ o.userTask = userTask
      BY <1>1, <2>1, InvFacts, RowsFields, TaskDoneRows
    <2>3. r = o
      BY <1>6
    <2>. HIDE DEF r, o, over
    <2>4. UserTaskStep(r)
      BY <2>2, <2>3, UserTasksLeftAlone
    <2>. QED BY <1>3, <1>4, <2>2, <2>3, <2>4, OwnStep
  <1>7. CASE ~over
    <2>1. attached[b].state = "CREATED"
      <3>1. attached[b].state \notin Ended
        BY <1>7 DEF IsOver
      <3>2. call[i] \in InstanceState
        BY <1>3, InvFacts DEF TypeOK
      <3>3. call[i] \in Active
        BY <1>5, <3>1, <3>2, InvFacts, RowsFields DEF BoundaryPart, InstanceState
      <3>. QED BY <3>3, InvFacts, RowsFields DEF BoundaryPart
    <2>2. r = startBoundaryEvent(b, o)
      BY <1>7
    <2>3. /\ o = [Rows EXCEPT !.tasks = o.tasks] /\ o.tasks = tasks \ {t}
      BY DEF Rows
    <2>. HIDE DEF o
    <2>4. \A x \in tasks \ o.tasks : x \in TriggerEvent /\ x.boundary = b
      BY <1>1, <1>2, <2>3
    <2>5. o.tasks \subseteq tasks
      BY <2>3
    <2>. HIDE DEF r, over
    <2>6. RowsInv(r) /\ Kept(i, Rows, r) /\ r.leaf = leaf /\ r.userTask = userTask
      BY <2>1, <2>2, <2>3, <2>4, <2>5, InvFacts, RowsFields, StartBoundaryEventRows
    <2>7. UserTaskStep(r)
      BY <2>6, UserTasksLeftAlone
    <2>. QED BY <1>3, <1>4, <2>6, <2>7, OwnStep
  <1>. QED BY <1>6, <1>7

LEMMA TerminateStep ==
  ASSUME Inv, NEW i \in Instances, Terminate(i)
  PROVE  Inv' /\ UpdatesWhatWasRead
  <1>. DEFINE t == Termination(i)
              o == [Rows EXCEPT !.tasks = @ \ {t}]
              r == IF instance[i] \in Ended THEN o ELSE terminateProcessInstance(i, o)
  <1>1. /\ t \in tasks /\ Write(r) /\ tx[i] = Null
        /\ kind' = kind /\ seen' = seen /\ tx' = tx /\ ignored' \in BOOLEAN
    BY InvFacts DEF Terminate, Free
  <1>2. i # 1 /\ i - 1 \in Callers /\ call[i - 1] \in Ended /\ instance[i] # "NONE"
    <2>1. i # 1
      BY <1>1, InvFacts, RowsFields DEF CallPart
    <2>2. PICK c \in Callers : c = i - 1
      BY <2>1, Levels
    <2>3. c + 1 = i
      BY <2>2, Levels
    <2>. QED BY <1>1, <2>1, <2>2, <2>3, InvFacts, RowsFields DEF CallPart, CalledPart
  <1>3. CASE instance[i] \in Ended
    <2>1. instance[i] \notin Active
      BY <1>3 DEF Active, Ended
    <2>2. RowsInv(o) /\ Kept(i, Rows, o) /\ o.leaf = leaf /\ o.userTask = userTask
      BY <2>1, InvFacts, RowsFields, TaskDoneRows
    <2>3. r = o
      BY <1>3
    <2>. HIDE DEF r, o
    <2>4. UserTaskStep(r)
      BY <2>2, <2>3, UserTasksLeftAlone
    <2>. QED BY <1>1, <2>2, <2>3, <2>4, OwnStep
  <1>4. CASE instance[i] \notin Ended
    <2>1. instance[i] \in Active /\ call[i - 1] # "STARTED"
      BY <1>2, <1>4, InvFacts DEF TypeOK, InstanceState, Ended
    <2>2. r = terminateProcessInstance(i, o)
      BY <1>4
    <2>3. /\ o = [Rows EXCEPT !.tasks = o.tasks] /\ o.tasks = tasks \ {t}
      BY DEF Rows
    <2>. HIDE DEF o, r
    <2>4. /\ RowsInv(r) /\ Kept(i, Rows, r)
          /\ \A l \in Leaves :
               IF LevelOf[l] = i
               THEN /\ r.leaf[l].state = IF leaf[l].state \in Active THEN "TERMINATED" ELSE leaf[l].state
                    /\ r.userTask[l] = IF userTask[l] # Null /\ userTask[l].state = "STARTED"
                                       THEN TerminatedUserTask(userTask[l]) ELSE userTask[l]
               ELSE r.leaf[l] = leaf[l] /\ r.userTask[l] = userTask[l]
      BY <2>1, <2>2, <2>3, InvFacts, RowsFields, TerminateRows
    <2>5. UserTaskStep(r)
      BY <2>4, InvFacts, RowsFields, UserTasksWritten DEF TypeOK, UserTask, UserTaskPart, Active
    <2>. QED BY <1>1, <2>4, <2>5, OwnStep
  <1>. QED BY <1>3, <1>4

LEMMA StartProcessInstanceStep ==
  ASSUME Inv, NEW i \in Instances, StartProcessInstance(i)
  PROVE  Inv' /\ UpdatesWhatWasRead
  <1>. DEFINE r == Enter(i, Rows)
  <1>1. /\ instance[i] = "QUEUED" /\ Write(r) /\ tx[i] = Null
        /\ kind' = kind /\ seen' = seen /\ tx' = tx /\ ignored' \in BOOLEAN
    BY InvFacts DEF StartProcessInstance, Free
  <1>2. i # 1 => /\ call[i - 1] \in {"STARTED"} \cup Ended
                 /\ call[i - 1] \in Ended => Termination(i) \in tasks
                 /\ NewJob("CALL_PROCESS", i - 1) \notin jobs
    <2>. SUFFICES ASSUME i # 1 PROVE /\ call[i - 1] \in {"STARTED"} \cup Ended
                                     /\ call[i - 1] \in Ended => Termination(i) \in tasks
                                     /\ NewJob("CALL_PROCESS", i - 1) \notin jobs
      OBVIOUS
    <2>1. PICK c \in Callers : c = i - 1
      BY Levels
    <2>2. c + 1 = i
      BY <2>1, Levels
    <2>. QED BY <1>1, <2>1, <2>2, InvFacts, RowsFields DEF CallPart, CalledPart, Active
  <1>3. \A l \in Leaves : LevelOf[l] = i => leaf[l].state = "NONE" /\ userTask[l] = Null
    <2>1. \A l \in Leaves : userTask[l] # Null => userTask[l].state # "NONE"
      BY InvFacts DEF TypeOK, UserTask
    <2>. QED BY <1>1, <2>1, InvFacts, RowsFields DEF LeafPart, UserTaskPart
  <1>4. /\ RowsInv(r) /\ Kept(i, Rows, r)
        /\ \A l \in Leaves : LevelOf[l] # i =>
             r.leaf[l] = leaf[l] /\ r.userTask[l] = userTask[l]
        /\ \A l \in Leaves : LevelOf[l] = i =>
             IF kind[l] = "userTask"
             THEN /\ r.leaf[l].state = "STARTED"
                  /\ r.userTask[l] = [state |-> "STARTED", revision |-> 1, by |-> Null]
             ELSE r.userTask[l] = userTask[l]
    BY <1>1, <1>2, InvFacts, RowsFields, EnterRows
  <1>. HIDE DEF r
  <1>5. UserTaskStep(r)
    BY <1>3, <1>4, InvFacts, RowsFields DEF UserTaskStep, UserTaskPart
  <1>. QED BY <1>1, <1>4, <1>5, OwnStep

(* The commit of a transaction that has searched a boundary event. *)
LEMMA CommitFacts ==
  ASSUME Inv, NEW i \in Instances, tx[i] # Null
  PROVE  /\ tx[i] \in Found /\ tx[i].leaf \in Leaves /\ LevelOf[tx[i].leaf] = i
         /\ instance[i] = "STARTED" /\ leaf[tx[i].leaf].state = "STARTED"
         /\ kind[tx[i].leaf] \in ThrowEvents \cup {"task", "userTask"}
         /\ kind[tx[i].leaf] = "userTask" =>
              /\ userTask[tx[i].leaf] \in UserTask /\ userTask[tx[i].leaf].state = "STARTED"
              /\ tx[i].client \in Clients
              /\ tx[i].client = Observed => seen = [leaf |-> tx[i].leaf, row |-> userTask[tx[i].leaf]]
         /\ tx[i].boundary # Null =>
              /\ tx[i].boundary \in Boundaries /\ Boundary[tx[i].boundary].level = i - 1
              /\ call[i - 1] # "NONE" /\ i # 1 /\ i - 1 \in Callers
              /\ Boundary[tx[i].boundary].interrupting => tx[i].n = attached[tx[i].boundary].n
  <1>1. tx[i] \in Found
    BY InvFacts DEF TypeOK
  <1>2. PICK l \in Leaves : l = tx[i].leaf
    BY <1>1 DEF Found
  <1>3. /\ LevelOf[l] = i /\ instance[i] = "STARTED" /\ leaf[l].state = "STARTED"
        /\ kind[l] = "userTask" => userTask[l] # Null /\ tx[i].client \in Clients
        /\ tx[i].client = Observed => seen = [leaf |-> l, row |-> userTask[l]]
        /\ tx[i].boundary # Null =>
             /\ Boundary[tx[i].boundary].level = i - 1
             /\ Boundary[tx[i].boundary].interrupting => tx[i].n = attached[tx[i].boundary].n
    BY <1>2, InvFacts DEF FoundPart
  <1>4. kind[l] = "userTask" => userTask[l] \in UserTask /\ userTask[l].state = "STARTED"
    BY <1>3, InvFacts, RowsFields DEF TypeOK, UserTaskPart
  <1>5. kind[l] \in ThrowEvents \cup {"task", "userTask"}
    BY InvFacts DEF Kinds
  <1>6. ASSUME tx[i].boundary # Null
        PROVE  tx[i].boundary \in Boundaries /\ call[i - 1] # "NONE" /\ i # 1 /\ i - 1 \in Callers
    <2>1. tx[i].boundary \in Boundaries
      BY <1>1, <1>6 DEF Found
    <2>2. PICK c \in Callers : c = i - 1
      BY <1>3, <1>6, <2>1, Levels
    <2>3. c + 1 = i /\ i # 1
      BY <2>2, Levels
    <2>4. call[c] # "NONE"
      BY <1>3, <2>3, InvFacts, RowsFields DEF CallPart, CalledPart, Ended
    <2>. QED BY <2>1, <2>2, <2>3, <2>4
  <1>. QED BY <1>1, <1>2, <1>3, <1>4, <1>5, <1>6

LEMMA CommitOf ==
  ASSUME Inv, NEW i \in Instances, Commit(i), NEW r, RowsInv(r), Kept(i, Rows, r), UserTaskStep(r),
         Write(r)
  PROVE  Inv' /\ UpdatesWhatWasRead
  <1>1. /\ kind' = kind /\ seen' = seen /\ ignored' \in BOOLEAN
        /\ tx' \in [Instances -> Found \cup {Null}] /\ tx'[i] = Null
        /\ \A j \in Instances \ {i} : tx'[j] = tx[j]
    BY InvFacts DEF Commit, TypeOK
  <1>. QED BY <1>1, StepInv

LEMMA NotFoundStep ==
  ASSUME Inv, NEW i \in Instances, Commit(i), tx[i].boundary = Null
  PROVE  Inv' /\ UpdatesWhatWasRead
  <1>1. tx[i] # Null /\ Write(NotFound(i))
    BY DEF Commit
  <1>2. PICK l \in Leaves : l = tx[i].leaf
    BY <1>1, CommitFacts
  <1>3. LevelOf[l] = i /\ leaf[l].state = "STARTED"
    BY <1>1, <1>2, CommitFacts
  <1>4. CASE kind[l] \in ThrowEvents
    <2>. DEFINE r == EndLeaf(l, Rows)
    <2>1. /\ RowsInv(r) /\ Kept(i, Rows, r) /\ r.userTask = userTask
          /\ r.leaf = [leaf EXCEPT ![l].state = "COMPLETED"]
      BY <1>3, InvFacts, RowsFields, EndLeafRows DEF Active
    <2>2. Write(r)
      BY <1>1, <1>2, <1>4 DEF NotFound
    <2>. HIDE DEF r
    <2>3. \A k \in Leaves \ {l} : r.leaf[k] = leaf[k]
      BY <2>1, InvFacts DEF TypeOK
    <2>4. UserTaskStep(r)
      BY <1>4, <2>1, <2>3, UserTasksLeftAlone DEF ThrowEvents, EndEvents
    <2>. QED BY <2>1, <2>2, <2>4, CommitOf
  <1>5. CASE kind[l] \notin ThrowEvents
    <2>1. Write(Rows)
      BY <1>1, <1>2, <1>5 DEF NotFound
    <2>2. Kept(i, Rows, Rows)
      BY DEF Kept
    <2>3. UserTaskStep(Rows)
      BY RowsFields, UserTasksLeftAlone
    <2>. QED BY <2>1, <2>2, <2>3, InvFacts, CommitOf
  <1>. QED BY <1>4, <1>5

LEMMA TriggeringRows ==
  ASSUME Inv, NEW i \in Instances, tx[i] # Null, tx[i].boundary # Null
  PROVE  LET r == Triggering(i, Rows)
         IN /\ RowsInv(r) /\ Kept(i, Rows, r) /\ r.userTask = userTask
            /\ r.instance = instance /\ r.call = call /\ r.attached = attached
            /\ \A k \in Leaves : r.leaf[k].state = leaf[k].state
            /\ \E x \in r.tasks : x \in TriggerEvent /\ x.boundary = tx[i].boundary /\ x.n = tx[i].n
  <1>. DEFINE t == tx[i]
              l == t.leaf
              x == [boundary |-> t.boundary, n |-> t.n, code |-> t.code, from |-> l,
                    nth |-> leaf[l].thrown]
              m == [Rows EXCEPT !.tasks = @ \cup {x}]
              y == [leaf[l] EXCEPT !.thrown = @ + 1]
              r == Triggering(i, Rows)
  <1>1. /\ t \in Found /\ l \in Leaves /\ LevelOf[l] = i /\ leaf[l].state = "STARTED"
        /\ t.boundary \in Boundaries /\ Boundary[t.boundary].level = i - 1 /\ call[i - 1] # "NONE"
    BY CommitFacts
  <1>2. leaf[l] \in [state: InstanceState, code: Codes \cup {Null}, thrown: Nat]
    BY <1>1, InvFacts DEF TypeOK
  <1>3. x \in TriggerEvent /\ x.boundary = t.boundary /\ x.n = t.n
    BY <1>1, <1>2 DEF Found, TriggerEvent
  <1>4. /\ y \in [state: InstanceState, code: Codes \cup {Null}, thrown: Nat]
        /\ y.state = "STARTED" /\ y.code = leaf[l].code
    BY <1>1, <1>2
  <1>5. kind[l] \in ThrowEvents => leaf[l].code \in Codes
    BY <1>1, InvFacts, RowsFields DEF LeafPart
  <1>6. r = [m EXCEPT !.leaf[l] = y]
    <2>1. leaf \in [Leaves -> [state: InstanceState, code: Codes \cup {Null}, thrown: Nat]]
      BY InvFacts DEF TypeOK
    <2>. QED BY <1>1, <2>1 DEF Triggering, Rows
  <1>. HIDE DEF x, y, r
  <1>a. Rows.call[Boundary[x.boundary].level] # "NONE"
    <2>1. PICK c \in Callers : c = Boundary[t.boundary].level
      BY <1>1, Levels
    <2>2. c = i - 1
      BY <1>1, <2>1
    <2>. QED BY <1>1, <1>3, <2>1, <2>2, RowsFields
  <1>7. /\ RowsInv(m) /\ Kept(i, Rows, m) /\ m.tasks = tasks \cup {x} /\ m.instance = instance
        /\ m.call = call /\ m.leaf = leaf /\ m.attached = attached /\ m.userTask = userTask
    <2>1. RowsInv(Rows)
      BY InvFacts
    <2>2. /\ RowsInv(m) /\ Kept(i, Rows, m) /\ m.tasks = Rows.tasks \cup {x}
          /\ m.instance = Rows.instance /\ m.call = Rows.call /\ m.leaf = Rows.leaf
          /\ m.attached = Rows.attached /\ m.userTask = Rows.userTask
      BY <1>3, <1>a, <2>1, TaskAddedRows
    <2>. QED BY <2>2, RowsFields
  <1>. HIDE DEF m
  <1>8. m \in RowsType
    BY <1>7 DEF RowsInv
  <1>9. /\ r \in RowsType /\ r = [m EXCEPT !.leaf = r.leaf] /\ r.leaf[l] = y
        /\ \A k \in Leaves \ {l} : r.leaf[k] = leaf[k]
        /\ r.instance = instance /\ r.call = call /\ r.attached = attached
        /\ r.tasks = tasks \cup {x} /\ r.userTask = userTask
    BY <1>1, <1>4, <1>6, <1>7, <1>8, LeafWritten
  <1>10. RowsInv(r) /\ Kept(i, m, r)
    BY <1>1, <1>4, <1>5, <1>7, <1>9, LeafRows DEF Active
  <1>11. Kept(i, Rows, r)
    BY <1>7, <1>10, KeptAlong
  <1>12. \A k \in Leaves : r.leaf[k].state = leaf[k].state
    BY <1>1, <1>4, <1>9
  <1>. QED BY <1>3, <1>9, <1>10, <1>11, <1>12 DEF r

(* The row of the throwing leaf is written m, and then its instance is terminated. *)
LEMMA TerminatedRows ==
  ASSUME Inv, NEW i \in Instances, tx[i] # Null, tx[i].boundary # Null,
         Boundary[tx[i].boundary].interrupting,
         NEW m, RowsInv(m), Kept(i, Rows, m), m.userTask = userTask,
         m.instance = instance, m.call = call, m.attached = attached,
         \A k \in Leaves : kind[k] = "userTask" => m.leaf[k].state = leaf[k].state,
         \E x \in m.tasks : x \in TriggerEvent /\ x.boundary = tx[i].boundary /\ x.n = tx[i].n
  PROVE  LET s == terminateProcessInstance(i, m)
         IN /\ RowsInv(s) /\ Kept(i, Rows, s)
            /\ \A k \in Leaves :
                 \/ /\ s.userTask[k] = userTask[k]
                    /\ userTask[k] # Null => s.leaf[k].state = leaf[k].state
                 \/ /\ userTask[k] \in UserTask /\ userTask[k].state = "STARTED" /\ kind[k] = "userTask"
                    /\ s.userTask[k] = TerminatedUserTask(userTask[k]) /\ s.leaf[k].state = "TERMINATED"
            /\ \A k \in Leaves : LevelOf[k] = i /\ m.leaf[k].state \in Active =>
                 s.leaf[k].state = "TERMINATED"
  <1>. DEFINE s == terminateProcessInstance(i, m)
  <1>1. /\ tx[i].boundary \in Boundaries /\ Boundary[tx[i].boundary].level = i - 1
        /\ tx[i].n = attached[tx[i].boundary].n /\ instance[i] = "STARTED"
    BY CommitFacts
  <1>2. \E x \in m.tasks : WillInterrupt(x, i - 1, m)
    BY <1>1 DEF WillInterrupt
  <1>3. m = [m EXCEPT !.tasks = m.tasks]
    BY DEF RowsInv, RowsType
  <1>4. m.instance[i] \in Active
    BY <1>1 DEF Active
  <1>5. /\ RowsInv(s) /\ Kept(i, m, s)
        /\ \A l \in Leaves :
             IF LevelOf[l] = i
             THEN /\ s.leaf[l].state = IF m.leaf[l].state \in Active THEN "TERMINATED"
                                       ELSE m.leaf[l].state
                  /\ s.userTask[l] =
                       IF m.userTask[l] # Null /\ m.userTask[l].state = "STARTED"
                       THEN TerminatedUserTask(m.userTask[l]) ELSE m.userTask[l]
             ELSE s.leaf[l] = m.leaf[l] /\ s.userTask[l] = m.userTask[l]
    BY <1>2, <1>3, <1>4, TerminateRows
  <1>. HIDE DEF s
  <1>6. Kept(i, Rows, s)
    BY <1>5, KeptAlong
  <1>7. \A k \in Leaves : userTask[k] # Null =>
          /\ userTask[k] \in UserTask /\ kind[k] = "userTask" /\ userTask[k].state = leaf[k].state
          /\ userTask[k].state \in {"STARTED", "COMPLETED", "TERMINATED"}
    BY InvFacts, RowsFields DEF TypeOK, UserTask, UserTaskPart
  <1>8. ASSUME NEW k \in Leaves
        PROVE  \/ /\ s.userTask[k] = userTask[k]
                  /\ userTask[k] # Null => s.leaf[k].state = leaf[k].state
               \/ /\ userTask[k] \in UserTask /\ userTask[k].state = "STARTED" /\ kind[k] = "userTask"
                  /\ s.userTask[k] = TerminatedUserTask(userTask[k]) /\ s.leaf[k].state = "TERMINATED"
    <2>1. CASE userTask[k] = Null
      BY <1>5, <2>1
    <2>2. CASE userTask[k] # Null
      BY <1>5, <1>7, <2>2 DEF Active
    <2>. QED BY <2>1, <2>2
  <1>. QED BY <1>5, <1>6, <1>8 DEF s

LEMMA UserTaskForms ==
  ASSUME NEW i, NEW l, l = tx[i].leaf, kind[l] \notin ThrowEvents, kind[l] # "task"
  PROVE  /\ Interrupt(i) =
              Updated(tx[i].client, l, "TERMINATED", terminateProcessInstance(i, Triggering(i, Rows)))
         /\ Escalate(i) = Updated(tx[i].client, l, "STARTED", Triggering(i, Rows))
  BY DEF Interrupt, Escalate

LEMMA TaskForms ==
  ASSUME NEW i, NEW l, l = tx[i].leaf, kind[l] = "task"
  PROVE  /\ Interrupt(i) =
              terminateProcessInstance(i, Done(NewJob("EXECUTE", l), Triggering(i, Rows)))
         /\ Escalate(i) = Triggering(i, Rows)
  BY DEF Interrupt, Escalate, ThrowEvents, EndEvents

LEMMA ThrowEventForms ==
  ASSUME NEW i, NEW l, l = tx[i].leaf, kind[l] \in ThrowEvents
  PROVE  /\ Interrupt(i) =
              terminateProcessInstance(i, [Triggering(i, Rows) EXCEPT !.leaf[l].state = "COMPLETED"])
         /\ Escalate(i) = EndLeaf(l, Triggering(i, Rows))
  <1>1. kind[l] # "task"
    BY DEF ThrowEvents, EndEvents
  <1>. QED BY <1>1 DEF Interrupt, Escalate

(* The user task of l is updated, and others may have been terminated. *)
LEMMA UserTaskUpdated ==
  ASSUME Inv, NEW r, NEW l \in Leaves, NEW c \in Clients,
         NEW state \in {"STARTED", "COMPLETED", "TERMINATED"},
         userTask[l] \in UserTask, userTask[l].state = "STARTED", kind[l] = "userTask",
         c = Observed => seen = [leaf |-> l, row |-> userTask[l]],
         r.userTask[l] = [state |-> state, revision |-> userTask[l].revision + 1, by |-> c],
         r.leaf[l].state = state,
         \A k \in Leaves \ {l} :
           \/ /\ r.userTask[k] = userTask[k]
              /\ userTask[k] # Null => r.leaf[k].state = leaf[k].state
           \/ /\ userTask[k] \in UserTask /\ userTask[k].state = "STARTED" /\ kind[k] = "userTask"
              /\ r.userTask[k] = TerminatedUserTask(userTask[k]) /\ r.leaf[k].state = "TERMINATED"
  PROVE  UserTaskStep(r)
  <1>1. \E d \in Clients, st \in {"STARTED", "COMPLETED", "TERMINATED"} :
          /\ r.userTask[l] = [state |-> st, revision |-> userTask[l].revision + 1, by |-> d]
          /\ r.leaf[l].state = st
          /\ d = Observed => seen = [leaf |-> l, row |-> userTask[l]]
    OBVIOUS
  <1>. QED BY <1>1, UserTasksWritten

LEMMA InterruptStep ==
  ASSUME Inv, NEW i \in Instances, Commit(i), tx[i].boundary # Null,
         Boundary[tx[i].boundary].interrupting
  PROVE  Inv' /\ UpdatesWhatWasRead
  <1>. DEFINE r == Triggering(i, Rows)
  <1>1. tx[i] # Null /\ Write(Interrupt(i))
    BY DEF Commit
  <1>2. PICK l \in Leaves : l = tx[i].leaf
    BY <1>1, CommitFacts
  <1>3. /\ LevelOf[l] = i /\ leaf[l].state = "STARTED"
        /\ kind[l] \in ThrowEvents \cup {"task", "userTask"}
    BY <1>1, <1>2, CommitFacts
  <1>4. /\ RowsInv(r) /\ Kept(i, Rows, r) /\ r.userTask = userTask
        /\ r.instance = instance /\ r.call = call /\ r.attached = attached
        /\ \A k \in Leaves : r.leaf[k].state = leaf[k].state
        /\ \E x \in r.tasks : x \in TriggerEvent /\ x.boundary = tx[i].boundary /\ x.n = tx[i].n
    BY <1>1, TriggeringRows
  <1>. HIDE DEF r
  <1>5. r \in RowsType
    BY <1>4 DEF RowsInv
  <1>6. CASE kind[l] \in ThrowEvents
    <2>. DEFINE y == [r.leaf[l] EXCEPT !.state = "COMPLETED"]
                m == [r EXCEPT !.leaf[l] = y]
                s == terminateProcessInstance(i, m)
    <2>1. Write(s)
      <3>1. m = [r EXCEPT !.leaf[l].state = "COMPLETED"]
        OBVIOUS
      <3>. HIDE DEF m
      <3>. QED BY <1>1, <1>2, <1>6, <3>1, ThrowEventForms DEF r
    <2>2. y \in [state: InstanceState, code: Codes \cup {Null}, thrown: Nat] /\ y.state = "COMPLETED"
      BY <1>5, RowsTyped DEF InstanceState, Ended
    <2>. HIDE DEF y
    <2>3. /\ m \in RowsType /\ m = [r EXCEPT !.leaf = m.leaf] /\ m.leaf[l] = y
          /\ \A k \in Leaves \ {l} : m.leaf[k] = r.leaf[k]
          /\ m.instance = instance /\ m.call = call /\ m.attached = attached
          /\ m.tasks = r.tasks /\ m.userTask = userTask
      BY <1>4, <1>5, <2>2, LeafWritten
    <2>. HIDE DEF m
    <2>4. RowsInv(m) /\ Kept(i, r, m)
      BY <1>3, <1>4, <2>2, <2>3, LeafRows DEF Active
    <2>5. Kept(i, Rows, m)
      BY <1>4, <2>4, KeptAlong
    <2>6. \A k \in Leaves : kind[k] = "userTask" => m.leaf[k].state = leaf[k].state
      BY <1>4, <1>6, <2>3 DEF ThrowEvents, EndEvents
    <2>7. \E x \in m.tasks : x \in TriggerEvent /\ x.boundary = tx[i].boundary /\ x.n = tx[i].n
      BY <1>4, <2>3
    <2>8. /\ RowsInv(s) /\ Kept(i, Rows, s)
          /\ \A k \in Leaves :
               \/ /\ s.userTask[k] = userTask[k]
                  /\ userTask[k] # Null => s.leaf[k].state = leaf[k].state
               \/ /\ userTask[k] \in UserTask /\ userTask[k].state = "STARTED" /\ kind[k] = "userTask"
                  /\ s.userTask[k] = TerminatedUserTask(userTask[k]) /\ s.leaf[k].state = "TERMINATED"
      BY <1>1, <2>3, <2>4, <2>5, <2>6, <2>7, TerminatedRows
    <2>. HIDE DEF s
    <2>9. UserTaskStep(s)
      BY <2>8, UserTasksWritten
    <2>. QED BY <2>1, <2>8, <2>9, CommitOf
  <1>7. CASE kind[l] = "task"
    <2>. DEFINE job == NewJob("EXECUTE", l)
                m == Done(job, r)
                s == terminateProcessInstance(i, m)
    <2>1. Write(s)
      BY <1>1, <1>2, <1>7, TaskForms DEF r
    <2>2. \A c \in Callers : job # NewJob("PASS_VARIABLES", c)
      BY Records
    <2>. HIDE DEF job
    <2>3. /\ RowsInv(m) /\ Kept(i, r, m)
          /\ m.instance = instance /\ m.call = call /\ m.leaf = r.leaf
          /\ m.attached = attached /\ m.tasks = r.tasks /\ m.userTask = userTask
      <3>1. RowsInv(r)
        BY <1>4
      <3>2. /\ RowsInv(m) /\ Kept(i, r, m)
            /\ m.instance = r.instance /\ m.call = r.call /\ m.leaf = r.leaf
            /\ m.attached = r.attached /\ m.tasks = r.tasks /\ m.userTask = r.userTask
        BY <3>1, <2>2, DoneRows
      <3>. QED BY <1>4, <3>2
    <2>. HIDE DEF m
    <2>4. Kept(i, Rows, m)
      BY <1>4, <2>3, KeptAlong
    <2>5. /\ \A k \in Leaves : kind[k] = "userTask" => m.leaf[k].state = leaf[k].state
          /\ \E x \in m.tasks : x \in TriggerEvent /\ x.boundary = tx[i].boundary /\ x.n = tx[i].n
      BY <1>4, <2>3
    <2>6. /\ RowsInv(s) /\ Kept(i, Rows, s)
          /\ \A k \in Leaves :
               \/ /\ s.userTask[k] = userTask[k]
                  /\ userTask[k] # Null => s.leaf[k].state = leaf[k].state
               \/ /\ userTask[k] \in UserTask /\ userTask[k].state = "STARTED" /\ kind[k] = "userTask"
                  /\ s.userTask[k] = TerminatedUserTask(userTask[k]) /\ s.leaf[k].state = "TERMINATED"
      BY <1>1, <2>3, <2>4, <2>5, TerminatedRows
    <2>. HIDE DEF s
    <2>7. UserTaskStep(s)
      BY <2>6, UserTasksWritten
    <2>. QED BY <2>1, <2>6, <2>7, CommitOf
  <1>8. CASE kind[l] = "userTask"
    <2>. DEFINE c == tx[i].client
                x == [state |-> "TERMINATED", revision |-> userTask[l].revision + 1, by |-> c]
                m == terminateProcessInstance(i, r)
                s == Updated(c, l, "TERMINATED", m)
    <2>1. Write(s)
      <3>1. kind[l] \notin ThrowEvents /\ kind[l] # "task"
        BY <1>8 DEF ThrowEvents, EndEvents
      <3>. QED BY <1>1, <1>2, <3>1, UserTaskForms DEF r
    <2>2. /\ userTask[l] \in UserTask /\ userTask[l].state = "STARTED" /\ c \in Clients
          /\ c = Observed => seen = [leaf |-> l, row |-> userTask[l]]
      BY <1>1, <1>2, <1>8, CommitFacts
    <2>3. x \in UserTask
      BY <2>2, UpdatedRow
    <2>4. /\ RowsInv(m) /\ Kept(i, Rows, m)
          /\ \A k \in Leaves :
               \/ /\ m.userTask[k] = userTask[k]
                  /\ userTask[k] # Null => m.leaf[k].state = leaf[k].state
               \/ /\ userTask[k] \in UserTask /\ userTask[k].state = "STARTED" /\ kind[k] = "userTask"
                  /\ m.userTask[k] = TerminatedUserTask(userTask[k]) /\ m.leaf[k].state = "TERMINATED"
          /\ m.leaf[l].state = "TERMINATED"
      BY <1>1, <1>3, <1>4, TerminatedRows DEF Active
    <2>5. s = [m EXCEPT !.userTask[l] = x]
      BY DEF Updated
    <2>. HIDE DEF c, x, m, s
    <2>6. /\ RowsInv(s) /\ Kept(i, m, s) /\ s.userTask = [m.userTask EXCEPT ![l] = x] /\ s.leaf = m.leaf
      BY <1>3, <2>3, <2>4, <2>5, UserTaskRows
    <2>7. /\ s.userTask[l] = x /\ \A k \in Leaves \ {l} : s.userTask[k] = m.userTask[k]
      <3>1. m.userTask \in [Leaves -> UserTask \cup {Null}]
        BY <2>4, RowsTyped DEF RowsInv
      <3>. QED BY <2>6, <3>1
    <2>8. UserTaskStep(s)
      <3>1. PICK state \in {"STARTED", "COMPLETED", "TERMINATED"} : state = "TERMINATED"
        OBVIOUS
      <3>2. /\ s.userTask[l] = [state |-> state, revision |-> userTask[l].revision + 1, by |-> c]
            /\ s.leaf[l].state = state
        BY <2>4, <2>6, <2>7, <3>1 DEF x
      <3>3. ASSUME NEW k \in Leaves \ {l}
            PROVE
              \/ /\ s.userTask[k] = userTask[k]
                 /\ userTask[k] # Null => s.leaf[k].state = leaf[k].state
              \/ /\ userTask[k] \in UserTask /\ userTask[k].state = "STARTED" /\ kind[k] = "userTask"
                 /\ s.userTask[k] = TerminatedUserTask(userTask[k]) /\ s.leaf[k].state = "TERMINATED"
        <4>1. s.userTask[k] = m.userTask[k] /\ s.leaf[k] = m.leaf[k]
          BY <2>6, <2>7
        <4>2. \/ /\ m.userTask[k] = userTask[k]
                 /\ userTask[k] # Null => m.leaf[k].state = leaf[k].state
              \/ /\ userTask[k] \in UserTask /\ userTask[k].state = "STARTED" /\ kind[k] = "userTask"
                 /\ m.userTask[k] = TerminatedUserTask(userTask[k]) /\ m.leaf[k].state = "TERMINATED"
          BY <2>4
        <4>. QED BY <4>1, <4>2, Zenon
      <3>4. /\ c \in Clients /\ userTask[l] \in UserTask
            /\ userTask[l].state = "STARTED" /\ kind[l] = "userTask"
            /\ c = Observed => seen = [leaf |-> l, row |-> userTask[l]]
        BY <1>8, <2>2
      <3>. QED BY <3>2, <3>3, <3>4, UserTaskUpdated
    <2>9. Kept(i, Rows, s)
      BY <2>4, <2>6, KeptAlong
    <2>. QED BY <2>1, <2>6, <2>8, <2>9, CommitOf
  <1>. QED BY <1>3, <1>6, <1>7, <1>8

LEMMA EscalateStep ==
  ASSUME Inv, NEW i \in Instances, Commit(i), tx[i].boundary # Null,
         ~Boundary[tx[i].boundary].interrupting
  PROVE  Inv' /\ UpdatesWhatWasRead
  <1>. DEFINE r == Triggering(i, Rows)
  <1>1. tx[i] # Null /\ Write(Escalate(i))
    BY DEF Commit
  <1>2. PICK l \in Leaves : l = tx[i].leaf
    BY <1>1, CommitFacts
  <1>3. /\ LevelOf[l] = i /\ leaf[l].state = "STARTED"
        /\ kind[l] \in ThrowEvents \cup {"task", "userTask"}
    BY <1>1, <1>2, CommitFacts
  <1>4. /\ RowsInv(r) /\ Kept(i, Rows, r) /\ r.userTask = userTask
        /\ \A k \in Leaves : r.leaf[k].state = leaf[k].state
    BY <1>1, TriggeringRows
  <1>. HIDE DEF r
  <1>5. CASE kind[l] \in ThrowEvents
    <2>. DEFINE s == EndLeaf(l, r)
    <2>1. Write(s)
      BY <1>1, <1>2, <1>5, ThrowEventForms DEF r
    <2>2. /\ RowsInv(s) /\ Kept(i, r, s) /\ s.userTask = userTask
          /\ s.leaf = [r.leaf EXCEPT ![l].state = "COMPLETED"]
      BY <1>3, <1>4, EndLeafRows DEF Active
    <2>. HIDE DEF s
    <2>3. \A k \in Leaves \ {l} : s.leaf[k] = r.leaf[k]
      <3>1. r \in RowsType
        BY <1>4 DEF RowsInv
      <3>. QED BY <2>2, <3>1, RowsTyped
    <2>4. UserTaskStep(s)
      BY <1>4, <1>5, <2>2, <2>3, UserTasksLeftAlone DEF ThrowEvents, EndEvents
    <2>5. Kept(i, Rows, s)
      BY <1>4, <2>2, KeptAlong
    <2>. QED BY <2>1, <2>2, <2>4, <2>5, CommitOf
  <1>6. CASE kind[l] = "task"
    <2>1. Write(r)
      BY <1>1, <1>2, <1>6, TaskForms DEF r
    <2>2. UserTaskStep(r)
      BY <1>4, UserTasksLeftAlone
    <2>. QED BY <1>4, <2>1, <2>2, CommitOf
  <1>7. CASE kind[l] = "userTask"
    <2>. DEFINE c == tx[i].client
                x == [state |-> "STARTED", revision |-> userTask[l].revision + 1, by |-> c]
                s == Updated(c, l, "STARTED", r)
    <2>1. Write(s)
      <3>1. kind[l] \notin ThrowEvents /\ kind[l] # "task"
        BY <1>7 DEF ThrowEvents, EndEvents
      <3>. QED BY <1>1, <1>2, <3>1, UserTaskForms DEF r
    <2>2. /\ userTask[l] \in UserTask /\ userTask[l].state = "STARTED" /\ c \in Clients
          /\ c = Observed => seen = [leaf |-> l, row |-> userTask[l]]
      BY <1>1, <1>2, <1>7, CommitFacts
    <2>3. x \in UserTask
      BY <2>2, UpdatedRow
    <2>4. s = [r EXCEPT !.userTask[l] = x]
      BY DEF Updated
    <2>. HIDE DEF c, x, s
    <2>5. /\ RowsInv(s) /\ Kept(i, r, s) /\ s.userTask = [userTask EXCEPT ![l] = x] /\ s.leaf = r.leaf
      BY <1>3, <1>4, <2>3, <2>4, UserTaskRows
    <2>6. /\ s.userTask[l] = x /\ \A k \in Leaves \ {l} : s.userTask[k] = userTask[k]
      BY <2>5, InvFacts DEF TypeOK
    <2>7. UserTaskStep(s)
      <3>1. PICK state \in {"STARTED", "COMPLETED", "TERMINATED"} : state = "STARTED"
        OBVIOUS
      <3>2. /\ s.userTask[l] = [state |-> state, revision |-> userTask[l].revision + 1, by |-> c]
            /\ s.leaf[l].state = state
        BY <1>3, <1>4, <2>5, <2>6, <3>1 DEF x
      <3>3. \A k \in Leaves \ {l} : s.userTask[k] = userTask[k] /\ s.leaf[k].state = leaf[k].state
        BY <1>4, <2>5, <2>6
      <3>. QED BY <1>7, <2>2, <3>2, <3>3, UserTaskUpdated
    <2>8. Kept(i, Rows, s)
      BY <1>4, <2>5, KeptAlong
    <2>. QED BY <2>1, <2>5, <2>7, <2>8, CommitOf
  <1>. QED BY <1>3, <1>5, <1>6, <1>7

-----------------------------------------------------------------------------
LEMMA InitInv == Init => Inv
  <1>. SUFFICES ASSUME Init PROVE Inv
    OBVIOUS
  <1>. DEFINE none == [instance |-> [i \in Instances |-> "NONE"],
                       call |-> [i \in Callers |-> "NONE"],
                       leaf |-> [l \in Leaves |-> [state |-> "NONE", code |-> Null, thrown |-> 0]],
                       attached |-> [b \in Boundaries |-> [n |-> 0, state |-> "NONE", code |-> Null]],
                       jobs |-> {}, tasks |-> {}, userTask |-> [l \in Leaves |-> Null]]
              r == Enter(1, none)
  <1>1. /\ none.instance \in [Instances -> InstanceState]
        /\ none.call \in [Callers -> InstanceState]
        /\ none.leaf \in [Leaves -> [state: InstanceState, code: Codes \cup {Null}, thrown: Nat]]
        /\ none.attached \in [Boundaries -> Attached]
        /\ none.userTask \in [Leaves -> UserTask \cup {Null}]
    BY DEF InstanceState, Attached
  <1>2. none \in RowsType
    BY <1>1 DEF RowsType
  <1>3. /\ \A i \in Instances : none.instance[i] = "NONE"
        /\ \A i \in Callers : none.call[i] = "NONE"
        /\ \A l \in Leaves : none.leaf[l].state = "NONE" /\ none.userTask[l] = Null
        /\ \A b \in Boundaries : none.attached[b].state = "NONE"
        /\ none.jobs = {} /\ none.tasks = {}
    OBVIOUS
  <1>4. /\ kind \in [Leaves -> Kinds] /\ kind \in Models /\ seen = Null
        /\ tx = [i \in Instances |-> Null] /\ ignored = FALSE
        /\ instance = r.instance /\ call = r.call /\ leaf = r.leaf /\ attached = r.attached
        /\ jobs = r.jobs /\ tasks = r.tasks /\ userTask = r.userTask
    BY CallsAssumption DEF Init
  <1>. HIDE DEF none, r
  <1>5. RowsInv(none)
    <2>1. LeafPart(none)
      BY <1>3, Levels DEF LeafPart, Active
    <2>2. CallPart(none)
      BY <1>3, Levels DEF CallPart, CalledPart, Active, Ended
    <2>3. BoundaryPart(none)
      BY <1>3, Levels DEF BoundaryPart, Active, Ended
    <2>4. TaskPart(none) /\ StuckPart(none)
      BY <1>3 DEF TaskPart, StuckPart
    <2>. QED BY <1>2, <2>1, <2>2, <2>3, <2>4 DEF RowsInv
  <1>6. /\ RowsInv(r)
        /\ \A l \in Leaves : LevelOf[l] # 1 => r.userTask[l] = none.userTask[l]
        /\ \A l \in Leaves : LevelOf[l] = 1 =>
             IF kind[l] = "userTask"
             THEN /\ r.leaf[l].state = "STARTED"
                  /\ r.userTask[l] = [state |-> "STARTED", revision |-> 1, by |-> Null]
             ELSE r.userTask[l] = none.userTask[l]
    BY <1>3, <1>4, <1>5, Levels, EnterRows DEF r
  <1>7. r \in RowsType
    BY <1>6 DEF RowsInv
  <1>8. Rows = r
    BY <1>4, <1>7 DEF Rows, RowsType
  <1>9. UserTaskPart(r)
    BY <1>3, <1>6 DEF UserTaskPart
  <1>10. TypeOK
    BY <1>4, <1>7, RowsTyped DEF TypeOK
  <1>11. FoundPart /\ SeenPart
    BY <1>4 DEF FoundPart, SeenPart
  <1>. QED BY <1>6, <1>8, <1>9, <1>10, <1>11 DEF Inv

LEMMA ExecuteStep ==
  ASSUME Inv, Execute
  PROVE  Inv' /\ UpdatesWhatWasRead
  <1>1. CASE \E t \in tasks : TriggerBoundaryEvent(t)
    BY <1>1, TriggerBoundaryEventStep
  <1>2. CASE \E i \in Instances : Terminate(i)
    BY <1>2, TerminateStep
  <1>3. CASE \E i \in Instances : StartProcessInstance(i)
    BY <1>3, StartProcessInstanceStep
  <1>4. CASE \E i \in Instances : Commit(i)
    BY <1>4, NotFoundStep, InterruptStep, EscalateStep
  <1>5. CASE \E l \in Leaves : TriggerThrowEvent(l)
    BY <1>5, TriggerThrowEventStep
  <1>. QED BY <1>1, <1>2, <1>3, <1>4, <1>5 DEF Execute

LEMMA CancelStep ==
  ASSUME Inv,
         \/ \E l \in Leaves : CancelLeafJob(l)
         \/ \E i \in Callers : CancelCallJob(i)
         \/ \E b \in Boundaries : CancelBoundaryJob(b)
  PROVE  Inv' /\ UpdatesWhatWasRead
  <1>1. ASSUME NEW l \in Leaves, CancelLeafJob(l)
        PROVE  Inv' /\ UpdatesWhatWasRead
    <2>1. PICK type \in {"EXECUTE", "SET_CODE"} :
            CancelJob(NewJob(type, l), LevelOf[l], leaf[l].state)
      BY <1>1 DEF CancelLeafJob
    <2>2. \A c \in Callers : NewJob(type, l) # NewJob("PASS_VARIABLES", c)
      BY Records
    <2>. QED BY <2>1, <2>2, Levels, CancelJobStep
  <1>2. ASSUME NEW i \in Callers, CancelCallJob(i)
        PROVE  Inv' /\ UpdatesWhatWasRead
    <2>1. PICK type \in {"CALL_PROCESS", "PASS_VARIABLES"} : CancelJob(NewJob(type, i), i, call[i])
      BY <1>2 DEF CancelCallJob
    <2>2. call[i] \in Ended
      BY <2>1 DEF CancelJob
    <2>3. \A c \in Callers : call[c] = "STARTED" => NewJob(type, i) # NewJob("PASS_VARIABLES", c)
      BY <2>2, Records DEF Ended
    <2>. QED BY <2>1, <2>3, Levels, CancelJobStep
  <1>3. ASSUME NEW b \in Boundaries, CancelBoundaryJob(b)
        PROVE  Inv' /\ UpdatesWhatWasRead
    <2>1. CancelJob(NewJob("SET_CODE", b), Boundary[b].level, attached[b].state)
      BY <1>3 DEF CancelBoundaryJob
    <2>2. \A c \in Callers : NewJob("SET_CODE", b) # NewJob("PASS_VARIABLES", c)
      BY Records
    <2>. QED BY <2>1, <2>2, Levels, CancelJobStep
  <1>. QED BY <1>1, <1>2, <1>3

LEMMA WorkStep ==
  ASSUME Inv, Work
  PROVE  Inv' /\ UpdatesWhatWasRead
  <1>1. CASE \E i \in Callers : CallProcess(i) \/ PassVariables(i)
    BY <1>1, CallProcessStep, PassVariablesStep
  <1>2. CASE \E b \in Boundaries, code \in Codes \cup {AnyCode} : SetBoundaryCode(b, code)
    BY <1>2, SetBoundaryCodeStep
  <1>3. CASE \E l \in Leaves : ExecuteTask(l)
    BY <1>3, ExecuteTaskStep
  <1>4. CASE \E l \in Leaves, code \in Codes : SetThrowCode(l, code)
    BY <1>4, SetThrowCodeStep
  <1>5. CASE \E l \in Leaves, code \in Codes, type \in {"error", "escalation"} :
               ThrowByJob(l, type, code)
    BY <1>5, ThrowByJobStep
  <1>6. CASE \/ \E l \in Leaves : CancelLeafJob(l)
             \/ \E i \in Callers : CancelCallJob(i)
             \/ \E b \in Boundaries : CancelBoundaryJob(b)
    BY <1>6, CancelStep
  <1>. QED BY <1>1, <1>2, <1>3, <1>4, <1>5, <1>6 DEF Work

LEMMA UpdateStep ==
  ASSUME Inv, Update
  PROVE  Inv' /\ UpdatesWhatWasRead
  <1>1. CASE \E l \in Leaves : ReadUserTask(l)
    BY <1>1, ReadUserTaskStep
  <1>2. CASE \E l \in Leaves, c \in Clients : TagUserTask(c, l)
    BY <1>2, TagUserTaskStep
  <1>3. CASE \E l \in Leaves, c \in Clients : CompleteUserTask(c, l)
    BY <1>3, CompleteUserTaskStep
  <1>4. CASE \E l \in Leaves, c \in Clients, type \in {"error", "escalation"}, code \in Codes :
               ThrowByUserTask(c, l, type, code)
    BY <1>4, ThrowByUserTaskStep
  <1>. QED BY <1>1, <1>2, <1>3, <1>4 DEF Update

LEMMA NextInv == Inv /\ [Next]_vars => Inv' /\ UpdatesWhatWasRead
  <1>. SUFFICES ASSUME Inv, [Next]_vars PROVE Inv' /\ UpdatesWhatWasRead
    OBVIOUS
  <1>1. CASE Execute
    BY <1>1, ExecuteStep
  <1>2. CASE Work
    BY <1>2, WorkStep
  <1>3. CASE Update
    BY <1>3, UpdateStep
  <1>4. CASE \E b \in Boundaries : TriggerEventOf(b)
    BY <1>4, TriggerEventOfStep
  <1>5. CASE UNCHANGED vars
    <2>1. UNCHANGED <<kind, instance, call, leaf, attached, jobs, tasks, userTask, seen, tx, ignored>>
      BY <1>5 DEF vars
    <2>2. TypeOK' /\ SeenPart'
      BY <2>1, InvFacts DEF TypeOK, SeenPart
    <2>3. FoundPart'
      BY <2>1, InvFacts DEF FoundPart
    <2>. QED BY <2>1, <2>2, <2>3, RowsLeftAlone DEF Inv
  <1>. QED BY <1>1, <1>2, <1>3, <1>4, <1>5 DEF Next

LEMMA AlwaysInv == Spec => []Inv
  BY InitInv, NextInv, PTL DEF Spec

-----------------------------------------------------------------------------
(* The rows of process instances, call activities, boundary events, jobs,    *)
(* tasks and user tasks keep their types.                                    *)
THEOREM TypeCorrect == Spec => []TypeOK
  <1>1. Inv => TypeOK
    BY DEF Inv
  <1>. QED BY <1>1, AlwaysInv, PTL

(* When a called process has ended, its call activity finds the job or the   *)
(* task that lets it continue, whichever way the process ended, and whatever *)
(* was found at its boundary events between (element_instance.go 267-347,    *)
(* error.go, escalation.go).                                                 *)
THEOREM CallContinues == Spec => []NoStuckCall
  <1>1. Inv => NoStuckCall
    <2>. SUFFICES ASSUME Inv, NEW i \in Callers, call[i] = "STARTED", instance[i + 1] \in Ended,
                         NewJob("PASS_VARIABLES", i) \notin jobs
                  PROVE  \E t \in tasks \cap TriggerEvent :
                           /\ Boundary[t.boundary].level = i /\ Boundary[t.boundary].interrupting
                           /\ ~IsOver(t.boundary, t.n)
      BY DEF NoStuckCall
    <2>1. PICK t \in tasks : WillInterrupt(t, i, Rows)
      BY InvFacts, RowsFields DEF StuckPart
    <2>2. PICK b \in Boundaries : b = t.boundary
      BY <2>1 DEF WillInterrupt, TriggerEvent
    <2>3. /\ t \in TriggerEvent /\ t.n = attached[b].n
          /\ Boundary[b].level = i /\ Boundary[b].interrupting
      BY <2>1, <2>2, RowsFields DEF WillInterrupt
    <2>4. attached[b].state = "CREATED" /\ instance[i] = "STARTED"
      BY <2>3, InvFacts, RowsFields DEF BoundaryPart, CallPart, CalledPart, Active
    <2>5. ~IsOver(b, t.n)
      BY <2>3, <2>4 DEF IsOver, Ended
    <2>. QED BY <2>2, <2>3, <2>5
  <1>. QED BY <1>1, AlwaysInv, PTL

(* The boundary events of a call activity wait as long as it does, and at    *)
(* most one of them interrupts it, however many errors and escalations are   *)
(* on their way to it (event.go 311-502).                                    *)
THEOREM OneInterruption == Spec => []InterruptedOnce
  <1>1. Inv => InterruptedOnce
    <2>. SUFFICES ASSUME Inv, NEW i \in Callers
                  PROVE  LET Completed == {b \in BoundariesOf(i) : attached[b].state = "COMPLETED"}
                             Created == {b \in BoundariesOf(i) : attached[b].state = "CREATED"}
                         IN /\ call[i] \in Active => Created = BoundariesOf(i)
                            /\ call[i] \in Ended => Created = {} /\ Cardinality(Completed) <= 1
                            /\ call[i] = "COMPLETED" => Completed = {} /\ instance[i + 1] = "COMPLETED"
      BY DEF InterruptedOnce
    <2>. DEFINE Completed == {b \in BoundariesOf(i) : attached[b].state = "COMPLETED"}
                Created == {b \in BoundariesOf(i) : attached[b].state = "CREATED"}
    <2>1. \A b \in BoundariesOf(i) :
            /\ call[i] \in Active => attached[b].state = "CREATED"
            /\ call[i] \in Ended => attached[b].state \in Ended
            /\ call[i] = "COMPLETED" => attached[b].state = "TERMINATED"
      BY InvFacts, RowsFields DEF BoundaryPart, BoundariesOf
    <2>2. call[i] = "COMPLETED" => instance[i + 1] = "COMPLETED"
      BY InvFacts, RowsFields DEF CallPart, CalledPart
    <2>3. Cardinality(Completed) <= 1
      <3>1. \A b, c \in Completed : b = c
        BY InvFacts, RowsFields DEF BoundaryPart, BoundariesOf
      <3>. QED BY <3>1, AtMostOne
    <2>. QED BY <2>1, <2>2, <2>3 DEF Ended
  <1>. QED BY <1>1, AlwaysInv, PTL

(* A process is terminated when the call activity that has called it ends,   *)
(* also one that has been queued, and one that is about to throw             *)
(* (process_instance.go 417-553, event.go 372-400).                          *)
THEOREM CalledEnds == Spec => []NoOrphanedInstance
  <1>1. Inv => NoOrphanedInstance
    BY InvFacts, RowsFields DEF NoOrphanedInstance, CallPart, CalledPart
  <1>. QED BY <1>1, AlwaysInv, PTL

(* The row of a user task and the execution that waits for it are never      *)
(* apart (user_task.go 74-218, event.go 452-479, process_instance.go         *)
(* 521-541).                                                                 *)
THEOREM UserTaskInStep == Spec => []UserTaskFollowsExecution
  <1>1. Inv => UserTaskFollowsExecution
    BY InvFacts, RowsFields DEF UserTaskFollowsExecution, UserTaskPart
  <1>. QED BY <1>1, AlwaysInv, PTL

(* An update that commits has been made of the row its client has read, for  *)
(* any number of clients and steps between (user_task.go 74-108).            *)
THEOREM UpdateOfWhatWasRead == Spec => NoLostUpdate
  BY AlwaysInv, NextInv, PTL DEF Spec, NoLostUpdate
=============================================================================
