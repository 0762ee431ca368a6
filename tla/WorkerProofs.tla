---------------------------- MODULE WorkerProofs ----------------------------
(***************************************************************************)
(* Proofs about Jobs and Worker, for any number of executions, jobs,       *)
(* workers and executors and any retry limits.  A worker only does to jobs *)
(* what Jobs allows, so that what is shown of jobs holds of those a worker *)
(* executes.                                                               *)
(***************************************************************************)
EXTENDS Worker, TLAPS, SequenceTheorems, WellFoundedInduction

-----------------------------------------------------------------------------
(* Jobs.                                                                     *)

(* A row that is not inserted yet belongs to no execution, and the job that  *)
(* is being completed is an uncompleted one.                                 *)
RowsOK ==
  /\ \A j \in JobIds : state[j] = "NONE" <=> execution[j] = Null
  /\ tx # Null => tx \in Jobs \ completed

Inv == TypeOK /\ RowsOK /\ CompletedOnce /\ OneHandle

LEMMA InitInv == Init => Inv
  <1>. SUFFICES ASSUME Init PROVE Inv
    OBVIOUS
  <1>1. TypeOK
    BY DEF Init, TypeOK, WorkState, Jobs
  <1>2. RowsOK /\ CompletedOnce
    BY DEF Init, RowsOK, CompletedOnce
  <1>3. OneHandle
    <2>1. ASSUME NEW e \in Executions
          PROVE  Handles(e) = {j \in JobIds : execution[j] = e}
      BY JobsAssumption DEF Init, Handles, Jobs
    <2>. QED BY <2>1 DEF Init, OneHandle
  <1>. QED BY <1>1, <1>2, <1>3 DEF Inv

(* Inserting a job next to rows of which tx has changed its state. *)
LEMMA InsertedRows ==
  ASSUME TypeOK, RowsOK, NEW r \in JobIds, NEW e \in Executions, NEW n \in Nat,
         NEW STATE states, states \in [JobIds -> WorkState \cup {"NONE"}],
         \A j \in JobIds : states[j] = "NONE" <=> state[j] = "NONE",
         Inserted(states, r, e, n)
  PROVE  /\ state' \in [JobIds -> WorkState \cup {"NONE"}]
         /\ execution' \in [JobIds -> Executions \cup {Null}]
         /\ retryCount' \in [JobIds -> Nat]
         /\ Jobs' = Jobs \cup {r} /\ r \notin Jobs
         /\ execution'[r] = e
         /\ \A j \in Jobs : execution'[j] = execution[j]
         /\ \A j \in JobIds : state'[j] = "NONE" <=> execution'[j] = Null
  BY JobsAssumption DEF TypeOK, RowsOK, Inserted, Unused, Jobs, WorkState

LEMMA NothingInsertedRows ==
  ASSUME TypeOK, RowsOK,
         NEW STATE states, states \in [JobIds -> WorkState \cup {"NONE"}],
         \A j \in JobIds : states[j] = "NONE" <=> state[j] = "NONE",
         NothingInserted(states)
  PROVE  /\ state' \in [JobIds -> WorkState \cup {"NONE"}]
         /\ execution' = execution /\ retryCount' = retryCount
         /\ Jobs' = Jobs
         /\ \A j \in JobIds : state'[j] = "NONE" <=> execution'[j] = Null
  BY DEF TypeOK, RowsOK, NothingInserted, Jobs

LEMMA CompleteRows ==
  ASSUME TypeOK, RowsOK, tx # Null, NEW s \in WorkState
  PROVE  /\ Complete(s) \in [JobIds -> WorkState \cup {"NONE"}]
         /\ \A j \in JobIds : Complete(s)[j] = "NONE" <=> state[j] = "NONE"
         /\ tx \in Jobs /\ tx \notin completed /\ tx \in JobIds
         /\ execution[tx] \in Executions
  BY DEF TypeOK, RowsOK, Complete, Jobs, WorkState

(* What a commit does to the completed jobs and their history. *)
LEMMA CommitCompletedInv ==
  ASSUME Inv, CommitCompleted
  PROVE  /\ completions' \in [JobIds -> Nat] /\ CompletedOnce'
         /\ lockedBy' \in [JobIds -> Workers \cup {Null}]
         /\ tx' = Null /\ completed' = completed \cup {tx}
         /\ tx \in Jobs /\ tx \notin completed /\ tx # Null
  BY DEF Inv, TypeOK, RowsOK, CompletedOnce, CommitCompleted, Jobs

LEMMA NextInv == Inv /\ [Next]_vars => Inv'
  <1>. SUFFICES ASSUME Inv, [Next]_vars PROVE Inv'
    OBVIOUS
  <1>0. TypeOK /\ RowsOK /\ CompletedOnce /\ OneHandle
    BY DEF Inv
  <1>1. ASSUME NEW w \in Workers, LockJobs(w) PROVE Inv'
    <2>1. Jobs' = Jobs
      BY <1>0, <1>1 DEF LockJobs, Lock, Lockable, Jobs, TypeOK
    <2>2. TypeOK' /\ RowsOK'
      BY <1>0, <1>1, <2>1 DEF LockJobs, Lock, Lockable, Jobs, TypeOK, RowsOK, WorkState
    <2>3. CompletedOnce'
      BY <1>0, <1>1 DEF LockJobs, Lock, CompletedOnce
    <2>4. OneHandle'
      BY <1>0, <1>1, <2>1 DEF LockJobs, Lock, OneHandle, Handles
    <2>. QED BY <2>2, <2>3, <2>4 DEF Inv
  <1>2. ASSUME NEW w \in Workers, UnlockJobs(w) PROVE Inv'
    <2>1. Jobs' = Jobs
      BY <1>0, <1>2 DEF UnlockJobs, Unlockable, Jobs, TypeOK
    <2>2. TypeOK' /\ RowsOK'
      BY <1>0, <1>2, <2>1 DEF UnlockJobs, Unlockable, Jobs, TypeOK, RowsOK, WorkState
    <2>3. CompletedOnce'
      BY <1>0, <1>2 DEF UnlockJobs, CompletedOnce
    <2>4. OneHandle'
      BY <1>0, <1>2, <2>1 DEF UnlockJobs, OneHandle, Handles
    <2>. QED BY <2>2, <2>3, <2>4 DEF Inv
  <1>3. ASSUME NEW w \in Workers, NEW j \in JobIds, BeginCompleteJob(w, j) PROVE Inv'
    BY <1>0, <1>3 DEF BeginCompleteJob, rows, Inv, TypeOK, RowsOK, CompletedOnce,
                      OneHandle, Handles, Jobs
  <1>4. CASE CancelJob
    <2>0. /\ CommitCompleted /\ NothingInserted(Complete("CANCELED"))
          /\ mode[execution[tx]] = "ENDED" /\ incidents' = incidents /\ mode' = mode
          /\ tx # Null /\ "CANCELED" \in WorkState
      BY <1>4 DEF CancelJob, CommitCompleted, WorkState
    <2>1. /\ state' \in [JobIds -> WorkState \cup {"NONE"}]
          /\ execution' = execution /\ retryCount' = retryCount /\ Jobs' = Jobs
          /\ \A j \in JobIds : state'[j] = "NONE" <=> execution'[j] = Null
      BY <1>0, <2>0, CompleteRows, NothingInsertedRows
    <2>2. TypeOK' /\ RowsOK' /\ CompletedOnce'
      BY <1>0, <2>0, <2>1, CommitCompletedInv DEF Inv, TypeOK, RowsOK
    <2>3. \A e \in Executions : mode[e] # "ENDED" => Handles(e)' = Handles(e)
      BY <2>0, <2>1 DEF Handles, CommitCompleted
    <2>4. OneHandle'
      BY <1>0, <2>0, <2>3 DEF OneHandle
    <2>. QED BY <2>2, <2>4 DEF Inv
  <1>5. CASE CompleteJob
    <2>0. /\ CommitCompleted /\ mode[execution[tx]] # "ENDED" /\ incidents' = incidents
          /\ tx # Null /\ "DONE" \in WorkState
      BY <1>5 DEF CompleteJob, CommitCompleted, WorkState
    <2>1. /\ tx \in Jobs /\ tx \notin completed /\ tx \in JobIds /\ tx \notin incidents
          /\ execution[tx] \in Executions
      BY <1>0, <2>0, CompleteRows DEF TypeOK
    <2>2. Handles(execution[tx]) = {tx}
      BY <1>0, <2>0, <2>1 DEF OneHandle, Handles, TypeOK
    <2>3. ASSUME NEW m \in {"WAIT", "ENDED"},
                 mode' = [mode EXCEPT ![execution[tx]] = m],
                 NothingInserted(Complete("DONE"))
          PROVE  Inv'
      <3>1. /\ state' \in [JobIds -> WorkState \cup {"NONE"}]
            /\ execution' = execution /\ retryCount' = retryCount /\ Jobs' = Jobs
            /\ \A j \in JobIds : state'[j] = "NONE" <=> execution'[j] = Null
        BY <1>0, <2>0, <2>3, CompleteRows, NothingInsertedRows
      <3>2. TypeOK' /\ RowsOK' /\ CompletedOnce'
        BY <1>0, <2>0, <2>1, <2>3, <3>1, CommitCompletedInv DEF Inv, TypeOK, RowsOK
      <3>3. ASSUME NEW e \in Executions PROVE Handles(e)' = Handles(e) \ {tx}
        BY <2>0, <2>1, <3>1 DEF Handles, CommitCompleted
      <3>4. OneHandle'
        BY <1>0, <2>1, <2>2, <2>3, <3>3 DEF OneHandle, TypeOK, Handles
      <3>. QED BY <3>2, <3>4 DEF Inv
    <2>4. ASSUME NEW r \in JobIds, Inserted(Complete("DONE"), r, execution[tx], 0),
                 mode' = [mode EXCEPT ![execution[tx]] = "JOB"]
          PROVE  Inv'
      <3>1. /\ state' \in [JobIds -> WorkState \cup {"NONE"}]
            /\ execution' \in [JobIds -> Executions \cup {Null}]
            /\ retryCount' \in [JobIds -> Nat]
            /\ Jobs' = Jobs \cup {r} /\ r \notin Jobs
            /\ execution'[r] = execution[tx]
            /\ \A j \in Jobs : execution'[j] = execution[j]
            /\ \A j \in JobIds : state'[j] = "NONE" <=> execution'[j] = Null
        BY <1>0, <2>0, <2>1, <2>4, CompleteRows, InsertedRows
      <3>2. TypeOK' /\ RowsOK' /\ CompletedOnce'
        BY <1>0, <2>0, <2>1, <2>4, <3>1, CommitCompletedInv DEF Inv, TypeOK, RowsOK
      <3>3. ASSUME NEW e \in Executions
            PROVE  Handles(e)' = IF e = execution[tx] THEN {r} ELSE Handles(e)
        BY <1>0, <2>0, <2>1, <2>2, <3>1 DEF Handles, CommitCompleted, TypeOK
      <3>4. OneHandle'
        BY <1>0, <2>1, <2>4, <3>3 DEF OneHandle, TypeOK
      <3>. QED BY <3>2, <3>4 DEF Inv
    <2>. QED BY <1>5, <2>3, <2>4 DEF CompleteJob
  <1>6. ASSUME NEW limit \in RetryLimits, FailJob(limit) PROVE Inv'
    <2>0. /\ CommitCompleted /\ mode[execution[tx]] # "ENDED" /\ mode' = mode
          /\ tx # Null /\ {"CAUSED_RETRY", "CAUSED_INCIDENT"} \subseteq WorkState
      BY <1>6 DEF FailJob, CommitCompleted, WorkState
    <2>1. /\ tx \in Jobs /\ tx \notin completed /\ tx \in JobIds /\ tx \notin incidents
          /\ execution[tx] \in Executions /\ retryCount[tx] + 1 \in Nat
      BY <1>0, <2>0, CompleteRows DEF TypeOK
    <2>2. Handles(execution[tx]) = {tx}
      BY <1>0, <2>0, <2>1 DEF OneHandle, Handles, TypeOK
    <2>3. ASSUME NEW r \in JobIds, incidents' = incidents,
                 Inserted(Complete("CAUSED_RETRY"), r, execution[tx], retryCount[tx] + 1)
          PROVE  Inv'
      <3>1. /\ state' \in [JobIds -> WorkState \cup {"NONE"}]
            /\ execution' \in [JobIds -> Executions \cup {Null}]
            /\ retryCount' \in [JobIds -> Nat]
            /\ Jobs' = Jobs \cup {r} /\ r \notin Jobs
            /\ execution'[r] = execution[tx]
            /\ \A j \in Jobs : execution'[j] = execution[j]
            /\ \A j \in JobIds : state'[j] = "NONE" <=> execution'[j] = Null
        BY <1>0, <2>0, <2>1, <2>3, CompleteRows, InsertedRows
      <3>2. TypeOK' /\ RowsOK' /\ CompletedOnce'
        BY <1>0, <2>0, <2>1, <2>3, <3>1, CommitCompletedInv DEF Inv, TypeOK, RowsOK
      <3>3. ASSUME NEW e \in Executions
            PROVE  Handles(e)' = IF e = execution[tx] THEN {r} ELSE Handles(e)
        BY <1>0, <2>0, <2>1, <2>2, <2>3, <3>1 DEF Handles, CommitCompleted, TypeOK
      <3>4. mode[execution[tx]] = "JOB"
        BY <1>0, <2>0, <2>1, <2>2 DEF OneHandle, TypeOK
      <3>5. OneHandle'
        <4>1. ASSUME NEW e \in Executions
              PROVE  /\ mode'[e] = "JOB" => \E j \in JobIds : Handles(e)' = {j}
                     /\ mode'[e] = "WAIT" => Handles(e)' = {}
          <5>1. CASE e = execution[tx]
            BY <2>0, <2>3, <3>3, <3>4, <5>1
          <5>2. CASE e # execution[tx]
            BY <1>0, <2>0, <3>3, <5>2 DEF OneHandle
          <5>. QED BY <5>1, <5>2
        <4>. QED BY <4>1 DEF OneHandle
      <3>. QED BY <3>2, <3>5 DEF Inv
    <2>4. ASSUME NothingInserted(Complete("CAUSED_INCIDENT")),
                 incidents' = incidents \cup {tx}
          PROVE  Inv'
      <3>1. /\ state' \in [JobIds -> WorkState \cup {"NONE"}]
            /\ execution' = execution /\ retryCount' = retryCount /\ Jobs' = Jobs
            /\ \A j \in JobIds : state'[j] = "NONE" <=> execution'[j] = Null
        BY <1>0, <2>0, <2>4, CompleteRows, NothingInsertedRows
      <3>2. TypeOK' /\ RowsOK' /\ CompletedOnce'
        BY <1>0, <2>0, <2>1, <2>4, <3>1, CommitCompletedInv DEF Inv, TypeOK, RowsOK
      <3>3. \A e \in Executions : Handles(e)' = Handles(e)
        BY <1>0, <2>0, <2>1, <2>4, <3>1 DEF Handles, CommitCompleted
      <3>4. OneHandle'
        BY <1>0, <2>0, <3>3 DEF OneHandle
      <3>. QED BY <3>2, <3>4 DEF Inv
    <2>. QED BY <1>6, <2>3, <2>4 DEF FailJob
  <1>7. CASE Rollback \/ UNCHANGED vars
    BY <1>0, <1>7 DEF Rollback, rows, vars, Inv, TypeOK, RowsOK, CompletedOnce,
                      OneHandle, Handles, Jobs
  <1>8. ASSUME NEW i \in JobIds, ResolveIncident(i) PROVE Inv'
    <2>0. PICK r \in JobIds : Inserted(state, r, execution[i], 0)
      BY <1>8 DEF ResolveIncident
    <2>1. /\ i \in incidents /\ incidents' = incidents \ {i} /\ mode' = mode
          /\ lockedBy' = lockedBy /\ completed' = completed /\ tx' = tx
          /\ completions' = completions
          /\ i \in Jobs /\ i \in completed /\ execution[i] \in Executions
      BY <1>0, <1>8 DEF ResolveIncident, TypeOK, RowsOK, Jobs
    <2>2. /\ state' \in [JobIds -> WorkState \cup {"NONE"}]
          /\ execution' \in [JobIds -> Executions \cup {Null}]
          /\ retryCount' \in [JobIds -> Nat]
          /\ Jobs' = Jobs \cup {r} /\ r \notin Jobs
          /\ execution'[r] = execution[i]
          /\ \A j \in Jobs : execution'[j] = execution[j]
          /\ \A j \in JobIds : state'[j] = "NONE" <=> execution'[j] = Null
      BY <1>0, <2>0, <2>1, InsertedRows DEF TypeOK
    <2>3. TypeOK' /\ RowsOK' /\ CompletedOnce'
      BY <1>0, <2>1, <2>2 DEF TypeOK, RowsOK, CompletedOnce
    <2>4. ASSUME NEW e \in Executions
          PROVE  Handles(e)' = IF e = execution[i] THEN (Handles(e) \ {i}) \cup {r}
                               ELSE Handles(e)
      BY <1>0, <2>1, <2>2 DEF Handles, TypeOK
    <2>5. i \in Handles(execution[i])
      BY <2>1 DEF Handles
    <2>6. OneHandle'
      <3>1. ASSUME NEW e \in Executions
            PROVE  /\ mode'[e] = "JOB" => \E j \in JobIds : Handles(e)' = {j}
                   /\ mode'[e] = "WAIT" => Handles(e)' = {}
        <4>1. CASE e = execution[i]
          BY <1>0, <2>1, <2>4, <2>5, <4>1 DEF OneHandle
        <4>2. CASE e # execution[i]
          BY <1>0, <2>1, <2>4, <4>2 DEF OneHandle
        <4>. QED BY <4>1, <4>2
      <3>. QED BY <3>1 DEF OneHandle
    <2>. QED BY <2>3, <2>6 DEF Inv
  <1>9. ASSUME NEW e \in Executions, ContinueExecution(e) PROVE Inv'
    <2>0. PICK r \in JobIds : Inserted(state, r, e, 0)
      BY <1>9 DEF ContinueExecution
    <2>1. /\ incidents' = incidents /\ mode' = [mode EXCEPT ![e] = "JOB"]
          /\ lockedBy' = lockedBy /\ completed' = completed /\ tx' = tx
          /\ completions' = completions /\ Handles(e) = {}
      BY <1>0, <1>9 DEF ContinueExecution, OneHandle
    <2>2. /\ state' \in [JobIds -> WorkState \cup {"NONE"}]
          /\ execution' \in [JobIds -> Executions \cup {Null}]
          /\ retryCount' \in [JobIds -> Nat]
          /\ Jobs' = Jobs \cup {r} /\ r \notin Jobs
          /\ execution'[r] = e
          /\ \A j \in Jobs : execution'[j] = execution[j]
          /\ \A j \in JobIds : state'[j] = "NONE" <=> execution'[j] = Null
      BY <1>0, <2>0, <2>1, InsertedRows DEF TypeOK
    <2>3. TypeOK' /\ RowsOK' /\ CompletedOnce'
      BY <1>0, <2>1, <2>2 DEF TypeOK, RowsOK, CompletedOnce
    <2>4. ASSUME NEW d \in Executions
          PROVE  Handles(d)' = IF d = e THEN {r} ELSE Handles(d)
      BY <1>0, <2>1, <2>2 DEF Handles, TypeOK
    <2>5. OneHandle'
      BY <1>0, <2>1, <2>4 DEF OneHandle, TypeOK
    <2>. QED BY <2>3, <2>5 DEF Inv
  <1>10. ASSUME NEW e \in Executions, EndExecution(e) PROVE Inv'
    <2>1. TypeOK' /\ RowsOK' /\ CompletedOnce'
      BY <1>0, <1>10 DEF EndExecution, rows, TypeOK, RowsOK, CompletedOnce, Jobs
    <2>2. /\ mode' = [mode EXCEPT ![e] = "ENDED"]
          /\ \A d \in Executions : Handles(d)' = Handles(d)
      BY <1>10 DEF EndExecution, rows, Handles, Jobs
    <2>3. OneHandle'
      BY <1>0, <2>2 DEF OneHandle, TypeOK
    <2>. QED BY <2>1, <2>3 DEF Inv
  <1>. QED BY <1>1, <1>2, <1>3, <1>4, <1>5, <1>6, <1>7, <1>8, <1>9, <1>10 DEF Next

LEMMA Invariance == Spec => []Inv
  BY InitInv, NextInv, PTL DEF Spec

(* The rows keep their types: the engine writes no job, incident or token     *)
(* state outside the ones it declares, and only completed jobs have incidents. *)
THEOREM JobsTypeCorrect == Spec => []TypeOK
  <1>1. Inv => TypeOK
    BY DEF Inv
  <1>. QED BY <1>1, Invariance, PTL

(* However often a completion is sent, and whoever unlocks and locks the job  *)
(* while its transaction runs, a job is completed at most once.               *)
THEOREM JobCompletedOnce == Spec => []CompletedOnce
  <1>1. Inv => CompletedOnce
    BY DEF Inv
  <1>. QED BY <1>1, Invariance, PTL

(* An execution that waits for a worker always has exactly one uncompleted    *)
(* job or unresolved incident, one that does not has none.                    *)
THEOREM ExecutionHasOneHandle == Spec => []OneHandle
  <1>1. Inv => OneHandle
    BY DEF Inv
  <1>. QED BY <1>1, Invariance, PTL

-----------------------------------------------------------------------------
(* The worker.                                                               *)

(* Each step of a worker is one of Jobs, or leaves the jobs alone. *)
LEMMA WorkerStep == WorkerAssumption /\ [WorkerNext]_workerAll => [Next]_vars
  <1>. SUFFICES ASSUME WorkerAssumption, WorkerNext PROVE Next \/ UNCHANGED vars
    BY DEF workerAll
  <1>1. ASSUME NEW p \in Executors, Start(p) PROVE UNCHANGED vars
    BY <1>1 DEF Start
  <1>2. ASSUME NEW p \in Executors, Executes(p) PROVE Next \/ UNCHANGED vars
    <2>1. CASE LockBatch(p)
      <3>1. PICK locked \in SUBSET Lockable \ {{}} : Lock(worker, locked)
        BY <2>1 DEF LockBatch
      <3>2. LockJobs(worker)
        BY <3>1 DEF LockJobs
      <3>. QED BY <3>2, WorkerAssumption DEF Next, WorkerAssumption
    <2>2. CASE Return(p)
      BY <2>2 DEF Return
    <2>3. ASSUME NEW j \in JobIds, SkipJob(p, j) \/ CallHandler(p, j) \/ EncodeFails(p, j)
          PROVE  UNCHANGED vars
      BY <2>3 DEF SkipJob, CallHandler, EncodeFails, Take
    <2>4. CASE SendCompletion(p)
      <3>1. BeginCompleteJob(worker, run[p]) /\ run[p] \in JobIds
        BY <2>4 DEF SendCompletion, BeginCompleteJob, Jobs
      <3>. QED BY <3>1 DEF Next, WorkerAssumption
    <2>5. CASE CompletionRefused(p)
      BY <2>5 DEF CompletionRefused
    <2>6. CASE CommitCanceled(p)
      BY <2>6 DEF CommitCanceled, Next
    <2>7. CASE CommitDone(p)
      BY <2>7 DEF CommitDone, Next
    <2>8. CASE CommitFailed(p)
      BY <2>8 DEF CommitFailed, Next
    <2>9. CASE CompletionFails(p)
      BY <2>9 DEF CompletionFails, Next
    <2>. QED BY <1>2, <2>1, <2>2, <2>3, <2>4, <2>5, <2>6, <2>7, <2>8, <2>9 DEF Executes
  <1>3. CASE Stop
    BY <1>3 DEF Stop
  <1>4. CASE Crash
    BY <1>4 DEF Crash, Next
  <1>5. CASE Unlock
    BY <1>5 DEF Unlock, Next, WorkerAssumption
  <1>6. ASSUME NEW s \in Scopes, NEW value \in Values \cup {Null}, SetVariable(s, value)
        PROVE  UNCHANGED vars
    BY <1>6 DEF SetVariable
  <1>7. ASSUME NEW e \in Executions, TriggerEvent(e) PROVE Next
    BY <1>7 DEF TriggerEvent, Next
  <1>8. CASE Elsewhere
    BY <1>8 DEF Elsewhere, Next
  <1>. QED BY <1>1, <1>2, <1>3, <1>4, <1>5, <1>6, <1>7, <1>8 DEF WorkerNext

(* The worker is an implementation of Jobs: whatever its executors do, with   *)
(* stale batches, overlapping executors and crashes, is what Jobs lets some   *)
(* worker do to jobs.                                                         *)
THEOREM WorkerExecutesJobs == WorkerSpec => Spec
  <1>1. WorkerInit => Init
    BY DEF WorkerInit
  <1>. QED BY <1>1, WorkerStep, WorkerAssumption, PTL DEF WorkerSpec, Spec

(* A job is completed at most once, although two executors of a worker may    *)
(* have it and send its completion.                                           *)
THEOREM WorkerCompletesOnce == WorkerSpec => []CompletedOnce
  BY WorkerExecutesJobs, JobCompletedOnce, PTL

(* An execution has its one handle, whatever the worker does with its jobs.   *)
THEOREM WorkerKeepsHandle == WorkerSpec => []OneHandle
  BY WorkerExecutesJobs, ExecutionHasOneHandle, PTL

-----------------------------------------------------------------------------

(* The jobs that nobody has locked, and those an executor is still to take,   *)
(* have not been handled yet unless they have been unlocked; nor is such a    *)
(* job in two batches or in that of an executor that has lost its lock.       *)
FreshJobs ==
  /\ lockedBy \in [JobIds -> Workers \cup {Null}]
  /\ batch \in [Executors -> SUBSET JobIds]
  /\ \A j \in JobIds : lockedBy[j] = Null /\ j \in handled => j \in unlocked
  /\ \A p \in Executors : \A j \in batch[p] :
       j \in handled \/ lockedBy[j] = Null => j \in unlocked
  /\ \A p, q \in Executors : \A j \in batch[p] \cap batch[q] : p # q => j \in unlocked

FreshInv == FreshJobs /\ RunAgainOnlyIfUnlocked

(* What changes neither a lock nor a batch nor what has been handled. *)
LEMMA FreshKept ==
  ASSUME FreshInv, UNCHANGED <<lockedBy, batch, handled, again, unlocked>>
  PROVE  FreshInv'
  BY DEF FreshInv, FreshJobs, RunAgainOnlyIfUnlocked

(* What an executor does, up to the call of the job handler. *)
LEMMA FreshLockBatch ==
  ASSUME WorkerAssumption, FreshInv, NEW p \in Executors, LockBatch(p)
  PROVE  FreshInv'
  <1>1. PICK locked \in SUBSET Lockable \ {{}} :
          Lock(worker, locked) /\ batch' = [batch EXCEPT ![p] = locked]
    BY DEF LockBatch
  <1>2. /\ locked \subseteq JobIds /\ \A j \in locked : lockedBy[j] = Null
        /\ \A j \in JobIds : lockedBy'[j] = IF j \in locked THEN worker ELSE lockedBy[j]
        /\ worker \in Workers /\ worker # Null
    BY <1>1, JobsAssumption DEF Lock, Lockable, Jobs, WorkerAssumption
  <1>3. batch[p] = {} /\ UNCHANGED history
    BY DEF LockBatch, Idle
  <1>4. \A q \in Executors : \A j \in batch'[q] :
          (q = p /\ j \in locked) \/ (q # p /\ j \in batch[q])
    BY <1>1 DEF FreshInv, FreshJobs
  <1>5. lockedBy' \in [JobIds -> Workers \cup {Null}] /\ batch' \in [Executors -> SUBSET JobIds]
    BY <1>1, <1>2 DEF Lock, FreshInv, FreshJobs
  <1>6. \A j \in JobIds : lockedBy'[j] = Null /\ j \in handled' => j \in unlocked'
    BY <1>2, <1>3 DEF FreshInv, FreshJobs, history
  <1>7. ASSUME NEW q \in Executors, NEW j \in batch'[q], j \in handled' \/ lockedBy'[j] = Null
        PROVE  j \in unlocked'
    BY <1>2, <1>3, <1>4, <1>5, <1>7 DEF FreshInv, FreshJobs, history
  <1>8. ASSUME NEW q \in Executors, NEW r \in Executors,
               NEW j \in batch'[q] \cap batch'[r], q # r
        PROVE  j \in unlocked'
    BY <1>2, <1>3, <1>4, <1>5, <1>8 DEF FreshInv, FreshJobs, history
  <1>9. RunAgainOnlyIfUnlocked'
    BY <1>3 DEF FreshInv, RunAgainOnlyIfUnlocked, history
  <1>. QED BY <1>5, <1>6, <1>7, <1>8, <1>9 DEF FreshInv, FreshJobs

LEMMA FreshTake ==
  ASSUME FreshInv, NEW p \in Executors, NEW j \in JobIds, Take(p, j),
         \/ Called(j)
         \/ UNCHANGED <<handled, again>>
  PROVE  FreshInv'
  <1>1. /\ batch' = [batch EXCEPT ![p] = @ \ {j}] /\ j \in batch[p]
        /\ lockedBy' = lockedBy /\ unlocked' = unlocked
    BY DEF Take, vars, rows
  <1>2. /\ batch' \in [Executors -> SUBSET JobIds]
        /\ \A q \in Executors : batch'[q] \subseteq batch[q]
        /\ j \notin batch'[p]
    BY <1>1 DEF FreshInv, FreshJobs
  <1>3. CASE UNCHANGED <<handled, again>>
    BY <1>1, <1>2, <1>3 DEF FreshInv, FreshJobs, RunAgainOnlyIfUnlocked
  <1>4. CASE Called(j)
    <2>1. handled' = handled \cup {j}
      BY <1>4 DEF Called
    <2>2. \A i \in JobIds : lockedBy'[i] = Null /\ i \in handled' => i \in unlocked'
      BY <1>1, <2>1 DEF FreshInv, FreshJobs
    <2>3. ASSUME NEW q \in Executors, NEW i \in batch'[q], i \in handled' \/ lockedBy'[i] = Null
          PROVE  i \in unlocked'
      <3>1. CASE i = j
        BY <1>1, <1>2, <3>1 DEF FreshInv, FreshJobs
      <3>2. CASE i # j
        BY <1>1, <1>2, <2>1, <2>3, <3>2 DEF FreshInv, FreshJobs
      <3>. QED BY <3>1, <3>2
    <2>4. again' = {}
      BY <1>1, <1>4 DEF Called, FreshInv, FreshJobs, RunAgainOnlyIfUnlocked
    <2>. QED BY <1>1, <1>2, <2>2, <2>3, <2>4 DEF FreshInv, FreshJobs, RunAgainOnlyIfUnlocked
  <1>. QED BY <1>3, <1>4

LEMMA FreshStep == WorkerAssumption /\ FreshInv /\ [WorkerNext]_workerAll => FreshInv'
  <1>. SUFFICES ASSUME WorkerAssumption, FreshInv, [WorkerNext]_workerAll PROVE FreshInv'
    OBVIOUS
  <1>. USE DEF vars, rows, workerVars, executorVars, storeVars, history
  <1>1. ASSUME NEW p \in Executors, Start(p) PROVE FreshInv'
    BY <1>1, FreshKept DEF Start
  <1>2. ASSUME NEW p \in Executors, Executes(p) PROVE FreshInv'
    <2>1. CASE LockBatch(p)
      BY <2>1, FreshLockBatch
    <2>2. CASE Return(p)
      BY <2>2, FreshKept DEF Return
    <2>3. ASSUME NEW j \in JobIds, SkipJob(p, j) \/ CallHandler(p, j) \/ EncodeFails(p, j)
          PROVE  FreshInv'
      BY <2>3, FreshTake DEF SkipJob, CallHandler, EncodeFails
    <2>4. CASE SendCompletion(p)
      BY <2>4, FreshKept DEF SendCompletion, BeginCompleteJob
    <2>5. CASE CompletionRefused(p)
      BY <2>5, FreshKept DEF CompletionRefused, Finished
    <2>6. CASE CommitCanceled(p)
      BY <2>6, FreshKept DEF CommitCanceled, Committed, Finished, CancelJob, CommitCompleted
    <2>7. CASE CommitDone(p)
      BY <2>7, FreshKept DEF CommitDone, Committed, Finished, CompleteJob, CommitCompleted
    <2>8. CASE CommitFailed(p)
      BY <2>8, FreshKept DEF CommitFailed, Committed, Finished, FailJob, CommitCompleted
    <2>9. CASE CompletionFails(p)
      BY <2>9, FreshKept DEF CompletionFails, Committed, Finished, Rollback
    <2>. QED BY <1>2, <2>1, <2>2, <2>3, <2>4, <2>5, <2>6, <2>7, <2>8, <2>9 DEF Executes
  <1>3. CASE Stop
    BY <1>3, FreshKept DEF Stop
  <1>4. CASE Crash
    <2>1. /\ lockedBy' = lockedBy /\ batch' = [p \in Executors |-> {}]
          /\ UNCHANGED <<handled, again, unlocked>>
      BY <1>4 DEF Crash, Rollback
    <2>. QED BY <2>1 DEF FreshInv, FreshJobs, RunAgainOnlyIfUnlocked
  <1>5. CASE Unlock
    <2>1. /\ lockedBy' \in [JobIds -> Workers \cup {Null}]
          /\ unlocked' = unlocked \cup {j \in JobIds : lockedBy[j] # Null /\ lockedBy'[j] = Null}
          /\ UNCHANGED <<batch, handled, again>>
      BY <1>5 DEF Unlock, UnlockJobs, FreshInv, FreshJobs
    <2>. QED BY <2>1 DEF FreshInv, FreshJobs, RunAgainOnlyIfUnlocked
  <1>6. ASSUME NEW s \in Scopes, NEW value \in Values \cup {Null}, SetVariable(s, value)
        PROVE  FreshInv'
    BY <1>6, FreshKept DEF SetVariable
  <1>7. ASSUME NEW e \in Executions, TriggerEvent(e) PROVE FreshInv'
    BY <1>7, FreshKept DEF TriggerEvent, ContinueExecution
  <1>8. CASE Elsewhere
    BY <1>8, FreshKept DEF Elsewhere, ResolveIncident, ContinueExecution, EndExecution
  <1>9. CASE UNCHANGED workerAll
    BY <1>9, FreshKept DEF workerAll
  <1>. QED BY <1>1, <1>2, <1>3, <1>4, <1>5, <1>6, <1>7, <1>8, <1>9 DEF WorkerNext

(* A job handler is called again for a job only if somebody has unlocked it,  *)
(* for any number of executors that overlap, fail or crash.                   *)
THEOREM RunAgainCorrect == WorkerSpec => []RunAgainOnlyIfUnlocked
  <1>1. WorkerInit => FreshInv
    BY DEF WorkerInit, Init, FreshInv, FreshJobs, RunAgainOnlyIfUnlocked
  <1>2. FreshInv => RunAgainOnlyIfUnlocked
    BY DEF FreshInv
  <1>. QED BY <1>1, <1>2, FreshStep, WorkerAssumption, PTL DEF WorkerSpec
-----------------------------------------------------------------------------
(* The variables a job handler puts.  They are folded over a sequence of any *)
(* length, so that what is shown of them needs induction over numbers: of    *)
(* those a claim fails of, one would be the least.                           *)

LEMMA LeastNumber ==
  ASSUME NEW T \in SUBSET Nat, T # {}
  PROVE  \E n \in T : \A m \in T : n <= m
  <1>. DEFINE R == {p \in Nat \X Nat : p[1] < p[2]}
  <1>1. IsWellFoundedOn(R, Nat)
    <2>1. OpToRel(<, Nat) = R
      BY DEF OpToRel
    <2>. QED BY NatLessThanWellFounded, <2>1
  <1>2. PICK n \in T : \A m \in T : ~ (<<m, n>> \in R)
    BY <1>1, WFMin
  <1>3. ASSUME NEW m \in T PROVE n <= m
    <2>1. <<m, n>> \notin R
      BY <1>2
    <2>2. m \in Nat /\ n \in Nat
      OBVIOUS
    <2>3. ~ (m < n)
      BY <2>1, <2>2
    <2>. QED BY <2>2, <2>3
  <1>. QED BY <1>3

LEMMA InductiveSet ==
  ASSUME NEW P \in SUBSET Nat, 0 \in P, \A n \in P : n + 1 \in P
  PROVE  P = Nat
  <1>. SUFFICES ASSUME Nat \ P # {} PROVE FALSE
    OBVIOUS
  <1>1. PICK n \in Nat \ P : \A m \in Nat \ P : n <= m
    BY LeastNumber
  <1>2. PICK k \in Nat : k + 1 = n
    BY <1>1
  <1>3. k \in P
    BY <1>1, <1>2
  <1>. QED BY <1>1, <1>2, <1>3

(* FoldLeft, unfolded: f yields what is put with the first n. *)
IsFold(f, s, n) ==
  f = [T \in SUBSET (1 .. n) |-> IF T = {} THEN <<>> ELSE PutAt(f[T \ {Max(T)}], s[Max(T)])]

LEMMA FoldOfPuts == ASSUME NEW S, NEW s \in Seq(S)
  PROVE FoldLeft(PutAt, <<>>, s) = (CHOOSE f : IsFold(f, s, Len(s)))[1 .. Len(s)]
  <1>1. DOMAIN s = 1 .. Len(s)
    OBVIOUS
  <1> QED BY <1>1 DEF FoldLeft, MapThenFoldSet, IsFold

LEMMA MaxIsLast ==
  ASSUME NEW n \in Nat, NEW T \in SUBSET (1 .. n + 1), n + 1 \in T
  PROVE  Max(T) = n + 1 /\ T \ {n + 1} \in SUBSET (1 .. n)
  <1>1. \A y \in T : n + 1 >= y
    OBVIOUS
  <1>2. ASSUME NEW x \in T, \A y \in T : x >= y PROVE x = n + 1
    BY <1>1, <1>2
  <1>3. Max(T) = n + 1
    BY <1>1, <1>2 DEF Max
  <1>. QED BY <1>3

LEMMA FoldExists ==
  ASSUME NEW s
  PROVE  \A n \in Nat : \E f : IsFold(f, s, n)
  <1>. DEFINE P == {n \in Nat : \E f : IsFold(f, s, n)}
  <1>1. 0 \in P
    <2>. DEFINE f == [T \in SUBSET (1 .. 0) |-> <<>>]
    <2>1. \A T \in SUBSET (1 .. 0) : T = {}
      OBVIOUS
    <2>2. IsFold(f, s, 0)
      BY <2>1 DEF IsFold
    <2>. QED BY <2>2
  <1>2. ASSUME NEW n \in P PROVE n + 1 \in P
    <2>1. PICK g : IsFold(g, s, n)
      OBVIOUS
    <2>. DEFINE f == [T \in SUBSET (1 .. n + 1) |->
                        IF n + 1 \in T THEN PutAt(g[T \ {n + 1}], s[n + 1]) ELSE g[T]]
                h == [T \in SUBSET (1 .. n + 1) |->
                        IF T = {} THEN <<>> ELSE PutAt(f[T \ {Max(T)}], s[Max(T)])]
    <2>2. ASSUME NEW T \in SUBSET (1 .. n + 1) PROVE f[T] = h[T]
      <3>1. CASE n + 1 \in T
        <4>1. Max(T) = n + 1 /\ T \ {n + 1} \in SUBSET (1 .. n) /\ T # {}
          BY <3>1, MaxIsLast
        <4>2. T \ {n + 1} \in SUBSET (1 .. n + 1) /\ n + 1 \notin T \ {n + 1}
          OBVIOUS
        <4>3. f[T \ {n + 1}] = g[T \ {n + 1}]
          BY <4>2
        <4>4. h[T] = PutAt(f[T \ {n + 1}], s[n + 1])
          BY <4>1
        <4>. QED BY <3>1, <4>3, <4>4
      <3>2. CASE n + 1 \notin T
        <4>1. T \in SUBSET (1 .. n)
          BY <3>2
        <4>2. f[T] = g[T]
          BY <3>2
        <4>3. f[T \ {Max(T)}] = g[T \ {Max(T)}]
          BY <3>2
        <4>4. g[T] = IF T = {} THEN <<>> ELSE PutAt(g[T \ {Max(T)}], s[Max(T)])
          BY <2>1, <4>1 DEF IsFold
        <4>. QED BY <4>2, <4>3, <4>4
      <3>. QED BY <3>1, <3>2
    <2>3. f = h
      BY <2>2
    <2>4. IsFold(f, s, n + 1)
      BY <2>3 DEF IsFold
    <2>. QED BY <2>4
  <1>3. P = Nat
    <2>. HIDE DEF P
    <2>. QED BY <1>1, <1>2, InductiveSet DEF P
  <1>. QED BY <1>3

(* What each PutAt keeps, a job handler keeps. *)
LEMMA PutsStay ==
  ASSUME NEW S, NEW s \in Seq(S), NEW Q,
         <<>> \in Q, \A q \in Q, x \in S : PutAt(q, x) \in Q
  PROVE  FoldLeft(PutAt, <<>>, s) \in Q
  <1>. DEFINE f == CHOOSE g : IsFold(g, s, Len(s))
              P == {n \in Nat : n <= Len(s) => f[1 .. n] \in Q}
  <1>1. IsFold(f, s, Len(s)) /\ Len(s) \in Nat
    BY FoldExists, LenProperties
  <1>. HIDE DEF f
  <1>2. 0 \in P
    <2>1. 1 .. 0 = {} /\ {} \in SUBSET (1 .. Len(s))
      OBVIOUS
    <2>2. f[{}] = <<>>
      BY <1>1, <2>1 DEF IsFold
    <2>. QED BY <2>1, <2>2
  <1>3. ASSUME NEW n \in P, n + 1 <= Len(s) PROVE f[1 .. n + 1] \in Q
    <2>. DEFINE T == 1 .. n + 1
    <2>0. PICK l \in Nat : l = Len(s)
      BY <1>1
    <2>1. T \in SUBSET (1 .. l) /\ n + 1 \in T /\ T # {}
      <3>1. n \in Nat /\ n + 1 <= l
        BY <1>3, <2>0
      <3>2. n + 1 \in T
        BY <3>1
      <3>3. ASSUME NEW i \in T PROVE i \in 1 .. l
        BY <2>0, <3>1
      <3>. QED BY <3>2, <3>3
    <2>2. Max(T) = n + 1 /\ T \ {n + 1} = 1 .. n
      BY MaxIsLast
    <2>. HIDE DEF T
    <2>3. f[T] = PutAt(f[T \ {Max(T)}], s[Max(T)])
      BY <1>1, <2>0, <2>1 DEF IsFold
    <2>4. f[1 .. n] \in Q
      BY <1>1, <1>3
    <2>5. s[n + 1] \in S
      BY <1>1, <1>3, ElementOfSeq
    <2>. QED BY <2>2, <2>3, <2>4, <2>5 DEF T
  <1>4. P = Nat
    <2>1. \A n \in P : n + 1 \in P
      BY <1>3
    <2>. HIDE DEF P
    <2>. QED BY <1>2, <2>1, InductiveSet DEF P
  <1>5. f[1 .. Len(s)] \in Q
    BY <1>1, <1>4
  <1>. QED BY <1>5, FoldOfPuts DEF f

(* At each scope a variable is put at most once. *)
Once(puts) == \A i, j \in DOMAIN puts : puts[i].scope = puts[j].scope => i = j

LEMMA PutsOnce ==
  ASSUME NEW e, NEW puts \in Puts(e)
  PROVE  /\ Once(puts) /\ DOMAIN puts \subseteq Nat
         /\ \A k \in DOMAIN puts : puts[k].value \in Values \cup {Null}
  <1>. DEFINE put == [scope: {e, ProcessScope}, value: Values \cup {Null}]
              Q == {q \in Seq(put) : Once(q)}
  <1>1. PICK s \in BoundedSeq(put, MaxPuts) : puts = FoldLeft(PutAt, <<>>, s)
    BY DEF Puts
  <1>2. s \in Seq(put)
    <2>1. PICK m \in 0 .. MaxPuts : s \in [1 .. m -> put]
      BY <1>1 DEF BoundedSeq, SeqOf
    <2>2. m \in Nat
      BY WorkerAssumption DEF WorkerAssumption
    <2>. HIDE DEF put
    <2>. QED BY <2>1, <2>2, SeqDef
  <1>3. <<>> \in Q
    BY DEF Once
  <1>. HIDE DEF put
  <1>4. ASSUME NEW q \in Q, NEW x \in put PROVE PutAt(q, x) \in Q
    <2>. DEFINE r == PutAt(q, x)
    <2>1. q \in Seq(put) /\ Len(q) \in Nat /\ DOMAIN q = 1 .. Len(q)
          /\ \A i, j \in 1 .. Len(q) : q[i].scope = q[j].scope => i = j
      BY LenProperties DEF Once
    <2>2. CASE \E k \in DOMAIN q : q[k].scope = x.scope
      <3>1. r = [k \in 1 .. Len(q) |-> IF q[k].scope = x.scope THEN x ELSE q[k]]
        BY <2>1, <2>2 DEF PutAt
      <3>2. \A k \in 1 .. Len(q) : q[k] \in put
        BY <2>1
      <3>3. r \in [1 .. Len(q) -> put]
        BY <3>1, <3>2
      <3>4. r \in Seq(put) /\ DOMAIN r = 1 .. Len(q)
        BY <2>1, <3>3, SeqDef
      <3>5. \A k \in 1 .. Len(q) : r[k].scope = q[k].scope
        BY <3>1
      <3>. HIDE DEF r
      <3>6. Once(r)
        BY <2>1, <3>4, <3>5 DEF Once
      <3>. QED BY <3>4, <3>6 DEF r
    <2>3. CASE \A k \in DOMAIN q : q[k].scope # x.scope
      <3>1. r = Append(q, x)
        BY <2>3 DEF PutAt
      <3>2. /\ r \in Seq(put) /\ Len(r) = Len(q) + 1 /\ DOMAIN r = 1 .. Len(r)
            /\ \A k \in 1 .. Len(q) : r[k] = q[k]
            /\ r[Len(q) + 1] = x
        BY <2>1, <3>1, AppendProperties, LenProperties
      <3>. HIDE DEF r
      <3>3. Once(r)
        BY <2>1, <2>3, <3>2 DEF Once
      <3>. QED BY <3>2, <3>3 DEF r
    <2>. QED BY <2>2, <2>3
  <1>5. FoldLeft(PutAt, <<>>, s) \in Q
    <2>. HIDE DEF Q
    <2>. QED BY <1>2, <1>3, <1>4, PutsStay
  <1>6. \A k \in DOMAIN puts : puts[k] \in put
    BY <1>1, <1>5, LenProperties, ElementOfSeq
  <1>7. DOMAIN puts \subseteq Nat
    BY <1>1, <1>5, LenProperties
  <1>. QED BY <1>1, <1>5, <1>6, <1>7 DEF put
StoreOK ==
  /\ store \in [Scopes -> Seq(Values)]
  /\ last \in [Scopes -> Values \cup {Null}]
  /\ doubled \subseteq Scopes

StoreInv == StoreOK /\ LatestIsStored

(* The rows hold the value, and nothing else unless there may be more. *)
Latest(data, value, more) ==
  /\ ~more => data = IF value = Null THEN <<>> ELSE <<value>>
  /\ value # Null => \E k \in DOMAIN data : data[k] = value

LEMMA StoredRows ==
  ASSUME NEW data \in Seq(Values), NEW old \in Values \cup {Null}, NEW more,
         Latest(data, old, more), NEW value \in Values \cup {Null},
         NEW rs \in Stored(data, value)
  PROVE  rs \in Seq(Values) /\ Latest(rs, value, more /\ rs # <<>>)
  <1>1. CASE value = Null
    <2>1. rs \in Deleted(data)
      BY <1>1 DEF Stored
    <2>2. CASE rs = <<>>
      BY <1>1, <2>2 DEF Latest
    <2>3. CASE rs # <<>>
      <3>1. data # <<>> /\ rs = Tail(data)
        BY <2>1, <2>3 DEF Deleted
      <3>2. rs \in Seq(Values)
        BY <3>1
      <3>3. more
        <4>1. SUFFICES ASSUME ~more PROVE FALSE
          OBVIOUS
        <4>2. data = <<old>>
          BY <4>1, <3>1 DEF Latest
        <4>3. Tail(<<old>>) = <<>>
          OBVIOUS
        <4>. QED BY <2>3, <3>1, <4>2, <4>3
      <3>. QED BY <1>1, <2>3, <3>2, <3>3 DEF Latest
    <2>. QED BY <2>2, <2>3
  <1>2. CASE value # Null /\ data = <<>>
    <2>1. rs = <<value>>
      BY <1>2 DEF Stored, Upserted
    <2>2. rs \in Seq(Values) /\ 1 \in DOMAIN rs /\ rs[1] = value
      BY <1>2, <2>1
    <2>. QED BY <1>2, <2>1, <2>2 DEF Latest
  <1>3. CASE value # Null /\ data # <<>>
    <2>1. PICK k \in DOMAIN data : rs = [data EXCEPT ![k] = value]
      BY <1>3 DEF Stored, Upserted
    <2>2. DOMAIN data = 1 .. Len(data)
      BY LenProperties
    <2>3. rs \in Seq(Values) /\ k \in DOMAIN rs /\ rs[k] = value
      BY <1>3, <2>1, <2>2, ExceptSeq
    <2>4. ASSUME ~more PROVE rs = <<value>>
      <3>1. data = <<old>>
        BY <1>3, <2>4 DEF Latest
      <3>. QED BY <2>1, <3>1
    <2>5. rs # <<>>
      BY <2>3
    <2>. QED BY <1>3, <2>3, <2>4, <2>5 DEF Latest
  <1>. QED BY <1>1, <1>2, <1>3

LEMMA LatestOf ==
  LatestIsStored <=> \A s \in Scopes : Latest(store[s], last[s], s \in doubled)
  BY DEF LatestIsStored, Latest

LEMMA LatestAfter ==
  ASSUME \A s \in Scopes : Latest(store'[s], last'[s], s \in doubled')
  PROVE  LatestIsStored'
  BY DEF LatestIsStored, Latest

(* Variables of which each is put once. *)
LEMMA SetVariablesOnce ==
  ASSUME StoreInv, NEW puts, Once(puts), DOMAIN puts \subseteq Nat,
         \A k \in DOMAIN puts : puts[k].value \in Values \cup {Null},
         SetVariables(puts)
  PROVE  StoreInv'
  <1>. DEFINE of(s) == {k \in DOMAIN puts : puts[k].scope = s}
              results(s) == IF of(s) = {} THEN {store[s]} ELSE Stored(store[s], puts[Min(of(s))].value)
  <1>1. /\ store' \in {f \in [Scopes -> UNION {results(s) : s \in Scopes}] :
                          \A s \in Scopes : f[s] \in results(s)}
        /\ last' = [s \in Scopes |-> IF of(s) = {} THEN last[s] ELSE puts[Max(of(s))].value]
        /\ doubled' = {s \in doubled : store'[s] # <<>>}
    BY DEF SetVariables, StillDoubled
  <1>2. /\ DOMAIN store' = Scopes /\ store' = [s \in Scopes |-> store'[s]]
        /\ \A s \in Scopes : store'[s] \in results(s)
    BY <1>1
  <1>3. ASSUME NEW s \in Scopes
        PROVE  /\ store'[s] \in Seq(Values) /\ last'[s] \in Values \cup {Null}
               /\ Latest(store'[s], last'[s], s \in doubled')
    <2>0. /\ store[s] \in Seq(Values) /\ last[s] \in Values \cup {Null}
          /\ Latest(store[s], last[s], s \in doubled)
          /\ s \in doubled' <=> s \in doubled /\ store'[s] # <<>>
      BY <1>1, LatestOf DEF StoreInv, StoreOK
    <2>1. CASE of(s) = {}
      <3>1. store'[s] = store[s] /\ last'[s] = last[s]
        BY <1>1, <1>2, <2>1
      <3>2. CASE store[s] = <<>>
        <4>1. last[s] = Null
          BY <2>0, <3>2 DEF Latest
        <4>. QED BY <2>0, <3>1, <3>2, <4>1 DEF Latest
      <3>3. CASE store[s] # <<>>
        BY <2>0, <3>1, <3>3
      <3>. QED BY <3>2, <3>3
    <2>2. CASE of(s) # {}
      <3>1. PICK k \in DOMAIN puts : of(s) = {k}
        BY <2>2 DEF Once
      <3>2. Min({k}) = k /\ Max({k}) = k
        <4>1. k <= k /\ k >= k
          OBVIOUS
        <4>. QED BY <4>1 DEF Min, Max
      <3>3. store'[s] \in Stored(store[s], puts[k].value) /\ last'[s] = puts[k].value
        BY <1>1, <1>2, <2>2, <3>1, <3>2
      <3>4. Latest(store'[s], last'[s], s \in doubled /\ store'[s] # <<>>)
            /\ store'[s] \in Seq(Values)
        BY <2>0, <3>3, StoredRows
      <3>. QED BY <2>0, <3>3, <3>4 DEF Latest
    <2>. QED BY <2>1, <2>2
  <1>4. StoreOK'
    BY <1>1, <1>2, <1>3 DEF StoreInv, StoreOK
  <1>5. LatestIsStored'
    BY <1>3, LatestAfter
  <1>. QED BY <1>4, <1>5 DEF StoreInv

LEMMA StoreKept == ASSUME StoreInv, UNCHANGED storeVars PROVE StoreInv'
  BY DEF StoreInv, StoreOK, LatestIsStored, storeVars

LEMMA StoreStep == [WorkerNext]_workerAll /\ StoreInv => StoreInv'
  <1>. SUFFICES ASSUME [WorkerNext]_workerAll, StoreInv PROVE StoreInv'
    OBVIOUS
  <1>1. ASSUME UNCHANGED storeVars PROVE StoreInv'
    BY <1>1, StoreKept
  <1>2. ASSUME VariablesSet PROVE StoreInv'
    <2>1. PICK puts \in Puts(execution[tx]) : SetVariables(puts)
      BY <1>2 DEF VariablesSet
    <2>. QED BY <1>2, <2>1, PutsOnce, SetVariablesOnce
  <1>3. ASSUME NEW p \in Executors, Executes(p) PROVE StoreInv'
    <2>1. CASE LockBatch(p) \/ Return(p) \/ SendCompletion(p) \/ CompletionRefused(p)
      BY <1>1, <2>1 DEF LockBatch, Return, SendCompletion, CompletionRefused
    <2>2. ASSUME NEW j \in JobIds, SkipJob(p, j) \/ CallHandler(p, j) \/ EncodeFails(p, j)
          PROVE  StoreInv'
      BY <1>1, <2>2 DEF SkipJob, CallHandler, EncodeFails, Take
    <2>3. CASE CommitCanceled(p) \/ CompletionFails(p)
      BY <1>1, <2>3 DEF CommitCanceled, CompletionFails
    <2>4. CASE CommitDone(p) \/ CommitFailed(p)
      <3>1. VariablesSet
        BY <2>4 DEF CommitDone, CommitFailed
      <3>. QED BY <1>2, <3>1
    <2>. QED BY <1>3, <2>1, <2>2, <2>3, <2>4 DEF Executes
  <1>4. ASSUME NEW p \in Executors, Start(p) PROVE StoreInv'
    BY <1>1, <1>4 DEF Start
  <1>5. CASE Stop \/ Crash \/ Unlock \/ Elsewhere
    BY <1>1, <1>5 DEF Stop, Crash, Unlock, Elsewhere, workerVars
  <1>6. ASSUME NEW s \in Scopes, NEW value \in Values \cup {Null}, SetVariable(s, value)
        PROVE  StoreInv'
    <2>. DEFINE puts == <<[scope |-> s, value |-> value]>>
    <2>1. DOMAIN puts = {1} /\ puts[1].value = value
      OBVIOUS
    <2>2. SetVariables(puts)
      BY <1>6 DEF SetVariable
    <2>. HIDE DEF puts
    <2>3. Once(puts)
      BY <2>1 DEF Once
    <2>. QED BY <2>1, <2>2, <2>3, SetVariablesOnce
  <1>7. ASSUME NEW e \in Executions, TriggerEvent(e) PROVE StoreInv'
    <2>. DEFINE data == store[ProcessScope]
    <2>1. PICK value \in Values \cup {Null} :
            /\ \/ /\ value = Null
                  /\ \E d \in Deleted(data) : store' = [store EXCEPT ![ProcessScope] = d]
                  /\ doubled' = StillDoubled(doubled)
               \/ /\ value # Null
                  /\ store' = [store EXCEPT ![ProcessScope] = Append(data, value)]
                  /\ doubled' = IF data = <<>> THEN doubled ELSE doubled \cup {ProcessScope}
            /\ last' = [last EXCEPT ![ProcessScope] = value]
      BY <1>7 DEF TriggerEvent
    <2>2. /\ ProcessScope \in Scopes /\ data \in Seq(Values)
          /\ store \in [Scopes -> Seq(Values)] /\ last \in [Scopes -> Values \cup {Null}]
          /\ last[ProcessScope] \in Values \cup {Null} /\ doubled \subseteq Scopes
          /\ \A s \in Scopes : Latest(store[s], last[s], s \in doubled)
      BY LatestOf DEF StoreInv, StoreOK, Scopes
    <2>. HIDE DEF data
    <2>3. PICK rs : /\ store' = [store EXCEPT ![ProcessScope] = rs] /\ rs \in Seq(Values)
                    /\ Latest(rs, value, ProcessScope \in doubled')
      <3>1. CASE value = Null
        <4>1. PICK d \in Deleted(data) : store' = [store EXCEPT ![ProcessScope] = d]
          BY <2>1, <3>1
        <4>2. d \in Stored(data, value)
          BY <3>1 DEF Stored
        <4>3. /\ Latest(d, value, ProcessScope \in doubled /\ d # <<>>)
              /\ d \in Seq(Values)
          BY <2>2, <4>2, StoredRows DEF data
        <4>4. store'[ProcessScope] = d
          BY <2>2, <4>1
        <4>5. ProcessScope \in doubled' <=> ProcessScope \in doubled /\ d # <<>>
          BY <2>1, <3>1, <4>4 DEF StillDoubled
        <4>. QED BY <4>1, <4>3, <4>5 DEF Latest
      <3>2. CASE value # Null
        <4>. DEFINE a == Append(data, value)
        <4>1. store' = [store EXCEPT ![ProcessScope] = a]
          BY <2>1, <3>2
        <4>2. a \in Seq(Values) /\ Len(data) + 1 \in DOMAIN a /\ a[Len(data) + 1] = value
          BY <2>2, <3>2, AppendProperties, LenProperties
        <4>3. ASSUME ProcessScope \notin doubled' PROVE a = <<value>>
          <5>1. data = <<>>
            BY <2>1, <3>2, <4>3
          <5>. QED BY <5>1
        <4>. HIDE DEF a
        <4>4. Latest(a, value, ProcessScope \in doubled')
          BY <3>2, <4>2, <4>3 DEF Latest
        <4>. QED BY <4>1, <4>2, <4>4
      <3>. QED BY <3>1, <3>2
    <2>4. ASSUME NEW s \in Scopes, s # ProcessScope
          PROVE  /\ store'[s] = store[s] /\ last'[s] = last[s]
                 /\ Latest(store'[s], last'[s], s \in doubled')
      <3>1. store'[s] = store[s] /\ last'[s] = last[s]
        BY <2>1, <2>2, <2>3, <2>4
      <3>2. s \in doubled /\ store[s] # <<>> => s \in doubled'
        BY <2>1, <2>4, <3>1 DEF StillDoubled
      <3>3. store[s] = <<>> => last[s] = Null
        BY <2>2 DEF Latest
      <3>. QED BY <2>2, <3>1, <3>2, <3>3 DEF Latest
    <2>5. StoreOK'
      BY <2>1, <2>2, <2>3 DEF StoreOK, StillDoubled
    <2>6. ASSUME NEW s \in Scopes PROVE Latest(store'[s], last'[s], s \in doubled')
      <3>1. CASE s = ProcessScope
        BY <2>1, <2>2, <2>3, <3>1
      <3>. QED BY <2>4, <3>1
    <2>. QED BY <2>5, <2>6, LatestAfter DEF StoreInv
  <1>8. CASE UNCHANGED workerAll
    BY <1>1, <1>8 DEF workerAll, workerVars
  <1>. QED BY <1>3, <1>4, <1>5, <1>6, <1>7, <1>8 DEF WorkerNext

(* What has been put last is stored, and nothing else unless an event has      *)
(* inserted it, in any number of scopes, whatever job handlers put and in      *)
(* whatever order.                                                             *)
THEOREM LatestCorrect == WorkerSpec => []LatestIsStored
  <1>1. WorkerInit => StoreInv
    <2>1. <<>> \in Seq(Values)
      OBVIOUS
    <2>. QED BY <2>1 DEF WorkerInit, StoreInv, StoreOK, LatestIsStored
  <1>2. StoreInv => LatestIsStored
    BY DEF StoreInv
  <1>. QED BY <1>1, <1>2, StoreStep, PTL DEF WorkerSpec
=============================================================================
