------------------------------- MODULE Worker -------------------------------
(***************************************************************************)
(* A worker (worker/worker.go, job.go, variable.go) that executes the jobs *)
(* of Jobs, and the variables its job handlers set (engine/internal/       *)
(* variable.go, pg/variable.go, mem/variable.go).                          *)
(*                                                                         *)
(* Start runs a job executor, a goroutine that locks a batch of jobs at    *)
(* each tick and executes one after the other.  Stop does not wait for it: *)
(* the batch is finished, possibly next to the executor of another Start.  *)
(* A crash ends all executors and leaves their jobs locked, which somebody *)
(* may unlock at any time, as the jobs a worker could not complete.        *)
(*                                                                         *)
(* Variables have one name here; a scope is an element instance or the     *)
(* process instance.  How values are encoded and encrypted is left out.    *)
(***************************************************************************)
EXTENDS Jobs, Sequences, SequencesExt

CONSTANTS
  Executors,      \* goroutines of job executors
  worker,         \* WorkerId of the worker
  Values,         \* values of variables
  MaxPuts,        \* bound on the variables a job handler puts
  MaxVariables,   \* bound on the rows of a scope
  ProcessScope    \* the scope of process variables

ASSUME WorkerAssumption ==
  /\ worker \in Workers
  /\ Null \notin Values /\ Null \notin Executors
  /\ ProcessScope \notin Executions
  /\ MaxPuts \in Nat /\ MaxVariables \in Nat

VARIABLES
  running,        \* the executors whose goroutine has not returned
  current,        \* the jobExecutor of the Worker, which Stop stops, or Null
  stopped,        \* those whose tickerCtx is canceled
  batch,          \* the jobs each executor has locked and not yet executed
  run,            \* the job whose handler each executor has called, or Null
  store,          \* the rows of the variable of each scope, by id: their values
  handled,        \* history: the jobs whose handler has been called
  again,          \* history: those called again without ever having been unlocked
  unlocked,       \* history: the jobs that have been unlocked
  last,           \* history: what has been put last in each scope, or Null
  doubled         \* history: the scopes in which an event has inserted a row
                  \* beside another one, and which have not been empty since

executorVars == <<running, current, stopped, batch, run>>
storeVars == <<store, last, doubled>>
history == <<handled, again, unlocked>>
workerVars == <<executorVars, storeVars, history>>

Scopes == Executions \cup {ProcessScope}

-----------------------------------------------------------------------------

MutantPutAt(puts, x) == Append(puts, x)   \* does not replace

(* ElementVariables.PutAt, ProcessVariables.Put: adds or replaces *)
PutAt(puts, x) ==
  IF \E k \in DOMAIN puts : puts[k].scope = x.scope
  THEN [k \in DOMAIN puts |-> IF puts[k].scope = x.scope THEN x ELSE puts[k]]
  ELSE Append(puts, x)

(* What a job handler of the execution e may put: at its element instance    *)
(* and the process instance.                                                 *)
Puts(e) ==
  LET put == [scope: {e, ProcessScope}, value: Values \cup {Null}]
  IN  {FoldLeft(PutAt, <<>>, s) : s \in BoundedSeq(put, MaxPuts)}

(* Upsert replaces the row of a variable: of several whichever is selected   *)
(* in PostgreSQL, the first one in memory.                                   *)
Upserted(data, value) ==
  IF data = <<>> THEN {<<value>>} ELSE {[data EXCEPT ![k] = value] : k \in DOMAIN data}

(* Delete removes all of them in PostgreSQL, the first one in memory. *)
Deleted(data) == IF data = <<>> THEN {<<>>} ELSE {<<>>, Tail(data)}

Stored(data, value) == IF value = Null THEN Deleted(data) ELSE Upserted(data, value)

(* A scope without rows has lost what its events have inserted. *)
StillDoubled(scopes) == {s \in scopes : store'[s] # <<>>}

(* The entities that mapElementVariables and mapProcessVariables return are  *)
(* upserted or deleted: of several for a scope the first counts.             *)
SetVariables(puts) ==
  LET of(s) == {k \in DOMAIN puts : puts[k].scope = s}
      results(s) == IF of(s) = {} THEN {store[s]} ELSE Stored(store[s], puts[Min(of(s))].value)
  IN  /\ store' \in {f \in [Scopes -> UNION {results(s) : s \in Scopes}] :
                       \A s \in Scopes : f[s] \in results(s)}
      /\ doubled' = StillDoubled(doubled)
      /\ last' = [s \in Scopes |-> IF of(s) = {} THEN last[s] ELSE puts[Max(of(s))].value]

-----------------------------------------------------------------------------

WorkerInit ==
  /\ Init
  /\ running = {} /\ stopped = {} /\ current = Null
  /\ batch = [p \in Executors |-> {}]
  /\ run = [p \in Executors |-> Null]
  /\ store = [s \in Scopes |-> <<>>] /\ doubled = {}
  /\ handled = {} /\ again = {} /\ unlocked = {}
  /\ last = [s \in Scopes |-> Null]

(* Start makes another executor, also when there is one already. *)
Start(p) ==
  /\ p \notin running
  /\ running' = running \cup {p}
  /\ current' = p
  /\ UNCHANGED <<vars, stopped, batch, run, storeVars, history>>

(* The ticker is stopped, which sends nothing more. *)
Stop ==
  /\ current # Null
  /\ stopped' = stopped \cup {current}
  /\ current' = Null
  /\ UNCHANGED <<vars, running, batch, run, storeVars, history>>

(* The executor waits for a tick or for its context to be done. *)
Idle(p) == p \in running /\ batch[p] = {} /\ run[p] = Null

Return(p) ==
  /\ Idle(p) /\ p \in stopped
  /\ running' = running \ {p}
  /\ stopped' = stopped \ {p}
  /\ UNCHANGED <<vars, current, batch, run, storeVars, history>>

LockBatch(p) ==
  /\ Idle(p) /\ p \notin stopped
  /\ \E locked \in SUBSET Lockable \ {{}} :
       /\ Lock(worker, locked)
       /\ batch' = [batch EXCEPT ![p] = locked]
  /\ UNCHANGED <<running, current, stopped, run, storeVars, history>>

(* ExecuteJob takes the jobs of a batch one by one. *)
Take(p, j) ==
  /\ run[p] = Null /\ j \in batch[p]
  /\ batch' = [batch EXCEPT ![p] = @ \ {j}]
  /\ UNCHANGED <<vars, running, current, stopped, storeVars, unlocked>>

Called(j) ==
  /\ handled' = handled \cup {j}
  /\ again' = IF j \in handled \ unlocked THEN again \cup {j} ELSE again

(* There is no job handler for the element and the type of the job, which    *)
(* stays locked.                                                             *)
SkipJob(p, j) ==
  /\ Take(p, j)
  /\ UNCHANGED <<run, handled, again>>

(* The job handler is called.  What it returns is left open until then. *)
CallHandler(p, j) ==
  /\ Take(p, j)
  /\ run' = [run EXCEPT ![p] = j]
  /\ Called(j)

(* A variable cannot be encoded: the job stays locked. *)
EncodeFails(p, j) ==
  /\ Take(p, j)
  /\ Called(j)
  /\ UNCHANGED run

Finished(p) ==
  /\ run' = [run EXCEPT ![p] = Null]
  /\ UNCHANGED <<running, current, stopped, batch>>

(* CompleteJob is called with what the job handler has returned. *)
SendCompletion(p) ==
  /\ run[p] # Null
  /\ BeginCompleteJob(worker, run[p])
  /\ UNCHANGED <<running, current, stopped, batch, run, storeVars, history>>

(* The job is completed, unlocked or locked by another worker. *)
CompletionRefused(p) ==
  /\ run[p] # Null /\ tx = Null
  /\ run[p] \in completed \/ lockedBy[run[p]] # worker
  /\ Finished(p)
  /\ UNCHANGED <<vars, storeVars, history>>

Committed(p) == run[p] = tx /\ Finished(p) /\ UNCHANGED history

(* The variables a job handler has put are set. *)
VariablesSet == \E puts \in Puts(execution[tx]) : SetVariables(puts)

CommitCanceled(p) == Committed(p) /\ CancelJob /\ UNCHANGED storeVars

CommitDone(p) == Committed(p) /\ CompleteJob /\ VariablesSet

(* An error of the job handler, or of what it has returned, with a retry     *)
(* limit.  What it has put is set all the same.                              *)
CommitFailed(p) ==
  \E limit \in RetryLimits : Committed(p) /\ FailJob(limit) /\ VariablesSet

(* mapElementVariables refuses a scope the execution is not within, or an   *)
(* unexpected error occurs: the job stays locked.                            *)
CompletionFails(p) ==
  /\ Committed(p)
  /\ Rollback
  /\ UNCHANGED storeVars

(* The worker ends, with a transaction of its embedded engine. *)
Crash ==
  /\ running # {}
  /\ \/ tx = Null /\ UNCHANGED vars
     \/ Rollback
  /\ running' = {} /\ current' = Null /\ stopped' = {}
  /\ batch' = [p \in Executors |-> {}]
  /\ run' = [p \in Executors |-> Null]
  /\ UNCHANGED <<storeVars, history>>

(* UnlockJobs, whether an executor still has the jobs or not *)
Unlock ==
  /\ UnlockJobs(worker)
  /\ unlocked' = unlocked \cup {j \in JobIds : lockedBy[j] # Null /\ lockedBy'[j] = Null}
  /\ UNCHANGED <<executorVars, storeVars, handled, again>>

(* SetElementVariables and SetProcessVariables; an ended scope is refused. *)
SetVariable(s, value) ==
  /\ tx = Null
  /\ s \in Executions => mode[s] # "ENDED"
  /\ SetVariables(<<[scope |-> s, value |-> value]>>)
  /\ UNCHANGED <<vars, executorVars, history>>

(* A message or signal continues an execution.  Its variables are deleted or *)
(* inserted, also those that are there already.                              *)
TriggerEvent(e) ==
  /\ ContinueExecution(e)
  /\ \E value \in Values \cup {Null} :
       LET data == store[ProcessScope]
       IN  /\ \/ /\ value = Null
                 /\ \E d \in Deleted(data) : store' = [store EXCEPT ![ProcessScope] = d]
                 /\ doubled' = StillDoubled(doubled)
              \/ /\ value # Null /\ Len(data) < MaxVariables
                 /\ store' = [store EXCEPT ![ProcessScope] = Append(data, value)]
                 /\ doubled' = IF data = <<>> THEN doubled ELSE doubled \cup {ProcessScope}
           /\ last' = [last EXCEPT ![ProcessScope] = value]
  /\ UNCHANGED <<executorVars, history>>

(* What happens to executions and incidents meanwhile. *)
Elsewhere ==
  /\ \/ \E j \in JobIds : ResolveIncident(j)
     \/ \E e \in Executions : ContinueExecution(e) \/ EndExecution(e)
  /\ UNCHANGED workerVars

Executes(p) ==
  \/ LockBatch(p) \/ Return(p)
  \/ \E j \in JobIds : SkipJob(p, j) \/ CallHandler(p, j) \/ EncodeFails(p, j)
  \/ SendCompletion(p) \/ CompletionRefused(p)
  \/ CommitCanceled(p) \/ CommitDone(p) \/ CommitFailed(p) \/ CompletionFails(p)

WorkerNext ==
  \/ \E p \in Executors : Start(p) \/ Executes(p)
  \/ Stop \/ Crash \/ Unlock
  \/ \E s \in Scopes, value \in Values \cup {Null} : SetVariable(s, value)
  \/ \E e \in Executions : TriggerEvent(e)
  \/ Elsewhere

workerAll == <<vars, workerVars>>

WorkerSpec == WorkerInit /\ [][WorkerNext]_workerAll

-----------------------------------------------------------------------------

(* A job handler is called again for a job only after somebody has unlocked  *)
(* the job: neither the executor of another Start, nor a completion that is  *)
(* refused or rolled back, nor a crash makes the worker repeat its work.     *)
RunAgainOnlyIfUnlocked == again = {}

(* What is stored in a scope is what has been put there last and nothing     *)
(* else, and nothing if that was a deletion: not what a job handler has put  *)
(* whose job was canceled, refused or failed to complete meanwhile.  Only    *)
(* beside a row that an event has inserted next to another one older values  *)
(* stay, and even then the last one is among them.                           *)
LatestIsStored ==
  \A s \in Scopes :
    /\ s \notin doubled => store[s] = IF last[s] = Null THEN <<>> ELSE <<last[s]>>
    /\ last[s] # Null => \E k \in DOMAIN store[s] : store[s][k] = last[s]

(* "Variable is data, identified by a name, that exists in the scope", as     *)
(* model.go documents it.  The code breaks it: events insert rows without     *)
(* looking for one of the name.                                              *)
OneRow == \A s \in Scopes : Len(store[s]) <= 1
=============================================================================
