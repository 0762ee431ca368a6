-------------------------------- MODULE Jobs --------------------------------
(***************************************************************************)
(* The jobs of one process instance (engine/internal/job.go, incident.go)  *)
(* and the workers that lock, complete and unlock them.                    *)
(*                                                                         *)
(* In PostgreSQL CompleteJob is a transaction of two reads and a write:    *)
(* it locks the row of the process instance, reads the job, handles it and *)
(* writes it back.  The row of the job itself is not locked meanwhile, and *)
(* LockJobs, UnlockJobs and ResolveIncident do not lock the row of the     *)
(* process instance, so they take effect between BeginCompleteJob and the  *)
(* commit.  The engine in memory runs each command under one mutex: its    *)
(* behaviours are those in which a commit follows its begin at once.       *)
(*                                                                         *)
(* Due dates are left out: a job that is not due yet is one that nobody    *)
(* has locked yet.                                                         *)
(***************************************************************************)
EXTENDS Naturals, FiniteSets

CONSTANTS
  Executions,     \* element instances of the process instance
  JobIds,         \* bound on the number of rows
  Workers,        \* ids workers lock and complete jobs with
  RetryLimits,    \* values of CompleteJobCmd.RetryLimit
  Null

ASSUME JobsAssumption ==
  /\ RetryLimits \subseteq Nat
  /\ Null \notin Workers /\ Null \notin Executions /\ Null \notin JobIds

VARIABLES
  state,          \* State of each job, "NONE" before its insertion
  lockedBy,       \* LockedBy of each job, Null if it is not locked
  completed,      \* the jobs with a CompletedAt
  retryCount,     \* RetryCount of each job
  execution,      \* ElementInstanceId of each job, Null before its insertion
  incidents,      \* the jobs with an unresolved incident
  mode,           \* of an execution: "JOB" waiting for a worker, "WAIT", "ENDED"
  tx,             \* the job CompleteJob has read and not yet written, or Null
  completions     \* history: how often each job has been completed

rows == <<state, lockedBy, completed, retryCount, execution>>
vars == <<rows, incidents, mode, tx, completions>>

WorkState == {"CREATED", "LOCKED", "DONE", "CANCELED", "CAUSED_RETRY", "CAUSED_INCIDENT"}
Jobs == {j \in JobIds : state[j] # "NONE"}

-----------------------------------------------------------------------------

(* Operators named Mutant... are mistaken variants of the operator that       *)
(* follows them; some property of this module fails for each of them.         *)

Unused(r) == r \in JobIds /\ state[r] = "NONE"

(* A job r is inserted next to rows that are in the given states. *)
Inserted(states, r, e, retries) ==
  /\ Unused(r)
  /\ state' = [states EXCEPT ![r] = "CREATED"]
  /\ execution' = [execution EXCEPT ![r] = e]
  /\ retryCount' = [retryCount EXCEPT ![r] = retries]

NothingInserted(states) ==
  /\ state' = states
  /\ UNCHANGED <<execution, retryCount>>

(* Every execution has just been started, with a job of its own. *)
Init ==
  /\ execution \in [JobIds -> Executions \cup {Null}]
  /\ \A e \in Executions : \E j \in JobIds : {i \in JobIds : execution[i] = e} = {j}
  /\ state = [j \in JobIds |-> IF execution[j] = Null THEN "NONE" ELSE "CREATED"]
  /\ lockedBy = [j \in JobIds |-> Null]
  /\ completed = {}
  /\ retryCount = [j \in JobIds |-> 0]
  /\ incidents = {}
  /\ mode = [e \in Executions |-> "JOB"]
  /\ tx = Null
  /\ completions = [j \in JobIds |-> 0]

MutantLockable == Jobs \ completed   \* also what somebody has locked

(* The statement of LockJobs asks for jobs with no LockedAt, and for nothing *)
(* else but a due date and the conditions of the command.                    *)
Lockable == {j \in Jobs : lockedBy[j] = Null}

Lock(w, locked) ==
  /\ lockedBy' = [j \in JobIds |-> IF j \in locked THEN w ELSE lockedBy[j]]
  /\ state' = [j \in JobIds |-> IF j \in locked THEN "LOCKED" ELSE state[j]]
  /\ UNCHANGED <<completed, retryCount, execution, incidents, mode, tx, completions>>

LockJobs(w) == \E locked \in SUBSET Lockable \ {{}} : Lock(w, locked)

(* UnlockJobs: all of a worker's uncompleted jobs, or those of a partition, *)
(* or one.                                                                  *)
Unlockable(w) == {j \in Jobs \ completed : lockedBy[j] = w}

UnlockJobs(w) ==
  \E unlocked \in SUBSET Unlockable(w) \ {{}} :
    /\ lockedBy' = [j \in JobIds |-> IF j \in unlocked THEN Null ELSE lockedBy[j]]
    /\ state' = [j \in JobIds |-> IF j \in unlocked THEN "CREATED" ELSE state[j]]
    /\ UNCHANGED <<completed, retryCount, execution, incidents, mode, tx, completions>>

MutantBeginCompleteJob(w, j) ==   \* a completed job is not refused
  /\ tx = Null
  /\ lockedBy[j] = w
  /\ tx' = j
  /\ UNCHANGED <<rows, incidents, mode, completions>>

(* CompleteJob up to its checks.  A job that is completed, not locked or     *)
(* locked by another worker is refused, which changes nothing.               *)
BeginCompleteJob(w, j) ==
  /\ tx = Null
  /\ j \in Jobs \ completed
  /\ lockedBy[j] = w
  /\ tx' = j
  /\ UNCHANGED <<rows, incidents, mode, completions>>

(* The rest of CompleteJob: the job ends in state s, in the row that by now *)
(* may be unlocked, or locked by another worker.                             *)
Complete(s) == [state EXCEPT ![tx] = s]

CommitCompleted ==
  /\ tx # Null
  /\ completed' = completed \cup {tx}
  /\ completions' = [completions EXCEPT ![tx] = @ + 1]
  /\ tx' = Null
  /\ UNCHANGED lockedBy

(* The element instance has been ended since the job was created. *)
CancelJob ==
  /\ CommitCompleted
  /\ mode[execution[tx]] = "ENDED"
  /\ NothingInserted(Complete("CANCELED"))
  /\ UNCHANGED <<incidents, mode>>

(* The execution goes on: it ends, waits for something else than a worker,  *)
(* or requires another job, as when a call activity has been prepared.      *)
CompleteJob ==
  /\ CommitCompleted
  /\ mode[execution[tx]] # "ENDED"
  /\ \/ \E m \in {"WAIT", "ENDED"} :
          /\ mode' = [mode EXCEPT ![execution[tx]] = m]
          /\ NothingInserted(Complete("DONE"))
     \/ \E r \in JobIds :
          /\ Inserted(Complete("DONE"), r, execution[tx], 0)
          /\ mode' = [mode EXCEPT ![execution[tx]] = "JOB"]
  /\ UNCHANGED incidents

(* The worker or the engine reports an error. *)
FailJob(limit) ==
  /\ CommitCompleted
  /\ mode[execution[tx]] # "ENDED"
  /\ \/ /\ limit > retryCount[tx]
        /\ \E r \in JobIds :
             Inserted(Complete("CAUSED_RETRY"), r, execution[tx], retryCount[tx] + 1)
        /\ UNCHANGED incidents
     \/ /\ limit <= retryCount[tx]
        /\ NothingInserted(Complete("CAUSED_INCIDENT"))
        /\ incidents' = incidents \cup {tx}
  /\ UNCHANGED mode

(* The transaction is rolled back: an unexpected error, or a crash. *)
Rollback ==
  /\ tx # Null
  /\ tx' = Null
  /\ UNCHANGED <<rows, incidents, mode, completions>>

(* ResolveIncident locks the row of the incident, which is resolved once. *)
ResolveIncident(j) ==
  /\ j \in incidents
  /\ incidents' = incidents \ {j}
  /\ \E r \in JobIds : Inserted(state, r, execution[j], 0)
  /\ UNCHANGED <<lockedBy, completed, mode, tx, completions>>

(* What other transactions of the process instance, which hold its row, do  *)
(* to an execution: continue it, or end it whatever it waits for.           *)
ContinueExecution(e) ==
  /\ tx = Null /\ mode[e] = "WAIT"
  /\ \E r \in JobIds : Inserted(state, r, e, 0)
  /\ mode' = [mode EXCEPT ![e] = "JOB"]
  /\ UNCHANGED <<lockedBy, completed, incidents, tx, completions>>

EndExecution(e) ==
  /\ tx = Null /\ mode[e] # "ENDED"
  /\ mode' = [mode EXCEPT ![e] = "ENDED"]
  /\ UNCHANGED <<rows, incidents, tx, completions>>

Next ==
  \/ \E w \in Workers : LockJobs(w) \/ UnlockJobs(w)
  \/ \E w \in Workers, j \in JobIds : BeginCompleteJob(w, j)
  \/ CancelJob \/ CompleteJob \/ Rollback
  \/ \E limit \in RetryLimits : FailJob(limit)
  \/ \E j \in JobIds : ResolveIncident(j)
  \/ \E e \in Executions : ContinueExecution(e) \/ EndExecution(e)

Spec == Init /\ [][Next]_vars

-----------------------------------------------------------------------------

TypeOK ==
  /\ state \in [JobIds -> WorkState \cup {"NONE"}]
  /\ lockedBy \in [JobIds -> Workers \cup {Null}]
  /\ completed \subseteq Jobs
  /\ retryCount \in [JobIds -> Nat]
  /\ execution \in [JobIds -> Executions \cup {Null}]
  /\ incidents \subseteq completed
  /\ mode \in [Executions -> {"JOB", "WAIT", "ENDED"}]
  /\ tx \in JobIds \cup {Null}
  /\ completions \in [JobIds -> Nat]

(* A job is completed at most once, however often its completion is sent and *)
(* whoever unlocks and locks it while it is being completed.                 *)
CompletedOnce == \A j \in JobIds : completions[j] = IF j \in completed THEN 1 ELSE 0

(* What an execution can be continued through: an uncompleted job, or the    *)
(* incident of a failed one.                                                 *)
Handles(e) == {j \in Jobs : execution[j] = e /\ (j \notin completed \/ j \in incidents)}

(* An execution that waits for a worker has exactly one handle: it is never  *)
(* stuck without a job or an incident, and no two workers can be given jobs  *)
(* for the same step of it.                                                  *)
OneHandle ==
  \A e \in Executions :
    /\ mode[e] = "JOB" => \E j \in JobIds : Handles(e) = {j}
    /\ mode[e] = "WAIT" => Handles(e) = {}

(* "LockJobs locks due jobs" (engine.go), where a due job is one in state    *)
(* CREATED whose due date has come (pg/job.go, model.go).                    *)
LocksDueJobs ==
  [][\A j \in JobIds :
       lockedBy[j] = Null /\ lockedBy'[j] # Null => state[j] = "CREATED"]_vars
=============================================================================
