------------------------------ MODULE Processes ------------------------------
(***************************************************************************)
(* Deployment of processes: CreateProcess of engine/internal/process.go,   *)
(* the cache of processes, event definitions (event.go) and timer start    *)
(* events (timer.go), over the statements of pg/process.go, pg/event.go    *)
(* and mem/process.go, mem/event.go.                                       *)
(*                                                                         *)
(* A deployment is a transaction of CreateProcess and stands for the       *)
(* process it inserts, too.  Deployments begin in the order of their       *)
(* numbers, which is the order of created_at.  PostgreSQL runs them at     *)
(* READ COMMITTED and may roll each of them back at any point; the         *)
(* in-memory engine runs one command at a time and never rolls back.  All  *)
(* transactions of an engine share its cache, committed or not.            *)
(***************************************************************************)
EXTENDS Naturals, FiniteSets, Sequences, FiniteSetsExt, SequencesExt

CONSTANTS
  Deployments,    \* 1..n, the bound on the number of deployments
  Requests,       \* what may be deployed
  Capacity,       \* of the cache
  Empty,          \* the empty name
  Null

ASSUME ProcessesAssumption ==
  /\ Null \notin Deployments /\ Null \notin Requests
  /\ Capacity \in Nat

VARIABLES
  engine,         \* "pg" or "mem"
  phase,          \* of each deployment, see below
  request,        \* what it deploys
  suspending,     \* the processes whose event definitions it suspends
  suspended,      \* processes whose start event definitions are suspended
  parallelism,    \* of the queue of each BPMN process, or Null
  ticks,          \* processes with a due task for their timer start event
  instances,      \* processes of which an instance has been created
  cache,          \* the ProcessCache, see below
  last            \* history: the process of a BPMN process committed last

rows == <<suspended, parallelism, ticks, last>>
vars == <<engine, phase, request, suspending, rows, instances, cache>>

(* NEW -> INSERTED -> CHECKED -> STORED -> COMMITTED, or                     *)
(* REFUSED, without a row of its own: invalid, in conflict, or the same as   *)
(*   an existing one;                                                        *)
(* GONE: rolled back; LEFT: refused by the in-memory engine when the row was *)
(*   inserted already.                                                       *)
Phases == {"NEW", "INSERTED", "CHECKED", "STORED", "COMMITTED", "REFUSED", "GONE", "LEFT"}

Running == {d \in Deployments : phase[d] \in {"INSERTED", "CHECKED", "STORED"}}
Committed == {d \in Deployments : phase[d] = "COMMITTED"}
Stored == {d \in Deployments : phase[d] \in {"COMMITTED", "LEFT"}}

BpmnProcesses == {r.bpmn : r \in Requests}
KeyOf(r) == <<r.bpmn, r.version>>
Keys == {KeyOf(r) : r \in Requests}

-----------------------------------------------------------------------------

(* Event definitions.  A request has the elements of a BPMN process, each    *)
(* [id, kind, role, name] with the name or code of its definition in the     *)
(* model, or Null, and those named by the command, [kind, id, name]; the     *)
(* name of a timer tells if it is a "CYCLE".                                 *)

IsNamed(r, kind, e) == \E n \in r.named : n.kind = kind /\ n.id = e.id
IsEmpty(r, kind, e) == [kind |-> kind, id |-> e.id, name |-> Empty] \in r.named
Undefined(r, e) == e.role = "START" /\ e.name = Null /\ ~IsNamed(r, e.kind, e)

ErrorCause(r, e) ==
  IsNamed(r, "ERROR", e) /\ ~(e.kind = "ERROR" /\ e.role \in {"BOUNDARY", "END"})

EscalationCause(r, e) ==
  IsNamed(r, "ESCALATION", e)
    /\ ~(e.kind = "ESCALATION" /\ e.role \in {"BOUNDARY", "END", "THROW"})

MessageCause(r, e) ==
  \/ IsEmpty(r, "MESSAGE", e)
  \/ IsNamed(r, "MESSAGE", e) /\ e.kind # "MESSAGE"
  \/ e.kind = "MESSAGE" /\ Undefined(r, e)

SignalCause(r, e) ==
  \/ IsEmpty(r, "SIGNAL", e)
  \/ IsNamed(r, "SIGNAL", e) /\ e.kind # "SIGNAL"
  \/ e.kind = "SIGNAL" /\ Undefined(r, e)

TimerCause(r, e) ==
  \/ IsNamed(r, "TIMER", e) /\ e.kind # "TIMER"
  \/ e.kind = "TIMER" /\ e.role = "START" /\ ~IsNamed(r, "TIMER", e)

(* Refused before anything is written. *)
Invalid(r) ==
  \E e \in r.elements :
    ErrorCause(r, e) \/ EscalationCause(r, e) \/ MessageCause(r, e)
      \/ SignalCause(r, e) \/ TimerCause(r, e)

Known(r, n) == \E e \in r.elements : e.id = n.id
ElementOf(r, n) == CHOOSE e \in r.elements : e.id = n.id

(* Of the roles a kind has its definition in the model is used, unless the   *)
(* command names another.                                                    *)
FromModel(r, kind, roles) ==
  {[kind |-> kind, id |-> e.id, name |-> e.name] :
     e \in {x \in r.elements : /\ x.kind = kind /\ x.role \in roles
                               /\ x.name # Null /\ ~IsNamed(r, kind, x)}}

Defined(r, kind, roles) == {n \in r.named : n.kind = kind} \cup FromModel(r, kind, roles)

ErrorDefinitions(r) == Defined(r, "ERROR", {"BOUNDARY", "END"})
EscalationDefinitions(r) == Defined(r, "ESCALATION", {"BOUNDARY", "END", "THROW"})
SignalDefinitions(r) == Defined(r, "SIGNAL", {"START", "CATCH", "BOUNDARY", "THROW", "END"})
TimerDefinitions(r) == Defined(r, "TIMER", {})

(* Message throw and end events are jobs: their names are dropped. *)
MessageDefinitions(r) ==
  {n \in Defined(r, "MESSAGE", {"START", "CATCH", "BOUNDARY"}) :
     Known(r, n) => ElementOf(r, n).role \notin {"THROW", "END"}}

EventDefinitions(r) ==
  ErrorDefinitions(r) \cup EscalationDefinitions(r) \cup MessageDefinitions(r)
    \cup SignalDefinitions(r) \cup TimerDefinitions(r)

StartDefinitions(r) ==
  {n \in EventDefinitions(r) : Known(r, n) /\ ElementOf(r, n).role = "START"}

(* Start names must be unique within a process. *)
Ambiguous(r) ==
  \E n, o \in StartDefinitions(r) :
    n.kind \in {"MESSAGE", "SIGNAL"} /\ n.kind = o.kind /\ n.name = o.name /\ n.id # o.id

StartsByTimer(r) == \E n \in StartDefinitions(r) : n.kind = "TIMER"
IsCycle(r) == \E n \in StartDefinitions(r) : n.kind = "TIMER" /\ n.name = "CYCLE"

-----------------------------------------------------------------------------

(* Operators named Mutant... are mistaken variants of the operator that      *)
(* follows them; some property of this module fails for each of them.        *)

(* The cache: a list of entries, the last used one first, and two maps into  *)
(* it.  An entry is a process; those of old entries have expired.            *)

Cache == [list: Seq(Deployments), processes: [Keys -> Deployments \cup {Null}],
          processesById: SUBSET Deployments, expired: SUBSET Deployments]

NewProcessCache ==
  [list |-> <<>>, processes |-> [k \in Keys |-> Null], processesById |-> {}, expired |-> {}]

(* The one entry of d is taken out of the list. *)
Removed(list, d) == RemoveAt(list, CHOOSE n \in 1 .. Len(list) : list[n] = d)

(* The key goes, even if it leads to another entry. *)
Without(c, d) ==
  [list |-> Removed(c.list, d),
   processes |-> [c.processes EXCEPT ![KeyOf(request[d])] = Null],
   processesById |-> c.processesById \ {d},
   expired |-> c.expired \ {d}]

Used(c, d) == [c EXCEPT !.list = <<d>> \o Removed(@, d)]

Added(c, d) ==
  [list |-> <<d>> \o c.list,
   processes |-> [c.processes EXCEPT ![KeyOf(request[d])] = d],
   processesById |-> c.processesById \cup {d},
   expired |-> c.expired]

MutantPut(c, d) ==   \* the oldest entry is removed from the list only
  IF d \in c.processesById
  THEN [Used(c, d) EXCEPT !.expired = @ \ {d}]
  ELSE [Added(c, d) EXCEPT !.list = SubSeq(@, 1, Min({Capacity, Len(@)}))]

(* A process that is cached already gets a new entry, but no key.  An entry  *)
(* too many makes the oldest one go.                                         *)
Put(c, d) ==
  IF d \in c.processesById
  THEN [Used(c, d) EXCEPT !.expired = @ \ {d}]
  ELSE LET all == Added(c, d)
       IN  IF Len(all.list) > Capacity THEN Without(all, Last(all.list)) ELSE all

(* GetById and Get, of an entry that has been found: it is used, or removed. *)
GetById(c, d) == IF d \in c.expired THEN Without(c, d) ELSE Used(c, d)

Init ==
  /\ engine \in {"pg", "mem"}
  /\ phase = [d \in Deployments |-> "NEW"]
  /\ request = [d \in Deployments |-> Null]
  /\ suspending = [d \in Deployments |-> {}]
  /\ suspended = {} /\ ticks = {} /\ instances = {}
  /\ parallelism = [b \in BpmnProcesses |-> Null]
  /\ last = [b \in BpmnProcesses |-> Null]
  /\ cache = NewProcessCache

(* A command or a task of the in-memory engine begins when no other runs. *)
MayBegin == engine = "mem" => Running = {}

(* GetOrCacheById, which yields the process d. *)
GetOrCacheById(d) ==
  LET c == IF d \in cache.processesById THEN GetById(cache, d) ELSE cache
  IN  \/ d \in c.processesById /\ cache' = c
      \/ d \in Stored \ c.processesById /\ cache' = Put(c, d)

RowsOf(k) == {d \in Stored : KeyOf(request[d]) = k}

(* Get, by a key: what is left in the cache when it yields nothing, *)
Missed(k) ==
  LET d == cache.processes[k]
  IN  IF d = Null THEN cache ELSE Without(cache, d)

(* which is the case here. *)
IsMissed(k) == cache.processes[k] = Null \/ cache.processes[k] \in cache.expired

(* GetOrCache, which yields the process d, *)
GetOrCache(k, d) ==
  \/ ~IsMissed(k) /\ d = cache.processes[k] /\ cache' = Used(cache, d)
  \/ IsMissed(k) /\ d \in RowsOf(k) /\ cache' = Put(Missed(k), d)

(* or nothing: the process does not exist, or not any more. *)
ProcessNotFound(k) ==
  /\ MayBegin
  /\ IsMissed(k) /\ RowsOf(k) = {}
  /\ cache' = Missed(k)
  /\ UNCHANGED <<engine, phase, request, suspending, rows, instances>>

(* The engine stops, with the transactions it runs, and starts anew. *)
Restart ==
  /\ engine = "pg"
  /\ cache' = NewProcessCache
  /\ phase' = [d \in Deployments |-> IF d \in Running THEN "GONE" ELSE phase[d]]
  /\ suspending' = [d \in Deployments |-> {}]
  /\ UNCHANGED <<engine, request, rows, instances>>

(* Time passes. *)
Expire(d) ==
  /\ d \in cache.processesById
  /\ cache' = [cache EXCEPT !.expired = @ \cup {d}]
  /\ UNCHANGED <<engine, phase, request, suspending, rows, instances>>

-----------------------------------------------------------------------------

IsNext(d) == phase[d] = "NEW" /\ \A c \in 1 .. (d - 1) : phase[c] # "NEW"

(* An insertion waits for the end of another one of the same key. *)
Awaited(k) == {c \in Running : KeyOf(request[c]) = k}

(* CreateProcess, up to the row of the process.  Whatever BPMN XML a process *)
(* has that exists already, nothing is written.                              *)
CreateProcess(d, r) ==
  /\ MayBegin
  /\ IsNext(d)
  /\ Awaited(KeyOf(r)) = {}
  /\ request' = [request EXCEPT ![d] = r]
  /\ phase' = [phase EXCEPT ![d] = IF Invalid(r) \/ RowsOf(KeyOf(r)) # {} THEN "REFUSED" ELSE "INSERTED"]
  /\ UNCHANGED <<engine, suspending, rows, instances, cache>>

Active(d) == d \in Committed \ suspended

(* SelectByMessageName: an event definition that is not suspended; only      *)
(* those of start events ever are.                                           *)
ByMessageName(name) ==
  {d \in Committed : \E n \in MessageDefinitions(request[d]) :
     n.name = name /\ (ElementOf(request[d], n).role # "START" \/ Active(d))}

(* A start message name is taken if the one definition that is found, which  *)
(* may be any of those of that name, is of another BPMN process.             *)
Taken(r, n) ==
  /\ n.kind = "MESSAGE"
  /\ \E d \in ByMessageName(n.name) : request[d].bpmn # r.bpmn

Free(r, n) ==
  n.kind # "MESSAGE" \/ ByMessageName(n.name) = {}
    \/ \E d \in ByMessageName(n.name) : request[d].bpmn = r.bpmn

(* Whether the event definitions are accepted.                               *)
CheckDefinitions(d) ==
  LET r == request[d]
      misfit == Ambiguous(r) \/ \E n \in EventDefinitions(r) : ~Known(r, n)
  IN  /\ phase[d] = "INSERTED"
      /\ \/ /\ ~misfit
            /\ \A n \in StartDefinitions(r) : Free(r, n)
            /\ phase' = [phase EXCEPT ![d] = "CHECKED"]
         \/ /\ misfit \/ \E n \in StartDefinitions(r) : Taken(r, n)
            /\ phase' = [phase EXCEPT ![d] = IF engine = "mem" THEN "LEFT" ELSE "GONE"]
      /\ UNCHANGED <<engine, request, suspending, rows, instances, cache>>

Unsuspended(b) == {c \in Committed : request[c].bpmn = b} \ suspended

MutantStoreProcess(d) ==   \* the queue is not locked
  /\ phase[d] = "CHECKED"
  /\ suspending' = [suspending EXCEPT ![d] = Unsuspended(request[d].bpmn)]
  /\ phase' = [phase EXCEPT ![d] = "STORED"]
  /\ cache' = Put(cache, d)
  /\ UNCHANGED <<engine, request, rows, instances>>

(* The row of the queue is upserted, and locked until the transaction ends;  *)
(* then the definitions of earlier versions are suspended, and the process   *)
(* is cached.                                                                *)
StoreProcess(d) ==
  /\ phase[d] = "CHECKED"
  /\ \A c \in Running : request[c].bpmn = request[d].bpmn => phase[c] # "STORED"
  /\ suspending' = [suspending EXCEPT ![d] = Unsuspended(request[d].bpmn)]
  /\ phase' = [phase EXCEPT ![d] = "STORED"]
  /\ cache' = Put(cache, d)
  /\ UNCHANGED <<engine, request, rows, instances>>

CommitProcess(d) ==
  LET r == request[d]
  IN  /\ phase[d] = "STORED"
      /\ phase' = [phase EXCEPT ![d] = "COMMITTED"]
      /\ suspended' = suspended \cup suspending[d]
      /\ suspending' = [suspending EXCEPT ![d] = {}]
      /\ parallelism' = [parallelism EXCEPT ![r.bpmn] = r.parallelism]
      /\ ticks' = IF StartsByTimer(r) THEN ticks \cup {d} ELSE ticks
      /\ last' = [last EXCEPT ![r.bpmn] = d]
      /\ UNCHANGED <<engine, request, instances, cache>>

(* The transaction fails at any point, also to commit. *)
Rollback(d) ==
  /\ engine = "pg" /\ d \in Running
  /\ phase' = [phase EXCEPT ![d] = "GONE"]
  /\ suspending' = [suspending EXCEPT ![d] = {}]
  /\ UNCHANGED <<engine, request, rows, instances, cache>>

-----------------------------------------------------------------------------

(* CreateProcessInstance, or any other command that needs the process; what  *)
(* the instance does is the matter of other modules.                         *)
CreateProcessInstance(k, d) ==
  /\ MayBegin
  /\ GetOrCache(k, d)
  /\ instances' = instances \cup {d}
  /\ UNCHANGED <<engine, phase, request, suspending, rows>>

MutantTriggerTimerStartEvent(d) ==   \* no task for the next tick
  /\ MayBegin
  /\ d \in ticks
  /\ GetOrCacheById(d)
  /\ instances' = IF d \in suspended THEN instances ELSE instances \cup {d}
  /\ ticks' = ticks \ {d}
  /\ UNCHANGED <<engine, phase, request, suspending, suspended, parallelism, last>>

(* The task of a timer start event.  Of a suspended one it is the last; one  *)
(* that fails when it has created the instance is succeeded by a retry.      *)
TriggerTimerStartEvent(d) ==
  /\ MayBegin
  /\ d \in ticks
  /\ GetOrCacheById(d)
  /\ \/ /\ d \in suspended
        /\ ticks' = ticks \ {d}
        /\ UNCHANGED instances
     \/ /\ d \notin suspended
        /\ instances' = instances \cup {d}
        /\ ticks' \in {ticks, IF IsCycle(request[d]) THEN ticks ELSE ticks \ {d}}
  /\ UNCHANGED <<engine, phase, request, suspending, suspended, parallelism, last>>

Next ==
  \/ \E d \in Deployments :
       \/ \E r \in Requests : CreateProcess(d, r)
       \/ CheckDefinitions(d) \/ StoreProcess(d) \/ CommitProcess(d) \/ Rollback(d)
       \/ Expire(d) \/ TriggerTimerStartEvent(d)
       \/ \E k \in Keys : CreateProcessInstance(k, d)
  \/ \E k \in Keys : ProcessNotFound(k)
  \/ Restart

Spec == Init /\ [][Next]_vars

-----------------------------------------------------------------------------

TypeOK ==
  /\ engine \in {"pg", "mem"}
  /\ phase \in [Deployments -> Phases]
  /\ request \in [Deployments -> Requests \cup {Null}]
  /\ suspending \in [Deployments -> SUBSET Deployments]
  /\ suspended \subseteq Deployments
  /\ ticks \subseteq Deployments /\ instances \subseteq Deployments
  /\ cache \in Cache

(* However deployments of a BPMN process overlap, its queue and its start    *)
(* events are those of the one version that is committed last, so that a     *)
(* message, a signal or a timer never starts two versions of it.             *)
LastRules ==
  /\ \A d \in Committed : StartDefinitions(request[d]) # {} =>
       (d \notin suspended <=> d = last[request[d].bpmn])
  /\ \A b \in BpmnProcesses : last[b] # Null => parallelism[b] = request[last[b]].parallelism

(* The list of the cache and its two maps are of the same processes, each    *)
(* once, and no more than its capacity; a key leads to a process of that key.*)
CacheIsConsistent ==
  /\ ToSet(cache.list) = cache.processesById
  /\ Len(cache.list) = Cardinality(cache.processesById)
  /\ cache.expired \subseteq cache.processesById
  /\ Len(cache.list) <= Capacity
  /\ \A k \in Keys : LET d == cache.processes[k] IN
       d # Null => d \in cache.processesById /\ KeyOf(request[d]) = k

(* "must be unique across all not suspended event definitions" (process.go): *)
(* no message can start instances of two BPMN processes.                     *)
StartNamesAreUnique ==
  \A c, d \in Committed \ suspended :
    \A n \in StartDefinitions(request[c]), o \in StartDefinitions(request[d]) :
      n.kind = "MESSAGE" /\ o.kind = "MESSAGE" /\ n.name = o.name => c = d

Masks(c, name) ==
  \E d \in Committed : request[d].bpmn = request[c].bpmn
    /\ \E n \in MessageDefinitions(request[d]) :
         n.name = name /\ ElementOf(request[d], n).role # "START"

(* Under the mutex of the in-memory engine they are, unless the definition   *)
(* that is found is one of an event of the same BPMN process which waits for *)
(* messages of that name.                                                    *)
UniqueInMemory ==
  engine = "mem" =>
    \A c, d \in Committed \ suspended :
      \A n \in StartDefinitions(request[c]), o \in StartDefinitions(request[d]) :
        n.kind = "MESSAGE" /\ o.kind = "MESSAGE" /\ n.name = o.name /\ c < d =>
          Masks(d, n.name)

(* "CreateProcessInstance creates an instance of an existing BPMN process"   *)
(* (engine.go): no instance is of a process that has been rolled back.       *)
InstancesOfExisting == \A d \in instances : phase[d] # "GONE"

(* The timer of the version in force ticks on, whatever else is deployed.    *)
TimerTicks == \A d \in Committed \ suspended : IsCycle(request[d]) => d \in ticks
=============================================================================
