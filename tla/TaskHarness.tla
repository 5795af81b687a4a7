---------------------------- MODULE TaskHarness ----------------------------
(***************************************************************************)
(* run_canonical_task (workers/cloudlens_workers/tasks.py), the harness in *)
(* which every background task runs, with the task lock it takes           *)
(* (TaskConcurrencyLock, locking.py), the sync job rows it writes and, as  *)
(* the execution_fn, ingest_cost_task: fetch from the provider, then       *)
(* replace the period's partition in one transaction.                      *)
(*                                                                         *)
(* One connector and one capability, that is one lock key; the others who  *)
(* write the partition, with another lock or with none, are in             *)
(* CostPartition.  Each worker is a Celery process that executes one       *)
(* invocation after the other.  Every invocation draws a fresh lock token; *)
(* the token of the current invocation of worker w is written w, all older *)
(* tokens are written Stale.                                               *)
(***************************************************************************)
EXTENDS Naturals, FiniteSets

CONSTANTS
  Workers,      \* worker processes
  Keys,         \* idempotency keys
  TTL,          \* ttl_seconds of the task lock (300), in clock ticks
  TimeLimit,    \* task_time_limit of Celery (3600), in clock ticks
  MaxRetries,   \* max_retries of the schedule's master data record
  RetryCounts,  \* the values callers pass as retry_count
  MaxVersion,   \* bound: versions of the cost data the provider publishes
  MaxFaults,    \* bound: how many Redis calls may raise in one behaviour
  NoOne,        \* the lock key is absent
  Stale         \* the lock key holds the token of an invocation that ended

ASSUME HarnessAssumption ==
  /\ IsFiniteSet(Workers)
  /\ TTL \in Nat \ {0}
  /\ TimeLimit \in Nat \ {0}
  /\ MaxRetries \in Nat
  /\ RetryCounts \subseteq Nat
  /\ MaxVersion \in Nat \ {0}
  /\ MaxFaults \in Nat
  /\ NoOne \notin Workers
  /\ Stale \notin Workers
  /\ NoOne # Stale

VARIABLES
  lock,         \* the token under the lock key in Redis
  ttl,          \* ticks until Redis drops the lock key
  local,        \* the entry of each process's _in_memory_locks
  client,       \* workers whose current lock object has a Redis client
  pc,           \* where each worker is in run_canonical_task
  key,          \* effective idempotency key of the invocation
  retry,        \* retry_count of the invocation
  age,          \* ticks since the invocation began
  rows,         \* per key, the statuses of the job rows no live invocation owns
  published,    \* version of the cost data the provider serves
  fetched,      \* version the invocation has fetched
  partition,    \* version stored in the period's partition
  late,         \* versions whose replacement timed out and may still commit
  quarantine,   \* keys of the jobs that have a quarantine record
  faults,       \* Redis calls that have raised so far
  overran       \* history: invocations that outlived their lock, and those beside them

lockVars == <<lock, ttl, local, client, faults>>
runVars == <<retry, age, fetched>>
dataVars == <<published, partition, late>>
jobVars == <<rows, quarantine>>
vars == <<lockVars, pc, key, runVars, dataVars, jobVars, overran>>

\* The locations between lock.acquire() and the end of lock.release().
Inside == {"lookup", "create", "execute", "replace", "complete", "failed",
           "overtaken", "penalise", "release"}

\* The locations at which the invocation owns a job row in status RUNNING.
Running == {"execute", "replace", "complete", "failed", "overtaken"}

Statuses == {"RUNNING", "COMPLETED", "FAILED"}

TypeOK ==
  /\ lock \in Workers \cup {NoOne, Stale}
  /\ ttl \in 0..TTL
  /\ local \in [Workers -> {"none", "own", "old"}]
  /\ client \subseteq Workers
  /\ pc \in [Workers -> Inside \cup {"idle", "acquire"}]
  /\ key \in [Workers -> Keys]
  /\ retry \in [Workers -> Nat]
  /\ age \in [Workers -> 0..TimeLimit]
  /\ rows \in [Keys -> SUBSET Statuses]
  /\ published \in 1..MaxVersion
  /\ fetched \in [Workers -> 0..MaxVersion]
  /\ partition \in 0..MaxVersion
  /\ late \subseteq 0..MaxVersion
  /\ quarantine \subseteq Keys
  /\ faults \in Nat
  /\ overran \subseteq Workers

Init ==
  /\ lock = NoOne /\ ttl = 0
  /\ local = [w \in Workers |-> "none"]
  /\ client = {}
  /\ pc = [w \in Workers |-> "idle"]
  /\ key \in [Workers -> Keys]
  /\ retry = [w \in Workers |-> 0]
  /\ age = [w \in Workers |-> 0]
  /\ rows = [k \in Keys |-> {}]
  /\ published = 1
  /\ fetched = [w \in Workers |-> 0]
  /\ partition = 0 /\ late = {}
  /\ quarantine = {}
  /\ faults = 0
  /\ overran = {}

\* The invocation goes on at location l.
GoTo(w, l) == pc' = [pc EXCEPT ![w] = l] /\ UNCHANGED <<retry, age, fetched>>

\* The invocation is over and its local variables are gone.
End(w) ==
  /\ pc' = [pc EXCEPT ![w] = "idle"]
  /\ retry' = [retry EXCEPT ![w] = 0]
  /\ age' = [age EXCEPT ![w] = 0]
  /\ fetched' = [fetched EXCEPT ![w] = 0]

\* A Redis call raises.
Fault == faults < MaxFaults /\ faults' = faults + 1

-----------------------------------------------------------------------------
(* The invocation begins: its arguments, its token and its Redis client,   *)
(* which is None when the ping of get_redis_client fails.                  *)

Begin(w) ==
  /\ pc[w] = "idle"
  /\ pc' = [pc EXCEPT ![w] = "acquire"]
  /\ \E k \in Keys : key' = [key EXCEPT ![w] = k]
  /\ \E r \in RetryCounts : retry' = [retry EXCEPT ![w] = r]
  /\ \/ client' = client \cup {w} /\ UNCHANGED faults
     \/ client' = client \ {w} /\ Fault
  /\ lock' = IF lock = w THEN Stale ELSE lock
  /\ local' = [local EXCEPT ![w] = IF @ = "own" THEN "old" ELSE @]
  /\ UNCHANGED <<ttl, age, fetched, dataVars, jobVars>>

-----------------------------------------------------------------------------
(* TaskConcurrencyLock.acquire.                                            *)

\* Mutants of SetLock: NX is forgotten; the expiry is too short or missing.
SetLockAlways(w) == lock' = w /\ ttl' = TTL
SetLockShort(w) == lock = NoOne /\ lock' = w /\ ttl' = 1
SetLockForever(w) == lock = NoOne /\ lock' = w /\ ttl' = 0

\* SET NX EX that takes effect.
SetLock(w) == lock = NoOne /\ lock' = w /\ ttl' = TTL

Acquire(w) ==
  /\ pc[w] = "acquire" /\ w \in client
  /\ SetLock(w)
  /\ GoTo(w, "lookup")
  /\ UNCHANGED <<local, client, faults, key, dataVars, jobVars>>

\* LOCK_HELD: the invocation is skipped.
Refused(w) ==
  /\ pc[w] = "acquire" /\ w \in client
  /\ lock # NoOne
  /\ End(w)
  /\ UNCHANGED <<lockVars, key, dataVars, jobVars>>

\* The process-local fallback grants the lock unless an entry is left there.
AcquireLocal(w) ==
  \/ local[w] = "none" /\ local' = [local EXCEPT ![w] = "own"] /\ GoTo(w, "lookup")
  \/ local[w] # "none" /\ UNCHANGED local /\ End(w)

AcquireWithoutRedis(w) ==
  /\ pc[w] = "acquire"
  /\ \/ w \notin client /\ UNCHANGED <<lock, ttl, faults>>
     \/ w \in client /\ Fault /\ (SetLock(w) \/ UNCHANGED <<lock, ttl>>)
  /\ AcquireLocal(w)
  /\ UNCHANGED <<client, key, dataVars, jobVars>>

-----------------------------------------------------------------------------
(* Idempotency check and job creation.  They run after the lock is taken   *)
(* and before the try block: an exception leaves without lock.release().   *)

\* get_by_idempotency_key is a SELECT with LIMIT 1 and no ORDER BY: it answers
\* with any one of the rows of the key.
Matches(k) ==
  rows[k] \cup {s \in {"RUNNING"} : \E v \in Workers : pc[v] \in Running /\ key[v] = k}

Lookup(w) ==
  /\ pc[w] = "lookup"
  /\ \/ "COMPLETED" \in Matches(key[w]) /\ GoTo(w, "release")
     \/ Matches(key[w]) # {"COMPLETED"} /\ GoTo(w, "create")
     \/ End(w)
  /\ UNCHANGED <<lockVars, key, dataVars, jobVars>>

AddRow(k, s) == rows' = [rows EXCEPT ![k] = @ \cup {s}]

\* The save of the RUNNING row; it may raise before or after the commit.
Create(w) ==
  /\ pc[w] = "create"
  /\ \/ GoTo(w, "execute") /\ UNCHANGED rows
     \/ End(w) /\ (UNCHANGED rows \/ AddRow(key[w], "RUNNING"))
  /\ UNCHANGED <<lockVars, key, dataVars, quarantine>>

-----------------------------------------------------------------------------
(* execution_fn = ingest_cost_task._run.                                   *)

\* The fetch: items, none (the task returns 0), or an exception.
Fetch(w) ==
  /\ pc[w] = "execute"
  /\ \/ /\ pc' = [pc EXCEPT ![w] = "replace"]
        /\ fetched' = [fetched EXCEPT ![w] = published]
        /\ UNCHANGED <<retry, age>>
     \/ GoTo(w, "complete")
     \/ GoTo(w, "failed")
  /\ UNCHANGED <<lockVars, key, dataVars, jobVars>>

\* Landing and replace_partition_atomic: the transaction commits, or rolls back,
\* or run_async stops waiting for it after its timeout.  In the last case nobody
\* cancels the coroutine: the transaction may commit at any later time.
Replace(w) ==
  /\ pc[w] = "replace"
  /\ \/ GoTo(w, "complete") /\ partition' = fetched[w] /\ UNCHANGED late
     \/ GoTo(w, "failed") /\ UNCHANGED <<partition, late>>
     \/ GoTo(w, "failed") /\ late' = late \cup {fetched[w]} /\ UNCHANGED partition
  /\ UNCHANGED <<lockVars, key, published, jobVars>>

\* A replacement its invocation no longer waits for commits, or dies.
LateCommit(v) ==
  /\ v \in late
  /\ late' = late \ {v}
  /\ partition' \in {v, partition}
  /\ UNCHANGED <<lockVars, pc, key, runVars, published, jobVars>>

-----------------------------------------------------------------------------
(* The two outcomes.                                                       *)

\* The save of the COMPLETED row.  When it times out it may still commit, after
\* the save of the FAILED row that follows.
Complete(w) ==
  /\ pc[w] = "complete"
  /\ \/ GoTo(w, "release") /\ AddRow(key[w], "COMPLETED")
     \/ GoTo(w, "failed") /\ UNCHANGED rows
     \/ GoTo(w, "overtaken") /\ UNCHANGED rows
  /\ UNCHANGED <<lockVars, key, dataVars, quarantine>>

\* What the job row says in the end: FAILED, or COMPLETED when the earlier save
\* commits last.
LastWord(w) == {"FAILED"} \cup {s \in {"COMPLETED"} : pc[w] = "overtaken"}

\* The save of the FAILED row; when it raises, the row may stay RUNNING.
Failed(w) ==
  /\ pc[w] \in {"failed", "overtaken"}
  /\ \/ GoTo(w, "penalise") /\ \E s \in LastWord(w) : AddRow(key[w], s)
     \/ GoTo(w, "release") /\ \E s \in LastWord(w) \cup {"RUNNING"} : AddRow(key[w], s)
  /\ UNCHANGED <<lockVars, key, dataVars, quarantine>>

\* The save of the quarantine record; it may raise before or after the commit.
SaveQuarantine(k) == quarantine' \in {quarantine, quarantine \cup {k}}

\* Retries left: the exception is raised again.  None left: quarantine.
Penalise(w) ==
  /\ pc[w] = "penalise"
  /\ GoTo(w, "release")
  /\ \/ retry[w] < MaxRetries /\ UNCHANGED quarantine
     \/ retry[w] >= MaxRetries /\ SaveQuarantine(key[w])
  /\ UNCHANGED <<lockVars, key, dataVars, rows>>

-----------------------------------------------------------------------------
(* TaskConcurrencyLock.release.                                            *)

\* Mutant of Unlock: del without the comparison of the token.
UnlockAny(w) == lock' = NoOne /\ ttl' = 0

\* The Lua compare-and-delete.
Unlock(w) ==
  IF lock = w THEN lock' = NoOne /\ ttl' = 0 ELSE UNCHANGED <<lock, ttl>>

UnlockLocal(w) == local' = [local EXCEPT ![w] = IF @ = "own" THEN "none" ELSE @]

\* A release that reaches Redis returns before it looks at the local entry.
Release(w) ==
  /\ pc[w] = "release"
  /\ \/ w \in client /\ Unlock(w) /\ UNCHANGED <<local, faults>>
     \/ /\ w \in client /\ Fault
        /\ Unlock(w) \/ UNCHANGED <<lock, ttl>>
        /\ UnlockLocal(w)
     \/ w \notin client /\ UnlockLocal(w) /\ UNCHANGED <<lock, ttl, faults>>
  /\ End(w)
  /\ UNCHANGED <<client, key, dataVars, jobVars>>

-----------------------------------------------------------------------------
(* The environment.                                                        *)

\* The process dies, or Celery kills it at task_time_limit: no finally block
\* runs, the memory is lost, a RUNNING row is left behind.
Kill(w) ==
  /\ pc[w] # "idle"
  /\ End(w)
  /\ local' = [local EXCEPT ![w] = "none"]
  /\ IF pc[w] \in Running THEN AddRow(key[w], "RUNNING") ELSE UNCHANGED rows
  /\ UNCHANGED <<lock, ttl, client, faults, key, dataVars, quarantine>>

\* One tick; an invocation never outlives task_time_limit.
Tick ==
  /\ \A w \in Workers : pc[w] # "idle" => age[w] < TimeLimit
  /\ age' = [w \in Workers |-> IF pc[w] = "idle" THEN age[w] ELSE age[w] + 1]
  /\ ttl' = IF ttl > 0 THEN ttl - 1 ELSE 0
  /\ lock' = IF ttl = 1 THEN NoOne ELSE lock
  /\ UNCHANGED <<local, client, faults, pc, key, retry, fetched, dataVars, jobVars>>

\* An entry of _in_memory_locks passes its expiry.
LocalExpires(w) ==
  /\ local[w] # "none"
  /\ local' = [local EXCEPT ![w] = "none"]
  /\ UNCHANGED <<lock, ttl, client, faults, pc, key, runVars, dataVars, jobVars>>

Publish ==
  /\ published < MaxVersion
  /\ published' = published + 1
  /\ UNCHANGED <<lockVars, pc, key, runVars, partition, late, jobVars>>

-----------------------------------------------------------------------------
Step(w) ==
  \/ Acquire(w) \/ Refused(w) \/ AcquireWithoutRedis(w)
  \/ Lookup(w) \/ Create(w) \/ Fetch(w) \/ Replace(w)
  \/ Complete(w) \/ Failed(w) \/ Penalise(w) \/ Release(w)

\* An invocation is remembered, until it leaves, from the moment one that is TTL
\* ticks old is between acquire() and release() with it, or is itself that old.
Watch ==
  overran' = {w \in Workers :
                /\ pc'[w] \in Inside
                /\ \/ w \in overran
                   \/ \E v \in Workers : pc'[v] \in Inside /\ age'[v] >= TTL}

Next ==
  /\ \/ \E w \in Workers : Begin(w) \/ Step(w) \/ Kill(w) \/ LocalExpires(w)
     \/ \E v \in 0..MaxVersion : LateCommit(v)
     \/ Tick
     \/ Publish
  /\ Watch

Spec == Init /\ [][Next]_vars

\* A worker goes on with the invocation it has begun, and time goes on.
Moves(w) == pc[w] # "idle" /\ \E l \in Inside \cup {"idle"} : pc' = [pc EXCEPT ![w] = l]

FairSpec ==
  /\ Spec
  /\ WF_<<ttl, age>>(Tick)
  /\ \A w \in Workers : WF_pc(Moves(w))

-----------------------------------------------------------------------------
\* The exclusion the task lock is there for: as long as Redis answers, two
\* invocations are between acquire() and release() at once only if one of them is
\* older than the lock's ttl_seconds, even after kills and after exceptions that
\* leak the lock.  With task_time_limit below ttl_seconds they never are.
OverlapMeansOverrun ==
  faults = 0 => \A v, w \in Workers :
                  (pc[v] \in Inside /\ pc[w] \in Inside /\ v # w) =>
                    (age[v] >= TTL \/ age[w] >= TTL)

\* What the lock gives the data, although ttl_seconds (300) is far below
\* task_time_limit (3600): as long as Redis answers, an invocation puts older cost
\* data in the place of newer only if it outlived its lock or ran beside one that
\* had; otherwise only a replacement that had timed out does.  Between the fetch and
\* replace_partition_atomic nobody else gets in.
RegressMeansOverrun ==
  [][(faults = 0 /\ partition' < partition) =>
       \/ partition' \in late \ late'
       \/ \E w \in overran : pc[w] = "replace" /\ pc'[w] = "complete"]_vars

\* release() never removes the lock of an invocation other than its own: a lock
\* that is held disappears by expiry (a tick) or at the hands of its holder.
ReleaseOnlyOwnLock ==
  [][\A w \in Workers :
       (lock = w /\ pc[w] \in Inside /\ lock' # w) =>
         (pc'[w] = "idle" \/ (ttl = 1 /\ age'[w] = age[w] + 1))]_vars

\* Whatever happens to its holder, the lock does not stay taken forever: a leaked
\* lock (an exception before the try block, a killed worker) delays the task, it
\* does not stop it.
LockIsFreed == (lock # NoOne) ~> (lock = NoOne)

=============================================================================
