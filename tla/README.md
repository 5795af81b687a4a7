# CloudLens: TLA+ models, model checking and proofs

CloudLens collects cost, inventory and usage data from cloud providers on a
schedule, stores it per tenant, and runs governance processes (alerts, workflows,
remediation, resource lifecycle, statements) on top of it.  This directory models
the parts of the back end whose correctness depends on the order of steps of
several processes, on leases, on failures between two steps and on state that is
read in one step and used in a later one.  `PROJECT.json` maps every definition to
the lines it models and lists the hazards the properties are aimed at.

## Inventory

| Component | State | Operations | Interacts with | What is hard | What makes it correct |
|---|---|---|---|---|---|
| Beat leader election (`workers/cloudlens_workers/locking.py`, `scheduler.py`) | Redis key with TTL, `_is_leader` per process, in-memory fallback | `acquire_or_renew`, `release`, `tick` | Redis, Celery | leases that run out, lost replies, crashes | one leader while leases hold, a lost leader is replaced, nobody frees another's key |
| Task harness (`tasks.py`, `locking.py`) | task lock, job rows, quarantine | `run_canonical_task` | Redis, job table, tasks | lock shorter than a run, exceptions before `try`, late commits | overlap and regress of data only after an overrun, locks become free |
| Capability execution (`connectors/contract/executor.py`, `circuit_breaker.py`, `adaptive_concurrency.py`, `quota_tracker.py`, `lifecycle.py`) | breakers, slots and limit, quota, health records, connector state | `execute_capability` and the reports to the lifecycle manager | adapters, operators | permissions checked before awaits and used after | slots balance, late results change nothing they must not, every call ends |
| Connector row (`routes/connectors.py`, `lifecycle.py`, `domain/connectors/repository.py`) | the row, one cache per API process | register, transition, toggle, delete, rotate, PATCH, reports of tasks | API replicas, workers | stale caches, read-modify-write of whole rows | legal transitions, deletions and rotations that last |
| Cost partition replacement (`domain/cost/repository.py`, `ingest_cost_task`) | `cost_fact`, two aggregate tables, restatement records | `replace_partition_atomic_async` | task harness, API pipeline, PostgreSQL | READ COMMITTED snapshots, row locks, tenant-wide statements, nothing that keeps replacements apart | nothing of earlier replacements is left, aggregates match lines, replacements end |
| Paginated collection (`executor.py`, `checkpoint_store.py`, `raw_landing.py`) | checkpoint row, immutable objects, `raw_landings` | fetch, land, record, save, resume | object store, PostgreSQL | death between two saves, swallowed errors, changing data | nothing skipped, nothing counted twice, checkpoints go forward, a repeated call is not refused |
| Sync orchestrator (`connectors/sync/orchestrator.py`) | job row, per-scope results | `execute_sync` | adapters, audit | idempotency check, then run | one run per key, status agrees with the scopes |
| Schedules (`scheduler.py`, `connectors/sync/scheduler.py`) | `connector_schedules`, Beat's dictionary | load, refresh, dispatch | Beat leader | entries are merged, never removed | a disabled schedule stops |
| Audit stream (`domain/audit/`) | rows chained by the hash of a predecessor, one lock per process | `append_event`, `verify_stream_integrity` | everybody | per-process lock around read and append, timestamps drawn before it, inserts that are given up | every fork has a known cause, the lock is given back |
| Approval workflows (`domain/workflows/`) | the request row with stages and decisions | submit, decide, withdraw, expire, escalate, apply | appliers, audit | the change is applied before the row is saved; rows are saved whole | no change of the workflow without the approvals of every stage, made once |
| Remediation (`domain/remediation/`) | the task row, the savings ledger | create, transition, assign, resolve, verify, defer, accept, close | verifier, ledger, audit | ledger and row are two commits; rows are saved whole | every closure credited, every credit retested |
| Alerting (`domain/alerting/`) | alert rows with fingerprints | raise, acknowledge, resolve, clear, escalation and auto-resolution, scheduled and on request | task harness, Beat | look up, then insert; lists evaluated and saved later | one open alert, nothing acknowledged forgotten, escalation in the end |
| Resource lifecycle (`domain/lifecycle/`) | resources with states | decommission, retain, archive | audit | - | no removal before its retention ends |
| Adapters, cost semantics, master data, RBAC, UI | data | requests, computations, presentation | - | - | single-step conversions |

Components interact in one direction most of the time: Beat dispatches tasks, the
harness runs one per lock, a task calls its adapter and replaces partitions; the API
and the workers meet in PostgreSQL rows, and the processes of one kind meet in Redis
keys.  Two modelled parts have no caller in production: the execution engine
(`execute_capability` and its pagination; the conformance kit and the tests call it, the
tasks call adapters directly) and `BeatLeaderLock.release`.  What is shown of them holds
for whoever comes to call them.

## Modules and the code

| Module | Models |
|---|---|
| `BeatLeader` | `BeatLeaderLock` command by command within `DatabaseBeatScheduler.tick`: `SetNX`, `SetXX`, the fallback, `Release`, expiry, crash and restart under a new instance id |
| `TaskHarness` | `run_canonical_task` from `acquire` to `release` with `ingest_cost_task` as its function. A worker is one invocation after the other; an exception between `acquire` and `try` leaves without `release`; a timed-out database call may commit later. `overran` remembers who outlived the lock or ran beside one that had |
| `CircuitBreaker`, `AdaptiveConcurrency`, `ConnectorLifecycle` | the breaker, the AIMD controller and the transition map as operators on records |
| `CapabilityExecutor` | composes the three: concurrent coroutines, one action between two awaits, with quota, operator and health records; a landing whose exception is taken for throttling after its success was reported, and cancellation |
| `ConnectorState` | the row with the routes of several API processes, each with its cache, and the reports of tasks; every database call is a step, and one that raised may commit later, over the writes made meanwhile |
| `CostPartition` | any number of replacements of one period at once, each statement a step: a `DELETE` first finds committed rows and then waits for their locks and follows their new versions, `INSERT ... ON CONFLICT DO UPDATE` rewrites the rows it meets, `INSERT ... SELECT` first reads and then waits |
| `PaginatedSync` | one job over several pages with the checkpoint, the objects and the landing rows |
| `AuditStream` | `append_event` step by step in the threads of several processes: timestamp, lock, read of the last event, insert; and `verify_stream_integrity` over the listing |
| `ApprovalContract` | abstract: approvals are given, and the change takes effect once all stages have theirs |
| `Workflow` | `WorkflowService` on one request: submission, decision, withdrawal, expiry, escalation, application and save as steps of concurrent callers, for a type with an applier or without one; implements `ApprovalContract` |
| `Remediation` | `RemediationService` on one task, with the ledger entry and the save of the row as two commits |
| `Alerting` | `AlertEngine` on the alerts of one fingerprint, among others that share the list of the newest; the two scheduled evaluations are actors of their own, and callers run them too |

The last four share the way the services store things: an operation loads a row,
works on its copy and saves all of it by an upsert that compares no version.  A copy
therefore remembers the write it was loaded at (`ver`, `base`), and a ghost (`alone`,
`orderly`) records whether operations have overlapped or failed so far, which tells
what the code guarantees always from what it guarantees to undisturbed operations.
A property guarded by such a ghost, or by a version, states what is promised outside
the race of the hazard it is listed under, or who the race needs; it does not promise
that the race is harmless.
`run_async` (`db/session.py:334`) gives a call up after ten seconds without
cancelling it: failed writes may come later (`lateSaves`, `late`, abandoned inserts;
in `CostPartition` a replacement given up is one more that overlaps).

The `MC` modules add symmetry sets and the values of constants that are functions.
Modules ending in `Proofs` hold the theorems.  Operators whose comment begins with
"Mutant of" state a plausible mistake in the operator after them; each property is known
to fail when its mutant takes that operator's place.

Abstractions that matter:

- A tenant is fixed; a connector, a page or a token is an atom or a number.
- A charge line is its id and cost; ids are unique within a dataset, and the days of
  its charges lie in its period.  A statement takes the locks of all its rows at once:
  two that lock the same rows in different orders can deadlock, and PostgreSQL breaks
  that by aborting one, which is `Abort`.  Statements as wholes form no ring of waits,
  so that `ReplacementEnds` assumes nothing of `Abort`.  Whoever replaces the period
  (connector, repeated task, API pipeline) does the same: the `DELETE` has no connector
  in its condition.
- `TaskHarness` keeps the set of statuses of a key's rows: the lookup has no order.
- The token bucket is a wait that ends in a token or an exception.
- Hashes of the audit chain are positions of events; a stage of a request is the
  number of its approvals; what the remediation verifier finds is arbitrary; alert
  ages and dwell times are sets of alerts that time adds to.
- Swallowed database errors are steps with both outcomes, committed or not
  (`REQUIRE_REALDB`, which would raise instead, is set in CI only).

## Runs

| Run | Instance | Shows |
|---|---|---|
| `beat_leader` | 2 instances, lease of 2 ticks, 2 crashes, 1 failed call | `LeaseElectsOne`, `KeyNamesALeader`, `OnlyHolderFreesKey`, `TakeOver` |
| `task_exclusion` | 2 workers, lock of 2 ticks, time limit of 3 (a lock shorter than the limit, as deployed), 2 versions of the data | `OverlapMeansOverrun`, `RegressMeansOverrun` |
| `task_lock` | 2 workers, lock of 1 tick, limit of 2, 1 retry, 1 failed Redis call | `ReleaseOnlyOwnLock`, `LockIsFreed` |
| `executor_calls` | 2 calls, 2 capabilities, one of them foundational, failure threshold 2 | `TypeOK`, `SlotsMatchCalls`, `ClosedBelowThreshold`, `LateSuccessKeepsOpen`, `LateResultsRespectOperator`, `CallsEnd` |
| `connector_state` | 1 API process, 1 task, 2 failed calls that may come late, restarts | `SoleWriterIsLegal`, `DeletionIsRemembered` |
| `cost_replace` | 3 replacements, 4 lines in 2 groups, 2 costs | `NoLeftovers`, `AloneHeals`, `ReplacementEnds` |
| `paged_resume` | 3 pages, 2 versions, 2 deaths, 1 database error, 1 failed fetch | `CheckpointIsBacked`, `RecordsCountedOnce`, `DuplicatesNeedCrash`, `RefusalNeedsCrash`, `CheckpointAdvances` |
| `audit_stream` | 3 threads in 2 processes | `LockSerialises`, `ForkIsExplained`, `StreamUnblocks` |
| `audit_verifier` (violated) | the same module | two untampered events do not verify |
| `workflow_approval` | 3 callers, a serial stage and one with a quorum of 2, 5 operations, types with and without an applier | `AppliedIsBacked`, `RepeatsTakeVotes`, `AloneIsExact`, `ClosedIsFinal`, `HonoursContract` (the refinement) |
| `remediation_ledger` | 2 threads, 4 operations | `EveryClosureCredited`, `EveryCreditRetested`, `AloneIsExact`, `OnlyStaleUndoes` |
| `alert_lifecycle` | 2 processes and the 2 scheduled tasks, 3 rows, a list of 2, 3 operations, 1 escalation, 1 failed save | `OneOpenAlert`, `QuietWhenResolved`, `OnlyStaleForgets`, `ListedIsEscalated` |

The type invariants of the modules other than `CapabilityExecutor`, and
`LandingsImmutable` (no step changes a landed object), are established by their theorems.

Bounds.  Two actors of a kind are enough for every interference the code can meet at a
single key or row (the theorems below cover any number for the safety properties they
state).  `connector_state` has one API process, whose two given-up writes and whose task
already overwrite each other; a second one is past what TLC finishes in minutes, and
`SoleWriter` and `Remembered` cover it.  `task_exclusion` has no failed Redis call,
since both its properties speak of Redis that answers.  Three replacements are two that
overlap and one that finds what they left.  Three alerts and a list of two push one
alert out of the list.  A lease of two ticks tells "just renewed" from "about to
expire"; three pages have a first, a middle and a last one; two versions or totals tell
"changed" from "unchanged".  Counters of faults, kills, crashes, versions and runs are
bounded by constants named in the guards; the bounds are large enough for a fault at any
one step together with kills.  Five operations let a request be submitted, pass both
stages and meet one more operation; four let a task be created, resolved, retested and
touched by somebody else; three let an alert be raised, cleared and raised again beside
the unbounded evaluations.  Deadlock is not checked where the bounded number of
operations or events, or a job that has returned, ends the behaviour.

Fairness.  `WF` is assumed of steps that a live process takes by itself: the next
statement of an invocation, of a coroutine or of a transaction, the tick of the clock
(Redis expires keys), the periodic tick of a running Beat.  `CallsEnd` relies on the
timeouts of the waits and on the provider answering at some time, `StreamUnblocks` on
the ten seconds of `run_async`, `ReplacementEnds` on statements that go on once no lock
holds them up.  Fairness of an invocation or a coroutine is stated as its leaving the
place it is at (`Moves`).  `ListedIsEscalated` assumes that `escalate_alerts` is
run again and again (which `TakeOver` and `LockIsFreed` support), that saves that
have begun go on and that failures are finitely many.  That is the code's fairness for
the default tenant only: the schedule's record names no tenant, and the scheduler puts
the default one in (`scheduler.py:94`).  Nothing under the repository repeats a
collection job with its job id, so `PaginatedSync` has no fairness and no liveness:
what a repeated call would find is stated as safety.  Nothing is assumed of crashes,
faults, operators, callers or providers' changes.

## Theorems

All theorems are about `Spec` and hold for every value of the constants that
satisfies the named assumptions (sets of actors, positive lifetimes, bounds in
`Nat`).  The argument is an inductive invariant in each case:

- `BeatLeaderProofs`: `TypeOK`, the shape of the key (absent exactly when its time is
  0), and the two election properties together: who leads without a failed call is
  named by the key or has lapsed.  Gives `TypeCorrect`, `ElectsOne`, `KeyLeader`,
  `HolderFreesKey`.
- `WorkerProofs`, task harness: `TypeOK`, `Shape` (where data exist), `Held` (without
  failed calls an invocation younger than the lock holds it, with `age + ttl`
  accounting for the whole lifetime), `Watched` (whoever is that old, or beside one,
  is in `overran`), `Fresh` (what an invocation outside `overran` has fetched is not
  older than the partition).  No relation between the lock's lifetime and the time limit
  is assumed.  Gives `TypeCorrect`, `Exclusive`, `NoRegress`,
  `OwnLockOnly`.
- `WorkerProofs`, cost partition: a transaction that has passed its `DELETE` has in
  `gone` every row of those that had committed before the `DELETE` began, also the
  versions others wrote of such a row meanwhile (`Sweeps`); a transaction that nobody has
  overlapped has deleted every row that is committed and will leave its own lines and
  their sums alone (`Healing`).  Gives `CostTypeCorrect`, `NoneLeft`, `Heals`.
- `ExecutorProofs`, capabilities: `SlotsMatchCalls` by cardinality of the set of calls
  in a slot, and soundness of each breaker record; two lemmas say what an outcome does
  to the lifecycle state (`FailureLife`, `SuccessLife`).  Gives `TypeCorrect`,
  `SlotsBalance`, `ClosedBelow`, `LateSuccess`, `RespectsOperator`.
- `ExecutorProofs`, collection over pages: `Behind` (a call at some page has landed and
  counted all pages before it) and `Front` (while the database answers, the call is at
  the page after the checkpoint and the pages from there on were recorded for dead
  workers only), `Fresh` (before the first such death nothing is landed from there on
  but the page the call is recording).  Gives `PagedTypeCorrect`, `Backed`, `CountedOnce`,
  `Duplicates`, `Advances`, `Refusals`, `Immutable`.
- `ConnectorStateProofs`: while one process is the only writer, its cache and what it
  holds agree with the row (`Coherent`), and processes that wrote nothing hold nothing
  that was written (`Blank`); a request about to write holds the state its manager has
  cached (`Agreed`), whoever else writes and whatever comes late.  Gives `TypeCorrect`,
  `SoleWriter`, `Remembered`.
- `AuditStreamProofs`: besides the types, every row names an earlier one, whoever
  reads or saves holds the lock of its process, and a reader has seen every row its
  process has committed.  Gives `TypeCorrect`, `Serialised`, `ForksExplained`.
- `WorkflowProofs`: what a copy shows as approved has been cast (`n <= cast`), a copy
  or late save that is past a stage had the stage complete, and undisturbed callers
  have copies of the current row.  The change is counted together with the attempts
  under way or given up, each of which has an approval of the last stage of its own
  (`PaidInv`).  Gives `TypeCorrect`, `Backed`, `RepeatsPaid`, `ExactAlone`, `Closed`,
  and `Honours`: `Workflow` implements `ApprovalContract` for any number of
  callers, stages and quorums, with late and failed writes.
- `RemediationProofs`: the counts alone are not inductive, since an entry or a closure
  may be about to be written or still be on its way.  `Credited` and `Retested` count
  those too, by the cardinality of the callers that are about to credit or to close
  and of the late closing copies: `closures` with the closures under way never exceeds
  the ledger, and the ledger with the credits under way never exceeds the cleared
  retests.  `Exact` says where the counts stand at each step of an undisturbed
  operation; `Guarded` says that no copy is newer than the row and that a copy of the
  row as it is undoes a terminal state only if its operation may.  Gives `TypeCorrect`,
  `ClosuresCredited`, `CreditsRetested`, `ExactAlone`, `StaleUndoes`.
- `AlertingProofs`: ids are given out in order and nothing exists for one before that
  (`Numbered`); a copy is not newer than its row, and one of the row as it is takes
  nothing back (`AllLoaded`).  As long as the operations were orderly, one actor at
  most has something to save (`Single`), the alerts that are open or about to be saved
  as open are one (`OneOpen`), and a reported alert that is still stored as clear has a
  copy under way that resets it (`Quiet`).  Gives `TypeCorrect`, `Deduplicated`,
  `ResolvedQuietly`, `StaleForgets`.

`WorkerProofs` and `ExecutorProofs` extend two components each, whose specifications
they do not connect: `Spec` is that of the first, `CostSpec` and `PagedSpec` are those of
`CostPartition` and `PaginatedSync`.

Every invariant and every action property of the runs that pass has its theorem.  Only
model-checked is liveness (`TakeOver`, `LockIsFreed`, `CallsEnd`, `ReplacementEnds`,
`StreamUnblocks`, `ListedIsEscalated`), which rests on fairness and is
out of the prover's reach.

## Disagreements between the code and what it says of itself

`audit_verifier`: `verify_stream_integrity` walks the listing, newest event first, and
expects the first one to have no predecessor: it returns False for every stream of
two events or more.  The tests use a repository that lists oldest first.

Further observations that no run of their own states.  Election, tasks, connectors,
cost and collection:

- `SET XX` renews whatever the key holds.  A leader whose tick came after the lease
  and the instance that took over renew each other's key: both dispatch until one
  process ends ("standby instances do not dispatch tasks", `scheduler.py:6-7`).
  `LeaseElectsOne` has the exact condition.
- The lock lasts 300 s and is not renewed, a task may take 3600 s: "One active task
  execution per connector + capability" (`locking.py:4`) holds up to an overrun
  (`OverlapMeansOverrun`), and older cost data may then take the place of newer
  (`RegressMeansOverrun`).
- A success that lands while its breaker is OPEN stores a healthy record with an open
  circuit (`lifecycle.py:375`); no later success rechecks it, and the connector stays
  DEGRADED with every capability well.
- The reports of tasks bypass the transition map (`tasks.py:223`): a deleted
  connector becomes ACTIVE again.  `SoleWriterIsLegal` holds while no task has
  reported.
- Totals, deletion and restatement are per tenant, the ingestion is per connector
  (`domain/cost/repository.py:527`): two connectors replace each other's charge lines
  and raise restatements for each other's totals, also for identical data ("Identical
  re-ingest -> NO restatement raised",
  `tests/integration/test_p06_reingest_sql_totals.py:127`).
- `tasks.py:145`: an exception of the job lookup or of the first save leaks the lock
  for its lifetime (`LockIsFreed` shows that this is all).
- The lookup by idempotency key returns any row of the key: after one failed and one
  completed job the completed one may be run again.  `retry_count` is never
  incremented, so the quarantine branch is reached by no scheduled invocation.  A lock
  taken in memory is released through Redis (`locking.py:104`): its entry refuses later
  fallbacks of that process until it expires.
- Beat's `update_from_dict` (`scheduler.py:187`) adds and changes entries and never
  removes one: a disabled schedule stays in the running process.
- The executor and the lifecycle manager both report one success to the breaker: one
  probe counts twice towards `success_threshold`, and closes a breaker that is to see
  two ("Consecutive successful probes required to reset circuit breaker to CLOSED",
  `domain/config/tenant_settings.py:109`).  A landing that fails after that with "429" or
  "Throttl" in its text is retried as throttling (`executor.py:185-205`), and the
  repeated call reports once more.  Calls admitted before the breaker
  tripped go on sending requests.  Retries are not counted in the quota.
- `rotate-credential`, PATCH and the freshness update save whole rows: a rotation
  between their read and their save is lost.  If-Match is compared with a row read
  before the save (`routes/connectors.py:887`): two updates with one ETag both pass.
  An UPDATE that `run_async` gave up on may commit after the same process has deleted
  the connector, and take the row out of DELETED.
- Nothing keeps two replacements of a period apart: the task lock may have run out, a
  replacement that was given up goes on, another connector has another lock, and the
  route's pipeline takes none (`domain/cost/pipeline.py:117`).  Two that overlap each
  delete what was committed before and leave the lines of both, with an aggregate that
  may be older than the lines beneath it, against "no duplication"
  (`domain/cost/repository.py:9`).  `NoLeftovers` has the exact condition, and the next
  replacement that runs alone heals it (`AloneHeals`).  The period of a dataset is that
  of its first fact (`tasks.py:515`): lines of another period are inserted and never
  replaced.
- A page that was landed, lost its checkpoint and has changed since can never be landed
  again: "Guaranteed resumption" (`checkpoint_store.py:8`) holds except then
  (`RefusalNeedsCrash`), and no code repeats an interrupted job with its id.
  `raw_landings` gets a second row for a page after a death, although records are
  counted once.  A resumed call returns the items of the pages it fetched itself.

Audit, workflows, remediation and alerts:

- The timestamp of an event is drawn before the lock (`domain/audit/service.py:73`),
  and the last event is the one with the latest timestamp: the loser of a race for the
  lock is skipped by the next event.  Bulk import has an `AuditService`, and so a
  lock, of its own.  `verify_audit_hash_chain` uses `_tenant_streams`, which the SQL
  repository does not have.
- Nine of the fourteen request types have no applier (`appliers.py:221-227`): an approved
  request of such a type is stored as APPLIED with nothing changed (`appliers.py:239`,
  `service.py:534`).  A change whose save was lost or that overlapped another final
  approval is made again, each time for one more approval (`RepeatsTakeVotes`).
  `approve_budget` (`domain/budgets/service.py:314`) activates a budget without any
  request: that no change is made without its approvals is said of the workflow's own
  path only.
- A quorum counts decisions and not approvers (`domain/workflows/models.py:264`): one
  approver may meet a "Parallel dual-authorization by Security Admin and Tenant Admin"
  (`definitions.py:147`) alone.  A definition that lost a stage in flight leaves
  requests that nobody can decide (`service.py:295`).  `evaluate_expirations` and
  `evaluate_escalations` have no caller.  A request for a definition without stages
  stays SUBMITTED.
- `transition_state` (`domain/remediation/service.py:346`) closes a RESOLVED task
  without a retest: create, RESOLVED, CLOSED, three calls of one assignee.
  `docs/CLOUDLENS_BBP_v1.1.md:99` says "Tasks are never closed on assignee's word
  alone".  A closed task that is verified again is credited again.  A reopened task
  keeps `closure_code` and `closed_at`.  `check_expired_deferrals` and
  `check_overdue_and_escalate` have no caller; a task deferred through
  `transition_state` has no expiry.
- A CRITICAL report whose fingerprint has an open WARNING counts as its repetition and
  keeps the severity (`domain/alerting/engine.py:124-134`); the task harness raises both
  severities for one connector (`tasks.py:334`, `394`).  Such an alert is never
  escalated: "High-severity alerts must NEVER disappear silently" (`engine.py:492`).
  `list_active_by_scope` selects on `alerts.scope_id`, a column no migration creates:
  raising an alert that has a scope and no open predecessor fails.  Only the 1000 newest
  alerts, closed ones included, are evaluated (`domain/alerting/engine.py:498`,
  `repository.py:190`): an older CRITICAL alert is never escalated.  `escalate_alerts`
  and `auto_resolve_alerts` are scheduled for the default tenant alone
  (`scheduler.py:94`); the alerts of other tenants wait for the routes
  (`routes/alerts.py:378-399`).

## Not modelled

Adapters, FOCUS mapping, cost calculation, forecasting and reports are computations on
data.  Tenant isolation is PostgreSQL's row-level security.  Of the connector row, name,
capabilities and configuration are left out; of cost ingestion, datasets that span two
billing periods; a page marked truncated without a token; `reset()` of the breaker.  Of
workflows, who may decide, delegations and working hours; of remediation, assignment
rules and reports; of alerting, routing, channels, digests and storm grouping; of the
audit stream, signing, export and forwarding.  The orchestrator, schedules and the
resource lifecycle are in the plan below.

## Plan

Done: `BeatLeader`, `TaskHarness`, `CapabilityExecutor` with its parts,
`ConnectorState`, `CostPartition`, `PaginatedSync`, `AuditStream`, `Workflow` with
`ApprovalContract`, `Remediation`, `Alerting`, and the theorems of their safety
properties.  Next:

1. `MutualExclusion`, an abstract lease that `BeatLeader` and `TaskHarness` both
   implement while leases hold, as a refinement mapping; its implementation proved
   for `TaskHarness` from `Held`.
2. `CostPartition` with datasets of two periods; the breaker
   permission of `CapabilityExecutor` for the pages of `PaginatedSync`.
3. `SyncOrchestrator` and the schedule table in `BeatLeader`'s dispatch.
4. `ResourceLifecycle`: decommissioning with retention and dependencies.
