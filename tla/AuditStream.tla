---------------------------- MODULE AuditStream ----------------------------
(***************************************************************************)
(* AuditService.append_event (domain/audit/service.py) over                *)
(* SqlAuditRepository (domain/audit/repository.py): the hash-chained audit *)
(* stream of one tenant, written by every API and worker process.          *)
(*                                                                         *)
(* A caller is a thread.  It draws its timestamp first, then takes the     *)
(* threading.Lock of its own process, reads the event with the latest      *)
(* occurred_at and inserts an event that names it as its predecessor.  The *)
(* rows are kept in the order of their commits and an event_hash is written*)
(* as the position of its row, 0 for GENESIS.  attempt_mutation appends in *)
(* the same way before it refuses; the triggers of the table refuse every  *)
(* UPDATE and DELETE, so rows only grows.                                  *)
(***************************************************************************)
EXTENDS Naturals, Sequences, FiniteSets

CONSTANTS
  Processes,    \* the AuditServices: one per process (get_audit_service)
  Callers,      \* their threads
  Home,         \* the process of each thread
  MaxClock,     \* bound: timestamps
  MaxEvents,    \* bound: calls of append_event
  MaxCrashes,   \* bound: processes that die
  Free          \* nobody holds the lock

ASSUME AuditAssumption ==
  /\ Home \in [Callers -> Processes]
  /\ MaxClock \in Nat /\ MaxEvents \in Nat /\ MaxCrashes \in Nat
  /\ Free \notin Callers

VARIABLES
  rows,         \* audit_event of the tenant, in commit order
  pending,      \* inserts nobody waits for any more, which may still commit
  clock,        \* the latest timestamp each process has drawn
  lock,         \* the holder of each process's self._lock
  pc,           \* where each thread is in append_event
  event,        \* the event each thread is building
  calls,        \* calls of append_event so far
  crashes       \* processes that have died so far

vars == <<rows, pending, clock, lock, pc, event, calls, crashes>>

Timestamps == 1..MaxClock

\* by: the process; ts: occurred_at; prev: previous_event_hash; seen: how many
\* rows were stored when the predecessor was read; late: the insert was given up
\* by its caller.
Events == [by : Processes, ts : 0..MaxClock, prev : Nat, seen : Nat,
           late : {"yes", "no"}]

\* The types; in particular every event names a row stored before it.
TypeOK ==
  /\ rows \in Seq(Events)
  /\ \A i \in DOMAIN rows : rows[i].prev < i
  /\ pending \subseteq Events
  /\ clock \in [Processes -> 0..MaxClock]
  /\ lock \in [Processes -> Callers \cup {Free}]
  /\ pc \in [Callers -> {"idle", "wait", "read", "save"}]
  /\ event \in [Callers -> Events]
  /\ calls \in Nat /\ crashes \in Nat

Blank(c) == [by |-> Home[c], ts |-> 0, prev |-> 0, seen |-> 0, late |-> "no"]

Init ==
  /\ rows = <<>> /\ pending = {}
  /\ clock = [p \in Processes |-> 0]
  /\ lock = [p \in Processes |-> Free]
  /\ pc = [c \in Callers |-> "idle"]
  /\ event = [c \in Callers |-> Blank(c)]
  /\ calls = 0 /\ crashes = 0

-----------------------------------------------------------------------------
\* now = datetime.now(UTC), before the lock.  The clock of one host does not go
\* back; those of two hosts need not agree.
Start(c) ==
  /\ pc[c] = "idle" /\ calls < MaxEvents
  /\ \E t \in Timestamps :
       /\ t >= clock[Home[c]]
       /\ clock' = [clock EXCEPT ![Home[c]] = t]
       /\ event' = [event EXCEPT ![c] = [Blank(c) EXCEPT !.ts = t]]
  /\ pc' = [pc EXCEPT ![c] = "wait"]
  /\ calls' = calls + 1
  /\ UNCHANGED <<rows, pending, lock, crashes>>

\* Mutant of Enter: the lock is not taken.
EnterUnlocked(c) ==
  /\ pc[c] = "wait"
  /\ pc' = [pc EXCEPT ![c] = "read"]
  /\ UNCHANGED <<rows, pending, clock, lock, event, calls, crashes>>

\* with self._lock
Enter(c) ==
  /\ pc[c] = "wait" /\ lock[Home[c]] = Free
  /\ lock' = [lock EXCEPT ![Home[c]] = c]
  /\ pc' = [pc EXCEPT ![c] = "read"]
  /\ UNCHANGED <<rows, pending, clock, event, calls, crashes>>

\* The with block ends, normally or by an exception.
Leave(c) ==
  /\ lock' = [lock EXCEPT ![Home[c]] = Free]
  /\ pc' = [pc EXCEPT ![c] = "idle"]
  /\ event' = [event EXCEPT ![c] = Blank(c)]

\* Mutant of IsLast: ORDER BY occurred_at ASC.
IsFirst(i) == \A k \in DOMAIN rows : rows[i].ts <= rows[k].ts

\* ORDER BY occurred_at DESC, id DESC LIMIT 1; the ids are random.
IsLast(i) == \A k \in DOMAIN rows : rows[k].ts <= rows[i].ts

\* get_last_event, and the event that names what it found.
Read(c) ==
  /\ pc[c] = "read"
  /\ \E i \in {0} \cup DOMAIN rows :
       /\ IF i = 0 THEN rows = <<>> ELSE IsLast(i)
       /\ event' = [event EXCEPT ![c].prev = i, ![c].seen = Len(rows)]
  /\ pc' = [pc EXCEPT ![c] = "save"]
  /\ UNCHANGED <<rows, pending, clock, lock, calls, crashes>>

ReadFails(c) ==
  /\ pc[c] = "read"
  /\ Leave(c)
  /\ UNCHANGED <<rows, pending, clock, calls, crashes>>

\* The insert commits.
Save(c) ==
  /\ pc[c] = "save"
  /\ rows' = Append(rows, event[c])
  /\ Leave(c)
  /\ UNCHANGED <<pending, clock, calls, crashes>>

\* The insert is rolled back.
SaveFails(c) ==
  /\ pc[c] = "save"
  /\ Leave(c)
  /\ UNCHANGED <<rows, pending, clock, calls, crashes>>

Abandoned(c) == [event[c] EXCEPT !.late = "yes"]

\* Mutant of SaveTimesOut: the lock stays taken.
SaveHangs(c) ==
  /\ pc[c] = "save"
  /\ pending' = pending \cup {Abandoned(c)}
  /\ pc' = [pc EXCEPT ![c] = "idle"]
  /\ event' = [event EXCEPT ![c] = Blank(c)]
  /\ UNCHANGED <<rows, clock, lock, calls, crashes>>

\* run_async stops waiting; the coroutine is not cancelled.
SaveTimesOut(c) ==
  /\ pc[c] = "save"
  /\ pending' = pending \cup {Abandoned(c)}
  /\ Leave(c)
  /\ UNCHANGED <<rows, clock, calls, crashes>>

\* An abandoned insert commits, or never does.
LateCommit(e) ==
  /\ e \in pending
  /\ pending' = pending \ {e}
  /\ rows' \in {rows, Append(rows, e)}
  /\ UNCHANGED <<clock, lock, pc, event, calls, crashes>>

\* A process dies with its lock and its threads.  What it sent may still commit.
Crash(p) ==
  /\ crashes < MaxCrashes
  /\ crashes' = crashes + 1
  /\ pending' = pending \cup {Abandoned(c) : c \in {d \in Callers : Home[d] = p /\ pc[d] = "save"}}
  /\ lock' = [lock EXCEPT ![p] = Free]
  /\ pc' = [c \in Callers |-> IF Home[c] = p THEN "idle" ELSE pc[c]]
  /\ event' = [c \in Callers |-> IF Home[c] = p THEN Blank(c) ELSE event[c]]
  /\ UNCHANGED <<rows, clock, calls>>

-----------------------------------------------------------------------------
\* What a thread does once it holds the lock.
Proceed(c) == Read(c) \/ ReadFails(c) \/ Save(c) \/ SaveFails(c) \/ SaveTimesOut(c)

Next ==
  \/ \E c \in Callers : Start(c) \/ Enter(c) \/ Proceed(c)
  \/ \E e \in pending : LateCommit(e)
  \/ \E p \in Processes : Crash(p)

Spec == Init /\ [][Next]_vars

\* A thread that holds the lock goes on: its database calls end, by their answer
\* or by the timeout of run_async.
FairSpec == Spec /\ \A c \in Callers : WF_vars(Proceed(c))

-----------------------------------------------------------------------------
\* Two appends of one process never work on the same end of the chain: whichever
\* commits second has seen the first, unless one of them was given up by its
\* caller and committed behind the lock's back.
LockSerialises ==
  \A i, j \in DOMAIN rows :
    (i < j /\ rows[i].by = rows[j].by /\ rows[i].late = "no" /\ rows[j].late = "no")
      => rows[j].seen >= i

\* The row is no newer than the row it names as its predecessor: its caller drew
\* the timestamp, then lost the race for the lock.
Backdated(i) == rows[i].prev # 0 /\ rows[i].ts <= rows[rows[i].prev].ts

\* The chain forks for three reasons only: two processes appended at once, an
\* insert committed after its caller had given it up, or an event was stored with
\* a timestamp no newer than its predecessor's and stays invisible to get_last_event.
ForkIsExplained ==
  \A i, j \in DOMAIN rows :
    (i < j /\ rows[i].prev = rows[j].prev) =>
      \/ rows[i].by # rows[j].by /\ rows[j].seen < i
      \/ rows[i].late = "yes" \/ rows[j].late = "yes"
      \/ Backdated(i)

\* A database that stops answering does not stop the stream: the lock that
\* append_event holds over its two database calls is always given back.
StreamUnblocks == \A p \in Processes : (lock[p] # Free) ~> (lock[p] = Free)

-----------------------------------------------------------------------------
\* The orders in which repository.list may return the rows: newest first, equal
\* timestamps by id.
Listings ==
  {f \in [DOMAIN rows -> DOMAIN rows] :
     \A m, n \in DOMAIN rows : m < n => (f[m] # f[n] /\ rows[f[m]].ts >= rows[f[n]].ts)}

\* verify_stream_integrity: the first event of the list must name nothing, every
\* other one the event listed before it.
VerifyStream(f) ==
  \A n \in DOMAIN rows : rows[f[n]].prev = IF n = 1 THEN 0 ELSE f[n - 1]

\* tests/unit/test_tenant_context_and_audit.py asserts after two appends
\* "service.verify_stream_integrity(tenant_context=tc) is True".  No action of
\* this module tampers with a row.
UntamperedVerifies == \E f \in Listings : VerifyStream(f)

=============================================================================
