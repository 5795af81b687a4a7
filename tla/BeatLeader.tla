----------------------------- MODULE BeatLeader -----------------------------
(***************************************************************************)
(* Leader election among the Celery Beat instances, as BeatLeaderLock      *)
(* (workers/cloudlens_workers/locking.py) and DatabaseBeatScheduler.tick   *)
(* (workers/cloudlens_workers/scheduler.py) do it.                         *)
(*                                                                         *)
(* The lock is one Redis key whose value is the leader's instance_id and   *)
(* which Redis drops ttl_seconds after the last SET.  An instance remembers*)
(* in _is_leader what its last call returned: a leader renews with         *)
(* SET XX, everybody else acquires with SET NX.  A call that raises, and   *)
(* every call of an instance whose client could not connect at start-up,   *)
(* falls back to the process-local dict _in_memory_locks.  A Beat process  *)
(* owns exactly one BeatLeaderLock, so the only entry of that dict under   *)
(* the lock key is its own, and the fallback always grants leadership.     *)
(***************************************************************************)
EXTENDS Naturals, FiniteSets

CONSTANTS
  Beats,        \* the Beat processes
  TTL,          \* ttl_seconds, in clock ticks
  MaxCrashes,   \* bound: how many Beat processes may die in one behaviour
  MaxFaults,    \* bound: how many Redis calls may raise in one behaviour
  Nobody,       \* the key is absent
  Gone          \* the key names an instance that has died

ASSUME BeatAssumption ==
  /\ IsFiniteSet(Beats)
  /\ TTL \in Nat \ {0}
  /\ MaxCrashes \in Nat
  /\ MaxFaults \in Nat
  /\ Nobody \notin Beats
  /\ Gone \notin Beats
  /\ Nobody # Gone

VARIABLES
  owner,        \* the value under lock_key in Redis
  ttl,          \* ticks until Redis drops the key, 0 when it is absent
  leaders,      \* the instances whose _is_leader is True
  connected,    \* the instances whose _redis is a client and not None
  pc,           \* where each instance is in tick()
  crashes,      \* Beat processes that have died so far
  faults,       \* Redis calls that have raised so far
  lapsed        \* history: a lease has run out while an instance relied on it

vars == <<owner, ttl, leaders, connected, pc, crashes, faults, lapsed>>

Locations == {"down", "idle", "nx", "dispatch"}

TypeOK ==
  /\ owner \in Beats \cup {Nobody, Gone}
  /\ ttl \in 0..TTL
  /\ leaders \subseteq Beats
  /\ connected \subseteq Beats
  /\ pc \in [Beats -> Locations]
  /\ crashes \in Nat
  /\ faults \in Nat
  /\ lapsed \in BOOLEAN

Init ==
  /\ owner = Nobody
  /\ ttl = 0
  /\ leaders = {}
  /\ connected = {}
  /\ pc = [b \in Beats |-> "down"]
  /\ crashes = 0
  /\ faults = 0
  /\ lapsed = FALSE

GoTo(b, l) == pc' = [pc EXCEPT ![b] = l]

\* A Redis call raises: a connection error or a timeout.
Fault == faults < MaxFaults /\ faults' = faults + 1

-----------------------------------------------------------------------------
(* The constructor.  The client is pinged once; an instance whose ping     *)
(* fails works without Redis until its process ends.                       *)

Boot(b) ==
  /\ pc[b] = "down"
  /\ \/ connected' = connected \cup {b} /\ UNCHANGED faults
     \/ connected' = connected \ {b} /\ Fault
  /\ GoTo(b, "idle")
  /\ UNCHANGED <<owner, ttl, leaders, crashes, lapsed>>

-----------------------------------------------------------------------------
(* acquire_or_renew, one action per Redis command and per outcome.         *)

\* SET lock_key instance_id EX ttl_seconds, when it takes effect.
SetKey(b) == owner' = b /\ ttl' = TTL

\* Mutant of SetNX: NX is forgotten.
SetAlways(b) == SetKey(b)

SetNX(b) == ttl = 0 /\ SetKey(b)

SetXX(b) == ttl > 0 /\ SetKey(b)

\* Mutant of NXRefused: a refused SET extends the lease of the holder.
NXRefusedExtends(b) == ttl > 0 /\ ttl' = TTL /\ UNCHANGED owner

NXRefused(b) == ttl > 0 /\ UNCHANGED <<owner, ttl>>

\* SET XX by an instance that believes it leads: it succeeds whenever the key
\* exists, whoever the key names.
Renew(b) ==
  /\ pc[b] = "idle" /\ b \in connected /\ b \in leaders
  /\ SetXX(b)
  /\ GoTo(b, "dispatch")
  /\ UNCHANGED <<leaders, connected, crashes, faults, lapsed>>

\* SET XX found no key: leadership is dropped and NX is tried next.
LeaseLost(b) ==
  /\ pc[b] = "idle" /\ b \in connected /\ b \in leaders
  /\ ttl = 0
  /\ leaders' = leaders \ {b}
  /\ GoTo(b, "nx")
  /\ UNCHANGED <<owner, ttl, connected, crashes, faults, lapsed>>

MayTryNX(b) ==
  /\ b \in connected
  /\ pc[b] = "nx" \/ (pc[b] = "idle" /\ b \notin leaders)

\* SET NX on an absent key.
Acquire(b) ==
  /\ MayTryNX(b)
  /\ SetNX(b)
  /\ leaders' = leaders \cup {b}
  /\ GoTo(b, "dispatch")
  /\ UNCHANGED <<connected, crashes, faults, lapsed>>

\* SET NX on a key that exists: the instance is on standby, and tick() returns
\* without dispatching.
Standby(b) ==
  /\ MayTryNX(b)
  /\ NXRefused(b)
  /\ GoTo(b, "idle")
  /\ UNCHANGED <<leaders, connected, crashes, faults, lapsed>>

\* The SET raises.  It may have been lost on its way, or executed with only its
\* reply lost; either way the in-memory fallback makes the instance a leader.
Fallback(b) ==
  /\ pc[b] \in {"idle", "nx"} /\ b \in connected
  /\ Fault
  /\ \/ UNCHANGED <<owner, ttl>>
     \/ MayTryNX(b) /\ SetNX(b)
     \/ ~MayTryNX(b) /\ SetXX(b)
  /\ leaders' = leaders \cup {b}
  /\ GoTo(b, "dispatch")
  /\ UNCHANGED <<connected, crashes, lapsed>>

\* An instance without a client leads from its first tick on.
LocalLead(b) ==
  /\ pc[b] = "idle" /\ b \notin connected
  /\ leaders' = leaders \cup {b}
  /\ GoTo(b, "dispatch")
  /\ UNCHANGED <<owner, ttl, connected, crashes, faults, lapsed>>

\* The rest of tick(): the schedule refresh and the dispatch of the due
\* entries, or nothing of it in global maintenance mode.
Dispatch(b) ==
  /\ pc[b] = "dispatch"
  /\ GoTo(b, "idle")
  /\ UNCHANGED <<owner, ttl, leaders, connected, crashes, faults, lapsed>>

-----------------------------------------------------------------------------
(* release(): the Lua script deletes the key only when it names this       *)
(* instance.  When the call raises, before or after the script ran, only   *)
(* the local state is dropped.                                             *)

\* Mutants of DeleteOwnKey: del without the comparison, and no del at all.
DeleteAnyKey(b) == owner' = Nobody /\ ttl' = 0
DeleteNothing(b) == UNCHANGED <<owner, ttl>>

DeleteOwnKey(b) ==
  IF owner = b THEN owner' = Nobody /\ ttl' = 0 ELSE UNCHANGED <<owner, ttl>>

Release(b) ==
  /\ pc[b] = "idle" /\ b \in leaders
  /\ \/ b \in connected /\ DeleteOwnKey(b) /\ UNCHANGED faults
     \/ b \in connected /\ Fault /\ (DeleteOwnKey(b) \/ UNCHANGED <<owner, ttl>>)
     \/ b \notin connected /\ UNCHANGED <<owner, ttl, faults>>
  /\ leaders' = leaders \ {b}
  /\ UNCHANGED <<connected, pc, crashes, lapsed>>

-----------------------------------------------------------------------------
(* The environment: the clock of Redis, and processes that die and are     *)
(* started again (restart: unless-stopped) under a new instance_id.        *)

TimePasses ==
  /\ ttl > 0
  /\ ttl' = ttl - 1
  /\ owner' = IF ttl' = 0 THEN Nobody ELSE owner
  /\ lapsed' = (lapsed \/ (ttl' = 0 /\ leaders # {}))
  /\ UNCHANGED <<leaders, connected, pc, crashes, faults>>

Crash(b) ==
  /\ pc[b] # "down"
  /\ crashes < MaxCrashes
  /\ crashes' = crashes + 1
  /\ GoTo(b, "down")
  /\ leaders' = leaders \ {b}
  /\ owner' = IF owner = b THEN Gone ELSE owner
  /\ UNCHANGED <<ttl, connected, faults, lapsed>>

\* One call of tick(), command by command.
Tick(b) ==
  \/ Renew(b) \/ LeaseLost(b) \/ Acquire(b) \/ Standby(b)
  \/ LocalLead(b) \/ Dispatch(b)

Next ==
  \/ \E b \in Beats : Boot(b) \/ Tick(b) \/ Fallback(b) \/ Release(b) \/ Crash(b)
  \/ TimePasses

Spec == Init /\ [][Next]_vars

\* Celery calls tick() again after every sleep and the clock runs on.  Nothing
\* obliges an instance to start, to step down, to fail or to die.
FairSpec ==
  /\ Spec
  /\ \A b \in Beats : WF_vars(Tick(b))
  /\ WF_vars(TimePasses)

-----------------------------------------------------------------------------
\* As long as every Redis call was answered and no lease ran out under an
\* instance that relied on it, at most one Beat instance leads, and the key
\* carries its name: two leaders arise only from a failed call or from a leader
\* that let its lease of ttl_seconds run out between two calls of tick().
LeaseElectsOne ==
  (faults = 0 /\ ~lapsed) => \A b \in leaders : owner = b

\* The key is freed by its expiry or by its own holder stepping down, never by
\* another instance's release(): the Lua compare-and-delete protects the lease
\* of whoever took over from a leader that was late.
OnlyHolderFreesKey ==
  [][\A b \in Beats :
       (owner = b /\ owner' = Nobody) => (ttl = 1 \/ b \notin leaders')]_vars

\* With no failed call the key never names an instance that is running on
\* standby: such a key would keep every instance from leading for ttl_seconds.
KeyNamesALeader ==
  faults = 0 => (owner \in Beats => owner \in leaders)

\* A cluster is never left without a dispatcher: whenever no instance leads but
\* one that can reach Redis keeps running, a leader emerges, even when the key
\* still names a leader that died.
TakeOver ==
  \A b \in Beats :
    (pc[b] # "down" /\ leaders = {}) ~> (leaders # {} \/ pc[b] = "down")

=============================================================================
