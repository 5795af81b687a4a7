--------------------------- MODULE ConnectorState ---------------------------
(***************************************************************************)
(* One connector's row in PostgreSQL and everybody who writes it:          *)
(*   - API processes, each with a ConnectorLifecycleManager that validates *)
(*     transitions against its own cache of the state                      *)
(*     (connectors/contract/lifecycle.py), through the routes transition,  *)
(*     toggle-status, DELETE, rotate-credential and PATCH                  *)
(*     (api/cloudlens_api/routes/connectors.py);                           *)
(*   - tasks in the workers, which report ACTIVE, DEGRADED or FAILED and,  *)
(*     after a cost ingestion, save the whole row                          *)
(*     (workers/cloudlens_workers/tasks.py).                               *)
(* A route has no await between its database calls, so within a process    *)
(* the requests come one after the other; between processes every database *)
(* call is a step of its own.  run_async gives a call up after ten seconds *)
(* without cancelling it: a write that was reported as failed may still be *)
(* on its way, and commit over later ones.  Of the row the model keeps the *)
(* lifecycle state and the version of the credential profile.              *)
(***************************************************************************)
EXTENDS ConnectorLifecycle, Naturals

CONSTANTS
  Apis,        \* API processes
  Workers,     \* concurrent tasks of the connector
  Targets,     \* lifecycle states that requests ask for
  MaxCred,     \* bound: versions of the credential profile
  MaxFaults    \* bound: database calls that raise in one behaviour

ASSUME StateAssumption ==
  /\ Apis \cap Workers = {}
  /\ Targets \subseteq LifecycleStates
  /\ MaxCred \in Nat \ {0}
  /\ MaxFaults \in Nat

VARIABLES
  life,     \* lifecycle_state of the row; NONE: no row yet
  cred,     \* credential_profile_id of the row, as a version
  cache,    \* _states of each API process; NONE: no entry
  pc,       \* where each process is
  held,     \* what each process is about to write: a requested state, or a whole row
  late,     \* writes that were given up and are still on their way
  faults,   \* database calls that have raised so far
  touched   \* history: the processes that have written the row since it exists

vars == <<life, cred, cache, pc, held, late, faults, touched>>

Procs == Apis \cup Workers
NoneOrState == LifecycleStates \cup {"NONE"}

Rows == [life : NoneOrState, cred : 0..MaxCred]
Nothing == [life |-> "NONE", cred |-> 0]

\* A write of process by: the state alone, or the whole row.
LateWrites == [by : Procs, what : {"state", "row"}, life : LifecycleStates, cred : 0..MaxCred]

TypeOK ==
  /\ life \in NoneOrState
  /\ cred \in 0..MaxCred
  /\ cache \in [Apis -> NoneOrState]
  /\ pc \in [Procs -> {"idle", "check", "persist", "write", "save", "succeeded", "failed"}]
  /\ held \in [Procs -> Rows]
  /\ \A p \in Procs : held[p].life = "NONE" <=> pc[p] \in {"idle", "succeeded", "failed"}
  /\ late \subseteq LateWrites
  /\ faults \in Nat
  /\ touched \subseteq Procs

Init ==
  /\ life = "NONE" /\ cred = 0
  /\ cache = [a \in Apis |-> "NONE"]
  /\ pc = [p \in Procs |-> "idle"]
  /\ held = [p \in Procs |-> Nothing]
  /\ late = {} /\ faults = 0
  /\ touched = {}

Go(p, l) == pc' = [pc EXCEPT ![p] = l]

\* The request or the task is over.
End(p) == Go(p, "idle") /\ held' = [held EXCEPT ![p] = Nothing]

Hold(p, s, c) == held' = [held EXCEPT ![p] = [life |-> s, cred |-> c]]

Remember(a, s) == cache' = [cache EXCEPT ![a] = s]

\* A database call raises.
Fault == faults < MaxFaults /\ faults' = faults + 1

\* A write raises: it was rolled back, or it was given up and is on its way.
Lost(p, what, s, c) ==
  /\ Fault
  /\ late' \in {late, late \cup {[by |-> p, what |-> what, life |-> s, cred |-> c]}}

\* UPDATE connectors SET lifecycle_state = s, that has taken effect.
Update(p, s) == life' = s /\ touched' = touched \cup {p}

-----------------------------------------------------------------------------
(* Creation: POST /connectors, or the onboarding wizard, which walks its   *)
(* manager to ACTIVE first.  The identifier is new, so nobody else acts on *)
(* it before the row is saved.                                             *)

Register(a) ==
  /\ life = "NONE"
  /\ \/ life' = "REGISTERED" /\ cred' = 0 /\ UNCHANGED cache
     \/ life' = "CREDENTIAL_BOUND" /\ cred' = 1 /\ Remember(a, "CREDENTIAL_BOUND")
     \/ life' = "ACTIVE" /\ cred' = 1 /\ Remember(a, "ACTIVE")
  /\ UNCHANGED <<pc, held, late, faults, touched>>

-----------------------------------------------------------------------------
(* transition, toggle-status and DELETE.  The route reads the row (404 if  *)
(* there is none), asks the manager, and writes the state once more.       *)

\* Any state may be asked for through transition; toggle-status asks for ACTIVE or
\* SUSPENDED and DELETE for DELETED.
Request(a) ==
  /\ pc[a] = "idle" /\ life # "NONE"
  /\ Go(a, "check")
  /\ \E s \in Targets : Hold(a, s, 0)
  /\ UNCHANGED <<life, cred, cache, late, faults, touched>>

\* transition_state from state s: the same state is accepted without an UPDATE,
\* an illegal one is refused, a legal one is cached before it is written.
\* kept is what get_state has left in the cache.
Decide(a, s, kept) ==
  LET target == held[a].life IN
  \/ target = s /\ Go(a, "write") /\ Remember(a, kept) /\ UNCHANGED held
  \/ /\ target \in ALLOWED_TRANSITIONS(s)
     /\ Go(a, "persist") /\ Remember(a, target) /\ UNCHANGED held
  \/ target \notin ALLOWED_TRANSITIONS(s) \cup {s} /\ End(a) /\ Remember(a, kept)

\* Mutant of Check: the manager decides from the cache entry of a process that
\* has none as if it were REGISTERED, without reading the row.
CheckCold(a) ==
  /\ pc[a] = "check"
  /\ \/ cache[a] # "NONE" /\ Decide(a, cache[a], cache[a])
     \/ cache[a] = "NONE" /\ Decide(a, "REGISTERED", "NONE")
  /\ UNCHANGED <<life, cred, late, faults, touched>>

\* What get_state takes for the current state: the cache entry, else the row,
\* which is cached then, else, when that read raises, REGISTERED.
Check(a) ==
  /\ pc[a] = "check"
  /\ \/ cache[a] # "NONE" /\ Decide(a, cache[a], cache[a]) /\ UNCHANGED faults
     \/ cache[a] = "NONE" /\ Decide(a, life, life) /\ UNCHANGED faults
     \/ cache[a] = "NONE" /\ Decide(a, "REGISTERED", "NONE") /\ Fault
  /\ UNCHANGED <<life, cred, late, touched>>

\* The manager's UPDATE; an exception is swallowed and the cache keeps the state.
Persist(a) ==
  /\ pc[a] = "persist"
  /\ \/ Update(a, held[a].life) /\ UNCHANGED <<late, faults>>
     \/ Lost(a, "state", held[a].life, 0) /\ UNCHANGED <<life, touched>>
  /\ Go(a, "write")
  /\ UNCHANGED <<cred, cache, held>>

\* The route's own UPDATE; an exception ends the request.
Write(a) ==
  /\ pc[a] = "write"
  /\ \/ Update(a, held[a].life) /\ UNCHANGED <<late, faults>>
     \/ Lost(a, "state", held[a].life, 0) /\ UNCHANGED <<life, touched>>
  /\ End(a)
  /\ UNCHANGED <<cred, cache>>

\* Diagnostics ask get_state and so fill an empty cache entry.
Diagnose(a) ==
  /\ pc[a] = "idle" /\ cache[a] = "NONE" /\ life # "NONE"
  /\ Remember(a, life)
  /\ UNCHANGED <<life, cred, pc, held, late, faults, touched>>

-----------------------------------------------------------------------------
(* rotate-credential and PATCH read the row, change it and save all of it. *)

\* rotate-credential, which asks for the row only, also of a deleted connector.
Rotate(a) ==
  /\ pc[a] = "idle" /\ life # "NONE" /\ cred < MaxCred
  /\ Hold(a, life, cred + 1)
  /\ Go(a, "save")
  /\ UNCHANGED <<life, cred, cache, late, faults, touched>>

\* PATCH of name, scopes or configuration; the ETag it may compare is that of the
\* row just read.
Patch(a) ==
  /\ pc[a] = "idle" /\ life \notin {"NONE", "DELETED"}
  /\ Hold(a, life, cred)
  /\ Go(a, "save")
  /\ UNCHANGED <<life, cred, cache, late, faults, touched>>

\* INSERT ... ON CONFLICT DO UPDATE of every column.
SaveRow(p) ==
  life' = held[p].life /\ cred' = held[p].cred /\ touched' = touched \cup {p}

\* After the save, or its exception, an API request is over; a task, which swallows
\* the exception, goes on to a success, unless the save of its job raises.
Save(p) ==
  /\ pc[p] = "save"
  /\ \/ SaveRow(p) /\ UNCHANGED <<late, faults>>
     \/ Lost(p, "row", held[p].life, held[p].cred) /\ UNCHANGED <<life, cred, touched>>
  /\ \E l \in (IF p \in Workers THEN {"succeeded", "failed"} ELSE {"idle"}) : Go(p, l)
  /\ held' = [held EXCEPT ![p] = Nothing]
  /\ UNCHANGED cache

-----------------------------------------------------------------------------
(* Tasks.  Neither the schedule nor the harness looks at the state of the  *)
(* connector.                                                              *)

\* The task's own work: a cost ingestion ends with the freshness update, which
\* reads the row first; other tasks just succeed; any may fail.
Work(w) ==
  /\ pc[w] = "idle" /\ life # "NONE"
  /\ \/ Go(w, "save") /\ Hold(w, life, cred)
     \/ Go(w, "succeeded") /\ UNCHANGED held
     \/ Go(w, "failed") /\ UNCHANGED held
  /\ UNCHANGED <<life, cred, cache, late, faults, touched>>

\* What the harness writes: ACTIVE on success, DEGRADED while retries are left,
\* else FAILED.
Outcome(w) == IF pc[w] = "succeeded" THEN {"ACTIVE"} ELSE {"DEGRADED", "FAILED"}

\* An exception of this UPDATE is swallowed.
Report(w) ==
  /\ pc[w] \in {"succeeded", "failed"}
  /\ \E s \in Outcome(w) :
       \/ Update(w, s) /\ UNCHANGED <<late, faults>>
       \/ Lost(w, "state", s, 0) /\ UNCHANGED <<life, touched>>
  /\ End(w)
  /\ UNCHANGED <<cred, cache>>

\* A process dies, with the calls it had given up, and starts again with an empty cache.
Restart(p) ==
  /\ End(p)
  /\ cache' = [a \in Apis |-> IF a = p THEN "NONE" ELSE cache[a]]
  /\ late' = {w \in late : w.by # p}
  /\ UNCHANGED <<life, cred, faults, touched>>

\* A write that was given up commits, over whatever the row is by then.
LateWrite(w) ==
  /\ late' = late \ {w}
  /\ Update(w.by, w.life)
  /\ cred' = IF w.what = "row" THEN w.cred ELSE cred
  /\ UNCHANGED <<cache, pc, held, faults>>

-----------------------------------------------------------------------------
ApiStep(a) ==
  \/ Register(a) \/ Request(a) \/ Check(a) \/ Persist(a) \/ Write(a)
  \/ Diagnose(a) \/ Rotate(a) \/ Patch(a)

Next ==
  \/ \E a \in Apis : ApiStep(a)
  \/ \E w \in Workers : Work(w) \/ Report(w)
  \/ \E p \in Procs : Save(p) \/ Restart(p)
  \/ \E w \in late : LateWrite(w)

Spec == Init /\ [][Next]_vars

-----------------------------------------------------------------------------
\* While a single API process has written the row and no database call has raised,
\* the lifecycle state moves along ALLOWED_TRANSITIONS only and no credential
\* rotation is undone, whatever that process and others have cached, read or begun,
\* and restarts included.
SoleWriterIsLegal ==
  [][\A a \in Apis :
       (touched' \subseteq {a} /\ faults' = 0 /\ life # "NONE") =>
         /\ life' # life => life' \in ALLOWED_TRANSITIONS(life)
         /\ cred' >= cred]_vars

\* Once a manager has cached the deletion, it accepts no other state until its process
\* restarts, and every UPDATE it sends, also one that is given up, writes DELETED: the
\* row comes back only by a write of another process, a save of all its columns, or an
\* UPDATE on its way that was given up earlier.
DeletionIsRemembered ==
  [][\A a \in Apis : cache[a] = "DELETED" =>
       /\ cache'[a] = "DELETED" \/ (cache'[a] = "NONE" /\ pc'[a] = "idle")
       /\ \A w \in late' \ late : w.by = a /\ w.what = "state" => w.life = "DELETED"
       /\ (life = "DELETED" /\ life' # "DELETED") =>
            \/ \E w \in late : w.life = life' /\ late' = late \ {w}
            \/ \E p \in Procs : pc'[p] # pc[p] /\ (p # a \/ pc[p] = "save")]_vars

=============================================================================
