------------------------------ MODULE Alerting ------------------------------
(***************************************************************************)
(* AlertEngine (domain/alerting/engine.py) on the alerts of one            *)
(* fingerprint: the same type, resource and rule.  run_canonical_task      *)
(* raises WARNING and CRITICAL alerts with one fingerprint.                *)
(*                                                                         *)
(* Each operation reads rows, changes its copies and saves them one by one *)
(* with an upsert that compares no version.  The two evaluations, which    *)
(* are scheduled for the default tenant and offered to every tenant by     *)
(* routes, list the newest alerts of the tenant at once and save the ones  *)
(* they change afterwards.  A save may fail, which ends the operation, or  *)
(* be given up by run_async and still come.                                *)
(*                                                                         *)
(* Of the tenant's other alerts only their place in the list is kept.      *)
(* Left out: recipients, notifications, comments' text, audit events, and  *)
(* the storm grouping of alerts with a scope, whose query names a column   *)
(* that the alerts table does not have: such a raise fails and saves       *)
(* nothing.                                                                *)
(***************************************************************************)
EXTENDS Naturals, FiniteSets

CONSTANTS
  Callers,         \* processes that serve the operations
  Escalator,       \* the scheduled task escalate_alerts
  Resolver,        \* the scheduled task auto_resolve_alerts
  ListLimit,       \* limit of the list an evaluation works on (1000)
  MaxAlerts,       \* bound: rows
  MaxCalls,        \* bound: operations of the callers
  MaxLevel,        \* bound: escalations of an alert
  MaxFaults        \* bound: saves that fail

ASSUME AlertingAssumption ==
  /\ ListLimit \in Nat
  /\ {MaxAlerts, MaxCalls, MaxLevel, MaxFaults} \subseteq Nat
  /\ Escalator \notin Callers /\ Resolver \notin Callers /\ Escalator # Resolver

Ids == 1..MaxAlerts
Actors == Callers \cup {Escalator, Resolver}

VARIABLES
  rows,            \* the alerts as stored
  batch,           \* the copies each actor has still to save
  used,            \* how many ids have been given out, in the order of creation
  others,          \* the ids of alerts with another fingerprint
  due,             \* alerts past the escalation timeout
  dwelled,         \* alerts whose condition has been clear for the dwell time
  late,            \* saves nobody waits for any more
  calls, faults,   \* operations and failures so far
  reported,        \* alerts whose condition was seen after it was last seen clear
  orderly          \* TRUE as long as no operation met another one or a failure and
                   \* no closed alert was acknowledged

vars == <<rows, batch, used, others, due, dwelled, late, calls, faults, reported, orderly>>

Open == {"ACTIVE", "ACKNOWLEDGED"}
Closed == {"RESOLVED", "AUTO_RESOLVED"}

\* CRITICAL stands for the severities that are escalated, HIGH and CRITICAL.
\* cleared: whether condition_cleared_at is set; level: escalation_level; base, ver:
\* the write a copy was loaded at, and the last write of the row; op: who wrote it.
Alerts == [id : Ids, status : Open \cup Closed \cup {"NONE"},
           severity : {"WARNING", "CRITICAL"}, cleared : BOOLEAN, level : Nat,
           base : Nat, ver : Nat,
           op : {"raise", "ack", "resolve", "clear", "comment", "escalate", "auto"}]

\* The types; what is to be saved is an alert.
TypeOK ==
  /\ rows \in [Ids -> Alerts] /\ \A i \in Ids : rows[i].id = i
  /\ batch \in [Actors -> SUBSET {a \in Alerts : a.status # "NONE"}]
  /\ late \subseteq Alerts
  /\ used \in 0..MaxAlerts /\ others \subseteq Ids /\ due \subseteq Ids /\ dwelled \subseteq Ids
  /\ reported \subseteq Ids
  /\ {calls, faults} \subseteq Nat /\ orderly \in BOOLEAN

Blank(i) == [id |-> i, status |-> "NONE", severity |-> "WARNING", cleared |-> FALSE,
             level |-> 0, base |-> 0, ver |-> 0, op |-> "raise"]

Init ==
  /\ rows = [i \in Ids |-> Blank(i)]
  /\ batch = [c \in Actors |-> {}]
  /\ used = 0 /\ others = {} /\ due = {} /\ dwelled = {} /\ late = {}
  /\ calls = 0 /\ faults = 0 /\ reported = {} /\ orderly = TRUE

Stored == {i \in Ids : rows[i].status # "NONE"}

\* list(limit=...) ORDER BY created_at DESC, as far as it has alerts of the fingerprint.
Listed ==
  {i \in Stored : Cardinality({j \in Stored \cup others : j > i}) < ListLimit}

Copy(i, op) == [rows[i] EXCEPT !.base = rows[i].ver, !.op = op]

\* An operation has read what it needs and has the copies to save; still says
\* whether it disturbs nothing by itself.
Start(c, copies, still) ==
  /\ batch[c] = {}
  /\ batch' = [batch EXCEPT ![c] = copies]
  /\ orderly' = (orderly /\ still /\ \A d \in Actors : batch[d] = {})
  /\ UNCHANGED <<rows, others, due, dwelled, late, faults>>

Call == calls < MaxCalls /\ calls' = calls + 1

-----------------------------------------------------------------------------
\* Mutant of RaiseAgain: the repetition makes the alert active.
RaiseReactivates(c) ==
  /\ Call
  /\ \E i \in Stored :
     /\ rows[i].status \in Open
     /\ Start(c, {[Copy(i, "raise") EXCEPT !.cleared = FALSE, !.status = "ACTIVE"]}, TRUE)
     /\ reported' = reported \cup {i} /\ UNCHANGED used

\* raise_alert when an open alert has the fingerprint: one of them is told of the
\* repetition and keeps its severity.
RaiseAgain(c) ==
  /\ Call
  /\ \E i \in Stored :
     /\ rows[i].status \in Open
     /\ Start(c, {[Copy(i, "raise") EXCEPT !.cleared = FALSE]}, TRUE)
     /\ reported' = reported \cup {i} /\ UNCHANGED used

\* Mutant of RaiseNew: nobody looks for an alert with the fingerprint.
RaiseAlways(c) ==
  /\ Call /\ used < MaxAlerts /\ used' = used + 1
  /\ \E s \in {"WARNING", "CRITICAL"} :
       Start(c, {[Blank(used + 1) EXCEPT !.status = "ACTIVE", !.severity = s]}, TRUE)
  /\ reported' = reported \cup {used + 1}

\* raise_alert when none has: a new alert.
RaiseNew(c) ==
  /\ Call /\ used < MaxAlerts /\ used' = used + 1
  /\ \A i \in Stored : rows[i].status \notin Open
  /\ \E s \in {"WARNING", "CRITICAL"} :
       Start(c, {[Blank(used + 1) EXCEPT !.status = "ACTIVE", !.severity = s]}, TRUE)
  /\ reported' = reported \cup {used + 1}

\* raise_alert of an alert with another fingerprint, whose own history is not followed.
RaiseOther ==
  /\ used < MaxAlerts /\ used' = used + 1 /\ others' = others \cup {used + 1}
  /\ UNCHANGED <<rows, batch, due, dwelled, late, calls, faults, reported, orderly>>

\* An operation on the alert with a given id, whatever its status.
Update(c, i, copy, still) ==
  /\ Call /\ i \in Stored /\ Start(c, {copy}, still)
  /\ UNCHANGED <<used, reported>>

\* acknowledge_alert: a closed alert is open again.
Acknowledge(c, i) ==
  Update(c, i, [Copy(i, "ack") EXCEPT !.status = "ACKNOWLEDGED"], rows[i].status \in Open)

\* resolve_alert
Resolve(c, i) == Update(c, i, [Copy(i, "resolve") EXCEPT !.status = "RESOLVED"], TRUE)

\* add_comment rewrites the alert as it was loaded.
Comment(c, i) == Update(c, i, Copy(i, "comment"), TRUE)

\* mark_condition_cleared starts the dwell time.
ConditionCleared(c, i) ==
  /\ Call /\ i \in Stored /\ Start(c, {[Copy(i, "clear") EXCEPT !.cleared = TRUE]}, TRUE)
  /\ reported' = reported \ {i} /\ UNCHANGED used

-----------------------------------------------------------------------------
\* The evaluations: actor c saves the copies that it has changed.
Sweep(c, copies) ==
  copies # {} /\ Start(c, copies, TRUE) /\ UNCHANGED <<used, reported>>

\* Mutant of Overdue: only what was escalated before.
OverdueAgain(i) == rows[i].status = "ACTIVE" /\ rows[i].level > 0

\* What evaluate_escalations looks for besides the time.
Overdue(i) == rows[i].status = "ACTIVE" /\ rows[i].severity = "CRITICAL"

\* evaluate_escalations makes this of the alerts that are old enough.
Escalated(old) ==
  {[Copy(i, "escalate") EXCEPT !.level = @ + 1] : i \in {j \in old \cap Listed : Overdue(j)}}

\* escalate_alerts, with the default timeout.
EvaluateEscalations == Sweep(Escalator, Escalated(due)) /\ UNCHANGED calls

\* POST /evaluate-escalations, with a timeout of the caller's.
EscalateNow(c) == Call /\ \E old \in SUBSET Ids : Sweep(c, Escalated(old))

\* Mutant of Eligible: the dwell time alone decides.
EligibleUnchecked(i) == rows[i].status \in Open

\* check_auto_resolve_eligible, besides the time.
Eligible(i) == rows[i].status \in Open /\ rows[i].cleared

\* What evaluate_auto_resolutions makes of the alerts.
AutoResolved ==
  {[Copy(i, "auto") EXCEPT !.status = "AUTO_RESOLVED"] : i \in {j \in dwelled \cap Listed : Eligible(j)}}

\* auto_resolve_alerts, and POST /evaluate-auto-resolutions.
EvaluateAutoResolutions == Sweep(Resolver, AutoResolved) /\ UNCHANGED calls

AutoResolveNow(c) == Call /\ Sweep(c, AutoResolved)

\* An hour passes without an escalation, or the dwell time without a retrigger.
Age(i) ==
  /\ i \in Stored \ due /\ rows[i].level < MaxLevel /\ due' = due \cup {i}
  /\ UNCHANGED <<rows, batch, used, others, dwelled, late, calls, faults, reported, orderly>>

Dwell(i) ==
  /\ i \in Stored \ dwelled /\ rows[i].cleared /\ dwelled' = dwelled \cup {i}
  /\ UNCHANGED <<rows, batch, used, others, due, late, calls, faults, reported, orderly>>

-----------------------------------------------------------------------------
\* save_async; a new time of escalation or clearing is stored with it.
Write(a) ==
  /\ rows' = [rows EXCEPT ![a.id] = [a EXCEPT !.ver = rows[a.id].ver + 1]]
  /\ due' = IF a.op = "escalate" THEN due \ {a.id} ELSE due
  /\ dwelled' = IF a.op = "clear" THEN dwelled \ {a.id} ELSE dwelled

Save(c) ==
  \E a \in batch[c] :
    /\ Write(a) /\ batch' = [batch EXCEPT ![c] = @ \ {a}]
    /\ UNCHANGED <<used, others, late, calls, faults, reported, orderly>>

\* The save raises or the process dies, and nothing more of the batch is saved.
SaveFails(c) ==
  /\ faults < MaxFaults /\ faults' = faults + 1 /\ orderly' = FALSE
  /\ \E a \in batch[c] : late' \in {late, late \cup {a}}
  /\ batch' = [batch EXCEPT ![c] = {}]
  /\ UNCHANGED <<rows, used, others, due, dwelled, calls, reported>>

LateSave ==
  \E a \in late :
    /\ Write(a) /\ late' = late \ {a}
    /\ UNCHANGED <<batch, used, others, calls, faults, reported, orderly>>

Next ==
  \/ \E c \in Callers :
       \/ RaiseAgain(c) \/ RaiseNew(c) \/ EscalateNow(c) \/ AutoResolveNow(c)
       \/ \E i \in Ids : \/ Acknowledge(c, i) \/ Resolve(c, i) \/ Comment(c, i)
                         \/ ConditionCleared(c, i)
  \/ RaiseOther \/ EvaluateEscalations \/ EvaluateAutoResolutions
  \/ \E i \in Ids : Age(i) \/ Dwell(i)
  \/ \E c \in Actors : Save(c) \/ SaveFails(c)
  \/ LateSave

Spec == Init /\ [][Next]_vars

\* Time passes, escalate_alerts is run again and again (BeatLeader and TaskHarness)
\* and goes on once it has begun.  The schedule's record names no tenant and the
\* scheduler puts the default one in: this is the default tenant's fairness, and no
\* other tenant has it.
FairSpec ==
  /\ Spec
  /\ \A i \in Ids : WF_vars(Age(i))
  /\ WF_vars(EvaluateEscalations) /\ WF_vars(Save(Escalator))

-----------------------------------------------------------------------------
\* "Deduplication against active alerts by fingerprint" (engine.py:4): operations
\* that neither overlap nor fail never leave two open alerts with one fingerprint,
\* as long as nobody acknowledges a closed one.
OneOpenAlert == orderly => Cardinality({i \in Ids : rows[i].status \in Open}) <= 1

\* The same operations auto-resolve an alert only when its condition has not been
\* seen again since it was seen clear: raise_alert resets the dwell time.
QuietWhenResolved ==
  orderly => \A i \in reported : rows[i].status # "AUTO_RESOLVED"

\* Only a copy loaded before makes a closed or acknowledged alert active again, or
\* takes an escalation back; who saw the alert so does not.
OnlyStaleForgets ==
  [][\A i \in Ids :
       rows[i].status # "NONE" /\ rows'[i] # rows[i] /\ rows'[i].base = rows[i].ver =>
         /\ rows'[i].level >= rows[i].level
         /\ rows'[i].status = "ACTIVE" => rows[i].status = "ACTIVE"]_vars

\* "High-severity alerts must NEVER disappear silently" (engine.py:492), for the default
\* tenant and as far as it holds: an alert that is stored as CRITICAL and stays active
\* is escalated in the end, whatever overlaps with the evaluations and fails, unless
\* ListLimit newer alerts of the tenant, closed ones too, push it out of their list.
ListedIsEscalated ==
  \A i \in Ids :
    rows[i].status = "ACTIVE" /\ rows[i].severity = "CRITICAL" ~>
      rows[i].level > 0 \/ rows[i].status # "ACTIVE" \/ i \notin Listed

=============================================================================
