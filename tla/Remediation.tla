---------------------------- MODULE Remediation ----------------------------
(***************************************************************************)
(* RemediationService (domain/remediation/service.py) on one task: it is   *)
(* created, worked on, retested by the verifier and closed, and the saving *)
(* it realised is entered in the ledger.                                   *)
(*                                                                         *)
(* Each operation loads the row, changes its copy and saves the whole copy *)
(* by an upsert that compares no version; between load and save nothing    *)
(* shared is read, so both are one step up to the save.  A retest that     *)
(* clears the task writes the ledger entry first and the row afterwards.   *)
(* run_async gives a database call up after ten seconds without cancelling *)
(* it, so a write that was reported as failed may still come.              *)
(*                                                                         *)
(* What the verifier finds is arbitrary: resources change meanwhile.  Left *)
(* out: history, assignee, priority, the linked alert, audit events (their *)
(* failures are swallowed) and the refusals, which change nothing.         *)
(***************************************************************************)
EXTENDS Naturals, FiniteSets

CONSTANTS
  Callers,     \* threads that serve an operation on the task
  MaxCalls     \* bound: operations

ASSUME RemediationAssumption == MaxCalls \in Nat /\ IsFiniteSet(Callers)

VARIABLES
  row,         \* the task as stored
  pc,          \* where each caller is
  copy,        \* the task as each caller has it
  ledger,      \* how many saving entries the task has
  lateSaves,   \* saves nobody waits for any more
  lateCredits, \* how many such ledger entries are on their way
  calls,       \* operations so far
  saving,      \* whether the task carries an estimated saving
  retests,     \* how many retests the verifier made
  cleared,     \* how many of them found the condition gone
  closures,    \* how often the row was written as fixed and verified
  alone        \* TRUE as long as no operation met another one or a failure

vars == <<row, pc, copy, ledger, lateSaves, lateCredits, calls, saving,
          retests, cleared, closures, alone>>

Terminal == {"CLOSED", "REJECTED", "DUPLICATE"}

VALID_TRANSITIONS ==
  [OPEN |-> {"ASSIGNED", "IN_PROGRESS", "DEFERRED", "DUPLICATE", "REJECTED"},
   ASSIGNED |-> {"IN_PROGRESS", "BLOCKED", "AWAITING_VERIFICATION", "RESOLVED",
                 "DEFERRED", "DUPLICATE", "REJECTED"},
   IN_PROGRESS |-> {"BLOCKED", "AWAITING_VERIFICATION", "RESOLVED", "DEFERRED",
                    "DUPLICATE"},
   BLOCKED |-> {"IN_PROGRESS", "AWAITING_VERIFICATION", "RESOLVED", "DEFERRED"},
   AWAITING_VERIFICATION |-> {"VERIFIED", "CLOSED", "OPEN"},
   RESOLVED |-> {"AWAITING_VERIFICATION", "VERIFIED", "CLOSED", "OPEN"},
   VERIFIED |-> {"CLOSED"},
   DEFERRED |-> {"OPEN", "IN_PROGRESS"},
   CLOSED |-> {"OPEN"},
   REJECTED |-> {},
   DUPLICATE |-> {}]

States == DOMAIN VALID_TRANSITIONS

Ops == {"create", "transition", "reopen", "assign", "resolve", "verify", "defer",
        "accept_risk", "close_duplicate", "expire", "touch"}

\* code: closure_code; expiry: whether deferral_expiry is set; attempts:
\* verification_attempts; op: who wrote it; base, ver: the write it was loaded at,
\* and its own.
Tasks == [state : States \cup {"NONE"}, expiry : BOOLEAN, attempts : Nat,
          code : {"NONE", "FIXED_AND_VERIFIED", "RISK_ACCEPTED", "DUPLICATE_SUPERSEDED"},
          op : Ops, base : Nat, ver : Nat]

\* The types; a caller crediting or saving has a copy.
TypeOK ==
  /\ row \in Tasks
  /\ pc \in [Callers -> {"idle", "credit", "save", "verify", "mirror"}]
  /\ copy \in [Callers -> Tasks]
  /\ \A c \in Callers : pc[c] # "idle" => copy[c].state # "NONE"
  /\ lateSaves \subseteq Tasks
  /\ {ledger, lateCredits, calls, retests, cleared, closures} \subseteq Nat
  /\ {saving, alone} \subseteq BOOLEAN

NoTask == [state |-> "NONE", expiry |-> FALSE, attempts |-> 0, code |-> "NONE",
           op |-> "create", base |-> 0, ver |-> 0]

Init ==
  /\ row = NoTask
  /\ pc = [c \in Callers |-> "idle"]
  /\ copy = [c \in Callers |-> NoTask]
  /\ ledger = 0 /\ lateSaves = {} /\ lateCredits = 0
  /\ calls = 0 /\ retests = 0 /\ cleared = 0 /\ closures = 0
  /\ saving \in BOOLEAN /\ alone = TRUE

Goto(c, l) == pc' = [pc EXCEPT ![c] = l]

\* The operation returns or raises.
End(c) == Goto(c, "idle") /\ copy' = [copy EXCEPT ![c] = NoTask]

\* An operation begins.
Begin(c) ==
  /\ pc[c] = "idle" /\ calls < MaxCalls /\ calls' = calls + 1
  /\ alone' = (alone /\ \A d \in Callers : pc[d] = "idle")

\* A copy to be saved, changed by the operation op.
Change(c, task, op) ==
  /\ copy' = [copy EXCEPT ![c] = [task EXCEPT !.op = op, !.base = row.ver]]
  /\ Goto(c, "save")
  /\ UNCHANGED <<row, ledger, lateSaves, lateCredits, saving, retests, cleared, closures>>

-----------------------------------------------------------------------------
\* create_task: assigned at once when an assignee is given or resolved.
CreateTask(c) ==
  /\ calls = 0 /\ Begin(c)
  /\ \E s \in {"OPEN", "ASSIGNED"} : Change(c, [NoTask EXCEPT !.state = s], "create")

\* Mutant of GetOpenTask: is_terminal is not asked.
GetAnyTask(c) == Begin(c) /\ row.state # "NONE"

\* get_task of the operations that refuse a terminal task.
GetOpenTask(c) == Begin(c) /\ row.state # "NONE" /\ row.state \notin Terminal

\* transition_state: along the graph; a terminal task may only be opened again.
TransitionState(c) ==
  /\ Begin(c) /\ row.state # "NONE"
  /\ \E s \in VALID_TRANSITIONS[row.state] :
     /\ row.state \in Terminal => s = "OPEN"
     /\ s \in {"VERIFIED", "CLOSED"} =>
          row.state \in {"AWAITING_VERIFICATION", "RESOLVED", "VERIFIED"}
     /\ Change(c, [row EXCEPT !.state = s],
               IF row.state \in Terminal THEN "reopen" ELSE "transition")

\* assign_task and bulk_assign.
AssignTask(c) ==
  /\ GetOpenTask(c)
  /\ Change(c, [row EXCEPT !.state = IF @ = "OPEN" THEN "ASSIGNED" ELSE @], "assign")

\* resolve_task up to its save; the retest follows.
ResolveTask(c) ==
  GetOpenTask(c) /\ Change(c, [row EXCEPT !.state = "AWAITING_VERIFICATION"], "resolve")

\* defer_task and bulk_defer.
DeferTask(c) ==
  GetOpenTask(c) /\ Change(c, [row EXCEPT !.state = "DEFERRED", !.expiry = TRUE], "defer")

\* accept_risk, whatever the state of the task.
AcceptRisk(c) ==
  /\ Begin(c) /\ row.state # "NONE"
  /\ Change(c, [row EXCEPT !.state = "CLOSED", !.code = "RISK_ACCEPTED"], "accept_risk")

\* bulk_close_duplicate, whatever the state of the task.
CloseDuplicate(c) ==
  /\ Begin(c) /\ row.state # "NONE"
  /\ Change(c, [row EXCEPT !.state = "DUPLICATE", !.code = "DUPLICATE_SUPERSEDED"],
            "close_duplicate")

\* check_expired_deferrals on a deferral whose time has come.
ExpireDeferral(c) ==
  /\ Begin(c) /\ row.state = "DEFERRED" /\ row.expiry
  /\ Change(c, [row EXCEPT !.state = "OPEN", !.expiry = FALSE], "expire")

\* The next three write the whole copy back and change no field that is kept here.
\* check_overdue_and_escalate
EscalateOverdue(c) ==
  /\ Begin(c) /\ row.state \in {"OPEN", "ASSIGNED", "IN_PROGRESS", "BLOCKED"}
  /\ Change(c, row, "touch")

\* mirror_to_itsm, when the adapter has opened a ticket.
MirrorToItsm(c) == Begin(c) /\ row.state # "NONE" /\ Change(c, row, "touch")

\* bulk_reprioritise
Reprioritise(c) == Begin(c) /\ row.state # "NONE" /\ Change(c, row, "touch")

\* verify_task up to its first write: the condition is retested.  A cleared task
\* with a saving is credited before it is saved; any other retest reopens the task.
Retest(c) ==
  \E ok \in BOOLEAN :
    /\ copy' = [copy EXCEPT ![c] =
         [row EXCEPT !.attempts = @ + 1, !.op = "verify", !.base = row.ver,
                     !.state = IF ok THEN "CLOSED" ELSE "OPEN",
                     !.code = IF ok THEN "FIXED_AND_VERIFIED" ELSE @]]
    /\ retests' = retests + 1
    /\ cleared' = IF ok THEN cleared + 1 ELSE cleared
    /\ Goto(c, IF ok /\ saving THEN "credit" ELSE "save")
    /\ UNCHANGED <<row, ledger, lateSaves, lateCredits, saving, closures>>

VerifyTask(c) == Begin(c) /\ row.state # "NONE" /\ Retest(c)

\* resolve_task goes on with verify_task, which loads the task again.
VerifyResolved(c) == pc[c] = "verify" /\ Retest(c) /\ UNCHANGED <<calls, alone>>

-----------------------------------------------------------------------------
\* Mutant of Credit: the entry is written twice.
CreditTwice(c) ==
  /\ pc[c] = "credit" /\ ledger' = ledger + 2 /\ Goto(c, "save")
  /\ UNCHANGED <<row, copy, lateSaves, lateCredits, calls, saving, retests, cleared,
                 closures, alone>>

\* ledger.record_saving: a new entry with an id of its own.
Credit(c) ==
  /\ pc[c] = "credit" /\ ledger' = ledger + 1 /\ Goto(c, "save")
  /\ UNCHANGED <<row, copy, lateSaves, lateCredits, calls, saving, retests, cleared,
                 closures, alone>>

\* Mutant of CreditFails: the failure is swallowed and the task saved.
CreditSwallowed(c) ==
  /\ pc[c] = "credit" /\ alone' = FALSE /\ Goto(c, "save")
  /\ UNCHANGED <<row, copy, lateSaves, lateCredits, calls, saving, retests, cleared,
                 closures, ledger>>

\* record_saving raises, and verify_task with it: the task is not saved.  The entry
\* may come later.
CreditFails(c) ==
  /\ pc[c] = "credit" /\ alone' = FALSE /\ End(c)
  /\ lateCredits' \in {lateCredits, lateCredits + 1}
  /\ UNCHANGED <<row, ledger, lateSaves, calls, saving, retests, cleared, closures>>

LateCredit ==
  /\ lateCredits > 0 /\ lateCredits' = lateCredits - 1 /\ ledger' = ledger + 1
  /\ UNCHANGED <<row, pc, copy, lateSaves, calls, saving, retests, cleared, closures, alone>>

\* Mutant of Write: on a conflict the stored row stays.
WriteOnce(task) ==
  /\ row' = [IF row.state = "NONE" THEN task ELSE row EXCEPT !.ver = row.ver + 1]
  /\ closures' = IF task.op = "verify" /\ task.state = "CLOSED"
                 THEN closures + 1 ELSE closures

\* save_async: the copy replaces the row.
Write(task) ==
  /\ row' = [task EXCEPT !.ver = row.ver + 1]
  /\ closures' = IF task.op = "verify" /\ task.state = "CLOSED"
                 THEN closures + 1 ELSE closures

\* repository.save, and what the operation does after it: resolve_task verifies, and
\* create_task may mirror the task and save the copy it has a second time.
Save(c) ==
  /\ pc[c] \in {"save", "mirror"} /\ Write(copy[c])
  /\ CASE pc[c] = "save" /\ copy[c].op = "resolve" ->
            Goto(c, "verify") /\ UNCHANGED copy
       [] pc[c] = "save" /\ copy[c].op = "create" ->
            End(c) \/ (Goto(c, "mirror") /\ UNCHANGED copy)
       [] OTHER -> End(c)
  /\ UNCHANGED <<ledger, lateSaves, lateCredits, calls, saving, retests, cleared, alone>>

\* The save raises, or the process dies before a save or a retest; the save may come
\* later.
SaveFails(c) ==
  /\ pc[c] \in {"save", "mirror", "verify"} /\ alone' = FALSE /\ End(c)
  /\ \/ lateSaves' = lateSaves
     \/ pc[c] # "verify" /\ lateSaves' = lateSaves \cup {copy[c]}
  /\ UNCHANGED <<row, ledger, lateCredits, calls, saving, retests, cleared, closures>>

LateSave ==
  \E t \in lateSaves :
    /\ Write(t) /\ lateSaves' = lateSaves \ {t}
    /\ UNCHANGED <<pc, copy, ledger, lateCredits, calls, saving, retests, cleared, alone>>

Next ==
  \/ \E c \in Callers :
       \/ CreateTask(c) \/ TransitionState(c) \/ AssignTask(c) \/ ResolveTask(c)
       \/ DeferTask(c) \/ AcceptRisk(c) \/ CloseDuplicate(c) \/ ExpireDeferral(c)
       \/ EscalateOverdue(c) \/ MirrorToItsm(c) \/ Reprioritise(c)
       \/ VerifyTask(c) \/ VerifyResolved(c) \/ Credit(c) \/ CreditFails(c) \/ Save(c) \/ SaveFails(c)
  \/ LateCredit \/ LateSave

Spec == Init /\ [][Next]_vars

-----------------------------------------------------------------------------
\* Each closure that verify_task stores as fixed and verified has an entry of its own
\* in the ledger by then, whatever failed, came late or overlapped: record_saving
\* comes before the save, and its failure keeps the task open.  Only verify_task's own
\* saves count; another operation that writes a kept closure_code back closes nothing.
EveryClosureCredited == saving => closures <= ledger

\* The ledger never has more entries than retests that found the condition gone, not
\* even with the entries still on their way.  (It may have more than closures: the
\* entry of a closure that is not saved stays.)
EveryCreditRetested == ledger + lateCredits <= IF saving THEN cleared ELSE 0

\* Operations that neither overlap nor fail lose nothing: between them each cleared
\* retest has closed the task once and credited it once, and verification_attempts
\* is the number of retests.
AloneIsExact ==
  alone /\ (\A c \in Callers : pc[c] = "idle") =>
    /\ row.attempts = retests
    /\ closures = cleared
    /\ ledger = IF saving THEN cleared ELSE 0

\* The operations that may take a task out of a terminal state.
Unguarded == {"verify", "accept_risk", "close_duplicate", "reopen"}

\* A terminal task that is written over by an operation that saw it so was opened
\* again, retested, accepted as a risk or marked a duplicate, or kept its state; any
\* other change of it comes from a copy loaded before.
OnlyStaleUndoes ==
  [][row.state \in Terminal /\ row'.state # row.state /\ row'.base = row.ver =>
       row'.op \in Unguarded]_vars

=============================================================================
