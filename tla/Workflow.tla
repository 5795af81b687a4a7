------------------------------ MODULE Workflow ------------------------------
(***************************************************************************)
(* WorkflowService (domain/workflows/service.py) on one request: it is     *)
(* submitted, its stages are approved in order, and the approved change is *)
(* applied.                                                                *)
(*                                                                         *)
(* Each operation loads the row of the request, works on its copy, applies *)
(* the change when the last stage is complete, and then saves the whole    *)
(* copy by an upsert that compares no version.  Approvers, the requester   *)
(* and the two evaluators do this at the same time, in different processes.*)
(* run_async gives a database call up after ten seconds without cancelling *)
(* it: a change or a save that was reported as failed may come later.      *)
(*                                                                         *)
(* Of a stage the model keeps the number of its APPROVE decisions.  Who may*)
(* decide, comments, history, deadlines and the audit events are left out; *)
(* each request has at least one stage.  The types for which no applier is *)
(* registered (9 of the 14) go through the same operations; applying them  *)
(* changes nothing.                                                        *)
(***************************************************************************)
EXTENDS Naturals, FiniteSets

CONSTANTS
  Callers,     \* threads that serve an operation on the request
  Last,        \* the number of stages
  Mode,        \* SERIAL or PARALLEL, for each stage
  Quorum,      \* approvals a PARALLEL stage needs
  MaxCalls     \* bound: operations

Stages == 1..Last

ASSUME WorkflowAssumption ==
  /\ IsFiniteSet(Callers)
  /\ Last \in Nat \ {0} /\ MaxCalls \in Nat
  /\ Mode \in [Stages -> {"SERIAL", "PARALLEL"}]
  /\ Quorum \in [Stages -> Nat \ {0}]

VARIABLES
  row,         \* the request as stored, and the number of times it was written
  pc,          \* where each caller is
  copy,        \* the request as each caller has it
  lateSaves,   \* saves nobody waits for any more
  lateApplies, \* how many such changes are on their way
  calls,       \* operations so far
  asked,       \* what submit_request decided about the request
  cast,        \* the approvals given at each stage
  effects,     \* how often the change was made
  alone        \* "yes" as long as no operation met another one or a failure

vars == <<row, pc, copy, lateSaves, lateApplies, calls, asked, cast, effects, alone>>

Final == {"APPLIED", "REJECTED", "WITHDRAWN", "EXPIRED"}
States == {"NONE", "IN_REVIEW", "APPROVED"} \cup Final

\* stage: current_stage_index; n: approved_count of each stage; applier: whether one
\* is registered for its request_type; ver: in the row the number of its writes, in a
\* copy the one it was loaded at; call: whose copy it is.
Requests == [state : States, stage : Stages, n : [Stages -> Nat], applier : {"yes", "no"},
             escalated : {"yes", "no"}, ver : Nat, call : Nat]

\* The types; APPROVED exists in copies only.
TypeOK ==
  /\ row \in Requests /\ row.state # "APPROVED"
  /\ pc \in [Callers -> {"idle", "loaded", "apply", "save"}]
  /\ copy \in [Callers -> Requests]
  /\ lateSaves \subseteq Requests
  /\ lateApplies \in Nat /\ calls \in Nat /\ effects \in Nat
  /\ asked \in {"no", "review", "waived"}
  /\ cast \in [Stages -> Nat]
  /\ alone \in {"yes", "no"}

\* A request at its first stage.
Fresh(state, applier, escalated, call) ==
  [state |-> state, stage |-> 1, n |-> [s \in Stages |-> 0], applier |-> applier,
   escalated |-> escalated, ver |-> 0, call |-> call]

NoRequest == Fresh("NONE", "no", "no", 0)

Init ==
  /\ row = NoRequest
  /\ pc = [c \in Callers |-> "idle"]
  /\ copy = [c \in Callers |-> NoRequest]
  /\ lateSaves = {} /\ lateApplies = 0
  /\ calls = 0 /\ asked = "no" /\ cast = [s \in Stages |-> 0]
  /\ effects = 0 /\ alone = "yes"

Goto(c, l) == pc' = [pc EXCEPT ![c] = l]

\* The operation returns or raises.
End(c) == Goto(c, "idle") /\ copy' = [copy EXCEPT ![c] = NoRequest]

\* An operation begins.
Begin(c) ==
  /\ pc[c] = "idle" /\ calls < MaxCalls /\ calls' = calls + 1
  /\ alone' = IF \A d \in Callers : pc[d] = "idle" THEN alone ELSE "no"

-----------------------------------------------------------------------------
\* submit_request: the request needs no approval and is applied, or its first stage
\* is opened, escalated at once when an approver is away without a delegate.
Submit(c) ==
  /\ asked = "no" /\ Begin(c)
  /\ \E a, e \in {"yes", "no"} :
       \/ /\ asked' = "waived"
          /\ copy' = [copy EXCEPT ![c] = Fresh("APPROVED", a, "no", calls + 1)]
          /\ Goto(c, "apply")
       \/ /\ asked' = "review"
          /\ copy' = [copy EXCEPT ![c] = Fresh("IN_REVIEW", a, e, calls + 1)]
          /\ Goto(c, "save")
  /\ UNCHANGED <<row, lateSaves, lateApplies, cast, effects>>

\* Mutant of Load: the state of the request is not looked at.
LoadAny(c) ==
  /\ row.state # "NONE" /\ Begin(c)
  /\ copy' = [copy EXCEPT ![c] = [row EXCEPT !.call = calls + 1]]
  /\ Goto(c, "loaded")
  /\ UNCHANGED <<row, lateSaves, lateApplies, asked, cast, effects>>

\* repository.get, or the evaluators' list of the requests in review.  A finalized
\* request is refused.
Load(c) ==
  /\ row.state # "NONE" /\ row.state \notin Final
  /\ Begin(c)
  /\ copy' = [copy EXCEPT ![c] = [row EXCEPT !.call = calls + 1]]
  /\ Goto(c, "loaded")
  /\ UNCHANGED <<row, lateSaves, lateApplies, asked, cast, effects>>

\* Mutant of StageComplete: one approval short.
AlmostComplete(s, n) == Mode[s] = "SERIAL" \/ n + 1 >= Quorum[s]

\* curr_stage.mode == SERIAL or curr_stage.is_quorum_met
StageComplete(s, n) == Mode[s] = "SERIAL" \/ n >= Quorum[s]

\* Mutant of Approved: the decision of a complete stage is not kept.
ApprovedUncounted(r) ==
  LET k == r.n[r.stage] + 1
      decided == [r EXCEPT !.n = [@ EXCEPT ![r.stage] = k]]
  IN  IF ~ StageComplete(r.stage, k) THEN decided
      ELSE IF r.stage < Last THEN [r EXCEPT !.stage = @ + 1]
      ELSE [r EXCEPT !.state = "APPROVED"]

\* The request after an APPROVE decision: kept, at its next stage, or approved.
Approved(r) ==
  LET k == r.n[r.stage] + 1
      decided == [r EXCEPT !.n = [@ EXCEPT ![r.stage] = k]]
  IN  IF ~ StageComplete(r.stage, k) THEN decided
      ELSE IF r.stage < Last THEN [decided EXCEPT !.stage = @ + 1]
      ELSE [decided EXCEPT !.state = "APPROVED"]

\* record_decision, APPROVE
Approve(c) ==
  /\ pc[c] = "loaded"
  /\ copy' = [copy EXCEPT ![c] = Approved(copy[c])]
  /\ cast' = [cast EXCEPT ![copy[c].stage] = @ + 1]
  /\ Goto(c, IF Approved(copy[c]).state = "APPROVED" THEN "apply" ELSE "save")
  /\ UNCHANGED <<row, lateSaves, lateApplies, calls, asked, effects, alone>>

\* The copy gets its new state and is saved.
Decide(c, state) ==
  /\ pc[c] = "loaded"
  /\ copy' = [copy EXCEPT ![c].state = state]
  /\ Goto(c, "save")
  /\ UNCHANGED <<row, lateSaves, lateApplies, calls, asked, cast, effects, alone>>

\* record_decision, REJECT
Reject(c) == Decide(c, "REJECTED")

\* record_decision, REQUEST_MORE_INFO: only the history grows.
RequestMoreInfo(c) == Decide(c, "IN_REVIEW")

\* withdraw_request
Withdraw(c) == Decide(c, "WITHDRAWN")

\* evaluate_expirations, for a request past its due date
Expire(c) == Decide(c, "EXPIRED")

\* evaluate_escalations
Escalate(c) ==
  /\ pc[c] = "loaded" /\ copy[c].escalated = "no"
  /\ copy' = [copy EXCEPT ![c].escalated = "yes"]
  /\ Goto(c, "save")
  /\ UNCHANGED <<row, lateSaves, lateApplies, calls, asked, cast, effects, alone>>

\* Nothing is due, or an exception before the decision: the caller may not decide, a
\* comment is missing, no approver can be resolved, the definition has lost the stage.
Refuse(c) ==
  /\ pc[c] = "loaded" /\ End(c)
  /\ UNCHANGED <<row, lateSaves, lateApplies, calls, asked, cast, effects, alone>>

-----------------------------------------------------------------------------
\* _apply_approved_request: the applier makes the change; without one nothing is made,
\* and the request becomes APPLIED all the same.
Apply(c) ==
  /\ pc[c] = "apply"
  /\ effects' = IF copy[c].applier = "yes" THEN effects + 1 ELSE effects
  /\ copy' = [copy EXCEPT ![c].state = "APPLIED"]
  /\ Goto(c, "save")
  /\ UNCHANGED <<row, lateSaves, lateApplies, calls, asked, cast, alone>>

\* Mutant of ApplyFails: the failure is only logged.
ApplyFailsSilently(c) ==
  /\ pc[c] = "apply" /\ copy[c].applier = "yes"
  /\ copy' = [copy EXCEPT ![c].state = "APPLIED"]
  /\ Goto(c, "save")
  /\ UNCHANGED <<row, lateSaves, lateApplies, calls, asked, cast, effects, alone>>

\* The applier raises: back to review, with the error attached.
ApplyFails(c) ==
  /\ pc[c] = "apply" /\ copy[c].applier = "yes"
  /\ copy' = [copy EXCEPT ![c].state = "IN_REVIEW"]
  /\ Goto(c, "save")
  /\ UNCHANGED <<row, lateSaves, lateApplies, calls, asked, cast, effects, alone>>

\* Mutant of ApplyTimesOut: the applier is called again.
ApplyTriedAgain(c) ==
  /\ pc[c] = "apply" /\ copy[c].applier = "yes"
  /\ lateApplies = 0 /\ lateApplies' = 1 /\ alone' = "no"
  /\ UNCHANGED <<row, pc, copy, lateSaves, calls, asked, cast, effects>>

\* The applier's own save is given up, which is handled like a failure.
ApplyTimesOut(c) ==
  /\ pc[c] = "apply" /\ copy[c].applier = "yes"
  /\ copy' = [copy EXCEPT ![c].state = "IN_REVIEW"]
  /\ lateApplies' = lateApplies + 1 /\ alone' = "no"
  /\ Goto(c, "save")
  /\ UNCHANGED <<row, lateSaves, calls, asked, cast, effects>>

\* The process dies while it applies the change, which may be on its way.
DieApplying(c) ==
  /\ pc[c] = "apply"
  /\ \/ lateApplies' = lateApplies
     \/ copy[c].applier = "yes" /\ lateApplies' = lateApplies + 1
  /\ alone' = "no" /\ End(c)
  /\ UNCHANGED <<row, lateSaves, calls, asked, cast, effects>>

\* A change that was given up is made after all, or never.
LateApply ==
  /\ lateApplies > 0 /\ lateApplies' = lateApplies - 1
  /\ effects' \in {effects, effects + 1}
  /\ UNCHANGED <<row, pc, copy, lateSaves, calls, asked, cast, alone>>

-----------------------------------------------------------------------------
\* INSERT ... ON CONFLICT (id) DO UPDATE
Write(r) == row' = [r EXCEPT !.ver = row.ver + 1, !.call = 0]

Save(c) ==
  /\ pc[c] = "save" /\ Write(copy[c]) /\ End(c)
  /\ UNCHANGED <<lateSaves, lateApplies, calls, asked, cast, effects, alone>>

\* The save fails, or the process dies before it.
SaveFails(c) ==
  /\ pc[c] = "save" /\ End(c) /\ alone' = "no"
  /\ UNCHANGED <<row, lateSaves, lateApplies, calls, asked, cast, effects>>

\* run_async gives the save up, or the process dies with it on its way.
SaveTimesOut(c) ==
  /\ pc[c] = "save" /\ End(c) /\ alone' = "no"
  /\ lateSaves' = lateSaves \cup {copy[c]}
  /\ UNCHANGED <<row, lateApplies, calls, asked, cast, effects>>

\* It commits after all, over whatever is stored by then, or never.
LateSave(r) ==
  /\ r \in lateSaves /\ lateSaves' = lateSaves \ {r}
  /\ Write(r) \/ UNCHANGED row
  /\ UNCHANGED <<pc, copy, lateApplies, calls, asked, cast, effects, alone>>

-----------------------------------------------------------------------------
Next ==
  \/ \E c \in Callers :
       \/ Submit(c) \/ Load(c) \/ Approve(c) \/ Reject(c) \/ RequestMoreInfo(c)
       \/ Withdraw(c) \/ Expire(c) \/ Escalate(c) \/ Refuse(c)
       \/ Apply(c) \/ ApplyFails(c) \/ ApplyTimesOut(c) \/ DieApplying(c)
       \/ Save(c) \/ SaveFails(c) \/ SaveTimesOut(c)
  \/ LateApply
  \/ \E r \in lateSaves : LateSave(r)

Spec == Init /\ [][Next]_vars

-----------------------------------------------------------------------------
\* The approvals a stage needs.
Need == [s \in Stages |-> IF Mode[s] = "SERIAL" THEN 1 ELSE Quorum[s]]

Contract == INSTANCE ApprovalContract
              WITH Need <- Need, asked <- asked, cast <- cast, effects <- effects

\* Whatever operations overlap, are lost or come late, the change is made only after
\* every stage has really had its approvals, each after the stages before it, or when
\* none was needed.
HonoursContract == Contract!Spec

\* A request is shown as APPLIED only when every stage has had its approvals, or none
\* was needed, and, if its type has an applier, its change was made at least once.
AppliedIsBacked ==
  row.state = "APPLIED" =>
    /\ asked = "waived" \/ \A s \in Stages : cast[s] >= Need[s]
    /\ row.applier = "yes" => effects > 0

\* Saves that are lost after the change was made, final approvals that overlap and late
\* changes make it again, but each time at the price of one more approval of the last
\* stage: nobody's single decision is ever applied twice.
RepeatsTakeVotes ==
  effects > 0 => effects + (IF asked = "waived" THEN 0 ELSE Need[Last]) <= cast[Last] + 1

\* Operations that neither overlap nor fail lose no approval, and make the change, if
\* the type has one, exactly when they record it, once.
AloneIsExact ==
  (alone = "yes" /\ \A c \in Callers : pc[c] = "idle") =>
    /\ row.n = cast
    /\ effects = IF row.state = "APPLIED" /\ row.applier = "yes" THEN 1 ELSE 0

\* Who still works on a finalized request loaded it before it was finalized: only an
\* operation that overlaps the last one can overwrite its outcome or apply its change.
ClosedIsFinal ==
  row.state \in Final =>
    /\ \A c \in Callers : pc[c] # "idle" => copy[c].ver < row.ver
    /\ \A r \in lateSaves : r.ver < row.ver

=============================================================================
