-------------------------- MODULE ApprovalContract --------------------------
(***************************************************************************)
(* What the approval workflows promise about one request: the change takes *)
(* effect only when it needed no approval or when every stage has had its  *)
(* approvals, and the approvers of a stage decide after the stages before  *)
(* it.  Nothing is said about how often the change is applied.             *)
(***************************************************************************)
EXTENDS Naturals

CONSTANTS
  Stages,     \* 1..n
  Need        \* the approvals each stage needs

VARIABLES
  asked,      \* "no", "review", or "waived": no approval is needed
  cast,       \* approvals given at each stage
  effects     \* how often the change was made

contractVars == <<asked, cast, effects>>

Done(s) == cast[s] >= Need[s]

Init ==
  /\ asked = "no"
  /\ cast = [s \in Stages |-> 0]
  /\ effects = 0

Ask ==
  /\ asked = "no" /\ asked' \in {"review", "waived"}
  /\ UNCHANGED <<cast, effects>>

Cast(s) ==
  /\ asked # "no"
  /\ \A t \in Stages : t < s => Done(t)
  /\ cast' = [cast EXCEPT ![s] = @ + 1]
  /\ UNCHANGED <<asked, effects>>

Effect ==
  /\ asked = "waived" \/ (asked = "review" /\ \A s \in Stages : Done(s))
  /\ effects' = effects + 1
  /\ UNCHANGED <<asked, cast>>

Next == Ask \/ (\E s \in Stages : Cast(s)) \/ Effect

Spec == Init /\ [][Next]_contractVars

=============================================================================
