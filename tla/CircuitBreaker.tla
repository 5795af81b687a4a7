--------------------------- MODULE CircuitBreaker ---------------------------
(***************************************************************************)
(* CapabilityCircuitBreaker (connectors/contract/circuit_breaker.py).      *)
(* A breaker is a record; every method of the class is an operator from    *)
(* the breaker before to the breaker after.  The clock is one bit: whether *)
(* recovery_timeout_seconds have passed since the breaker tripped.         *)
(***************************************************************************)
EXTENDS Naturals

CONSTANTS
  FailureThreshold,   \* circuit_breaker_failure_threshold (5)
  SuccessThreshold    \* circuit_breaker_success_threshold (2)

ASSUME BreakerAssumption ==
  FailureThreshold \in Nat \ {0} /\ SuccessThreshold \in Nat \ {0}

CircuitStates == {"CLOSED", "OPEN", "HALF_OPEN"}

Breakers == [state : CircuitStates, failures : 0..FailureThreshold,
             successes : 0..(SuccessThreshold - 1), cooldown : {"running", "over"}]

NewBreaker == [state |-> "CLOSED", failures |-> 0, successes |-> 0, cooldown |-> "running"]

\* The property state: an OPEN breaker that has cooled becomes HALF_OPEN when it
\* is looked at, and not before.
Effective(b) ==
  IF b.state = "OPEN" /\ b.cooldown = "over"
  THEN [state |-> "HALF_OPEN", failures |-> b.failures, successes |-> 0,
        cooldown |-> "running"]
  ELSE b

\* Mutant of RecordSuccess: any state but CLOSED counts as probing.
RecordSuccessAnyway(b) ==
  CASE b.state # "CLOSED" /\ b.successes + 1 >= SuccessThreshold -> NewBreaker
    [] b.state # "CLOSED" /\ b.successes + 1 < SuccessThreshold ->
         [b EXCEPT !.successes = @ + 1]
    [] b.state = "CLOSED" -> [b EXCEPT !.failures = 0]

RecordSuccess(b) ==
  CASE b.state = "HALF_OPEN" /\ b.successes + 1 >= SuccessThreshold -> NewBreaker
    [] b.state = "HALF_OPEN" /\ b.successes + 1 < SuccessThreshold ->
         [b EXCEPT !.successes = @ + 1]
    [] b.state = "CLOSED" -> [b EXCEPT !.failures = 0]
    [] b.state = "OPEN" -> b

\* The failures are counted to the threshold: beyond it the count makes no
\* difference, since CLOSED is only ever entered with a count of 0.
OneMoreFailure(b) ==
  [b EXCEPT !.failures = IF @ < FailureThreshold THEN @ + 1 ELSE @]

\* Into OPEN; the successes are kept or cleared.
Tripped(b, n) == [state |-> "OPEN", failures |-> b.failures, successes |-> n,
                  cooldown |-> "running"]

\* Mutant of RecordFailure: the threshold is compared before the increment.
RecordFailureLate(b) ==
  LET n == OneMoreFailure(b)
  IN  CASE b.state = "HALF_OPEN" -> Tripped(n, 0)
        [] b.state = "CLOSED" -> IF b.failures >= FailureThreshold THEN Tripped(n, n.successes) ELSE n
        [] b.state = "OPEN" -> n

RecordFailure(b) ==
  LET n == OneMoreFailure(b)
  IN  CASE b.state = "HALF_OPEN" -> Tripped(n, 0)
        [] b.state = "CLOSED" -> IF n.failures >= FailureThreshold THEN Tripped(n, n.successes) ELSE n
        [] b.state = "OPEN" -> n

=============================================================================
