------------------------ MODULE AdaptiveConcurrency ------------------------
(***************************************************************************)
(* AdaptiveConcurrencyController (connectors/contract/                     *)
(* adaptive_concurrency.py): slots under a limit that halves when the      *)
(* provider throttles and grows by one after a streak of successes.        *)
(* A controller is a record; each method is an operator on it.             *)
(***************************************************************************)
EXTENDS Naturals

CONSTANTS
  MinLimit,           \* adaptive_concurrency_min (1)
  MaxLimit,           \* adaptive_concurrency_max (16)
  InitialLimit,       \* adaptive_concurrency_initial (8)
  RecoveryThreshold   \* recovery_success_threshold (5)

ASSUME ConcurrencyAssumption ==
  /\ MinLimit \in Nat \ {0} /\ MaxLimit \in Nat
  /\ InitialLimit \in MinLimit..MaxLimit
  /\ RecoveryThreshold \in Nat \ {0}

Controllers == [limit : MinLimit..MaxLimit, active : 0..MaxLimit,
                streak : 0..(RecoveryThreshold - 1)]

NewController == [limit |-> InitialLimit, active |-> 0, streak |-> 0]

\* Mutant of Halved: the floor is forgotten.
HalvedToZero(n) == n \div 2

Halved(n) == IF n \div 2 >= MinLimit THEN n \div 2 ELSE MinLimit

RecordThrottle(g) == [limit |-> Halved(g.limit), active |-> g.active, streak |-> 0]

StreakReached(g) == g.streak + 1 >= RecoveryThreshold

RecordSlotSuccess(g) ==
  [limit |-> IF StreakReached(g) /\ g.limit < MaxLimit THEN g.limit + 1 ELSE g.limit,
   active |-> g.active,
   streak |-> IF StreakReached(g) THEN 0 ELSE g.streak + 1]

SlotFree(g) == g.active < g.limit

TakeSlot(g) == [g EXCEPT !.active = @ + 1]

\* Mutant of ReleaseSlot: the decrement is lost.
ReleaseNothing(g) == g

ReleaseSlot(g) == [g EXCEPT !.active = IF @ > 0 THEN @ - 1 ELSE @]

=============================================================================
