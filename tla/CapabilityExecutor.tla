------------------------- MODULE CapabilityExecutor -------------------------
(***************************************************************************)
(* ConnectorExecutionEngine.execute_capability (connectors/contract/       *)
(* executor.py) for one connector in one process: concurrent calls pass    *)
(* the circuit breaker of their capability, the hourly quota, the token    *)
(* bucket and the adaptive concurrency controller, and report their        *)
(* outcome to the ConnectorLifecycleManager (lifecycle.py).                *)
(*                                                                         *)
(* The calls are coroutines of one event loop: what happens between two    *)
(* awaits is one action.  The token bucket is a wait that ends with the    *)
(* token or with RateLimitExceededException.                               *)
(***************************************************************************)
EXTENDS CircuitBreaker, AdaptiveConcurrency, ConnectorLifecycle, FiniteSets

CONSTANTS
  Calls,            \* concurrent callers of execute_capability
  Capabilities,     \* declared capabilities of the connector
  Foundational,     \* FOUNDATIONAL_CAPABILITIES among them
  MaxRetries,       \* max_retries (3)
  HourlyLimit,      \* hourly quota of the connector
  OperatorTargets   \* states an operator asks transition_state for

ASSUME ExecutorAssumption ==
  /\ IsFiniteSet(Calls)
  /\ Foundational \subseteq Capabilities
  /\ MaxRetries \in Nat
  /\ HourlyLimit \in Nat
  /\ OperatorTargets \subseteq LifecycleStates

VARIABLES
  conn,      \* the connector as the lifecycle manager sees it: a Manager record
  conc,      \* the concurrency controller
  pc,        \* where each call is
  cap,       \* capability of the call
  attempt,   \* attempt of the call
  used       \* requests counted against the quota in this hour

vars == <<conn, conc, pc, cap, attempt, used>>

\* Not in execute_capability, or the await the call is at.
Places == {"idle", "token", "slot", "run", "sleep"}

\* The calls that hold a slot.
InSlot == {c \in Calls : pc[c] \in {"run", "sleep"}}

Unwell == {"DEGRADED", "FAILED"}

\* _capability_health (health and circuit_state of the record; NONE: no record),
\* the breakers of the registry and the lifecycle state.
Managers == [circuit : [Capabilities -> Breakers],
             health : [Capabilities -> Unwell \cup {"NONE", "HEALTHY"}],
             seen : [Capabilities -> CircuitStates],
             life : LifecycleStates]

TypeOK ==
  /\ conn \in Managers
  /\ conc \in Controllers
  /\ pc \in [Calls -> Places]
  /\ cap \in [Calls -> Capabilities]
  /\ attempt \in [Calls -> 0..MaxRetries]
  /\ used \in 0..HourlyLimit

Init ==
  /\ conn = [circuit |-> [k \in Capabilities |-> NewBreaker],
             health |-> [k \in Capabilities |-> "NONE"],
             seen |-> [k \in Capabilities |-> "CLOSED"],
             life |-> "ACTIVE"]
  /\ conc = NewController
  /\ pc = [c \in Calls |-> "idle"]
  /\ cap \in [Calls -> Capabilities]
  /\ attempt = [c \in Calls |-> 0]
  /\ used = 0

-----------------------------------------------------------------------------
(* ConnectorLifecycleManager.                                              *)

\* Mutant of LifeAfterFailure: the current state is not looked at.
LifeAfterAnyFailure(life, k) == IF k \in Foundational THEN "FAILED" ELSE "DEGRADED"

LifeAfterFailure(life, k) ==
  CASE k \in Foundational /\ life \in {"ACTIVE", "DEGRADED", "VALIDATED"} -> "FAILED"
    [] k \notin Foundational /\ life = "ACTIVE" -> "DEGRADED"
    [] OTHER -> life

AfterFailure(m, k) ==
  LET b == Effective(RecordFailure(m.circuit[k]))
  IN  [circuit |-> [m.circuit EXCEPT ![k] = b],
       health |-> [m.health EXCEPT ![k] = IF k \in Foundational THEN "FAILED" ELSE "DEGRADED"],
       seen |-> [m.seen EXCEPT ![k] = b.state],
       life |-> LifeAfterFailure(m.life, k)]

\* _recheck_connector_health, over the records as they were stored.
Rechecked(m) ==
  IF m.life = "DEGRADED" /\ \A k \in Capabilities : m.health[k] \notin Unwell /\ m.seen[k] # "OPEN"
  THEN "ACTIVE" ELSE m.life

AfterSuccess(m, k) ==
  LET b == Effective(RecordSuccess(m.circuit[k]))
      n == [circuit |-> [m.circuit EXCEPT ![k] = b],
            health |-> [m.health EXCEPT ![k] = "HEALTHY"],
            seen |-> [m.seen EXCEPT ![k] = b.state],
            life |-> m.life]
  IN  IF m.health[k] \in Unwell THEN [n EXCEPT !.life = Rechecked(n)] ELSE n

-----------------------------------------------------------------------------
(* execute_capability, await by await.                                     *)

Go(c, l) == pc' = [pc EXCEPT ![c] = l]

\* The breaker's permission and the quota; either may raise.
Enter(c) ==
  /\ pc[c] = "idle"
  /\ \E k \in Capabilities :
       /\ cap' = [cap EXCEPT ![c] = k]
       /\ conn' = [conn EXCEPT !.circuit[k] = Effective(@)]
       /\ IF Effective(conn.circuit[k]).state # "OPEN" /\ used < HourlyLimit
          THEN Go(c, "token") /\ used' = used + 1
          ELSE UNCHANGED <<pc, used>>
  /\ attempt' = [attempt EXCEPT ![c] = 0]
  /\ UNCHANGED conc

\* rate_limiter.acquire_async: a token, or RateLimitExceededException.
Token(c) ==
  /\ pc[c] = "token"
  /\ Go(c, "slot") \/ Go(c, "idle")
  /\ UNCHANGED <<conn, conc, cap, attempt, used>>

\* acquire_slot_async polls until a slot is free; then the request is sent.
Slot(c) ==
  /\ pc[c] = "slot" /\ SlotFree(conc)
  /\ conc' = TakeSlot(conc)
  /\ Go(c, "run")
  /\ UNCHANGED <<conn, cap, attempt, used>>

\* No poll of the 30 s has seen a free slot: the next attempt, or the exception
\* after the last one.
SlotTimeout(c) ==
  /\ pc[c] = "slot" /\ ~SlotFree(conc)
  /\ \/ attempt[c] < MaxRetries /\ Go(c, "token") /\ attempt' = [attempt EXCEPT ![c] = @ + 1]
     \/ attempt[c] = MaxRetries /\ Go(c, "idle") /\ UNCHANGED attempt
  /\ UNCHANGED <<conn, conc, cap, used>>

\* The executor and the lifecycle manager both report a success to the breaker.
Reported(c) == AfterSuccess([conn EXCEPT !.circuit[cap[c]] = RecordSuccess(@)], cap[c])

\* The operation succeeds and is reported.  Then the payload is landed; when that
\* raises, the handler for provider failures takes over.
Succeed(c) ==
  /\ pc[c] = "run"
  /\ conn' \in {Reported(c), AfterFailure(Reported(c), cap[c])}
  /\ conc' = ReleaseSlot(RecordSlotSuccess(conc))
  /\ Go(c, "idle")
  /\ UNCHANGED <<cap, attempt, used>>

\* The landing raises with "429" or "Throttl" in the text, the name of the object for
\* one, and attempts are left: after its success was reported the call is handled as
\* throttled, and the operation is executed again.
LandingThrottled(c) ==
  /\ pc[c] = "run" /\ attempt[c] < MaxRetries
  /\ conn' = Reported(c)
  /\ conc' = RecordThrottle(RecordSlotSuccess(conc))
  /\ Go(c, "sleep")
  /\ attempt' = [attempt EXCEPT ![c] = @ + 1]
  /\ UNCHANGED <<cap, used>>

\* Mutant of Throttle: the attempt is not counted.
ThrottleForever(c) ==
  /\ pc[c] = "run" /\ attempt[c] < MaxRetries
  /\ conc' = RecordThrottle(conc)
  /\ Go(c, "sleep")
  /\ UNCHANGED <<conn, cap, attempt, used>>

\* A throttling error with attempts left: the call sleeps, still in its slot.
Throttle(c) ==
  /\ pc[c] = "run" /\ attempt[c] < MaxRetries
  /\ conc' = RecordThrottle(conc)
  /\ Go(c, "sleep")
  /\ attempt' = [attempt EXCEPT ![c] = @ + 1]
  /\ UNCHANGED <<conn, cap, used>>

Wake(c) ==
  /\ pc[c] = "sleep"
  /\ conc' = ReleaseSlot(conc)
  /\ Go(c, "token")
  /\ UNCHANGED <<conn, cap, attempt, used>>

\* Any other error, or a throttling error on the last attempt.
Fail(c) ==
  /\ pc[c] = "run"
  /\ conn' = AfterFailure(conn, cap[c])
  /\ conc' = ReleaseSlot(conc)
  /\ Go(c, "idle")
  /\ UNCHANGED <<cap, attempt, used>>

\* The caller's task is cancelled at an await: CancelledError passes the handler and
\* only the finally block runs.
Cancel(c) ==
  /\ pc[c] # "idle"
  /\ conc' = IF c \in InSlot THEN ReleaseSlot(conc) ELSE conc
  /\ Go(c, "idle")
  /\ UNCHANGED <<conn, cap, attempt, used>>

-----------------------------------------------------------------------------
(* Around the calls.                                                       *)

\* recovery_timeout_seconds have passed since the breaker tripped.
Cooldown(k) ==
  /\ conn.circuit[k].state = "OPEN" /\ conn.circuit[k].cooldown = "running"
  /\ conn' = [conn EXCEPT !.circuit[k].cooldown = "over"]
  /\ UNCHANGED <<conc, pc, cap, attempt, used>>

\* transition_state on behalf of an operator.
Operate(s) ==
  /\ s \in ALLOWED_TRANSITIONS(conn.life)
  /\ conn' = [conn EXCEPT !.life = s]
  /\ UNCHANGED <<conc, pc, cap, attempt, used>>

\* A new window of the quota tracker.
NextHour ==
  /\ used' = 0
  /\ UNCHANGED <<conn, conc, pc, cap, attempt>>

Proceed(c) ==
  \/ Token(c) \/ Slot(c) \/ SlotTimeout(c)
  \/ Succeed(c) \/ LandingThrottled(c) \/ Throttle(c) \/ Wake(c) \/ Fail(c)

Next ==
  \/ \E c \in Calls : Enter(c) \/ Proceed(c) \/ Cancel(c)
  \/ \E k \in Capabilities : Cooldown(k)
  \/ \E s \in OperatorTargets : Operate(s)
  \/ NextHour

Spec == Init /\ [][Next]_vars

\* A call goes on: the waits have timeouts and the provider answers in the end.
Moves(c) == pc[c] # "idle" /\ \E l \in Places : pc' = [pc EXCEPT ![c] = l]

FairSpec == Spec /\ \A c \in Calls : WF_pc(Moves(c))

-----------------------------------------------------------------------------
\* The slots taken are those of the calls that are running or backing off: no path
\* through the handlers loses a slot or returns one twice, so the floor at 0 in
\* release_slot_sync never hides a mistake.
SlotsMatchCalls == conc.active = Cardinality(InSlot)

\* Every call ends: waiting calls do not starve each other and the retries of a
\* throttled call come to an end, even while others hold the slots and back off.
CallsEnd == \A c \in Calls : (pc[c] # "idle") ~> (pc[c] = "idle")

\* A breaker is CLOSED only below the failure threshold, whatever the order in
\* which calls admitted earlier report their outcome.
ClosedBelowThreshold ==
  \A k \in Capabilities :
    conn.circuit[k].state = "CLOSED" => conn.circuit[k].failures < FailureThreshold

\* A success that arrives late, from a call admitted before the breaker tripped,
\* does not close the breaker: OPEN is left only towards HALF_OPEN, after the
\* recovery timeout.
LateSuccessKeepsOpen ==
  [][\A k \in Capabilities :
       (conn.circuit[k].state = "OPEN" /\ conn'.circuit[k].state # "OPEN") =>
         (conn.circuit[k].cooldown = "over" /\ conn'.circuit[k].state = "HALF_OPEN")]_vars

\* Outcomes of calls respect the operator: a result that arrives after the
\* connector was suspended, deleted or taken back to DRAFT or any other state but
\* VALIDATED, ACTIVE and DEGRADED leaves the lifecycle state alone, and one that
\* restores ACTIVE finds no capability degraded or failed in the health records.
LateResultsRespectOperator ==
  [][(pc' # pc /\ conn'.life # conn.life) =>
       /\ conn.life \in {"VALIDATED", "ACTIVE", "DEGRADED"}
       /\ conn'.life = "ACTIVE" => \A k \in Capabilities : conn'.health[k] \notin Unwell]_vars

=============================================================================
