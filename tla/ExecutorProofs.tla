--------------------------- MODULE ExecutorProofs ---------------------------
(***************************************************************************)
(* Safety of the execution engine: the capabilities, for every number of   *)
(* calls and capabilities and all limits and thresholds, and the           *)
(* collection over pages, for any number of pages, deaths and database     *)
(* errors.                                                                 *)
(***************************************************************************)
EXTENDS CapabilityExecutor, PaginatedSync, FiniteSetTheorems, TLAPS

-----------------------------------------------------------------------------
(* The operators of the breaker and of the controller.                     *)

\* The methods of a breaker keep its type and keep a CLOSED breaker below the
\* failure threshold.
Sound(b) == b.state = "CLOSED" => b.failures < FailureThreshold

LEMMA BreakerOps ==
  ASSUME NEW b \in Breakers, Sound(b)
  PROVE  /\ Effective(b) \in Breakers /\ Sound(Effective(b))
         /\ RecordSuccess(b) \in Breakers /\ Sound(RecordSuccess(b))
         /\ RecordFailure(b) \in Breakers /\ Sound(RecordFailure(b))
<1> USE BreakerAssumption DEF Breakers, CircuitStates, Sound
<1>1. Effective(b) \in Breakers /\ Sound(Effective(b))
  BY DEF Effective
<1>2. RecordSuccess(b) \in Breakers /\ Sound(RecordSuccess(b))
  BY DEF RecordSuccess, NewBreaker
<1>3. RecordFailure(b) \in Breakers /\ Sound(RecordFailure(b))
  <2> DEFINE n == OneMoreFailure(b)
  <2>1. n \in Breakers /\ n.state = b.state
    BY DEF OneMoreFailure
  <2> HIDE DEF n
  <2>2. \A k \in 0..(SuccessThreshold - 1) :
          Tripped(n, k) \in Breakers /\ Tripped(n, k).state = "OPEN"
    BY <2>1 DEF Tripped
  <2> QED
    BY <2>1, <2>2 DEF RecordFailure, n
<1> QED
  BY <1>1, <1>2, <1>3

\* What the methods do to an OPEN breaker.
LEMMA OpenOps ==
  ASSUME NEW b \in Breakers, b.state = "OPEN"
  PROVE  /\ RecordSuccess(b) = b
         /\ RecordFailure(b).state = "OPEN" /\ RecordFailure(b).cooldown = b.cooldown
         /\ Effective(b).state \in {"OPEN", "HALF_OPEN"}
         /\ b.cooldown = "running" => Effective(b) = b
         /\ b.cooldown = "over" => Effective(b).state = "HALF_OPEN"
BY BreakerAssumption
   DEF Breakers, RecordSuccess, RecordFailure, OneMoreFailure, Tripped, Effective

\* A failed probe trips the breaker afresh.
LEMMA HalfOpenFails ==
  ASSUME NEW b \in Breakers, b.state = "HALF_OPEN"
  PROVE  Effective(RecordFailure(b)).state = "OPEN"
BY BreakerAssumption
   DEF Breakers, RecordFailure, OneMoreFailure, Tripped, Effective

LEMMA ControllerOps ==
  ASSUME NEW g \in Controllers
  PROVE  /\ RecordThrottle(g) \in Controllers /\ RecordThrottle(g).active = g.active
         /\ RecordSlotSuccess(g) \in Controllers /\ RecordSlotSuccess(g).active = g.active
         /\ ReleaseSlot(g) \in Controllers
         /\ g.active > 0 => ReleaseSlot(g).active = g.active - 1
         /\ SlotFree(g) => TakeSlot(g) \in Controllers /\ TakeSlot(g).active = g.active + 1
<1> USE ConcurrencyAssumption DEF Controllers
<1>1. RecordThrottle(g) \in Controllers /\ RecordThrottle(g).active = g.active
  <2>1. Halved(g.limit) \in MinLimit..MaxLimit
    BY DEF Halved
  <2> QED
    BY <2>1 DEF RecordThrottle
<1>2. RecordSlotSuccess(g) \in Controllers /\ RecordSlotSuccess(g).active = g.active
  BY DEF RecordSlotSuccess, StreakReached
<1>3. ReleaseSlot(g) \in Controllers /\ (g.active > 0 => ReleaseSlot(g).active = g.active - 1)
  BY DEF ReleaseSlot
<1>4. SlotFree(g) => TakeSlot(g) \in Controllers /\ TakeSlot(g).active = g.active + 1
  BY DEF SlotFree, TakeSlot
<1> QED
  BY <1>1, <1>2, <1>3, <1>4

-----------------------------------------------------------------------------
(* The lifecycle manager.                                                  *)

AllSound(m) == \A k \in Capabilities : Sound(m.circuit[k])

\* Replacing one breaker by another one.
LEMMA SetBreaker ==
  ASSUME NEW m \in Managers, AllSound(m), NEW k \in Capabilities,
         NEW b \in Breakers, Sound(b)
  PROVE  /\ [m EXCEPT !.circuit[k] = b] \in Managers
         /\ AllSound([m EXCEPT !.circuit[k] = b])
         /\ [m EXCEPT !.circuit[k] = b].circuit = [m.circuit EXCEPT ![k] = b]
         /\ [m EXCEPT !.circuit[k] = b].life = m.life
BY DEF Managers, AllSound

\* Recording an outcome keeps the manager's type, keeps its breakers sound and
\* touches the breaker of that capability only.
LEMMA FailureRecorded ==
  ASSUME NEW m \in Managers, AllSound(m), NEW k \in Capabilities
  PROVE  /\ AfterFailure(m, k) \in Managers
         /\ AllSound(AfterFailure(m, k))
         /\ AfterFailure(m, k).circuit =
              [m.circuit EXCEPT ![k] = Effective(RecordFailure(m.circuit[k]))]
<1> DEFINE b == Effective(RecordFailure(m.circuit[k]))
<1>1. b \in Breakers /\ Sound(b)
  <2>1. m.circuit[k] \in Breakers /\ Sound(m.circuit[k])
    BY DEF Managers, AllSound
  <2> QED
    BY <2>1, BreakerOps
<1>2. b.state \in CircuitStates
  BY <1>1 DEF Breakers
<1>3. LifeAfterFailure(m.life, k) \in LifecycleStates
  BY DEF LifeAfterFailure, LifecycleStates, Managers
<1> HIDE DEF b
<1>4. [circuit |-> [m.circuit EXCEPT ![k] = b],
       health |-> [m.health EXCEPT ![k] = IF k \in Foundational THEN "FAILED" ELSE "DEGRADED"],
       seen |-> [m.seen EXCEPT ![k] = b.state],
       life |-> LifeAfterFailure(m.life, k)] \in Managers
  BY <1>1, <1>2, <1>3 DEF Managers, Unwell
<1>5. \A j \in Capabilities : Sound([m.circuit EXCEPT ![k] = b][j])
  BY <1>1 DEF Managers, AllSound
<1> QED
  BY <1>4, <1>5 DEF AfterFailure, AllSound, b

LEMMA SuccessRecorded ==
  ASSUME NEW m \in Managers, AllSound(m), NEW k \in Capabilities
  PROVE  /\ AfterSuccess(m, k) \in Managers
         /\ AllSound(AfterSuccess(m, k))
         /\ AfterSuccess(m, k).circuit =
              [m.circuit EXCEPT ![k] = Effective(RecordSuccess(m.circuit[k]))]
<1> DEFINE b == Effective(RecordSuccess(m.circuit[k]))
           n == [circuit |-> [m.circuit EXCEPT ![k] = b],
                 health |-> [m.health EXCEPT ![k] = "HEALTHY"],
                 seen |-> [m.seen EXCEPT ![k] = b.state],
                 life |-> m.life]
<1>1. b \in Breakers /\ Sound(b)
  <2>1. m.circuit[k] \in Breakers /\ Sound(m.circuit[k])
    BY DEF Managers, AllSound
  <2> QED
    BY <2>1, BreakerOps
<1>2. b.state \in CircuitStates
  BY <1>1 DEF Breakers
<1> HIDE DEF b
<1>3. n \in Managers
  BY <1>1, <1>2 DEF Managers
<1>4. \A j \in Capabilities : Sound([m.circuit EXCEPT ![k] = b][j])
  BY <1>1 DEF Managers, AllSound
<1>5. Rechecked(n) \in LifecycleStates
  BY <1>3 DEF Rechecked, Managers, LifecycleStates
<1>6. AfterSuccess(m, k) = IF m.health[k] \in Unwell THEN [n EXCEPT !.life = Rechecked(n)] ELSE n
  BY DEF AfterSuccess, b
<1>7. n.circuit = [m.circuit EXCEPT ![k] = b]
  OBVIOUS
<1> HIDE DEF n
<1>8. [n EXCEPT !.life = Rechecked(n)] \in Managers
      /\ [n EXCEPT !.life = Rechecked(n)].circuit = n.circuit
  BY <1>3, <1>5 DEF Managers
<1> QED
  BY <1>3, <1>4, <1>6, <1>7, <1>8 DEF AllSound, b

-----------------------------------------------------------------------------
(* The invariant.                                                          *)

IInv == TypeOK /\ SlotsMatchCalls /\ AllSound(conn)

LEMMA InitIInv == Init => IInv
<1> SUFFICES ASSUME Init PROVE IInv
  OBVIOUS
<1> USE BreakerAssumption, ConcurrencyAssumption, ExecutorAssumption DEF Init
<1>1. NewBreaker \in Breakers /\ Sound(NewBreaker)
  BY DEF NewBreaker, Breakers, CircuitStates, Sound
<1>2. conn \in Managers
  BY <1>1 DEF Managers, CircuitStates, LifecycleStates
<1>3. AllSound(conn)
  BY <1>1 DEF AllSound
<1>4. NewController \in Controllers
  BY DEF NewController, Controllers
<1>5. TypeOK
  BY <1>2, <1>4 DEF TypeOK, Places
<1>6. InSlot = {}
  BY DEF InSlot
<1>7. SlotsMatchCalls
  BY <1>6, FS_EmptySet DEF SlotsMatchCalls, NewController
<1> QED
  BY <1>3, <1>5, <1>7 DEF IInv

\* The calls in a slot when one call moves.
LEMMA SlotCount ==
  ASSUME TypeOK, NEW c \in Calls, NEW l, pc' = [pc EXCEPT ![c] = l]
  PROVE  /\ Cardinality(InSlot) \in Nat
         /\ (pc[c] \in {"run", "sleep"} <=> l \in {"run", "sleep"}) =>
              Cardinality(InSlot') = Cardinality(InSlot)
         /\ (pc[c] \notin {"run", "sleep"} /\ l \in {"run", "sleep"}) =>
              Cardinality(InSlot') = Cardinality(InSlot) + 1
         /\ (pc[c] \in {"run", "sleep"} /\ l \notin {"run", "sleep"}) =>
              (Cardinality(InSlot) > 0 /\ Cardinality(InSlot') = Cardinality(InSlot) - 1)
<1> USE DEF TypeOK, InSlot
<1>1. IsFiniteSet(InSlot)
  BY ExecutorAssumption, FS_Subset
<1>2. Cardinality(InSlot) \in Nat
  BY <1>1, FS_CardinalityType
<1>3. ASSUME pc[c] \in {"run", "sleep"} <=> l \in {"run", "sleep"}
      PROVE  Cardinality(InSlot') = Cardinality(InSlot)
  <2>1. InSlot' = InSlot
    BY <1>3
  <2> QED
    BY <2>1
<1>4. ASSUME pc[c] \notin {"run", "sleep"}, l \in {"run", "sleep"}
      PROVE  Cardinality(InSlot') = Cardinality(InSlot) + 1
  <2>1. InSlot' = InSlot \cup {c} /\ c \notin InSlot
    BY <1>4
  <2> HIDE DEF InSlot
  <2> QED
    BY <1>1, <2>1, FS_AddElement
<1>5. ASSUME pc[c] \in {"run", "sleep"}, l \notin {"run", "sleep"}
      PROVE  Cardinality(InSlot) > 0 /\ Cardinality(InSlot') = Cardinality(InSlot) - 1
  <2>1. InSlot' = InSlot \ {c} /\ c \in InSlot
    BY <1>5
  <2> HIDE DEF InSlot
  <2>2. Cardinality(InSlot) # 0
    BY <1>1, <2>1, FS_EmptySet
  <2>3. Cardinality(InSlot \ {c}) = Cardinality(InSlot) - 1
    BY <1>1, <2>1, FS_RemoveElement
  <2> QED
    BY <1>2, <2>1, <2>2, <2>3
<1> QED
  BY <1>2, <1>3, <1>4, <1>5

\* A success reported twice to the breaker keeps the manager's type and its breakers
\* sound, and touches no other breaker.
LEMMA ReportedSound ==
  ASSUME TypeOK, AllSound(conn), NEW c \in Calls
  PROVE  /\ Reported(c) \in Managers /\ AllSound(Reported(c))
         /\ Reported(c).circuit =
              [conn.circuit EXCEPT ![cap[c]] =
                 Effective(RecordSuccess(RecordSuccess(conn.circuit[cap[c]])))]
<1> DEFINE k == cap[c]
           b == RecordSuccess(conn.circuit[k])
           p == [conn EXCEPT !.circuit[k] = b]
<1>1. k \in Capabilities /\ conn \in Managers
  BY DEF TypeOK
<1>2. b \in Breakers /\ Sound(b)
  <2>1. conn.circuit[k] \in Breakers /\ Sound(conn.circuit[k])
    BY <1>1 DEF Managers, AllSound
  <2> QED
    BY <2>1, BreakerOps
<1>3. p \in Managers /\ AllSound(p) /\ p.circuit = [conn.circuit EXCEPT ![k] = b]
  BY <1>1, <1>2, SetBreaker
<1>4. conn.circuit \in [Capabilities -> Breakers]
  BY <1>1 DEF Managers
<1>5. Reported(c) = AfterSuccess(p, k)
  BY DEF Reported
<1> HIDE DEF p, k, b
<1>6. /\ AfterSuccess(p, k) \in Managers /\ AllSound(AfterSuccess(p, k))
      /\ AfterSuccess(p, k).circuit = [p.circuit EXCEPT ![k] = Effective(RecordSuccess(p.circuit[k]))]
  BY <1>1, <1>3, SuccessRecorded
<1>7. p.circuit[k] = b
  BY <1>1, <1>3, <1>4
<1>8. AfterSuccess(p, k).circuit = [conn.circuit EXCEPT ![k] = Effective(RecordSuccess(b))]
  BY <1>1, <1>3, <1>4, <1>6, <1>7
<1> QED
  BY <1>5, <1>6, <1>8 DEF b, k

\* Every action preserves the invariant.
LEMMA NextIInv == IInv /\ [Next]_vars => IInv'
<1> SUFFICES ASSUME IInv, [Next]_vars PROVE IInv'
  OBVIOUS
<1> USE BreakerAssumption, ConcurrencyAssumption, ExecutorAssumption
<1> USE DEF IInv
<1>1. CASE UNCHANGED vars
  BY <1>1 DEF vars, TypeOK, SlotsMatchCalls, InSlot
<1>2. ASSUME NEW c \in Calls, Enter(c) PROVE IInv'
  <2>1. PICK k \in Capabilities :
          /\ cap' = [cap EXCEPT ![c] = k]
          /\ conn' = [conn EXCEPT !.circuit[k] = Effective(conn.circuit[k])]
          /\ IF Effective(conn.circuit[k]).state # "OPEN" /\ used < HourlyLimit
             THEN Go(c, "token") /\ used' = used + 1
             ELSE UNCHANGED <<pc, used>>
    BY <1>2 DEF Enter
  <2>2. conn' \in Managers /\ AllSound(conn')
    <3>1. conn.circuit[k] \in Breakers /\ Sound(conn.circuit[k])
      BY DEF TypeOK, Managers, AllSound
    <3>2. Effective(conn.circuit[k]) \in Breakers /\ Sound(Effective(conn.circuit[k]))
      BY <3>1, BreakerOps
    <3> QED
      BY <2>1, <3>2, SetBreaker DEF TypeOK
  <2>3. TypeOK'
    BY <1>2, <2>1, <2>2 DEF TypeOK, Places, Enter, Go
  <2>4. InSlot' = InSlot
    BY <1>2, <2>1 DEF Enter, Go, TypeOK, InSlot
  <2>5. SlotsMatchCalls'
    BY <1>2, <2>4 DEF SlotsMatchCalls, Enter
  <2> QED
    BY <2>2, <2>3, <2>5
<1>3. ASSUME NEW c \in Calls, Token(c) PROVE IInv'
  <2>1. TypeOK' /\ AllSound(conn')
    BY <1>3 DEF Token, Go, TypeOK, Places
  <2>2. InSlot' = InSlot
    BY <1>3 DEF Token, Go, TypeOK, InSlot
  <2>3. SlotsMatchCalls'
    BY <1>3, <2>2 DEF SlotsMatchCalls, Token
  <2> QED
    BY <2>1, <2>3
<1>4. ASSUME NEW c \in Calls, Slot(c) PROVE IInv'
  <2>1. conc' \in Controllers /\ conc'.active = conc.active + 1
    BY <1>4, ControllerOps DEF Slot, TypeOK
  <2>2. TypeOK' /\ AllSound(conn')
    BY <1>4, <2>1 DEF Slot, Go, TypeOK, Places
  <2>3. SlotsMatchCalls'
    BY <1>4, <2>1, SlotCount DEF SlotsMatchCalls, Slot, Go
  <2> QED
    BY <2>2, <2>3
<1>5. ASSUME NEW c \in Calls, SlotTimeout(c) PROVE IInv'
  <2>1. TypeOK' /\ AllSound(conn')
    BY <1>5 DEF SlotTimeout, Go, TypeOK, Places
  <2>2. InSlot' = InSlot
    BY <1>5 DEF SlotTimeout, Go, TypeOK, InSlot
  <2>3. SlotsMatchCalls'
    BY <1>5, <2>2 DEF SlotsMatchCalls, SlotTimeout
  <2> QED
    BY <2>1, <2>3
<1>6. ASSUME NEW c \in Calls, Succeed(c) PROVE IInv'
  <2>1. cap[c] \in Capabilities
    BY DEF TypeOK
  <2>5. conn' \in Managers /\ AllSound(conn')
    <3> DEFINE m == Reported(c)
               n == AfterFailure(m, cap[c])
    <3>1. m \in Managers /\ AllSound(m)
      BY <2>1, ReportedSound
    <3>2. conn' = m \/ conn' = n
      BY <1>6 DEF Succeed
    <3> HIDE DEF m
    <3>3. n \in Managers /\ AllSound(n)
      BY <2>1, <3>1, FailureRecorded
    <3> QED
      BY <3>1, <3>2, <3>3
  <2>6. Cardinality(InSlot) > 0 /\ Cardinality(InSlot') = Cardinality(InSlot) - 1
    <3>1. pc[c] \in {"run", "sleep"} /\ pc' = [pc EXCEPT ![c] = "idle"]
      BY <1>6 DEF Succeed, Go
    <3>2. "idle" \notin {"run", "sleep"}
      OBVIOUS
    <3> QED
      BY <3>1, <3>2, SlotCount
  <2>7. conc' \in Controllers /\ conc'.active = conc.active - 1
    <3>1. RecordSlotSuccess(conc) \in Controllers
          /\ RecordSlotSuccess(conc).active = conc.active
      BY ControllerOps DEF TypeOK
    <3> QED
      BY <1>6, <2>6, <3>1, ControllerOps DEF Succeed, SlotsMatchCalls
  <2>8. TypeOK'
    BY <1>6, <2>5, <2>7 DEF TypeOK, Places, Succeed, Go
  <2> QED
    BY <2>5, <2>6, <2>7, <2>8 DEF SlotsMatchCalls
<1>7. ASSUME NEW c \in Calls, Throttle(c) PROVE IInv'
  <2>1. conc' \in Controllers /\ conc'.active = conc.active
    BY <1>7, ControllerOps DEF Throttle, TypeOK
  <2>2. TypeOK' /\ AllSound(conn')
    BY <1>7, <2>1 DEF Throttle, Go, TypeOK, Places
  <2>3. SlotsMatchCalls'
    BY <1>7, <2>1, SlotCount DEF SlotsMatchCalls, Throttle, Go
  <2> QED
    BY <2>2, <2>3
<1>13. ASSUME NEW c \in Calls, LandingThrottled(c) PROVE IInv'
  <2>1. conc' \in Controllers /\ conc'.active = conc.active
    <3>1. RecordSlotSuccess(conc) \in Controllers
          /\ RecordSlotSuccess(conc).active = conc.active
      BY ControllerOps DEF TypeOK
    <3> QED
      BY <1>13, <3>1, ControllerOps DEF LandingThrottled
  <2>2. conn' \in Managers /\ AllSound(conn')
    BY <1>13, ReportedSound DEF LandingThrottled
  <2>3. TypeOK'
    BY <1>13, <2>1, <2>2 DEF LandingThrottled, Go, TypeOK, Places
  <2>4. SlotsMatchCalls'
    BY <1>13, <2>1, SlotCount DEF SlotsMatchCalls, LandingThrottled, Go
  <2> QED
    BY <2>2, <2>3, <2>4
<1>14. ASSUME NEW c \in Calls, Cancel(c) PROVE IInv'
  <2>1. CASE c \in InSlot
    <3>1. Cardinality(InSlot) > 0 /\ Cardinality(InSlot') = Cardinality(InSlot) - 1
      <4>1. pc[c] \in {"run", "sleep"} /\ pc' = [pc EXCEPT ![c] = "idle"]
        BY <1>14, <2>1 DEF Cancel, Go, InSlot
      <4>2. "idle" \notin {"run", "sleep"}
        OBVIOUS
      <4> QED
        BY <4>1, <4>2, SlotCount
    <3>2. conc' \in Controllers /\ conc'.active = conc.active - 1
      BY <1>14, <2>1, <3>1, ControllerOps DEF Cancel, TypeOK, SlotsMatchCalls
    <3>3. TypeOK' /\ AllSound(conn')
      BY <1>14, <3>2 DEF Cancel, Go, TypeOK, Places
    <3> QED
      BY <3>1, <3>2, <3>3 DEF SlotsMatchCalls
  <2>2. CASE c \notin InSlot
    <3>1. TypeOK' /\ AllSound(conn') /\ conc' = conc
      BY <1>14, <2>2 DEF Cancel, Go, TypeOK, Places
    <3>2. InSlot' = InSlot
      BY <1>14, <2>2 DEF Cancel, Go, TypeOK, InSlot
    <3> QED
      BY <3>1, <3>2 DEF SlotsMatchCalls
  <2> QED
    BY <2>1, <2>2
<1>8. ASSUME NEW c \in Calls, Wake(c) PROVE IInv'
  <2>1. Cardinality(InSlot) > 0 /\ Cardinality(InSlot') = Cardinality(InSlot) - 1
    <3>1. pc[c] \in {"run", "sleep"} /\ pc' = [pc EXCEPT ![c] = "token"]
      BY <1>8 DEF Wake, Go
    <3>2. "token" \notin {"run", "sleep"}
      OBVIOUS
    <3> QED
      BY <3>1, <3>2, SlotCount
  <2>2. conc' \in Controllers /\ conc'.active = conc.active - 1
    BY <1>8, <2>1, ControllerOps DEF Wake, TypeOK, SlotsMatchCalls
  <2>3. TypeOK' /\ AllSound(conn')
    BY <1>8, <2>2 DEF Wake, Go, TypeOK, Places
  <2> QED
    BY <2>1, <2>2, <2>3 DEF SlotsMatchCalls
<1>9. ASSUME NEW c \in Calls, Fail(c) PROVE IInv'
  <2>1. Cardinality(InSlot) > 0 /\ Cardinality(InSlot') = Cardinality(InSlot) - 1
    <3>1. pc[c] \in {"run", "sleep"} /\ pc' = [pc EXCEPT ![c] = "idle"]
      BY <1>9 DEF Fail, Go
    <3>2. "idle" \notin {"run", "sleep"}
      OBVIOUS
    <3> QED
      BY <3>1, <3>2, SlotCount
  <2>2. conc' \in Controllers /\ conc'.active = conc.active - 1
    BY <1>9, <2>1, ControllerOps DEF Fail, TypeOK, SlotsMatchCalls
  <2>3. conn' \in Managers /\ AllSound(conn')
    BY <1>9, FailureRecorded DEF Fail, TypeOK
  <2>4. TypeOK'
    BY <1>9, <2>2, <2>3 DEF Fail, Go, TypeOK, Places
  <2> QED
    BY <2>1, <2>2, <2>3, <2>4 DEF SlotsMatchCalls
<1>10. ASSUME NEW k \in Capabilities, Cooldown(k) PROVE IInv'
  <2> DEFINE b == [conn.circuit[k] EXCEPT !.cooldown = "over"]
  <2>1. b \in Breakers /\ Sound(b)
    BY DEF TypeOK, Managers, Breakers, AllSound, Sound
  <2>2. conn' = [conn EXCEPT !.circuit[k] = b]
    BY <1>10 DEF Cooldown
  <2> HIDE DEF b
  <2>3. conn' \in Managers /\ AllSound(conn')
    BY <2>1, <2>2, SetBreaker DEF TypeOK
  <2> QED
    BY <1>10, <2>3 DEF Cooldown, TypeOK, SlotsMatchCalls, InSlot
<1>11. ASSUME NEW s \in OperatorTargets, Operate(s) PROVE IInv'
  <2>1. conn' \in Managers /\ conn'.circuit = conn.circuit
    BY <1>11 DEF Operate, TypeOK, Managers
  <2> QED
    BY <1>11, <2>1 DEF Operate, TypeOK, SlotsMatchCalls, InSlot, AllSound
<1>12. CASE NextHour
  BY <1>12 DEF NextHour, TypeOK, SlotsMatchCalls, InSlot
<1> QED
  BY <1>1, <1>2, <1>3, <1>4, <1>5, <1>6, <1>7, <1>8, <1>9, <1>10, <1>11, <1>12, <1>13,
     <1>14 DEF Next, Proceed

LEMMA IInvHolds == Spec => []IInv
BY InitIInv, NextIInv, PTL DEF Spec

\* The types of the executor's state, in particular: the limit stays between the
\* minimum and the maximum and no more than the maximum of slots is ever taken.
THEOREM TypeCorrect == Spec => []TypeOK
BY IInvHolds, PTL DEF IInv

\* No path through execute_capability loses a slot or returns one twice.
THEOREM SlotsBalance == Spec => []SlotsMatchCalls
BY IInvHolds, PTL DEF IInv

\* A breaker at its failure threshold is never CLOSED.
THEOREM ClosedBelow == Spec => []ClosedBelowThreshold
<1>1. IInv => ClosedBelowThreshold
  BY DEF IInv, AllSound, Sound, ClosedBelowThreshold
<1> QED
  BY <1>1, IInvHolds, PTL

\* What one step may make of an OPEN breaker.
Kept(b, n) == n.state = "OPEN" \/ (b.cooldown = "over" /\ n.state = "HALF_OPEN")

LEMMA OpenOutcomes ==
  ASSUME NEW b \in Breakers, Sound(b), b.state = "OPEN"
  PROVE  /\ Kept(b, Effective(b))
         /\ Kept(b, Effective(RecordFailure(b)))
         /\ Kept(b, Effective(RecordSuccess(RecordSuccess(b))))
         /\ Kept(b, Effective(RecordFailure(Effective(RecordSuccess(RecordSuccess(b))))))
<1>1. Effective(b) \in Breakers /\ RecordFailure(b) \in Breakers
  BY BreakerOps
<1>2. RecordSuccess(RecordSuccess(b)) = b
  BY OpenOps
<1>3. Kept(b, Effective(b))
  BY OpenOps DEF Kept, Breakers
<1>4. Kept(b, Effective(RecordFailure(b)))
  BY <1>1, OpenOps DEF Kept, Breakers
<1>5. Kept(b, Effective(RecordFailure(Effective(b))))
  <2>1. CASE b.cooldown = "running"
    BY <1>4, <2>1, OpenOps
  <2>2. CASE b.cooldown = "over"
    BY <1>1, <2>2, OpenOps, HalfOpenFails DEF Kept
  <2> QED
    BY <2>1, <2>2 DEF Breakers
<1> QED
  BY <1>2, <1>3, <1>4, <1>5

\* An OPEN breaker is left only towards HALF_OPEN and only after its recovery
\* timeout, whatever late calls report.
THEOREM LateSuccess == Spec => LateSuccessKeepsOpen
<1> DEFINE Stays(k) ==
      (conn.circuit[k].state = "OPEN" /\ conn'.circuit[k].state # "OPEN") =>
        (conn.circuit[k].cooldown = "over" /\ conn'.circuit[k].state = "HALF_OPEN")
<1>1. ASSUME IInv, [Next]_vars, NEW k \in Capabilities, conn.circuit[k].state = "OPEN"
      PROVE  Kept(conn.circuit[k], conn'.circuit[k])
  <2> USE DEF IInv
  <2> DEFINE b == conn.circuit[k]
  <2>1. b \in Breakers /\ Sound(b)
    BY <1>1 DEF TypeOK, Managers, AllSound
  <2>2. CASE conn' = conn
    BY <1>1, <2>2 DEF Kept
  <2>3. ASSUME NEW c \in Calls, Enter(c) PROVE Kept(b, conn'.circuit[k])
    <3>1. PICK j \in Capabilities :
            conn' = [conn EXCEPT !.circuit[j] = Effective(conn.circuit[j])]
      BY <2>3 DEF Enter
    <3>2. conn'.circuit[k] = b \/ conn'.circuit[k] = Effective(b)
      BY <1>1, <3>1 DEF TypeOK, Managers
    <3> QED
      BY <1>1, <2>1, <3>2, OpenOutcomes DEF Kept
  <2>4. ASSUME NEW c \in Calls, Fail(c) PROVE Kept(b, conn'.circuit[k])
    <3>1. cap[c] \in Capabilities /\ conn' = AfterFailure(conn, cap[c])
      BY <1>1, <2>4 DEF Fail, TypeOK
    <3>2. conn'.circuit = [conn.circuit EXCEPT
                             ![cap[c]] = Effective(RecordFailure(conn.circuit[cap[c]]))]
      BY <1>1, <3>1, FailureRecorded DEF TypeOK
    <3>3. conn'.circuit[k] = b \/ conn'.circuit[k] = Effective(RecordFailure(b))
      BY <1>1, <3>1, <3>2 DEF TypeOK, Managers
    <3> QED
      BY <1>1, <2>1, <3>3, OpenOutcomes DEF Kept
  <2>r. ASSUME NEW c \in Calls
        PROVE  LET m == Reported(c)
               IN  /\ m \in Managers /\ AllSound(m)
                   /\ \/ m.circuit[k] = b
                      \/ cap[c] = k /\ m.circuit[k] = Effective(RecordSuccess(RecordSuccess(b)))
    <3>1. cap[c] \in Capabilities /\ conn.circuit \in [Capabilities -> Breakers]
      BY <1>1 DEF TypeOK, Managers
    <3> QED
      BY <1>1, <3>1, ReportedSound
  <2>5. ASSUME NEW c \in Calls, Succeed(c) PROVE Kept(b, conn'.circuit[k])
    <3> DEFINE j == cap[c]
               m == Reported(c)
    <3>1. j \in Capabilities
      BY <1>1 DEF TypeOK
    <3>2. /\ m \in Managers /\ AllSound(m)
          /\ \/ m.circuit[k] = b
             \/ j = k /\ m.circuit[k] = Effective(RecordSuccess(RecordSuccess(b)))
      BY <2>r
    <3>4. conn' = m \/ conn' = AfterFailure(m, j)
      BY <2>5 DEF Succeed
    <3> HIDE DEF m, j
    <3>8. CASE conn' = m
      BY <1>1, <2>1, <3>2, <3>8, OpenOutcomes DEF Kept
    <3>9. CASE conn' = AfterFailure(m, j)
      <4>1. conn'.circuit = [m.circuit EXCEPT ![j] = Effective(RecordFailure(m.circuit[j]))]
        BY <3>1, <3>2, <3>9, FailureRecorded
      <4>2. m.circuit \in [Capabilities -> Breakers]
        BY <3>2 DEF Managers
      <4>3. CASE j # k
        BY <1>1, <3>2, <4>1, <4>2, <4>3 DEF Kept
      <4>4. CASE j = k
        <5>1. conn'.circuit[k] = Effective(RecordFailure(m.circuit[k]))
          BY <1>1, <4>1, <4>2, <4>4
        <5> QED
          BY <1>1, <2>1, <3>2, <5>1, OpenOutcomes
      <4> QED
        BY <4>3, <4>4
    <3> QED
      BY <3>4, <3>8, <3>9
  <2>8. ASSUME NEW c \in Calls, LandingThrottled(c) PROVE Kept(b, conn'.circuit[k])
    <3>1. conn' = Reported(c)
      BY <2>8 DEF LandingThrottled
    <3> QED
      BY <1>1, <2>1, <2>r, <3>1, OpenOutcomes DEF Kept
  <2>6. ASSUME NEW j \in Capabilities, Cooldown(j) PROVE Kept(b, conn'.circuit[k])
    <3>1. conn'.circuit[k].state = b.state
      BY <1>1, <2>6 DEF Cooldown, TypeOK, Managers, Breakers
    <3> QED
      BY <1>1, <3>1 DEF Kept
  <2>7. ASSUME NEW s \in OperatorTargets, Operate(s) PROVE Kept(b, conn'.circuit[k])
    <3>1. conn'.circuit = conn.circuit
      BY <1>1, <2>7 DEF Operate, TypeOK, Managers
    <3> QED
      BY <1>1, <3>1 DEF Kept
  <2> QED
    BY <1>1, <2>2, <2>3, <2>4, <2>5, <2>6, <2>7, <2>8
       DEF Next, Proceed, Token, Slot, SlotTimeout, Throttle, Wake, Cancel, NextHour, vars
<1>2. IInv /\ [Next]_vars => [\A k \in Capabilities : Stays(k)]_vars
  BY <1>1 DEF Kept
<1> QED
  BY <1>2, IInvHolds, PTL DEF Spec, LateSuccessKeepsOpen

\* What an outcome does to the lifecycle state: a failure changes only a state in
\* which the connector collects and never into ACTIVE; a success restores ACTIVE
\* only from DEGRADED, and when no capability is left unwell.
LEMMA FailureLife ==
  ASSUME NEW m \in Managers, NEW k \in Capabilities
  PROVE  LET f == AfterFailure(m, k)
         IN  f.life # m.life => m.life \in {"VALIDATED", "ACTIVE", "DEGRADED"} /\ f.life # "ACTIVE"
BY DEF AfterFailure, LifeAfterFailure, Managers, LifecycleStates

LEMMA SuccessLife ==
  ASSUME NEW m \in Managers, NEW k \in Capabilities
  PROVE  LET s == AfterSuccess(m, k)
         IN  s.life # m.life => /\ m.life = "DEGRADED" /\ s.life = "ACTIVE"
                                /\ \A j \in Capabilities : s.health[j] \notin Unwell
<1> DEFINE b == Effective(RecordSuccess(m.circuit[k]))
           n == [circuit |-> [m.circuit EXCEPT ![k] = b],
                 health |-> [m.health EXCEPT ![k] = "HEALTHY"],
                 seen |-> [m.seen EXCEPT ![k] = b.state],
                 life |-> m.life]
           s == AfterSuccess(m, k)
<1>1. s = IF m.health[k] \in Unwell THEN [n EXCEPT !.life = Rechecked(n)] ELSE n
  BY DEF AfterSuccess
<1>2. n.life = m.life
  OBVIOUS
<1>3. Rechecked(n) = IF n.life = "DEGRADED" /\ \A j \in Capabilities : n.health[j] \notin Unwell /\ n.seen[j] # "OPEN"
                     THEN "ACTIVE" ELSE n.life
  BY DEF Rechecked
<1>4. s.life \in {m.life, Rechecked(n)} /\ s.health = n.health
  <2> HIDE DEF b
  <2> QED
    BY <1>1, <1>2
<1>5. ASSUME s.life # m.life PROVE s.life = Rechecked(n) /\ Rechecked(n) # n.life
  BY <1>2, <1>4, <1>5
<1>6. s.life # m.life => /\ m.life = "DEGRADED" /\ s.life = "ACTIVE"
                         /\ \A j \in Capabilities : s.health[j] \notin Unwell
  <2> HIDE DEF n, s
  <2> QED
    BY <1>2, <1>3, <1>4, <1>5
<1> QED
  BY <1>6

\* For any number of calls and capabilities: a result that arrives after the operator
\* took the connector out of service leaves its lifecycle state alone, and one that
\* restores ACTIVE leaves no capability degraded or failed.
THEOREM RespectsOperator == Spec => LateResultsRespectOperator
<1> DEFINE Well(m) == \A k \in Capabilities : m.health[k] \notin Unwell
           Respects(m, n) == n.life # m.life =>
             /\ m.life \in {"VALIDATED", "ACTIVE", "DEGRADED"}
             /\ n.life = "ACTIVE" => Well(n)
<1>1. ASSUME IInv, [Next]_vars, pc' # pc PROVE Respects(conn, conn')
  <2>1. TypeOK /\ conn \in Managers /\ AllSound(conn)
    BY <1>1 DEF IInv, TypeOK
  <2>2. ASSUME NEW c \in Calls, Fail(c) PROVE Respects(conn, conn')
    <3>1. cap[c] \in Capabilities /\ conn' = AfterFailure(conn, cap[c])
      BY <2>1, <2>2 DEF Fail, TypeOK
    <3> QED
      BY <2>1, <3>1, FailureLife
  <2>r. ASSUME NEW c \in Calls
        PROVE  LET m == Reported(c)
               IN  /\ m \in Managers
                   /\ m.life # conn.life => conn.life = "DEGRADED" /\ m.life = "ACTIVE" /\ Well(m)
    <3> DEFINE j == cap[c]
               p == [conn EXCEPT !.circuit[j] = RecordSuccess(@)]
    <3>1. j \in Capabilities
      BY <2>1 DEF TypeOK
    <3>2. p \in Managers /\ p.life = conn.life
      <4>1. RecordSuccess(conn.circuit[j]) \in Breakers /\ Sound(RecordSuccess(conn.circuit[j]))
        <5>1. conn.circuit[j] \in Breakers /\ Sound(conn.circuit[j])
          BY <2>1, <3>1 DEF Managers, AllSound
        <5> QED
          BY <5>1, BreakerOps
      <4>2. p.life = conn.life
        BY <2>1 DEF Managers
      <4> QED
        BY <2>1, <3>1, <4>1, <4>2, SetBreaker
    <3>3. Reported(c) = AfterSuccess(p, j)
      BY DEF Reported
    <3> HIDE DEF p, j
    <3>4. AfterSuccess(p, j).life # p.life =>
            p.life = "DEGRADED" /\ AfterSuccess(p, j).life = "ACTIVE" /\ Well(AfterSuccess(p, j))
      BY <3>1, <3>2, SuccessLife
    <3> QED
      BY <2>1, <3>2, <3>3, <3>4, ReportedSound
  <2>3. ASSUME NEW c \in Calls, Succeed(c) PROVE Respects(conn, conn')
    <3> DEFINE j == cap[c]
               m == Reported(c)
    <3>1. j \in Capabilities
      BY <2>1 DEF TypeOK
    <3>2. /\ m \in Managers
          /\ m.life # conn.life => conn.life = "DEGRADED" /\ m.life = "ACTIVE" /\ Well(m)
      BY <2>r
    <3>3. conn' = m \/ conn' = AfterFailure(m, j)
      BY <2>3 DEF Succeed
    <3> HIDE DEF m, j
    <3>6. CASE conn' = m
      BY <3>2, <3>6
    <3>7. CASE conn' = AfterFailure(m, j)
      <4>1. conn'.life # m.life => m.life \in {"VALIDATED", "ACTIVE", "DEGRADED"} /\ conn'.life # "ACTIVE"
        BY <3>1, <3>2, <3>7, FailureLife
      <4>2. m.life = "ACTIVE" => conn'.life # "ACTIVE"
        BY <3>1, <3>7 DEF AfterFailure, LifeAfterFailure
      <4> QED
        BY <3>2, <4>1, <4>2
    <3> QED
      BY <3>3, <3>6, <3>7
  <2>7. ASSUME NEW c \in Calls, LandingThrottled(c) PROVE Respects(conn, conn')
    <3>1. conn' = Reported(c)
      BY <2>7 DEF LandingThrottled
    <3> QED
      BY <2>r, <3>1
  <2>4. ASSUME NEW c \in Calls, Enter(c) PROVE conn'.life = conn.life
    BY <2>1, <2>4 DEF Enter, Managers
  <2>5. ASSUME NEW k \in Capabilities, Cooldown(k) PROVE FALSE
    BY <1>1, <2>5 DEF Cooldown
  <2>6. ASSUME NEW s \in OperatorTargets, Operate(s) PROVE FALSE
    BY <1>1, <2>6 DEF Operate
  <2> QED
    BY <1>1, <2>2, <2>3, <2>4, <2>5, <2>6, <2>7
       DEF Next, Proceed, Token, Slot, SlotTimeout, Throttle, Wake, Cancel, NextHour, vars
<1>2. IInv /\ [Next]_vars =>
        [(pc' # pc /\ conn'.life # conn.life) =>
           /\ conn.life \in {"VALIDATED", "ACTIVE", "DEGRADED"}
           /\ conn'.life = "ACTIVE" => \A k \in Capabilities : conn'.health[k] \notin Unwell]_vars
  BY <1>1
<1> QED
  BY <1>2, IInvHolds, PTL DEF Spec, LateResultsRespectOperator

-----------------------------------------------------------------------------
(* The collection over pages.                                              *)

Working == {"fetch", "land", "record", "save"}

\* The page with which a call that starts now begins.
NextPage == IF chk.status = "IN_PROGRESS" THEN chk.page + 1 ELSE 1

\* A call at some page has landed all pages before it and counted them.
Behind ==
  /\ chk.status = "IN_PROGRESS" => chk.page < Pages
  /\ chk.status = "NONE" => chk.page = 0
  /\ place \in Working => records + 1 = page
  /\ place \in Working => \A p \in PageNumbers : p < page => objects[p] # 0
  /\ place \in {"record", "save"} => objects[page] # 0
  /\ place = "land" => got # 0

\* While the database answers, a call is at the page the checkpoint leads to, and
\* the pages from there on were recorded for dead workers only.
Front ==
  faults = 0 =>
    /\ place \in Working => page = NextPage
    /\ place \in {"idle", "fetch", "land", "record"} =>
         \A p \in PageNumbers : p >= NextPage => landings[p] <= lost
    /\ place = "save" => \A p \in PageNumbers : p > page => landings[p] <= lost

PagedInv == PagedTypeOK /\ CheckpointIsBacked /\ RecordsCountedOnce /\ Behind

DInv == DuplicatesNeedCrash /\ Front

\* As long as nothing was lost either, the objects end where the checkpoint does, but
\* for the page that is being recorded.
Fresh ==
  (faults = 0 /\ lost = 0) =>
    /\ place \in {"idle", "fetch", "land"} =>
         \A p \in PageNumbers : p >= NextPage => objects[p] = 0
    /\ place \in {"record", "save"} => \A p \in PageNumbers : p > page => objects[p] = 0

LEMMA PagedInvInit == PagedInit => PagedInv /\ DInv
BY PagesAssumption
   DEF PagedInit, PagedInv, DInv, PagedTypeOK, CheckpointIsBacked, RecordsCountedOnce,
       Behind, Front,
       DuplicatesNeedCrash, NextPage, Working, PageNumbers

\* What the saved checkpoint says: the old one, or the page just landed.
LEMMA SavedCheckpoint ==
  ASSUME PagedInv, Save, chk' # chk
  PROVE  /\ chk'.page = page /\ chk'.records = page
         /\ chk'.status = (IF page < Pages THEN "IN_PROGRESS" ELSE "COMPLETED")
         /\ chk' \in [page : 0..Pages, records : 0..Pages,
                      status : {"NONE", "IN_PROGRESS", "COMPLETED"}]
<1>1. records + 1 = page /\ page \in 1..Pages
  BY DEF PagedInv, PagedTypeOK, Behind, Save, Working, PageNumbers
<1>2. chk' = [page |-> page, records |-> page,
              status |-> IF page < Pages THEN "IN_PROGRESS" ELSE "COMPLETED"]
  BY <1>1 DEF Save, Checkpoint
<1> QED
  BY <1>1, <1>2, PagesAssumption

LEMMA PagedInvStep == PagedInv /\ [PagedNext]_pagedVars => PagedInv'
<1> SUFFICES ASSUME PagedInv, [PagedNext]_pagedVars PROVE PagedInv'
  OBVIOUS
<1>n. Pages \in Nat /\ 1 \in 1..Pages /\ 0 \in 0..Pages /\ MaxVersion \in Nat
  BY PagesAssumption
<1>t. PagedTypeOK
  BY DEF PagedInv
<1>r. /\ page \in 1..Pages /\ records \in 0..Pages
      /\ chk.page \in 0..Pages /\ chk.records = chk.page
      /\ chk.status = "IN_PROGRESS" => chk.page < Pages
      /\ chk.status = "NONE" => chk.page = 0
      /\ place \in Working => records + 1 = page
  BY DEF PagedInv, PagedTypeOK, Behind, RecordsCountedOnce, PageNumbers
<1>1. CASE UNCHANGED pagedVars
  BY <1>1 DEF pagedVars, stored, counts, PagedInv, PagedTypeOK, Behind, CheckpointIsBacked,
      RecordsCountedOnce
<1>2. CASE Start
  <2>1. /\ place' = "fetch" /\ UNCHANGED <<version, objects, landings, chk, got, kills, lost, failures>>
        /\ faults' \in Nat
    BY <1>2, <1>t, PagesAssumption DEF Start, Fault, stored, PagedTypeOK
  <2>2. \/ page' = 1 /\ records' = 0
        \/ page' = chk.page + 1 /\ records' = chk.page /\ chk.page < Pages
    BY <1>2, <1>r DEF Start, Resume
  <2>3. page' \in 1..Pages /\ records' \in 0..Pages /\ records' + 1 = page'
    BY <2>2, <1>r, <1>n
  <2>4. PagedTypeOK'
    BY <2>1, <2>3, <1>t DEF PagedTypeOK, PageNumbers
  <2>5. \A p \in PageNumbers : p < page' => objects[p] # 0
    BY <2>2, <1>r DEF PagedInv, CheckpointIsBacked, PageNumbers
  <2>6. Behind'
    BY <2>1, <2>3, <2>5, <1>r DEF Behind, Working
  <2> QED
    BY <2>1, <2>4, <2>6 DEF PagedInv, CheckpointIsBacked, RecordsCountedOnce
<1>3. CASE Fetch
  <2>1. /\ place = "fetch" /\ UNCHANGED <<version, objects, landings, chk, kills, lost, faults>>
    BY <1>3 DEF Fetch, stored
  <2>2. CASE place' = "land" /\ got' = version[page] /\ UNCHANGED <<page, records, failures>>
    <3>1. version[page] \in 1..MaxVersion
      BY <1>t, <1>r DEF PagedTypeOK, PageNumbers
    <3>2. got' \in 0..MaxVersion /\ got' # 0
      BY <3>1, <2>2, <1>n
    <3>3. PagedTypeOK'
      BY <2>1, <2>2, <3>2, <1>t DEF PagedTypeOK
    <3>4. Behind'
      BY <2>1, <2>2, <3>2 DEF PagedInv, Behind, Working
    <3> QED
      BY <2>1, <3>3, <3>4 DEF PagedInv, CheckpointIsBacked, RecordsCountedOnce
  <2>3. CASE failures' = failures + 1 /\ Leave("idle")
    <3>1. PagedTypeOK'
      BY <2>1, <2>3, <1>t, <1>n DEF PagedTypeOK, Leave, PageNumbers
    <3>2. Behind'
      BY <2>1, <2>3 DEF PagedInv, Behind, Working, Leave
    <3> QED
      BY <2>1, <3>1, <3>2 DEF PagedInv, CheckpointIsBacked, RecordsCountedOnce
  <2> QED
    BY <1>3, <2>2, <2>3 DEF Fetch
<1>4. CASE Put
  <2>1. place = "land" /\ UNCHANGED <<version, landings, chk, kills, lost, faults>>
    BY <1>4 DEF Put
  <2>2. CASE /\ objects' = [objects EXCEPT ![page] = got]
             /\ place' = "record" /\ UNCHANGED <<page, records, got, failures>>
    <3>1. PagedTypeOK'
      <4>1. got \in 0..MaxVersion /\ objects \in [PageNumbers -> 0..MaxVersion]
        BY <1>t DEF PagedTypeOK
      <4>2. objects' \in [PageNumbers -> 0..MaxVersion]
        BY <4>1, <2>2
      <4> QED
        BY <2>1, <2>2, <4>2, <1>t DEF PagedTypeOK
    <3>2. got # 0
      BY <2>1 DEF PagedInv, Behind
    <3>3. /\ objects'[page] # 0
          /\ \A p \in PageNumbers : objects[p] # 0 => objects'[p] # 0
      BY <2>2, <3>2, <1>t, <1>r DEF PagedTypeOK, PageNumbers
    <3>4. Behind'
      BY <2>1, <2>2, <3>3 DEF PagedInv, Behind, Working
    <3> QED
      BY <2>1, <3>1, <3>3, <3>4 DEF PagedInv, CheckpointIsBacked, RecordsCountedOnce
  <2>3. CASE UNCHANGED <<objects, failures>> /\ Leave("idle")
    <3>1. PagedTypeOK'
      BY <2>1, <2>3, <1>t, <1>n DEF PagedTypeOK, Leave, PageNumbers
    <3>2. Behind'
      BY <2>1, <2>3 DEF PagedInv, Behind, Working, Leave
    <3> QED
      BY <2>1, <2>3, <3>1, <3>2 DEF PagedInv, CheckpointIsBacked, RecordsCountedOnce
  <2>4. CASE /\ failures' = failures + 1
             /\ place' = "fetch" /\ got' = 0 /\ UNCHANGED <<objects, page, records>>
    <3>1. PagedTypeOK'
      BY <2>1, <2>4, <1>t, <1>n DEF PagedTypeOK
    <3>2. Behind'
      BY <2>1, <2>4 DEF PagedInv, Behind, Working
    <3> QED
      BY <2>1, <2>4, <3>1, <3>2 DEF PagedInv, CheckpointIsBacked, RecordsCountedOnce
  <2> QED
    BY <1>4, <2>2, <2>3, <2>4 DEF Put
<1>5. CASE Record
  <2>1. /\ place = "record" /\ place' = "save"
        /\ UNCHANGED <<version, objects, chk, page, records, got, kills, lost, failures>>
    BY <1>5 DEF Record
  <2>2. faults' \in Nat
    BY <1>5, <1>t, PagesAssumption DEF Record, Fault, PagedTypeOK
  <2>3. landings' \in [PageNumbers -> Nat]
    <3>1. landings \in [PageNumbers -> Nat] /\ page \in PageNumbers
      BY <1>t DEF PagedTypeOK
    <3>2. [landings EXCEPT ![page] = @ + 1] \in [PageNumbers -> Nat]
      BY <3>1
    <3> QED
      BY <1>5, <3>1, <3>2 DEF Record
  <2>4. PagedTypeOK'
    BY <2>1, <2>2, <2>3, <1>t DEF PagedTypeOK
  <2>5. Behind'
    BY <2>1 DEF PagedInv, Behind, Working
  <2> QED
    BY <2>1, <2>4, <2>5 DEF PagedInv, CheckpointIsBacked, RecordsCountedOnce
<1>6. CASE Save
  <2>1. /\ place = "save" /\ got' = 0 /\ records' = records + 1
        /\ UNCHANGED <<version, objects, landings, kills, lost, failures>>
    BY <1>6 DEF Save
  <2>2. faults' \in Nat
    BY <1>6, <1>t, PagesAssumption DEF Save, Fault, PagedTypeOK
  <2>3. records + 1 = page
    BY <2>1, <1>r DEF Working
  <2>4. \/ page < Pages /\ page' = page + 1 /\ place' = "fetch"
        \/ page = Pages /\ page' = page /\ place' = "return"
    BY <1>6 DEF Save
  <2>5. page' \in 1..Pages /\ records' \in 0..Pages /\ place' \in {"fetch", "return"}
    BY <2>1, <2>3, <2>4, <1>r, <1>n
  <2>6. \A p \in PageNumbers : p <= page => objects[p] # 0
    BY <2>1, <1>r DEF PagedInv, Behind, Working, PageNumbers
  <2>7. CASE chk' = chk
    <3>1. PagedTypeOK'
      BY <2>1, <2>2, <2>5, <2>7, <1>t, <1>n DEF PagedTypeOK, PageNumbers
    <3>2. CheckpointIsBacked' /\ RecordsCountedOnce'
      BY <2>1, <2>7 DEF PagedInv, CheckpointIsBacked, RecordsCountedOnce
    <3>3. place' \in Working => records' + 1 = page' /\ \A p \in PageNumbers : p < page' => objects'[p] # 0
      BY <2>1, <2>3, <2>4, <2>6, <1>r DEF Working, PageNumbers
    <3>4. Behind'
      BY <2>5, <2>7, <3>3, <1>r DEF Behind
    <3> QED
      BY <3>1, <3>2, <3>4 DEF PagedInv
  <2>8. CASE chk' # chk
    <3>0. /\ chk'.page = page /\ chk'.records = page
          /\ chk'.status = (IF page < Pages THEN "IN_PROGRESS" ELSE "COMPLETED")
          /\ chk' \in [page : 0..Pages, records : 0..Pages,
                       status : {"NONE", "IN_PROGRESS", "COMPLETED"}]
      BY <1>6, <2>8, SavedCheckpoint
    <3>1. PagedTypeOK'
      <4>1. got' \in 0..MaxVersion /\ place' \in {"idle", "fetch", "land", "record", "save", "return", "returned"}
        BY <2>1, <2>5, <1>n
      <4> QED
        BY <2>1, <2>2, <2>5, <3>0, <4>1, <1>t DEF PagedTypeOK, PageNumbers
    <3>2. CheckpointIsBacked' /\ RecordsCountedOnce'
      <4>1. \A p \in PageNumbers : p <= chk'.page => objects'[p] # 0
        BY <2>1, <2>6, <3>0
      <4>2. chk'.status = "COMPLETED" => chk'.page = Pages
        BY <3>0, <2>4
      <4> QED
        BY <3>0, <4>1, <4>2 DEF CheckpointIsBacked, RecordsCountedOnce
    <3>3. place' \in Working => records' + 1 = page' /\ \A p \in PageNumbers : p < page' => objects'[p] # 0
      BY <2>1, <2>3, <2>4, <2>6, <1>r DEF Working, PageNumbers
    <3>4. Behind'
      BY <2>5, <3>0, <3>3, <1>r DEF Behind
    <3> QED
      BY <3>1, <3>2, <3>4 DEF PagedInv
  <2> QED
    BY <2>7, <2>8
<1>7. CASE Return
  <2>1. Leave("returned") /\ UNCHANGED <<version, objects, landings, chk, kills, lost, faults, failures>>
    BY <1>7 DEF Return, stored, counts
  <2>2. PagedTypeOK'
    BY <2>1, <1>t, <1>n DEF PagedTypeOK, Leave, PageNumbers
  <2>3. Behind'
    BY <2>1 DEF PagedInv, Behind, Working, Leave
  <2> QED
    BY <2>1, <2>2, <2>3 DEF PagedInv, CheckpointIsBacked, RecordsCountedOnce
<1>8. CASE Kill
  <2>1. Leave("idle") /\ UNCHANGED <<version, objects, landings, chk, faults, failures>>
    BY <1>8 DEF Kill, stored
  <2>2. kills' \in Nat /\ lost' \in Nat
    BY <1>8, <1>t DEF Kill, PagedTypeOK
  <2>3. PagedTypeOK'
    BY <2>1, <2>2, <1>t, <1>n DEF PagedTypeOK, Leave, PageNumbers
  <2>4. Behind'
    BY <2>1 DEF PagedInv, Behind, Working, Leave
  <2> QED
    BY <2>1, <2>3, <2>4 DEF PagedInv, CheckpointIsBacked, RecordsCountedOnce
<1>9. ASSUME NEW p \in PageNumbers, Change(p) PROVE PagedInv'
  <2>1. UNCHANGED <<objects, landings, chk, place, page, records, got, kills, lost, faults, failures>>
    BY <1>9 DEF Change, stored, counts
  <2>2. version' \in [PageNumbers -> 1..MaxVersion]
    <3>1. version \in [PageNumbers -> 1..MaxVersion] /\ version[p] + 1 \in 1..MaxVersion
      BY <1>9, <1>t, <1>n DEF Change, PagedTypeOK
    <3> QED
      BY <1>9, <3>1 DEF Change
  <2>3. PagedTypeOK'
    BY <2>1, <2>2, <1>t DEF PagedTypeOK
  <2> QED
    BY <2>1, <2>3 DEF PagedInv, Behind, CheckpointIsBacked, RecordsCountedOnce
<1> QED
  BY <1>1, <1>2, <1>3, <1>4, <1>5, <1>6, <1>7, <1>8, <1>9 DEF PagedNext, Step

LEMMA DInvStep == PagedInv /\ DInv /\ [PagedNext]_pagedVars => DInv'
<1> SUFFICES ASSUME PagedInv, DInv, [PagedNext]_pagedVars, faults' = 0 PROVE DInv'
  BY DEF DInv, DuplicatesNeedCrash, Front
<1>n. Pages \in Nat
  BY PagesAssumption
<1>t. /\ landings \in [PageNumbers -> Nat] /\ page \in PageNumbers /\ chk.page \in Nat
      /\ lost \in Nat /\ faults \in Nat
  BY DEF PagedInv, PagedTypeOK
<1>f. faults = 0 /\ UNCHANGED faults
  <2>1. UNCHANGED faults \/ faults' = faults + 1
    BY DEF PagedNext, Step, Start, Fetch, Put, Record, Save, Return, Kill, Change, Fault,
        counts, pagedVars
  <2> QED
    BY <2>1, <1>t
<1>d. /\ \A p \in PageNumbers : landings[p] <= 1 + lost
      /\ place \in Working => page = NextPage
      /\ place \in {"idle", "fetch", "land", "record"} =>
           \A p \in PageNumbers : p >= NextPage => landings[p] <= lost
      /\ place = "save" => \A p \in PageNumbers : p > page => landings[p] <= lost
  BY <1>f DEF DInv, DuplicatesNeedCrash, Front
<1>1. CASE UNCHANGED pagedVars
  BY <1>1, <1>f, <1>d DEF pagedVars, stored, counts, DInv, DuplicatesNeedCrash, Front, NextPage
<1>2. CASE Start
  BY <1>2, <1>f, <1>d, <1>t
     DEF Start, Resume, Fault, stored, DInv, DuplicatesNeedCrash, Front, NextPage
<1>3. CASE Fetch
  BY <1>3, <1>f, <1>d DEF Fetch, Leave, stored, DInv, DuplicatesNeedCrash, Front, NextPage,
      Working
<1>4. CASE Put
  BY <1>4, <1>f, <1>d DEF Put, Leave, counts, DInv, DuplicatesNeedCrash, Front, NextPage,
      Working
<1>5. CASE Record
  <2>1. /\ place = "record" /\ place' = "save" /\ UNCHANGED <<chk, page, lost>>
        /\ landings' = [landings EXCEPT ![page] = @ + 1]
    BY <1>5, <1>f, <1>t DEF Record, Fault
  <2>2. page = NextPage /\ NextPage' = NextPage
    BY <2>1, <1>d DEF Working, NextPage
  <2>3. landings[page] \in Nat /\ landings[page] <= lost
    BY <2>1, <2>2, <1>d, <1>t DEF PageNumbers
  <2>4. ASSUME NEW p \in PageNumbers PROVE /\ landings'[p] <= 1 + lost
                                           /\ p > page => landings'[p] <= lost
    <3>1. CASE p = page
      BY <3>1, <2>1, <2>3, <1>t DEF PageNumbers
    <3>2. CASE p # page
      <4>1. landings'[p] = landings[p]
        BY <3>2, <2>1, <1>t
      <4>2. p > page => landings[p] <= lost
        BY <2>1, <2>2, <1>d, <1>t DEF PageNumbers
      <4> QED
        BY <4>1, <4>2, <1>d
    <3> QED
      BY <3>1, <3>2
  <2> QED
    BY <2>1, <2>2, <2>4 DEF DInv, DuplicatesNeedCrash, Front, Working
<1>6. CASE Save
  <2>1. place = "save" /\ UNCHANGED <<landings, lost>> /\ chk' = Checkpoint
    BY <1>6, <1>f, <1>t DEF Save, Fault
  <2>2. CASE page < Pages /\ page' = page + 1 /\ place' = "fetch"
    <3>1. chk'.page = page /\ chk'.status = "IN_PROGRESS"
      BY <2>1, <2>2 DEF Checkpoint
    <3>2. NextPage' = page + 1
      BY <3>1 DEF NextPage
    <3>3. \A p \in PageNumbers : p >= page + 1 => landings[p] <= lost
      BY <2>1, <1>d, <1>t DEF PageNumbers
    <3> QED
      BY <2>1, <2>2, <3>2, <3>3, <1>d DEF DInv, DuplicatesNeedCrash, Front
  <2>3. CASE place' = "return"
    BY <2>1, <2>3, <1>d DEF DInv, DuplicatesNeedCrash, Front, Working
  <2> QED
    BY <1>6, <2>2, <2>3 DEF Save
<1>7. CASE Return
  BY <1>7, <1>f, <1>d
     DEF Return, Leave, stored, counts, DInv, DuplicatesNeedCrash, Front, NextPage, Working
<1>8. CASE Kill
  <2>1. place' = "idle" /\ UNCHANGED <<landings, chk>> /\ NextPage' = NextPage
    BY <1>8 DEF Kill, Leave, stored, NextPage
  <2>2. lost' \in Nat /\ lost' >= lost
    BY <1>8, <1>t DEF Kill
  <2>3. CASE place \in {"record", "save", "return"}
    <3>1. lost' = lost + 1
      BY <1>8, <2>3 DEF Kill
    <3> QED
      BY <2>1, <3>1, <1>d, <1>t DEF DInv, DuplicatesNeedCrash, Front, Working
  <2>4. CASE place \notin {"record", "save", "return"}
    <3>1. lost' = lost /\ place \in {"fetch", "land"}
      BY <1>8, <2>4 DEF Kill, PagedInv, PagedTypeOK
    <3> QED
      BY <2>1, <3>1, <1>d, <1>t DEF DInv, DuplicatesNeedCrash, Front, Working
  <2> QED
    BY <2>3, <2>4
<1>9. ASSUME NEW p \in PageNumbers, Change(p) PROVE DInv'
  BY <1>9, <1>f, <1>d DEF Change, stored, counts, DInv, DuplicatesNeedCrash, Front, NextPage
<1> QED
  BY <1>1, <1>2, <1>3, <1>4, <1>5, <1>6, <1>7, <1>8, <1>9 DEF PagedNext, Step

LEMMA FreshStep == PagedInv /\ DInv /\ Fresh /\ [PagedNext]_pagedVars => Fresh'
<1> SUFFICES ASSUME PagedInv, DInv, Fresh, [PagedNext]_pagedVars, faults' = 0, lost' = 0
             PROVE  Fresh'
  BY DEF Fresh
<1>t. /\ objects \in [PageNumbers -> 0..MaxVersion] /\ page \in PageNumbers
      /\ chk.page \in Nat /\ lost \in Nat /\ faults \in Nat /\ Pages \in Nat
  BY PagesAssumption DEF PagedInv, PagedTypeOK
<1>f. faults = 0 /\ UNCHANGED faults
  <2>1. UNCHANGED faults \/ faults' = faults + 1
    BY DEF PagedNext, Step, Start, Fetch, Put, Record, Save, Return, Kill, Change, Fault,
        counts, pagedVars
  <2> QED
    BY <2>1, <1>t
<1>l. lost = 0 /\ UNCHANGED lost
  <2>1. UNCHANGED lost \/ lost' = lost + 1
    BY DEF PagedNext, Step, Start, Fetch, Put, Record, Save, Return, Kill, Change, counts,
        pagedVars
  <2> QED
    BY <2>1, <1>t
<1>d. /\ place \in Working => page = NextPage
      /\ place \in {"idle", "fetch", "land"} =>
           \A p \in PageNumbers : p >= NextPage => objects[p] = 0
      /\ place \in {"record", "save"} => \A p \in PageNumbers : p > page => objects[p] = 0
  BY <1>f, <1>l DEF DInv, Front, Fresh
<1>1. CASE UNCHANGED pagedVars
  BY <1>1, <1>d DEF pagedVars, stored, counts, Fresh, NextPage
<1>2. CASE Start
  BY <1>2, <1>d DEF Start, stored, Fresh, NextPage
<1>3. CASE Fetch
  BY <1>3, <1>d DEF Fetch, Leave, stored, Fresh, NextPage
<1>4. CASE Put
  <2>1. CASE place' = "record"
    <3>1. /\ objects' = [objects EXCEPT ![page] = got] /\ UNCHANGED <<chk, page>>
          /\ place = "land"
      BY <1>4, <2>1 DEF Put, Leave
    <3>2. \A p \in PageNumbers : p > page => objects'[p] = 0
      BY <3>1, <1>d, <1>t DEF Working, PageNumbers
    <3> QED
      BY <2>1, <3>1, <3>2 DEF Fresh
  <2>2. CASE place' # "record"
    BY <1>4, <2>2, <1>d DEF Put, Leave, Fresh, NextPage
  <2> QED
    BY <2>1, <2>2
<1>5. CASE Record
  BY <1>5, <1>d DEF Record, Fresh, NextPage
<1>6. CASE Save
  <2>1. place = "save" /\ UNCHANGED objects /\ chk' = Checkpoint
    BY <1>6, <1>f, <1>t DEF Save, Fault
  <2>2. CASE page < Pages /\ page' = page + 1 /\ place' = "fetch"
    <3>1. chk'.page = page /\ chk'.status = "IN_PROGRESS"
      BY <2>1, <2>2 DEF Checkpoint
    <3>2. NextPage' = page + 1
      BY <3>1 DEF NextPage
    <3> QED
      BY <2>1, <2>2, <3>2, <1>d, <1>t DEF Fresh, PageNumbers
  <2>3. CASE place' = "return"
    BY <2>3 DEF Fresh
  <2> QED
    BY <1>6, <2>2, <2>3 DEF Save
<1>7. CASE Return
  BY <1>7 DEF Return, Leave, Fresh
<1>8. CASE Kill
  <2>1. place' = "idle" /\ UNCHANGED <<objects, chk>> /\ NextPage' = NextPage
    BY <1>8 DEF Kill, Leave, stored, NextPage
  <2>2. place \in {"fetch", "land"}
    BY <1>8, <1>l, <1>t DEF Kill, PagedInv, PagedTypeOK
  <2> QED
    BY <2>1, <2>2, <1>d DEF Fresh
<1>9. ASSUME NEW p \in PageNumbers, Change(p) PROVE Fresh'
  BY <1>9, <1>d DEF Change, stored, Fresh, NextPage
<1> QED
  BY <1>1, <1>2, <1>3, <1>4, <1>5, <1>6, <1>7, <1>8, <1>9 DEF PagedNext, Step

LEMMA PagedInvHolds == PagedSpec => [](PagedInv /\ DInv)
<1>1. PagedInv /\ DInv /\ [PagedNext]_pagedVars => (PagedInv /\ DInv)'
  BY PagedInvStep, DInvStep
<1> QED
  BY <1>1, PagedInvInit, PTL DEF PagedSpec

LEMMA FreshHolds == PagedSpec => [](PagedInv /\ DInv /\ Fresh)
<1>1. PagedInit => Fresh
  BY DEF PagedInit, Fresh, PageNumbers
<1>2. PagedInv /\ DInv /\ Fresh /\ [PagedNext]_pagedVars => Fresh'
  BY FreshStep
<1> QED
  BY <1>1, <1>2, PagedInvHolds, PTL DEF PagedSpec

\* The types of the job's state, whatever the constants.
THEOREM PagedTypeCorrect == PagedSpec => []PagedTypeOK
<1>1. PagedInv => PagedTypeOK
  BY DEF PagedInv
<1> QED
  BY <1>1, PagedInvHolds, PTL

\* For any number of pages, deaths, database errors and changes of the data: the
\* checkpoint never runs ahead of the landed pages.
THEOREM Backed == PagedSpec => []CheckpointIsBacked
<1>1. PagedInv => CheckpointIsBacked
  BY DEF PagedInv
<1> QED
  BY <1>1, PagedInvHolds, PTL

\* Likewise records_ingested counts every page up to the checkpoint once.
THEOREM CountedOnce == PagedSpec => []RecordsCountedOnce
<1>1. PagedInv => RecordsCountedOnce
  BY DEF PagedInv
<1> QED
  BY <1>1, PagedInvHolds, PTL

\* While the database answers, each second landing row has a dead worker behind it.
THEOREM Duplicates == PagedSpec => []DuplicatesNeedCrash
<1>1. DInv => DuplicatesNeedCrash
  BY DEF DInv
<1> QED
  BY <1>1, PagedInvHolds, PTL

\* For any number of pages, deaths and repeated calls: while the database answers,
\* the checkpoint of an uncompleted job goes forward by one page at a time.
THEOREM Advances == PagedSpec => CheckpointAdvances
<1> DEFINE Forward == (faults' = 0 /\ chk' # chk /\ chk.status # "COMPLETED") => chk'.page = chk.page + 1
<1>1. ASSUME PagedInv, DInv, [PagedNext]_pagedVars, faults' = 0, chk' # chk, chk.status # "COMPLETED"
      PROVE  chk'.page = chk.page + 1
  <2>1. Save
    BY <1>1 DEF PagedNext, Step, Start, Fetch, Put, Record, Return, Kill, Change, stored, pagedVars
  <2>2. chk'.page = page
    BY <1>1, <2>1, SavedCheckpoint
  <2>3. faults = 0
    BY <1>1, <2>1 DEF Save, Fault, PagedInv, PagedTypeOK
  <2>4. page = NextPage
    BY <1>1, <2>1, <2>3 DEF DInv, Front, Save, Working
  <2>5. chk.status # "IN_PROGRESS" => chk.page = 0
    BY <1>1 DEF PagedInv, Behind, PagedTypeOK
  <2> QED
    BY <2>2, <2>4, <2>5 DEF NextPage
<1>2. PagedInv /\ DInv /\ [PagedNext]_pagedVars => [Forward]_pagedVars
  BY <1>1
<1> QED
  BY <1>2, PagedInvHolds, PTL DEF PagedSpec, CheckpointAdvances

\* For any number of pages: a landing of its own refuses a job its page only after a
\* worker died between a landing and the return of the checkpoint.
THEOREM Refusals == PagedSpec => []RefusalNeedsCrash
<1>1. PagedInv /\ DInv /\ Fresh => RefusalNeedsCrash
  <2> SUFFICES ASSUME PagedInv, DInv, Fresh, faults = 0, lost = 0, place = "land"
               PROVE  objects[page] = 0
    BY DEF RefusalNeedsCrash
  <2>1. page = NextPage /\ page \in PageNumbers
    BY DEF DInv, Front, Working, PagedInv, PagedTypeOK
  <2>2. page >= NextPage
    BY <2>1, PagesAssumption DEF PageNumbers
  <2> QED
    BY <2>1, <2>2 DEF Fresh
<1> QED
  BY <1>1, FreshHolds, PTL

\* No step changes an object that has been landed.
THEOREM Immutable == PagedSpec => LandingsImmutable
<1> DEFINE Stays == \A p \in PageNumbers : objects[p] # 0 => objects'[p] = objects[p]
<1>1. PagedInv /\ [PagedNext]_pagedVars => [Stays]_pagedVars
  BY DEF PagedInv, PagedTypeOK, PagedNext, Step, Start, Fetch, Put, Record, Save, Return,
      Kill, Change,
         stored, pagedVars
<1> QED
  BY <1>1, PagedInvHolds, PTL DEF PagedSpec, LandingsImmutable

=============================================================================
