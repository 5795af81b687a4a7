-------------------------- MODULE BeatLeaderProofs --------------------------
(* Safety of the Beat leader election, for any number of instances.        *)
EXTENDS BeatLeader, TLAPS

\* The key is absent exactly when its time to live is 0, and an instance is a
\* leader only between its start and its end; one that runs without a client has
\* seen a call fail.
KeyShape ==
  /\ (ttl = 0) <=> (owner = Nobody)
  /\ \A b \in Beats : pc[b] \in {"down", "nx"} => b \notin leaders
  /\ \A b \in Beats : pc[b] # "down" /\ b \notin connected => faults > 0

\* The inductive invariant of LeaseElectsOne: it needs the shape of the key,
\* since Acquire may make a leader only when no leader's name is under the key.
IInv == TypeOK /\ KeyShape /\ LeaseElectsOne /\ KeyNamesALeader

LEMMA InitIInv == Init => IInv
<1> SUFFICES ASSUME Init PROVE IInv
  OBVIOUS
<1> USE BeatAssumption DEF Init
<1>1. TypeOK
  <2>1. pc \in [Beats -> Locations]
    BY DEF Locations
  <2>2. lapsed \in BOOLEAN
    OBVIOUS
  <2>3. leaders \subseteq Beats /\ connected \subseteq Beats
    OBVIOUS
  <2>4. owner \in Beats \cup {Nobody, Gone} /\ ttl \in 0..TTL
    OBVIOUS
  <2> QED
    BY <2>1, <2>2, <2>3, <2>4 DEF TypeOK
<1>2. KeyShape
  BY DEF KeyShape
<1>3. LeaseElectsOne /\ KeyNamesALeader
  BY DEF LeaseElectsOne, KeyNamesALeader
<1> QED
  BY <1>1, <1>2, <1>3 DEF IInv

LEMMA TypeStep == TypeOK /\ [Next]_vars => TypeOK'
<1> SUFFICES ASSUME TypeOK, [Next]_vars PROVE TypeOK'
  OBVIOUS
<1> USE BeatAssumption DEF TypeOK, Locations, GoTo, SetKey, SetNX, SetXX
<1>1. CASE UNCHANGED vars
  BY <1>1 DEF vars
<1>2. CASE TimePasses
  BY <1>2 DEF TimePasses
<1>3. ASSUME NEW b \in Beats, Boot(b) PROVE TypeOK'
  BY <1>3 DEF Boot, Fault
<1>4. ASSUME NEW b \in Beats, Tick(b) PROVE TypeOK'
  BY <1>4 DEF Tick, Renew, LeaseLost, Acquire, Standby, NXRefused, LocalLead, Dispatch
<1>5. ASSUME NEW b \in Beats, Fallback(b) PROVE TypeOK'
  BY <1>5 DEF Fallback, Fault
<1>6. ASSUME NEW b \in Beats, Release(b) PROVE TypeOK'
  BY <1>6 DEF Release, Fault, DeleteOwnKey
<1>7. ASSUME NEW b \in Beats, Crash(b) PROVE TypeOK'
  BY <1>7 DEF Crash
<1> QED
  BY <1>1, <1>2, <1>3, <1>4, <1>5, <1>6, <1>7 DEF Next

LEMMA IInvStep == IInv /\ [Next]_vars => IInv'
<1> SUFFICES ASSUME IInv, [Next]_vars PROVE IInv'
  OBVIOUS
<1>t. TypeOK /\ TypeOK'
  BY TypeStep DEF IInv
<1> USE <1>t, BeatAssumption
    DEF IInv, TypeOK, Locations, KeyShape, LeaseElectsOne, KeyNamesALeader,
        GoTo, SetKey, SetNX, SetXX
<1>1. CASE UNCHANGED vars
  BY <1>1 DEF vars
<1>2. CASE TimePasses
  <2> USE <1>2 DEF TimePasses
  <2>1. KeyShape'
    OBVIOUS
  <2>2. LeaseElectsOne'
    OBVIOUS
  <2>3. KeyNamesALeader'
    OBVIOUS
  <2> QED
    BY <2>1, <2>2, <2>3
<1>3. ASSUME NEW b \in Beats, Boot(b) PROVE IInv'
  BY <1>3 DEF Boot, Fault
<1>4. ASSUME NEW b \in Beats, Tick(b) PROVE IInv'
  <2>1. CASE Renew(b)
    BY <2>1 DEF Renew
  <2>2. CASE LeaseLost(b)
    BY <2>2 DEF LeaseLost
  <2>3. CASE Acquire(b)
    BY <2>3 DEF Acquire, MayTryNX
  <2>4. CASE Standby(b)
    BY <2>4 DEF Standby, NXRefused, MayTryNX
  <2>5. CASE LocalLead(b)
    BY <2>5 DEF LocalLead
  <2>6. CASE Dispatch(b)
    BY <2>6 DEF Dispatch
  <2> QED
    BY <1>4, <2>1, <2>2, <2>3, <2>4, <2>5, <2>6 DEF Tick
<1>5. ASSUME NEW b \in Beats, Fallback(b) PROVE IInv'
  BY <1>5 DEF Fallback, Fault
<1>6. ASSUME NEW b \in Beats, Release(b) PROVE IInv'
  BY <1>6 DEF Release, Fault, DeleteOwnKey
<1>7. ASSUME NEW b \in Beats, Crash(b) PROVE IInv'
  BY <1>7 DEF Crash
<1> QED
  BY <1>1, <1>2, <1>3, <1>4, <1>5, <1>6, <1>7 DEF Next

\* Every variable of the election keeps its type for any set of instances, any
\* ttl_seconds and any number of crashes and failed calls.
THEOREM TypeCorrect == Spec => []TypeOK
<1>1. Init => TypeOK
  BY InitIInv DEF IInv
<1> QED
  BY <1>1, TypeStep, PTL DEF Spec

LEMMA IInvHolds == Spec => []IInv
BY InitIInv, IInvStep, PTL DEF Spec

\* For any number of Beat instances: as long as every Redis call was answered and
\* no leader outlived its lease, BeatLeaderLock elects at most one leader.
THEOREM ElectsOne == Spec => []LeaseElectsOne
<1>1. IInv => LeaseElectsOne
  BY DEF IInv
<1> QED
  BY <1>1, IInvHolds, PTL

\* For any number of Beat instances: without failed calls the key never names an
\* instance that is on standby.
THEOREM KeyLeader == Spec => []KeyNamesALeader
<1>1. IInv => KeyNamesALeader
  BY DEF IInv
<1> QED
  BY <1>1, IInvHolds, PTL

\* For any number of Beat instances, failed calls included: no release() frees a
\* key that another instance has taken over.
THEOREM HolderFreesKey == Spec => OnlyHolderFreesKey
<1> DEFINE Frees(b) == (owner = b /\ owner' = Nobody) => (ttl = 1 \/ b \notin leaders')
<1>1. ASSUME IInv, [Next]_vars, NEW b \in Beats, owner = b, owner' = Nobody
      PROVE  ttl = 1 \/ b \notin leaders'
  <2> USE <1>1, BeatAssumption DEF IInv, TypeOK, SetKey, SetNX, SetXX
  <2>1. b # Nobody /\ owner' # owner
    OBVIOUS
  <2>2. CASE TimePasses
    BY <2>1, <2>2 DEF TimePasses
  <2>3. ASSUME NEW c \in Beats, Boot(c) \/ Tick(c) PROVE FALSE
    BY <2>1, <2>3 DEF Boot, Tick, Renew, LeaseLost, Acquire, Standby, NXRefused,
       LocalLead, Dispatch
  <2>4. ASSUME NEW c \in Beats, Fallback(c) PROVE FALSE
    BY <2>1, <2>4 DEF Fallback
  <2>5. ASSUME NEW c \in Beats, Release(c) PROVE b \notin leaders'
    BY <2>1, <2>5 DEF Release, DeleteOwnKey
  <2>6. ASSUME NEW c \in Beats, Crash(c) PROVE FALSE
    BY <2>1, <2>6 DEF Crash
  <2>7. CASE UNCHANGED vars
    BY <2>1, <2>7 DEF vars
  <2> QED
    BY <2>2, <2>3, <2>4, <2>5, <2>6, <2>7 DEF Next
<1>2. IInv /\ [Next]_vars => [\A b \in Beats : Frees(b)]_vars
  BY <1>1
<1> QED
  BY <1>2, IInvHolds, PTL DEF Spec, OnlyHolderFreesKey

=============================================================================
