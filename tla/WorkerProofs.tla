---------------------------- MODULE WorkerProofs ----------------------------
(***************************************************************************)
(* Safety of the background workers, for any number of processes: the task *)
(* harness with its lock, and the replacement of a cost partition          *)
(* statement by statement, which the harness runs as one step.             *)
(***************************************************************************)
EXTENDS TaskHarness, CostPartition, TLAPS

-----------------------------------------------------------------------------
(* The task harness.                                                       *)

\* The lock key is absent exactly when it has no time to live, and nothing that
\* was fetched or stored is newer than what the provider has published.
Shape ==
  /\ (lock = NoOne) <=> (ttl = 0)
  /\ partition <= published
  /\ \A w \in Workers : fetched[w] <= published
  /\ \A v \in late : v <= published

\* What an invocation may rely on while Redis answers: it works with a Redis
\* client, and until it is TTL ticks old the key holds its token and has at least
\* TTL - age ticks to go.
Held ==
  faults = 0 => \A w \in Workers :
                  /\ pc[w] # "idle" => w \in client
                  /\ (pc[w] \in Inside /\ age[w] < TTL) => (lock = w /\ ttl + age[w] >= TTL)

\* Whoever is between acquire() and release() with an invocation that is TTL ticks
\* old is remembered.
Watched ==
  \A v, w \in Workers : (pc[v] \in Inside /\ pc[w] \in Inside /\ age[v] >= TTL) => w \in overran

\* The version an invocation has fetched is not outdated while it waits for its
\* commit, by the partition or by a replacement that timed out and may still commit,
\* unless an overrun has let somebody in.
Fresh ==
  faults = 0 => \A w \in Workers :
                  (pc[w] = "replace" /\ w \notin overran) =>
                     /\ partition <= fetched[w]
                     /\ \A v \in late : v <= fetched[w]

IInv == TypeOK /\ Shape /\ Held /\ Watched /\ Fresh

LEMMA InitIInv == Init => IInv
<1> SUFFICES ASSUME Init PROVE IInv
  OBVIOUS
<1> USE HarnessAssumption DEF Init
<1>1. TypeOK
  BY DEF TypeOK, Inside, Statuses
<1>2. Shape /\ Held /\ Watched /\ Fresh
  BY DEF Shape, Held, Watched, Fresh, Inside
<1> QED
  BY <1>1, <1>2 DEF IInv

\* Every step keeps the types, one action at a time.
LEMMA TypeStep == TypeOK /\ [Next]_vars => TypeOK'
<1> SUFFICES ASSUME TypeOK, [Next]_vars PROVE TypeOK'
  OBVIOUS
<1>o. overran' \subseteq Workers
  BY DEF Next, Watch, vars, TypeOK
<1> USE <1>o, HarnessAssumption DEF TypeOK, Inside, Statuses, GoTo, End, Fault, SetLock,
        lockVars, runVars, dataVars, jobVars
<1>1. CASE UNCHANGED vars
  BY <1>1 DEF vars
<1>2. CASE Tick
  BY <1>2 DEF Tick
<1>3. CASE Publish
  BY <1>3 DEF Publish
<1>4. ASSUME NEW w \in Workers, Begin(w) PROVE TypeOK'
  BY <1>4 DEF Begin
<1>5. ASSUME NEW w \in Workers, Acquire(w) PROVE TypeOK'
  BY <1>5 DEF Acquire
<1>6. ASSUME NEW w \in Workers, Refused(w) PROVE TypeOK'
  BY <1>6 DEF Refused
<1>7. ASSUME NEW w \in Workers, AcquireWithoutRedis(w) PROVE TypeOK'
  BY <1>7 DEF AcquireWithoutRedis, AcquireLocal
<1>8. ASSUME NEW w \in Workers, Lookup(w) PROVE TypeOK'
  BY <1>8 DEF Lookup
<1>9. ASSUME NEW w \in Workers, Create(w) PROVE TypeOK'
  BY <1>9 DEF Create, AddRow
<1>10. ASSUME NEW w \in Workers, Fetch(w) PROVE TypeOK'
  BY <1>10 DEF Fetch
<1>11. ASSUME NEW w \in Workers, Replace(w) PROVE TypeOK'
  <2>1. pc' \in [Workers -> Inside \cup {"idle", "acquire"}]
    BY <1>11 DEF Replace
  <2>2. /\ fetched[w] \in 0..MaxVersion
        /\ late' = late \/ late' = late \cup {fetched[w]}
        /\ partition' = partition \/ partition' = fetched[w]
    BY <1>11 DEF Replace
  <2>3. late' \subseteq 0..MaxVersion /\ partition' \in 0..MaxVersion
    BY <2>2, Zenon
  <2> QED
    BY <1>11, <2>1, <2>3 DEF Replace
<1>12. ASSUME NEW w \in Workers, Complete(w) PROVE TypeOK'
  BY <1>12 DEF Complete, AddRow
<1>13. ASSUME NEW w \in Workers, Failed(w) PROVE TypeOK'
  BY <1>13 DEF Failed, AddRow, LastWord
<1>14. ASSUME NEW w \in Workers, Penalise(w) PROVE TypeOK'
  BY <1>14 DEF Penalise, SaveQuarantine
<1>15. ASSUME NEW w \in Workers, Release(w) PROVE TypeOK'
  BY <1>15 DEF Release, Unlock, UnlockLocal
<1>16. ASSUME NEW w \in Workers, Kill(w) PROVE TypeOK'
  BY <1>16 DEF Kill, AddRow
<1>17. ASSUME NEW w \in Workers, LocalExpires(w) PROVE TypeOK'
  BY <1>17 DEF LocalExpires
<1>18. ASSUME NEW v \in 0..MaxVersion, LateCommit(v) PROVE TypeOK'
  BY <1>18 DEF LateCommit
<1> QED
  BY <1>1, <1>2, <1>3, <1>4, <1>5, <1>6, <1>7, <1>8, <1>9, <1>10,
     <1>11, <1>12, <1>13, <1>14, <1>15, <1>16, <1>17, <1>18
     DEF Next, Step

LEMMA WatchedStep == TypeOK /\ Watched /\ [Next]_vars => Watched'
<1> SUFFICES ASSUME TypeOK, Watched, [Next]_vars PROVE Watched'
  OBVIOUS
<1>1. CASE UNCHANGED vars
  BY <1>1 DEF vars, lockVars, runVars, Watched
<1>2. CASE Next
  BY <1>2 DEF Next, Watch, Watched
<1> QED
  BY <1>1, <1>2

LEMMA IInvStep == IInv /\ [Next]_vars => IInv'
<1> SUFFICES ASSUME IInv, [Next]_vars PROVE Shape' /\ Held' /\ Fresh'
  BY TypeStep, WatchedStep DEF IInv
<1>t. TypeOK'
  BY TypeStep DEF IInv
<1>w. \A w \in Workers : (w \in overran /\ pc'[w] \in Inside) => w \in overran'
  BY DEF Next, Watch, vars
<1> USE <1>t, <1>w, HarnessAssumption
    DEF IInv, TypeOK, Shape, Held, Watched, Fresh, Inside, GoTo, End, Fault,
        SetLock, lockVars, runVars, dataVars, jobVars
<1>1. CASE UNCHANGED vars
  BY <1>1 DEF vars
<1>2. CASE Tick
  BY <1>2 DEF Tick
<1>3. CASE Publish
  BY <1>3 DEF Publish
<1>4. ASSUME NEW w \in Workers, Begin(w) PROVE Shape' /\ Held' /\ Fresh'
  BY <1>4 DEF Begin
<1>5. ASSUME NEW w \in Workers, Acquire(w) PROVE Shape' /\ Held' /\ Fresh'
  BY <1>5 DEF Acquire
<1>6. ASSUME NEW w \in Workers, Refused(w) PROVE Shape' /\ Held' /\ Fresh'
  BY <1>6 DEF Refused
<1>7. ASSUME NEW w \in Workers, AcquireWithoutRedis(w) PROVE Shape' /\ Held' /\ Fresh'
  BY <1>7 DEF AcquireWithoutRedis, AcquireLocal
<1>8. ASSUME NEW w \in Workers, Lookup(w) \/ Create(w) PROVE Shape' /\ Held' /\ Fresh'
  BY <1>8 DEF Lookup, Create
<1>9. ASSUME NEW w \in Workers, Fetch(w) PROVE Shape' /\ Held' /\ Fresh'
  BY <1>9 DEF Fetch
<1>10. ASSUME NEW w \in Workers, Replace(w) PROVE Shape' /\ Held' /\ Fresh'
  BY <1>10 DEF Replace
<1>11. ASSUME NEW w \in Workers, Complete(w) \/ Failed(w) \/ Penalise(w)
       PROVE  Shape' /\ Held' /\ Fresh'
  BY <1>11 DEF Complete, Failed, Penalise, SaveQuarantine
<1>12. ASSUME NEW w \in Workers, Release(w) PROVE Shape' /\ Held' /\ Fresh'
  BY <1>12 DEF Release, Unlock, UnlockLocal
<1>13. ASSUME NEW w \in Workers, Kill(w) \/ LocalExpires(w) PROVE Shape' /\ Held' /\ Fresh'
  BY <1>13 DEF Kill, LocalExpires
<1>14. ASSUME NEW v \in 0..MaxVersion, LateCommit(v) PROVE Shape' /\ Held' /\ Fresh'
  BY <1>14 DEF LateCommit
<1> QED
  BY <1>1, <1>2, <1>3, <1>4, <1>5, <1>6, <1>7, <1>8, <1>9, <1>10, <1>11, <1>12,
     <1>13, <1>14
     DEF Next, Step

LEMMA IInvHolds == Spec => []IInv
BY InitIInv, IInvStep, PTL DEF Spec

\* The types of the harness's state, whatever the constants.
THEOREM TypeCorrect == Spec => []TypeOK
<1>1. IInv => TypeOK
  BY DEF IInv
<1> QED
  BY <1>1, IInvHolds, PTL

\* For any number of workers, any lock lifetime and any time limit: as long as Redis
\* answers, invocations overlap only when one has outlived its lock.
THEOREM Exclusive == Spec => []OverlapMeansOverrun
<1>1. IInv => OverlapMeansOverrun
  BY HarnessAssumption DEF IInv, TypeOK, Held, OverlapMeansOverrun
<1> QED
  BY <1>1, IInvHolds, PTL

\* For any lifetimes of the lock and of the invocations, those deployed included: as
\* long as Redis answers, only an overrun or a replacement that had timed out can put
\* older cost data in the place of newer.
THEOREM NoRegress == Spec => RegressMeansOverrun
<1> DEFINE Excused == \/ partition' \in late \ late'
                      \/ \E w \in overran : pc[w] = "replace" /\ pc'[w] = "complete"
<1> DEFINE Back == (faults = 0 /\ partition' < partition) => Excused
<1>1. ASSUME IInv, [Next]_vars, faults = 0, partition' < partition PROVE Excused
  <2> USE <1>1 DEF IInv, TypeOK, lockVars, runVars, dataVars, jobVars
  <2>0. partition' # partition
    OBVIOUS
  <2>1. ASSUME NEW w \in Workers, Replace(w) PROVE Excused
    <3>1. pc[w] = "replace" /\ pc'[w] = "complete" /\ partition' = fetched[w]
      BY <2>0, <2>1 DEF Replace, GoTo
    <3>2. w \in overran
      BY <3>1 DEF Fresh
    <3> QED
      BY <3>1, <3>2
  <2>2. ASSUME NEW w \in Workers, Step(w) PROVE Replace(w)
    BY <2>0, <2>2 DEF Step, Acquire, Refused, AcquireWithoutRedis, Lookup, Create,
       Fetch, Complete, Failed, Penalise, SaveQuarantine, Release
  <2>3. ASSUME NEW w \in Workers, Begin(w) \/ Kill(w) \/ LocalExpires(w)
        PROVE  FALSE
    BY <2>0, <2>3 DEF Begin, Kill, LocalExpires
  <2>4. ~(Tick \/ Publish \/ UNCHANGED vars)
    BY <2>0 DEF Tick, Publish, vars
  <2>5. ASSUME NEW v \in 0..MaxVersion, LateCommit(v) PROVE partition' \in late \ late'
    BY <2>0, <2>5 DEF LateCommit
  <2> QED
    BY <2>1, <2>2, <2>3, <2>4, <2>5 DEF Next
<1>2. IInv /\ [Next]_vars => [Back]_vars
  BY <1>1
<1> QED
  BY <1>2, IInvHolds, PTL DEF Spec, RegressMeansOverrun

\* Failed calls, kills and overrun leases included: no release() removes the lock
\* of another live invocation.
THEOREM OwnLockOnly == Spec => ReleaseOnlyOwnLock
<1> DEFINE Keeps(w) ==
      (lock = w /\ pc[w] \in Inside /\ lock' # w) =>
        (pc'[w] = "idle" \/ (ttl = 1 /\ age'[w] = age[w] + 1))
<1>1. ASSUME IInv, [Next]_vars, NEW w \in Workers,
             lock = w, pc[w] \in Inside, lock' # w
      PROVE  pc'[w] = "idle" \/ (ttl = 1 /\ age'[w] = age[w] + 1)
  <2> USE <1>1, HarnessAssumption
      DEF IInv, TypeOK, lockVars, runVars, dataVars, jobVars
  <2>1. CASE Tick
    BY <2>1 DEF Tick, Inside
  <2>2. CASE Publish \/ UNCHANGED vars
    BY <2>2 DEF Publish, vars
  <2>3. ASSUME NEW v \in Workers, Begin(v) PROVE FALSE
    BY <2>3 DEF Begin, Inside
  <2>4. ASSUME NEW v \in Workers, Release(v) PROVE pc'[w] = "idle"
    BY <2>4 DEF Release, Unlock, End
  <2>5. ASSUME NEW v \in Workers, Step(v) PROVE Release(v)
    BY <2>5 DEF Step, Acquire, SetLock, Refused, AcquireWithoutRedis, Lookup, Create,
       Fetch, Replace, Complete, Failed, Penalise, SaveQuarantine
  <2>6. ASSUME NEW v \in Workers, Kill(v) \/ LocalExpires(v) PROVE FALSE
    BY <2>6 DEF Kill, LocalExpires
  <2>7. ASSUME NEW v \in 0..MaxVersion, LateCommit(v) PROVE FALSE
    BY <2>7 DEF LateCommit
  <2> QED
    BY <2>1, <2>2, <2>3, <2>4, <2>5, <2>6, <2>7 DEF Next
<1>2. IInv /\ [Next]_vars => [\A w \in Workers : Keeps(w)]_vars
  BY <1>1
<1> QED
  BY <1>2, IInvHolds, PTL DEF Spec, ReleaseOnlyOwnLock

-----------------------------------------------------------------------------
(* The replacement of a cost partition.                                    *)

LEMMA CostInitType == CostInit => CostTypeOK
BY DEF CostInit, CostTypeOK, Nothing

\* What ON CONFLICT DO UPDATE writes is rows of the table, whoever inserted those it
\* replaces.
LEMMA WrittenFacts ==
  ASSUME NEW t \in Txns, NEW table \in SUBSET Facts, NEW lines \in SUBSET Lines
  PROVE  Written(t, table, lines) \subseteq Facts
<1> SUFFICES ASSUME NEW l \in lines
             PROVE  [key |-> l.key, value |-> l.value, by |-> t,
                     first |-> IF l.key \in KeysOf(table)
                                 THEN (CHOOSE r \in table : r.key = l.key).first ELSE t] \in Facts
  BY DEF Written
<1>1. l.key \in KeysOf(table) => (CHOOSE r \in table : r.key = l.key) \in table
  BY DEF KeysOf
<1> QED
  BY <1>1 DEF Facts, Lines

LEMMA WrittenAggregates ==
  ASSUME NEW t \in Txns, NEW table \in SUBSET Aggregates,
         NEW lines \in SUBSET [key : Groups, value : SUBSET Lines]
  PROVE  Written(t, table, lines) \subseteq Aggregates
<1> SUFFICES ASSUME NEW l \in lines
             PROVE  [key |-> l.key, value |-> l.value, by |-> t,
                     first |-> IF l.key \in KeysOf(table)
                                 THEN (CHOOSE r \in table : r.key = l.key).first ELSE t]
                      \in Aggregates
  BY DEF Written
<1>1. l.key \in KeysOf(table) => (CHOOSE r \in table : r.key = l.key) \in table
  BY DEF KeysOf
<1> QED
  BY <1>1 DEF Aggregates

\* Grouping keeps to the groups and to the lines it is given.
LEMMA GroupedType ==
  ASSUME NEW table \in SUBSET Facts
  PROVE  Grouped(LinesOf(table)) \in SUBSET [key : Groups, value : SUBSET Lines]
<1>1. LinesOf(table) \subseteq Lines
  BY DEF LinesOf, Lines, Facts
<1>2. \A l \in LinesOf(table) : GroupOf[l.key] \in Groups
  BY <1>1, CostAssumption DEF Lines
<1> HIDE DEF Lines
<1> QED
  BY <1>1, <1>2 DEF Grouped

\* Every step keeps the types, one action at a time.
LEMMA CostTypeStep == CostTypeOK /\ [CostNext]_costVars => CostTypeOK'
<1> SUFFICES ASSUME CostTypeOK, [CostNext]_costVars PROVE CostTypeOK'
  OBVIOUS
<1> USE DEF CostTypeOK, Open, Ended, At, tables, locks
<1>1. CASE UNCHANGED costVars
  BY <1>1 DEF costVars
<1>2. ASSUME NEW t \in Txns, BeginIngestion(t) PROVE CostTypeOK'
  BY <1>2, CostAssumption DEF BeginIngestion
<1>3. ASSUME NEW t \in Txns, PriorTotals(t) PROVE CostTypeOK'
  BY <1>3 DEF PriorTotals
<1>4. ASSUME NEW t \in Txns, DeleteSees(t) PROVE CostTypeOK'
  <2>1. Tuples(facts) \subseteq (Ids \cup Groups) \X Txns
    BY DEF Tuples, Tuple, Facts
  <2> QED
    BY <1>4, <2>1 DEF DeleteSees
<1>5. ASSUME NEW t \in Txns, DeleteRows(t) PROVE CostTypeOK'
  BY <1>5 DEF DeleteRows
<1>6. ASSUME NEW t \in Txns, Insert(t) PROVE CostTypeOK'
  <2>1. Written(t, facts \ gone[t], data[t]) \subseteq Facts
    BY WrittenFacts
  <2>2. Meets(facts \ gone[t], data[t]) \subseteq Facts
    BY DEF Meets
  <2> QED
    BY <1>6, <2>1, <2>2 DEF Insert
<1>7. ASSUME NEW t \in Txns, AggDeleteSees(t) PROVE CostTypeOK'
  <2>1. Tuples(agg) \subseteq (Ids \cup Groups) \X Txns
    BY DEF Tuples, Tuple, Aggregates
  <2> QED
    BY <1>7, <2>1 DEF AggDeleteSees
<1>8. ASSUME NEW t \in Txns, AggDeleteRows(t) PROVE CostTypeOK'
  BY <1>8 DEF AggDeleteRows
<1>9. ASSUME NEW t \in Txns, AggSelect(t) PROVE CostTypeOK'
  <2>1. Visible(t) \in SUBSET Facts
    BY DEF Visible
  <2>2. Grouped(LinesOf(Visible(t))) \in SUBSET [key : Groups, value : SUBSET Lines]
    BY <2>1, GroupedType
  <2> QED
    BY <1>9, <2>2 DEF AggSelect
<1>10. ASSUME NEW t \in Txns, AggInsert(t) PROVE CostTypeOK'
  <2>1. Written(t, agg \ aggGone[t], sums[t]) \subseteq Aggregates
    BY WrittenAggregates
  <2>2. Meets(agg \ aggGone[t], sums[t]) \subseteq Aggregates
    BY DEF Meets
  <2> QED
    BY <1>10, <2>1, <2>2 DEF AggInsert
<1>11. ASSUME NEW t \in Txns, Commit(t) PROVE CostTypeOK'
  BY <1>11 DEF Commit, Close, Visible
<1>12. ASSUME NEW t \in Txns, Abort(t) PROVE CostTypeOK'
  BY <1>12 DEF Abort, Close
<1> QED
  BY <1>1, <1>2, <1>3, <1>4, <1>5, <1>6, <1>7, <1>8, <1>9, <1>10, <1>11, <1>12
     DEF CostNext, ReplacePartition

\* The types of the tables and of the open transactions, whatever the constants.
THEOREM CostTypeCorrect == CostSpec => []CostTypeOK
BY CostInitType, CostTypeStep, PTL DEF CostSpec

\* The stages after the DELETE of cost_fact has locked its rows.
Cleared == {"insert", "aggDelete", "aggDeleting", "aggSelect", "aggInsert", "commit"}

\* The rows of those who had committed when the DELETE began.
Old(t) == {r \in facts : r.by \in before[t]}

\* Who has committed is remembered, and only they have rows in the table.  What a
\* transaction writes is its own.  Its DELETE has found every row of those who had
\* committed, waits for whoever holds one, and has deleted what is left of them when
\* it goes on: from then on nobody can bring one back.
Sweeps(t) ==
  /\ before[t] \subseteq {d \in Txns : statement[d] = "committed"}
  /\ \A r \in put[t] : r.by = t
  /\ statement[t] = "deleting" => Tuples(Old(t)) \subseteq seen[t]
  /\ statement[t] \in Cleared => Old(t) \subseteq gone[t]
  /\ statement[t] = "committed" => Old(t) = {}

SweepInv ==
  /\ \A t \in Txns : Sweeps(t)
  /\ \A r \in facts : statement[r.by] = "committed"

LEMMA SweepStep == SweepInv /\ CostTypeOK /\ [CostNext]_costVars => SweepInv'
<1> SUFFICES ASSUME SweepInv, CostTypeOK, [CostNext]_costVars PROVE SweepInv'
  OBVIOUS
<1>f. \A r \in facts : r.by \in Txns
  BY DEF CostTypeOK, Facts
<1> USE <1>f DEF SweepInv, CostTypeOK, Sweeps, Old, Cleared, At, tables, locks, Open
<1>1. CASE UNCHANGED costVars
  BY <1>1 DEF costVars
<1>2. ASSUME NEW t \in Txns, BeginIngestion(t) PROVE SweepInv'
  BY <1>2 DEF BeginIngestion
<1>3. ASSUME NEW t \in Txns, PriorTotals(t) PROVE SweepInv'
  BY <1>3 DEF PriorTotals
<1>4. ASSUME NEW t \in Txns, DeleteSees(t) PROVE SweepInv'
  BY <1>4 DEF DeleteSees, Tuples
<1>5. ASSUME NEW t \in Txns, DeleteRows(t) PROVE SweepInv'
  BY <1>5 DEF DeleteRows, Tuples
<1>6. ASSUME NEW t \in Txns, Insert(t) PROVE SweepInv'
  <2>1. \A r \in Written(t, facts \ gone[t], data[t]) : r.by = t
    BY DEF Written
  <2> QED
    BY <1>6, <2>1 DEF Insert
<1>7. ASSUME NEW t \in Txns, AggDeleteSees(t) PROVE SweepInv'
  BY <1>7 DEF AggDeleteSees
<1>8. ASSUME NEW t \in Txns, AggDeleteRows(t) PROVE SweepInv'
  BY <1>8 DEF AggDeleteRows
<1>9. ASSUME NEW t \in Txns, AggSelect(t) PROVE SweepInv'
  BY <1>9 DEF AggSelect
<1>10. ASSUME NEW t \in Txns, AggInsert(t) PROVE SweepInv'
  BY <1>10 DEF AggInsert
<1>11. ASSUME NEW t \in Txns, Commit(t) PROVE SweepInv'
  BY <1>11 DEF Commit, Close, Visible, Tuples
<1>12. ASSUME NEW t \in Txns, Abort(t) PROVE SweepInv'
  BY <1>12 DEF Abort, Close
<1> QED
  BY <1>1, <1>2, <1>3, <1>4, <1>5, <1>6, <1>7, <1>8, <1>9, <1>10, <1>11, <1>12
     DEF CostNext, ReplacePartition

\* For any number of replacements, any lines and any interleaving of their statements
\* and rollbacks: lines of two replacements are left side by side only if the two
\* overlapped.
THEOREM NoneLeft == CostSpec => []NoLeftovers
<1>1. CostInit => SweepInv
  BY DEF CostInit, SweepInv, Sweeps, Old, Cleared, Nothing
<1>2. SweepInv /\ CostTypeOK => NoLeftovers
  BY DEF SweepInv, Sweeps, Old, NoLeftovers, CostTypeOK, Facts
<1> QED
  BY <1>1, <1>2, SweepStep, CostTypeCorrect, PTL DEF CostSpec

\* What a transaction that nobody has overlapped has seen and done, stage by stage:
\* nothing was committed meanwhile, so it has deleted all charge lines and all
\* aggregates, and both tables will hold what comes from its data only.
Undisturbed(t) ==
  (t \in alone /\ statement[t] \in Open) =>
    /\ \A d \in Others(t) : statement[d] \notin Open
    /\ statement[t] = "deleting" => seen[t] = Tuples(facts)
    /\ statement[t] \in Cleared => gone[t] = facts
    /\ statement[t] \in Cleared \ {"insert"} => LinesOf(put[t]) = data[t]
    /\ statement[t] = "aggDeleting" => seen[t] = Tuples(agg)
    /\ statement[t] \in {"aggSelect", "aggInsert", "commit"} => aggGone[t] = agg
    /\ statement[t] = "aggInsert" => sums[t] = Grouped(data[t])
    /\ statement[t] = "commit" => /\ LinesOf(aggPut[t]) = Grouped(data[t])
                                  /\ \A a, b \in aggPut[t] : a.key = b.key => a = b

Healing == \A t \in Txns : Undisturbed(t)

\* Inserting beside nothing writes just the lines that are given.
LEMMA WrittenBesideNothing ==
  ASSUME NEW t, NEW lines, NEW K, NEW V, lines \subseteq [key : K, value : V]
  PROVE  /\ LinesOf(Written(t, {}, lines)) = lines
         /\ (\A a, b \in lines : a.key = b.key => a = b) =>
              \A a, b \in Written(t, {}, lines) : a.key = b.key => a = b
<1>1. Written(t, {}, lines) = {[key |-> l.key, value |-> l.value, by |-> t, first |-> t] : l \in lines}
  BY DEF Written, KeysOf
<1>2. \A l \in lines : l = [key |-> l.key, value |-> l.value]
  OBVIOUS
<1>3. ASSUME NEW x \in LinesOf(Written(t, {}, lines)) PROVE x \in lines
  <2>1. PICK r \in Written(t, {}, lines) : x = [key |-> r.key, value |-> r.value]
    BY <1>3 DEF LinesOf
  <2>2. PICK l \in lines : r = [key |-> l.key, value |-> l.value, by |-> t, first |-> t]
    BY <1>1
  <2> QED
    BY <1>2, <2>1, <2>2
<1>4. ASSUME NEW l \in lines PROVE l \in LinesOf(Written(t, {}, lines))
  <2> DEFINE r == [key |-> l.key, value |-> l.value, by |-> t, first |-> t]
  <2>1. r \in Written(t, {}, lines)
    BY <1>1
  <2>2. l = [key |-> r.key, value |-> r.value]
    BY <1>2
  <2> QED
    BY <2>1, <2>2 DEF LinesOf
<1>5. ASSUME \A a, b \in lines : a.key = b.key => a = b,
             NEW a \in Written(t, {}, lines), NEW b \in Written(t, {}, lines), a.key = b.key
      PROVE  a = b
  BY <1>1, <1>5
<1> QED
  BY <1>3, <1>4, <1>5

\* GROUP BY returns a group once.
LEMMA GroupedOnce ==
  ASSUME NEW lines, NEW a \in Grouped(lines), NEW b \in Grouped(lines), a.key = b.key
  PROVE  a = b
<1> DEFINE Of(g) == [key |-> g, value |-> {l \in lines : GroupOf[l.key] = g}]
<1>1. PICK g : a = Of(g)
  BY DEF Grouped
<1>2. PICK h : b = Of(h)
  BY DEF Grouped
<1>3. a.key = g /\ b.key = h
  BY <1>1, <1>2
<1> HIDE DEF Of
<1> QED
  BY <1>1, <1>2, <1>3

LEMMA HealingStep == Healing /\ CostTypeOK /\ [CostNext]_costVars => Healing'
<1> SUFFICES ASSUME Healing, CostTypeOK, [CostNext]_costVars PROVE Healing'
  OBVIOUS
<1> USE DEF Healing, CostTypeOK, Undisturbed, Others, Cleared, At, tables, locks, Open
<1>1. CASE UNCHANGED costVars
  BY <1>1 DEF costVars
<1>2. ASSUME NEW t \in Txns, BeginIngestion(t) PROVE Healing'
  BY <1>2 DEF BeginIngestion
<1>3. ASSUME NEW t \in Txns, PriorTotals(t) PROVE Healing'
  BY <1>3 DEF PriorTotals
<1>4. ASSUME NEW t \in Txns, DeleteSees(t) PROVE Healing'
  BY <1>4 DEF DeleteSees
<1>5. ASSUME NEW t \in Txns, DeleteRows(t) PROVE Healing'
  BY <1>5 DEF DeleteRows, Tuples
<1>6. ASSUME NEW t \in Txns, Insert(t) PROVE Healing'
  <2>1. Meets({}, data[t]) = {} /\ facts \ facts = {}
    BY DEF Meets
  <2>2. LinesOf(Written(t, {}, data[t])) = data[t]
    BY WrittenBesideNothing DEF Lines
  <2> QED
    BY <1>6, <2>1, <2>2 DEF Insert
<1>7. ASSUME NEW t \in Txns, AggDeleteSees(t) PROVE Healing'
  BY <1>7 DEF AggDeleteSees
<1>8. ASSUME NEW t \in Txns, AggDeleteRows(t) PROVE Healing'
  BY <1>8 DEF AggDeleteRows, Tuples
<1>9. ASSUME NEW t \in Txns, AggSelect(t) PROVE Healing'
  <2>1. (facts \ facts) \cup put[t] = put[t]
    OBVIOUS
  <2> QED
    BY <1>9, <2>1 DEF AggSelect, Visible
<1>10. ASSUME NEW t \in Txns, AggInsert(t) PROVE Healing'
  <2>1. Meets({}, sums[t]) = {} /\ agg \ agg = {}
    BY DEF Meets
  <2>2. \A a, b \in Grouped(data[t]) : a.key = b.key => a = b
    BY GroupedOnce
  <2>3. /\ LinesOf(Written(t, {}, sums[t])) = sums[t]
        /\ (\A a, b \in sums[t] : a.key = b.key => a = b) =>
             \A a, b \in Written(t, {}, sums[t]) : a.key = b.key => a = b
    <3>1. sums[t] \subseteq [key : Groups, value : SUBSET Lines]
      OBVIOUS
    <3> QED
      BY <3>1, WrittenBesideNothing
  <2>4. CASE t \in alone
    <3>1. /\ \A d \in Others(t) : statement[d] \notin Open
          /\ sums[t] = Grouped(data[t]) /\ gone[t] = facts /\ LinesOf(put[t]) = data[t]
          /\ aggGone[t] = agg
      BY <1>10, <2>4 DEF AggInsert
    <3>2. aggPut'[t] = Written(t, {}, sums[t]) /\ aggGone'[t] = agg
      BY <1>10, <2>1, <3>1 DEF AggInsert
    <3>3. /\ LinesOf(aggPut'[t]) = Grouped(data[t])
          /\ \A a, b \in aggPut'[t] : a.key = b.key => a = b
      BY <2>2, <2>3, <3>1, <3>2
    <3>4. Undisturbed(t)'
      BY <1>10, <3>1, <3>2, <3>3 DEF AggInsert
    <3>5. ASSUME NEW d \in Others(t) PROVE Undisturbed(d)'
      BY <1>10, <3>1, <3>5 DEF AggInsert
    <3> QED
      BY <3>4, <3>5
  <2>5. CASE t \notin alone
    BY <1>10, <2>5 DEF AggInsert
  <2> QED
    BY <2>4, <2>5
<1>11. ASSUME NEW t \in Txns, Commit(t) PROVE Healing'
  BY <1>11 DEF Commit, Close
<1>12. ASSUME NEW t \in Txns, Abort(t) PROVE Healing'
  BY <1>12 DEF Abort, Close
<1> QED
  BY <1>1, <1>2, <1>3, <1>4, <1>5, <1>6, <1>7, <1>8, <1>9, <1>10, <1>11, <1>12
     DEF CostNext, ReplacePartition

\* For any number of replacements and whatever overlapping ones have left: one that
\* none overlapped commits its own lines and the aggregates of these lines.
THEOREM Heals == CostSpec => AloneHeals
<1> DEFINE Right(t) ==
      (t \in alone /\ statement[t] = "commit" /\ statement'[t] = "committed") =>
         /\ LinesOf(facts') = data[t]
         /\ LinesOf(agg') = Grouped(data[t])
         /\ \A a, b \in agg' : a.key = b.key => a = b
<1>1. ASSUME CostTypeOK, Healing, [CostNext]_costVars, NEW t \in Txns, t \in alone,
             statement[t] = "commit", statement'[t] = "committed"
      PROVE  /\ LinesOf(facts') = data[t]
             /\ LinesOf(agg') = Grouped(data[t])
             /\ \A a, b \in agg' : a.key = b.key => a = b
  <2>1. Commit(t)
    <3> USE <1>1 DEF CostTypeOK, At
    <3>1. ASSUME NEW d \in Txns, ReplacePartition(d) PROVE Commit(d)
      BY <3>1 DEF ReplacePartition, PriorTotals, DeleteSees, DeleteRows, Insert, AggDeleteSees,
                  AggDeleteRows, AggSelect, AggInsert
    <3>2. ASSUME NEW d \in Txns, Commit(d) PROVE d = t
      BY <3>2 DEF Commit
    <3>3. ASSUME NEW d \in Txns, BeginIngestion(d) \/ Abort(d) PROVE FALSE
      BY <3>3 DEF BeginIngestion, Abort
    <3> QED
      BY <3>1, <3>2, <3>3 DEF CostNext, costVars
  <2>2. /\ gone[t] = facts /\ LinesOf(put[t]) = data[t]
        /\ aggGone[t] = agg /\ LinesOf(aggPut[t]) = Grouped(data[t])
        /\ \A a, b \in aggPut[t] : a.key = b.key => a = b
    BY <1>1 DEF Healing, Undisturbed, Cleared, Open
  <2>3. facts' = put[t] /\ agg' = aggPut[t]
    BY <2>1, <2>2 DEF Commit, Visible
  <2> QED
    BY <2>2, <2>3
<1>2. CostTypeOK /\ Healing /\ [CostNext]_costVars => [\A t \in Txns : Right(t)]_costVars
  BY <1>1
<1>3. CostInit => Healing
  BY DEF CostInit, Healing, Undisturbed, Open
<1>4. CostSpec => [](CostTypeOK /\ Healing)
  BY <1>3, HealingStep, CostTypeCorrect, PTL DEF CostSpec
<1> QED
  BY <1>2, <1>4, PTL DEF CostSpec, AloneHeals

=============================================================================
