--------------------------- MODULE CostPartition ---------------------------
(***************************************************************************)
(* replace_partition_atomic_async (domain/cost/repository.py) for one      *)
(* tenant and one billing period, statement by statement under READ        *)
(* COMMITTED, the default isolation the sessions run with.                 *)
(*                                                                         *)
(* Any number of replacements may be under way: tasks of the tenant's      *)
(* connectors, a task that has outlived its lock and the one that followed *)
(* it, a replacement run_async has given up on and that goes on, and the   *)
(* API's pipeline, which takes no lock.  Each is one transaction that runs *)
(* once.  A row has the key the table's primary key holds besides the      *)
(* tenant and the period, a value, the transaction that inserted it and    *)
(* the one that last wrote it: ON CONFLICT DO UPDATE writes a new version  *)
(* of the row it meets, which a DELETE waiting for that row follows.  The  *)
(* two aggregate tables, rewritten one after the other by the same         *)
(* statements, are taken as one; an aggregate's value is the set of lines  *)
(* it sums.                                                                *)
(***************************************************************************)
EXTENDS Naturals, FiniteSets, FiniteSetsExt

CONSTANTS
  Txns,       \* replacements of the period
  Ids,        \* ids of charge lines
  Costs,      \* costs of a line
  Datasets,   \* what a fetch may return: charge lines, one for an id
  Groups,     \* keys of the aggregates
  GroupOf     \* the scope, service and day of a line

Lines == [key : Ids, value : Costs]

ASSUME CostAssumption ==
  /\ Costs \subseteq Nat
  /\ Datasets \subseteq SUBSET Lines
  /\ \A ds \in Datasets : ds # {} /\ \A a, b \in ds : a.key = b.key => a = b
  /\ GroupOf \in [Ids -> Groups]

VARIABLES
  facts,       \* cost_fact rows of the period, committed
  agg,         \* aggregate rows of the period, committed
  statement,   \* the statement each transaction is at
  data,        \* the lines each has been given
  restating,   \* transactions that have inserted a restatement record
  seen,        \* the rows the DELETE that is under way found when it began
  sums,        \* what INSERT ... SELECT has read and is about to insert
  gone,        \* cost_fact rows an open transaction has deleted or replaced
  put,         \* cost_fact rows an open transaction has written
  aggGone,     \* the same for the aggregate rows
  aggPut,
  before,      \* history: who had committed when the DELETE of cost_fact began
  alone        \* history: the open transaction that no other has overlapped so far

tables == <<facts, agg>>
locks == <<gone, put, aggGone, aggPut>>
costVars == <<tables, statement, data, restating, seen, sums, locks, before, alone>>

Facts == [key : Ids, value : Costs, first : Txns, by : Txns]
Aggregates == [key : Groups, value : SUBSET Lines, first : Txns, by : Txns]

Open == {"totals", "delete", "deleting", "insert", "aggDelete", "aggDeleting",
         "aggSelect", "aggInsert", "commit"}
Ended == {"committed", "rolledBack"}

CostTypeOK ==
  /\ facts \subseteq Facts
  /\ agg \subseteq Aggregates
  /\ statement \in [Txns -> Open \cup Ended \cup {"idle"}]
  /\ data \in [Txns -> SUBSET Lines]
  /\ restating \subseteq Txns
  /\ seen \in [Txns -> SUBSET ((Ids \cup Groups) \X Txns)]
  /\ sums \in [Txns -> SUBSET [key : Groups, value : SUBSET Lines]]
  /\ gone \in [Txns -> SUBSET Facts]
  /\ put \in [Txns -> SUBSET Facts]
  /\ aggGone \in [Txns -> SUBSET Aggregates]
  /\ aggPut \in [Txns -> SUBSET Aggregates]
  /\ before \in [Txns -> SUBSET Txns]
  /\ alone \subseteq Txns

Nothing == [t \in Txns |-> {}]

CostInit ==
  /\ facts = {} /\ agg = {}
  /\ statement = [t \in Txns |-> "idle"]
  /\ restating = {} /\ alone = {}
  /\ data = Nothing /\ seen = Nothing /\ sums = Nothing /\ before = Nothing
  /\ gone = Nothing /\ put = Nothing /\ aggGone = Nothing /\ aggPut = Nothing

Others(t) == Txns \ {t}

At(t, stage, next) == statement[t] = stage /\ statement' = [statement EXCEPT ![t] = next]

Total(rows) == MapThenSumSet(LAMBDA r : r.value, rows)

\* A row, whichever version of it is there: its key and who inserted it.
Tuple(r) == <<r.key, r.first>>
Tuples(rows) == {Tuple(r) : r \in rows}
KeysOf(rows) == {r.key : r \in rows}

\* The rows of a table a statement meets at the keys of what it inserts.
Meets(table, lines) == {r \in table : r.key \in KeysOf(lines)}

\* The versions INSERT ... ON CONFLICT DO UPDATE writes beside or over table.
Written(t, table, lines) ==
  {[key |-> l.key, value |-> l.value, by |-> t,
    first |-> IF l.key \in KeysOf(table) THEN (CHOOSE r \in table : r.key = l.key).first ELSE t]
     : l \in lines}

\* Whose locks the statement a transaction is at waits for: a DELETE for those who
\* have deleted or replaced a row it has found, an INSERT for those who have deleted
\* or written a row with one of its keys.
WaitsFor(t) ==
  {d \in Others(t) :
    \/ statement[t] = "deleting" /\ seen[t] \cap Tuples(gone[d]) # {}
    \/ statement[t] = "insert" /\ Meets(gone[d] \cup put[d], data[t]) # {}
    \/ statement[t] = "aggDeleting" /\ seen[t] \cap Tuples(aggGone[d]) # {}
    \/ statement[t] = "aggInsert" /\ Meets(aggGone[d] \cup aggPut[d], sums[t]) # {}}

-----------------------------------------------------------------------------
\* ingest_cost_task, or the pipeline of the API, has fetched lines and calls the
\* repository, whoever else is doing so; without lines the task returns before.
BeginIngestion(t) ==
  /\ At(t, "idle", "totals")
  /\ \E ds \in Datasets : data' = [data EXCEPT ![t] = ds]
  /\ alone' = IF \A d \in Others(t) : statement[d] \notin Open THEN {t} ELSE {}
  /\ UNCHANGED <<tables, restating, seen, sums, locks, before>>

\* 1 and 2. The prior totals of the tenant's period; a restatement record if there
\* were rows and the totals differ.
PriorTotals(t) ==
  /\ At(t, "totals", "delete")
  /\ restating' = IF facts # {} /\ Total(facts) # Total(data[t])
                    THEN restating \cup {t} ELSE restating
  /\ UNCHANGED <<tables, data, seen, sums, locks, before, alone>>

\* Mutant of DeleteSees: only the lines that are about to be written are deleted.
DeleteSeesOwn(t) ==
  /\ At(t, "delete", "deleting")
  /\ seen' = [seen EXCEPT ![t] = Tuples(Meets(facts, data[t]))]
  /\ before' = [before EXCEPT ![t] = {d \in Txns : statement[d] = "committed"}]
  /\ UNCHANGED <<tables, data, restating, sums, locks, alone>>

\* 3. DELETE of the tenant's period: it finds the rows committed when it begins,
\* those of every connector,
DeleteSees(t) ==
  /\ At(t, "delete", "deleting")
  /\ seen' = [seen EXCEPT ![t] = Tuples(facts)]
  /\ before' = [before EXCEPT ![t] = {d \in Txns : statement[d] = "committed"}]
  /\ UNCHANGED <<tables, data, restating, sums, locks, alone>>

\* waits for the transactions that have deleted or replaced some of them, and deletes
\* the ones that are still there, in the version that is there now.
DeleteRows(t) ==
  /\ WaitsFor(t) = {}
  /\ At(t, "deleting", "insert")
  /\ gone' = [gone EXCEPT ![t] = {r \in facts : Tuple(r) \in seen[t]}]
  /\ seen' = [seen EXCEPT ![t] = {}]
  /\ UNCHANGED <<tables, data, restating, sums, put, aggGone, aggPut, before, alone>>

\* 4. The INSERTs, ON CONFLICT DO UPDATE: a line another transaction has committed
\* since the DELETE began is replaced.  They run line by line; a line that is written
\* stays locked, so waiting for all of them first comes to the same.
Insert(t) ==
  LET standing == facts \ gone[t] IN
  /\ WaitsFor(t) = {}
  /\ At(t, "insert", "aggDelete")
  /\ put' = [put EXCEPT ![t] = Written(t, standing, data[t])]
  /\ gone' = [gone EXCEPT ![t] = @ \cup Meets(standing, data[t])]
  /\ UNCHANGED <<tables, data, restating, seen, sums, aggGone, aggPut, before, alone>>

\* 5. The refresh of the aggregates: DELETE, which finds and then locks,
AggDeleteSees(t) ==
  /\ At(t, "aggDelete", "aggDeleting")
  /\ seen' = [seen EXCEPT ![t] = Tuples(agg)]
  /\ UNCHANGED <<tables, data, restating, sums, locks, before, alone>>

\* Mutant of AggDeleteRows: the old aggregates stay and are only overwritten.
AggDeleteNothing(t) ==
  /\ At(t, "aggDeleting", "aggSelect")
  /\ seen' = [seen EXCEPT ![t] = {}]
  /\ UNCHANGED <<tables, data, restating, sums, locks, before, alone>>

AggDeleteRows(t) ==
  /\ WaitsFor(t) = {}
  /\ At(t, "aggDeleting", "aggSelect")
  /\ aggGone' = [aggGone EXCEPT ![t] = {r \in agg : Tuple(r) \in seen[t]}]
  /\ seen' = [seen EXCEPT ![t] = {}]
  /\ UNCHANGED <<tables, data, restating, sums, gone, put, aggPut, before, alone>>

\* The lines a statement of the transaction sees now.
Visible(t) == (facts \ gone[t]) \cup put[t]

LinesOf(rows) == {[key |-> r.key, value |-> r.value] : r \in rows}

\* SELECT ... GROUP BY scope, service and day.
Grouped(lines) ==
  {[key |-> g, value |-> {l \in lines : GroupOf[l.key] = g}] : g \in {GroupOf[l.key] : l \in lines}}

\* then INSERT ... SELECT, which first reads cost_fact,
AggSelect(t) ==
  /\ At(t, "aggSelect", "aggInsert")
  /\ sums' = [sums EXCEPT ![t] = Grouped(LinesOf(Visible(t)))]
  /\ UNCHANGED <<tables, data, restating, seen, locks, before, alone>>

\* and then writes over the aggregates that are committed meanwhile.
AggInsert(t) ==
  LET standing == agg \ aggGone[t] IN
  /\ WaitsFor(t) = {}
  /\ At(t, "aggInsert", "commit")
  /\ aggPut' = [aggPut EXCEPT ![t] = Written(t, standing, sums[t])]
  /\ aggGone' = [aggGone EXCEPT ![t] = @ \cup Meets(standing, sums[t])]
  /\ UNCHANGED <<tables, data, restating, seen, sums, gone, put, before, alone>>

\* Mutant of Close: the locks of the deleted rows are not given back.
CloseLocked(t) ==
  /\ seen' = [seen EXCEPT ![t] = {}]
  /\ sums' = [sums EXCEPT ![t] = {}]
  /\ put' = [put EXCEPT ![t] = {}]
  /\ aggPut' = [aggPut EXCEPT ![t] = {}]
  /\ UNCHANGED <<gone, aggGone>>

\* The transaction is over and its locks are free.
Close(t) ==
  /\ seen' = [seen EXCEPT ![t] = {}]
  /\ sums' = [sums EXCEPT ![t] = {}]
  /\ gone' = [gone EXCEPT ![t] = {}]
  /\ put' = [put EXCEPT ![t] = {}]
  /\ aggGone' = [aggGone EXCEPT ![t] = {}]
  /\ aggPut' = [aggPut EXCEPT ![t] = {}]

Commit(t) ==
  /\ At(t, "commit", "committed")
  /\ facts' = Visible(t)
  /\ agg' = (agg \ aggGone[t]) \cup aggPut[t]
  /\ Close(t)
  /\ UNCHANGED <<data, restating, before, alone>>

\* A statement raises, the worker dies, or PostgreSQL breaks a deadlock of two
\* statements that lock the same rows in a different order: the transaction is rolled
\* back.
Abort(t) ==
  /\ statement[t] \in Open
  /\ statement' = [statement EXCEPT ![t] = "rolledBack"]
  /\ restating' = restating \ {t}
  /\ Close(t)
  /\ UNCHANGED <<tables, data, before, alone>>

-----------------------------------------------------------------------------
ReplacePartition(t) ==
  \/ PriorTotals(t) \/ DeleteSees(t) \/ DeleteRows(t) \/ Insert(t)
  \/ AggDeleteSees(t) \/ AggDeleteRows(t) \/ AggSelect(t) \/ AggInsert(t) \/ Commit(t)

CostNext == \E t \in Txns : BeginIngestion(t) \/ ReplacePartition(t) \/ Abort(t)

CostSpec == CostInit /\ [][CostNext]_costVars

\* An open transaction goes on as soon as no lock holds it up.
CostFairSpec == CostSpec /\ \A t \in Txns : WF_costVars(ReplacePartition(t))

-----------------------------------------------------------------------------
\* What is left of "idempotent re-ingestion with no duplication" (repository.py) when
\* nothing keeps replacements apart: the lines of two of them stand side by side only
\* if they overlapped, each beginning its DELETE before the other had committed.  A
\* replacement leaves nothing of what was committed before it, whoever else deletes,
\* rewrites or rolls back the same rows meanwhile.
NoLeftovers == \A a, b \in facts : a.by \notin before[b.by]

\* Overlapping transactions can leave lines of both, and aggregates that are older
\* than the charge lines beneath them.  The next replacement that no other one
\* overlaps puts both right, whatever it found: the period holds its lines, and the
\* aggregates are those of these lines, each once.
AloneHeals ==
  [][\A t \in Txns :
       (t \in alone /\ statement[t] = "commit" /\ statement'[t] = "committed") =>
         /\ LinesOf(facts') = data[t]
         /\ LinesOf(agg') = Grouped(data[t])
         /\ \A a, b \in agg' : a.key = b.key => a = b]_costVars

\* No replacement waits forever for the locks of the others.
ReplacementEnds == \A t \in Txns : (statement[t] \in Open) ~> (statement[t] \in Ended)

=============================================================================
