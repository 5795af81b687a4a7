-------------------------- MODULE RemediationProofs --------------------------
(***************************************************************************)
(* Safety of the remediation tasks, for any number of callers, operations  *)
(* and failures.  The counts of the properties are compared with what is   *)
(* still on its way: callers that are about to credit or to close, and     *)
(* writes nobody waits for any more.                                       *)
(***************************************************************************)
EXTENDS Remediation, FiniteSetTheorems, TLAPS

\* A copy that closes the task as fixed and verified when it is saved.
Closing(t) == t.op = "verify" /\ t.state = "CLOSED"

Crediting == {c \in Callers : pc[c] = "credit"}
Saving == {c \in Callers : pc[c] \in {"save", "mirror"} /\ Closing(copy[c])}
SavingLate == {t \in lateSaves : Closing(t)}

\* Nothing has happened before the first operation.
Untouched ==
  calls = 0 => /\ row = NoTask /\ retests = 0 /\ lateSaves = {}
               /\ \A c \in Callers : pc[c] = "idle"

\* Each closure that is stored, about to be stored or still on its way has an entry
\* of its own in the ledger.
Credited == saving => closures + Cardinality(Saving) + Cardinality(SavingLate) <= ledger

\* Each entry that is stored, about to be written or still on its way has a cleared
\* retest of its own.
Retested == ledger + lateCredits + Cardinality(Crediting) <= IF saving THEN cleared ELSE 0

Earned == IF saving THEN cleared ELSE 0

\* Where the counts stand while one operation is under way and none has met another
\* one or a failure.
Exact ==
  alone =>
    /\ lateSaves = {} /\ lateCredits = 0
    /\ \A c, d \in Callers : pc[c] # "idle" /\ pc[d] # "idle" => c = d
    /\ (\A c \in Callers : pc[c] \in {"idle", "verify"}) =>
         row.attempts = retests /\ closures = cleared /\ ledger = Earned
    /\ \A c \in Callers : pc[c] = "credit" =>
         /\ saving /\ Closing(copy[c]) /\ copy[c].attempts = retests
         /\ closures + 1 = cleared /\ ledger + 1 = cleared
    /\ \A c \in Callers : pc[c] \in {"save", "mirror"} =>
         /\ copy[c].attempts = retests /\ ledger = Earned
         /\ cleared = IF Closing(copy[c]) THEN closures + 1 ELSE closures

\* A copy of the row as it is undoes a terminal state only if its operation may.
Loaded(t) ==
  /\ t.base <= row.ver
  /\ (t.base = row.ver /\ row.state \in Terminal /\ t.state # row.state) => t.op \in Unguarded

Guarded ==
  /\ \A c \in Callers : pc[c] \in {"credit", "save", "mirror"} => Loaded(copy[c])
  /\ \A t \in lateSaves : Loaded(t)

RInv ==
  /\ TypeOK /\ IsFiniteSet(lateSaves)
  /\ Untouched /\ Credited /\ Retested /\ Exact /\ Guarded


-----------------------------------------------------------------------------
\* Two sets that differ in one element at most.
LEMMA OneMoves ==
  ASSUME NEW S, NEW T, NEW x, IsFiniteSet(S), \A y : y # x => (y \in T <=> y \in S)
  PROVE  /\ IsFiniteSet(T) /\ Cardinality(S) \in Nat /\ Cardinality(T) \in Nat
         /\ (x \in T <=> x \in S) => Cardinality(T) = Cardinality(S)
         /\ (x \in T /\ x \notin S) => Cardinality(T) = Cardinality(S) + 1
         /\ (x \notin T /\ x \in S) => Cardinality(T) = Cardinality(S) - 1
<1>1. CASE x \in T <=> x \in S
  <2>1. T = S
    BY <1>1
  <2> QED
    BY <2>1, FS_CardinalityType
<1>2. CASE x \in T /\ x \notin S
  <2>1. T = S \cup {x}
    BY <1>2
  <2> QED
    BY <1>2, <2>1, FS_AddElement, FS_CardinalityType
<1>3. CASE x \notin T /\ x \in S
  <2>1. T = S \ {x}
    BY <1>3
  <2> QED
    BY <1>3, <2>1, FS_RemoveElement, FS_CardinalityType
<1> QED
  BY <1>1, <1>2, <1>3

\* The callers that are about to credit or to close when one caller moves.
LEMMA CallerMoves ==
  ASSUME TypeOK, NEW c \in Callers,
         \A d \in Callers : d # c => pc'[d] = pc[d] /\ copy'[d] = copy[d]
  PROVE  /\ Cardinality(Crediting) \in Nat /\ Cardinality(Crediting') \in Nat
         /\ Cardinality(Saving) \in Nat /\ Cardinality(Saving') \in Nat
         /\ (c \in Crediting' <=> c \in Crediting) => Cardinality(Crediting') = Cardinality(Crediting)
         /\ (c \in Crediting' /\ c \notin Crediting) => Cardinality(Crediting') = Cardinality(Crediting) + 1
         /\ (c \notin Crediting' /\ c \in Crediting) => Cardinality(Crediting') = Cardinality(Crediting) - 1
         /\ (c \in Saving' <=> c \in Saving) => Cardinality(Saving') = Cardinality(Saving)
         /\ (c \in Saving' /\ c \notin Saving) => Cardinality(Saving') = Cardinality(Saving) + 1
         /\ (c \notin Saving' /\ c \in Saving) => Cardinality(Saving') = Cardinality(Saving) - 1
<1>1. IsFiniteSet(Crediting) /\ IsFiniteSet(Saving)
  BY RemediationAssumption, FS_Subset DEF Crediting, Saving
<1>2. \A d : d # c => (d \in Crediting' <=> d \in Crediting)
  BY DEF Crediting
<1>3. \A d : d # c => (d \in Saving' <=> d \in Saving)
  BY DEF Saving, Closing
<1> HIDE DEF Crediting, Saving
<1> QED
  BY <1>1, <1>2, <1>3, OneMoves

\* The late closures when one copy is added or removed.
LEMMA LateMoves ==
  ASSUME IsFiniteSet(lateSaves), NEW t, \A u : u # t => (u \in lateSaves' <=> u \in lateSaves)
  PROVE  /\ IsFiniteSet(lateSaves')
         /\ Cardinality(SavingLate) \in Nat /\ Cardinality(SavingLate') \in Nat
         /\ (t \in SavingLate' <=> t \in SavingLate) => Cardinality(SavingLate') = Cardinality(SavingLate)
         /\ (t \in SavingLate' /\ t \notin SavingLate) => Cardinality(SavingLate') = Cardinality(SavingLate) + 1
         /\ (t \notin SavingLate' /\ t \in SavingLate) => Cardinality(SavingLate') = Cardinality(SavingLate) - 1
<1>1. IsFiniteSet(SavingLate)
  BY FS_Subset DEF SavingLate
<1>2. \A u : u # t => (u \in SavingLate' <=> u \in SavingLate)
  BY DEF SavingLate
<1>3. IsFiniteSet(lateSaves')
  BY OneMoves
<1> HIDE DEF SavingLate
<1> QED
  BY <1>1, <1>2, <1>3, OneMoves

-----------------------------------------------------------------------------
\* What the operations that load, change and save have in common: the copy is a task,
\* has the attempts of the row, and leaves a terminal state only if it may.
Edits(c, t, op) ==
  /\ Begin(c) /\ Change(c, t, op)
  /\ t \in Tasks /\ t.state # "NONE" /\ op \in Ops \ {"verify"}
  /\ t.attempts = row.attempts \/ (calls = 0 /\ t.attempts = 0)
  /\ (row.state \in Terminal /\ t.state # row.state) => op \in Unguarded \/ calls = 0

Operation(c) ==
  \/ CreateTask(c) \/ TransitionState(c) \/ AssignTask(c) \/ ResolveTask(c)
  \/ DeferTask(c) \/ AcceptRisk(c) \/ CloseDuplicate(c) \/ ExpireDeferral(c)
  \/ EscalateOverdue(c) \/ MirrorToItsm(c) \/ Reprioritise(c)

LEMMA Transitions ==
  /\ "NONE" \notin States
  /\ \A s \in States : VALID_TRANSITIONS[s] \subseteq States
  /\ {"OPEN", "ASSIGNED", "AWAITING_VERIFICATION", "DEFERRED", "CLOSED", "DUPLICATE"} \subseteq States
BY DEF States, VALID_TRANSITIONS

LEMMA OperationEdits ==
  ASSUME TypeOK, NEW c \in Callers, Operation(c)
  PROVE  \E t, op : Edits(c, t, op)
<1>0. row \in Tasks
  BY DEF TypeOK
<1>1. CASE CreateTask(c)
  <2>1. PICK s \in {"OPEN", "ASSIGNED"} : Change(c, [NoTask EXCEPT !.state = s], "create")
    BY <1>1 DEF CreateTask
  <2>2. Edits(c, [NoTask EXCEPT !.state = s], "create")
    BY <1>1, <2>1, Transitions DEF CreateTask, Edits, NoTask, Tasks, Ops
  <2> QED
    BY <2>2
<1>2. CASE TransitionState(c)
  <2>1. row.state \in States
    BY <1>0, <1>2 DEF TransitionState, Tasks
  <2> DEFINE op == IF row.state \in Terminal THEN "reopen" ELSE "transition"
  <2>2. PICK s \in VALID_TRANSITIONS[row.state] : Change(c, [row EXCEPT !.state = s], op)
    BY <1>2 DEF TransitionState
  <2>3. s \in States
    BY <2>1, <2>2, Transitions
  <2>4. op \in Ops \ {"verify"} /\ (row.state \in Terminal => op \in Unguarded)
    BY DEF Ops, Unguarded
  <2>5. Edits(c, [row EXCEPT !.state = s], op)
    <3> HIDE DEF op
    <3> QED
      BY <1>0, <1>2, <2>2, <2>3, <2>4, Transitions DEF TransitionState, Edits, Tasks
  <2> QED
    BY <2>5
<1>3. CASE AssignTask(c)
  <2> DEFINE t == [row EXCEPT !.state = IF @ = "OPEN" THEN "ASSIGNED" ELSE @]
  <2>1. Edits(c, t, "assign")
    BY <1>0, <1>3, Transitions DEF AssignTask, GetOpenTask, Edits, Tasks, Ops
  <2> QED
    BY <2>1
<1>4. CASE ResolveTask(c)
  <2>1. Edits(c, [row EXCEPT !.state = "AWAITING_VERIFICATION"], "resolve")
    BY <1>0, <1>4, Transitions DEF ResolveTask, GetOpenTask, Edits, Tasks, Ops
  <2> QED
    BY <2>1
<1>5. CASE DeferTask(c)
  <2>1. Edits(c, [row EXCEPT !.state = "DEFERRED", !.expiry = TRUE], "defer")
    BY <1>0, <1>5, Transitions DEF DeferTask, GetOpenTask, Edits, Tasks, Ops
  <2> QED
    BY <2>1
<1>6. CASE AcceptRisk(c)
  <2>1. Edits(c, [row EXCEPT !.state = "CLOSED", !.code = "RISK_ACCEPTED"], "accept_risk")
    BY <1>0, <1>6, Transitions DEF AcceptRisk, Edits, Tasks, Ops, Unguarded
  <2> QED
    BY <2>1
<1>7. CASE CloseDuplicate(c)
  <2>1. Edits(c, [row EXCEPT !.state = "DUPLICATE", !.code = "DUPLICATE_SUPERSEDED"],
              "close_duplicate")
    BY <1>0, <1>7, Transitions DEF CloseDuplicate, Edits, Tasks, Ops, Unguarded
  <2> QED
    BY <2>1
<1>8. CASE ExpireDeferral(c)
  <2>1. Edits(c, [row EXCEPT !.state = "OPEN", !.expiry = FALSE], "expire")
    BY <1>0, <1>8, Transitions DEF ExpireDeferral, Edits, Tasks, Ops, Terminal
  <2> QED
    BY <2>1
<1>9. CASE EscalateOverdue(c) \/ MirrorToItsm(c) \/ Reprioritise(c)
  <2>1. Edits(c, row, "touch")
    BY <1>0, <1>9 DEF EscalateOverdue, MirrorToItsm, Reprioritise, Edits, Ops
  <2> QED
    BY <2>1
<1> QED
  BY <1>1, <1>2, <1>3, <1>4, <1>5, <1>6, <1>7, <1>8, <1>9 DEF Operation

-----------------------------------------------------------------------------
\* An operation that has loaded the task and has a changed copy to save.
LEMMA EditStep ==
  ASSUME RInv, NEW c \in Callers, NEW t, NEW op, Edits(c, t, op)
  PROVE  RInv'
<1> DEFINE n == [t EXCEPT !.op = op, !.base = row.ver]
<1>1. /\ TypeOK /\ IsFiniteSet(lateSaves)
      /\ Untouched /\ Credited /\ Retested /\ Exact /\ Guarded
  BY DEF RInv
<1>2. /\ n \in Tasks /\ n.state = t.state /\ n.op = op /\ n.base = row.ver
      /\ n.attempts = t.attempts /\ n.state # "NONE" /\ op # "verify"
  BY <1>1 DEF Edits, Tasks, TypeOK
<1>3. /\ pc[c] = "idle" /\ pc' = [pc EXCEPT ![c] = "save"] /\ copy' = [copy EXCEPT ![c] = n]
      /\ calls' = calls + 1 /\ alone' = (alone /\ \A d \in Callers : pc[d] = "idle")
      /\ UNCHANGED <<row, ledger, lateSaves, lateCredits, saving, retests, cleared, closures>>
  BY DEF Edits, Begin, Change, Goto
<1>4. /\ t.attempts = row.attempts \/ (calls = 0 /\ t.attempts = 0)
      /\ (row.state \in Terminal /\ t.state # row.state) => op \in Unguarded \/ calls = 0
  BY DEF Edits
<1> HIDE DEF n
<1>5. TypeOK'
  BY <1>1, <1>2, <1>3 DEF TypeOK
<1>6. Untouched' /\ IsFiniteSet(lateSaves)'
  BY <1>1, <1>3 DEF Untouched, TypeOK
<1>7. ~Closing(copy'[c]) /\ pc'[c] = "save" /\ copy'[c] = n
  BY <1>1, <1>2, <1>3 DEF Closing, TypeOK
<1>8. c \notin Crediting /\ c \notin Crediting' /\ c \notin Saving /\ c \notin Saving'
  BY <1>3, <1>7 DEF Crediting, Saving
<1>9. \A d \in Callers : d # c => pc'[d] = pc[d] /\ copy'[d] = copy[d]
  BY <1>1, <1>3 DEF TypeOK
<1>10. Cardinality(Crediting') = Cardinality(Crediting) /\ Cardinality(Saving') = Cardinality(Saving)
  BY <1>1, <1>8, <1>9, CallerMoves
<1>11. SavingLate' = SavingLate
  BY <1>3 DEF SavingLate
<1>12. Credited' /\ Retested'
  BY <1>1, <1>3, <1>10, <1>11 DEF Credited, Retested
<1>13. Exact'
  <2> SUFFICES ASSUME alone' PROVE Exact'
    BY DEF Exact
  <2>1. alone /\ \A d \in Callers : pc[d] = "idle"
    BY <1>3
  <2>2. /\ lateSaves = {} /\ lateCredits = 0
        /\ row.attempts = retests /\ closures = cleared /\ ledger = Earned
    BY <1>1, <2>1 DEF Exact
  <2>3. t.attempts = retests
    BY <1>1, <1>4, <2>2 DEF Untouched
  <2>4. Earned' = Earned
    BY <1>3 DEF Earned
  <2> QED
    BY <1>1, <1>2, <1>3, <1>7, <1>9, <2>1, <2>2, <2>3, <2>4 DEF Exact, TypeOK
<1>14. Guarded'
  <2>1. \A u : Loaded(u)' <=> Loaded(u)
    BY <1>3 DEF Loaded
  <2>2. Loaded(n)
    <3>1. calls = 0 => row.state \notin Terminal
      BY <1>1 DEF Untouched, NoTask, Terminal
    <3> QED
      BY <1>1, <1>2, <1>4, <3>1 DEF Loaded, TypeOK, Tasks
  <2> QED
    BY <1>1, <1>3, <1>7, <1>9, <2>1, <2>2 DEF Guarded
<1> QED
  BY <1>5, <1>6, <1>12, <1>13, <1>14 DEF RInv

\* verify_task, called by itself or by resolve_task.
LEMMA RetestStep ==
  ASSUME RInv, NEW c \in Callers, VerifyTask(c) \/ VerifyResolved(c)
  PROVE  RInv'
<1>1. /\ TypeOK /\ IsFiniteSet(lateSaves)
      /\ Untouched /\ Credited /\ Retested /\ Exact /\ Guarded
  BY DEF RInv
<1>2. /\ Retest(c) /\ pc[c] \in {"idle", "verify"} /\ calls \in Nat /\ calls' \in Nat /\ calls' # 0
      /\ alone' \in BOOLEAN
      /\ alone' => alone /\ \A d \in Callers : d # c => pc[d] = "idle"
  <2>1. CASE VerifyTask(c)
    <3>1. /\ Retest(c) /\ pc[c] = "idle" /\ calls' = calls + 1
          /\ alone' = (alone /\ \A d \in Callers : pc[d] = "idle")
      BY <2>1 DEF VerifyTask, Begin
    <3>2. calls \in Nat /\ alone' \in BOOLEAN
      BY <1>1, <3>1 DEF TypeOK
    <3>3. alone' => alone /\ \A d \in Callers : pc[d] = "idle"
      BY <3>1
    <3> QED
      BY <3>1, <3>2, <3>3
  <2>2. CASE VerifyResolved(c)
    BY <1>1, <2>2 DEF VerifyResolved, TypeOK, Untouched, Exact
  <2> QED
    BY <2>1, <2>2
<1>3. PICK ok \in BOOLEAN :
        /\ copy' = [copy EXCEPT ![c] =
             [row EXCEPT !.attempts = @ + 1, !.op = "verify", !.base = row.ver,
                         !.state = IF ok THEN "CLOSED" ELSE "OPEN",
                         !.code = IF ok THEN "FIXED_AND_VERIFIED" ELSE @]]
        /\ retests' = retests + 1
        /\ cleared' = IF ok THEN cleared + 1 ELSE cleared
        /\ Goto(c, IF ok /\ saving THEN "credit" ELSE "save")
        /\ UNCHANGED <<row, ledger, lateSaves, lateCredits, saving, closures>>
  BY <1>2 DEF Retest
<1> DEFINE n == [row EXCEPT !.attempts = @ + 1, !.op = "verify", !.base = row.ver,
                            !.state = IF ok THEN "CLOSED" ELSE "OPEN",
                            !.code = IF ok THEN "FIXED_AND_VERIFIED" ELSE @]
           l == IF ok /\ saving THEN "credit" ELSE "save"
<1>4. /\ n \in Tasks /\ n.op = "verify" /\ n.base = row.ver /\ n.attempts = row.attempts + 1
      /\ n.state = IF ok THEN "CLOSED" ELSE "OPEN"
  <2> DEFINE s == IF ok THEN "CLOSED" ELSE "OPEN"
             k == IF ok THEN "FIXED_AND_VERIFIED" ELSE row.code
  <2>1. row \in Tasks /\ row.attempts \in Nat /\ row.ver \in Nat
    BY <1>1 DEF TypeOK, Tasks
  <2>2. s \in States /\ k \in {"NONE", "FIXED_AND_VERIFIED", "RISK_ACCEPTED", "DUPLICATE_SUPERSEDED"}
    BY <2>1, Transitions DEF Tasks
  <2> DEFINE n1 == [row EXCEPT !.attempts = @ + 1]
             n2 == [n1 EXCEPT !.op = "verify"]
             n3 == [n2 EXCEPT !.base = row.ver]
             n4 == [n3 EXCEPT !.state = s]
  <2>3. n1 \in Tasks /\ n1.attempts = row.attempts + 1 /\ n1.code = row.code
    BY <2>1 DEF Tasks
  <2> HIDE DEF s, k, n1
  <2>4. n2 \in Tasks /\ n2.attempts = n1.attempts /\ n2.op = "verify" /\ n2.code = n1.code
    BY <2>3 DEF Tasks, Ops
  <2> HIDE DEF n2
  <2>5. /\ n3 \in Tasks /\ n3.attempts = n2.attempts /\ n3.op = n2.op /\ n3.base = row.ver
        /\ n3.code = n2.code
    BY <2>1, <2>4 DEF Tasks
  <2> HIDE DEF n3
  <2>6. /\ n4 \in Tasks /\ n4.attempts = n3.attempts /\ n4.op = n3.op /\ n4.base = n3.base
        /\ n4.state = s /\ n4.code = n3.code
    BY <2>2, <2>5 DEF Tasks
  <2>7. n = [n4 EXCEPT !.code = IF ok THEN "FIXED_AND_VERIFIED" ELSE @]
    BY DEF n1, n2, n3, s
  <2> HIDE DEF n, n4
  <2>8. n = [n4 EXCEPT !.code = k]
    BY <2>3, <2>4, <2>5, <2>6, <2>7 DEF k
  <2>9. /\ n \in Tasks /\ n.attempts = n4.attempts /\ n.op = n4.op /\ n.base = n4.base
        /\ n.state = s
    BY <2>2, <2>6, <2>8 DEF Tasks
  <2> QED
    BY <2>3, <2>4, <2>5, <2>6, <2>9 DEF s
<1>5. copy' = [copy EXCEPT ![c] = n] /\ pc' = [pc EXCEPT ![c] = l]
  BY <1>3 DEF Goto
<1> HIDE DEF n
<1>6. /\ l \in {"credit", "save"} /\ (l = "credit" <=> ok /\ saving)
      /\ n.state # "NONE" /\ (Closing(n) <=> ok)
  BY <1>1, <1>4 DEF Closing
<1> HIDE DEF l
<1>7. TypeOK'
  BY <1>1, <1>2, <1>3, <1>4, <1>5, <1>6 DEF TypeOK
<1>8. Untouched' /\ IsFiniteSet(lateSaves)'
  BY <1>1, <1>2, <1>3 DEF Untouched
<1>9. \A d \in Callers : d # c => pc'[d] = pc[d] /\ copy'[d] = copy[d]
  BY <1>1, <1>5 DEF TypeOK
<1>10. pc'[c] = l /\ copy'[c] = n
  BY <1>1, <1>5 DEF TypeOK
<1>11. /\ c \notin Crediting /\ (c \in Crediting' <=> ok /\ saving)
       /\ c \notin Saving /\ (c \in Saving' <=> ok /\ ~saving)
  BY <1>2, <1>6, <1>10 DEF Crediting, Saving
<1>12. SavingLate' = SavingLate
  BY <1>3 DEF SavingLate
<1>13. /\ Cardinality(Crediting) \in Nat /\ Cardinality(Saving) \in Nat
       /\ Cardinality(Crediting') = IF ok /\ saving THEN Cardinality(Crediting) + 1 ELSE Cardinality(Crediting)
       /\ saving => Cardinality(Saving') = Cardinality(Saving)
  <2> HIDE DEF Crediting, Saving
  <2> QED
    BY <1>1, <1>9, <1>11, CallerMoves
<1>14. Credited'
  BY <1>1, <1>3, <1>12, <1>13 DEF Credited
<1>15. Retested'
  BY <1>1, <1>3, <1>13 DEF Retested, TypeOK
<1>16. Exact'
  <2> SUFFICES ASSUME alone' PROVE Exact'
    BY DEF Exact
  <2>1. alone /\ \A d \in Callers : d # c => pc[d] = "idle"
    BY <1>2
  <2>2. /\ lateSaves = {} /\ lateCredits = 0
        /\ row.attempts = retests /\ closures = cleared /\ ledger = Earned
    BY <1>1, <1>2, <2>1 DEF Exact
  <2>3. n.attempts = retests'
    BY <1>3, <1>4, <2>2
  <2>4. \A d \in Callers : d # c => pc'[d] = "idle"
    BY <1>9, <2>1
  <2>5. pc'[c] = "credit" =>
          /\ saving' /\ Closing(copy'[c]) /\ copy'[c].attempts = retests'
          /\ closures' + 1 = cleared' /\ ledger' + 1 = cleared'
    BY <1>3, <1>6, <1>10, <2>2, <2>3 DEF Earned
  <2>6. pc'[c] = "save" =>
          /\ copy'[c].attempts = retests' /\ ledger' = Earned'
          /\ cleared' = IF Closing(copy'[c]) THEN closures' + 1 ELSE closures'
    BY <1>3, <1>6, <1>10, <2>2, <2>3 DEF Earned
  <2> QED
    BY <1>3, <1>6, <1>10, <2>2, <2>4, <2>5, <2>6 DEF Exact, Closing
<1>17. Guarded'
  <2>1. \A u : Loaded(u)' <=> Loaded(u)
    BY <1>3 DEF Loaded
  <2>2. Loaded(n)
    BY <1>1, <1>4 DEF Loaded, Unguarded, TypeOK, Tasks
  <2> QED
    BY <1>1, <1>3, <1>9, <1>10, <2>1, <2>2 DEF Guarded
<1> QED
  BY <1>7, <1>8, <1>14, <1>15, <1>16, <1>17 DEF RInv

\* record_saving, in time, failed or late.
LEMMA CreditStep ==
  ASSUME RInv, NEW c \in Callers, Credit(c)
  PROVE  RInv'
<1>1. /\ TypeOK /\ IsFiniteSet(lateSaves)
      /\ Untouched /\ Credited /\ Retested /\ Exact /\ Guarded
  BY DEF RInv
<1>2. /\ pc[c] = "credit" /\ pc' = [pc EXCEPT ![c] = "save"] /\ ledger' = ledger + 1
      /\ UNCHANGED <<row, copy, lateSaves, lateCredits, calls, saving, retests, cleared,
                     closures, alone>>
  BY DEF Credit, Goto
<1>3. TypeOK' /\ Untouched' /\ IsFiniteSet(lateSaves)'
  BY <1>1, <1>2 DEF TypeOK, Untouched
<1>4. pc'[c] = "save" /\ \A d \in Callers : d # c => pc'[d] = pc[d] /\ copy'[d] = copy[d]
  BY <1>1, <1>2 DEF TypeOK
<1>5. c \in Crediting /\ c \notin Crediting' /\ c \notin Saving /\ SavingLate' = SavingLate
  BY <1>2, <1>4 DEF Crediting, Saving, SavingLate
<1>6. /\ Cardinality(Crediting) \in Nat /\ Cardinality(Saving) \in Nat
      /\ Cardinality(Crediting') = Cardinality(Crediting) - 1
      /\ Cardinality(Saving') \in {Cardinality(Saving), Cardinality(Saving) + 1}
  <2> HIDE DEF Crediting, Saving
  <2> QED
    BY <1>1, <1>4, <1>5, CallerMoves
<1>7. Cardinality(SavingLate) \in Nat
  BY <1>1, FS_Subset, FS_CardinalityType DEF SavingLate
<1>8. Credited'
  BY <1>1, <1>2, <1>5, <1>6, <1>7 DEF Credited, TypeOK
<1>9. Retested'
  BY <1>1, <1>2, <1>6 DEF Retested, TypeOK
<1>10. Exact'
  BY <1>1, <1>2, <1>4 DEF Exact, Earned, TypeOK, Closing
<1>11. Guarded'
  BY <1>1, <1>2, <1>4 DEF Guarded, Loaded
<1> QED
  BY <1>3, <1>8, <1>9, <1>10, <1>11 DEF RInv

LEMMA CreditFailsStep ==
  ASSUME RInv, NEW c \in Callers, CreditFails(c)
  PROVE  RInv'
<1>1. /\ TypeOK /\ IsFiniteSet(lateSaves)
      /\ Untouched /\ Credited /\ Retested /\ Exact /\ Guarded
  BY DEF RInv
<1>2. /\ pc[c] = "credit" /\ pc' = [pc EXCEPT ![c] = "idle"] /\ alone' = FALSE
      /\ copy' = [copy EXCEPT ![c] = NoTask]
      /\ lateCredits' \in {lateCredits, lateCredits + 1}
      /\ UNCHANGED <<row, ledger, lateSaves, calls, saving, retests, cleared, closures>>
  BY DEF CreditFails, End, Goto
<1>3. NoTask \in Tasks
  BY DEF NoTask, Tasks, Ops
<1>4. TypeOK' /\ Untouched' /\ IsFiniteSet(lateSaves)' /\ Exact'
  <2>1. TypeOK'
    <3>1. lateCredits' \in Nat
      BY <1>1, <1>2 DEF TypeOK
    <3>2. pc' \in [Callers -> {"idle", "credit", "save", "verify", "mirror"}]
          /\ copy' \in [Callers -> Tasks]
          /\ \A d \in Callers : pc'[d] # "idle" => copy'[d].state # "NONE"
      BY <1>1, <1>2, <1>3 DEF TypeOK
    <3>3. alone' \in BOOLEAN
      BY <1>2
    <3> QED
      BY <1>1, <1>2, <3>1, <3>2, <3>3 DEF TypeOK
  <2>2. Untouched'
    BY <1>1, <1>2 DEF Untouched
  <2>3. IsFiniteSet(lateSaves)' /\ Exact'
    BY <1>1, <1>2 DEF Exact
  <2> QED
    BY <2>1, <2>2, <2>3
<1>5. pc'[c] = "idle" /\ \A d \in Callers : d # c => pc'[d] = pc[d] /\ copy'[d] = copy[d]
  BY <1>1, <1>2 DEF TypeOK
<1>6. c \in Crediting /\ c \notin Crediting' /\ c \notin Saving /\ c \notin Saving'
      /\ SavingLate' = SavingLate
  BY <1>2, <1>5 DEF Crediting, Saving, SavingLate
<1>7. /\ Cardinality(Crediting) \in Nat
      /\ Cardinality(Crediting') = Cardinality(Crediting) - 1
      /\ Cardinality(Saving') = Cardinality(Saving)
  <2> HIDE DEF Crediting, Saving
  <2> QED
    BY <1>1, <1>5, <1>6, CallerMoves
<1>8. Credited' /\ Retested'
  BY <1>1, <1>2, <1>6, <1>7 DEF Credited, Retested, TypeOK
<1>9. Guarded'
  BY <1>1, <1>2, <1>5 DEF Guarded, Loaded
<1> QED
  BY <1>4, <1>8, <1>9 DEF RInv

LEMMA LateCreditStep == ASSUME RInv, LateCredit PROVE RInv'
<1>1. /\ TypeOK /\ IsFiniteSet(lateSaves)
      /\ Untouched /\ Credited /\ Retested /\ Exact /\ Guarded
  BY DEF RInv
<1>2. /\ lateCredits > 0 /\ lateCredits' = lateCredits - 1 /\ ledger' = ledger + 1
      /\ UNCHANGED <<row, pc, copy, lateSaves, calls, saving, retests, cleared, closures, alone>>
  BY DEF LateCredit
<1>3. Crediting' = Crediting /\ Saving' = Saving /\ SavingLate' = SavingLate
  BY <1>2 DEF Crediting, Saving, SavingLate
<1>4. /\ Cardinality(Crediting) \in Nat /\ Cardinality(Saving) \in Nat
      /\ Cardinality(SavingLate) \in Nat
  BY <1>1, RemediationAssumption, FS_Subset, FS_CardinalityType DEF Crediting, Saving, SavingLate
<1>5. TypeOK' /\ Untouched' /\ IsFiniteSet(lateSaves)' /\ Guarded'
  BY <1>1, <1>2 DEF TypeOK, Untouched, Guarded, Loaded
<1>6. Credited' /\ Retested'
  BY <1>1, <1>2, <1>3, <1>4 DEF Credited, Retested, TypeOK
<1>7. Exact'
  BY <1>1, <1>2 DEF Exact, TypeOK
<1> QED
  BY <1>5, <1>6, <1>7 DEF RInv

\* A save replaces the row: every copy loaded before is stale now.
LEMMA WriteMakesStale ==
  ASSUME TypeOK, NEW t \in Tasks, row' = [t EXCEPT !.ver = row.ver + 1],
         NEW u \in Tasks, u.base <= row.ver
  PROVE  Loaded(u)'
BY DEF Loaded, TypeOK, Tasks

LEMMA SaveStep ==
  ASSUME RInv, NEW c \in Callers, Save(c)
  PROVE  RInv'
<1>1. /\ TypeOK /\ IsFiniteSet(lateSaves)
      /\ Untouched /\ Credited /\ Retested /\ Exact /\ Guarded
  BY DEF RInv
<1> DEFINE t == copy[c]
<1>2. /\ pc[c] \in {"save", "mirror"} /\ row' = [t EXCEPT !.ver = row.ver + 1]
      /\ closures' = IF Closing(t) THEN closures + 1 ELSE closures
      /\ UNCHANGED <<ledger, lateSaves, lateCredits, calls, saving, retests, cleared, alone>>
  BY DEF Save, Write, Closing
<1>3. \/ pc' = [pc EXCEPT ![c] = "idle"] /\ copy' = [copy EXCEPT ![c] = NoTask]
      \/ pc' = [pc EXCEPT ![c] = "verify"] /\ copy' = copy /\ t.op = "resolve"
      \/ pc' = [pc EXCEPT ![c] = "mirror"] /\ copy' = copy /\ t.op = "create"
  BY DEF Save, End, Goto
<1>4. t \in Tasks /\ t.state # "NONE" /\ NoTask \in Tasks
  BY <1>1, <1>2 DEF TypeOK, NoTask, Tasks, Ops
<1> HIDE DEF t
<1>5. row' \in Tasks /\ row'.attempts = t.attempts
  BY <1>1, <1>2, <1>4 DEF TypeOK, Tasks
<1>6. TypeOK'
  BY <1>1, <1>2, <1>3, <1>4, <1>5 DEF TypeOK, t
<1>7. Untouched' /\ IsFiniteSet(lateSaves)'
  BY <1>1, <1>2 DEF Untouched
<1>8. \A d \in Callers : d # c => pc'[d] = pc[d] /\ copy'[d] = copy[d]
  BY <1>1, <1>3 DEF TypeOK
<1>9. /\ pc'[c] \in {"idle", "verify", "mirror"}
      /\ pc'[c] = "verify" => t.op = "resolve"
      /\ pc'[c] = "mirror" => t.op = "create" /\ copy'[c] = t
  BY <1>1, <1>3 DEF TypeOK, t
<1>10. /\ c \notin Crediting /\ c \notin Crediting' /\ c \notin Saving'
       /\ (c \in Saving <=> Closing(t)) /\ SavingLate' = SavingLate
  BY <1>2, <1>9 DEF Crediting, Saving, SavingLate, Closing, t
<1>11. /\ Cardinality(Crediting') = Cardinality(Crediting) /\ Cardinality(Saving) \in Nat
       /\ Cardinality(Saving') = IF Closing(t) THEN Cardinality(Saving) - 1 ELSE Cardinality(Saving)
  <2> HIDE DEF Crediting, Saving
  <2> QED
    BY <1>1, <1>8, <1>10, CallerMoves
<1>12. Cardinality(SavingLate) \in Nat
  BY <1>1, FS_Subset, FS_CardinalityType DEF SavingLate
<1>13. Credited' /\ Retested'
  BY <1>1, <1>2, <1>10, <1>11, <1>12 DEF Credited, Retested, TypeOK
<1>14. Exact'
  <2> SUFFICES ASSUME alone' PROVE Exact'
    BY DEF Exact
  <2>1. alone
    BY <1>2
  <2>2. /\ lateSaves = {} /\ lateCredits = 0
        /\ t.attempts = retests /\ ledger = Earned
        /\ cleared = IF Closing(t) THEN closures + 1 ELSE closures
        /\ \A d \in Callers : d # c => pc[d] = "idle"
    BY <1>1, <1>2, <2>1 DEF Exact, t
  <2>3. row'.attempts = retests' /\ closures' = cleared' /\ ledger' = Earned'
    BY <1>2, <1>5, <2>2 DEF Earned
  <2>4. pc'[c] = "mirror" => copy'[c].attempts = retests' /\ ~Closing(copy'[c])
    BY <1>2, <1>9, <2>2 DEF Closing
  <2>5. \A d \in Callers : d # c => pc'[d] = "idle"
    BY <1>8, <2>2
  <2> QED
    BY <1>2, <1>9, <2>2, <2>3, <2>4, <2>5 DEF Exact, Closing
<1>15. Guarded'
  <2>1. \A u \in Tasks : u.base <= row.ver => Loaded(u)'
    BY <1>1, <1>2, <1>4, WriteMakesStale
  <2>2. \A d \in Callers : pc[d] \in {"credit", "save", "mirror"} =>
           copy[d] \in Tasks /\ copy[d].base <= row.ver
    BY <1>1 DEF Guarded, Loaded, TypeOK
  <2>3. \A u \in lateSaves' : u \in Tasks /\ u.base <= row.ver
    BY <1>1, <1>2 DEF Guarded, Loaded, TypeOK
  <2>4. \A d \in Callers : pc'[d] \in {"credit", "save", "mirror"} =>
           copy'[d] \in Tasks /\ copy'[d].base <= row.ver
    BY <1>2, <1>8, <1>9, <2>2 DEF t
  <2> QED
    BY <2>1, <2>3, <2>4 DEF Guarded
<1> QED
  BY <1>6, <1>7, <1>13, <1>14, <1>15 DEF RInv

LEMMA SaveFailsStep ==
  ASSUME RInv, NEW c \in Callers, SaveFails(c)
  PROVE  RInv'
<1>1. /\ TypeOK /\ IsFiniteSet(lateSaves)
      /\ Untouched /\ Credited /\ Retested /\ Exact /\ Guarded
  BY DEF RInv
<1> DEFINE t == copy[c]
<1>2. /\ pc[c] \in {"save", "mirror", "verify"} /\ alone' = FALSE
      /\ pc' = [pc EXCEPT ![c] = "idle"] /\ copy' = [copy EXCEPT ![c] = NoTask]
      /\ UNCHANGED <<row, ledger, lateCredits, calls, saving, retests, cleared, closures>>
  BY DEF SaveFails, End, Goto
<1>3. lateSaves' = lateSaves \/ (pc[c] # "verify" /\ lateSaves' = lateSaves \cup {t})
  BY DEF SaveFails
<1>4. NoTask \in Tasks /\ t \in Tasks
  BY <1>1 DEF NoTask, Tasks, Ops, TypeOK
<1> HIDE DEF t
<1>5. TypeOK' /\ Exact'
  BY <1>1, <1>2, <1>3, <1>4 DEF TypeOK, Exact
<1>6. Untouched'
  BY <1>1, <1>2 DEF Untouched
<1>7. pc'[c] = "idle" /\ \A d \in Callers : d # c => pc'[d] = pc[d] /\ copy'[d] = copy[d]
  BY <1>1, <1>2 DEF TypeOK
<1>8. /\ c \notin Crediting /\ c \notin Crediting' /\ c \notin Saving'
      /\ (c \in Saving <=> pc[c] # "verify" /\ Closing(t))
  BY <1>2, <1>7 DEF Crediting, Saving, t
<1>9. /\ Cardinality(Crediting') = Cardinality(Crediting) /\ Cardinality(Saving) \in Nat
      /\ Cardinality(Saving') = IF pc[c] # "verify" /\ Closing(t) THEN Cardinality(Saving) - 1
                                ELSE Cardinality(Saving)
  <2> HIDE DEF Crediting, Saving
  <2> QED
    BY <1>1, <1>7, <1>8, CallerMoves
<1>10. /\ t \notin SavingLate => (t \in SavingLate' => pc[c] # "verify" /\ Closing(t))
       /\ t \in SavingLate => t \in SavingLate'
  BY <1>3 DEF SavingLate
<1>11. /\ IsFiniteSet(lateSaves)' /\ Cardinality(SavingLate) \in Nat
       /\ \/ Cardinality(SavingLate') = Cardinality(SavingLate)
          \/ /\ pc[c] # "verify" /\ Closing(t)
             /\ Cardinality(SavingLate') = Cardinality(SavingLate) + 1
  <2>1. \A u : u # t => (u \in lateSaves' <=> u \in lateSaves)
    BY <1>3
  <2> HIDE DEF SavingLate
  <2> QED
    BY <1>1, <1>10, <2>1, LateMoves
<1>12. Credited' /\ Retested'
  BY <1>1, <1>2, <1>9, <1>11 DEF Credited, Retested, TypeOK
<1>13. Guarded'
  <2>1. \A u : Loaded(u)' <=> Loaded(u)
    BY <1>2 DEF Loaded
  <2> QED
    BY <1>1, <1>2, <1>3, <1>7, <2>1 DEF Guarded, t
<1> QED
  BY <1>5, <1>6, <1>11, <1>12, <1>13 DEF RInv

LEMMA LateSaveStep == ASSUME RInv, LateSave PROVE RInv'
<1>1. /\ TypeOK /\ IsFiniteSet(lateSaves)
      /\ Untouched /\ Credited /\ Retested /\ Exact /\ Guarded
  BY DEF RInv
<1>2. PICK t \in lateSaves :
        /\ row' = [t EXCEPT !.ver = row.ver + 1] /\ lateSaves' = lateSaves \ {t}
        /\ closures' = IF Closing(t) THEN closures + 1 ELSE closures
        /\ UNCHANGED <<pc, copy, ledger, lateCredits, calls, saving, retests, cleared, alone>>
  BY DEF LateSave, Write, Closing
<1>3. t \in Tasks /\ row' \in Tasks
  BY <1>1, <1>2 DEF TypeOK, Tasks
<1>4. TypeOK' /\ Untouched' /\ Exact'
  BY <1>1, <1>2, <1>3 DEF TypeOK, Untouched, Exact
<1>5. Crediting' = Crediting /\ Saving' = Saving
  BY <1>2 DEF Crediting, Saving
<1>6. Cardinality(Saving) \in Nat
  BY RemediationAssumption, FS_Subset, FS_CardinalityType DEF Saving
<1>7. t \notin SavingLate' /\ (t \in SavingLate <=> Closing(t))
  BY <1>2 DEF SavingLate
<1>8. /\ IsFiniteSet(lateSaves)' /\ Cardinality(SavingLate) \in Nat
      /\ Cardinality(SavingLate') = IF Closing(t) THEN Cardinality(SavingLate) - 1
                                    ELSE Cardinality(SavingLate)
  <2>1. \A u : u # t => (u \in lateSaves' <=> u \in lateSaves)
    BY <1>2
  <2> HIDE DEF SavingLate
  <2> QED
    BY <1>1, <1>7, <2>1, LateMoves
<1>9. Credited' /\ Retested'
  BY <1>1, <1>2, <1>5, <1>6, <1>8 DEF Credited, Retested, TypeOK
<1>10. Guarded'
  <2>1. \A u \in Tasks : u.base <= row.ver => Loaded(u)'
    BY <1>1, <1>2, <1>3, WriteMakesStale
  <2> QED
    BY <1>1, <1>2, <2>1 DEF Guarded, Loaded, TypeOK
<1> QED
  BY <1>4, <1>8, <1>9, <1>10 DEF RInv

-----------------------------------------------------------------------------
LEMMA InitRInv == Init => RInv
<1> SUFFICES ASSUME Init PROVE RInv
  OBVIOUS
<1>1. NoTask \in Tasks
  BY DEF NoTask, Tasks, Ops
<1>2. TypeOK
  BY <1>1 DEF Init, TypeOK
<1>3. Crediting = {} /\ Saving = {} /\ SavingLate = {}
  BY DEF Init, Crediting, Saving, SavingLate
<1>4. IsFiniteSet(lateSaves) /\ Credited /\ Retested
  BY <1>3, FS_EmptySet DEF Init, Credited, Retested
<1>5. Untouched /\ Exact /\ Guarded
  BY DEF Init, Untouched, Exact, Earned, Guarded, NoTask
<1> QED
  BY <1>2, <1>4, <1>5 DEF RInv

LEMMA RInvStep == RInv /\ [Next]_vars => RInv'
<1> SUFFICES ASSUME RInv, [Next]_vars PROVE RInv'
  OBVIOUS
<1>1. CASE UNCHANGED vars
  <2>1. UNCHANGED <<Crediting, Saving, SavingLate>>
    BY <1>1 DEF vars, Crediting, Saving, SavingLate
  <2> QED
    BY <1>1, <2>1 DEF vars, RInv, TypeOK, Untouched, Credited, Retested, Exact, Earned,
                      Guarded, Loaded
<1>2. ASSUME NEW c \in Callers, Operation(c) PROVE RInv'
  BY <1>2, OperationEdits, EditStep DEF RInv
<1>3. ASSUME NEW c \in Callers, VerifyTask(c) \/ VerifyResolved(c) PROVE RInv'
  BY <1>3, RetestStep
<1>4. ASSUME NEW c \in Callers, Credit(c) \/ CreditFails(c) PROVE RInv'
  BY <1>4, CreditStep, CreditFailsStep
<1>5. ASSUME NEW c \in Callers, Save(c) \/ SaveFails(c) PROVE RInv'
  BY <1>5, SaveStep, SaveFailsStep
<1>6. CASE LateCredit \/ LateSave
  BY <1>6, LateCreditStep, LateSaveStep
<1> QED
  BY <1>1, <1>2, <1>3, <1>4, <1>5, <1>6 DEF Next, Operation

LEMMA RInvHolds == Spec => []RInv
BY InitRInv, RInvStep, PTL DEF Spec

\* The types, for any callers and any number of operations.
THEOREM TypeCorrect == Spec => []TypeOK
<1>1. RInv => TypeOK
  BY DEF RInv
<1> QED
  BY <1>1, RInvHolds, PTL

\* Whatever fails, comes late or overlaps, a closure that is stored has an entry of its
\* own in the ledger.
THEOREM ClosuresCredited == Spec => []EveryClosureCredited
<1>1. RInv => EveryClosureCredited
  <2> SUFFICES ASSUME RInv PROVE EveryClosureCredited
    OBVIOUS
  <2>1. Cardinality(Saving) \in Nat /\ Cardinality(SavingLate) \in Nat
    BY RemediationAssumption, FS_Subset, FS_CardinalityType DEF RInv, Saving, SavingLate
  <2> QED
    BY <2>1 DEF RInv, Credited, EveryClosureCredited, TypeOK
<1> QED
  BY <1>1, RInvHolds, PTL

\* The ledger never has more entries than retests that found the condition gone.
THEOREM CreditsRetested == Spec => []EveryCreditRetested
<1>1. RInv => EveryCreditRetested
  <2> SUFFICES ASSUME RInv PROVE EveryCreditRetested
    OBVIOUS
  <2>1. Cardinality(Crediting) \in Nat
    BY RemediationAssumption, FS_Subset, FS_CardinalityType DEF Crediting
  <2> QED
    BY <2>1 DEF RInv, Retested, EveryCreditRetested, TypeOK
<1> QED
  BY <1>1, RInvHolds, PTL

\* Operations that neither overlap nor fail close and credit the task once for each
\* cleared retest, and count every attempt.
THEOREM ExactAlone == Spec => []AloneIsExact
<1>1. RInv => AloneIsExact
  BY DEF RInv, Exact, Earned, AloneIsExact
<1> QED
  BY <1>1, RInvHolds, PTL

\* A terminal task is undone only by the operations that may, or by a stale copy.
THEOREM StaleUndoes == Spec => OnlyStaleUndoes
<1>1. ASSUME RInv, [Next]_vars, row.state \in Terminal, row'.state # row.state, row'.base = row.ver
      PROVE  row'.op \in Unguarded
  <2>1. ASSUME NEW t \in Tasks, row' = [t EXCEPT !.ver = row.ver + 1], Loaded(t)
        PROVE  row'.op \in Unguarded
    BY <1>1, <2>1 DEF Loaded, Tasks
  <2>2. ASSUME NEW c \in Callers, Save(c) PROVE row'.op \in Unguarded
    BY <1>1, <2>1, <2>2 DEF Save, Write, RInv, Guarded, TypeOK
  <2>3. CASE LateSave
    BY <1>1, <2>1, <2>3 DEF LateSave, Write, RInv, Guarded, TypeOK
  <2>4. ASSUME NEW c \in Callers, Operation(c) PROVE row' = row
    <3>1. PICK t, op : Edits(c, t, op)
      BY <1>1, <2>4, OperationEdits DEF RInv
    <3> QED
      BY <3>1 DEF Edits, Change
  <2>5. ASSUME NEW c \in Callers,
               VerifyTask(c) \/ VerifyResolved(c) \/ Credit(c) \/ CreditFails(c) \/ SaveFails(c)
        PROVE  row' = row
    BY <2>5 DEF VerifyTask, VerifyResolved, Retest, Credit, CreditFails, SaveFails
  <2>6. ASSUME LateCredit \/ UNCHANGED vars PROVE row' = row
    BY <2>6 DEF LateCredit, vars
  <2> QED
    BY <1>1, <2>2, <2>3, <2>4, <2>5, <2>6 DEF Next, Operation
<1>2. RInv /\ [Next]_vars =>
        [row.state \in Terminal /\ row'.state # row.state /\ row'.base = row.ver =>
           row'.op \in Unguarded]_vars
  BY <1>1
<1> QED
  BY <1>2, RInvHolds, PTL DEF Spec, OnlyStaleUndoes

=============================================================================
