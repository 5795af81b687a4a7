-------------------------- MODULE AuditStreamProofs --------------------------
(***************************************************************************)
(* Proofs about AuditStream, for any number of processes, threads, events  *)
(* and crashes.                                                            *)
(*                                                                         *)
(* That a later append has seen an earlier one of its process is not       *)
(* inductive: it needs what a thread between its read and its insert knows *)
(* of the rows committed since (Unseen), and that only the holder of the   *)
(* lock is there (Held).  That an invisible predecessor is the only other  *)
(* way to a fork needs what each event's predecessor was at its read       *)
(* (Placed), for the rows, the inserts in flight and the abandoned ones.   *)
(***************************************************************************)
EXTENDS AuditStream, TLAPS

\* A thread past the lock holds it.
Held == \A c \in Callers : pc[c] \in {"read", "save"} => lock[Home[c]] = c

\* Only an abandoned insert is marked late.
Marked ==
  /\ \A c \in Callers : event[c].by = Home[c] /\ event[c].late = "no"
  /\ \A e \in pending : e.late = "yes"

\* e saw its rows when at most n of the rows R were stored, and names the newest.
Placed(e, n, R) ==
  /\ e.seen <= n /\ e.prev <= e.seen
  /\ e.prev = 0 => e.seen = 0
  /\ \A k \in 1..e.seen : R[k].ts <= R[e.prev].ts

RowsPlaced == \A i \in DOMAIN rows : Placed(rows[i], i - 1, rows)

SavesPlaced ==
  /\ \A c \in Callers : pc[c] = "save" => Placed(event[c], Len(rows), rows)
  /\ \A e \in pending : Placed(e, Len(rows), rows)

\* What was committed since c's read is of another process, or was abandoned.
Unseen ==
  \A c \in Callers : pc[c] = "save" =>
    \A k \in DOMAIN rows :
      k > event[c].seen => rows[k].by # Home[c] \/ rows[k].late = "yes"

Inv == TypeOK /\ Held /\ Marked /\ RowsPlaced /\ SavesPlaced /\ Unseen /\ LockSerialises

-----------------------------------------------------------------------------
\* A new row leaves what the earlier ones say of an event as it is.
LEMMA PlacedStays ==
  ASSUME NEW R \in Seq(Events), NEW r \in Events, NEW e \in Events, NEW n \in Nat,
         n <= Len(R), Placed(e, n, R)
  PROVE  Placed(e, n, Append(R, r))
<1>1. \A k \in 1..Len(R) : Append(R, r)[k] = R[k]
  OBVIOUS
<1>2. e.seen \in Nat /\ e.prev \in Nat /\ Len(R) \in Nat
  BY DEF Events
<1>3. \A k \in 1..e.seen : Append(R, r)[k].ts <= Append(R, r)[e.prev].ts
  <2> TAKE k \in 1..e.seen
  <2>1. k \in 1..Len(R) /\ e.prev \in 1..Len(R)
    BY <1>2 DEF Placed
  <2>2. QED BY <2>1, <1>1 DEF Placed
<1>4. QED BY <1>3 DEF Placed

\* A committed insert that names what it saw, and that saw every earlier row of its
\* process unless abandoned inserts are involved, keeps what is known of the rows.
LEMMA Committed ==
  ASSUME Inv, NEW r \in Events, Placed(r, Len(rows), rows), rows' = Append(rows, r),
         r.late = "no" => \A k \in DOMAIN rows :
            k > r.seen => rows[k].by # r.by \/ rows[k].late = "yes"
  PROVE  /\ rows' \in Seq(Events) /\ \A i \in DOMAIN rows' : rows'[i].prev < i
         /\ RowsPlaced' /\ LockSerialises'
         /\ \A e \in Events : Placed(e, Len(rows), rows) => Placed(e, Len(rows'), rows')
<1>1. /\ rows \in Seq(Events) /\ Len(rows) \in Nat /\ DOMAIN rows = 1..Len(rows)
      /\ rows' \in Seq(Events) /\ Len(rows') = Len(rows) + 1
      /\ DOMAIN rows' = 1..(Len(rows) + 1)
      /\ rows'[Len(rows) + 1] = r
      /\ \A k \in 1..Len(rows) : rows'[k] = rows[k]
  BY DEF Inv, TypeOK
<1>2. r.seen \in Nat /\ r.prev \in Nat /\ r.prev < Len(rows) + 1
  BY <1>1 DEF Events, Placed
<1>3. \A i \in DOMAIN rows' : rows'[i].prev < i
  BY <1>1, <1>2 DEF Inv, TypeOK
<1>4. ASSUME NEW i \in 1..Len(rows) PROVE Placed(rows'[i], i - 1, rows')
  <2>1. rows[i] \in Events /\ i - 1 \in Nat /\ i - 1 <= Len(rows) /\ Placed(rows[i], i - 1, rows)
    BY <1>1 DEF Inv, RowsPlaced
  <2>2. Placed(rows[i], i - 1, Append(rows, r))
    BY <2>1, <1>1, PlacedStays
  <2>3. QED BY <2>2, <1>1
<1>5. Placed(rows'[Len(rows) + 1], Len(rows), rows')
  <2>1. Placed(r, Len(rows), Append(rows, r))
    BY <1>1, PlacedStays
  <2>2. QED BY <2>1, <1>1
<1>6. RowsPlaced'
  <2> SUFFICES ASSUME NEW i \in DOMAIN rows' PROVE Placed(rows'[i], i - 1, rows')
    BY DEF RowsPlaced
  <2>1. CASE i = Len(rows) + 1
    BY <2>1, <1>1, <1>5
  <2>2. CASE i # Len(rows) + 1
    BY <2>2, <1>1, <1>4
  <2>3. QED BY <2>1, <2>2
<1>7. LockSerialises'
  <2> SUFFICES ASSUME NEW i \in DOMAIN rows', NEW j \in DOMAIN rows', i < j,
                      rows'[i].by = rows'[j].by, rows'[i].late = "no", rows'[j].late = "no"
               PROVE  rows'[j].seen >= i
    BY DEF LockSerialises
  <2>1. i \in 1..Len(rows) /\ rows'[i] = rows[i]
    BY <1>1
  <2>2. CASE j = Len(rows) + 1
    <3>1. ~ (i > r.seen)
      BY <2>1, <2>2, <1>1
    <3>2. QED BY <3>1, <2>1, <2>2, <1>1, <1>2
  <2>3. CASE j # Len(rows) + 1
    BY <2>1, <2>3, <1>1 DEF Inv, LockSerialises
  <2>4. QED BY <2>2, <2>3
<1>8. ASSUME NEW e \in Events, Placed(e, Len(rows), rows) PROVE Placed(e, Len(rows'), rows')
  <2>1. Placed(e, Len(rows), Append(rows, r))
    BY <1>1, <1>8, PlacedStays
  <2>2. Placed(e, Len(rows), rows')
    BY <2>1
  <2>3. e.seen \in Nat /\ (e.seen <= Len(rows) => e.seen <= Len(rows'))
    BY <1>1 DEF Events
  <2>4. QED BY <2>2, <2>3 DEF Placed
<1>9. QED BY <1>1, <1>3, <1>6, <1>7, <1>8

\* What a step that leaves the rows alone must still show.
LEMMA SameRows ==
  ASSUME Inv, UNCHANGED rows, TypeOK', Held', Marked', SavesPlaced', Unseen'
  PROVE  Inv'
BY DEF Inv, RowsPlaced, LockSerialises

\* The types a step starts from, and what Blank is.
LEMMA Types ==
  ASSUME TypeOK
  PROVE  /\ rows \in Seq(Events) /\ Len(rows) \in Nat /\ DOMAIN rows = 1..Len(rows)
         /\ \A c \in Callers : /\ Home[c] \in Processes /\ Blank(c) \in Events
                               /\ Blank(c).by = Home[c] /\ Blank(c).late = "no"
                               /\ event[c] \in Events /\ Abandoned(c) \in Events
                               /\ Abandoned(c).late = "yes"
                               /\ Abandoned(c).seen = event[c].seen
                               /\ Abandoned(c).prev = event[c].prev
<1>1. rows \in Seq(Events) /\ Len(rows) \in Nat /\ DOMAIN rows = 1..Len(rows)
  BY DEF TypeOK
<1>2. ASSUME NEW c \in Callers
      PROVE  /\ Home[c] \in Processes /\ Blank(c) \in Events
             /\ Blank(c).by = Home[c] /\ Blank(c).late = "no"
  BY AuditAssumption DEF Blank, Events
<1>3. ASSUME NEW c \in Callers
      PROVE  /\ event[c] \in Events /\ Abandoned(c) \in Events
             /\ Abandoned(c).late = "yes" /\ Abandoned(c).seen = event[c].seen
             /\ Abandoned(c).prev = event[c].prev
  <2>1. event[c] \in Events
    BY DEF TypeOK
  <2>2. QED BY <2>1 DEF Abandoned, Events
<1>4. QED BY <1>1, <1>2, <1>3

\* An abandoned insert names what the insert named.
LEMMA AbandonedPlaced ==
  ASSUME Inv, NEW c \in Callers, pc[c] = "save"
  PROVE  Placed(Abandoned(c), Len(rows), rows)
<1>1. Placed(event[c], Len(rows), rows)
  BY DEF Inv, SavesPlaced
<1>2. Abandoned(c).seen = event[c].seen /\ Abandoned(c).prev = event[c].prev
  BY Types DEF Inv
<1>3. QED BY <1>1, <1>2 DEF Placed

LEMMA InitInv == Init => Inv
<1> SUFFICES ASSUME Init PROVE Inv
  OBVIOUS
<1>1. rows = <<>> /\ DOMAIN rows = {} /\ pending = {} /\ \A c \in Callers : pc[c] = "idle"
  BY DEF Init
<1>2. TypeOK
  BY AuditAssumption, <1>1 DEF Init, TypeOK, Blank, Events
<1>3. Held /\ SavesPlaced /\ Unseen /\ RowsPlaced /\ LockSerialises
  BY <1>1 DEF Held, SavesPlaced, Unseen, RowsPlaced, LockSerialises
<1>4. Marked
  BY <1>1, <1>2, Types DEF Init, Marked
<1>5. QED BY <1>2, <1>3, <1>4 DEF Inv

\* Leaving the with block keeps what is known of the threads.
LEMMA LeaveKeeps ==
  ASSUME Inv, NEW c \in Callers, pc[c] \in {"read", "save"}, Leave(c)
  PROVE  /\ lock' \in [Processes -> Callers \cup {Free}]
         /\ pc' \in [Callers -> {"idle", "wait", "read", "save"}]
         /\ event' \in [Callers -> Events]
         /\ Held'
         /\ \A d \in Callers : event'[d].by = Home[d] /\ event'[d].late = "no"
         /\ \A d \in Callers : pc'[d] = "save" =>
              /\ pc[d] = "save" /\ event'[d] = event[d] /\ Home[d] # Home[c]
<1>1. /\ TypeOK /\ Held /\ Marked
      /\ pc \in [Callers -> {"idle", "wait", "read", "save"}]
      /\ lock \in [Processes -> Callers \cup {Free}] /\ event \in [Callers -> Events]
      /\ Home[c] \in Processes /\ Blank(c) \in Events
      /\ Blank(c).by = Home[c] /\ Blank(c).late = "no"
      /\ lock[Home[c]] = c
  BY Types DEF Inv, TypeOK, Held
<1>2. /\ pc' = [pc EXCEPT ![c] = "idle"] /\ lock' = [lock EXCEPT ![Home[c]] = Free]
      /\ event' = [event EXCEPT ![c] = Blank(c)]
  BY DEF Leave
<1>3. /\ lock' \in [Processes -> Callers \cup {Free}]
      /\ pc' \in [Callers -> {"idle", "wait", "read", "save"}]
      /\ event' \in [Callers -> Events]
  BY <1>1, <1>2
<1>4. \A d \in Callers : pc'[d] \in {"read", "save"} =>
        d # c /\ pc'[d] = pc[d] /\ lock[Home[d]] = d /\ Home[d] # Home[c]
  BY <1>1, <1>2 DEF Held
<1>5. Held'
  BY <1>1, <1>2, <1>4, AuditAssumption DEF Held
<1>6. \A d \in Callers : event'[d].by = Home[d] /\ event'[d].late = "no"
  BY <1>1, <1>2 DEF Marked
<1>7. \A d \in Callers : pc'[d] = "save" =>
        /\ pc[d] = "save" /\ event'[d] = event[d] /\ Home[d] # Home[c]
  BY <1>1, <1>2, <1>4
<1>8. QED BY <1>3, <1>5, <1>6, <1>7

LEMMA StartInv ==
  ASSUME Inv, NEW c \in Callers, Start(c)
  PROVE  Inv'
<1>1. PICK t \in Timestamps :
        /\ clock' = [clock EXCEPT ![Home[c]] = t]
        /\ event' = [event EXCEPT ![c] = [Blank(c) EXCEPT !.ts = t]]
  BY DEF Start
<1>2. /\ pc[c] = "idle" /\ pc' = [pc EXCEPT ![c] = "wait"] /\ calls' = calls + 1
      /\ UNCHANGED <<rows, pending, lock, crashes>>
  BY DEF Start
<1>3. /\ Home[c] \in Processes /\ t \in 0..MaxClock
      /\ [Blank(c) EXCEPT !.ts = t] \in Events
      /\ [Blank(c) EXCEPT !.ts = t].by = Home[c] /\ [Blank(c) EXCEPT !.ts = t].late = "no"
  BY AuditAssumption DEF Timestamps, Blank, Events
<1>4. TypeOK'
  BY <1>1, <1>2, <1>3 DEF Inv, TypeOK
<1>5. \A d \in Callers : pc'[d] \in {"read", "save"} => pc'[d] = pc[d] /\ event'[d] = event[d]
  BY <1>1, <1>2 DEF Inv, TypeOK
<1>6. Held' /\ SavesPlaced' /\ Unseen'
  BY <1>2, <1>5 DEF Inv, Held, SavesPlaced, Unseen
<1>7. Marked'
  BY <1>1, <1>2, <1>3 DEF Inv, TypeOK, Marked
<1>8. QED BY <1>2, <1>4, <1>6, <1>7, SameRows

LEMMA EnterInv ==
  ASSUME Inv, NEW c \in Callers, Enter(c)
  PROVE  Inv'
<1>1. /\ pc[c] = "wait" /\ lock[Home[c]] = Free /\ lock' = [lock EXCEPT ![Home[c]] = c]
      /\ pc' = [pc EXCEPT ![c] = "read"]
      /\ UNCHANGED <<rows, pending, clock, event, calls, crashes>>
  BY DEF Enter
<1>2. TypeOK'
  BY <1>1 DEF Inv, TypeOK
<1>3. \A d \in Callers : pc'[d] \in {"read", "save"} => d = c \/ pc'[d] = pc[d]
  BY <1>1 DEF Inv, TypeOK
<1>4. \A d \in Callers : pc'[d] = "save" => pc[d] = "save"
  BY <1>1 DEF Inv, TypeOK
<1>5. Held'
  BY <1>1, <1>3, AuditAssumption DEF Inv, TypeOK, Held
<1>6. SavesPlaced' /\ Unseen' /\ Marked'
  BY <1>1, <1>4 DEF Inv, SavesPlaced, Unseen, Marked
<1>7. QED BY <1>1, <1>2, <1>5, <1>6, SameRows

LEMMA ReadInv ==
  ASSUME Inv, NEW c \in Callers, Read(c)
  PROVE  Inv'
<1>1. PICK i \in {0} \cup DOMAIN rows :
        /\ IF i = 0 THEN rows = <<>> ELSE IsLast(i)
        /\ event' = [event EXCEPT ![c].prev = i, ![c].seen = Len(rows)]
  BY DEF Read
<1>2. /\ pc[c] = "read" /\ pc' = [pc EXCEPT ![c] = "save"]
      /\ UNCHANGED <<rows, pending, clock, lock, calls, crashes>>
  BY DEF Read
<1>3. /\ Len(rows) \in Nat /\ DOMAIN rows = 1..Len(rows) /\ i \in Nat
      /\ event \in [Callers -> Events] /\ event[c] \in Events
      /\ event[c].by = Home[c] /\ event[c].late = "no"
  BY Types DEF Inv, TypeOK, Marked
<1>4. event'[c] = [event[c] EXCEPT !.prev = i, !.seen = Len(rows)]
  BY <1>1, <1>3
<1>5. /\ event'[c] \in Events /\ event'[c].prev = i /\ event'[c].seen = Len(rows)
      /\ event'[c].by = Home[c] /\ event'[c].late = "no"
  BY <1>3, <1>4 DEF Events
<1>6. \A d \in Callers : d # c => event'[d] = event[d] /\ pc'[d] = pc[d]
  BY <1>1, <1>2, <1>3 DEF Inv, TypeOK
<1>7. event' \in [Callers -> Events]
  BY <1>1, <1>3, <1>5, <1>6
<1>8. TypeOK'
  BY <1>2, <1>7 DEF Inv, TypeOK
<1>9. Placed(event'[c], Len(rows), rows)
  <2>1. CASE i = 0
    BY <2>1, <1>1, <1>3, <1>5 DEF Placed
  <2>2. CASE i # 0
    <3>1. i \in 1..Len(rows) /\ \A k \in 1..Len(rows) : rows[k].ts <= rows[i].ts
      BY <2>2, <1>1, <1>3 DEF IsLast
    <3>2. QED BY <2>2, <3>1, <1>3, <1>5 DEF Placed
  <2>3. QED BY <2>1, <2>2
<1>10. SavesPlaced'
  BY <1>2, <1>6, <1>9 DEF Inv, SavesPlaced
<1>11. Unseen'
  BY <1>2, <1>3, <1>5, <1>6 DEF Inv, Unseen
<1>12. Held'
  BY <1>2, <1>6 DEF Inv, Held
<1>13. Marked'
  BY <1>2, <1>5, <1>6 DEF Inv, Marked
<1>14. QED BY <1>2, <1>8, <1>10, <1>11, <1>12, <1>13, SameRows

\* The with block ends without an insert: ReadFails, SaveFails and SaveTimesOut.
LEMMA GiveUpInv ==
  ASSUME Inv, NEW c \in Callers, pc[c] \in {"read", "save"}, Leave(c),
         UNCHANGED <<rows, clock, calls, crashes>>,
         pending' = pending \/ (pc[c] = "save" /\ pending' = pending \cup {Abandoned(c)})
  PROVE  Inv'
<1>1. \A e \in pending' : \/ e \in pending
                          \/ pc[c] = "save" /\ e = Abandoned(c)
  OBVIOUS
<1>2. \A e \in pending' : e \in Events /\ e.late = "yes" /\ Placed(e, Len(rows), rows)
  BY <1>1, Types, AbandonedPlaced DEF Inv, TypeOK, Marked, SavesPlaced
<1>3. TypeOK' /\ Held' /\ Marked'
  BY <1>2, LeaveKeeps DEF Inv, TypeOK, Marked
<1>4. SavesPlaced' /\ Unseen'
  BY <1>2, LeaveKeeps DEF Inv, SavesPlaced, Unseen
<1>5. QED BY <1>3, <1>4, SameRows

LEMMA SaveInv ==
  ASSUME Inv, NEW c \in Callers, Save(c)
  PROVE  Inv'
<1>1. /\ pc[c] = "save" /\ rows' = Append(rows, event[c]) /\ Leave(c)
      /\ UNCHANGED <<pending, clock, calls, crashes>>
  BY DEF Save
<1>2. /\ event[c] \in Events /\ event[c].by = Home[c] /\ event[c].late = "no"
      /\ Placed(event[c], Len(rows), rows)
      /\ \A k \in DOMAIN rows : k > event[c].seen => rows[k].by # Home[c] \/ rows[k].late = "yes"
  BY <1>1, Types DEF Inv, Marked, SavesPlaced, Unseen
<1>3. /\ rows' \in Seq(Events) /\ \A i \in DOMAIN rows' : rows'[i].prev < i
      /\ RowsPlaced' /\ LockSerialises'
      /\ \A e \in Events : Placed(e, Len(rows), rows) => Placed(e, Len(rows'), rows')
  BY <1>1, <1>2, Committed
<1>4. TypeOK' /\ Held' /\ Marked'
  BY <1>1, <1>3, LeaveKeeps DEF Inv, TypeOK, Marked
<1>5. SavesPlaced'
  BY <1>1, <1>3, LeaveKeeps, Types DEF Inv, TypeOK, SavesPlaced
<1>6. Unseen'
  <2> SUFFICES ASSUME NEW d \in Callers, pc'[d] = "save", NEW k \in DOMAIN rows',
                      k > event'[d].seen
               PROVE  rows'[k].by # Home[d] \/ rows'[k].late = "yes"
    BY DEF Unseen
  <2>1. pc[d] = "save" /\ event'[d] = event[d] /\ Home[d] # Home[c]
    BY <1>1, LeaveKeeps
  <2>2. \/ k \in DOMAIN rows /\ rows'[k] = rows[k]
        \/ rows'[k] = event[c]
    BY <1>1, <1>2, Types DEF Inv
  <2>3. QED BY <2>1, <2>2, <1>2 DEF Inv, Unseen
<1>7. QED BY <1>3, <1>4, <1>5, <1>6 DEF Inv

LEMMA LateInv ==
  ASSUME Inv, NEW e \in pending, LateCommit(e)
  PROVE  Inv'
<1>1. /\ pending' = pending \ {e} /\ UNCHANGED <<clock, lock, pc, event, calls, crashes>>
      /\ rows' = rows \/ rows' = Append(rows, e)
  BY DEF LateCommit
<1>2. e \in Events /\ e.late = "yes" /\ Placed(e, Len(rows), rows)
  BY DEF Inv, TypeOK, Marked, SavesPlaced
<1>3. Held' /\ Marked'
  BY <1>1 DEF Inv, Held, Marked
<1>4. CASE rows' = rows
  <2>1. TypeOK' /\ SavesPlaced' /\ Unseen'
    BY <1>1, <1>4 DEF Inv, TypeOK, SavesPlaced, Unseen
  <2>2. QED BY <1>3, <1>4, <2>1, SameRows
<1>5. CASE rows' = Append(rows, e)
  <2>1. /\ rows' \in Seq(Events) /\ \A i \in DOMAIN rows' : rows'[i].prev < i
        /\ RowsPlaced' /\ LockSerialises'
        /\ \A f \in Events : Placed(f, Len(rows), rows) => Placed(f, Len(rows'), rows')
    BY <1>2, <1>5, Committed
  <2>2. TypeOK'
    BY <1>1, <2>1 DEF Inv, TypeOK
  <2>3. SavesPlaced'
    BY <1>1, <2>1, Types DEF Inv, TypeOK, SavesPlaced
  <2>4. \A k \in DOMAIN rows' : \/ k \in DOMAIN rows /\ rows'[k] = rows[k]
                                \/ rows'[k] = e
    BY <1>2, <1>5, Types DEF Inv
  <2>5. Unseen'
    BY <1>1, <1>2, <2>4 DEF Inv, Unseen
  <2>6. QED BY <1>3, <2>1, <2>2, <2>3, <2>5 DEF Inv
<1>6. QED BY <1>1, <1>4, <1>5

LEMMA CrashInv ==
  ASSUME Inv, NEW p \in Processes, Crash(p)
  PROVE  Inv'
<1>1. /\ crashes' = crashes + 1 /\ UNCHANGED <<rows, clock, calls>>
      /\ lock' = [lock EXCEPT ![p] = Free]
      /\ pc' = [c \in Callers |-> IF Home[c] = p THEN "idle" ELSE pc[c]]
      /\ event' = [c \in Callers |-> IF Home[c] = p THEN Blank(c) ELSE event[c]]
  BY DEF Crash
<1>2. \A e \in pending' : \/ e \in pending
                          \/ \E c \in Callers : pc[c] = "save" /\ e = Abandoned(c)
  BY DEF Crash
<1>3. \A e \in pending' : e \in Events /\ e.late = "yes" /\ Placed(e, Len(rows), rows)
  BY <1>2, Types, AbandonedPlaced DEF Inv, TypeOK, Marked, SavesPlaced
<1>4. event' \in [Callers -> Events]
  BY <1>1, Types DEF Inv
<1>5. TypeOK'
  BY <1>1, <1>3, <1>4 DEF Inv, TypeOK
<1>6. \A d \in Callers : pc'[d] \in {"read", "save"} =>
        pc'[d] = pc[d] /\ event'[d] = event[d] /\ Home[d] # p
  BY <1>1
<1>7. Held'
  BY <1>1, <1>6 DEF Inv, TypeOK, Held
<1>8. Marked'
  BY <1>1, <1>3, Types DEF Inv, Marked
<1>9. SavesPlaced' /\ Unseen'
  BY <1>1, <1>3, <1>6 DEF Inv, SavesPlaced, Unseen
<1>10. QED BY <1>1, <1>5, <1>7, <1>8, <1>9, SameRows

LEMMA StepInv == Inv /\ [Next]_vars => Inv'
<1> SUFFICES ASSUME Inv, [Next]_vars PROVE Inv'
  OBVIOUS
<1>1. ASSUME NEW c \in Callers, Proceed(c) PROVE Inv'
  <2>1. CASE Read(c)
    BY <2>1, ReadInv
  <2>2. CASE ReadFails(c)
    BY <2>2, GiveUpInv DEF ReadFails
  <2>3. CASE Save(c)
    BY <2>3, SaveInv
  <2>4. CASE SaveFails(c)
    BY <2>4, GiveUpInv DEF SaveFails
  <2>5. CASE SaveTimesOut(c)
    BY <2>5, GiveUpInv DEF SaveTimesOut
  <2>6. QED BY <1>1, <2>1, <2>2, <2>3, <2>4, <2>5 DEF Proceed
<1>2. CASE UNCHANGED vars
  <2>1. TypeOK' /\ Held' /\ Marked' /\ SavesPlaced' /\ Unseen' /\ UNCHANGED rows
    BY <1>2 DEF vars, Inv, TypeOK, Held, Marked, SavesPlaced, Unseen
  <2>2. QED BY <2>1, SameRows
<1>3. QED BY <1>1, <1>2, StartInv, EnterInv, LateInv, CrashInv DEF Next

-----------------------------------------------------------------------------
\* The inductive invariant holds in every reachable state.
THEOREM InvHolds == Spec => []Inv
BY InitInv, StepInv, PTL DEF Spec

\* The types, for any number of AuditServices and threads.
THEOREM TypeCorrect == Spec => []TypeOK
<1>1. Inv => TypeOK
  BY DEF Inv
<1>2. QED BY <1>1, InvHolds, PTL

\* append_event's lock serialises the appends of its process: the one committed
\* second has seen the first, unless one of them was abandoned.
THEOREM Serialised == Spec => []LockSerialises
<1>1. Inv => LockSerialises
  BY DEF Inv
<1>2. QED BY <1>1, InvHolds, PTL

\* Every fork of the chain has one of the three causes that append_event leaves open.
THEOREM ForksExplained == Spec => []ForkIsExplained
<1>1. Inv => ForkIsExplained
  <2> SUFFICES ASSUME Inv, NEW i \in DOMAIN rows, NEW j \in DOMAIN rows, i < j,
                      rows[i].prev = rows[j].prev, rows[i].late # "yes", rows[j].late # "yes",
                      ~ (rows[i].by # rows[j].by /\ rows[j].seen < i)
               PROVE  Backdated(i)
    BY DEF ForkIsExplained
  <2>1. /\ rows \in Seq(Events) /\ DOMAIN rows = 1..Len(rows) /\ Len(rows) \in Nat
        /\ i \in Nat /\ rows[i] \in Events /\ rows[j] \in Events
    BY Types DEF Inv
  <2>2. rows[j].seen \in Nat /\ rows[i].late = "no" /\ rows[j].late = "no"
    BY <2>1 DEF Events
  <2>3. rows[j].seen >= i
    BY <2>1, <2>2 DEF Inv, LockSerialises
  <2>4. Placed(rows[j], j - 1, rows)
    BY DEF Inv, RowsPlaced
  <2>5. i \in 1..rows[j].seen /\ rows[j].prev # 0
    BY <2>1, <2>2, <2>3, <2>4 DEF Placed
  <2>6. QED BY <2>4, <2>5 DEF Placed, Backdated
<1>2. QED BY <1>1, InvHolds, PTL

=============================================================================
