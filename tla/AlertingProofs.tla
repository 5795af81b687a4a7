--------------------------- MODULE AlertingProofs ---------------------------
(***************************************************************************)
(* Safety of the alert engine on the alerts of one fingerprint, for any    *)
(* number of callers, alerts, operations and failures.                     *)
(***************************************************************************)
EXTENDS Alerting, FiniteSetTheorems, TLAPS

\* The copies that somebody may still save.
Pending == late \cup UNION {batch[c] : c \in Actors}

\* Ids are given out in order, and nothing is stored or saved for one before that.
Numbered ==
  /\ \A i \in Ids : i > used => rows[i] = Blank(i)
  /\ \A a \in Pending : a.id <= used

\* A copy of an alert as it is takes neither an escalation nor an acknowledgement back.
Loaded(a) ==
  /\ a.base <= rows[a.id].ver
  /\ (a.base = rows[a.id].ver /\ rows[a.id].status # "NONE") =>
       /\ a.level >= rows[a.id].level
       /\ a.status = "ACTIVE" => rows[a.id].status = "ACTIVE"

AllLoaded == \A a \in Pending : Loaded(a)

\* As long as nothing was disturbed one actor at most has something to save, with one
\* copy of an alert,
Single ==
  orderly =>
    /\ late = {}
    /\ \A c, d \in Actors : batch[c] # {} /\ batch[d] # {} => c = d
    /\ \A c \in Actors : \A a, b \in batch[c] : a.id = b.id => a = b

\* the open alerts, stored or about to be, are one,
OneOpen ==
  orderly =>
    /\ \A i, j \in Ids : rows[i].status \in Open /\ rows[j].status \in Open => i = j
    /\ \A c \in Actors : \A a \in batch[c] : a.status \in Open =>
         /\ \A i \in Ids : rows[i].status \in Open => i = a.id
         /\ \A b \in batch[c] : b.status \in Open => b.id = a.id

\* and an alert that was seen again is, or is about to be, no longer marked clear.
Quiet ==
  orderly =>
    /\ \A i \in reported : rows[i].status # "AUTO_RESOLVED"
    /\ \A c \in Actors : \A a \in batch[c] :
         a.status = "AUTO_RESOLVED" \/ a.cleared => a.id \notin reported
    /\ \A i \in reported : rows[i].cleared =>
         \E c \in Actors : \E a \in batch[c] : a.id = i /\ ~a.cleared

AInv == TypeOK /\ Numbered /\ AllLoaded /\ Single /\ OneOpen /\ Quiet

-----------------------------------------------------------------------------
\* What an operation reads of an alert.
IsCopy(k, i) ==
  /\ k \in Alerts /\ k.id = i /\ k.status = rows[i].status /\ k.cleared = rows[i].cleared
  /\ k.level = rows[i].level /\ k.base = rows[i].ver

LEMMA CopyOf ==
  ASSUME TypeOK, NEW i \in Ids,
         NEW op \in {"raise", "ack", "resolve", "clear", "comment", "escalate", "auto"}
  PROVE  IsCopy(Copy(i, op), i)
<1> DEFINE r == rows[i]
           k == [r EXCEPT !.base = r.ver]
<1>1. r \in Alerts /\ r.id = i /\ r.ver \in Nat
  BY DEF TypeOK, Alerts
<1>2. Copy(i, op) = [k EXCEPT !.op = op]
  BY DEF Copy
<1> HIDE DEF r
<1>3. /\ k \in Alerts /\ k.id = i /\ k.status = r.status /\ k.cleared = r.cleared
      /\ k.level = r.level /\ k.base = r.ver
  BY <1>1 DEF Alerts
<1> HIDE DEF k
<1> QED
  BY <1>2, <1>3 DEF IsCopy, Alerts, r

\* Nothing was disturbed so far and nobody has anything to save.
Calm == orderly /\ \A d \in Actors : batch[d] = {}

\* What the operations that read and then save have in common.
Loads(c, copies, still) ==
  /\ Start(c, copies, still)
  /\ copies \subseteq {a \in Alerts : a.status # "NONE"}
  /\ used' \in used..MaxAlerts /\ calls' \in Nat /\ reported' \subseteq Ids
  /\ \A a \in copies : a.id <= used' /\ Loaded(a)
  /\ \A a, b \in copies : a.id = b.id => a = b
  /\ (Calm /\ still) =>
       /\ \A a \in copies : a.status \in Open =>
            /\ \A i \in Ids : rows[i].status \in Open => i = a.id
            /\ \A b \in copies : b.status \in Open => b.id = a.id
       /\ \A i \in reported' : rows[i].status # "AUTO_RESOLVED"
       /\ \A a \in copies : a.status = "AUTO_RESOLVED" \/ a.cleared => a.id \notin reported'
       /\ \A i \in reported' : rows[i].cleared => \E a \in copies : a.id = i /\ ~a.cleared

LEMMA LoadsStep ==
  ASSUME AInv, NEW c \in Actors, NEW copies, NEW still \in BOOLEAN, Loads(c, copies, still)
  PROVE  AInv'
<1>1. TypeOK /\ Numbered /\ AllLoaded /\ Single /\ OneOpen /\ Quiet
  BY DEF AInv
<1>2. /\ batch' = [batch EXCEPT ![c] = copies] /\ batch[c] = {}
      /\ UNCHANGED <<rows, others, due, dwelled, late, faults>>
      /\ orderly' = (orderly /\ still /\ \A d \in Actors : batch[d] = {})
  BY DEF Loads, Start
<1>3. /\ batch'[c] = copies
      /\ \A d \in Actors : d # c => batch'[d] = batch[d]
  BY <1>1, <1>2 DEF TypeOK
<1>4. orderly' => Calm /\ still
  BY <1>2 DEF Calm
<1>5. TypeOK'
  <2>1. orderly' \in BOOLEAN
    BY <1>2
  <2>2. used' \in 0..MaxAlerts /\ calls' \in Nat /\ reported' \subseteq Ids
    BY <1>1 DEF Loads, TypeOK
  <2>3. batch' \in [Actors -> SUBSET {a \in Alerts : a.status # "NONE"}]
    BY <1>1, <1>2 DEF Loads, TypeOK
  <2> QED
    BY <1>1, <1>2, <2>1, <2>2, <2>3 DEF TypeOK
<1>6. \A a \in Pending' : a \in Pending \/ a \in copies
  BY <1>2, <1>3 DEF Pending
<1>7. Numbered'
  <2>1. used' \in Nat /\ used \in Nat /\ used <= used' /\ \A a \in copies : a.id <= used'
    BY <1>1 DEF Loads, TypeOK
  <2>2. \A a \in Pending : a.id \in Nat
    BY <1>1 DEF TypeOK, Pending, Alerts, Ids
  <2>3. \A a \in Pending' : a.id <= used'
    BY <1>1, <1>6, <2>1, <2>2 DEF Numbered
  <2>4. \A i \in Ids : i > used' => rows'[i] = Blank(i)
    BY <1>1, <1>2, <2>1 DEF Numbered, Ids
  <2> QED
    BY <2>3, <2>4 DEF Numbered, Blank
<1>8. AllLoaded'
  <2>1. \A a : Loaded(a)' <=> Loaded(a)
    BY <1>2 DEF Loaded
  <2> QED
    BY <1>1, <1>6, <2>1 DEF AllLoaded, Loads
<1>9. Single'
  BY <1>1, <1>2, <1>3, <1>4 DEF Single, Calm, Loads
<1>10. OneOpen'
  BY <1>1, <1>2, <1>3, <1>4 DEF OneOpen, Calm, Loads
<1>11. Quiet'
  BY <1>1, <1>2, <1>3, <1>4 DEF Quiet, Calm, Loads
<1> QED
  BY <1>5, <1>7, <1>8, <1>9, <1>10, <1>11 DEF AInv

-----------------------------------------------------------------------------
\* A copy of a stored alert as it is was loaded, and its id was given out.
LEMMA ReadsStored ==
  ASSUME AInv, NEW i \in Stored
  PROVE  /\ i \in Ids /\ i <= used /\ used \in Nat /\ rows[i] \in Alerts
         /\ rows[i].status # "NONE" /\ rows[i].level \in Nat /\ rows[i].ver \in Nat
         /\ Calm /\ rows[i].status = "AUTO_RESOLVED" => i \notin reported
         /\ Calm /\ rows[i].cleared => i \notin reported
<1>1. i \in Ids /\ rows[i].status # "NONE" /\ used \in Nat /\ rows[i] \in Alerts
  BY DEF Stored, AInv, TypeOK
<1>2. i <= used
  <2>1. Blank(i).status = "NONE"
    BY DEF Blank
  <2>2. ~(i > used)
    BY <1>1, <2>1 DEF AInv, Numbered
  <2> QED
    BY <1>1, <2>2 DEF Ids
<1>3. rows[i].level \in Nat /\ rows[i].ver \in Nat
  BY <1>1 DEF Alerts
<1>4. /\ Calm /\ rows[i].status = "AUTO_RESOLVED" => i \notin reported
      /\ Calm /\ rows[i].cleared => i \notin reported
  BY DEF AInv, Quiet, Calm
<1> QED
  BY <1>1, <1>2, <1>3, <1>4

\* An operation on one stored alert, by what it makes of it and of the reports.
LEMMA ReadsOne ==
  ASSUME AInv, NEW c \in Callers, NEW i \in Stored, NEW a \in Alerts, NEW still \in BOOLEAN,
         Start(c, {a}, still), Call, UNCHANGED used,
         a.id = i, a.base = rows[i].ver, a.level = rows[i].level, a.status # "NONE",
         a.status = "ACTIVE" => rows[i].status = "ACTIVE",
         still /\ a.status \in Open => rows[i].status \in Open,
         reported' \subseteq reported \cup {i},
         Calm /\ i \in reported' =>
           /\ a.status # "AUTO_RESOLVED" /\ rows[i].status # "AUTO_RESOLVED" /\ ~a.cleared
  PROVE  AInv'
<1>1. /\ i \in Ids /\ i <= used /\ used \in Nat /\ rows[i] \in Alerts
      /\ rows[i].status # "NONE" /\ rows[i].level \in Nat /\ rows[i].ver \in Nat
  BY ReadsStored
<1>2. TypeOK /\ OneOpen /\ Quiet
  BY DEF AInv
<1>3. used' \in used..MaxAlerts /\ calls' \in Nat /\ reported' \subseteq Ids
  BY <1>1, <1>2 DEF Call, TypeOK
<1>4. Loaded(a)
  BY <1>1 DEF Loaded
<1>5. ASSUME Calm, still
      PROVE  /\ a.status \in Open => \A j \in Ids : rows[j].status \in Open => j = a.id
             /\ \A j \in reported' : rows[j].status # "AUTO_RESOLVED"
             /\ a.status = "AUTO_RESOLVED" \/ a.cleared => a.id \notin reported'
             /\ \A j \in reported' : rows[j].cleared => a.id = j /\ ~a.cleared
  BY <1>1, <1>2, <1>5 DEF OneOpen, Quiet, Calm
<1>6. Loads(c, {a}, still)
  BY <1>1, <1>3, <1>4, <1>5 DEF Loads
<1> QED
  BY <1>6, LoadsStep DEF Actors

\* The operations of the callers.
LEMMA RaiseAgainStep == ASSUME AInv, NEW c \in Callers, RaiseAgain(c) PROVE AInv'
<1>1. PICK i \in Stored :
        /\ rows[i].status \in Open
        /\ Start(c, {[Copy(i, "raise") EXCEPT !.cleared = FALSE]}, TRUE)
        /\ reported' = reported \cup {i} /\ UNCHANGED used
  BY DEF RaiseAgain
<1> DEFINE k == Copy(i, "raise")
           a == [k EXCEPT !.cleared = FALSE]
<1>2. Start(c, {a}, TRUE) /\ Call
  BY <1>1 DEF RaiseAgain
<1>3. TypeOK /\ i \in Ids
  BY DEF AInv, Stored
<1>4. IsCopy(k, i)
  BY <1>3, CopyOf
<1> HIDE DEF k
<1>5. /\ a \in Alerts /\ a.id = i /\ a.status = rows[i].status /\ a.cleared = FALSE
      /\ a.level = rows[i].level /\ a.base = rows[i].ver
  BY <1>4 DEF IsCopy, Alerts
<1> HIDE DEF a
<1> QED
  BY <1>1, <1>2, <1>5, ReadsOne DEF Open

LEMMA RaiseNewStep == ASSUME AInv, NEW c \in Callers, RaiseNew(c) PROVE AInv'
<1>1. PICK s \in {"WARNING", "CRITICAL"} :
        Start(c, {[Blank(used + 1) EXCEPT !.status = "ACTIVE", !.severity = s]}, TRUE)
  BY DEF RaiseNew
<1> DEFINE i == used + 1
           a == [Blank(i) EXCEPT !.status = "ACTIVE", !.severity = s]
<1>2. TypeOK /\ Numbered /\ OneOpen /\ Quiet
  BY DEF AInv
<1>3. i \in Ids /\ i \in used..MaxAlerts /\ MaxAlerts \in Nat /\ used < i
  BY <1>2, AlertingAssumption DEF RaiseNew, TypeOK, Ids
<1>4. rows[i] = Blank(i)
  BY <1>2, <1>3 DEF Numbered, Ids, TypeOK
<1>5. rows[i].status = "NONE" /\ rows[i].cleared = FALSE /\ rows[i].ver = 0
  BY <1>4 DEF Blank
<1>6. /\ a \in Alerts /\ a.id = i /\ a.status = "ACTIVE" /\ a.cleared = FALSE /\ a.base = 0
  BY <1>3 DEF Blank, Alerts, Open, Closed
<1>7. /\ Start(c, {a}, TRUE) /\ Call /\ used' = i /\ reported' = reported \cup {i}
      /\ \A j \in Ids : rows[j].status \notin Open
  BY <1>1 DEF RaiseNew, Stored, Open
<1> HIDE DEF a, i
<1>8. Loaded(a)
  BY <1>5, <1>6 DEF Loaded
<1>9. used' \in used..MaxAlerts /\ calls' \in Nat /\ reported' \subseteq Ids /\ a.id <= used'
  BY <1>2, <1>3, <1>6, <1>7 DEF Call, TypeOK
<1>10. ASSUME Calm
       PROVE  /\ \A j \in reported' : rows[j].status # "AUTO_RESOLVED"
              /\ \A j \in reported' : ~rows[j].cleared
  BY <1>2, <1>5, <1>7, <1>10 DEF Quiet, Calm
<1>11. Loads(c, {a}, TRUE)
  BY <1>6, <1>7, <1>8, <1>9, <1>10 DEF Loads
<1> QED
  BY <1>11, LoadsStep DEF Actors

LEMMA CallerStep ==
  ASSUME AInv, NEW c \in Callers, NEW i \in Ids,
         Acknowledge(c, i) \/ Resolve(c, i) \/ Comment(c, i) \/ ConditionCleared(c, i)
  PROVE  AInv'
<1>1. TypeOK /\ i \in Stored /\ Call /\ UNCHANGED used
  BY DEF AInv, Acknowledge, Resolve, Comment, ConditionCleared, Update
<1>2. /\ rows[i] \in Alerts /\ rows[i].status # "NONE"
      /\ Calm /\ rows[i].status = "AUTO_RESOLVED" => i \notin reported
      /\ Calm /\ rows[i].cleared => i \notin reported
  BY <1>1, ReadsStored
<1>3. CASE Acknowledge(c, i)
  <2> DEFINE k == Copy(i, "ack")
             a == [k EXCEPT !.status = "ACKNOWLEDGED"]
             still == rows[i].status \in Open
  <2>1. Start(c, {a}, still) /\ reported' = reported
    BY <1>3 DEF Acknowledge, Update
  <2>2. IsCopy(k, i)
    BY <1>1, CopyOf
  <2> HIDE DEF k
  <2>3. /\ a \in Alerts /\ a.id = i /\ a.status = "ACKNOWLEDGED" /\ a.cleared = rows[i].cleared
        /\ a.level = rows[i].level /\ a.base = rows[i].ver
    BY <2>2 DEF IsCopy, Alerts, Open
  <2>4. still \in BOOLEAN /\ (still => rows[i].status \in Open)
    OBVIOUS
  <2> HIDE DEF a, still
  <2> QED
    BY <1>1, <1>2, <2>1, <2>3, <2>4, ReadsOne
<1>4. CASE Resolve(c, i)
  <2> DEFINE k == Copy(i, "resolve")
             a == [k EXCEPT !.status = "RESOLVED"]
  <2>1. Start(c, {a}, TRUE) /\ reported' = reported
    BY <1>4 DEF Resolve, Update
  <2>2. IsCopy(k, i)
    BY <1>1, CopyOf
  <2> HIDE DEF k
  <2>3. /\ a \in Alerts /\ a.id = i /\ a.status = "RESOLVED" /\ a.cleared = rows[i].cleared
        /\ a.level = rows[i].level /\ a.base = rows[i].ver
    BY <2>2 DEF IsCopy, Alerts, Closed
  <2> HIDE DEF a
  <2> QED
    BY <1>1, <1>2, <2>1, <2>3, ReadsOne DEF Open
<1>5. CASE Comment(c, i)
  <2> DEFINE k == Copy(i, "comment")
             a == k
  <2>1. Start(c, {a}, TRUE) /\ reported' = reported
    BY <1>5 DEF Comment, Update
  <2>2. IsCopy(k, i)
    BY <1>1, CopyOf
  <2> HIDE DEF k
  <2>3. /\ a \in Alerts /\ a.id = i /\ a.status = rows[i].status /\ a.cleared = rows[i].cleared
        /\ a.level = rows[i].level /\ a.base = rows[i].ver
    BY <2>2 DEF IsCopy, Alerts
  <2> HIDE DEF a
  <2> QED
    BY <1>1, <1>2, <2>1, <2>3, ReadsOne
<1>6. CASE ConditionCleared(c, i)
  <2> DEFINE k == Copy(i, "clear")
             a == [k EXCEPT !.cleared = TRUE]
  <2>1. Start(c, {a}, TRUE) /\ reported' = reported \ {i}
    BY <1>6 DEF ConditionCleared
  <2>2. IsCopy(k, i)
    BY <1>1, CopyOf
  <2> HIDE DEF k
  <2>3. /\ a \in Alerts /\ a.id = i /\ a.status = rows[i].status
        /\ a.level = rows[i].level /\ a.base = rows[i].ver
    BY <2>2 DEF IsCopy, Alerts
  <2> HIDE DEF a
  <2> QED
    BY <1>1, <1>2, <2>1, <2>3, ReadsOne
<1> QED
  BY <1>3, <1>4, <1>5, <1>6

\* The evaluations, scheduled or by a route.
LEMMA EscalateStep ==
  ASSUME AInv, NEW c \in Actors, NEW old, Sweep(c, Escalated(old)), calls' \in Nat
  PROVE  AInv'
<1>h1. TypeOK /\ OneOpen /\ Quiet
  BY DEF AInv
<1>h2. UNCHANGED <<used, reported>>
  BY DEF Sweep
<1>h3. used' \in used..MaxAlerts /\ calls' \in Nat /\ reported' \subseteq Ids
  BY <1>h1, <1>h2, AlertingAssumption DEF TypeOK
<1> DEFINE esc(i) == [Copy(i, "escalate") EXCEPT !.level = @ + 1]
           S == {j \in old \cap Listed : Overdue(j)}
           copies == {esc(i) : i \in S}
<1>1. Start(c, copies, TRUE)
  BY DEF Sweep, Escalated
<1>2. ASSUME NEW i \in S
      PROVE  /\ i \in Stored /\ i <= used /\ i \in Ids /\ rows[i].status = "ACTIVE"
             /\ rows[i].level \in Nat /\ rows[i].ver \in Nat
             /\ Calm /\ rows[i].cleared => i \notin reported
             /\ esc(i) \in Alerts /\ esc(i).id = i /\ esc(i).status = "ACTIVE"
             /\ esc(i).cleared = rows[i].cleared
             /\ esc(i).level = rows[i].level + 1 /\ esc(i).base = rows[i].ver
  <2>1. i \in Ids /\ rows[i].status = "ACTIVE"
    BY DEF Overdue, Listed, Stored
  <2>2. i \in Stored
    BY DEF Listed
  <2> DEFINE k == Copy(i, "escalate")
             a == [k EXCEPT !.level = @ + 1]
  <2>3. IsCopy(k, i) /\ esc(i) = a
    BY <1>h1, <2>1, CopyOf
  <2> HIDE DEF k, esc
  <2>4. /\ a \in Alerts /\ a.id = i /\ a.status = rows[i].status
        /\ a.cleared = rows[i].cleared /\ a.level = rows[i].level + 1 /\ a.base = rows[i].ver
    BY <2>3 DEF IsCopy, Alerts
  <2> HIDE DEF a
  <2> QED
    BY <2>1, <2>2, <2>3, <2>4, ReadsStored
<1> HIDE DEF esc, S
<1>3. \A i \in S : esc(i).id <= used' /\ Loaded(esc(i))
  BY <1>h2, <1>2 DEF Loaded
<1>4. \A a \in copies : a \in Alerts /\ a.status = "ACTIVE" /\ a.id \in S /\ a = esc(a.id)
  BY <1>2
<1>5. ASSUME Calm
      PROVE  /\ \A i \in S : \A j \in Ids : rows[j].status \in Open => j = i
             /\ \A i \in S : esc(i).cleared => i \notin reported'
             /\ \A i \in reported' : rows[i].status # "AUTO_RESOLVED" /\ ~rows[i].cleared
  BY <1>h1, <1>h2, <1>2, <1>5 DEF OneOpen, Quiet, Calm, Open
<1> HIDE DEF copies
<1>6. \A a \in copies : a.status \in Open
  BY <1>4 DEF Open
<1>7. ASSUME Calm
      PROVE  /\ \A a \in copies : \A j \in Ids : rows[j].status \in Open => j = a.id
             /\ \A a, b \in copies : b.id = a.id
             /\ \A a \in copies : a.cleared => a.id \notin reported'
  BY <1>2, <1>4, <1>5, <1>7 DEF Open
<1>8. Loads(c, copies, TRUE)
  BY <1>h3, <1>1, <1>3, <1>4, <1>5, <1>7 DEF Loads
<1> QED
  BY <1>8, LoadsStep

LEMMA AutoResolveStep ==
  ASSUME AInv, NEW c \in Actors, Sweep(c, AutoResolved), calls' \in Nat
  PROVE  AInv'
<1>h1. TypeOK /\ OneOpen /\ Quiet
  BY DEF AInv
<1>h2. UNCHANGED <<used, reported>>
  BY DEF Sweep
<1>h3. used' \in used..MaxAlerts /\ calls' \in Nat /\ reported' \subseteq Ids
  BY <1>h1, <1>h2, AlertingAssumption DEF TypeOK
<1> DEFINE res(i) == [Copy(i, "auto") EXCEPT !.status = "AUTO_RESOLVED"]
           S == {j \in dwelled \cap Listed : Eligible(j)}
           copies == {res(i) : i \in S}
<1>1. Start(c, copies, TRUE)
  BY DEF Sweep, AutoResolved
<1>2. ASSUME NEW i \in S
      PROVE  /\ i \in Stored /\ i <= used /\ i \in Ids
             /\ rows[i].level \in Nat /\ rows[i].ver \in Nat
             /\ Calm => i \notin reported
             /\ res(i) \in Alerts /\ res(i).id = i /\ res(i).status = "AUTO_RESOLVED"
             /\ res(i).level = rows[i].level /\ res(i).base = rows[i].ver
  <2>1. i \in Ids /\ rows[i].status \in Open /\ rows[i].cleared
    BY DEF Eligible, Listed, Stored
  <2>2. i \in Stored
    BY DEF Listed
  <2> DEFINE k == Copy(i, "auto")
             a == [k EXCEPT !.status = "AUTO_RESOLVED"]
  <2>3. IsCopy(k, i) /\ res(i) = a
    BY <1>h1, <2>1, CopyOf
  <2> HIDE DEF k, res
  <2>4. /\ a \in Alerts /\ a.id = i /\ a.status = "AUTO_RESOLVED"
        /\ a.level = rows[i].level /\ a.base = rows[i].ver
    BY <2>3 DEF IsCopy, Alerts, Closed
  <2> HIDE DEF a
  <2> QED
    BY <2>1, <2>2, <2>3, <2>4, ReadsStored
<1> HIDE DEF res, S
<1>3. \A i \in S : res(i).id <= used' /\ Loaded(res(i))
  BY <1>h2, <1>2 DEF Loaded
<1>4. \A a \in copies : /\ a \in Alerts /\ a.status = "AUTO_RESOLVED"
                        /\ a.id \in S /\ a = res(a.id)
  BY <1>2
<1>5. ASSUME Calm
      PROVE  /\ \A i \in S : i \notin reported'
             /\ \A i \in reported' : rows[i].status # "AUTO_RESOLVED" /\ ~rows[i].cleared
  BY <1>h1, <1>h2, <1>2, <1>5 DEF Quiet, Calm
<1> HIDE DEF copies
<1>6. \A a \in copies : a.status \notin Open /\ a.status # "NONE"
  BY <1>4 DEF Open
<1>7. Loads(c, copies, TRUE)
  BY <1>h3, <1>1, <1>3, <1>4, <1>5, <1>6 DEF Loads
<1> QED
  BY <1>7, LoadsStep

LEMMA SweepStep ==
  ASSUME AInv,
         \/ EvaluateEscalations \/ EvaluateAutoResolutions
         \/ \E c \in Callers : EscalateNow(c) \/ AutoResolveNow(c)
  PROVE  AInv'
<1>1. calls \in Nat /\ (UNCHANGED calls \/ calls' = calls + 1)
  BY DEF AInv, TypeOK, EvaluateEscalations, EvaluateAutoResolutions, EscalateNow,
         AutoResolveNow, Call
<1>2. calls' \in Nat
  BY <1>1
<1>3. CASE EvaluateEscalations
  BY <1>2, <1>3, EscalateStep DEF EvaluateEscalations, Actors
<1>4. CASE EvaluateAutoResolutions
  BY <1>2, <1>4, AutoResolveStep DEF EvaluateAutoResolutions, Actors
<1>5. ASSUME NEW c \in Callers, EscalateNow(c) PROVE AInv'
  BY <1>2, <1>5, EscalateStep DEF EscalateNow, Actors
<1>6. ASSUME NEW c \in Callers, AutoResolveNow(c) PROVE AInv'
  BY <1>2, <1>6, AutoResolveStep DEF AutoResolveNow, Actors
<1> QED
  BY <1>3, <1>4, <1>5, <1>6

\* Another alert takes the next id.
LEMMA RaiseOtherStep == ASSUME AInv, RaiseOther PROVE AInv'
<1>1. /\ used' = used + 1 /\ used < MaxAlerts /\ others' = others \cup {used + 1}
      /\ UNCHANGED <<rows, batch, due, dwelled, late, calls, faults, reported, orderly>>
  BY DEF RaiseOther
<1>2. used \in Nat /\ MaxAlerts \in Nat /\ used + 1 \in Ids
  BY <1>1, AlertingAssumption DEF AInv, TypeOK, Ids
<1>3. TypeOK'
  BY <1>1, <1>2 DEF AInv, TypeOK
<1>4. Pending' = Pending
  BY <1>1 DEF Pending
<1>5. Numbered'
  <2>1. \A a \in Pending : a.id \in Nat
    BY DEF AInv, TypeOK, Pending, Alerts, Ids
  <2>2. \A a \in Pending' : a.id <= used'
    BY <1>1, <1>2, <1>4, <2>1 DEF AInv, Numbered
  <2>3. \A i \in Ids : i > used' => rows'[i] = Blank(i)
    BY <1>1, <1>2 DEF AInv, Numbered, Ids
  <2> QED
    BY <2>2, <2>3 DEF Numbered, Blank
<1>6. AllLoaded' /\ Single' /\ OneOpen' /\ Quiet'
  BY <1>1, <1>4 DEF AInv, AllLoaded, Loaded, Single, OneOpen, Quiet
<1> QED
  BY <1>3, <1>5, <1>6 DEF AInv

-----------------------------------------------------------------------------
\* A save replaces the alert: every copy loaded before is stale now.
LEMMA WriteMakesStale ==
  ASSUME TypeOK, NEW a \in Alerts, Write(a), NEW u \in Alerts, Loaded(u)
  PROVE  Loaded(u)'
<1> DEFINE n == [a EXCEPT !.ver = rows[a.id].ver + 1]
<1>1. rows' = [rows EXCEPT ![a.id] = n] /\ a.id \in Ids /\ u.id \in Ids
  BY DEF Write, Alerts
<1>2. n.ver = rows[a.id].ver + 1 /\ rows[a.id].ver \in Nat /\ u.base \in Nat
  BY <1>1 DEF Alerts, TypeOK
<1> HIDE DEF n
<1>3. CASE u.id = a.id
  BY <1>1, <1>2, <1>3 DEF Loaded, TypeOK
<1>4. CASE u.id # a.id
  BY <1>1, <1>4 DEF Loaded, TypeOK
<1> QED
  BY <1>3, <1>4

\* What a save makes of the alerts.
LEMMA WriteRow ==
  ASSUME TypeOK, NEW a \in Alerts, Write(a)
  PROVE  /\ a.id \in Ids /\ rows'[a.id] \in Alerts /\ rows'[a.id].id = a.id
         /\ rows'[a.id].status = a.status /\ rows'[a.id].cleared = a.cleared
         /\ rows'[a.id].level = a.level /\ rows'[a.id].base = a.base
         /\ \A i \in Ids : i # a.id => rows'[i] = rows[i]
         /\ rows' \in [Ids -> Alerts] /\ (\A i \in Ids : rows'[i].id = i)
         /\ due' \subseteq Ids /\ dwelled' \subseteq Ids
<1> DEFINE n == [a EXCEPT !.ver = rows[a.id].ver + 1]
<1>1. rows' = [rows EXCEPT ![a.id] = n] /\ a.id \in Ids
  BY DEF Write, Alerts
<1>2. rows[a.id].ver \in Nat
  BY <1>1 DEF TypeOK, Alerts
<1>3. /\ n \in Alerts /\ n.id = a.id /\ n.status = a.status /\ n.cleared = a.cleared
      /\ n.level = a.level /\ n.base = a.base
  BY <1>2 DEF Alerts
<1> HIDE DEF n
<1>4. rows'[a.id] = n /\ \A i \in Ids : i # a.id => rows'[i] = rows[i]
  BY <1>1 DEF TypeOK
<1>5. rows' \in [Ids -> Alerts] /\ \A i \in Ids : rows'[i].id = i
  BY <1>1, <1>3, <1>4 DEF TypeOK
<1>6. due' \subseteq Ids /\ dwelled' \subseteq Ids
  BY DEF Write, TypeOK
<1> QED
  BY <1>1, <1>3, <1>4, <1>5, <1>6

LEMMA SaveStep == ASSUME AInv, NEW c \in Actors, Save(c) PROVE AInv'
<1>1. TypeOK /\ Numbered /\ AllLoaded /\ Single /\ OneOpen /\ Quiet
  BY DEF AInv
<1>2. PICK a \in batch[c] :
        /\ Write(a) /\ batch' = [batch EXCEPT ![c] = @ \ {a}]
        /\ UNCHANGED <<used, others, late, calls, faults, reported, orderly>>
  BY DEF Save
<1>3. a \in Alerts /\ a \in Pending /\ Pending \subseteq Alerts
  BY <1>1 DEF TypeOK, Pending
<1>4. /\ a.id \in Ids /\ rows'[a.id] \in Alerts /\ rows'[a.id].id = a.id
      /\ rows'[a.id].status = a.status /\ rows'[a.id].cleared = a.cleared
      /\ \A i \in Ids : i # a.id => rows'[i] = rows[i]
      /\ rows' \in [Ids -> Alerts] /\ (\A i \in Ids : rows'[i].id = i)
      /\ due' \subseteq Ids /\ dwelled' \subseteq Ids
  BY <1>1, <1>2, <1>3, WriteRow
<1>5. /\ batch'[c] = batch[c] \ {a}
      /\ \A d \in Actors : d # c => batch'[d] = batch[d]
  BY <1>1, <1>2 DEF TypeOK
<1>6. TypeOK'
  <2>1. batch' \in [Actors -> SUBSET {b \in Alerts : b.status # "NONE"}]
    BY <1>1, <1>2 DEF TypeOK
  <2> QED
    BY <1>1, <1>2, <1>4, <2>1 DEF TypeOK
<1>7. Pending' \subseteq Pending
  BY <1>2, <1>5 DEF Pending
<1>8. Numbered'
  <2>1. a.id <= used /\ a.id \in Nat /\ used \in Nat
    BY <1>1, <1>3, <1>4 DEF Numbered, Ids, TypeOK
  <2>2. \A i \in Ids : i > used => rows'[i] = Blank(i)
    BY <1>1, <1>4, <2>1 DEF Numbered
  <2>3. \A b \in Pending' : b.id <= used
    BY <1>1, <1>7 DEF Numbered
  <2> QED
    BY <1>2, <2>2, <2>3 DEF Numbered, Blank
<1>9. AllLoaded'
  BY <1>1, <1>2, <1>3, <1>7, WriteMakesStale DEF AllLoaded
<1>10. Single'
  BY <1>1, <1>2, <1>5 DEF Single
<1>11. OneOpen'
  <2> SUFFICES ASSUME orderly PROVE OneOpen'
    BY <1>2 DEF OneOpen
  <2>1. \A d \in Actors : d # c => batch'[d] = {}
    BY <1>1, <1>5 DEF Single
  <2>2. \A i, j \in Ids : rows'[i].status \in Open /\ rows'[j].status \in Open => i = j
    BY <1>1, <1>4 DEF OneOpen
  <2>3. \A b \in batch'[c] : b.status \in Open =>
           /\ \A i \in Ids : rows'[i].status \in Open => i = b.id
           /\ \A e \in batch'[c] : e.status \in Open => e.id = b.id
    BY <1>1, <1>4, <1>5 DEF OneOpen
  <2> QED
    BY <2>1, <2>2, <2>3 DEF OneOpen
<1>12. Quiet'
  <2> SUFFICES ASSUME orderly PROVE Quiet'
    BY <1>2 DEF Quiet
  <2>1. a.status = "AUTO_RESOLVED" \/ a.cleared => a.id \notin reported
    BY <1>1 DEF Quiet
  <2>2. \A i \in reported : i \in Ids
    BY <1>1 DEF TypeOK
  <2>3. \A i \in reported' : rows'[i].status # "AUTO_RESOLVED"
    BY <1>1, <1>2, <1>4, <2>1, <2>2 DEF Quiet
  <2>4. \A d \in Actors : \A b \in batch'[d] :
          b.status = "AUTO_RESOLVED" \/ b.cleared => b.id \notin reported'
    BY <1>1, <1>2, <1>5 DEF Quiet
  <2>5. ASSUME NEW i \in reported', rows'[i].cleared
        PROVE  \E d \in Actors : \E b \in batch'[d] : b.id = i /\ ~b.cleared
    <3>1. i # a.id /\ rows'[i] = rows[i] /\ i \in reported
      BY <1>2, <1>4, <2>1, <2>2, <2>5
    <3>2. PICK d \in Actors : \E b \in batch[d] : b.id = i /\ ~b.cleared
      BY <1>1, <2>5, <3>1 DEF Quiet
    <3>3. PICK b \in batch[d] : b.id = i /\ ~b.cleared
      BY <3>2
    <3>4. b \in batch'[d]
      BY <1>5, <3>1, <3>3
    <3> QED
      BY <3>3, <3>4
  <2> QED
    BY <2>3, <2>4, <2>5 DEF Quiet
<1> QED
  BY <1>6, <1>8, <1>9, <1>10, <1>11, <1>12 DEF AInv

LEMMA SaveFailsStep == ASSUME AInv, NEW c \in Actors, SaveFails(c) PROVE AInv'
<1>1. TypeOK /\ Numbered /\ AllLoaded
  BY DEF AInv
<1>2. /\ orderly' = FALSE /\ faults' = faults + 1 /\ batch' = [batch EXCEPT ![c] = {}]
      /\ UNCHANGED <<rows, used, others, due, dwelled, calls, reported>>
  BY DEF SaveFails
<1>3. PICK a \in batch[c] : late' \in {late, late \cup {a}}
  BY DEF SaveFails
<1>4. /\ batch'[c] = {} /\ \A d \in Actors : d # c => batch'[d] = batch[d]
      /\ a \in Alerts
  BY <1>1, <1>2, <1>3 DEF TypeOK
<1>5. TypeOK'
  <2>1. batch' \in [Actors -> SUBSET {b \in Alerts : b.status # "NONE"}]
    BY <1>1, <1>2 DEF TypeOK
  <2>2. late' \subseteq Alerts /\ faults' \in Nat
    BY <1>1, <1>2, <1>3, <1>4 DEF TypeOK
  <2> QED
    BY <1>1, <1>2, <2>1, <2>2 DEF TypeOK
<1>6. Pending' \subseteq Pending
  BY <1>3, <1>4 DEF Pending
<1>7. Numbered' /\ AllLoaded'
  BY <1>1, <1>2, <1>6 DEF Numbered, AllLoaded, Loaded, Blank
<1>8. Single' /\ OneOpen' /\ Quiet'
  BY <1>2 DEF Single, OneOpen, Quiet
<1> QED
  BY <1>5, <1>7, <1>8 DEF AInv

LEMMA LateSaveStep == ASSUME AInv, LateSave PROVE AInv'
<1>1. TypeOK /\ Numbered /\ AllLoaded /\ Single
  BY DEF AInv
<1>2. PICK a \in late :
        /\ Write(a) /\ late' = late \ {a}
        /\ UNCHANGED <<batch, used, others, calls, faults, reported, orderly>>
  BY DEF LateSave
<1>3. a \in Alerts /\ a \in Pending /\ Pending \subseteq Alerts
  BY <1>1 DEF TypeOK, Pending
<1>4. /\ a.id \in Ids /\ rows' \in [Ids -> Alerts] /\ (\A i \in Ids : rows'[i].id = i)
      /\ \A i \in Ids : i # a.id => rows'[i] = rows[i]
      /\ due' \subseteq Ids /\ dwelled' \subseteq Ids
  BY <1>1, <1>2, <1>3, WriteRow
<1>5. TypeOK'
  BY <1>1, <1>2, <1>4 DEF TypeOK
<1>6. Pending' \subseteq Pending
  BY <1>2 DEF Pending
<1>7. Numbered'
  <2>1. a.id <= used /\ a.id \in Nat /\ used \in Nat
    BY <1>1, <1>3, <1>4 DEF Numbered, Ids, TypeOK
  <2>2. \A i \in Ids : i > used => rows'[i] = Blank(i)
    BY <1>1, <1>4, <2>1 DEF Numbered
  <2>3. \A b \in Pending' : b.id <= used
    BY <1>1, <1>6 DEF Numbered
  <2> QED
    BY <1>2, <2>2, <2>3 DEF Numbered, Blank
<1>8. AllLoaded'
  BY <1>1, <1>2, <1>3, <1>6, WriteMakesStale DEF AllLoaded
<1>9. Single' /\ OneOpen' /\ Quiet'
  BY <1>1, <1>2 DEF Single, OneOpen, Quiet
<1> QED
  BY <1>5, <1>7, <1>8, <1>9 DEF AInv

-----------------------------------------------------------------------------
LEMMA InitAInv == Init => AInv
<1> SUFFICES ASSUME Init PROVE AInv
  OBVIOUS
<1>1. \A i \in Ids : /\ Blank(i) \in Alerts /\ Blank(i).id = i /\ Blank(i).status = "NONE"
                     /\ ~Blank(i).cleared
  BY DEF Blank, Alerts
<1>2. TypeOK
  BY <1>1, AlertingAssumption DEF Init, TypeOK
<1>3. Pending = {}
  BY DEF Init, Pending
<1>4. Numbered /\ AllLoaded /\ Single
  BY <1>3 DEF Init, Numbered, AllLoaded, Single
<1>5. OneOpen /\ Quiet
  BY <1>1 DEF Init, OneOpen, Quiet, Open
<1> QED
  BY <1>2, <1>4, <1>5 DEF AInv

LEMMA AInvStep == AInv /\ [Next]_vars => AInv'
<1> SUFFICES ASSUME AInv, [Next]_vars PROVE AInv'
  OBVIOUS
<1>1. ASSUME UNCHANGED <<rows, batch, used, others, late, calls, faults, reported, orderly>>,
             due' \subseteq Ids, dwelled' \subseteq Ids
      PROVE  AInv'
  <2>1. Pending' = Pending
    BY <1>1 DEF Pending
  <2>2. TypeOK'
    BY <1>1 DEF AInv, TypeOK
  <2>3. Numbered' /\ AllLoaded' /\ Single' /\ OneOpen' /\ Quiet'
    BY <1>1, <2>1 DEF AInv, Numbered, Blank, AllLoaded, Loaded, Single, OneOpen, Quiet
  <2> QED
    BY <2>2, <2>3 DEF AInv
<1>2. due \subseteq Ids /\ dwelled \subseteq Ids
  BY DEF AInv, TypeOK
<1>3. CASE UNCHANGED vars
  BY <1>1, <1>2, <1>3 DEF vars
<1>4. ASSUME NEW i \in Ids, Age(i) \/ Dwell(i) PROVE AInv'
  BY <1>1, <1>2, <1>4 DEF Age, Dwell
<1>5. ASSUME NEW c \in Callers,
             \/ RaiseAgain(c) \/ RaiseNew(c)
             \/ \E i \in Ids : \/ Acknowledge(c, i) \/ Resolve(c, i) \/ Comment(c, i)
                               \/ ConditionCleared(c, i)
      PROVE  AInv'
  BY <1>5, RaiseAgainStep, RaiseNewStep, CallerStep
<1>6. CASE \/ EvaluateEscalations \/ EvaluateAutoResolutions
           \/ \E c \in Callers : EscalateNow(c) \/ AutoResolveNow(c)
  BY <1>6, SweepStep
<1>9. CASE RaiseOther
  BY <1>9, RaiseOtherStep
<1>7. ASSUME NEW c \in Actors, Save(c) \/ SaveFails(c) PROVE AInv'
  BY <1>7, SaveStep, SaveFailsStep
<1>8. CASE LateSave
  BY <1>8, LateSaveStep
<1> QED
  BY <1>3, <1>4, <1>5, <1>6, <1>7, <1>8, <1>9 DEF Next

LEMMA AInvHolds == Spec => []AInv
BY InitAInv, AInvStep, PTL DEF Spec

\* The types, for any callers and any number of alerts, operations and failures.
THEOREM TypeCorrect == Spec => []TypeOK
<1>1. AInv => TypeOK
  BY DEF AInv
<1> QED
  BY <1>1, AInvHolds, PTL

\* Operations that neither overlap nor fail, and acknowledge no closed alert, keep one
\* open alert at most: raise_alert finds the open one.
THEOREM Deduplicated == Spec => []OneOpenAlert
<1>1. AInv => OneOpenAlert
  <2> SUFFICES ASSUME AInv, orderly
               PROVE  Cardinality({i \in Ids : rows[i].status \in Open}) <= 1
    BY DEF OneOpenAlert
  <2> DEFINE S == {i \in Ids : rows[i].status \in Open}
  <2>1. \A i, j \in S : i = j
    BY DEF AInv, OneOpen
  <2> HIDE DEF S
  <2>2. CASE S = {}
    BY <2>2, FS_EmptySet DEF S
  <2>3. CASE S # {}
    <3>1. PICK i : i \in S
      BY <2>3
    <3>2. S = {i}
      BY <2>1, <3>1
    <3>3. Cardinality(S) = 1
      BY <3>2, FS_Singleton
    <3> QED
      BY <3>3 DEF S
  <2> QED
    BY <2>2, <2>3
<1> QED
  BY <1>1, AInvHolds, PTL

\* The same operations auto-resolve no alert whose condition was seen again after it was
\* seen clear.
THEOREM ResolvedQuietly == Spec => []QuietWhenResolved
<1>1. AInv => QuietWhenResolved
  BY DEF AInv, Quiet, QuietWhenResolved
<1> QED
  BY <1>1, AInvHolds, PTL

\* Whatever overlaps, fails or comes late, a save that takes an escalation back or makes
\* an alert active again was loaded before an earlier save.
THEOREM StaleForgets == Spec => OnlyStaleForgets
<1>1. ASSUME AInv, [Next]_vars, NEW i \in Ids,
             rows[i].status # "NONE", rows'[i] # rows[i], rows'[i].base = rows[i].ver
      PROVE  /\ rows'[i].level >= rows[i].level
             /\ rows'[i].status = "ACTIVE" => rows[i].status = "ACTIVE"
  <2>1. ASSUME NEW a \in Pending, Write(a)
        PROVE  /\ rows'[i].level >= rows[i].level
               /\ rows'[i].status = "ACTIVE" => rows[i].status = "ACTIVE"
    <3>1. a \in Alerts /\ Loaded(a) /\ TypeOK
      BY <1>1 DEF AInv, TypeOK, AllLoaded, Pending
    <3>2. /\ a.id \in Ids
          /\ rows'[a.id].status = a.status /\ rows'[a.id].level = a.level
          /\ rows'[a.id].base = a.base
          /\ \A j \in Ids : j # a.id => rows'[j] = rows[j]
      BY <2>1, <3>1, WriteRow
    <3>3. i = a.id
      BY <1>1, <3>2
    <3> QED
      BY <1>1, <3>1, <3>2, <3>3 DEF Loaded
  <2>2. ASSUME NEW c \in Actors, Save(c) PROVE \E a \in Pending : Write(a)
    BY <2>2 DEF Save, Pending
  <2>3. CASE LateSave
    BY <2>1, <2>3 DEF LateSave, Pending
  <2>4. ASSUME NEW c \in Callers, NEW j \in Ids,
               \/ RaiseAgain(c) \/ RaiseNew(c) \/ Acknowledge(c, j) \/ Resolve(c, j)
               \/ Comment(c, j) \/ ConditionCleared(c, j)
        PROVE  rows' = rows
    BY <2>4 DEF RaiseAgain, RaiseNew, Acknowledge, Resolve, Comment, ConditionCleared,
                Update, Start
  <2>5. ASSUME \/ EvaluateEscalations \/ EvaluateAutoResolutions \/ UNCHANGED vars
               \/ RaiseOther \/ \E c \in Callers : EscalateNow(c) \/ AutoResolveNow(c)
        PROVE  rows' = rows
    BY <2>5 DEF EvaluateEscalations, EvaluateAutoResolutions, EscalateNow, AutoResolveNow,
                RaiseOther, Sweep, Start, vars
  <2>6. ASSUME NEW j \in Ids, Age(j) \/ Dwell(j) PROVE rows' = rows
    BY <2>6 DEF Age, Dwell
  <2>7. ASSUME NEW c \in Actors, SaveFails(c) PROVE rows' = rows
    BY <2>7 DEF SaveFails
  <2> QED
    BY <1>1, <2>1, <2>2, <2>3, <2>4, <2>5, <2>6, <2>7 DEF Next
<1>2. AInv /\ [Next]_vars =>
        [\A i \in Ids :
           rows[i].status # "NONE" /\ rows'[i] # rows[i] /\ rows'[i].base = rows[i].ver =>
             /\ rows'[i].level >= rows[i].level
             /\ rows'[i].status = "ACTIVE" => rows[i].status = "ACTIVE"]_vars
  BY <1>1
<1> QED
  BY <1>2, AInvHolds, PTL DEF Spec, OnlyStaleForgets

=============================================================================
