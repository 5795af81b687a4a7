------------------------ MODULE ConnectorStateProofs ------------------------
(* The connector's row for any number of API processes and tasks.          *)
EXTENDS ConnectorState, TLAPS

\* Before the row exists nobody has read, cached or begun anything.
Blank ==
  life = "NONE" => /\ \A p \in Procs : pc[p] = "idle"
                   /\ \A a \in Apis : cache[a] = "NONE"
                   /\ late = {}

\* What an API process knows of the row while nobody else has written it: its cache
\* entry is the row's state, one transition ahead while the UPDATE is due, and what
\* it is about to save was read from the row as it is.
Current(a) ==
  /\ pc[a] # "persist" => cache[a] \in {"NONE", life}
  /\ pc[a] = "persist" => /\ cache[a] = held[a].life
                          /\ held[a].life \in ALLOWED_TRANSITIONS(life)
  /\ pc[a] = "write" => held[a].life = life
  /\ pc[a] = "save" => held[a].life = life /\ held[a].cred >= cred

Coherent ==
  faults = 0 => late = {} /\ \A a \in Apis : touched \subseteq {a} => Current(a)

IInv == TypeOK /\ Blank /\ Coherent

LEMMA InitIInv == Init => IInv
BY StateAssumption
   DEF Init, IInv, TypeOK, Blank, Coherent, Current, Procs, NoneOrState, Rows, Nothing,
       LifecycleStates

\* Every step keeps the types, one action at a time.
LEMMA TypeStep == TypeOK /\ [Next]_vars => TypeOK'
<1> SUFFICES ASSUME TypeOK, [Next]_vars PROVE TypeOK'
  OBVIOUS
<1> USE StateAssumption DEF TypeOK, Procs, NoneOrState, Rows, Nothing, Go, End, Hold,
        Remember, Fault, Lost, Update, LateWrites
<1>1. CASE UNCHANGED vars
  BY <1>1 DEF vars
<1>2. ASSUME NEW a \in Apis, Register(a) PROVE TypeOK'
  BY <1>2 DEF Register, LifecycleStates
<1>3. ASSUME NEW a \in Apis, Request(a) PROVE TypeOK'
  <2>1. "NONE" \notin LifecycleStates
    BY DEF LifecycleStates
  <2> QED
    BY <1>3, <2>1 DEF Request
<1>4. ASSUME NEW a \in Apis, Check(a) PROVE TypeOK'
  <2>1. "REGISTERED" \in LifecycleStates
    BY DEF LifecycleStates
  <2> QED
    BY <1>4, <2>1 DEF Check, Decide
<1>5. ASSUME NEW a \in Apis, Persist(a) PROVE TypeOK'
  BY <1>5 DEF Persist
<1>6. ASSUME NEW a \in Apis, Write(a) PROVE TypeOK'
  BY <1>6 DEF Write
<1>7. ASSUME NEW a \in Apis, Diagnose(a) PROVE TypeOK'
  BY <1>7 DEF Diagnose
<1>8. ASSUME NEW a \in Apis, Rotate(a) PROVE TypeOK'
  BY <1>8 DEF Rotate
<1>9. ASSUME NEW a \in Apis, Patch(a) PROVE TypeOK'
  BY <1>9 DEF Patch
<1>10. ASSUME NEW w \in Workers, Work(w) PROVE TypeOK'
  BY <1>10 DEF Work
<1>11. ASSUME NEW w \in Workers, Report(w) PROVE TypeOK'
  BY <1>11 DEF Report, Outcome, LifecycleStates
<1>12. ASSUME NEW p \in Procs, Save(p) PROVE TypeOK'
  BY <1>12 DEF Save, SaveRow
<1>13. ASSUME NEW p \in Procs, Restart(p) PROVE TypeOK'
  BY <1>13 DEF Restart
<1>14. ASSUME NEW w \in late, LateWrite(w) PROVE TypeOK'
  BY <1>14 DEF LateWrite
<1> QED
  BY <1>1, <1>2, <1>3, <1>4, <1>5, <1>6, <1>7, <1>8, <1>9, <1>10, <1>11, <1>12,
     <1>13, <1>14 DEF Next, ApiStep

LEMMA IInvStep == IInv /\ [Next]_vars => IInv'
<1> SUFFICES ASSUME IInv, [Next]_vars PROVE Blank' /\ Coherent'
  BY TypeStep DEF IInv
<1>t. TypeOK'
  BY TypeStep DEF IInv
<1> USE <1>t, StateAssumption
    DEF IInv, TypeOK, Blank, Coherent, Current, Procs, NoneOrState, Rows, Nothing, Go,
        End, Hold, Remember, Fault, Lost, Update, LateWrites
<1>1. CASE UNCHANGED vars
  BY <1>1 DEF vars
<1>2. ASSUME NEW a \in Apis, Register(a) PROVE Blank' /\ Coherent'
  BY <1>2 DEF Register
<1>3. ASSUME NEW a \in Apis, Request(a) PROVE Blank' /\ Coherent'
  BY <1>3 DEF Request
<1>4. ASSUME NEW a \in Apis, Check(a) PROVE Blank' /\ Coherent'
  BY <1>4 DEF Check, Decide
<1>5. ASSUME NEW a \in Apis, Persist(a) PROVE Blank' /\ Coherent'
  <2>1. Blank'
    BY <1>5 DEF Persist
  <2>2. ASSUME faults' = 0, NEW b \in Apis, touched' \subseteq {b} PROVE Current(b)'
    <3>0. touched' = touched \cup {a} /\ faults = 0 /\ life' = held[a].life
      BY <1>5, <2>2 DEF Persist
    <3>1. b = a /\ touched \subseteq {a} /\ faults = 0 /\ life' = held[a].life
      BY <2>2, <3>0
    <3> QED
      BY <1>5, <3>1 DEF Persist
  <2>3. faults' = 0 => late' = {}
    BY <1>5 DEF Persist
  <2> QED
    BY <2>1, <2>2, <2>3
<1>6. ASSUME NEW a \in Apis, Write(a) PROVE Blank' /\ Coherent'
  <2>1. Blank'
    BY <1>6 DEF Write
  <2>2. ASSUME faults' = 0, NEW b \in Apis, touched' \subseteq {b} PROVE Current(b)'
    <3>0. touched' = touched \cup {a} /\ faults = 0 /\ life' = held[a].life
      BY <1>6, <2>2 DEF Write
    <3>1. b = a /\ touched \subseteq {a} /\ faults = 0 /\ life' = held[a].life
      BY <2>2, <3>0
    <3>2. cache[a] \in {"NONE", life} /\ held[a].life = life
      BY <1>6, <3>1 DEF Write
    <3>3. cache' = cache /\ pc'[a] = "idle"
      BY <1>6 DEF Write
    <3> QED
      BY <3>1, <3>2, <3>3
  <2>3. faults' = 0 => late' = {}
    BY <1>6 DEF Write
  <2> QED
    BY <2>1, <2>2, <2>3
<1>7. ASSUME NEW a \in Apis, Diagnose(a) PROVE Blank' /\ Coherent'
  BY <1>7 DEF Diagnose
<1>8. ASSUME NEW a \in Apis, Rotate(a) PROVE Blank' /\ Coherent'
  BY <1>8 DEF Rotate
<1>9. ASSUME NEW a \in Apis, Patch(a) PROVE Blank' /\ Coherent'
  BY <1>9 DEF Patch
<1>10. ASSUME NEW w \in Workers, Work(w) PROVE Blank' /\ Coherent'
  BY <1>10 DEF Work
<1>11. ASSUME NEW w \in Workers, Report(w) PROVE Blank' /\ Coherent'
  <2>1. Blank'
    BY <1>11 DEF Report, Outcome
  <2>2. ASSUME faults' = 0, NEW b \in Apis, touched' \subseteq {b} PROVE FALSE
    <3>1. w \in touched'
      BY <1>11, <2>2 DEF Report
    <3> QED
      BY <2>2, <3>1
  <2>3. faults' = 0 => late' = {}
    BY <1>11 DEF Report
  <2> QED
    BY <2>1, <2>2, <2>3
<1>12. ASSUME NEW p \in Procs, Save(p) PROVE Blank' /\ Coherent'
  <2>1. Blank'
    BY <1>12 DEF Save, SaveRow
  <2>2. ASSUME faults' = 0, NEW b \in Apis, touched' \subseteq {b} PROVE Current(b)'
    <3>1. /\ touched' = touched \cup {p} /\ faults = 0
          /\ life' = held[p].life /\ cred' = held[p].cred
      BY <1>12, <2>2 DEF Save, SaveRow
    <3>2. p = b /\ touched \subseteq {b}
      BY <2>2, <3>1
    <3> QED
      BY <1>12, <3>1, <3>2 DEF Save
  <2>3. faults' = 0 => late' = {}
    BY <1>12 DEF Save
  <2> QED
    BY <2>1, <2>2, <2>3
<1>13. ASSUME NEW p \in Procs, Restart(p) PROVE Blank' /\ Coherent'
  BY <1>13 DEF Restart
<1>14. ASSUME NEW w \in late, LateWrite(w) PROVE Blank' /\ Coherent'
  BY <1>14 DEF LateWrite, LifecycleStates
<1> QED
  BY <1>1, <1>2, <1>3, <1>4, <1>5, <1>6, <1>7, <1>8, <1>9, <1>10, <1>11, <1>12,
     <1>13, <1>14 DEF Next, ApiStep

LEMMA IInvHolds == Spec => []IInv
BY InitIInv, IInvStep, PTL DEF Spec

\* The types of the row and of the processes' memories, whatever the constants.
THEOREM TypeCorrect == Spec => []TypeOK
<1>1. IInv => TypeOK
  BY DEF IInv
<1> QED
  BY <1>1, IInvHolds, PTL

\* For any number of API processes and tasks: as long as a single API process has
\* written the row and no database call has raised, the state moves along
\* ALLOWED_TRANSITIONS and no rotation is undone.
THEOREM SoleWriter == Spec => SoleWriterIsLegal
<1> DEFINE Legal(a) ==
      (touched' \subseteq {a} /\ faults' = 0 /\ life # "NONE") =>
        /\ life' # life => life' \in ALLOWED_TRANSITIONS(life)
        /\ cred' >= cred
<1>1. ASSUME IInv, [Next]_vars, NEW a \in Apis, touched' \subseteq {a}, faults' = 0,
             life # "NONE"
      PROVE  /\ life' # life => life' \in ALLOWED_TRANSITIONS(life)
             /\ cred' >= cred
  <2> USE <1>1, StateAssumption
      DEF IInv, TypeOK, Procs, Fault, Lost, Update
  <2>1. CASE UNCHANGED vars
    BY <2>1 DEF vars
  <2>2. ASSUME NEW b \in Apis, Persist(b) PROVE life' \in ALLOWED_TRANSITIONS(life) /\ cred' = cred
    <3>1. /\ faults = 0 /\ touched' = touched \cup {b} /\ life' = held[b].life /\ cred' = cred
          /\ pc[b] = "persist"
      BY <2>2 DEF Persist
    <3>2. b = a /\ touched \subseteq {a}
      BY <3>1
    <3> QED
      BY <3>1, <3>2 DEF Coherent, Current
  <2>3. ASSUME NEW b \in Apis, Write(b) PROVE life' = life /\ cred' = cred
    BY <2>3 DEF Write, Coherent, Current
  <2>4. ASSUME NEW b \in Apis, ApiStep(b), ~Persist(b), ~Write(b)
        PROVE  life' = life /\ cred' = cred
    BY <2>4 DEF ApiStep, Register, Request, Check, Diagnose, Rotate, Patch
  <2>5. ASSUME NEW w \in Workers, Work(w) PROVE life' = life /\ cred' = cred
    BY <2>5 DEF Work
  <2>6. ASSUME NEW w \in Workers, Report(w) PROVE life' = life /\ cred' = cred
    BY <2>6 DEF Report
  <2>7. ASSUME NEW p \in Procs, Save(p) PROVE life' = life /\ cred' >= cred
    <3>1. /\ touched' = touched \cup {p} /\ faults = 0
          /\ life' = held[p].life /\ cred' = held[p].cred
      BY <2>7 DEF Save, SaveRow
    <3>2. p = a /\ touched \subseteq {a}
      BY <3>1
    <3> QED
      BY <2>7, <3>1, <3>2 DEF Save, Coherent, Current
  <2>8. ASSUME NEW p \in Procs, Restart(p) PROVE life' = life /\ cred' = cred
    BY <2>8 DEF Restart
  <2>9. ASSUME NEW w \in late, LateWrite(w) PROVE FALSE
    BY <2>9 DEF LateWrite, Coherent
  <2> QED
    BY <2>1, <2>2, <2>3, <2>4, <2>5, <2>6, <2>7, <2>8, <2>9 DEF Next
<1>2. IInv /\ [Next]_vars => [\A a \in Apis : Legal(a)]_vars
  BY <1>1
<1> QED
  BY <1>2, IInvHolds, PTL DEF Spec, SoleWriterIsLegal

\* A request that is about to write holds the state its manager has cached, if that
\* has cached any.
Agreed ==
  \A a \in Apis : pc[a] \in {"persist", "write"} => cache[a] \in {"NONE", held[a].life}

LEMMA AgreedStep == IInv /\ Agreed /\ [Next]_vars => Agreed'
<1> SUFFICES ASSUME IInv, Agreed, [Next]_vars PROVE Agreed'
  OBVIOUS
<1> USE StateAssumption
    DEF IInv, TypeOK, Blank, Agreed, Procs, Go, End, Hold, Remember
<1>1. CASE UNCHANGED vars
  BY <1>1 DEF vars
<1>2. ASSUME NEW a \in Apis, Register(a) PROVE Agreed'
  BY <1>2 DEF Register
<1>3. ASSUME NEW a \in Apis, Check(a) PROVE Agreed'
  BY <1>3 DEF Check, Decide
<1>4. ASSUME NEW a \in Apis, ApiStep(a), ~Register(a), ~Check(a) PROVE Agreed'
  BY <1>4 DEF ApiStep, Request, Persist, Write, Diagnose, Rotate, Patch
<1>5. ASSUME NEW w \in Workers, Work(w) \/ Report(w) PROVE Agreed'
  BY <1>5 DEF Work, Report
<1>6. ASSUME NEW p \in Procs, Save(p) PROVE Agreed'
  BY <1>6 DEF Save
<1>7. ASSUME NEW p \in Procs, Restart(p) PROVE Agreed'
  BY <1>7 DEF Restart
<1>8. ASSUME NEW w \in late, LateWrite(w) PROVE Agreed'
  BY <1>8 DEF LateWrite
<1> QED
  BY <1>1, <1>2, <1>3, <1>4, <1>5, <1>6, <1>7, <1>8 DEF Next

LEMMA AgreedHolds == Spec => [](IInv /\ Agreed)
<1>1. Init => Agreed
  BY StateAssumption DEF Init, Agreed, Procs
<1> QED
  BY <1>1, InitIInv, IInvStep, AgreedStep, PTL DEF Spec

\* For any number of processes and failed calls: a manager that has cached the
\* deletion accepts no other state before its process restarts, and sends no UPDATE
\* that would take the row out of DELETED; one that it had given up before still may.
THEOREM Remembered == Spec => DeletionIsRemembered
<1> DEFINE Keeps(a) == cache'[a] = "DELETED" \/ (cache'[a] = "NONE" /\ pc'[a] = "idle")
           Sends(a) == \A w \in late' \ late : w.by = a /\ w.what = "state" => w.life = "DELETED"
           Spares(a) == (life = "DELETED" /\ life' # "DELETED") =>
                          \/ \E w \in late : w.life = life' /\ late' = late \ {w}
                          \/ \E p \in Procs : pc'[p] # pc[p] /\ (p # a \/ pc[p] = "save")
           Good(a) == Keeps(a) /\ Sends(a) /\ Spares(a)
<1>1. ASSUME IInv, Agreed, [Next]_vars, NEW a \in Apis, cache[a] = "DELETED"
      PROVE  Good(a)
  <2> USE <1>1, StateAssumption
      DEF IInv, TypeOK, Blank, Procs, Go, End, Hold, Remember
  <2>0. ALLOWED_TRANSITIONS("DELETED") = {}
    BY DEF ALLOWED_TRANSITIONS
  <2>1. CASE UNCHANGED vars
    BY <2>1 DEF vars
  <2>2. ASSUME NEW b \in Apis, Register(b) PROVE FALSE
    BY <2>2 DEF Register
  <2>3. ASSUME NEW b \in Apis, Check(b) PROVE Good(a)
    BY <2>0, <2>3 DEF Check, Decide
  <2>4. ASSUME NEW b \in Apis, Persist(b) \/ Write(b) PROVE Good(a)
    <3>1. /\ cache' = cache /\ life' \in {life, held[b].life} /\ pc[b] \in {"persist", "write"}
          /\ pc'[b] \in {"write", "idle"} /\ pc'[b] # pc[b]
          /\ \A w \in late' \ late : w.by = b /\ w.life = held[b].life
      BY <2>4 DEF Persist, Write, Update, Lost
    <3>2. CASE b = a
      BY <3>1, <3>2 DEF Agreed
    <3>3. CASE b # a
      BY <3>1, <3>3
    <3> QED
      BY <3>2, <3>3
  <2>5. ASSUME NEW b \in Apis, Request(b) \/ Diagnose(b) \/ Rotate(b) \/ Patch(b)
        PROVE  Good(a)
    BY <2>5 DEF Request, Diagnose, Rotate, Patch
  <2>6. ASSUME NEW w \in Workers, Work(w) PROVE Good(a)
    BY <2>6 DEF Work
  <2>7. ASSUME NEW w \in Workers, Report(w) PROVE Good(a)
    <3>1. /\ cache' = cache /\ w # a /\ pc[w] \in {"succeeded", "failed"} /\ pc'[w] = "idle"
          /\ \A v \in late' \ late : v.by = w
      BY <2>7 DEF Report, Lost
    <3> QED
      BY <3>1
  <2>8. ASSUME NEW p \in Procs, Save(p) PROVE Good(a)
    <3>1. /\ cache' = cache /\ pc[p] = "save" /\ pc'[p] # "save"
          /\ \A v \in late' \ late : v.what = "row"
      BY <2>8 DEF Save, Lost
    <3> QED
      BY <3>1
  <2>9. ASSUME NEW p \in Procs, Restart(p) PROVE Good(a)
    BY <2>9 DEF Restart
  <2>10. ASSUME NEW w \in late, LateWrite(w) PROVE Good(a)
    BY <2>10 DEF LateWrite, Update
  <2> QED
    BY <2>1, <2>2, <2>3, <2>4, <2>5, <2>6, <2>7, <2>8, <2>9, <2>10 DEF Next, ApiStep
<1>2. IInv /\ Agreed /\ [Next]_vars =>
        [\A a \in Apis : cache[a] = "DELETED" =>
           /\ cache'[a] = "DELETED" \/ (cache'[a] = "NONE" /\ pc'[a] = "idle")
           /\ \A w \in late' \ late : w.by = a /\ w.what = "state" => w.life = "DELETED"
           /\ (life = "DELETED" /\ life' # "DELETED") =>
                \/ \E w \in late : w.life = life' /\ late' = late \ {w}
                \/ \E p \in Procs : pc'[p] # pc[p] /\ (p # a \/ pc[p] = "save")]_vars
  BY <1>1
<1> QED
  BY <1>2, AgreedHolds, PTL DEF Spec, DeletionIsRemembered

=============================================================================
