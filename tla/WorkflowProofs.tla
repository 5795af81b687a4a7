--------------------------- MODULE WorkflowProofs ---------------------------
(***************************************************************************)
(* Proofs about Workflow, for any number of callers, stages and quorums.   *)
(*                                                                         *)
(* The request is copied, changed and written back by callers that do not  *)
(* see each other, so the argument is about copies: every copy, wherever   *)
(* it is, counts no more approvals than were given and stands behind no    *)
(* stage that lacks its own (Sound).  Lost and late saves can bring back   *)
(* an old copy but never one that claims too much.  How often the change   *)
(* is made is a matter of counting the applications that were begun        *)
(* against the approvals of the last stage (PaidInv).                      *)
(***************************************************************************)
EXTENDS Workflow, FiniteSetTheorems, TLAPS

\* The copy r claims no more than the approvals k.
Sound(r, k) ==
  \A s \in Stages : r.n[s] <= k[s] /\ (s < r.stage => r.n[s] >= Need[s])

\* The change may be made.
Sanctioned(w, k) == w = "waived" \/ (w = "review" /\ \A s \in Stages : k[s] >= Need[s])

\* A copy that says APPLIED has the change behind it.
Made(q, e) == q.state = "APPLIED" /\ q.applier = "yes" => e > 0

\* What a caller at l knows of its copy q, when the approvals are k, the change was made
\* e times and the row has been written v times.
Works(l, q, k, e, v) ==
  /\ Sound(q, k) /\ q.ver <= v
  /\ l = "loaded" => q.state \notin Final /\ q.state # "APPROVED"
  /\ l = "save" => q.state # "APPROVED" /\ Made(q, e)

CallersOK ==
  \A c \in Callers : pc[c] # "idle" =>
    /\ asked # "no"
    /\ Works(pc[c], copy[c], cast, effects, row.ver)
    /\ pc[c] = "apply" \/ copy[c].state = "APPLIED" => Sanctioned(asked, cast)

\* What a stored request, or a save on its way, claims.
Stored(r, k, e, v) ==
  /\ Sound(r, k) /\ r.ver <= v
  /\ r.state # "APPROVED" /\ Made(r, e)

StoredOK ==
  \A r \in lateSaves \cup {row} :
    /\ Stored(r, cast, effects, row.ver)
    /\ r.state = "APPLIED" => Sanctioned(asked, cast)

AskedOK ==
  /\ asked = "no" => row = NoRequest /\ lateSaves = {}
  /\ lateApplies > 0 => Sanctioned(asked, cast)

Inv == TypeOK /\ CallersOK /\ StoredOK /\ AskedOK /\ ClosedIsFinal

\* What holds as long as no operation met another one or a failure.
Exact(r) ==
  r.n = cast /\ effects = IF r.state = "APPLIED" /\ r.applier = "yes" THEN 1 ELSE 0

AloneInv ==
  alone = "yes" =>
    /\ lateSaves = {} /\ lateApplies = 0
    /\ \A c, d \in Callers : pc[c] # "idle" /\ pc[d] # "idle" => c = d
    /\ (\A c \in Callers : pc[c] = "idle") => Exact(row)
    /\ \A c \in Callers :
         /\ pc[c] = "loaded" => Exact(row) /\ copy[c].n = cast /\ effects = 0
         /\ pc[c] = "apply" => copy[c].n = cast /\ effects = 0
         /\ pc[c] = "save" => Exact(copy[c])

-----------------------------------------------------------------------------
LEMMA StageFacts ==
  /\ 1 \in Stages /\ Last \in Stages
  /\ \A s \in Stages : s \in Nat /\ s <= Last /\ Need[s] \in Nat \ {0}
  /\ \A s \in Stages : s < Last => s + 1 \in Stages
BY WorkflowAssumption DEF Stages, Need

LEMMA FreshFacts ==
  ASSUME NEW state \in States, NEW a \in {"yes", "no"}, NEW e \in {"yes", "no"}, NEW k \in Nat
  PROVE  /\ Fresh(state, a, e, k) \in Requests /\ Fresh(state, a, e, k).state = state
         /\ Fresh(state, a, e, k).n = [s \in Stages |-> 0]
         /\ Fresh(state, a, e, k).stage = 1 /\ Fresh(state, a, e, k).ver = 0
BY StageFacts DEF Fresh, Requests

LEMMA NoRequestFacts ==
  /\ NoRequest \in Requests /\ NoRequest.ver = 0 /\ NoRequest.state = "NONE"
  /\ NoRequest.n = [s \in Stages |-> 0] /\ NoRequest.stage = 1
BY FreshFacts DEF NoRequest, States

\* What an APPROVE decision makes of a copy.
LEMMA ApprovedFacts ==
  ASSUME NEW r \in Requests, r.state # "APPROVED"
  PROVE  /\ Approved(r) \in Requests
         /\ Approved(r).n = [r.n EXCEPT ![r.stage] = @ + 1]
         /\ Approved(r).ver = r.ver
         /\ Approved(r).state \in {r.state, "APPROVED"}
         /\ Approved(r).state = "APPROVED" =>
              /\ r.stage = Last /\ Approved(r).stage = Last
              /\ r.n[Last] + 1 >= Need[Last]
         /\ \/ Approved(r).stage = r.stage
            \/ Approved(r).stage = r.stage + 1 /\ r.n[r.stage] + 1 >= Need[r.stage]
<1> DEFINE k == r.n[r.stage] + 1
           decided == [r EXCEPT !.n = [@ EXCEPT ![r.stage] = k]]
<1>1. /\ r.stage \in Stages /\ r.n \in [Stages -> Nat] /\ r.n[r.stage] \in Nat /\ k \in Nat
      /\ r.state \in States /\ r.ver \in Nat /\ r.escalated \in {"yes", "no"} /\ r.call \in Nat
      /\ r.applier \in {"yes", "no"}
  BY DEF Requests
<1>2. [r.n EXCEPT ![r.stage] = k] \in [Stages -> Nat]
  BY <1>1
<1>3. /\ decided \in Requests /\ decided.n = [r.n EXCEPT ![r.stage] = @ + 1]
      /\ decided.ver = r.ver /\ decided.state = r.state /\ decided.stage = r.stage
  BY <1>1, <1>2 DEF Requests
<1>4. StageComplete(r.stage, k) => k >= Need[r.stage]
  BY <1>1, StageFacts, WorkflowAssumption DEF StageComplete, Need, Stages
<1>5. CASE ~ StageComplete(r.stage, k)
  BY <1>3, <1>5 DEF Approved
<1>6. CASE StageComplete(r.stage, k) /\ r.stage < Last
  <2>1. Approved(r) = [decided EXCEPT !.stage = @ + 1]
    BY <1>6 DEF Approved
  <2>2. r.stage + 1 \in Stages
    BY <1>1, <1>6, StageFacts
  <2>3. /\ Approved(r) \in Requests /\ Approved(r).n = decided.n /\ Approved(r).ver = decided.ver
        /\ Approved(r).state = decided.state /\ Approved(r).stage = r.stage + 1
    BY <1>3, <2>1, <2>2 DEF Requests
  <2>4. QED BY <1>3, <1>4, <1>6, <2>3
<1>7. CASE StageComplete(r.stage, k) /\ ~ (r.stage < Last)
  <2>1. Approved(r) = [decided EXCEPT !.state = "APPROVED"]
    BY <1>7 DEF Approved
  <2>2. r.stage = Last
    BY <1>1, <1>7, StageFacts
  <2>3. /\ Approved(r) \in Requests /\ Approved(r).n = decided.n /\ Approved(r).ver = decided.ver
        /\ Approved(r).state = "APPROVED" /\ Approved(r).stage = r.stage
    BY <1>3, <2>1 DEF Requests, States
  <2>4. QED BY <1>3, <1>4, <1>7, <2>2, <2>3
<1>8. QED BY <1>5, <1>6, <1>7

\* A decision claims no more than was cast once it is counted.
LEMMA ApprovedSound ==
  ASSUME NEW r \in Requests, r.state # "APPROVED", NEW k \in [Stages -> Nat], Sound(r, k)
  PROVE  /\ Sound(Approved(r), [k EXCEPT ![r.stage] = @ + 1])
         /\ Approved(r).state = "APPROVED" =>
              \A s \in Stages : [k EXCEPT ![r.stage] = @ + 1][s] >= Need[s]
<1> DEFINE q == Approved(r)
           m == [k EXCEPT ![r.stage] = @ + 1]
<1>1. /\ r.stage \in Stages /\ r.n \in [Stages -> Nat]
      /\ q.n = [r.n EXCEPT ![r.stage] = @ + 1]
      /\ q.state = "APPROVED" => r.stage = Last /\ r.n[Last] + 1 >= Need[Last]
      /\ q.stage = r.stage \/ (q.stage = r.stage + 1 /\ r.n[r.stage] + 1 >= Need[r.stage])
  BY ApprovedFacts DEF Requests
<1>2. ASSUME NEW s \in Stages
      PROVE  /\ q.n[s] = IF s = r.stage THEN r.n[s] + 1 ELSE r.n[s]
             /\ m[s] = IF s = r.stage THEN k[s] + 1 ELSE k[s]
             /\ r.n[s] \in Nat /\ k[s] \in Nat /\ r.n[s] <= k[s] /\ Need[s] \in Nat
             /\ s < r.stage => r.n[s] >= Need[s]
             /\ s \in Nat /\ s <= Last /\ r.stage \in Nat
  BY <1>1, StageFacts DEF Sound
<1>3. ASSUME NEW s \in Stages PROVE q.n[s] <= m[s] /\ (s < q.stage => q.n[s] >= Need[s])
  BY <1>1, <1>2
<1>4. q.state = "APPROVED" => \A s \in Stages : m[s] >= Need[s]
  BY <1>1, <1>2
<1>5. QED BY <1>3, <1>4 DEF Sound

\* What is known of a copy stays true while approvals, changes and writes are added.
LEMMA Grows ==
  ASSUME NEW r \in Requests, NEW k \in [Stages -> Nat], NEW m \in [Stages -> Nat],
         \A s \in Stages : k[s] <= m[s],
         NEW e \in Nat, NEW f \in Nat, e <= f, NEW v \in Nat, NEW w \in Nat, v <= w, NEW l
  PROVE  /\ Works(l, r, k, e, v) => Works(l, r, m, f, w)
         /\ Stored(r, k, e, v) => Stored(r, m, f, w)
         /\ \A a : Sanctioned(a, k) => Sanctioned(a, m)
<1>1. r.n \in [Stages -> Nat] /\ r.ver \in Nat
  BY DEF Requests
<1>2. Sound(r, k) => Sound(r, m)
  BY <1>1 DEF Sound
<1>3. \A a : Sanctioned(a, k) => Sanctioned(a, m)
  BY StageFacts DEF Sanctioned
<1>4. (r.ver <= v => r.ver <= w) /\ (Made(r, e) => Made(r, f))
  BY <1>1 DEF Made
<1>5. QED BY <1>2, <1>3, <1>4 DEF Works, Stored

Labels == {"idle", "loaded", "apply", "save"}

\* What a caller that enters l with the copy q has to establish.
Enters(l, q) ==
  /\ asked # "no" /\ Works(l, q, cast, effects, row.ver)
  /\ l = "apply" \/ q.state = "APPLIED" => Sanctioned(asked, cast)
  /\ row.state \in Final => q.ver < row.ver

\* A step keeps the invariant when what it changes is all right and the rest only
\* grows.
LEMMA StepKeeps ==
  ASSUME Inv, TypeOK', \A s \in Stages : cast[s] <= cast'[s], effects <= effects',
         asked # "no" => asked' = asked,
         \A d \in Callers : pc'[d] = "idle" \/ (pc'[d] = pc[d] /\ copy'[d] = copy[d])
                              \/ Enters(pc[d], copy[d])',
         \A r \in lateSaves' : r \in lateSaves \/
            /\ Stored(r, cast, effects, row.ver)'
            /\ row'.state \in Final => r.ver < row'.ver
            /\ r.state = "APPLIED" => Sanctioned(asked, cast)',
         row' = row \/
            /\ Stored(row, cast, effects, row.ver)' /\ row.ver < row'.ver
            /\ row'.state = "APPLIED" => Sanctioned(asked, cast)',
         asked' = "no" => row' = row /\ lateSaves' \subseteq lateSaves,
         lateApplies' > 0 => Sanctioned(asked, cast)'
  PROVE  Inv'
<1>1. /\ cast \in [Stages -> Nat] /\ cast' \in [Stages -> Nat] /\ effects \in Nat /\ effects' \in Nat
      /\ row \in Requests /\ row' \in Requests /\ row.ver \in Nat /\ row'.ver \in Nat
      /\ \A d \in Callers : copy[d] \in Requests
      /\ lateSaves \subseteq Requests
      /\ \A r \in Requests : r.ver \in Nat
      /\ asked \in {"no", "review", "waived"} /\ asked' \in {"no", "review", "waived"}
  BY DEF Inv, TypeOK, Requests
<1>2. row.ver <= row'.ver
  BY <1>1
<1>3. \A r \in Requests : \A l :
        Works(l, r, cast, effects, row.ver) => Works(l, r, cast, effects, row.ver)'
  BY <1>1, <1>2, Grows
<1>4. \A r \in Requests : Stored(r, cast, effects, row.ver) => Stored(r, cast, effects, row.ver)'
  BY <1>1, <1>2, Grows
<1>5. asked # "no" => asked' # "no" /\ (Sanctioned(asked, cast) => Sanctioned(asked, cast)')
  <2>1. \A a : Sanctioned(a, cast) => Sanctioned(a, cast')
    BY <1>1, <1>2, Grows
  <2>2. QED BY <2>1
<1>6. CallersOK'
  <2> SUFFICES ASSUME NEW d \in Callers, pc'[d] # "idle"
               PROVE  /\ asked' # "no" /\ Works(pc[d], copy[d], cast, effects, row.ver)'
                      /\ pc'[d] = "apply" \/ copy'[d].state = "APPLIED" => Sanctioned(asked, cast)'
    BY DEF CallersOK
  <2>1. CASE Enters(pc[d], copy[d])'
    BY <2>1 DEF Enters
  <2>2. CASE pc'[d] = pc[d] /\ copy'[d] = copy[d]
    <3>1. /\ asked # "no" /\ Works(pc[d], copy[d], cast, effects, row.ver)
          /\ pc[d] = "apply" \/ copy[d].state = "APPLIED" => Sanctioned(asked, cast)
      BY <2>2 DEF Inv, CallersOK
    <3>2. Works(pc[d], copy[d], cast', effects', row'.ver)
      BY <3>1, <1>1, <1>3
    <3>3. QED BY <2>2, <3>1, <3>2, <1>5
  <2>3. QED BY <2>1, <2>2
<1>7. StoredOK'
  <2> SUFFICES ASSUME NEW r \in lateSaves' \cup {row'}
               PROVE  /\ Stored(r, cast', effects', row'.ver)
                      /\ r.state = "APPLIED" => Sanctioned(asked, cast)'
    BY DEF StoredOK
  <2>1. CASE r \in lateSaves \cup {row}
    <3>1. /\ Stored(r, cast, effects, row.ver) /\ r \in Requests
          /\ r.state = "APPLIED" => Sanctioned(asked, cast)
      BY <2>1, <1>1 DEF Inv, StoredOK
    <3>2. Sanctioned(asked, cast) => asked # "no"
      BY DEF Sanctioned
    <3>3. QED BY <3>1, <3>2, <1>4, <1>5
  <2>2. CASE r \notin lateSaves \cup {row}
    BY <2>2
  <2>3. QED BY <2>1, <2>2
<1>8. AskedOK'
  <2>1. asked' = "no" => asked = "no" /\ row' = row /\ lateSaves' = {}
    BY DEF Inv, AskedOK
  <2>2. QED BY <2>1 DEF Inv, AskedOK
<1>9. ClosedIsFinal'
  <2> SUFFICES ASSUME row'.state \in Final
               PROVE  /\ \A d \in Callers : pc'[d] # "idle" => copy'[d].ver < row'.ver
                      /\ \A r \in lateSaves' : r.ver < row'.ver
    BY DEF ClosedIsFinal
  <2>1. ASSUME NEW d \in Callers, pc'[d] # "idle" PROVE copy'[d].ver < row'.ver
    <3>1. CASE Enters(pc[d], copy[d])'
      BY <3>1 DEF Enters
    <3>2. CASE pc'[d] = pc[d] /\ copy'[d] = copy[d]
      <4>1. copy[d].ver <= row.ver /\ (row' = row => copy[d].ver < row.ver) /\ copy[d].ver \in Nat
        BY <2>1, <3>2, <1>1 DEF Inv, CallersOK, Works, ClosedIsFinal
      <4>2. QED BY <3>2, <4>1, <1>1
    <3>3. QED BY <2>1, <3>1, <3>2
  <2>2. ASSUME NEW r \in lateSaves' PROVE r.ver < row'.ver
    <3>1. CASE r \in lateSaves
      <4>1. r.ver <= row.ver /\ (row' = row => r.ver < row.ver) /\ r.ver \in Nat
        BY <3>1, <1>1 DEF Inv, StoredOK, Stored, ClosedIsFinal
      <4>2. QED BY <4>1, <1>1
    <3>2. QED BY <3>1, <2>2
  <2>3. QED BY <2>1, <2>2
<1>10. QED BY <1>6, <1>7, <1>8, <1>9 DEF Inv

\* One caller moves.
LEMMA Moves ==
  ASSUME TypeOK, NEW c \in Callers, NEW l \in Labels, NEW q \in Requests,
         pc' = [pc EXCEPT ![c] = l], copy' = [copy EXCEPT ![c] = q]
  PROVE  /\ pc' \in [Callers -> Labels] /\ copy' \in [Callers -> Requests]
         /\ pc'[c] = l /\ copy'[c] = q
         /\ \A d \in Callers : d # c => pc'[d] = pc[d] /\ copy'[d] = copy[d]
BY DEF TypeOK, Labels

\* What an undisturbed caller that enters l with the copy q has to establish.
EntersAlone(l, q) ==
  /\ l \in {"idle", "loaded"} => Exact(row)
  /\ l = "loaded" => q.n = cast /\ effects = 0
  /\ l = "apply" => q.n = cast /\ effects = 0
  /\ l = "save" => Exact(q)

LEMMA AloneKeeps ==
  ASSUME TypeOK, AloneInv, NEW c \in Callers, NEW l \in Labels, NEW q \in Requests,
         pc' = [pc EXCEPT ![c] = l], copy' = [copy EXCEPT ![c] = q],
         alone' = "yes" => /\ alone = "yes" /\ lateSaves' = {} /\ lateApplies' = 0
                           /\ pc[c] # "idle" \/ \A d \in Callers : pc[d] = "idle"
                           /\ EntersAlone(pc[c], copy[c])'
  PROVE  AloneInv'
<1> SUFFICES ASSUME alone' = "yes"
             PROVE  /\ lateSaves' = {} /\ lateApplies' = 0
                    /\ \A a, d \in Callers : pc'[a] # "idle" /\ pc'[d] # "idle" => a = d
                    /\ (\A d \in Callers : pc'[d] = "idle") => Exact(row)'
                    /\ \A d \in Callers :
                         /\ pc'[d] = "loaded" => (Exact(row) /\ copy[d].n = cast /\ effects = 0)'
                         /\ pc'[d] = "apply" => (copy[d].n = cast /\ effects = 0)'
                         /\ pc'[d] = "save" => Exact(copy[d])'
  BY DEF AloneInv
<1>1. \A d \in Callers : d # c => pc[d] = "idle"
  BY DEF AloneInv
<1>2. /\ pc'[c] = l /\ copy'[c] = q /\ \A d \in Callers : d # c => pc'[d] = "idle"
  BY <1>1, Moves
<1>3. ASSUME NEW d \in Callers
      PROVE  /\ pc'[d] = "loaded" => (Exact(row) /\ copy[d].n = cast /\ effects = 0)'
             /\ pc'[d] = "apply" => (copy[d].n = cast /\ effects = 0)'
             /\ pc'[d] = "save" => Exact(copy[d])'
  <2>1. CASE d # c
    BY <2>1, <1>2
  <2>2. CASE d = c
    BY <2>2 DEF EntersAlone
  <2>3. QED BY <2>1, <2>2
<1>4. (\A d \in Callers : pc'[d] = "idle") => Exact(row)'
  BY DEF EntersAlone
<1>5. QED BY <1>2, <1>3, <1>4

Good == Inv /\ AloneInv

LEMMA InitGood == Init => Good
<1> SUFFICES ASSUME Init PROVE Good
  OBVIOUS
<1>1. TypeOK
  BY NoRequestFacts, StageFacts DEF Init, TypeOK
<1>2. Sound(NoRequest, cast)
  <2>1. \A s \in Stages : NoRequest.n[s] = 0 /\ cast[s] = 0 /\ ~ (s < NoRequest.stage)
    BY NoRequestFacts, WorkflowAssumption DEF Init, Stages
  <2>2. QED BY <2>1 DEF Sound
<1>3. CallersOK /\ AskedOK /\ StoredOK
  BY <1>2, NoRequestFacts DEF Init, CallersOK, AskedOK, StoredOK, Stored, Made
<1>4. ClosedIsFinal
  BY NoRequestFacts DEF Init, ClosedIsFinal
<1>5. AloneInv
  BY NoRequestFacts DEF Init, AloneInv, Exact
<1>6. QED BY <1>1, <1>3, <1>4, <1>5 DEF Good, Inv

LEMMA SubmitGood ==
  ASSUME Good, NEW c \in Callers, Submit(c)
  PROVE  Good'
<1>1. /\ asked = "no" /\ asked' \in {"review", "waived"} /\ calls \in Nat /\ calls' = calls + 1
      /\ pc[c] = "idle" /\ alone' = (IF \A d \in Callers : pc[d] = "idle" THEN alone ELSE "no")
      /\ UNCHANGED <<row, lateSaves, lateApplies, cast, effects>>
  BY DEF Submit, Begin, Good, Inv, TypeOK
<1>2. PICK l \in Labels, q \in Requests :
        /\ pc' = [pc EXCEPT ![c] = l] /\ copy' = [copy EXCEPT ![c] = q]
        /\ q.n = NoRequest.n /\ q.stage = 1 /\ q.ver = 0
        /\ \/ l = "apply" /\ asked' = "waived" /\ q.state = "APPROVED"
           \/ l = "save" /\ asked' = "review" /\ q.state = "IN_REVIEW"
  <2>1. \A state \in States, a, e \in {"yes", "no"} :
          LET q == Fresh(state, a, e, calls + 1)
          IN  /\ q \in Requests /\ q.n = NoRequest.n /\ q.stage = 1 /\ q.ver = 0
              /\ q.state = state
    BY <1>1, FreshFacts, NoRequestFacts
  <2>2. CASE \E a \in {"yes", "no"} :
             /\ asked' = "waived"
             /\ copy' = [copy EXCEPT ![c] = Fresh("APPROVED", a, "no", calls + 1)]
             /\ Goto(c, "apply")
    <3>1. PICK a \in {"yes", "no"} : copy' = [copy EXCEPT ![c] = Fresh("APPROVED", a, "no", calls + 1)]
      BY <2>2
    <3> DEFINE q == Fresh("APPROVED", a, "no", calls + 1)
    <3>2. /\ q \in Requests /\ q.n = NoRequest.n /\ q.stage = 1 /\ q.ver = 0
          /\ q.state = "APPROVED"
      BY <2>1 DEF States
    <3> HIDE DEF q
    <3>3. QED BY <3>1, <3>2, <2>2 DEF Goto, Labels, q
  <2>3. CASE \E a, e \in {"yes", "no"} :
             /\ asked' = "review"
             /\ copy' = [copy EXCEPT ![c] = Fresh("IN_REVIEW", a, e, calls + 1)]
             /\ Goto(c, "save")
    <3>1. PICK a, e \in {"yes", "no"} :
            copy' = [copy EXCEPT ![c] = Fresh("IN_REVIEW", a, e, calls + 1)]
      BY <2>3
    <3> DEFINE q == Fresh("IN_REVIEW", a, e, calls + 1)
    <3>2. /\ q \in Requests /\ q.n = NoRequest.n /\ q.stage = 1 /\ q.ver = 0
          /\ q.state = "IN_REVIEW"
      BY <2>1 DEF States
    <3> HIDE DEF q
    <3>3. QED BY <3>1, <3>2, <2>3 DEF Goto, Labels, q
  <2>4. QED BY <2>2, <2>3 DEF Submit
<1>3. TypeOK /\ Inv /\ AloneInv
  BY DEF Good, Inv
<1>4. /\ pc' \in [Callers -> Labels] /\ copy' \in [Callers -> Requests]
      /\ pc'[c] = l /\ copy'[c] = q
      /\ \A d \in Callers : d # c => pc'[d] = pc[d] /\ copy'[d] = copy[d]
  BY <1>2, <1>3, Moves
<1>5. TypeOK'
  BY <1>1, <1>3, <1>4 DEF TypeOK, Labels
<1>6. Sound(q, cast) /\ row.ver = 0 /\ row.state = "NONE" /\ row.n = q.n
  <2>1. \A s \in Stages : q.n[s] = 0 /\ cast[s] \in Nat /\ ~ (s < 1)
    BY <1>2, <1>3, NoRequestFacts, StageFacts DEF TypeOK, Stages
  <2>2. row = NoRequest
    BY <1>1, <1>3 DEF Inv, AskedOK
  <2>3. QED BY <1>2, <2>1, <2>2, NoRequestFacts DEF Sound
<1>7. Enters(pc[c], copy[c])'
  BY <1>1, <1>2, <1>4, <1>6 DEF Enters, Works, Sanctioned, Final, Made
<1>8. Inv'
  <2>1. /\ \A s \in Stages : cast[s] <= cast'[s]
        /\ effects <= effects' /\ lateApplies' = lateApplies /\ ~ (lateApplies > 0)
    BY <1>1, <1>3 DEF Inv, AskedOK, Sanctioned, TypeOK
  <2>2. QED BY <1>1, <1>3, <1>4, <1>5, <1>7, <2>1, StepKeeps
<1>9. AloneInv'
  <2>1. alone' = "yes" => /\ alone = "yes" /\ \A d \in Callers : pc[d] = "idle"
                          /\ lateSaves' = {} /\ lateApplies' = 0
    BY <1>1, <1>3 DEF AloneInv
  <2>2. alone' = "yes" => row.n = cast /\ effects = 0
    BY <2>1, <1>3, <1>6 DEF AloneInv, Exact
  <2>3. alone' = "yes" => EntersAlone(pc[c], copy[c])'
    BY <2>2, <1>1, <1>2, <1>4, <1>6 DEF EntersAlone, Exact
  <2>4. QED BY <2>1, <2>3, <1>2, <1>3, AloneKeeps
<1>10. QED BY <1>8, <1>9 DEF Good

LEMMA LoadGood ==
  ASSUME Good, NEW c \in Callers, Load(c)
  PROVE  Good'
<1> DEFINE q == [row EXCEPT !.call = calls + 1]
<1>1. /\ row.state # "NONE" /\ row.state \notin Final /\ calls' = calls + 1
      /\ pc[c] = "idle" /\ alone' = (IF \A d \in Callers : pc[d] = "idle" THEN alone ELSE "no")
      /\ pc' = [pc EXCEPT ![c] = "loaded"] /\ copy' = [copy EXCEPT ![c] = q]
      /\ UNCHANGED <<row, lateSaves, lateApplies, asked, cast, effects>>
  BY DEF Load, Begin, Goto
<1>2. TypeOK /\ Inv /\ AloneInv /\ calls \in Nat /\ row \in Requests /\ "loaded" \in Labels
  BY DEF Good, Inv, TypeOK, Labels
<1>3. /\ q \in Requests /\ q.n = row.n /\ q.stage = row.stage /\ q.ver = row.ver
      /\ q.state = row.state
  BY <1>2 DEF Requests
<1>4. /\ pc' \in [Callers -> Labels] /\ copy' \in [Callers -> Requests]
      /\ pc'[c] = "loaded" /\ copy'[c] = q
      /\ \A d \in Callers : d # c => pc'[d] = pc[d] /\ copy'[d] = copy[d]
  BY <1>1, <1>2, <1>3, Moves
<1>5. TypeOK'
  BY <1>1, <1>2, <1>4 DEF TypeOK, Labels
<1>6. Sound(q, cast) /\ q.ver <= row.ver /\ asked # "no" /\ row.state # "APPROVED"
  <2>1. Stored(row, cast, effects, row.ver)
    BY <1>2 DEF Inv, StoredOK
  <2>2. asked # "no"
    BY <1>1, <1>2, NoRequestFacts DEF Inv, AskedOK
  <2>3. QED BY <2>1, <2>2, <1>3 DEF Stored, Sound
<1>7. Enters(pc[c], copy[c])'
  BY <1>1, <1>3, <1>4, <1>6 DEF Enters, Works, Final
<1>8. Inv'
  <2>1. (\A s \in Stages : cast[s] <= cast'[s]) /\ effects <= effects'
    BY <1>1, <1>2 DEF TypeOK
  <2>2. lateApplies' > 0 => Sanctioned(asked, cast)'
    BY <1>1, <1>2 DEF Inv, AskedOK, Sanctioned
  <2>3. QED BY <1>1, <1>2, <1>4, <1>5, <1>7, <2>1, <2>2, StepKeeps
<1>9. AloneInv'
  <2>1. alone' = "yes" => /\ alone = "yes" /\ \A d \in Callers : pc[d] = "idle"
                          /\ lateSaves' = {} /\ lateApplies' = 0 /\ Exact(row)
    BY <1>1, <1>2 DEF AloneInv
  <2>2. alone' = "yes" => EntersAlone(pc[c], copy[c])'
    BY <2>1, <1>1, <1>3, <1>4 DEF EntersAlone, Exact, Final
  <2>3. QED BY <2>1, <2>2, <1>1, <1>2, <1>3, AloneKeeps
<1>10. QED BY <1>8, <1>9 DEF Good

LEMMA ApproveGood ==
  ASSUME Good, NEW c \in Callers, Approve(c)
  PROVE  Good'
<1> DEFINE r == copy[c]
           q == Approved(r)
           l == IF q.state = "APPROVED" THEN "apply" ELSE "save"
<1>1. /\ pc[c] = "loaded" /\ pc' = [pc EXCEPT ![c] = l] /\ copy' = [copy EXCEPT ![c] = q]
      /\ cast' = [cast EXCEPT ![r.stage] = @ + 1]
      /\ UNCHANGED <<row, lateSaves, lateApplies, calls, asked, effects, alone>>
  BY DEF Approve, Goto
<1>2. /\ TypeOK /\ Inv /\ AloneInv /\ r \in Requests /\ r.stage \in Stages /\ l \in Labels
      /\ cast \in [Stages -> Nat] /\ row.ver \in Nat
  BY DEF Good, Inv, TypeOK, Labels, Requests
<1>3. /\ asked # "no" /\ Sound(r, cast) /\ r.ver <= row.ver
      /\ r.state \notin Final /\ r.state # "APPROVED"
  BY <1>1, <1>2 DEF Inv, CallersOK, Works
<1>4. /\ q \in Requests /\ q.ver = r.ver /\ q.state \in {r.state, "APPROVED"}
      /\ q.n = [r.n EXCEPT ![r.stage] = @ + 1]
  BY <1>2, <1>3, ApprovedFacts
<1>5. /\ Sound(q, cast') /\ cast' \in [Stages -> Nat]
      /\ q.state = "APPROVED" => \A s \in Stages : cast'[s] >= Need[s]
  <2>1. /\ Sound(q, [cast EXCEPT ![r.stage] = @ + 1])
        /\ q.state = "APPROVED" => \A s \in Stages : [cast EXCEPT ![r.stage] = @ + 1][s] >= Need[s]
    BY <1>2, <1>3, ApprovedSound
  <2>2. [cast EXCEPT ![r.stage] = @ + 1] \in [Stages -> Nat]
    BY <1>2
  <2>3. QED BY <2>1, <2>2, <1>1
<1>6. /\ pc' \in [Callers -> Labels] /\ copy' \in [Callers -> Requests]
      /\ pc'[c] = l /\ copy'[c] = q
      /\ \A d \in Callers : d # c => pc'[d] = pc[d] /\ copy'[d] = copy[d]
  BY <1>1, <1>2, <1>4, Moves
<1>7. TypeOK'
  BY <1>1, <1>2, <1>5, <1>6 DEF TypeOK, Labels
<1>8. row.state \in Final => r.ver < row.ver
  BY <1>1, <1>2 DEF Inv, ClosedIsFinal
<1>9. Enters(pc[c], copy[c])'
  <2>1. Works(l, q, cast', effects', row'.ver)
    BY <1>1, <1>3, <1>4, <1>5 DEF Works, Final, Made
  <2>2. l = "apply" => Sanctioned(asked', cast')
    BY <1>1, <1>2, <1>3, <1>5 DEF Sanctioned, TypeOK
  <2>3. q.state # "APPLIED"
    BY <1>3, <1>4 DEF Final
  <2>4. QED BY <2>1, <2>2, <2>3, <1>1, <1>3, <1>4, <1>6, <1>8 DEF Enters
<1>10. \A s \in Stages : cast[s] <= cast'[s]
  BY <1>1, <1>2
<1>11. Inv'
  <2>1. effects <= effects' /\ lateApplies' = lateApplies
    BY <1>1, <1>2 DEF TypeOK
  <2>2. lateApplies > 0 => Sanctioned(asked, cast)
    BY <1>2 DEF Inv, AskedOK
  <2>3. Sanctioned(asked, cast) => Sanctioned(asked', cast')
    BY <1>1, <1>2, <1>5, <1>10, StageFacts DEF Sanctioned
  <2>4. QED BY <1>1, <1>2, <1>6, <1>7, <1>9, <1>10, <2>1, <2>2, <2>3, StepKeeps
<1>12. AloneInv'
  <2>1. alone = "yes" => lateSaves = {} /\ lateApplies = 0 /\ r.n = cast /\ effects = 0
    BY <1>1, <1>2 DEF AloneInv
  <2>2. alone = "yes" => q.n = cast'
    BY <2>1, <1>1, <1>4
  <2>3. alone' = "yes" => EntersAlone(pc[c], copy[c])'
    BY <2>1, <2>2, <1>1, <1>3, <1>4, <1>6 DEF EntersAlone, Exact, Final
  <2>4. QED BY <2>1, <2>3, <1>1, <1>2, <1>4, AloneKeeps
<1>13. QED BY <1>11, <1>12 DEF Good

\* A caller that changes its copy but not its approvals: Decide, Escalate and the
\* outcomes of the application.
LEMMA WorkGood ==
  ASSUME Good, NEW c \in Callers, pc[c] \in {"loaded", "apply"}, NEW q \in Requests,
         q.n = copy[c].n, q.stage = copy[c].stage, q.ver = copy[c].ver, q.state # "APPROVED",
         q.state = "APPLIED" => pc[c] = "apply",
         pc' = [pc EXCEPT ![c] = "save"], copy' = [copy EXCEPT ![c] = q],
         UNCHANGED <<row, lateSaves, calls, asked, cast>>,
         \/ q.state = "APPLIED" /\ q.applier = "yes" /\ effects' = effects + 1
         \/ ~ (q.state = "APPLIED" /\ q.applier = "yes") /\ effects' = effects,
         lateApplies' \in Nat, lateApplies' = lateApplies \/ pc[c] = "apply",
         alone' \in {"no", alone}, alone' = "yes" => lateApplies' = lateApplies
  PROVE  Good'
<1>1. /\ TypeOK /\ Inv /\ AloneInv /\ copy[c] \in Requests /\ "save" \in Labels
      /\ effects \in Nat /\ alone \in {"yes", "no"} /\ effects' \in Nat /\ effects <= effects'
      /\ Made(q, effects')
  BY DEF Good, Inv, TypeOK, Labels, Made
<1>2. /\ asked # "no" /\ Sound(copy[c], cast) /\ copy[c].ver <= row.ver
      /\ pc[c] = "apply" => Sanctioned(asked, cast)
      /\ row.state \in Final => copy[c].ver < row.ver
  BY <1>1 DEF Inv, CallersOK, Works, ClosedIsFinal
<1>3. /\ pc' \in [Callers -> Labels] /\ copy' \in [Callers -> Requests]
      /\ pc'[c] = "save" /\ copy'[c] = q
      /\ \A d \in Callers : d # c => pc'[d] = pc[d] /\ copy'[d] = copy[d]
  BY <1>1, Moves
<1>4. TypeOK'
  BY <1>1, <1>3 DEF TypeOK, Labels
<1>5. Enters(pc[c], copy[c])'
  <2>1. q.state = "APPLIED" => Sanctioned(asked', cast')
    BY <1>2
  <2>2. QED BY <1>1, <1>2, <1>3, <2>1 DEF Enters, Works, Sound
<1>6. Inv'
  <2>1. \A s \in Stages : cast[s] <= cast'[s]
    BY <1>1 DEF TypeOK
  <2>2. lateApplies' > 0 => Sanctioned(asked, cast)'
    BY <1>1, <1>2 DEF Inv, AskedOK, Sanctioned
  <2>3. QED BY <1>1, <1>3, <1>4, <1>5, <2>1, <2>2, StepKeeps
<1>7. AloneInv'
  <2>1. alone = "yes" => lateSaves = {} /\ lateApplies = 0 /\ copy[c].n = cast /\ effects = 0
    BY <1>1 DEF AloneInv
  <2>2. alone' = "yes" => alone = "yes" /\ EntersAlone(pc[c], copy[c])'
    BY <2>1, <1>1, <1>3 DEF EntersAlone, Exact
  <2>3. QED BY <2>1, <2>2, <1>1, AloneKeeps
<1>8. QED BY <1>6, <1>7 DEF Good

\* A caller that leaves without a write: Refuse, DieApplying, SaveFails, SaveTimesOut.
LEMMA LeaveGood ==
  ASSUME Good, NEW c \in Callers, pc[c] # "idle", End(c),
         UNCHANGED <<row, calls, asked, cast, effects>>,
         lateApplies' \in Nat, lateApplies' = lateApplies \/ pc[c] = "apply",
         lateSaves' = lateSaves \/ (pc[c] = "save" /\ lateSaves' = lateSaves \cup {copy[c]}),
         \/ alone' = "no"
         \/ alone' = alone /\ pc[c] = "loaded" /\ UNCHANGED <<lateSaves, lateApplies>>
  PROVE  Good'
<1>1. /\ TypeOK /\ Inv /\ AloneInv /\ copy[c] \in Requests /\ "idle" \in Labels
      /\ pc' = [pc EXCEPT ![c] = "idle"] /\ copy' = [copy EXCEPT ![c] = NoRequest]
      /\ NoRequest \in Requests
  BY NoRequestFacts DEF Good, Inv, TypeOK, Labels, End, Goto
<1>2. /\ pc' \in [Callers -> Labels] /\ copy' \in [Callers -> Requests]
      /\ pc'[c] = "idle" /\ copy'[c] = NoRequest
      /\ \A d \in Callers : d # c => pc'[d] = pc[d] /\ copy'[d] = copy[d]
  BY <1>1, Moves
<1>3. TypeOK'
  BY <1>1, <1>2 DEF TypeOK, Labels
<1>4. \A r \in lateSaves' : r \in lateSaves \/
        /\ Stored(r, cast, effects, row.ver)'
        /\ row'.state \in Final => r.ver < row'.ver
        /\ r.state = "APPLIED" => Sanctioned(asked, cast)'
  BY <1>1 DEF Inv, CallersOK, Works, Stored, ClosedIsFinal, Sanctioned
<1>5. Inv'
  <2>1. (\A s \in Stages : cast[s] <= cast'[s]) /\ effects <= effects'
    BY <1>1 DEF TypeOK
  <2>2. lateApplies' > 0 => Sanctioned(asked, cast)'
    BY <1>1 DEF Inv, AskedOK, CallersOK, Sanctioned
  <2>3. asked # "no"
    BY <1>1 DEF Inv, CallersOK
  <2>4. QED BY <1>1, <1>2, <1>3, <1>4, <2>1, <2>2, <2>3, StepKeeps
<1>6. AloneInv'
  <2>1. alone' = "yes" => /\ alone = "yes" /\ lateSaves' = {} /\ lateApplies' = 0 /\ Exact(row)
    BY <1>1 DEF AloneInv
  <2>2. alone' = "yes" => EntersAlone(pc[c], copy[c])'
    BY <2>1, <1>2 DEF EntersAlone, Exact
  <2>3. QED BY <2>1, <2>2, <1>1, AloneKeeps
<1>7. QED BY <1>5, <1>6 DEF Good

\* The row after a write.
LEMMA WriteFacts ==
  ASSUME TypeOK, NEW r \in Requests, Write(r), Stored(r, cast, effects, row.ver),
         UNCHANGED <<cast, effects>>
  PROVE  /\ row' \in Requests /\ row'.state = r.state /\ row'.n = r.n /\ row'.applier = r.applier
         /\ row.ver \in Nat /\ row'.ver = row.ver + 1
         /\ Stored(row, cast, effects, row.ver)'
<1>1. row.ver \in Nat
  BY DEF TypeOK, Requests
<1>2. /\ row' \in Requests /\ row'.state = r.state /\ row'.n = r.n /\ row'.stage = r.stage
      /\ row'.ver = row.ver + 1 /\ row'.applier = r.applier
  <2> DEFINE q == [r EXCEPT !.ver = row.ver + 1]
  <2>1. /\ q \in Requests /\ q.state = r.state /\ q.n = r.n /\ q.stage = r.stage
        /\ q.ver = row.ver + 1 /\ q.applier = r.applier
    BY <1>1 DEF Requests
  <2>2. row' = [q EXCEPT !.call = 0]
    BY DEF Write
  <2> HIDE DEF q
  <2>3. QED BY <2>1, <2>2 DEF Requests
<1>3. Stored(row, cast, effects, row.ver)'
  BY <1>1, <1>2 DEF Stored, Sound, Made
<1>4. QED BY <1>1, <1>2, <1>3

LEMMA SaveGood ==
  ASSUME Good, NEW c \in Callers, Save(c)
  PROVE  Good'
<1>1. /\ TypeOK /\ Inv /\ AloneInv /\ copy[c] \in Requests /\ "idle" \in Labels
      /\ pc' = [pc EXCEPT ![c] = "idle"] /\ copy' = [copy EXCEPT ![c] = NoRequest]
      /\ NoRequest \in Requests /\ pc[c] = "save" /\ Write(copy[c])
      /\ UNCHANGED <<lateSaves, lateApplies, calls, asked, cast, effects, alone>>
  BY NoRequestFacts DEF Good, Inv, TypeOK, Labels, Save, End, Goto
<1>2. /\ pc' \in [Callers -> Labels] /\ copy' \in [Callers -> Requests]
      /\ pc'[c] = "idle" /\ copy'[c] = NoRequest
      /\ \A d \in Callers : d # c => pc'[d] = pc[d] /\ copy'[d] = copy[d]
  BY <1>1, Moves
<1>3. /\ Stored(copy[c], cast, effects, row.ver) /\ asked # "no"
      /\ copy[c].state = "APPLIED" => Sanctioned(asked, cast)
  BY <1>1 DEF Inv, CallersOK, Works, Stored
<1>4. /\ row' \in Requests /\ row'.state = copy[c].state /\ row'.n = copy[c].n
      /\ row'.applier = copy[c].applier
      /\ row.ver < row'.ver /\ Stored(row, cast, effects, row.ver)'
      /\ row'.state = "APPLIED" => Sanctioned(asked, cast)'
  BY <1>1, <1>3, WriteFacts DEF Sanctioned
<1>5. TypeOK'
  BY <1>1, <1>2, <1>3, <1>4 DEF TypeOK, Labels, Stored
<1>6. Inv'
  <2>1. (\A s \in Stages : cast[s] <= cast'[s]) /\ effects <= effects'
    BY <1>1 DEF TypeOK
  <2>2. lateApplies' > 0 => Sanctioned(asked, cast)'
    BY <1>1 DEF Inv, AskedOK, Sanctioned
  <2>3. QED BY <1>1, <1>2, <1>3, <1>4, <1>5, <2>1, <2>2, StepKeeps
<1>7. AloneInv'
  <2>1. alone' = "yes" => /\ alone = "yes" /\ lateSaves' = {} /\ lateApplies' = 0
                          /\ Exact(copy[c])
    BY <1>1 DEF AloneInv
  <2>2. alone' = "yes" => EntersAlone(pc[c], copy[c])'
    BY <2>1, <1>1, <1>2, <1>4 DEF EntersAlone, Exact
  <2>3. QED BY <2>1, <2>2, <1>1, AloneKeeps
<1>8. QED BY <1>6, <1>7 DEF Good

LEMMA LateSaveGood ==
  ASSUME Good, NEW r \in lateSaves, LateSave(r)
  PROVE  Good'
<1>1. /\ TypeOK /\ Inv /\ AloneInv /\ r \in Requests
      /\ lateSaves' = lateSaves \ {r} /\ (Write(r) \/ UNCHANGED row)
      /\ UNCHANGED <<pc, copy, lateApplies, calls, asked, cast, effects, alone>>
  BY DEF Good, Inv, TypeOK, LateSave
<1>2. /\ Stored(r, cast, effects, row.ver) /\ asked # "no" /\ alone = "no"
      /\ r.state = "APPLIED" => Sanctioned(asked, cast)
  BY <1>1 DEF Inv, StoredOK, AskedOK, AloneInv, TypeOK
<1>3. /\ row' \in Requests /\ row'.state # "APPROVED"
      /\ row' = row \/
           /\ row.ver < row'.ver /\ Stored(row, cast, effects, row.ver)'
           /\ row'.state = "APPLIED" => Sanctioned(asked, cast)'
  <2>1. CASE Write(r)
    BY <2>1, <1>1, <1>2, WriteFacts DEF Stored, Sanctioned
  <2>2. CASE UNCHANGED row
    BY <2>2, <1>1 DEF TypeOK
  <2>3. QED BY <1>1, <2>1, <2>2
<1>4. TypeOK'
  BY <1>1, <1>3 DEF TypeOK
<1>5. Inv'
  <2>1. (\A s \in Stages : cast[s] <= cast'[s]) /\ effects <= effects'
    BY <1>1 DEF TypeOK
  <2>2. lateApplies' > 0 => Sanctioned(asked, cast)'
    BY <1>1 DEF Inv, AskedOK, Sanctioned
  <2>3. QED BY <1>1, <1>2, <1>3, <1>4, <2>1, <2>2, StepKeeps
<1>6. AloneInv'
  BY <1>1, <1>2 DEF AloneInv
<1>7. QED BY <1>5, <1>6 DEF Good

LEMMA LateApplyGood ==
  ASSUME Good, LateApply
  PROVE  Good'
<1>1. /\ TypeOK /\ Inv /\ AloneInv /\ lateApplies > 0 /\ lateApplies' = lateApplies - 1
      /\ effects' \in {effects, effects + 1}
      /\ UNCHANGED <<row, pc, copy, lateSaves, calls, asked, cast, alone>>
  BY DEF Good, Inv, LateApply
<1>2. TypeOK' /\ effects <= effects' /\ \A s \in Stages : cast[s] <= cast'[s]
  BY <1>1 DEF TypeOK
<1>3. Sanctioned(asked, cast)' /\ alone = "no"
  BY <1>1 DEF Inv, AskedOK, Sanctioned, AloneInv, TypeOK
<1>4. Inv'
  BY <1>1, <1>2, <1>3, StepKeeps DEF Sanctioned
<1>5. AloneInv'
  BY <1>1, <1>3 DEF AloneInv
<1>6. QED BY <1>4, <1>5 DEF Good

\* A copy whose state is replaced is otherwise the same.
LEMMA StateFacts ==
  ASSUME NEW r \in Requests, NEW state \in States
  PROVE  /\ [r EXCEPT !.state = state] \in Requests /\ [r EXCEPT !.state = state].n = r.n
         /\ [r EXCEPT !.state = state].stage = r.stage /\ [r EXCEPT !.state = state].ver = r.ver
         /\ [r EXCEPT !.state = state].state = state
         /\ [r EXCEPT !.state = state].applier = r.applier
BY DEF Requests

Outcomes == {"REJECTED", "WITHDRAWN", "EXPIRED", "IN_REVIEW"}

LEMMA DecideGood ==
  ASSUME Good, NEW c \in Callers,
         (\E s \in Outcomes : Decide(c, s)) \/ Escalate(c)
  PROVE  Good'
<1>1. /\ TypeOK /\ copy \in [Callers -> Requests] /\ copy[c] \in Requests /\ effects \in Nat
      /\ pc[c] = "loaded" => copy[c].state \notin Final /\ copy[c].state # "APPROVED"
      /\ lateApplies \in Nat
  BY DEF Good, Inv, TypeOK, CallersOK, Works
<1>2. CASE \E s \in Outcomes : Decide(c, s)
  <2>1. PICK s \in Outcomes : Decide(c, s)
    BY <1>2
  <2> DEFINE q == [copy[c] EXCEPT !.state = s]
  <2>2. s \in States /\ s # "APPROVED" /\ s # "APPLIED"
    BY DEF Outcomes, States, Final
  <2>3. /\ q \in Requests /\ q.n = copy[c].n /\ q.stage = copy[c].stage /\ q.ver = copy[c].ver
        /\ q.state = s /\ copy' = [copy EXCEPT ![c] = q]
    BY <1>1, <2>1, <2>2, StateFacts DEF Decide
  <2> HIDE DEF q
  <2>4. /\ pc[c] \in {"loaded", "apply"} /\ pc' = [pc EXCEPT ![c] = "save"]
        /\ UNCHANGED <<row, lateSaves, calls, asked, cast>>
        /\ effects' = effects /\ lateApplies' = lateApplies /\ alone' = alone
    BY <2>1 DEF Decide, Goto
  <2>5. QED BY <1>1, <2>2, <2>3, <2>4, WorkGood
<1>3. CASE Escalate(c)
  <2> DEFINE q == [copy[c] EXCEPT !.escalated = "yes"]
  <2>1. /\ q \in Requests /\ q.n = copy[c].n /\ q.stage = copy[c].stage /\ q.ver = copy[c].ver
        /\ q.state = copy[c].state /\ copy' = [copy EXCEPT ![c] = q]
    BY <1>1, <1>3 DEF Escalate, Requests
  <2> HIDE DEF q
  <2>2. /\ pc[c] \in {"loaded", "apply"} /\ pc' = [pc EXCEPT ![c] = "save"]
        /\ UNCHANGED <<row, lateSaves, calls, asked, cast>>
        /\ effects' = effects /\ lateApplies' = lateApplies /\ alone' = alone
    BY <1>3 DEF Escalate, Goto
  <2>3. q.state # "APPROVED" /\ q.state # "APPLIED"
    BY <1>1, <1>3, <2>1 DEF Escalate, Final
  <2>4. QED BY <1>1, <2>1, <2>2, <2>3, WorkGood
<1>4. QED BY <1>2, <1>3

LEMMA ApplyGood ==
  ASSUME Good, NEW c \in Callers, Apply(c) \/ ApplyFails(c) \/ ApplyTimesOut(c)
  PROVE  Good'
<1>1. /\ TypeOK /\ copy \in [Callers -> Requests] /\ copy[c] \in Requests /\ effects \in Nat
      /\ lateApplies \in Nat /\ pc[c] = "apply"
  BY DEF Good, Inv, TypeOK, Apply, ApplyFails, ApplyTimesOut
<1>2. ASSUME NEW s \in {"APPLIED", "IN_REVIEW"}, copy' = [copy EXCEPT ![c].state = s]
      PROVE  \E q \in Requests :
               /\ q.n = copy[c].n /\ q.stage = copy[c].stage /\ q.ver = copy[c].ver
               /\ q.state = s /\ q.applier = copy[c].applier /\ copy' = [copy EXCEPT ![c] = q]
  <2>1. s \in States
    BY DEF States, Final
  <2>2. QED BY <1>1, <1>2, <2>1, StateFacts
<1>3. CASE Apply(c)
  <2>1. PICK q \in Requests :
               /\ q.n = copy[c].n /\ q.stage = copy[c].stage /\ q.ver = copy[c].ver
               /\ q.state = "APPLIED" /\ q.applier = copy[c].applier
               /\ copy' = [copy EXCEPT ![c] = q]
    BY <1>2, <1>3 DEF Apply
  <2>2. /\ pc[c] \in {"loaded", "apply"} /\ pc' = [pc EXCEPT ![c] = "save"]
        /\ UNCHANGED <<row, lateSaves, calls, asked, cast>>
        /\ effects' = IF q.applier = "yes" THEN effects + 1 ELSE effects
        /\ lateApplies' = lateApplies /\ alone' = alone
    BY <1>1, <1>3, <2>1 DEF Apply, Goto
  <2>3. QED BY <1>1, <2>1, <2>2, WorkGood
<1>4. CASE ApplyFails(c)
  <2>1. PICK q \in Requests :
               /\ q.n = copy[c].n /\ q.stage = copy[c].stage /\ q.ver = copy[c].ver
               /\ q.state = "IN_REVIEW" /\ copy' = [copy EXCEPT ![c] = q]
    BY <1>2, <1>4 DEF ApplyFails
  <2>2. /\ pc[c] \in {"loaded", "apply"} /\ pc' = [pc EXCEPT ![c] = "save"]
        /\ UNCHANGED <<row, lateSaves, calls, asked, cast>>
        /\ effects' = effects /\ lateApplies' = lateApplies /\ alone' = alone
    BY <1>1, <1>4 DEF ApplyFails, Goto
  <2>3. QED BY <1>1, <2>1, <2>2, WorkGood
<1>5. CASE ApplyTimesOut(c)
  <2>1. PICK q \in Requests :
               /\ q.n = copy[c].n /\ q.stage = copy[c].stage /\ q.ver = copy[c].ver
               /\ q.state = "IN_REVIEW" /\ copy' = [copy EXCEPT ![c] = q]
    BY <1>2, <1>5 DEF ApplyTimesOut
  <2>2. /\ pc[c] \in {"loaded", "apply"} /\ pc' = [pc EXCEPT ![c] = "save"]
        /\ UNCHANGED <<row, lateSaves, calls, asked, cast>>
        /\ effects' = effects /\ lateApplies' \in Nat /\ alone' = "no"
    BY <1>1, <1>5 DEF ApplyTimesOut, Goto
  <2>3. QED BY <1>1, <2>1, <2>2, WorkGood
<1>6. QED BY <1>3, <1>4, <1>5

LEMMA EndGood ==
  ASSUME Good, NEW c \in Callers,
         Refuse(c) \/ DieApplying(c) \/ SaveFails(c) \/ SaveTimesOut(c)
  PROVE  Good'
<1>1. lateApplies \in Nat
  BY DEF Good, Inv, TypeOK
<1>2. CASE Refuse(c)
  BY <1>1, <1>2, LeaveGood DEF Refuse
<1>3. CASE DieApplying(c)
  BY <1>1, <1>3, LeaveGood DEF DieApplying
<1>4. CASE SaveFails(c)
  BY <1>1, <1>4, LeaveGood DEF SaveFails
<1>5. CASE SaveTimesOut(c)
  BY <1>1, <1>5, LeaveGood DEF SaveTimesOut
<1>6. QED BY <1>2, <1>3, <1>4, <1>5

LEMMA StepGood == Good /\ [Next]_vars => Good'
<1> SUFFICES ASSUME Good, [Next]_vars PROVE Good'
  OBVIOUS
<1>1. CASE UNCHANGED vars
  <2>1. /\ UNCHANGED <<row, pc, copy, lateSaves, lateApplies, calls, asked, cast, effects, alone>>
    BY <1>1 DEF vars
  <2>2. TypeOK' /\ CallersOK' /\ StoredOK' /\ AskedOK'
    BY <2>1 DEF Good, Inv, TypeOK, CallersOK, StoredOK, AskedOK
  <2>3. ClosedIsFinal' /\ AloneInv'
    BY <2>1 DEF Good, Inv, ClosedIsFinal, AloneInv, Exact
  <2>4. QED BY <2>2, <2>3 DEF Good, Inv
<1>2. ASSUME NEW c \in Callers,
             Reject(c) \/ RequestMoreInfo(c) \/ Withdraw(c) \/ Expire(c) \/ Escalate(c)
      PROVE  Good'
  <2>1. (\E s \in Outcomes : Decide(c, s)) \/ Escalate(c)
    BY <1>2 DEF Reject, RequestMoreInfo, Withdraw, Expire, Outcomes
  <2>2. QED BY <2>1, DecideGood
<1>3. CASE Next
  BY <1>2, <1>3, SubmitGood, LoadGood, ApproveGood, ApplyGood, EndGood, SaveGood,
     LateSaveGood, LateApplyGood DEF Next
<1>4. QED BY <1>1, <1>3

-----------------------------------------------------------------------------
\* The inductive invariant holds in every reachable state.
THEOREM GoodHolds == Spec => []Good
BY InitGood, StepGood, PTL DEF Spec

\* The types, for any number of callers and stages.
THEOREM TypeCorrect == Spec => []TypeOK
<1>1. Good => TypeOK
  BY DEF Good, Inv
<1>2. QED BY <1>1, GoodHolds, PTL

\* A stored APPLIED has a change behind it, whatever failed or came late.
THEOREM Backed == Spec => []AppliedIsBacked
<1>1. Good => AppliedIsBacked
  BY DEF Good, Inv, StoredOK, Stored, Made, Sanctioned, AppliedIsBacked
<1>2. QED BY <1>1, GoodHolds, PTL

\* Undisturbed operations lose no approval and apply the change once.
THEOREM ExactAlone == Spec => []AloneIsExact
<1>1. Good => AloneIsExact
  BY DEF Good, AloneInv, AloneIsExact, Exact
<1>2. QED BY <1>1, GoodHolds, PTL

\* Only an operation that had loaded the request before touches a finalized one.
THEOREM Closed == Spec => []ClosedIsFinal
<1>1. Good => ClosedIsFinal
  BY DEF Good, Inv
<1>2. QED BY <1>1, GoodHolds, PTL

-----------------------------------------------------------------------------
\* The applications that were made, are on their way or are being made: each has an
\* approval of the last stage of its own, on top of those that complete the stage.
Applying == {c \in Callers : pc[c] = "apply"}
Tries == effects + lateApplies + Cardinality(Applying)
Dues == IF asked = "waived" THEN 0 ELSE Need[Last]

PaidInv ==
  /\ asked = "no" => effects = 0
  /\ Tries > 0 => Tries + Dues <= cast[Last] + 1

\* How the number of callers that apply the change moves with one of them.
LEMMA ApplyingMoves ==
  ASSUME TypeOK, NEW c \in Callers, NEW l, pc' = [pc EXCEPT ![c] = l]
  PROVE  /\ Cardinality(Applying) \in Nat /\ Cardinality(Applying') \in Nat
         /\ l = "apply" /\ pc[c] # "apply" => Cardinality(Applying') = Cardinality(Applying) + 1
         /\ l # "apply" /\ pc[c] = "apply" => Cardinality(Applying) = Cardinality(Applying') + 1
         /\ (l = "apply" <=> pc[c] = "apply") => Applying' = Applying
<1>1. /\ pc'[c] = l /\ \A d \in Callers : d # c => pc'[d] = pc[d]
  BY DEF TypeOK
<1>2. IsFiniteSet(Callers) /\ Applying \subseteq Callers /\ Applying' \subseteq Callers
  BY WorkflowAssumption DEF Applying
<1>3. IsFiniteSet(Applying) /\ IsFiniteSet(Applying')
  BY <1>2, FS_Subset
<1>4. Cardinality(Applying) \in Nat /\ Cardinality(Applying') \in Nat
  BY <1>3, FS_CardinalityType
<1>5. CASE l = "apply" /\ pc[c] # "apply"
  <2>1. Applying' = Applying \cup {c} /\ c \notin Applying
    BY <1>1, <1>5 DEF Applying
  <2>2. QED BY <2>1, <1>3, <1>4, <1>5, FS_AddElement
<1>6. CASE l # "apply" /\ pc[c] = "apply"
  <2>1. Applying = Applying' \cup {c} /\ c \notin Applying'
    BY <1>1, <1>6 DEF Applying
  <2>2. QED BY <2>1, <1>3, <1>4, <1>6, FS_AddElement
<1>7. CASE l = "apply" <=> pc[c] = "apply"
  <2>1. Applying' = Applying
    BY <1>1, <1>7 DEF Applying
  <2>2. QED BY <2>1, <1>4, <1>7
<1>8. QED BY <1>5, <1>6, <1>7

\* Applications that are not begun here need no further approval.
LEMMA PaidKeeps ==
  ASSUME Good, PaidInv, TypeOK', asked' = asked, Tries \in Nat, Tries' \in Nat,
         Tries' <= Tries, cast[Last] <= cast'[Last], asked = "no" => effects' = effects
  PROVE  PaidInv'
<1>1. cast[Last] \in Nat /\ cast'[Last] \in Nat /\ Dues \in Nat /\ Dues' = Dues
  BY StageFacts DEF Good, Inv, TypeOK, Dues
<1>2. Tries' > 0 => Tries' + Dues' <= cast'[Last] + 1
  BY <1>1 DEF PaidInv
<1>3. QED BY <1>2 DEF PaidInv

LEMMA InitPaid == Init => PaidInv
<1> SUFFICES ASSUME Init PROVE PaidInv
  OBVIOUS
<1>1. Applying = {}
  BY DEF Init, Applying
<1>2. Tries = 0
  BY <1>1, FS_EmptySet DEF Init, Tries
<1>3. QED BY <1>2 DEF Init, PaidInv

LEMMA StepPaid == Good /\ PaidInv /\ [Next]_vars => PaidInv'
<1> SUFFICES ASSUME Good, PaidInv, [Next]_vars PROVE PaidInv'
  OBVIOUS
<1>1. /\ Good' /\ TypeOK /\ TypeOK' /\ effects \in Nat /\ effects' \in Nat
      /\ lateApplies \in Nat /\ lateApplies' \in Nat
      /\ cast \in [Stages -> Nat] /\ cast' \in [Stages -> Nat] /\ Last \in Stages
  BY StepGood, StageFacts DEF Good, Inv, TypeOK
<1>2. /\ cast[Last] \in Nat /\ cast'[Last] \in Nat /\ Need[Last] \in Nat
  BY <1>1, StageFacts
<1>3. ASSUME NEW c \in Callers, Submit(c) PROVE PaidInv'
  <2>1. /\ asked = "no" /\ asked' \in {"waived", "review"} /\ pc[c] = "idle"
        /\ UNCHANGED <<lateApplies, cast, effects>>
    BY <1>3 DEF Submit, Begin
  <2>2. PICK l \in {"apply", "save"} :
          pc' = [pc EXCEPT ![c] = l] /\ (l = "apply" => asked' = "waived")
    BY <1>3 DEF Submit, Goto
  <2>3. effects = 0 /\ lateApplies = 0 /\ Applying = {}
    BY <1>1, <2>1 DEF PaidInv, Good, Inv, AskedOK, CallersOK, Sanctioned, Applying
  <2>4. Cardinality(Applying) = 0
    BY <2>3, FS_EmptySet
  <2>5. Cardinality(Applying') = IF l = "apply" THEN 1 ELSE 0
    <3>1. l = "apply" => Cardinality(Applying') = Cardinality(Applying) + 1
      BY <1>1, <2>1, <2>2, ApplyingMoves
    <3>2. l # "apply" => Applying' = Applying
      BY <1>1, <2>1, <2>2, ApplyingMoves
    <3>3. QED BY <3>1, <3>2, <2>4
  <2>6. Tries' = IF l = "apply" THEN 1 ELSE 0
    BY <2>1, <2>3, <2>5 DEF Tries
  <2>7. l = "apply" => Dues' = 0
    BY <2>2 DEF Dues
  <2>8. QED BY <1>2, <2>1, <2>2, <2>6, <2>7 DEF PaidInv
<1>4. ASSUME NEW c \in Callers, Approve(c) PROVE PaidInv'
  <2> DEFINE r == copy[c]
             l == IF Approved(r).state = "APPROVED" THEN "apply" ELSE "save"
  <2>1. /\ pc[c] = "loaded" /\ pc' = [pc EXCEPT ![c] = l] /\ r \in Requests
        /\ cast' = [cast EXCEPT ![r.stage] = @ + 1]
        /\ UNCHANGED <<lateApplies, asked, effects>>
    BY <1>1, <1>4 DEF Approve, Goto, TypeOK
  <2>2. /\ r.state # "APPROVED" /\ Sound(r, cast) /\ r.stage \in Stages /\ asked # "no"
    BY <1>1, <2>1 DEF Good, Inv, CallersOK, Works, Requests
  <2>3. cast[Last] <= cast'[Last]
    BY <1>1, <2>1, <2>2
  <2>4. CASE Approved(r).state # "APPROVED"
    <3>1. Cardinality(Applying) \in Nat /\ Applying' = Applying
      BY <1>1, <2>1, <2>4, ApplyingMoves
    <3>2. Tries \in Nat /\ Tries' = Tries
      BY <1>1, <2>1, <3>1 DEF Tries
    <3>3. QED BY <1>1, <2>1, <2>2, <2>3, <3>2, PaidKeeps
  <2>5. CASE Approved(r).state = "APPROVED"
    <3>1. r.stage = Last /\ r.n[Last] + 1 >= Need[Last] /\ r.n[Last] \in Nat
      BY <1>1, <2>1, <2>2, <2>5, ApprovedFacts DEF Requests
    <3>2. cast'[Last] = cast[Last] + 1 /\ cast'[Last] >= Need[Last]
      BY <1>1, <1>2, <2>1, <2>2, <3>1 DEF Sound
    <3>3. /\ Cardinality(Applying) \in Nat
          /\ Cardinality(Applying') = Cardinality(Applying) + 1
      BY <1>1, <2>1, <2>5, ApplyingMoves
    <3>4. Tries \in Nat /\ Tries' = Tries + 1
      BY <1>1, <2>1, <3>3 DEF Tries
    <3>5. Dues' = Dues /\ Dues \in Nat /\ Dues <= Need[Last]
      BY <1>2, <2>1 DEF Dues
    <3>6. Tries' + Dues' <= cast'[Last] + 1
      BY <1>2, <3>2, <3>4, <3>5 DEF PaidInv
    <3>7. QED BY <2>1, <2>2, <3>6 DEF PaidInv
  <2>6. QED BY <2>4, <2>5
<1>5. ASSUME NEW c \in Callers,
             \/ Apply(c) \/ ApplyFails(c) \/ ApplyTimesOut(c) \/ DieApplying(c)
      PROVE  PaidInv'
  <2>1. PICK l \in {"save", "idle"} : pc' = [pc EXCEPT ![c] = l]
    BY <1>5 DEF Apply, ApplyFails, ApplyTimesOut, DieApplying, End, Goto
  <2>2. /\ pc[c] = "apply" /\ UNCHANGED <<asked, cast>>
        /\ \/ effects' = effects /\ lateApplies' \in {lateApplies, lateApplies + 1}
           \/ effects' = effects + 1 /\ lateApplies' = lateApplies
    BY <1>5 DEF Apply, ApplyFails, ApplyTimesOut, DieApplying
  <2>3. /\ Cardinality(Applying') \in Nat
        /\ Cardinality(Applying) = Cardinality(Applying') + 1
    BY <1>1, <2>1, <2>2, ApplyingMoves
  <2>4. Tries \in Nat /\ Tries' \in Nat /\ Tries' <= Tries
    BY <1>1, <2>2, <2>3 DEF Tries
  <2>5. asked # "no"
    BY <2>2 DEF Good, Inv, CallersOK
  <2>6. QED BY <1>1, <1>2, <2>2, <2>4, <2>5, PaidKeeps
<1>6. CASE LateApply
  <2>1. /\ lateApplies > 0 /\ lateApplies' = lateApplies - 1
        /\ effects' \in {effects, effects + 1} /\ UNCHANGED <<pc, asked, cast>>
    BY <1>6 DEF LateApply
  <2>2. Cardinality(Applying) \in Nat /\ Applying' = Applying
    <3>1. IsFiniteSet(Applying)
      BY WorkflowAssumption, FS_Subset DEF Applying
    <3>2. QED BY <2>1, <3>1, FS_CardinalityType DEF Applying
  <2>3. Tries \in Nat /\ Tries' \in Nat /\ Tries' <= Tries
    BY <1>1, <2>1, <2>2 DEF Tries
  <2>4. asked # "no"
    BY <2>1 DEF Good, Inv, AskedOK, Sanctioned
  <2>5. QED BY <1>1, <1>2, <2>1, <2>3, <2>4, PaidKeeps
<1>7. ASSUME UNCHANGED <<asked, cast, effects, lateApplies>>, Applying' = Applying
      PROVE  PaidInv'
  <2>1. Tries' = Tries /\ Dues' = Dues
    BY <1>7 DEF Tries, Dues
  <2>2. QED BY <1>7, <2>1 DEF PaidInv
<1>8. ASSUME NEW c \in Callers,
             \/ Load(c) \/ Reject(c) \/ RequestMoreInfo(c) \/ Withdraw(c) \/ Expire(c)
             \/ Escalate(c) \/ Refuse(c) \/ Save(c) \/ SaveFails(c) \/ SaveTimesOut(c)
      PROVE  PaidInv'
  <2>1. /\ UNCHANGED <<asked, cast, effects, lateApplies>> /\ pc[c] # "apply"
        /\ \E l \in {"idle", "loaded", "save"} : pc' = [pc EXCEPT ![c] = l]
    BY <1>8 DEF Load, Begin, Decide, Reject, RequestMoreInfo, Withdraw, Expire, Escalate,
                Refuse, Save, SaveFails, SaveTimesOut, End, Goto
  <2>2. Applying' = Applying
    BY <1>1, <2>1, ApplyingMoves
  <2>3. QED BY <2>1, <2>2, <1>7
<1>9. ASSUME (\E r \in lateSaves : LateSave(r)) \/ UNCHANGED vars PROVE PaidInv'
  <2>1. UNCHANGED <<pc, asked, cast, effects, lateApplies>>
    BY <1>9 DEF LateSave, vars
  <2>2. Applying' = Applying
    BY <2>1 DEF Applying
  <2>3. QED BY <2>1, <2>2, <1>7
<1>10. QED BY <1>3, <1>4, <1>5, <1>6, <1>8, <1>9 DEF Next

\* Every application of the change beyond the first has a further approval behind it.
THEOREM RepeatsPaid == Spec => []RepeatsTakeVotes
<1>1. Good /\ PaidInv => RepeatsTakeVotes
  <2> SUFFICES ASSUME Good, PaidInv, effects > 0
               PROVE  effects + Dues <= cast[Last] + 1
    BY DEF RepeatsTakeVotes, Dues
  <2>1. /\ effects \in Nat /\ lateApplies \in Nat /\ cast[Last] \in Nat /\ Need[Last] \in Nat
    BY StageFacts DEF Good, Inv, TypeOK
  <2>2. IsFiniteSet(Applying)
    BY WorkflowAssumption, FS_Subset DEF Applying
  <2>3. Cardinality(Applying) \in Nat /\ Dues \in Nat
    BY <2>1, <2>2, FS_CardinalityType DEF Dues
  <2>4. QED BY <2>1, <2>3 DEF PaidInv, Tries
<1>2. QED BY <1>1, InitPaid, StepPaid, GoodHolds, PTL DEF Spec

-----------------------------------------------------------------------------
\* A step of a caller or a late change is a step of the contract, or none.
LEMMA StepHonours == Good /\ [Next]_vars => [Contract!Next]_(Contract!contractVars)
<1> SUFFICES ASSUME Good, [Next]_vars
             PROVE  Contract!Next \/ UNCHANGED <<asked, cast, effects>>
  BY DEF Contract!contractVars
<1> USE DEF Contract!Next
<1>1. CASE UNCHANGED vars
  BY <1>1 DEF vars
<1>2. ASSUME NEW c \in Callers, Submit(c) PROVE Contract!Next
  <2>1. Contract!Ask
    BY <1>2 DEF Submit, Contract!Ask
  <2>2. QED BY <2>1
<1>3. ASSUME NEW c \in Callers, Approve(c) PROVE Contract!Next
  <2>1. pc[c] = "loaded" /\ copy[c] \in Requests
    BY <1>3 DEF Approve, Good, Inv, TypeOK
  <2>2. /\ asked # "no" /\ Sound(copy[c], cast) /\ copy[c].stage \in Stages
        /\ copy[c].n \in [Stages -> Nat] /\ cast \in [Stages -> Nat]
    BY <2>1 DEF Good, Inv, CallersOK, Works, Requests, TypeOK
  <2>3. \A t \in Stages : t < copy[c].stage => Contract!Done(t)
    BY <2>2, StageFacts DEF Sound, Contract!Done
  <2>4. Contract!Cast(copy[c].stage)
    BY <1>3, <2>2, <2>3 DEF Approve, Contract!Cast
  <2>5. QED BY <2>2, <2>4
<1>4. ASSUME NEW c \in Callers, Apply(c)
      PROVE  Contract!Next \/ UNCHANGED <<asked, cast, effects>>
  <2>1. Sanctioned(asked, cast)
    BY <1>4 DEF Apply, Good, Inv, CallersOK
  <2>2. Contract!Effect \/ UNCHANGED <<asked, cast, effects>>
    BY <1>4, <2>1 DEF Apply, Sanctioned, Contract!Effect, Contract!Done
  <2>3. QED BY <2>2
<1>5. CASE LateApply
  <2>1. Sanctioned(asked, cast)
    BY <1>5 DEF LateApply, Good, Inv, AskedOK
  <2>2. Contract!Effect \/ UNCHANGED <<asked, cast, effects>>
    BY <1>5, <2>1 DEF LateApply, Sanctioned, Contract!Effect, Contract!Done
  <2>3. QED BY <2>2
<1>6. ASSUME NEW c \in Callers,
             \/ Load(c) \/ Reject(c) \/ RequestMoreInfo(c) \/ Withdraw(c) \/ Expire(c)
             \/ Escalate(c) \/ Refuse(c) \/ ApplyFails(c) \/ ApplyTimesOut(c)
             \/ DieApplying(c) \/ Save(c) \/ SaveFails(c) \/ SaveTimesOut(c)
      PROVE  UNCHANGED <<asked, cast, effects>>
  BY <1>6 DEF Load, Decide, Reject, RequestMoreInfo, Withdraw, Expire, Escalate, Refuse,
              ApplyFails, ApplyTimesOut, DieApplying, Save, SaveFails, SaveTimesOut
<1>7. ASSUME NEW r \in lateSaves, LateSave(r) PROVE UNCHANGED <<asked, cast, effects>>
  BY <1>7 DEF LateSave
<1>8. QED BY <1>1, <1>2, <1>3, <1>4, <1>5, <1>6, <1>7 DEF Next

\* The service implements the contract: no interleaving, failure or late save lets the
\* change take effect without the approvals of every stage.
THEOREM Honours == Spec => HonoursContract
<1>1. Init => Contract!Init
  BY DEF Init, Contract!Init
<1>2. QED BY <1>1, StepHonours, GoodHolds, PTL DEF Spec, HonoursContract, Contract!Spec

=============================================================================
