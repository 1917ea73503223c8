---------------------------- MODULE EventFormProofs ----------------------------
(* Proofs about EventForm, and so about Registry, for any number of        *)
(* requests, rows, codes and forms.                                        *)
EXTENDS EventForm, RegistryProofs

(***************************************************************************)
(* The form.  What it waits for is its own request, what it was told of is *)
(* still what it asked for, and a request it gave up is among the silent   *)
(* ones, so a row it was not told of can only come from such a request.    *)
(***************************************************************************)
Waits(f) ==
  /\ phase[f] = "idle" => call[f] = NoProc
  /\ phase[f] = "posting" => call[f] \in Proc
  /\ call[f] \in Proc =>
       /\ step[call[f]] # "idle" /\ req[call[f]].form = f
       /\ phase[f] = "posting" =>
            /\ req[call[f]].op = "createAssignment"
            /\ req[call[f]].event = EventOf[f]
            /\ Wanted(req[call[f]]) \in Triple
       /\ phase[f] = "refreshing" =>
            /\ req[call[f]].op = "listAssignments"
            /\ step[call[f]] = "replied" /\ result[call[f]] = 200 =>
                 made[f] \cap assignments \subseteq answer[call[f]]

MadeHere(f) == \A x \in made[f] : x \in used /\ triple[x].event = EventOf[f]

ShowsMade(f) ==
  phase[f] # "refreshing" /\ f \notin refreshError =>
    made[f] \cap assignments \subseteq shown[f]

FInv(f) == Waits(f) /\ MadeHere(f) /\ ShowsMade(f)

Orphans ==
  \A p \in Proc :
    LET f == req[p].form IN
      req[p].op = "createAssignment" /\ f \in Form =>
        \/ phase[f] = "posting" /\ call[f] = p
        \/ Wanted(req[p]) \in silent[f]

AccountedFor(x) ==
  LET f == by[x] IN
    f \in Form =>
      \/ x \in made[f]
      \/ triple[x] \in silent[f]
      \/ phase[f] = "posting" /\ wrote[call[f]] = x

Accounted == \A x \in assignments : AccountedFor(x)

FormTyped ==
  /\ phase \in [Form -> {"idle", "posting", "refreshing"}]
  /\ call \in [Form -> Proc \cup {NoProc}]
  /\ shown \in [Form -> SUBSET Assignment]
  /\ refreshError \subseteq Form
  /\ silent \in [Form -> SUBSET Triple]
  /\ made \in [Form -> SUBSET Assignment]

FormInv ==
  /\ RInv /\ FormTyped /\ \A f \in Form : FInv(f)
  /\ Orphans /\ Accounted

-----------------------------------------------------------------------------
(* What a step of others leaves of a form.                                 *)
FormKept(g) ==
  /\ UNCHANGED <<phase[g], call[g], shown[g], made[g]>>
  /\ g \in refreshError' <=> g \in refreshError

LEMMA OtherForms ==
  ASSUME FormInv, NEW g \in Form, FormKept(g), RowsKeep,
         call[g] \in Proc => Serves(call[g])
  PROVE  FInv(g)'
<1> USE DEF FormInv, FormKept, RowsKeep
<1>1. FInv(g) /\ made[g] \subseteq Assignment
  BY DEF FormTyped
<1>2. made[g] \subseteq used /\ MadeHere(g)'
  BY <1>1 DEF FInv, MadeHere
<1>3. made[g] \cap assignments' \subseteq made[g] \cap assignments
  BY <1>2
<1>4. ShowsMade(g)'
  BY <1>1, <1>3 DEF FInv, ShowsMade
<1>5. Waits(g)'
  <2>1. Waits(g)
    BY <1>1 DEF FInv
  <2>2. CASE call[g] \notin Proc
    BY <2>1, <2>2 DEF Waits
  <2>3. CASE call[g] \in Proc
    <3> DEFINE q == call[g]
    <3>1. Serves(q) /\ call'[g] = q /\ phase'[g] = phase[g]
      BY <2>3
    <3> HIDE DEF q
    <3>2. step'[q] # "idle" /\ req'[q] = req[q]
      BY <2>1, <2>3, <3>1 DEF Waits, Serves, q
    <3>3. phase[g] = "refreshing" /\ step'[q] = "replied" /\ result'[q] = 200 =>
            made'[g] \cap assignments' \subseteq answer'[q]
      BY <1>3, <2>1, <2>3, <3>1 DEF Waits, Serves, q
    <3>4. Wanted(req'[q]) = Wanted(req[q])
      BY <3>2
    <3> QED BY <2>1, <2>3, <3>1, <3>2, <3>3, <3>4 DEF Waits, q
  <2> QED BY <2>2, <2>3
<1> QED BY <1>2, <1>4, <1>5 DEF FInv

-----------------------------------------------------------------------------
(* Every step keeps the whole invariant.  First those without the form.    *)

LEMMA ApiKeeps ==
  ASSUME FormInv, RInv', NoNewRow, UNCHANGED <<form, told>>
  PROVE  FormInv'
<1>1. FormTyped'
  BY DEF FormInv, FormTyped, form, told
<1>2. RowsKeep
  BY DEF NoNewRow, RowsKeep
<1>3. ASSUME NEW g \in Form PROVE FInv(g)'
  <2>1. FormKept(g)
    BY DEF FormKept, form, told
  <2> QED BY <1>2, <2>1, OtherForms DEF NoNewRow
<1>4. Orphans'
  BY DEF FormInv, Orphans, NoNewRow, form, told
<1>5. Accounted'
  <2>1. ASSUME NEW x \in assignments' PROVE AccountedFor(x)'
    <3> DEFINE f == by[x]
    <3>1. AccountedFor(x) /\ x \in Assignment /\ by'[x] = f /\ triple'[x] = triple[x]
      BY DEF FormInv, RInv, RegistryTypeOK, Accounted, NoNewRow
    <3>2. phase' = phase /\ call' = call /\ made' = made /\ silent' = silent
      BY DEF form, told
    <3>3. ASSUME f \in Form, phase[f] = "posting", wrote[call[f]] = x
          PROVE  wrote'[call[f]] = x
      <4>1. call[f] \in Proc /\ x # NoId
        BY <3>1, <3>3, RegistryAssumption DEF FormInv, FInv, Waits
      <4> QED BY <3>3, <4>1 DEF NoNewRow, Serves
    <3> QED BY <3>1, <3>2, <3>3 DEF AccountedFor
  <2> QED BY <2>1 DEF Accounted
<1> QED BY <1>1, <1>3, <1>4, <1>5 DEF FormInv

LEMMA AssignKeeps ==
  ASSUME FormInv, RInv', UNCHANGED <<form, told>>, NEW p \in Proc,
         step[p] = "insertAssignment", NEW x \in Assignment, Assign(p, x)
  PROVE  FormInv'
<1> DEFINE t == Wanted(req[p])
<1>1. RegistryTypeOK /\ ProcInv(p) /\ RowsAreUsed
  BY DEF FormInv, RInv, TableInv
<1>2. /\ req[p].op = "createAssignment" /\ wrote[p] = NoId
      /\ req[p].form \in Form \cup {NoForm}
  BY <1>1 DEF ProcInv, OnItsWay, NothingYet, AssignSteps, Before, RegistryTypeOK,
     Request
<1> HIDE DEF t
<1>3. /\ x \notin used /\ used' = used \cup {x}
      /\ assignments' = assignments \cup {x}
      /\ triple' = [triple EXCEPT ![x] = t] /\ by' = [by EXCEPT ![x] = req[p].form]
      /\ step' = [step EXCEPT ![p] = "reselect"]
      /\ wrote' = [wrote EXCEPT ![p] = x]
      /\ UNCHANGED <<req, result, answer>>
  BY DEF Assign, Commit, t
<1>4. /\ triple'[x] = t /\ by'[x] = req[p].form /\ wrote'[p] = x
      /\ \A y \in assignments : y # x /\ triple'[y] = triple[y] /\ by'[y] = by[y]
  BY <1>1, <1>3 DEF RegistryTypeOK, RowsAreUsed
<1>5. phase' = phase /\ call' = call /\ made' = made /\ silent' = silent
  BY DEF form, told
<1>6. FormTyped'
  BY DEF FormInv, FormTyped, form, told
<1>7. RowsKeep
  BY <1>1, <1>3 DEF RowsKeep, RegistryTypeOK
<1>8. ASSUME NEW q \in Proc PROVE Serves(q)
  BY <1>1, <1>2, <1>3 DEF Serves, RegistryTypeOK
<1>9. ASSUME NEW g \in Form PROVE FInv(g)'
  <2>1. FormKept(g)
    BY DEF FormKept, form, told
  <2> QED BY <1>7, <1>8, <2>1, OtherForms
<1>10. Orphans'
  BY <1>3, <1>5 DEF FormInv, Orphans
<1>11. ASSUME NEW f \in Form, req[p].form = f
       PROVE  (phase[f] = "posting" /\ call[f] = p) \/ t \in silent[f]
  BY <1>2, <1>11 DEF FormInv, Orphans, t
<1>12. Accounted'
  <2>1. AccountedFor(x)'
    BY <1>4, <1>5, <1>11 DEF AccountedFor
  <2>2. ASSUME NEW y \in assignments PROVE AccountedFor(y)'
    <3>1. AccountedFor(y) /\ y # NoId
      BY <1>1, RegistryAssumption DEF FormInv, Accounted, RegistryTypeOK
    <3>2. ASSUME NEW f \in Form, phase[f] = "posting", wrote[call[f]] = y
          PROVE  wrote'[call[f]] = y
      <4>1. call[f] \in Proc
        BY <3>2 DEF FormInv, FInv, Waits
      <4> QED BY <1>8, <3>1, <3>2, <4>1 DEF Serves
    <3> QED BY <1>4, <1>5, <3>1, <3>2 DEF AccountedFor
  <2> QED BY <1>3, <2>1, <2>2 DEF Accounted
<1> QED BY <1>6, <1>9, <1>10, <1>12 DEF FormInv

(* A new request is nobody's yet.                                          *)
LEMMA StartShape ==
  ASSUME FormInv, NEW p \in Proc, NEW r, WellFormed(r), Start(p, r)
  PROVE  /\ RInv' /\ RowsKeep
         /\ UNCHANGED <<triple, by, assignments, used, wrote>>
         /\ \A q \in Proc : q # p => Serves(q) /\ req'[q] = req[q]
         /\ req'[p] = r /\ step'[p] = "access" /\ wrote[p] = NoId
         /\ \A g \in Form : call[g] # p
<1>1. RInv /\ RegistryTypeOK /\ ProcInv(p) /\ step[p] = "idle"
  BY DEF FormInv, RInv, Start
<1>2. RInv'
  BY <1>1, StartKeeps
<1>3. /\ UNCHANGED <<triple, by, assignments, used, wrote>>
      /\ req' = [req EXCEPT ![p] = r] /\ step' = [step EXCEPT ![p] = "access"]
      /\ UNCHANGED <<result, answer>>
  BY DEF Start, tables, history
<1>4. ASSUME NEW q \in Proc, q # p PROVE Serves(q) /\ req'[q] = req[q]
  BY <1>1, <1>3, <1>4, KeptServes DEF Kept, RegistryTypeOK
<1>5. wrote[p] = NoId
  BY <1>1 DEF ProcInv, NothingYet, Before
<1>6. ASSUME NEW g \in Form PROVE call[g] # p
  BY <1>1 DEF FormInv, FInv, Waits
<1> QED BY <1>1, <1>2, <1>3, <1>4, <1>5, <1>6 DEF RowsKeep, RegistryTypeOK

LEMMA NobodysStartKeeps ==
  ASSUME FormInv, NEW p \in Proc, NEW r, WellFormed(r), r.form = NoForm, Start(p, r),
         UNCHANGED <<form, told>>
  PROVE  FormInv'
<1>1. /\ RInv' /\ RowsKeep
      /\ UNCHANGED <<triple, by, assignments, used, wrote>>
      /\ \A q \in Proc : q # p => Serves(q) /\ req'[q] = req[q]
      /\ req'[p] = r /\ \A g \in Form : call[g] # p
  BY StartShape
<1>2. /\ phase' = phase /\ call' = call /\ made' = made /\ silent' = silent
      /\ FormTyped'
  BY DEF FormInv, FormTyped, form, told
<1>3. ASSUME NEW g \in Form PROVE FInv(g)'
  <2>1. FormKept(g)
    BY DEF FormKept, form, told
  <2> QED BY <1>1, <2>1, OtherForms
<1>4. Orphans'
  BY <1>1, <1>2, RegistryAssumption DEF FormInv, Orphans
<1>5. Accounted'
  BY <1>1, <1>2 DEF FormInv, Accounted, AccountedFor
<1> QED BY <1>1, <1>2, <1>3, <1>4, <1>5 DEF FormInv

LEMMA DirectKeeps ==
  ASSUME FormInv, NEW p \in Proc, Direct(p), UNCHANGED <<form, told>>
  PROVE  FormInv'
<1>1. PICK r : WellFormed(r) /\ r.form = NoForm /\ Start(p, r)
  BY DirectIsWellFormed
<1> QED BY <1>1, NobodysStartKeeps

(* What an answer that is read leaves.                                     *)
LEMMA ReleaseShape ==
  ASSUME FormInv, NEW p \in Proc, Release(p)
  PROVE  /\ RInv' /\ RowsKeep
         /\ UNCHANGED <<triple, by, assignments, used>>
         /\ \A q \in Proc : q # p => Serves(q) /\ req'[q] = req[q]
                                     /\ wrote'[q] = wrote[q]
         /\ req'[p].op = "none" /\ wrote'[p] = NoId
<1>1. RInv /\ RegistryTypeOK
  BY DEF FormInv, RInv
<1>2. RInv'
  BY <1>1, ReleaseKeeps
<1>3. /\ UNCHANGED <<triple, by, assignments, used>>
      /\ req'[p] = NoRequest /\ wrote'[p] = NoId
  BY <1>1 DEF Release, tables, history, RegistryTypeOK
<1>4. ASSUME NEW q \in Proc, q # p PROVE Kept(q)
  BY <1>1, <1>4 DEF Release, Kept, RegistryTypeOK
<1>5. NoRequest.op = "none"
  BY DEF NoRequest
<1> QED BY <1>1, <1>2, <1>3, <1>4, <1>5, KeptServes DEF RowsKeep, RegistryTypeOK, Kept

LEMMA UnheardKeeps ==
  ASSUME FormInv, NEW p \in Proc, Unheard(p), UNCHANGED <<form, told>>
  PROVE  FormInv'
<1>1. Release(p) /\ \A g \in Form : call[g] # p
  BY DEF Unheard
<1>2. /\ RInv' /\ RowsKeep
      /\ UNCHANGED <<triple, by, assignments, used>>
      /\ \A q \in Proc : q # p => Serves(q) /\ req'[q] = req[q]
                                  /\ wrote'[q] = wrote[q]
      /\ req'[p].op = "none"
  BY <1>1, ReleaseShape
<1>3. /\ phase' = phase /\ call' = call /\ made' = made /\ silent' = silent
      /\ FormTyped'
  BY DEF FormInv, FormTyped, form, told
<1>4. ASSUME NEW g \in Form PROVE FInv(g)'
  <2>1. FormKept(g)
    BY DEF FormKept, form, told
  <2> QED BY <1>1, <1>2, <2>1, OtherForms
<1>5. Orphans'
  BY <1>2, <1>3 DEF FormInv, Orphans
<1>6. Accounted'
  <2>1. \A f \in Form : phase[f] = "posting" => wrote'[call[f]] = wrote[call[f]]
    BY <1>1, <1>2 DEF FormInv, FInv, Waits
  <2> QED BY <1>2, <1>3, <2>1 DEF FormInv, Accounted, AccountedFor
<1> QED BY <1>2, <1>3, <1>4, <1>5, <1>6 DEF FormInv

-----------------------------------------------------------------------------
(* Now the form. *)

LEMMA SubmitKeeps ==
  ASSUME FormInv, NEW f \in Form, NEW p \in Proc, Submit(f, p)
  PROVE  FormInv'
<1>1. PICK t \in Triple : SendTriple(f, p, t)
  BY DEF Submit, Triple
<1> DEFINE r == [NoRequest EXCEPT
                   !.op = "createAssignment", !.event = t.event,
                   !.person = t.person, !.codes = {t.responsibility}, !.form = f]
<1>2. /\ r \in Request /\ r.op = "createAssignment" /\ r.valid = TRUE /\ r.form = f
      /\ r.event = t.event /\ r.person = t.person /\ r.codes = {t.responsibility}
  <2>1. {t.responsibility} \in SUBSET Code
    BY DEF Code, Triple
  <2>2. t.event \in Event /\ t.person \in Person
    BY DEF Triple
  <2> QED BY <2>1, <2>2, Ops DEF NoRequest, Request
<1>3. Start(p, r) /\ Sent(f, p, "posting") /\ t.event = EventOf[f]
      /\ UNCHANGED <<shown, refreshError, told>> /\ phase[f] = "idle"
  BY <1>1 DEF SendTriple, Submit
<1> HIDE DEF r
<1>4. WellFormed(r)
  BY <1>2, Ops DEF WellFormed
<1>5. Wanted(r) = t
  BY <1>2 DEF Wanted, Triple
<1>6. /\ RInv' /\ RowsKeep
      /\ UNCHANGED <<triple, by, assignments, used, wrote>>
      /\ \A q \in Proc : q # p => Serves(q) /\ req'[q] = req[q]
      /\ req'[p] = r /\ step'[p] = "access" /\ \A g \in Form : call[g] # p
  BY <1>3, <1>4, StartShape
<1>7. /\ phase' = [phase EXCEPT ![f] = "posting"] /\ call' = [call EXCEPT ![f] = p]
      /\ shown' = shown /\ refreshError' = refreshError
      /\ silent' = silent /\ made' = made
  BY <1>3 DEF Sent, told
<1>8. FormTyped /\ FormTyped'
  BY <1>7 DEF FormInv, FormTyped
<1>9. phase'[f] = "posting" /\ call'[f] = p
  BY <1>7, <1>8 DEF FormTyped
<1>10. ASSUME NEW g \in Form PROVE FInv(g)'
  <2>1. CASE g # f
    <3>1. FormKept(g)
      BY <1>7, <1>8, <2>1 DEF FormKept, FormTyped
    <3> QED BY <1>6, <3>1, OtherForms
  <2>2. CASE g = f
    <3>1. FInv(f)
      BY DEF FormInv
    <3>2. Waits(f)'
      BY <1>2, <1>3, <1>5, <1>6, <1>7, <1>9 DEF Waits
    <3> QED BY <1>3, <1>6, <1>7, <1>9, <2>2, <3>1, <3>2 DEF FInv, MadeHere, ShowsMade
  <2> QED BY <2>1, <2>2
<1>11. \A g \in Form : g # f => phase'[g] = phase[g] /\ call'[g] = call[g]
  BY <1>7, <1>8 DEF FormTyped
<1>12. Orphans'
  BY <1>2, <1>3, <1>6, <1>7, <1>9, <1>11 DEF FormInv, Orphans
<1>13. Accounted'
  BY <1>3, <1>6, <1>7, <1>11 DEF FormInv, Accounted, AccountedFor
<1> QED BY <1>6, <1>8, <1>10, <1>12, <1>13 DEF FormInv

LEMMA RefreshKeeps ==
  ASSUME FormInv, NEW f \in Form, NEW p \in Proc, Refresh(f, p)
  PROVE  FormInv'
<1> DEFINE r == [NoRequest EXCEPT !.op = "listAssignments", !.form = f]
<1>1. /\ r \in Request /\ r.op = "listAssignments" /\ r.valid = TRUE /\ r.form = f
  BY Ops DEF NoRequest, Request
<1>2. Start(p, r) /\ Sent(f, p, "refreshing") /\ phase[f] = "refreshing"
      /\ UNCHANGED <<shown, refreshError, told>>
  BY DEF Refresh
<1> HIDE DEF r
<1>3. WellFormed(r)
  BY <1>1, Ops DEF WellFormed
<1>4. /\ RInv' /\ RowsKeep
      /\ UNCHANGED <<triple, by, assignments, used, wrote>>
      /\ \A q \in Proc : q # p => Serves(q) /\ req'[q] = req[q]
      /\ req'[p] = r /\ step'[p] = "access" /\ \A g \in Form : call[g] # p
  BY <1>2, <1>3, StartShape
<1>5. /\ phase' = [phase EXCEPT ![f] = "refreshing"] /\ call' = [call EXCEPT ![f] = p]
      /\ shown' = shown /\ refreshError' = refreshError
      /\ silent' = silent /\ made' = made
  BY <1>2 DEF Sent, told
<1>6. FormTyped /\ FormTyped'
  BY <1>5 DEF FormInv, FormTyped
<1>7. phase'[f] = "refreshing" /\ call'[f] = p
      /\ \A g \in Form : g # f => call'[g] = call[g]
      /\ phase' = phase
  BY <1>2, <1>5, <1>6 DEF FormTyped
<1>8. ASSUME NEW g \in Form PROVE FInv(g)'
  <2>1. CASE g # f
    <3>1. FormKept(g)
      BY <1>5, <1>6, <2>1 DEF FormKept, FormTyped
    <3> QED BY <1>4, <3>1, OtherForms
  <2>2. CASE g = f
    <3>1. FInv(f)
      BY DEF FormInv
    <3>2. Waits(f)'
      BY <1>1, <1>4, <1>7 DEF Waits
    <3> QED BY <1>4, <1>5, <1>7, <2>2, <3>1, <3>2 DEF FInv, MadeHere, ShowsMade
  <2> QED BY <2>1, <2>2
<1>9. Orphans'
  BY <1>1, <1>2, <1>4, <1>5, <1>7 DEF FormInv, Orphans
<1>10. Accounted'
  BY <1>2, <1>4, <1>5, <1>7 DEF FormInv, Accounted, AccountedFor
<1> QED BY <1>4, <1>6, <1>8, <1>9, <1>10 DEF FormInv

(* A form that reads the answer to its request touches no other form.      *)
LEMMA AnsweredShape ==
  ASSUME FormInv, NEW f \in Form, NEW p \in Proc, Answered(f, p)
  PROVE  /\ RInv' /\ RowsKeep
         /\ UNCHANGED <<triple, by, assignments, used>>
         /\ \A q \in Proc : q # p => Serves(q) /\ req'[q] = req[q]
                                     /\ wrote'[q] = wrote[q]
         /\ req'[p].op = "none" /\ call[f] = p /\ step[p] = "replied"
         /\ Waits(f) /\ req[p].form = f /\ \A g \in Form : g # f => call[g] # p
<1>1. call[f] = p /\ step[p] = "replied" /\ Release(p)
  BY DEF Answered
<1>2. \A g \in Form : Waits(g)
  BY DEF FormInv, FInv
<1>3. \A g \in Form : call[g] = p => req[p].form = g
  BY <1>2 DEF Waits
<1> QED BY <1>1, <1>2, <1>3, ReleaseShape

LEMMA AcceptedKeeps ==
  ASSUME FormInv, NEW f \in Form, NEW p \in Proc, Accepted(f, p)
  PROVE  FormInv'
<1> DEFINE t == Wanted(req[p])
           x == wrote[p]
<1>1. /\ RInv' /\ RowsKeep
      /\ UNCHANGED <<triple, by, assignments, used>>
      /\ \A q \in Proc : q # p => Serves(q) /\ req'[q] = req[q]
                                  /\ wrote'[q] = wrote[q]
      /\ req'[p].op = "none" /\ call[f] = p /\ step[p] = "replied"
      /\ Waits(f) /\ req[p].form = f /\ \A g \in Form : g # f => call[g] # p
  BY AnsweredShape DEF Accepted
<1>2. phase[f] = "posting" /\ result[p] = 201
  BY DEF Accepted
<1>3. /\ req[p].op = "createAssignment" /\ req[p].event = EventOf[f]
      /\ t \in Triple
  BY <1>1, <1>2 DEF Waits
<1>4. /\ x \in Assignment /\ x \in used /\ triple[x] = t
      /\ req[p].codes # {}
  <2>1. ProcInv(p)
    BY DEF FormInv, RInv
  <2>2. x # NoId
    BY <1>2, <1>3, <2>1 DEF ProcInv, WroteWhatWasAsked
  <2> QED BY <1>3, <2>1, <2>2 DEF ProcInv, WroteWhatWasAsked, OnItsWay
<1>5. t.event = EventOf[f]
  BY <1>3, <1>4, WantedIsOneOf
<1> HIDE DEF t, x
<1>6. /\ made' = [made EXCEPT ![f] = @ \cup {x}]
      /\ phase' = [phase EXCEPT ![f] = "refreshing"]
      /\ call' = [call EXCEPT ![f] = NoProc]
      /\ shown' = shown /\ refreshError' = refreshError /\ silent' = silent
  BY DEF Accepted, Sent, t, x
<1>7. FormTyped /\ FormTyped'
  BY <1>3, <1>4, <1>6 DEF FormInv, FormTyped
<1>8. /\ phase'[f] = "refreshing" /\ call'[f] = NoProc
      /\ made'[f] = made[f] \cup {x}
      /\ \A g \in Form : g # f =>
           /\ phase'[g] = phase[g] /\ call'[g] = call[g]
           /\ made'[g] = made[g]
  BY <1>6, <1>7 DEF FormTyped
<1>9. ASSUME NEW g \in Form PROVE FInv(g)'
  <2>1. CASE g # f
    <3>1. FormKept(g)
      BY <1>6, <1>8, <2>1 DEF FormKept
    <3> QED BY <1>1, <2>1, <3>1, OtherForms
  <2>2. CASE g = f
    <3>1. MadeHere(f)'
      BY <1>1, <1>4, <1>5, <1>8 DEF FormInv, FInv, MadeHere
    <3> QED BY <1>8, <2>2, <3>1, FormAssumption, RegistryAssumption DEF FInv, Waits, ShowsMade
  <2> QED BY <2>1, <2>2
<1>10. Orphans'
  BY <1>1, <1>6, <1>8 DEF FormInv, Orphans
<1>11. Accounted'
  <2>1. ASSUME NEW y \in assignments PROVE AccountedFor(y)'
    <3>1. AccountedFor(y)
      BY DEF FormInv, Accounted
    <3>2. CASE by[y] # f
      <4>1. ASSUME NEW g \in Form, g # f, phase[g] = "posting"
            PROVE  wrote'[call[g]] = wrote[call[g]]
        <5>1. call[g] \in Proc
          BY <4>1 DEF FormInv, FInv, Waits
        <5> QED BY <1>1, <4>1, <5>1
      <4> QED BY <1>1, <1>6, <1>8, <3>1, <3>2, <4>1 DEF AccountedFor
    <3>3. CASE by[y] = f
      <4>1. y \in made[f] \/ triple[y] \in silent[f] \/ y = x
        BY <1>1, <3>1, <3>3 DEF AccountedFor, x
      <4> QED BY <1>1, <1>4, <1>6, <1>8, <3>3, <4>1 DEF AccountedFor
    <3> QED BY <3>2, <3>3
  <2> QED BY <1>1, <2>1 DEF Accounted
<1> QED BY <1>1, <1>7, <1>9, <1>10, <1>11 DEF FormInv

LEMMA RejectedKeeps ==
  ASSUME FormInv, NEW f \in Form, NEW p \in Proc, Rejected(f, p)
  PROVE  FormInv'
<1> DEFINE t == Wanted(req[p])
<1>1. /\ RInv' /\ RowsKeep
      /\ UNCHANGED <<triple, by, assignments, used>>
      /\ \A q \in Proc : q # p => Serves(q) /\ req'[q] = req[q]
                                  /\ wrote'[q] = wrote[q]
      /\ req'[p].op = "none" /\ call[f] = p /\ step[p] = "replied"
      /\ Waits(f) /\ req[p].form = f /\ \A g \in Form : g # f => call[g] # p
  BY AnsweredShape DEF Rejected
<1>2. phase[f] = "posting" /\ result[p] # 201
  BY DEF Rejected
<1>3. req[p].op = "createAssignment" /\ t \in Triple
  BY <1>1, <1>2 DEF Waits
<1>4. \/ result[p] \in {0, 500}
      \/ wrote[p] = NoId
  <2>1. ProcInv(p)
    BY DEF FormInv, RInv
  <2>2. result[p] \in {201, 401, 403, 404, 422, 0, 500}
    BY <1>1, <1>3, <2>1, Statuses DEF ProcInv, Documented
  <2> QED BY <1>2, <2>1, <2>2 DEF ProcInv, NothingYet
<1>5. ASSUME wrote[p] # NoId PROVE triple[wrote[p]] = t
  BY <1>3, <1>5 DEF FormInv, RInv, ProcInv, WroteWhatWasAsked
<1> HIDE DEF t
<1>6. /\ silent' = [silent EXCEPT ![f] =
                      IF result[p] \in {0, 500} THEN @ \cup {t} ELSE @]
      /\ phase' = [phase EXCEPT ![f] = "idle"] /\ call' = [call EXCEPT ![f] = NoProc]
      /\ UNCHANGED <<shown, refreshError, made>>
  BY DEF Rejected, Sent, t
<1>7. FormTyped /\ FormTyped'
  BY <1>3, <1>6 DEF FormInv, FormTyped
<1>8. /\ phase'[f] = "idle" /\ call'[f] = NoProc /\ silent[f] \subseteq silent'[f]
      /\ result[p] \in {0, 500} => t \in silent'[f]
      /\ \A g \in Form : g # f =>
           /\ phase'[g] = phase[g] /\ call'[g] = call[g] /\ silent'[g] = silent[g]
  BY <1>6, <1>7 DEF FormTyped
<1>9. ASSUME NEW g \in Form PROVE FInv(g)'
  <2>1. CASE g # f
    <3>1. FormKept(g)
      BY <1>6, <1>8, <2>1 DEF FormKept
    <3> QED BY <1>1, <2>1, <3>1, OtherForms
  <2>2. CASE g = f
    <3>1. FInv(f)
      BY DEF FormInv
    <3> QED BY <1>1, <1>2, <1>6, <1>8, <2>2, <3>1, FormAssumption, RegistryAssumption
        DEF FInv, Waits, MadeHere, ShowsMade
  <2> QED BY <2>1, <2>2
<1>10. Orphans'
  BY <1>1, <1>6, <1>8 DEF FormInv, Orphans
<1>11. Accounted'
  <2>1. ASSUME NEW y \in assignments PROVE AccountedFor(y)'
    <3>1. AccountedFor(y) /\ y # NoId
      BY RegistryAssumption DEF FormInv, RInv, RegistryTypeOK, Accounted
    <3>2. CASE by[y] # f
      <4>1. ASSUME NEW g \in Form, g # f, phase[g] = "posting"
            PROVE  wrote'[call[g]] = wrote[call[g]]
        <5>1. call[g] \in Proc
          BY <4>1 DEF FormInv, FInv, Waits
        <5> QED BY <1>1, <4>1, <5>1
      <4> QED BY <1>1, <1>6, <1>8, <3>1, <3>2, <4>1 DEF AccountedFor
    <3>3. CASE by[y] = f
      <4>1. y \in made[f] \/ triple[y] \in silent[f] \/ y = wrote[p]
        BY <1>1, <3>1, <3>3 DEF AccountedFor
      <4> QED BY <1>1, <1>4, <1>5, <1>6, <1>8, <3>1, <3>3, <4>1 DEF AccountedFor
    <3> QED BY <3>2, <3>3
  <2> QED BY <1>1, <2>1 DEF Accounted
<1> QED BY <1>1, <1>7, <1>9, <1>10, <1>11 DEF FormInv

(* A step that leaves the API alone.                                       *)
LEMMA RestKeeps ==
  ASSUME RInv, UNCHANGED registryVars
  PROVE  /\ RInv' /\ RowsKeep
         /\ UNCHANGED <<triple, by, assignments, used, req, wrote>>
         /\ \A q \in Proc : Serves(q)
<1>1. UNCHANGED <<tables, account, history>> /\ UNCHANGED requests
  BY DEF registryVars
<1>2. ASSUME NEW q \in Proc PROVE Kept(q)
  BY <1>1 DEF Kept, requests
<1>3. \A q \in Proc : ProcInv(q)'
  BY <1>1, <1>2, Quiet, OthersKeep
<1>4. RegistryTypeOK'
  BY <1>1 DEF RInv, RegistryTypeOK, tables, account, requests, history
<1>5. TableInv'
  BY <1>1 DEF RInv, TableInv, NoDangling, RolesAllOrNothing, RowsAreUsed, tables, history
<1>6. RowsKeep
  BY <1>1 DEF RowsKeep, tables
<1> QED BY <1>1, <1>2, <1>3, <1>4, <1>5, <1>6, KeptServes
    DEF RInv, tables, history, requests

LEMMA PostLostKeeps ==
  ASSUME FormInv, NEW f \in Form, NEW p \in Proc, PostLost(f, p)
  PROVE  FormInv'
<1> DEFINE t == Wanted(req[p])
<1>1. /\ phase[f] = "posting" /\ call[f] = p /\ Waits(f)
      /\ req[p].op = "createAssignment" /\ req[p].form = f /\ t \in Triple
  BY DEF PostLost, FormInv, FInv, Waits
<1>2. /\ RInv' /\ RowsKeep
      /\ UNCHANGED <<triple, by, assignments, used, req, wrote>>
      /\ \A q \in Proc : Serves(q)
  BY RestKeeps DEF PostLost, FormInv
<1>3. ASSUME wrote[p] # NoId PROVE triple[wrote[p]] = t
  BY <1>1, <1>3 DEF FormInv, RInv, ProcInv, WroteWhatWasAsked
<1> HIDE DEF t
<1>4. /\ silent' = [silent EXCEPT ![f] = @ \cup {t}]
      /\ phase' = [phase EXCEPT ![f] = "idle"] /\ call' = [call EXCEPT ![f] = NoProc]
      /\ UNCHANGED <<shown, refreshError, made>>
  BY DEF PostLost, Sent, t
<1>5. FormTyped /\ FormTyped'
  BY <1>1, <1>4 DEF FormInv, FormTyped
<1>6. /\ phase'[f] = "idle" /\ call'[f] = NoProc /\ silent'[f] = silent[f] \cup {t}
      /\ \A g \in Form : g # f =>
           /\ phase'[g] = phase[g] /\ call'[g] = call[g] /\ silent'[g] = silent[g]
  BY <1>4, <1>5 DEF FormTyped
<1>7. ASSUME NEW g \in Form PROVE FInv(g)'
  <2>1. CASE g # f
    <3>1. FormKept(g)
      BY <1>4, <1>6, <2>1 DEF FormKept
    <3> QED BY <1>2, <3>1, OtherForms
  <2>2. CASE g = f
    <3>1. FInv(f)
      BY DEF FormInv
    <3> QED BY <1>1, <1>2, <1>4, <1>6, <2>2, <3>1, FormAssumption, RegistryAssumption
        DEF FInv, Waits, MadeHere, ShowsMade
  <2> QED BY <2>1, <2>2
<1>8. Orphans'
  <2>1. ASSUME NEW q \in Proc, req[q].op = "createAssignment", req[q].form = f
        PROVE  Wanted(req[q]) \in silent'[f]
    BY <1>1, <1>6, <2>1 DEF FormInv, Orphans, t
  <2>2. ASSUME NEW q \in Proc, NEW g \in Form, g # f,
               req[q].op = "createAssignment", req[q].form = g
        PROVE  (phase'[g] = "posting" /\ call'[g] = q) \/ Wanted(req[q]) \in silent'[g]
    BY <1>6, <2>2 DEF FormInv, Orphans
  <2> QED BY <1>2, <2>1, <2>2 DEF Orphans
<1>9. Accounted'
  <2>1. ASSUME NEW y \in assignments PROVE AccountedFor(y)'
    <3>1. AccountedFor(y) /\ y # NoId
      BY RegistryAssumption DEF FormInv, RInv, RegistryTypeOK, Accounted
    <3>2. CASE by[y] # f
      BY <1>2, <1>4, <1>6, <3>1, <3>2 DEF AccountedFor
    <3>3. CASE by[y] = f
      <4>1. y \in made[f] \/ triple[y] \in silent[f] \/ y = wrote[p]
        BY <1>1, <3>1, <3>3 DEF AccountedFor
      <4> QED BY <1>2, <1>3, <1>4, <1>6, <3>1, <3>3, <4>1 DEF AccountedFor
    <3> QED BY <3>2, <3>3
  <2> QED BY <1>2, <2>1 DEF Accounted
<1> QED BY <1>2, <1>5, <1>7, <1>8, <1>9 DEF FormInv

(* The end of a refresh, however it comes.                                 *)
LEMMA RefreshEnds ==
  ASSUME FormInv, NEW f \in Form, phase[f] = "refreshing",
         Sent(f, NoProc, "idle"), UNCHANGED told, RInv', RowsKeep,
         UNCHANGED <<triple, by, assignments, used>>,
         \A q \in Proc : req'[q] = req[q] \/ req'[q].op = "none",
         \A g \in Form \ {f} :
           /\ shown'[g] = shown[g] /\ (g \in refreshError' <=> g \in refreshError)
           /\ call[g] \in Proc => Serves(call[g]) /\ wrote'[call[g]] = wrote[call[g]],
         FormTyped', ShowsMade(f)'
  PROVE  FormInv'
<1>1. /\ phase' = [phase EXCEPT ![f] = "idle"] /\ call' = [call EXCEPT ![f] = NoProc]
      /\ silent' = silent /\ made' = made
  BY DEF Sent, told
<1>2. FormTyped /\ \A g \in Form : FInv(g)
  BY DEF FormInv
<1>3. /\ phase'[f] = "idle" /\ call'[f] = NoProc
      /\ \A g \in Form : g # f => phase'[g] = phase[g] /\ call'[g] = call[g]
  BY <1>1, <1>2 DEF FormTyped
<1>4. ASSUME NEW g \in Form PROVE FInv(g)'
  <2>1. CASE g # f
    <3>1. FormKept(g)
      BY <1>1, <1>3, <2>1 DEF FormKept
    <3> QED BY <2>1, <3>1, OtherForms
  <2>2. CASE g = f
    BY <1>1, <1>2, <1>3, <2>2, FormAssumption, RegistryAssumption DEF FInv, Waits, MadeHere
  <2> QED BY <2>1, <2>2
<1>5. Orphans'
  BY <1>1, <1>3 DEF FormInv, Orphans
<1>6. Accounted'
  <2>1. \A g \in Form : phase[g] = "posting" =>
          g # f /\ wrote'[call[g]] = wrote[call[g]]
    BY <1>2 DEF FInv, Waits
  <2> QED BY <1>1, <1>3, <2>1 DEF FormInv, Accounted, AccountedFor
<1> QED BY <1>4, <1>5, <1>6 DEF FormInv

LEMMA RefreshedKeeps ==
  ASSUME FormInv, NEW f \in Form, NEW p \in Proc, Refreshed(f, p)
  PROVE  FormInv'
<1> DEFINE list == {x \in answer[p] : triple[x].event = EventOf[f]}
<1>1. /\ RInv' /\ RowsKeep
      /\ UNCHANGED <<triple, by, assignments, used>>
      /\ \A q \in Proc : q # p => Serves(q) /\ req'[q] = req[q]
                                  /\ wrote'[q] = wrote[q]
      /\ req'[p].op = "none" /\ call[f] = p /\ step[p] = "replied"
      /\ Waits(f) /\ req[p].form = f /\ \A g \in Form : g # f => call[g] # p
  BY AnsweredShape DEF Refreshed
<1>2. /\ phase[f] = "refreshing" /\ result[p] = 200 /\ Sent(f, NoProc, "idle")
      /\ UNCHANGED told /\ shown' = [shown EXCEPT ![f] = list]
      /\ refreshError' = refreshError \ {f}
  BY DEF Refreshed
<1>3. made[f] \cap assignments \subseteq answer[p] /\ req[p].op = "listAssignments"
  BY <1>1, <1>2 DEF Waits
<1>4. list \subseteq Assignment
  BY <1>3 DEF FormInv, RInv, ProcInv, ListsKnown
<1>5. FormTyped /\ FormTyped'
  BY <1>2, <1>4 DEF FormInv, FormTyped, Sent, told
<1>6. ShowsMade(f)'
  <2>1. made[f] \cap assignments \subseteq list
    BY <1>3 DEF FormInv, FInv, MadeHere
  <2>2. shown'[f] = list /\ made' = made
    BY <1>2, <1>5 DEF FormTyped, told
  <2> QED BY <1>1, <2>1, <2>2 DEF ShowsMade
<1>7. ASSUME NEW g \in Form \ {f}
      PROVE  /\ shown'[g] = shown[g] /\ (g \in refreshError' <=> g \in refreshError)
             /\ call[g] \in Proc => Serves(call[g]) /\ wrote'[call[g]] = wrote[call[g]]
  BY <1>1, <1>2, <1>5 DEF FormTyped
<1>8. \A q \in Proc : req'[q] = req[q] \/ req'[q].op = "none"
  BY <1>1
<1> HIDE DEF list
<1> QED BY <1>1, <1>2, <1>5, <1>6, <1>7, <1>8, RefreshEnds

LEMMA RefreshFailsKeeps ==
  ASSUME FormInv, NEW f \in Form, RefreshFails(f)
  PROVE  FormInv'
<1>1. /\ phase[f] = "refreshing" /\ refreshError' = refreshError \cup {f}
      /\ Sent(f, NoProc, "idle") /\ UNCHANGED <<shown, told>>
  BY DEF RefreshFails
<1>2. FormTyped'
  BY <1>1 DEF FormInv, FormTyped, Sent, told
<1>3. ShowsMade(f)'
  BY <1>1 DEF ShowsMade
<1>4. ASSUME NEW p \in Proc, Answered(f, p) PROVE FormInv'
  <2>1. /\ RInv' /\ RowsKeep
        /\ UNCHANGED <<triple, by, assignments, used>>
        /\ \A q \in Proc : q # p => Serves(q) /\ req'[q] = req[q]
                                    /\ wrote'[q] = wrote[q]
        /\ req'[p].op = "none" /\ \A g \in Form : g # f => call[g] # p
    BY <1>4, AnsweredShape
  <2>2. ASSUME NEW g \in Form \ {f}
        PROVE  /\ shown'[g] = shown[g] /\ (g \in refreshError' <=> g \in refreshError)
               /\ call[g] \in Proc => Serves(call[g]) /\ wrote'[call[g]] = wrote[call[g]]
    BY <1>1, <2>1
  <2>3. \A q \in Proc : req'[q] = req[q] \/ req'[q].op = "none"
    BY <2>1
  <2> QED BY <1>1, <1>2, <1>3, <2>1, <2>2, <2>3, RefreshEnds
<1>5. CASE UNCHANGED registryVars
  <2>1. /\ RInv' /\ RowsKeep
        /\ UNCHANGED <<triple, by, assignments, used, req, wrote>>
        /\ \A q \in Proc : Serves(q)
    BY <1>5, RestKeeps DEF FormInv
  <2>2. ASSUME NEW g \in Form \ {f}
        PROVE  /\ shown'[g] = shown[g] /\ (g \in refreshError' <=> g \in refreshError)
               /\ call[g] \in Proc => Serves(call[g]) /\ wrote'[call[g]] = wrote[call[g]]
    BY <1>1, <2>1
  <2> QED BY <1>1, <1>2, <1>3, <2>1, <2>2, RefreshEnds
<1> QED BY <1>4, <1>5 DEF RefreshFails

-----------------------------------------------------------------------------
(* The invariant holds of every behaviour. *)

LEMMA FormStarts == FormInit => FormInv
<1> SUFFICES ASSUME FormInit PROVE FormInv
  OBVIOUS
<1> USE DEF FormInit, RegistryInit
<1>1. RInv
  BY RegistryStarts
<1>2. \A p \in Proc : req[p].op = "none"
  BY DEF NoRequest
<1>5. FormTyped
  BY DEF FormTyped
<1>6. \A f \in Form : FInv(f)
  BY FormAssumption, RegistryAssumption DEF FInv, Waits, MadeHere, ShowsMade
<1>7. Orphans /\ Accounted
  BY <1>2 DEF Orphans, Accounted
<1> QED BY <1>1, <1>5, <1>6, <1>7 DEF FormInv

LEMMA FormNextKeeps == FormInv /\ [FormNext]_formVars => FormInv'
<1> SUFFICES ASSUME FormInv, [FormNext]_formVars PROVE FormInv'
  OBVIOUS
<1>1. RInv
  BY DEF FormInv
<1>2. CASE UNCHANGED formVars
  <2>1. NoNewRow /\ RInv'
    BY <1>1, <1>2, RestKeeps DEF formVars, NoNewRow
  <2> QED BY <1>2, <2>1, ApiKeeps DEF formVars
<1>3. ASSUME NEW f \in Form, NEW p \in Proc,
             \/ Submit(f, p) \/ Accepted(f, p) \/ Rejected(f, p) \/ PostLost(f, p)
             \/ Refresh(f, p) \/ Refreshed(f, p)
      PROVE  FormInv'
  BY <1>3, SubmitKeeps, AcceptedKeeps, RejectedKeeps, PostLostKeeps, RefreshKeeps,
     RefreshedKeeps
<1>4. ASSUME NEW f \in Form, RefreshFails(f) PROVE FormInv'
  BY <1>4, RefreshFailsKeeps
<1>5. CASE Operate /\ UNCHANGED <<form, told>>
  BY <1>1, <1>5, OperateKeeps, OperateAddsNoRow, ApiKeeps
<1>6. ASSUME NEW p \in Proc, Direct(p), UNCHANGED <<form, told>> PROVE FormInv'
  BY <1>6, DirectKeeps
<1>7. ASSUME NEW p \in Proc, Serve(p), UNCHANGED <<form, told>> PROVE FormInv'
  <2>1. RInv'
    BY <1>1, <1>7, ServeKeeps
  <2>2. CASE ~ \E x \in Assignment : Assign(p, x)
    BY <1>1, <1>7, <2>1, <2>2, ServeAddsNoRow, ApiKeeps
  <2>3. ASSUME NEW x \in Assignment, Assign(p, x) PROVE FormInv'
    <3>1. step[p] = "insertAssignment"
      BY <1>1, <1>7, <2>3, AssignIsInsert
    <3> QED BY <1>7, <2>1, <2>3, <3>1, AssignKeeps
  <2> QED BY <2>2, <2>3
<1>8. ASSUME NEW p \in Proc, Unheard(p), UNCHANGED <<form, told>> PROVE FormInv'
  BY <1>8, UnheardKeeps
<1> QED BY <1>2, <1>3, <1>4, <1>5, <1>6, <1>7, <1>8 DEF FormNext

(* The inductive invariant: what a request wrote or listed is what it      *)
(* asked for, and what a form waits for is its own.                        *)
THEOREM FormInvariant == FormSpec => []FormInv
<1>1. FormInit => FormInv
  BY FormStarts
<1>2. FormInv /\ [FormNext]_formVars => FormInv'
  BY FormNextKeeps
<1> QED BY <1>1, <1>2, PTL DEF FormSpec

(* What the invariant means for a client and for its reader.               *)
LEMMA FormGuarantees ==
  ASSUME FormInv
  PROVE  /\ FormTypeOK /\ NoDangling /\ RolesWhole /\ AnswersTrue
         /\ WritesNeedRight /\ RowsAreTold /\ CreatedRowShown
<1>1. FormTypeOK
  BY DEF FormInv, RInv, FormTyped, FormTypeOK
<1>2. NoDangling
  BY DEF FormInv, RInv, TableInv
<1>3. RolesWhole
  BY DEF FormInv, RInv, TableInv, ProcInv, ListsKnown, RolesWhole, ListedWithRoles
<1>4. RefusedWritesNothing
  BY DEF FormInv, RInv, ProcInv, NothingYet, RefusedWritesNothing
<1>5. DocumentedStatuses
  BY DEF FormInv, RInv, ProcInv, Documented, DocumentedStatuses
<1>6. WritesNeedRight
  BY DEF FormInv, RInv, ProcInv, Allowed, WritesNeedRight
<1>7. RowsAreTold
  BY DEF FormInv, RInv, RegistryTypeOK, Accounted, AccountedFor, RowsAreTold
<1>8. CreatedRowShown
  BY DEF FormInv, FInv, ShowsMade, CreatedRowShown
<1> QED BY <1>1, <1>2, <1>3, <1>4, <1>5, <1>6, <1>7, <1>8 DEF AnswersTrue

=============================================================================
