---------------------------- MODULE AccountsProofs ----------------------------
(* Proofs about Accounts for any number of processes, ids, names, roles    *)
(* asked for and passwords.                                                *)
EXTENDS Accounts, TLAPS

(***************************************************************************)
(* The inductive invariant.  An id that has been given to an account keeps *)
(* its name, also after the account is deleted, so what a process read of  *)
(* it stays true: NewAccount takes ids without a name only.                *)
(***************************************************************************)
RowsAreNamed == active \subseteq rows /\ \A i \in rows : name[i] # NoName

NamedBefore ==
  \A p \in Proc :
    /\ who[p] \in Id => name[who[p]] # NoName
    /\ cmd[p].subject \in Id => name[cmd[p].subject] # NoName

RunningHasNoResult == \A p \in Proc : step[p] # "idle" => result[p] = "none"

(* What a process has checked before it writes.                            *)
CreatesNamed ==
  \A p \in Proc :
    /\ step[p] \in {"prompt", "insertUser"} => cmd[p].name \in Typed
    /\ step[p] = "insertUser" =>
         Canonical[cmd[p].name] # NoName /\ cmd[p].password \in Password

RehashVerified ==
  \A p \in Proc : step[p] = "rehash" =>
    who[p] \in Id /\ chosen[who[p]] = cmd[p].password

RoleWasOrdered ==
  \A p \in Proc :
    /\ (step[p] \in {"prompt", "insertUser", "findUser", "findGrant", "insertGrant"}
          /\ cmd[p].role \in RoleCode) => <<Canonical[cmd[p].name], cmd[p].role>> \in ordered
    /\ step[p] \in {"findGrant", "insertGrant"} =>
         /\ who[p] \in Id /\ name[who[p]] = Canonical[cmd[p].name]
         /\ cmd[p].role \in RoleCode

ReportIsTrue ==
  \A p \in Proc : (step[p] = "report" /\ who[p] \in rows) =>
    <<who[p], cmd[p].role>> \in grants

(* A late request stands before get_current_user, or has been refused.     *)
LateStaysOut ==
  \A p \in Proc : (cmd[p].verb = "call" /\ p \in late) =>
    /\ cmd[p].subject \in Id \ active
    /\ step[p] = "authenticate" /\ result[p] # "200"

AuthorizesSubject ==
  \A p \in Proc : step[p] = "authorize" => who[p] = cmd[p].subject

IInv ==
  /\ TypeOK /\ RunningHasNoResult
  /\ RowsAreNamed /\ NamedBefore /\ CreatesNamed
  /\ RehashVerified /\ PasswordSticks
  /\ RoleWasOrdered /\ GrantWasOrdered
  /\ ReportIsTrue /\ ZeroMeansGranted
  /\ LateStaysOut /\ AuthorizesSubject /\ ServedByRight
  /\ HoldersKnown

-----------------------------------------------------------------------------
LEMMA NoCommandTyped == NoCommand \in Command
BY DEF NoCommand, Command, Verb

(* What a process keeps when it ends.                                      *)
LEMMA EndTyped ==
  ASSUME TypeOK, NEW p \in Proc, NEW how \in Result, End(p, how)
  PROVE  /\ step' \in [Proc -> Step] /\ cmd' \in [Proc -> Command]
         /\ who' \in [Proc -> Id \cup {NoId}] /\ result' \in [Proc -> Result]
         /\ starts' \in 0..MaxStarts
<1>1. cmd[p] \in Command /\ NoCommand \in Command
  BY NoCommandTyped DEF TypeOK
<1>2. [cmd[p] EXCEPT !.name = NoName, !.password = NoName] \in Command
  BY <1>1 DEF Command
<1>3. cmd' \in [Proc -> Command]
  BY <1>1, <1>2 DEF TypeOK, End
<1> QED BY <1>3 DEF TypeOK, End, Step

LEMMA EndSays ==
  ASSUME TypeOK, NEW p \in Proc, NEW how \in Result, End(p, how)
  PROVE  /\ step'[p] = "idle" /\ result'[p] = how
         /\ how \in {"0", "200"} =>
              /\ cmd'[p].verb = cmd[p].verb /\ cmd'[p].role = cmd[p].role
              /\ cmd'[p].subject = cmd[p].subject /\ cmd'[p].wants = cmd[p].wants
         /\ how = "0" => who'[p] = who[p]
         /\ how \notin {"0", "200"} => cmd'[p] = NoCommand
BY DEF TypeOK, End, Command

LEMMA StartTyped ==
  ASSUME TypeOK, NEW p \in Proc, NEW c \in Command, NEW first \in Step,
         Start(p, c, first)
  PROVE  /\ step' \in [Proc -> Step] /\ cmd' \in [Proc -> Command]
         /\ who' \in [Proc -> Id \cup {NoId}] /\ result' \in [Proc -> Result]
         /\ starts' \in 0..MaxStarts
BY AccountsAssumption DEF TypeOK, Start, Result

LEMMA GotoTyped ==
  ASSUME TypeOK, NEW p \in Proc, NEW next \in Step,
         NEW i \in Id, Goto(p, next) \/ Find(p, i, next)
  PROVE  /\ step' \in [Proc -> Step] /\ cmd' \in [Proc -> Command]
         /\ who' \in [Proc -> Id \cup {NoId}] /\ result' \in [Proc -> Result]
         /\ starts' \in 0..MaxStarts
BY DEF TypeOK, Goto, Find

-----------------------------------------------------------------------------
LEMMA TypeStep ==
  ASSUME TypeOK, CreatesNamed, RehashVerified, RoleWasOrdered, Next
  PROVE  TypeOK'
<1> USE DEF Result, Step
<1>1. ASSUME NEW p \in Proc, StartCreate(p) PROVE TypeOK'
  <2>1. PICK n \in Typed, r \in Offered \cup {NoRole} :
          /\ Start(p, [NoCommand EXCEPT !.verb = "create_user", !.name = n,
                                        !.role = r], "prompt")
          /\ ordered' = IF r \in RoleCode
                          THEN ordered \cup {<<Canonical[n], r>>} ELSE ordered
    BY <1>1 DEF StartCreate
  <2>2. [NoCommand EXCEPT !.verb = "create_user", !.name = n, !.role = r] \in Command
    BY NoCommandTyped DEF Command, Verb
  <2>3. Canonical[n] \in Username \cup {NoName}
    BY AccountsAssumption
  <2> QED BY <1>1, <2>1, <2>2, <2>3, StartTyped DEF TypeOK, StartCreate, table
<1>2. ASSUME NEW p \in Proc, Prompt(p) PROVE TypeOK'
  <2>1. CASE End(p, "1")
    BY <1>2, <2>1, EndTyped DEF TypeOK, Prompt, table, history
  <2>2. CASE ~End(p, "1")
    <3>1. PICK w \in Password :
            /\ cmd' = [cmd EXCEPT ![p].password = w]
            /\ step' = [step EXCEPT ![p] = "insertUser"]
            /\ UNCHANGED <<who, result, starts>>
      BY <1>2, <2>2 DEF Prompt
    <3>2. cmd' \in [Proc -> Command]
      <4>1. cmd[p] \in Command
        BY DEF TypeOK
      <4>2. [cmd[p] EXCEPT !.password = w] \in Command
        BY <4>1 DEF Command
      <4> QED BY <3>1, <4>2 DEF TypeOK
    <3>3. step' \in [Proc -> Step]
      BY <3>1 DEF TypeOK
    <3>4. UNCHANGED <<table, tokens, history>>
      BY <1>2 DEF Prompt
    <3> QED BY <3>1, <3>2, <3>3, <3>4 DEF TypeOK, table, history
  <2> QED BY <2>1, <2>2
<1>3. ASSUME NEW p \in Proc, CreateInsert(p) PROVE TypeOK'
  <2>1. CASE Named(cmd[p].name) = {}
    <3>1. PICK i \in Id : NewAccount(p, i)
      BY <1>3, <2>1 DEF CreateInsert
    <3>2. End(p, "0") \/ Goto(p, "findUser")
      BY <3>1 DEF NewAccount
    <3>3. /\ step' \in [Proc -> Step] /\ cmd' \in [Proc -> Command]
          /\ who' \in [Proc -> Id \cup {NoId}] /\ result' \in [Proc -> Result]
          /\ starts' \in 0..MaxStarts
      BY <3>2, EndTyped, GotoTyped
    <3>4. /\ cmd[p].password \in Password
          /\ cmd[p].name \in Typed
      BY <1>3 DEF CreatesNamed, CreateInsert
    <3>5. Canonical[cmd[p].name] \in Username \cup {NoName}
      BY <3>4, AccountsAssumption
    <3> QED BY <3>1, <3>3, <3>4, <3>5 DEF TypeOK, NewAccount, Hash
  <2>2. CASE Named(cmd[p].name) # {}
    BY <1>3, <2>2, EndTyped DEF TypeOK, CreateInsert, table, history
  <2> QED BY <2>1, <2>2
<1>4. ASSUME NEW p \in Proc, StartAssign(p) PROVE TypeOK'
  <2>1. PICK n \in Typed, r \in Offered :
          /\ Start(p, [NoCommand EXCEPT !.verb = "assign_role", !.name = n,
                                        !.role = r], "findUser")
          /\ ordered' = IF r \in RoleCode
                          THEN ordered \cup {<<Canonical[n], r>>} ELSE ordered
    BY <1>4 DEF StartAssign
  <2>2. [NoCommand EXCEPT !.verb = "assign_role", !.name = n, !.role = r] \in Command
    BY NoCommandTyped DEF Command, Verb
  <2>3. Canonical[n] \in Username \cup {NoName}
    BY AccountsAssumption
  <2> QED BY <1>4, <2>1, <2>2, <2>3, StartTyped DEF TypeOK, StartAssign, table
<1>5. ASSUME NEW p \in Proc, FindGrantee(p) PROVE TypeOK'
  <2>1. Named(cmd[p].name) \subseteq Id
    BY DEF TypeOK, Named
  <2>2. CASE End(p, "1")
    BY <1>5, <2>2, EndTyped DEF TypeOK, FindGrantee, table, history
  <2>3. CASE ~End(p, "1")
    <3>1. PICK i \in Id : Find(p, i, "findGrant")
      BY <1>5, <2>1, <2>3 DEF FindGrantee
    <3> QED BY <1>5, <3>1, GotoTyped DEF TypeOK, FindGrantee, table, history
  <2> QED BY <2>2, <2>3
<1>6. ASSUME NEW p \in Proc, CheckGrant(p) PROVE TypeOK'
  <2>1. \/ End(p, "0") \/ End(p, "1") \/ Goto(p, "insertGrant")
    BY <1>6 DEF CheckGrant, AlreadyGranted
  <2>2. /\ step' \in [Proc -> Step] /\ cmd' \in [Proc -> Command]
        /\ who' \in [Proc -> Id \cup {NoId}] /\ result' \in [Proc -> Result]
        /\ starts' \in 0..MaxStarts
    <3>1. CASE End(p, "0") BY <3>1, EndTyped
    <3>2. CASE End(p, "1") BY <3>2, EndTyped
    <3>3. CASE Goto(p, "insertGrant") BY <3>3 DEF TypeOK, Goto
    <3> QED BY <2>1, <3>1, <3>2, <3>3
  <2> QED BY <1>6, <2>2 DEF TypeOK, CheckGrant, table, history
<1>7. ASSUME NEW p \in Proc, InsertGrant(p) PROVE TypeOK'
  <2>1. CASE End(p, "crash")
    <3>1. grants' \subseteq Id \X RoleCode
      <4>1. grants' = grants \/ Grant(p)
        BY <1>7 DEF InsertGrant, table
      <4>2. who[p] \in Id /\ cmd[p].role \in RoleCode
        BY <1>7 DEF InsertGrant, RoleWasOrdered
      <4> QED BY <4>1, <4>2 DEF TypeOK, Grant
    <3>2. /\ step' \in [Proc -> Step] /\ cmd' \in [Proc -> Command]
          /\ who' \in [Proc -> Id \cup {NoId}] /\ result' \in [Proc -> Result]
          /\ starts' \in 0..MaxStarts
      BY <2>1, EndTyped
    <3> QED BY <1>7, <3>1, <3>2 DEF TypeOK, InsertGrant, Grant, table, history
  <2>2. CASE ~End(p, "crash")
    <3>1. Grant(p) /\ who[p] \in Id /\ cmd[p].role \in RoleCode
      BY <1>7, <2>2 DEF InsertGrant, RoleWasOrdered
    <3>2. grants' \subseteq Id \X RoleCode
      BY <3>1 DEF TypeOK, Grant
    <3>3. CASE End(p, "0")
      BY <3>1, <3>2, <3>3, EndTyped DEF TypeOK, Grant, history
    <3>4. CASE Goto(p, "report")
      BY <3>1, <3>2, <3>4 DEF TypeOK, Grant, Goto, history
    <3> QED BY <3>1, <3>3, <3>4 DEF Grant
  <2> QED BY <2>1, <2>2
<1>8. ASSUME NEW p \in Proc, Report(p) PROVE TypeOK'
  BY <1>8, EndTyped DEF TypeOK, Report, table, history
<1>9. ASSUME NEW p \in Proc, StartLogin(p) PROVE TypeOK'
  <2>1. PICK n \in Typed, w \in Password :
          Start(p, [NoCommand EXCEPT !.verb = "login", !.name = n,
                                     !.password = w], "readUser")
    BY <1>9 DEF StartLogin
  <2>2. [NoCommand EXCEPT !.verb = "login", !.name = n, !.password = w] \in Command
    BY NoCommandTyped DEF Command, Verb
  <2> QED BY <1>9, <2>1, <2>2, StartTyped DEF TypeOK, StartLogin, table
<1>10. ASSUME NEW p \in Proc, ReadUser(p) PROVE TypeOK'
  <2>1. Named(cmd[p].name) \subseteq Id
    BY DEF TypeOK, Named
  <2>2. \/ End(p, "401") /\ UNCHANGED tokens
        \/ \E i \in Id : Issue(p, i) \/ (Find(p, i, "rehash") /\ UNCHANGED tokens)
    BY <1>10, <2>1, Zenon DEF ReadUser
  <2>3. CASE End(p, "401") /\ UNCHANGED tokens
    BY <1>10, <2>3, EndTyped DEF TypeOK, ReadUser, table, history
  <2>4. ASSUME NEW i \in Id, Issue(p, i) PROVE TypeOK'
    <3>1. /\ step' \in [Proc -> Step] /\ cmd' \in [Proc -> Command]
          /\ who' \in [Proc -> Id \cup {NoId}] /\ result' \in [Proc -> Result]
          /\ starts' \in 0..MaxStarts
      BY <2>4, EndTyped DEF Issue
    <3> QED BY <1>10, <2>4, <3>1 DEF TypeOK, ReadUser, Issue, table, history
  <2>5. ASSUME NEW i \in Id, Find(p, i, "rehash"), UNCHANGED tokens PROVE TypeOK'
    BY <1>10, <2>5, GotoTyped DEF TypeOK, ReadUser, table, history
  <2> QED BY <2>2, <2>3, <2>4, <2>5
<1>11. ASSUME NEW p \in Proc, Rehash(p) PROVE TypeOK'
  <2>1. who[p] \in Id /\ cmd[p].password \in Password
    BY <1>11 DEF TypeOK, Rehash, RehashVerified
  <2>2. CASE who[p] \in rows
    <3>0. [of |-> cmd[p].password, current |-> TRUE] \in Hash
      BY <2>1 DEF Hash
    <3>1. hash' \in [Id -> Hash] /\ Issue(p, who[p])
      BY <1>11, <2>1, <2>2, <3>0, ZenonT(60) DEF TypeOK, Rehash
    <3>2. /\ step' \in [Proc -> Step] /\ cmd' \in [Proc -> Command]
          /\ who' \in [Proc -> Id \cup {NoId}] /\ result' \in [Proc -> Result]
          /\ starts' \in 0..MaxStarts
      BY <3>1, EndTyped DEF Issue
    <3> QED BY <1>11, <2>1, <3>1, <3>2 DEF TypeOK, Rehash, Issue, history
  <2>3. CASE who[p] \notin rows
    BY <1>11, <2>3, EndTyped DEF TypeOK, Rehash, history
  <2> QED BY <2>2, <2>3
<1>12. ASSUME NEW p \in Proc, StartCall(p) PROVE TypeOK'
  <2>1. PICK i \in Id, q \in Asked :
          Start(p, [NoCommand EXCEPT !.verb = "call", !.subject = i,
                                     !.wants = q], "authenticate")
    BY <1>12 DEF StartCall
  <2>2. [NoCommand EXCEPT !.verb = "call", !.subject = i, !.wants = q] \in Command
    BY NoCommandTyped DEF Command, Verb
  <2>3. late' \subseteq Proc
    BY <1>12 DEF TypeOK, StartCall
  <2> QED BY <1>12, <2>1, <2>2, <2>3, StartTyped DEF TypeOK, StartCall, table
<1>13. ASSUME NEW p \in Proc, Authenticate(p) PROVE TypeOK'
  <2>1. \/ End(p, "401") \/ End(p, "200")
        \/ \E i \in Id : Find(p, i, "authorize")
    BY <1>13 DEF TypeOK, Authenticate, Admit
  <2>2. /\ step' \in [Proc -> Step] /\ cmd' \in [Proc -> Command]
        /\ who' \in [Proc -> Id \cup {NoId}] /\ result' \in [Proc -> Result]
        /\ starts' \in 0..MaxStarts
    <3>1. CASE End(p, "401") BY <3>1, EndTyped
    <3>2. CASE End(p, "200") BY <3>2, EndTyped
    <3>3. CASE \E i \in Id : Find(p, i, "authorize") BY <3>3, GotoTyped
    <3> QED BY <2>1, <3>1, <3>2, <3>3
  <2> QED BY <1>13, <2>2 DEF TypeOK, Authenticate, table, history
<1>14. ASSUME NEW p \in Proc, Authorize(p) PROVE TypeOK'
  <2>1. CASE End(p, "200")
    BY <1>14, <2>1, EndTyped DEF TypeOK, Authorize, table, history
  <2>2. CASE End(p, "403")
    BY <1>14, <2>2, EndTyped DEF TypeOK, Authorize, table, history
  <2> QED BY <1>14, <2>1, <2>2 DEF Authorize
<1>15. ASSUME NEW p \in Proc, Crash(p) PROVE TypeOK'
  BY <1>15, EndTyped DEF TypeOK, Crash, table, history
<1>16. ASSUME NEW i \in Id, Deactivate(i) PROVE TypeOK'
  BY <1>16 DEF TypeOK, Deactivate, local, history
<1>17. ASSUME NEW i \in Id, DeleteUser(i) PROVE TypeOK'
  BY <1>17 DEF TypeOK, DeleteUser, local, history
<1>18. ASSUME NEW i \in Id, TokenExpires(i) PROVE TypeOK'
  BY <1>18 DEF TypeOK, TokenExpires, table, local, history
<1>19. ASSUME ParametersChange PROVE TypeOK'
  <2>1. hash' \in [Id -> Hash]
    BY <1>19, ZenonT(60) DEF TypeOK, ParametersChange, Hash
  <2> QED BY <1>19, <2>1 DEF TypeOK, ParametersChange, local, history
<1> QED
  BY <1>1, <1>2, <1>3, <1>4, <1>5, <1>6, <1>7, <1>8, <1>9, <1>10, <1>11, <1>12,
     <1>13, <1>14, <1>15, <1>16, <1>17, <1>18, <1>19 DEF Next

-----------------------------------------------------------------------------
(* A step is one of a process, which touches no other, or of the           *)
(* environment, which touches none.                                        *)
Acts(p) ==
  \/ StartCreate(p) \/ Prompt(p) \/ CreateInsert(p)
  \/ StartAssign(p) \/ FindGrantee(p) \/ CheckGrant(p)
  \/ InsertGrant(p) \/ Report(p)
  \/ StartLogin(p) \/ ReadUser(p) \/ Rehash(p)
  \/ StartCall(p) \/ Authenticate(p) \/ Authorize(p)
  \/ Crash(p)

Environment ==
  \/ \E i \in Id : Deactivate(i) \/ DeleteUser(i) \/ TokenExpires(i)
  \/ ParametersChange

LEMMA NextCases == Next => Environment \/ \E p \in Proc : Acts(p)
BY DEF Next, Environment, Acts

LEMMA OthersStay ==
  ASSUME TypeOK, NEW p \in Proc, Acts(p), NEW q \in Proc, q # p
  PROVE  /\ step'[q] = step[q] /\ cmd'[q] = cmd[q]
         /\ who'[q] = who[q] /\ result'[q] = result[q]
         /\ (q \in late' <=> q \in late)
<1> USE DEF TypeOK
<1>1. CASE StartCreate(p) \/ StartAssign(p) \/ StartLogin(p) \/ StartCall(p)
  BY <1>1 DEF StartCreate, StartAssign, StartLogin, StartCall, Start
<1>2. CASE Prompt(p) BY <1>2 DEF Prompt, End, history
<1>3. CASE CreateInsert(p)
  BY <1>3 DEF CreateInsert, NewAccount, End, Goto, history
<1>4. CASE FindGrantee(p) BY <1>4 DEF FindGrantee, Find, End, history
<1>5. CASE CheckGrant(p)
  BY <1>5 DEF CheckGrant, AlreadyGranted, End, Goto, history
<1>6. CASE InsertGrant(p) BY <1>6 DEF InsertGrant, Grant, End, Goto, history
<1>7. CASE ReadUser(p) BY <1>7 DEF ReadUser, Issue, End, Find, history
<1>8. CASE Rehash(p) BY <1>8 DEF Rehash, Issue, End, history
<1>9. CASE Authenticate(p) BY <1>9 DEF Authenticate, Admit, End, Find, history
<1>10. CASE Report(p) \/ Authorize(p) \/ Crash(p)
  BY <1>10 DEF Report, Authorize, Crash, End, history
<1> QED
  BY <1>1, <1>2, <1>3, <1>4, <1>5, <1>6, <1>7, <1>8, <1>9, <1>10 DEF Acts

LEMMA AllStay == ASSUME Environment PROVE UNCHANGED <<local, history, name>>
BY DEF Environment, Deactivate, DeleteUser, TokenExpires, ParametersChange,
       table, local, history

(* What never comes back: an id that has had a name has no other and no    *)
(* other password, gets no new row, and is not activated again.            *)
LEMMA NamesStay ==
  ASSUME TypeOK, Next, NEW i \in Id, name[i] # NoName
  PROVE  /\ name'[i] = name[i] /\ chosen'[i] = chosen[i]
         /\ (i \in rows' => i \in rows) /\ (i \in active' => i \in active)
<1> USE DEF TypeOK
<1>1. CASE Environment
  BY <1>1 DEF Environment, Deactivate, DeleteUser, TokenExpires, ParametersChange,
              table, history
<1>2. ASSUME NEW p \in Proc, CreateInsert(p) PROVE
         /\ name'[i] = name[i] /\ chosen'[i] = chosen[i]
         /\ (i \in rows' => i \in rows) /\ (i \in active' => i \in active)
  BY <1>2 DEF CreateInsert, NewAccount, table, history
<1>3. ASSUME NEW p \in Proc, Acts(p), ~CreateInsert(p)
      PROVE UNCHANGED <<name, chosen, rows, active>>
  BY <1>3 DEF Acts, StartCreate, Prompt, StartAssign, FindGrantee, CheckGrant,
              InsertGrant, Grant, Report, StartLogin, ReadUser, Rehash, StartCall,
              Authenticate, Authorize, Crash, table, history
<1> QED BY <1>1, <1>2, <1>3, NextCases

(* Orders are never forgotten, and grants go with their account only.      *)
LEMMA GrantsStay ==
  ASSUME TypeOK, Next
  PROVE  /\ ordered \subseteq ordered'
         /\ \A g \in grants : g[1] \in rows' => g \in grants'
<1> USE DEF TypeOK
<1>1. CASE Environment
  BY <1>1 DEF Environment, Deactivate, DeleteUser, TokenExpires, ParametersChange,
              table, history
<1>2. ASSUME NEW p \in Proc, StartCreate(p) \/ StartAssign(p)
      PROVE ordered \subseteq ordered' /\ grants' = grants
  BY <1>2 DEF StartCreate, StartAssign, table
<1>3. ASSUME NEW p \in Proc, Acts(p), ~(StartCreate(p) \/ StartAssign(p))
      PROVE ordered' = ordered /\ grants \subseteq grants'
  BY <1>3 DEF Acts, Prompt, CreateInsert, NewAccount, FindGrantee, CheckGrant,
              InsertGrant, Grant, Report, StartLogin, ReadUser, Rehash, StartCall,
              Authenticate, Authorize, Crash, table, history
<1> QED BY <1>1, <1>2, <1>3, NextCases

-----------------------------------------------------------------------------
LEMMA RowsStep ==
  ASSUME TypeOK, CreatesNamed, RowsAreNamed, HoldersKnown, Next
  PROVE  RowsAreNamed' /\ HoldersKnown'
<1> USE DEF TypeOK, RowsAreNamed, HoldersKnown, OneAccountPerName, GrantsHaveOwner
<1>1. CASE Environment
  BY <1>1 DEF Environment, Deactivate, DeleteUser, TokenExpires, ParametersChange,
              table
<1>2. ASSUME NEW p \in Proc, CreateInsert(p) PROVE RowsAreNamed' /\ HoldersKnown'
  <2>1. CASE Named(cmd[p].name) = {}
    <3>1. PICK i \in Id : NewAccount(p, i)
      BY <1>2, <2>1 DEF CreateInsert
    <3>2. Canonical[cmd[p].name] # NoName
      BY <1>2 DEF CreateInsert, CreatesNamed
    <3>3. \A j \in rows : name[j] # Canonical[cmd[p].name]
      BY <2>1 DEF Named
    <3> QED BY <3>1, <3>2, <3>3 DEF NewAccount
  <2> QED BY <1>2, <2>1 DEF CreateInsert, table
<1>3. ASSUME NEW p \in Proc, InsertGrant(p) PROVE RowsAreNamed' /\ HoldersKnown'
  BY <1>3 DEF InsertGrant, Grant, table
<1>4. ASSUME NEW p \in Proc, Acts(p), ~CreateInsert(p), ~InsertGrant(p)
      PROVE UNCHANGED <<name, rows, active, grants>>
  BY <1>4 DEF Acts, StartCreate, Prompt, StartAssign, FindGrantee, CheckGrant,
              Report, StartLogin, ReadUser, Rehash, StartCall, Authenticate,
              Authorize, Crash, table
<1> QED BY <1>1, <1>2, <1>3, <1>4, NextCases

(* The ids a process remembers have been accounts.                         *)
LEMMA NamedStep ==
  ASSUME TypeOK, RowsAreNamed, NamedBefore, Next PROVE NamedBefore'
<1> USE DEF TypeOK
<1> SUFFICES ASSUME NEW q \in Proc
             PROVE  /\ who'[q] \in Id => name'[who'[q]] # NoName
                    /\ cmd'[q].subject \in Id => name'[cmd'[q].subject] # NoName
  BY DEF NamedBefore
<1>1. /\ who[q] \in Id => name'[who[q]] # NoName
      /\ cmd[q].subject \in Id => name'[cmd[q].subject] # NoName
      /\ \A i \in rows : name'[i] # NoName
  BY NamesStay DEF NamedBefore, RowsAreNamed
<1>2. CASE who'[q] = who[q] /\ cmd'[q] = cmd[q]
  BY <1>1, <1>2
<1>3. CASE Environment
  BY <1>2, <1>3, AllStay DEF local
<1>4. ASSUME NEW p \in Proc, Acts(p), p # q
      PROVE  who'[q] = who[q] /\ cmd'[q] = cmd[q]
  BY <1>4, OthersStay
<1>5. ASSUME NEW how, End(q, how)
      PROVE  /\ who'[q] \in {who[q], NoId}
             /\ cmd'[q].subject \in {cmd[q].subject, NoId}
  BY <1>5 DEF End, NoCommand, Command
<1>6. ASSUME NEW i \in rows, NEW next, Find(q, i, next)
      PROVE  who'[q] = i /\ cmd'[q] = cmd[q]
  BY <1>6 DEF Find
<1>7. CASE StartCreate(q) \/ StartAssign(q) \/ StartLogin(q)
  <2>1. who'[q] = NoId /\ cmd'[q].subject = NoId
    <3>1. CASE StartCreate(q) BY <3>1 DEF StartCreate, Start, NoCommand
    <3>2. CASE StartAssign(q) BY <3>2 DEF StartAssign, Start, NoCommand
    <3>3. CASE StartLogin(q) BY <3>3 DEF StartLogin, Start, NoCommand
    <3> QED BY <1>7, <3>1, <3>2, <3>3
  <2> QED BY <2>1, AccountsAssumption
<1>8. CASE StartCall(q)
  BY <1>8, AccountsAssumption DEF StartCall, Start, NoCommand, table
<1>9. CASE Acts(q) /\ ~(StartCreate(q) \/ StartAssign(q) \/ StartLogin(q) \/ StartCall(q))
  <2>1. \/ \E how \in Result : End(q, how)
        \/ \E i \in rows, next \in Step : Find(q, i, next)
        \/ who' = who /\ cmd'[q].subject = cmd[q].subject
    <3>1. CASE Prompt(q) BY <3>1 DEF Prompt, Result, Command
    <3>2. CASE CreateInsert(q)
      BY <3>2 DEF CreateInsert, NewAccount, Goto, Result
    <3>3. CASE FindGrantee(q) BY <3>3 DEF FindGrantee, Result, Step, Named
    <3>4. CASE CheckGrant(q)
      BY <3>4 DEF CheckGrant, AlreadyGranted, Goto, Result
    <3>5. CASE InsertGrant(q) BY <3>5 DEF InsertGrant, Grant, Goto, Result
    <3>6. CASE ReadUser(q) BY <3>6 DEF ReadUser, Issue, Result, Step, Named
    <3>7. CASE Rehash(q) BY <3>7 DEF Rehash, Issue, Result
    <3>8. CASE Authenticate(q)
      BY <3>8 DEF Authenticate, Admit, Result, Step
    <3>9. CASE Report(q) \/ Authorize(q) \/ Crash(q)
      BY <3>9 DEF Report, Authorize, Crash, Result
    <3> QED
      BY <1>9, <3>1, <3>2, <3>3, <3>4, <3>5, <3>6, <3>7, <3>8, <3>9 DEF Acts
  <2>2. NoId \notin Id
    BY AccountsAssumption
  <2> QED BY <1>1, <1>5, <1>6, <2>1, <2>2
<1> QED BY <1>2, <1>3, <1>4, <1>7, <1>8, <1>9, NextCases DEF Acts

(* What create_user and a login know before they write.                    *)
LEMMA WriterStep ==
  ASSUME TypeOK, RowsAreNamed, NamedBefore, CreatesNamed, RehashVerified,
         PasswordSticks, Next
  PROVE  CreatesNamed' /\ RehashVerified' /\ PasswordSticks'
<1> USE DEF TypeOK
<1>1. PasswordSticks'
  <2> USE DEF PasswordSticks
  <2>1. CASE Environment
    <3>1. /\ chosen' = chosen /\ rows' \subseteq rows
          /\ \A i \in Id : hash'[i].of = hash[i].of
      <4>1. CASE ParametersChange
        BY <4>1 DEF ParametersChange, Hash, history
      <4>2. CASE ~ParametersChange
        BY <2>1, <4>2 DEF Environment, Deactivate, DeleteUser, TokenExpires, table,
                          history
      <4> QED BY <4>1, <4>2
    <3> QED BY <3>1
  <2>2. ASSUME NEW p \in Proc, CreateInsert(p) PROVE PasswordSticks'
    BY <2>2 DEF CreateInsert, NewAccount, table, history
  <2>3. ASSUME NEW p \in Proc, Rehash(p) PROVE PasswordSticks'
    BY <2>3 DEF Rehash, RehashVerified, history
  <2>4. ASSUME NEW p \in Proc, Acts(p), ~CreateInsert(p), ~Rehash(p)
        PROVE UNCHANGED <<chosen, rows, hash>>
    BY <2>4 DEF Acts, StartCreate, Prompt, StartAssign, FindGrantee, CheckGrant,
                InsertGrant, Grant, Report, StartLogin, ReadUser, StartCall,
                Authenticate, Authorize, Crash, table, history
  <2> QED BY <2>1, <2>2, <2>3, <2>4, NextCases
<1>2. ASSUME NEW q \in Proc
      PROVE  /\ step'[q] \in {"prompt", "insertUser"} => cmd'[q].name \in Typed
             /\ step'[q] = "insertUser" =>
                  Canonical[cmd'[q].name] # NoName /\ cmd'[q].password \in Password
             /\ step'[q] = "rehash" =>
                  who'[q] \in Id /\ chosen'[who'[q]] = cmd'[q].password
  <2>1. step[q] = "rehash" => chosen'[who[q]] = chosen[who[q]]
    BY NamesStay DEF RehashVerified, NamedBefore
  <2>2. CASE UNCHANGED <<step[q], cmd[q], who[q]>>
    BY <2>1, <2>2 DEF CreatesNamed, RehashVerified
  <2>3. CASE Environment
    BY <2>2, <2>3, AllStay DEF local
  <2>4. ASSUME NEW p \in Proc, Acts(p), p # q
        PROVE  UNCHANGED <<step[q], cmd[q], who[q]>>
    BY <2>4, OthersStay
  <2>5. CASE step'[q] \notin {"prompt", "insertUser", "rehash"}
    BY <2>5
  <2>6. CASE StartCreate(q)
    BY <2>6 DEF StartCreate, Start, NoCommand
  <2>7. CASE Prompt(q)
    <3>1. CASE End(q, "1")
      BY <2>5, <3>1 DEF End
    <3>2. CASE ~End(q, "1")
      <4>1. PICK w \in Password :
              /\ Canonical[cmd[q].name] # NoName
              /\ cmd' = [cmd EXCEPT ![q].password = w]
              /\ step' = [step EXCEPT ![q] = "insertUser"]
        BY <2>7, <3>2 DEF Prompt
      <4>2. cmd'[q].name = cmd[q].name /\ cmd'[q].password = w
        <5>1. cmd[q] \in Command
          OBVIOUS
        <5> QED BY <4>1, <5>1 DEF Command
      <4> QED BY <2>7, <4>1, <4>2 DEF Prompt, CreatesNamed
    <3> QED BY <3>1, <3>2
  <2>8. CASE ReadUser(q)
    <3>1. CASE step'[q] = "rehash"
      <4>1. PICK i \in rows : /\ hash[i].of = cmd[q].password
                              /\ Find(q, i, "rehash")
        BY <2>8, <3>1 DEF ReadUser, Issue, End, Named
      <4>2. chosen' = chosen
        BY <2>8 DEF ReadUser, history
      <4> QED BY <3>1, <4>1, <4>2 DEF Find, PasswordSticks
    <3>2. step'[q] \in {"rehash", "idle"}
      BY <2>8 DEF ReadUser, Issue, End, Find
    <3> QED BY <2>5, <3>1, <3>2
  <2>9. CASE Acts(q) /\ ~StartCreate(q) /\ ~Prompt(q) /\ ~ReadUser(q)
    <3>1. CASE StartAssign(q) \/ StartLogin(q) \/ StartCall(q)
      BY <2>5, <3>1 DEF StartAssign, StartLogin, StartCall, Start
    <3>2. CASE CreateInsert(q)
      BY <2>5, <3>2 DEF CreateInsert, NewAccount, End, Goto
    <3>3. CASE FindGrantee(q) BY <2>5, <3>3 DEF FindGrantee, Find, End
    <3>4. CASE CheckGrant(q)
      BY <2>5, <3>4 DEF CheckGrant, AlreadyGranted, Goto, End
    <3>5. CASE InsertGrant(q) BY <2>5, <3>5 DEF InsertGrant, Grant, Goto, End
    <3>6. CASE Rehash(q) BY <2>5, <3>6 DEF Rehash, Issue, End
    <3>7. CASE Authenticate(q)
      BY <2>5, <3>7 DEF Authenticate, Admit, End, Find
    <3>8. CASE Report(q) \/ Authorize(q) \/ Crash(q)
      BY <2>5, <3>8 DEF Report, Authorize, Crash, End
    <3> QED BY <2>9, <3>1, <3>2, <3>3, <3>4, <3>5, <3>6, <3>7, <3>8 DEF Acts
  <2> QED BY <2>2, <2>3, <2>4, <2>6, <2>7, <2>8, <2>9, NextCases
<1> QED BY <1>1, <1>2 DEF CreatesNamed, RehashVerified

(* Grants: who asked for them, and what the commands say of them.          *)
LEMMA GrantStep ==
  ASSUME TypeOK, RowsAreNamed, NamedBefore, HoldersKnown, CreatesNamed,
         RunningHasNoResult, RoleWasOrdered, GrantWasOrdered, ReportIsTrue,
         ZeroMeansGranted, Next, TypeOK'
  PROVE  RoleWasOrdered' /\ GrantWasOrdered' /\ ReportIsTrue' /\ ZeroMeansGranted'
<1> USE DEF TypeOK
<1>1. GrantWasOrdered'
  <2>1. \A g \in grants : <<name'[g[1]], g[2]>> \in ordered'
    <3> SUFFICES ASSUME NEW g \in grants PROVE <<name'[g[1]], g[2]>> \in ordered'
      OBVIOUS
    <3>1. g[1] \in Id /\ name[g[1]] # NoName
      BY DEF HoldersKnown, GrantsHaveOwner, RowsAreNamed
    <3> QED BY <3>1, NamesStay, GrantsStay DEF GrantWasOrdered
  <2>2. CASE \E p \in Proc : InsertGrant(p)
    <3>1. PICK p \in Proc : InsertGrant(p)
      BY <2>2
    <3>2. grants' \subseteq grants \cup {<<who[p], cmd[p].role>>}
      BY <3>1 DEF InsertGrant, Grant, table
    <3>3. /\ name' = name /\ ordered' = ordered
          /\ <<name[who[p]], cmd[p].role>> \in ordered
      BY <3>1 DEF InsertGrant, Grant, RoleWasOrdered, table, history
    <3> QED BY <2>1, <3>2, <3>3 DEF GrantWasOrdered
  <2>3. CASE ~\E p \in Proc : InsertGrant(p)
    <3>1. grants' \subseteq grants
      BY <2>3 DEF Next, StartCreate, Prompt, CreateInsert, NewAccount, StartAssign,
           FindGrantee, CheckGrant, Report, StartLogin, ReadUser, Rehash, StartCall,
           Authenticate, Authorize, Crash, Deactivate, DeleteUser, TokenExpires,
           ParametersChange, table
    <3> QED BY <2>1, <3>1 DEF GrantWasOrdered
  <2> QED BY <2>2, <2>3
<1>2. ASSUME NEW q \in Proc
      PROVE  /\ (step'[q] \in {"prompt", "insertUser", "findUser", "findGrant",
                               "insertGrant"} /\ cmd'[q].role \in RoleCode)
                   => <<Canonical[cmd'[q].name], cmd'[q].role>> \in ordered'
             /\ step'[q] \in {"findGrant", "insertGrant"} =>
                  /\ who'[q] \in Id /\ name'[who'[q]] = Canonical[cmd'[q].name]
                  /\ cmd'[q].role \in RoleCode
             /\ (step'[q] = "report" /\ who'[q] \in rows') =>
                  <<who'[q], cmd'[q].role>> \in grants'
             /\ (result'[q] = "0" /\ cmd'[q].role # NoRole /\ who'[q] \in rows') =>
                  <<who'[q], cmd'[q].role>> \in grants'
  <2> DEFINE Same == UNCHANGED <<step[q], cmd[q], who[q], result[q]>>
  <2>1. /\ who[q] \in Id => name'[who[q]] = name[who[q]]
        /\ who[q] \in rows' => who[q] \in rows
        /\ ordered \subseteq ordered'
        /\ \A r \in RoleCode : <<who[q], r>> \in grants /\ who[q] \in rows' =>
             <<who[q], r>> \in grants'
    <3>1. rows' \subseteq Id
      BY DEF TypeOK
    <3> QED BY <3>1, NamesStay, GrantsStay DEF NamedBefore
  <2>2. CASE Same
    <3>1. /\ step[q] = step'[q] /\ cmd[q] = cmd'[q]
          /\ who[q] = who'[q] /\ result[q] = result'[q]
      BY <2>2
    <3>2. (step[q] = "report" /\ who[q] \in rows') => <<who[q], cmd[q].role>> \in grants'
      BY <2>1 DEF ReportIsTrue
    <3>3. (result[q] = "0" /\ cmd[q].role # NoRole /\ who[q] \in rows') =>
            <<who[q], cmd[q].role>> \in grants'
      BY <2>1 DEF ZeroMeansGranted
    <3>4. step[q] \in {"findGrant", "insertGrant"} =>
            /\ who[q] \in Id /\ name'[who[q]] = Canonical[cmd[q].name]
            /\ cmd[q].role \in RoleCode
      BY <2>1 DEF RoleWasOrdered
    <3>5. (step[q] \in {"prompt", "insertUser", "findUser", "findGrant", "insertGrant"}
             /\ cmd[q].role \in RoleCode) => <<Canonical[cmd[q].name], cmd[q].role>> \in ordered'
      BY <2>1 DEF RoleWasOrdered
    <3> QED BY <3>1, <3>2, <3>3, <3>4, <3>5
  <2>3. CASE Environment
    BY <2>2, <2>3, AllStay DEF local
  <2>4. ASSUME NEW p \in Proc, Acts(p), p # q PROVE Same
    BY <2>4, OthersStay
  (* Most ways to end say nothing of a grant.                              *)
  <2>5. ASSUME NEW how \in Result \ {"0"}, End(q, how)
        PROVE  step'[q] = "idle" /\ result'[q] # "0"
    BY <2>5, EndSays
  <2>6. CASE step'[q] = "idle" /\ result'[q] # "0"
    BY <2>6
  <2>7. CASE StartCreate(q) \/ StartAssign(q)
    <3>1. PICK n \in Typed, r \in Offered \cup {NoRole} :
            /\ cmd'[q].name = n /\ cmd'[q].role = r
            /\ step'[q] \in {"prompt", "findUser"} /\ result'[q] = "none"
            /\ r \in RoleCode => <<Canonical[n], r>> \in ordered'
      <4>1. CASE StartCreate(q) BY <4>1 DEF StartCreate, Start, NoCommand
      <4>2. CASE StartAssign(q) BY <4>2 DEF StartAssign, Start, NoCommand
      <4> QED BY <2>7, <4>1, <4>2
    <3> QED BY <3>1
  <2>8. CASE Prompt(q)
    <3>1. CASE End(q, "1") BY <2>5, <2>6, <3>1 DEF Result
    <3>2. CASE ~End(q, "1")
      <4>1. PICK w \in Password :
              /\ cmd' = [cmd EXCEPT ![q].password = w]
              /\ step' = [step EXCEPT ![q] = "insertUser"]
              /\ UNCHANGED <<who, result>>
        BY <2>8, <3>2 DEF Prompt
      <4>2. cmd'[q].name = cmd[q].name /\ cmd'[q].role = cmd[q].role
        <5>1. cmd[q] \in Command
          OBVIOUS
        <5> QED BY <4>1, <5>1 DEF Command
      <4>3. /\ step[q] = "prompt" /\ step'[q] = "insertUser"
            /\ who'[q] = who[q] /\ result'[q] = "none"
        BY <2>8, <4>1 DEF Prompt, RunningHasNoResult
      <4>4. cmd[q].role \in RoleCode => <<Canonical[cmd[q].name], cmd[q].role>> \in ordered'
        BY <4>3, <2>1 DEF RoleWasOrdered
      <4> QED BY <4>2, <4>3, <4>4
    <3> QED BY <3>1, <3>2
  <2>9. CASE CreateInsert(q)
    <3>1. CASE End(q, "crash") BY <2>5, <2>6, <3>1 DEF Result
    <3>2. CASE ~End(q, "crash")
      <4>1. PICK i \in Id : NewAccount(q, i)
        BY <2>9, <3>2 DEF CreateInsert
      <4>2. CASE cmd[q].role = NoRole
        <5>1. End(q, "0")
          BY <4>1, <4>2 DEF NewAccount
        <5>2. step'[q] = "idle" /\ cmd'[q].role = NoRole
          BY <4>2, <5>1, EndSays DEF Result
        <5> QED BY <5>2
      <4>3. CASE cmd[q].role # NoRole
        <5>1. /\ step'[q] = "findUser" /\ cmd'[q] = cmd[q] /\ result'[q] = "none"
          BY <2>9, <4>1, <4>3 DEF CreateInsert, NewAccount, Goto, RunningHasNoResult
        <5>2. cmd[q].role \in RoleCode => <<Canonical[cmd[q].name], cmd[q].role>> \in ordered'
          BY <2>1, <2>9 DEF CreateInsert, RoleWasOrdered
        <5> QED BY <5>1, <5>2
      <4> QED BY <4>2, <4>3
    <3> QED BY <3>1, <3>2
  <2>10. CASE FindGrantee(q)
    <3>1. CASE End(q, "1") BY <2>5, <2>6, <3>1 DEF Result
    <3>2. CASE ~End(q, "1")
      <4>1. PICK i \in rows : /\ name[i] = Canonical[cmd[q].name]
                              /\ cmd[q].role \in RoleCode
                              /\ Find(q, i, "findGrant")
        BY <2>10, <3>2 DEF FindGrantee, Named
      <4>2. /\ step'[q] = "findGrant" /\ cmd'[q] = cmd[q]
            /\ who'[q] = i /\ result'[q] = "none"
        BY <2>10, <4>1 DEF FindGrantee, Find, RunningHasNoResult
      <4>3. <<Canonical[cmd[q].name], cmd[q].role>> \in ordered' /\ name' = name
        BY <2>10, <4>1 DEF FindGrantee, RoleWasOrdered, table, history
      <4> QED BY <4>1, <4>2, <4>3
    <3> QED BY <3>1, <3>2
  <2>11. CASE CheckGrant(q)
    <3>1. CASE End(q, "1") BY <2>5, <2>6, <3>1 DEF Result
    <3>2. CASE End(q, "0")
      <4>1. <<who[q], cmd[q].role>> \in grants \/ Goto(q, "insertGrant")
        BY <2>11 DEF CheckGrant
      <4>2. /\ step'[q] = "idle" /\ cmd'[q].role = cmd[q].role /\ who'[q] = who[q]
        BY <3>2, EndSays DEF Result
      <4>3. ~Goto(q, "insertGrant")
        BY <4>2 DEF Goto
      <4> QED BY <2>11, <4>1, <4>2, <4>3 DEF CheckGrant, table
    <3>3. CASE Goto(q, "insertGrant")
      <4>1. /\ step'[q] = "insertGrant" /\ cmd'[q] = cmd[q]
            /\ who'[q] = who[q] /\ result'[q] = "none"
        BY <2>11, <3>3 DEF CheckGrant, Goto, RunningHasNoResult
      <4>2. /\ <<Canonical[cmd[q].name], cmd[q].role>> \in ordered' /\ name' = name
            /\ who[q] \in Id /\ name[who[q]] = Canonical[cmd[q].name]
            /\ cmd[q].role \in RoleCode
        BY <2>11 DEF CheckGrant, RoleWasOrdered, table, history
      <4> QED BY <4>1, <4>2
    <3> QED BY <2>11, <3>1, <3>2, <3>3 DEF CheckGrant, AlreadyGranted
  <2>12. CASE InsertGrant(q)
    <3>1. CASE End(q, "crash") BY <2>5, <2>6, <3>1 DEF Result
    <3>2. CASE ~End(q, "crash")
      <4>1. Grant(q)
        BY <2>12, <3>2 DEF InsertGrant
      <4>2. <<who[q], cmd[q].role>> \in grants'
        BY <4>1 DEF Grant
      <4>3. \/ End(q, "0")
            \/ step'[q] = "report" /\ who'[q] = who[q] /\ cmd'[q] = cmd[q]
                /\ result'[q] = "none"
        BY <2>12, <4>1 DEF InsertGrant, Grant, Goto, RunningHasNoResult
      <4>4. CASE End(q, "0")
        <5>1. /\ step'[q] = "idle" /\ cmd'[q].role = cmd[q].role /\ who'[q] = who[q]
          BY <4>4, EndSays DEF Result
        <5> QED BY <4>2, <5>1
      <4> QED BY <4>2, <4>3, <4>4
    <3> QED BY <3>1, <3>2
  <2>13. CASE Report(q)
    <3>1. /\ step'[q] = "idle" /\ cmd'[q].role = cmd[q].role /\ who'[q] = who[q]
      BY <2>13, EndSays DEF Report, Result
    <3>2. who[q] \in rows => <<who[q], cmd[q].role>> \in grants
      BY <2>13 DEF Report, ReportIsTrue
    <3> QED BY <2>13, <3>1, <3>2 DEF Report, table
  <2>14. CASE StartLogin(q) \/ StartCall(q)
    BY <2>14, ZenonT(60) DEF StartLogin, StartCall, Start
  <2>15. CASE ReadUser(q) \/ Rehash(q)
    <3>1. \/ \E how \in Result \ {"0"} : End(q, how)
          \/ step'[q] = "rehash" /\ result'[q] = "none"
      BY <2>15 DEF ReadUser, Rehash, Issue, Find, Result, RunningHasNoResult
    <3> QED BY <2>5, <2>6, <3>1
  <2>16. CASE Authenticate(q)
    <3>1. \/ End(q, "401") \/ End(q, "200")
          \/ step'[q] = "authorize" /\ result'[q] = "none"
      BY <2>16 DEF Authenticate, Admit, Find, RunningHasNoResult
    <3> QED BY <2>5, <2>6, <3>1 DEF Result
  <2>17. CASE Authorize(q) \/ Crash(q)
    <3>1. \/ End(q, "200") \/ End(q, "403") \/ End(q, "crash")
      BY <2>17 DEF Authorize, Crash
    <3> QED BY <2>5, <2>6, <3>1 DEF Result
  <2> QED
    BY <2>2, <2>3, <2>4, <2>7, <2>8, <2>9, <2>10, <2>11, <2>12, <2>13,
       <2>14, <2>15, <2>16, <2>17, NextCases DEF Acts
<1> QED BY <1>1, <1>2 DEF RoleWasOrdered, ReportIsTrue, ZeroMeansGranted

(* The permissions that a set of grants gives.                             *)
Gives(G, i) == UNION {Holds[g[2]] : g \in {h \in G : h[1] = i}}

(* Whom the protected routes serve.                                        *)
LEMMA CallStep ==
  ASSUME TypeOK, RowsAreNamed, NamedBefore, HoldersKnown, RunningHasNoResult,
         LateStaysOut, AuthorizesSubject, ServedByRight, Next, TypeOK'
  PROVE  LateStaysOut' /\ AuthorizesSubject' /\ ServedByRight' /\ RunningHasNoResult'
<1> USE DEF TypeOK
<1> SUFFICES
      ASSUME NEW q \in Proc
      PROVE  /\ (cmd'[q].verb = "call" /\ q \in late') =>
                  /\ cmd'[q].subject \in Id \ active'
                  /\ step'[q] = "authenticate" /\ result'[q] # "200"
             /\ step'[q] = "authorize" => who'[q] = cmd'[q].subject
             /\ (result'[q] = "200" /\ cmd'[q].wants # NoPermission
                   /\ cmd'[q].subject \in rows') =>
                  cmd'[q].wants \in Gives(grants', cmd'[q].subject)
             /\ step'[q] # "idle" => result'[q] = "none"
  BY DEF LateStaysOut, AuthorizesSubject, ServedByRight, RunningHasNoResult,
         Permissions, Gives
<1>1. /\ cmd[q].subject \in Id \ active => cmd[q].subject \in Id \ active'
      /\ cmd[q].subject \in rows' => cmd[q].subject \in rows
  <2>1. rows' \subseteq Id
    BY DEF TypeOK
  <2> QED BY <2>1, NamesStay DEF NamedBefore
<1>2. cmd[q].subject \in rows' =>
        Gives(grants, cmd[q].subject) \subseteq Gives(grants', cmd[q].subject)
  <2> SUFFICES ASSUME cmd[q].subject \in rows',
                      NEW g \in grants, g[1] = cmd[q].subject
               PROVE  g \in grants'
    BY DEF Gives
  <2> QED BY GrantsStay
<1> DEFINE Same == /\ step[q] = step'[q] /\ cmd[q] = cmd'[q]
                   /\ who[q] = who'[q] /\ result[q] = result'[q]
                   /\ q \in late' <=> q \in late
<1>3. CASE Same
  <2>1. (result[q] = "200" /\ cmd[q].wants # NoPermission /\ cmd[q].subject \in rows') =>
          cmd[q].wants \in Gives(grants', cmd[q].subject)
    <3>1. (result[q] = "200" /\ cmd[q].wants # NoPermission /\ cmd[q].subject \in rows) =>
            cmd[q].wants \in Gives(grants, cmd[q].subject)
      BY DEF ServedByRight, Permissions, Gives
    <3> QED BY <1>1, <1>2, <3>1
  <2>2. (cmd[q].verb = "call" /\ q \in late) =>
          /\ cmd[q].subject \in Id \ active'
          /\ step[q] = "authenticate" /\ result[q] # "200"
    BY <1>1 DEF LateStaysOut
  <2>3. /\ step[q] = "authorize" => who[q] = cmd[q].subject
        /\ step[q] # "idle" => result[q] = "none"
    BY DEF AuthorizesSubject, RunningHasNoResult
  <2> QED BY <1>3, <2>1, <2>2, <2>3
<1>4. CASE Environment
  BY <1>3, <1>4, AllStay DEF local, history
<1>5. ASSUME NEW p \in Proc, Acts(p), p # q PROVE Same
  BY <1>5, OthersStay
(* A run or request that ends with another status than 0 or 200.           *)
<1>6. ASSUME NEW how \in Result \ {"0", "200"}, End(q, how)
      PROVE  /\ cmd'[q].verb = "none" /\ step'[q] = "idle" /\ result'[q] # "200"
  BY <1>6, EndSays DEF NoCommand
<1>7. CASE cmd'[q].verb = "none" /\ step'[q] = "idle" /\ result'[q] # "200"
  BY <1>7
(* It goes from one statement to the next.                                 *)
<1>8. ASSUME step'[q] \notin {"idle", "authorize"}, result'[q] = result[q],
             step[q] # "idle", cmd'[q].verb = cmd[q].verb,
             cmd'[q].subject = cmd[q].subject, late' = late, step[q] # "authenticate"
      PROVE  /\ ~(cmd'[q].verb = "call" /\ q \in late')
             /\ step'[q] # "authorize" /\ result'[q] = "none"
  BY <1>8 DEF LateStaysOut, RunningHasNoResult
<1>9. CASE StartCreate(q) \/ StartAssign(q) \/ StartLogin(q)
  BY <1>9, ZenonT(60) DEF StartCreate, StartAssign, StartLogin, Start, NoCommand
<1>10. CASE StartCall(q)
  BY <1>10 DEF StartCall, Start, NoCommand, table
<1>11. CASE Prompt(q)
  <2>1. CASE End(q, "1") BY <1>6, <1>7, <2>1 DEF Result
  <2>2. CASE ~End(q, "1")
    <3>1. PICK w \in Password :
            /\ cmd' = [cmd EXCEPT ![q].password = w]
            /\ step' = [step EXCEPT ![q] = "insertUser"]
            /\ result' = result /\ late' = late /\ step[q] = "prompt"
      BY <1>11, <2>2 DEF Prompt, history
    <3>2. cmd'[q].verb = cmd[q].verb /\ cmd'[q].subject = cmd[q].subject
      <4>1. cmd[q] \in Command
        OBVIOUS
      <4> QED BY <3>1, <4>1 DEF Command
    <3> QED BY <1>8, <3>1, <3>2
  <2> QED BY <2>1, <2>2
<1>12. ASSUME End(q, "0"), late' = late, step[q] \notin {"authenticate", "idle"}
       PROVE  /\ ~(cmd'[q].verb = "call" /\ q \in late')
              /\ step'[q] = "idle" /\ result'[q] = "0"
  BY <1>12, EndSays DEF LateStaysOut, Result
<1> DEFINE Goes == /\ step'[q] \notin {"idle", "authorize"} /\ result'[q] = result[q]
                   /\ cmd'[q] = cmd[q]
           Working == step[q] \notin {"authenticate", "idle"} /\ late' = late
<1>13. CASE Working /\ (Goes \/ End(q, "0") \/ \E how \in Result \ {"0", "200"} : End(q, how))
  BY <1>6, <1>7, <1>8, <1>12, <1>13
<1>14. CASE CreateInsert(q)
  <2>1. Working /\ (Goes \/ End(q, "0") \/ End(q, "crash"))
    BY <1>14 DEF CreateInsert, NewAccount, Goto, history
  <2> QED BY <1>13, <2>1 DEF Result
<1>15. CASE FindGrantee(q)
  <2>1. Working /\ (Goes \/ End(q, "1"))
    BY <1>15 DEF FindGrantee, Find, history
  <2> QED BY <1>13, <2>1 DEF Result
<1>16. CASE CheckGrant(q)
  <2>1. Working /\ (Goes \/ End(q, "0") \/ End(q, "1"))
    BY <1>16 DEF CheckGrant, AlreadyGranted, Goto, history
  <2> QED BY <1>13, <2>1 DEF Result
<1>17. CASE InsertGrant(q)
  <2>1. Working /\ (Goes \/ End(q, "0") \/ End(q, "crash"))
    BY <1>17 DEF InsertGrant, Grant, Goto, history
  <2> QED BY <1>13, <2>1 DEF Result
<1>18. CASE Report(q)
  <2>1. Working /\ End(q, "0")
    BY <1>18 DEF Report, history
  <2> QED BY <1>13, <2>1
<1>19. CASE ReadUser(q)
  <2>1. Working /\ (Goes \/ End(q, "token") \/ End(q, "401"))
    BY <1>19 DEF ReadUser, Issue, Find, history
  <2> QED BY <1>13, <2>1 DEF Result
<1>20. CASE Rehash(q)
  <2>1. Working /\ (End(q, "token") \/ End(q, "500"))
    BY <1>20 DEF Rehash, Issue, history
  <2> QED BY <1>13, <2>1 DEF Result
<1>21. CASE Authenticate(q)
  <2>1. CASE End(q, "401") BY <1>6, <1>7, <2>1 DEF Result
  <2>2. CASE ~End(q, "401")
    <3>1. cmd[q].subject \in active /\ Admit(q, cmd[q].subject) /\ late' = late
      BY <1>21, <2>2 DEF Authenticate, history
    <3>2. ~(cmd[q].verb = "call" /\ q \in late')
      BY <3>1 DEF LateStaysOut
    <3>3. CASE End(q, "200")
      <4>1. cmd[q].wants = NoPermission
        BY <3>1, <3>3, EndSays DEF Admit, Find, Result
      <4> QED BY <3>2, <3>3, <4>1, EndSays DEF Result
    <3>4. CASE Find(q, cmd[q].subject, "authorize")
      BY <1>21, <3>2, <3>4 DEF Authenticate, Find, RunningHasNoResult
    <3> QED BY <3>1, <3>3, <3>4 DEF Admit
  <2> QED BY <2>1, <2>2
<1>22. CASE Authorize(q)
  <2>1. CASE End(q, "403") BY <1>6, <1>7, <2>1 DEF Result
  <2>2. CASE ~End(q, "403")
    <3>1. /\ End(q, "200") /\ cmd[q].wants \in Permissions(who[q])
          /\ who[q] = cmd[q].subject /\ grants' = grants /\ late' = late
          /\ ~(cmd[q].verb = "call" /\ q \in late)
      BY <1>22, <2>2 DEF Authorize, AuthorizesSubject, LateStaysOut, table, history
    <3>2. /\ step'[q] = "idle" /\ cmd'[q].verb = cmd[q].verb
          /\ cmd'[q].subject = cmd[q].subject /\ cmd'[q].wants = cmd[q].wants
      BY <3>1, EndSays DEF Result
    <3>3. Gives(grants', cmd'[q].subject) = Permissions(who[q])
      BY <3>1, <3>2 DEF Permissions, Gives
    <3> QED BY <3>1, <3>2, <3>3
  <2> QED BY <2>1, <2>2
<1>23. CASE Crash(q) BY <1>6, <1>7, <1>23 DEF Crash, Result
<1> QED
  BY <1>4, <1>3, <1>5, <1>9, <1>10, <1>11, <1>14, <1>15, <1>16, <1>17, <1>18, <1>19,
     <1>20, <1>21, <1>22, <1>23, NextCases DEF Acts

-----------------------------------------------------------------------------
(* All of it together, for any bounds: the inductive invariant holds.      *)
THEOREM AccountsInvariant == Spec => []IInv
<1>1. Init => IInv
  <2> SUFFICES ASSUME Init PROVE IInv
    OBVIOUS
  <2>1. TypeOK
    <3>1. (CHOOSE w \in Password : TRUE) \in Password
      BY AccountsAssumption
    <3>2. \A i \in Id : chosen[i] \in Password /\ hash[i] \in Hash
      BY <3>1 DEF Init, Hash
    <3> QED
      BY <3>1, <3>2, NoCommandTyped, AccountsAssumption
         DEF Init, TypeOK, Hash, Step, Result
  <2>2. PasswordSticks /\ GrantWasOrdered /\ HoldersKnown /\ RowsAreNamed
    BY DEF Init, PasswordSticks, GrantWasOrdered, HoldersKnown, OneAccountPerName,
           GrantsHaveOwner, RowsAreNamed
  <2>3. NamedBefore
    BY AccountsAssumption DEF Init, NamedBefore, NoCommand
  <2> QED
    BY <2>1, <2>2, <2>3
       DEF Init, IInv, CreatesNamed, RehashVerified, RoleWasOrdered, ReportIsTrue,
           ZeroMeansGranted, LateStaysOut, AuthorizesSubject, ServedByRight,
           RunningHasNoResult
<1>2. IInv /\ [Next]_vars => IInv'
  <2> SUFFICES ASSUME IInv, [Next]_vars PROVE IInv'
    OBVIOUS
  <2> USE DEF IInv
  <2>1. CASE Next
    <3>1. TypeOK'
      BY <2>1, TypeStep
    <3> QED
      BY <2>1, <3>1, RowsStep, NamedStep, WriterStep, GrantStep, CallStep
  <2>2. CASE UNCHANGED vars
    BY <2>2 DEF vars, table, local, history, TypeOK, RowsAreNamed, NamedBefore,
         CreatesNamed, RehashVerified, PasswordSticks, RoleWasOrdered,
         GrantWasOrdered, ReportIsTrue, ZeroMeansGranted, LateStaysOut,
         AuthorizesSubject, ServedByRight, HoldersKnown, OneAccountPerName,
         GrantsHaveOwner, RunningHasNoResult, Permissions
  <2> QED BY <2>1, <2>2
<1> QED BY <1>1, <1>2, PTL DEF Spec

(* The columns and variables keep their types.                             *)
THEOREM AccountsTypeCorrect == Spec => []TypeOK
<1>1. IInv => TypeOK BY DEF IInv
<1> QED BY <1>1, AccountsInvariant, PTL

(* One account per name and an account to every grant, for any number of   *)
(* overlapping commands: only the constraints of the database can see to it.*)
THEOREM HoldersAreKnown == Spec => []HoldersKnown
<1>1. IInv => HoldersKnown BY DEF IInv
<1> QED BY <1>1, AccountsInvariant, PTL

(* No command leaves a role behind that nobody asked for, and exit status  *)
(* 0 of create_user --role and assign_role tells the truth.                *)
THEOREM CommandsAreTrue == Spec => []GrantsMatchCommands
<1>1. IInv => GrantsMatchCommands BY DEF IInv, GrantsMatchCommands
<1> QED BY <1>1, AccountsInvariant, PTL

(* No login changes what the stored hash verifies.                         *)
THEOREM PasswordsStick == Spec => []PasswordSticks
<1>1. IInv => PasswordSticks BY DEF IInv
<1> QED BY <1>1, AccountsInvariant, PTL

(* A request that comes in after its account was disabled is not served,  *)
(* and a served one had its permission from its own account's roles.       *)
THEOREM ServedAreInOrder == Spec => []ServedRightly
<1>1. IInv => DisablingBites BY DEF IInv, LateStaysOut, DisablingBites
<1>2. IInv => ServedByRight BY DEF IInv
<1> QED BY <1>1, <1>2, AccountsInvariant, PTL DEF ServedRightly
=============================================================================
