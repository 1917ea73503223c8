--------------------------- MODULE WebSessionProofs ---------------------------
(* Proofs about WebSession for any number of tabs, accounts and tokens.    *)
EXTENDS WebSession, TLAPS

(***************************************************************************)
(* The inductive invariant.  A restoration is in flight exactly while its  *)
(* tab is loading, so a tab that logged out has none; if its logout did    *)
(* not overtake a login either, nothing left could set its user.           *)
(***************************************************************************)
RestoringIsLoading ==
  \A t \in Tab : stage[t]["restore"] # "none" <=> t \in loading

LeftIsQuiet ==
  \A t \in leftTabs :
    /\ t \notin loading
    /\ t \notin overtaken =>
         /\ user[t] = NoUser
         /\ stage[t]["post"] = "none" /\ stage[t]["me"] = "none"

(* A token on its way to a tab has never been stored: it was issued once,  *)
(* to that tab.                                                            *)
StoredIsIssued == Held \cup discarded \subseteq issued

GrantedIsNew ==
  \A t \in Tab :
    /\ stage[t]["post"] = "ok" => granted[t] # NoToken
    /\ granted[t] # NoToken =>
         /\ granted[t] \in issued \ discarded
         /\ granted[t] # stored
         /\ \A s \in Tab \ {t} : granted[s] # granted[t]

(* Only a request with a token is answered with somebody's identity.       *)
IdentityHasToken ==
  \A t \in Tab, k \in Kind \ {"post"} :
    stage[t][k] = "ok" => carried[t][k] \in Token

(* A tab that has its load or login to itself: nothing else is on its way, *)
(* nobody is shown before the login is complete, and an identity on its    *)
(* way is that of the stored token.                                        *)
Backed(t) ==
  /\ user[t] # NoUser => stored # NoToken /\ Owner[stored] = user[t]
  /\ \A k \in {"post", "me"} :
       stage[t][k] # "none" =>
         /\ user[t] = NoUser
         /\ \A l \in Kind \ {k} : stage[t][l] = "none"
  /\ stage[t]["restore"] # "none" => stage[t]["data"] = "none"
  /\ \A k \in {"restore", "me"} :
       stage[t][k] \in {"sent", "ok"} => carried[t][k] = stored

AloneIsBacked == \A t \in alone : Backed(t)

SessionInv == RestoringIsLoading /\ LeftIsQuiet
TokenInv   == StoredIsIssued /\ GrantedIsNew /\ ClearedStaysCleared

-----------------------------------------------------------------------------
(* Every step keeps the types, as identities come with tokens.             *)
LEMMA TypeStep == ASSUME TypeOK, IdentityHasToken, Next PROVE TypeOK'
<1> USE DEF TypeOK
<1>1. ASSUME NEW t \in Tab, NEW p \in {"app", "login"}, Load(t, p) PROVE TypeOK'
  <2>1. /\ loads' \in [Tab -> 0..MaxLoads]
        /\ page' \in [Tab -> {"closed", "app", "login"}]
        /\ user' \in [Tab -> User \cup {NoUser}]
        /\ form' \in [Tab -> {"idle", "busy"}]
        /\ granted' \in [Tab -> Token \cup {NoToken}]
        /\ loading' \subseteq Tab /\ overtaken' \subseteq leftTabs'
        /\ leftTabs' \subseteq Tab /\ alone' \subseteq Tab
    BY <1>1, SessionAssumption DEF Load
  <2>2. /\ stage' \in [Tab -> [Kind -> Stage]]
        /\ carried' \in [Tab -> [Kind -> Token \cup {NoToken}]]
    <3>1. PICK f \in [Kind -> Stage], g \in [Kind -> Token \cup {NoToken}] :
            stage' = [stage EXCEPT ![t] = f] /\ carried' = [carried EXCEPT ![t] = g]
      <4>1. CASE stored = NoToken
        <5> DEFINE f == [k \in Kind |-> "none"]
                   g == [k \in Kind |-> NoToken]
        <5>1. f \in [Kind -> Stage] /\ g \in [Kind -> Token \cup {NoToken}]
          BY DEF Stage
        <5> QED BY <1>1, <4>1, <5>1 DEF Load
      <4>2. CASE stored # NoToken
        <5> DEFINE f == [k \in Kind |-> IF k = "restore" THEN "sent" ELSE "none"]
                   g == [k \in Kind |-> IF k = "restore" THEN stored ELSE NoToken]
        <5>1. f \in [Kind -> Stage] /\ g \in [Kind -> Token \cup {NoToken}]
          BY DEF Stage
        <5> QED BY <1>1, <4>2, <5>1 DEF Load
      <4> QED BY <4>1, <4>2
    <3> QED BY <3>1
  <2> QED BY <2>1, <2>2, <1>1 DEF Load, backend
<1>2. ASSUME NEW t \in Tab, NEW p \in {"app", "login"}, Travel(t, p) PROVE TypeOK'
  BY <1>2 DEF Travel, backend, request, history
<1>3. ASSUME NEW t \in Tab, GateRedirect(t) PROVE TypeOK'
  BY <1>3 DEF GateRedirect, backend, request, history
<1>4. ASSUME NEW t \in Tab, Bounce(t) PROVE TypeOK'
  BY <1>4 DEF Bounce, backend, request, history
<1>5. ASSUME NEW t \in Tab, SubmitLogin(t) PROVE TypeOK'
  BY <1>5 DEF SubmitLogin, Send, Kind, Stage, backend
<1>6. ASSUME NEW t \in Tab, Logout(t) PROVE TypeOK'
  BY <1>6 DEF Logout, Clear, Store, Held, backend, request
<1>7. ASSUME NEW t \in Tab, FetchData(t) PROVE TypeOK'
  BY <1>7 DEF FetchData, Send, Kind, Stage, backend, history
<1>8. ASSUME NEW t \in Tab, NEW k \in Kind, AnswerRequest(t, k) PROVE TypeOK'
  BY <1>8 DEF AnswerRequest, Denied, Stage, backend, history
<1>9. ASSUME NEW t \in Tab, AnswerLogin(t) PROVE TypeOK'
  <2>1. stage' \in [Tab -> [Kind -> Stage]]
    <3>1. PICK x \in Stage : stage' = [stage EXCEPT ![t]["post"] = x]
      BY <1>9 DEF AnswerLogin, Denied, Stage
    <3> QED BY <3>1 DEF Kind
  <2>2. valid' \subseteq issued' /\ issued' \subseteq Token
    BY <1>9 DEF AnswerLogin, backend
  <2>3. granted' \in [Tab -> Token \cup {NoToken}]
    BY <1>9, SMTT(60) DEF AnswerLogin, backend
  <2> QED BY <2>1, <2>2, <2>3, <1>9, SMTT(60) DEF AnswerLogin, history
<1>10. ASSUME NEW token \in Token, Invalidate(token) PROVE TypeOK'
  BY <1>10 DEF Invalidate, request, history
<1>11. ASSUME NEW t \in Tab, NEW k \in Kind, Unauthorized(t, k) PROVE TypeOK'
  BY <1>11 DEF Unauthorized, Clear, Store, Held, Stage, backend
<1>12. ASSUME NEW t \in Tab, RestoreEnds(t) PROVE TypeOK'
  <2>1. user' \in [Tab -> User \cup {NoUser}]
    BY <1>12, SessionAssumption DEF RestoreEnds, IdentityHasToken, Kind
  <2> QED BY <2>1, <1>12 DEF RestoreEnds, Settle, Kind, Stage, backend, history
<1>13. ASSUME NEW t \in Tab, LoginGranted(t) PROVE TypeOK'
  BY <1>13 DEF LoginGranted, Store, Held, Kind, Stage, backend
<1>14. ASSUME NEW t \in Tab, LoginComplete(t) PROVE TypeOK'
  <2>1. user' \in [Tab -> User \cup {NoUser}]
    BY <1>14, SessionAssumption DEF LoginComplete, IdentityHasToken, Kind
  <2> QED BY <2>1, <1>14 DEF LoginComplete, Settle, Kind, Stage, backend, history
<1>15. ASSUME NEW t \in Tab, NEW k \in Kind, LoginFails(t, k) PROVE TypeOK'
  BY <1>15 DEF LoginFails, Settle, Stage, backend, history
<1>16. ASSUME NEW t \in Tab, DataArrives(t) PROVE TypeOK'
  BY <1>16 DEF DataArrives, Settle, Kind, Stage, backend, history
<1> QED
  BY <1>1, <1>2, <1>3, <1>4, <1>5, <1>6, <1>7, <1>8, <1>9, <1>10, <1>11,
     <1>12, <1>13, <1>14, <1>15, <1>16, Zenon
  DEF Next, PageStep, PersonStep, AnswerStep

(* Every step keeps the invariant on identities.                           *)
LEMMA IdentityStep ==
  ASSUME TypeOK, IdentityHasToken, Next PROVE IdentityHasToken'
<1> USE DEF TypeOK, IdentityHasToken
<1>1. ASSUME NEW t \in Tab, NEW p \in {"app", "login"}, Load(t, p)
      PROVE  IdentityHasToken'
  BY <1>1, SMTT(60) DEF Load, Kind
<1>2. ASSUME UNCHANGED request PROVE IdentityHasToken'
  BY <1>2 DEF request
<1>3. ASSUME NEW t \in Tab, SubmitLogin(t) PROVE IdentityHasToken'
  BY <1>3 DEF SubmitLogin, Send, Kind
<1>4. ASSUME NEW t \in Tab, FetchData(t) PROVE IdentityHasToken'
  BY <1>4 DEF FetchData, Send, Kind
<1>5. ASSUME NEW t \in Tab, NEW k \in Kind, AnswerRequest(t, k)
      PROVE  IdentityHasToken'
  BY <1>5 DEF AnswerRequest, Denied
<1>6. ASSUME NEW t \in Tab, AnswerLogin(t) PROVE IdentityHasToken'
  BY <1>6 DEF AnswerLogin, Kind
<1>7. ASSUME NEW t \in Tab, NEW k \in Kind, Unauthorized(t, k)
      PROVE  IdentityHasToken'
  BY <1>7 DEF Unauthorized
<1>8. ASSUME NEW t \in Tab, NEW k \in Kind, Settle(t, k) PROVE IdentityHasToken'
  BY <1>8 DEF Settle
<1>9. ASSUME NEW t \in Tab, LoginGranted(t) PROVE IdentityHasToken'
  BY <1>9 DEF LoginGranted, Kind
<1> QED
  <2>1. ASSUME NEW t \in Tab, PageStep(t) PROVE IdentityHasToken'
    BY <2>1, <1>1, <1>2, Zenon DEF PageStep, Travel, GateRedirect, Bounce
  <2>2. ASSUME NEW t \in Tab, PersonStep(t) PROVE IdentityHasToken'
    BY <2>2, <1>2, <1>3, <1>4, Zenon DEF PersonStep, Logout
  <2>3. ASSUME NEW t \in Tab, AnswerStep(t) PROVE IdentityHasToken'
    BY <2>3, <1>5, <1>6, <1>7, <1>8, <1>9, SMTT(60)
    DEF AnswerStep, RestoreEnds, LoginComplete, LoginFails, DataArrives, Kind
  <2>4. ASSUME NEW token \in Token, Invalidate(token) PROVE IdentityHasToken'
    BY <2>4, <1>2, Zenon DEF Invalidate
  <2> QED BY <2>1, <2>2, <2>3, <2>4, Zenon DEF Next

(* The answer to a login: one slot changes, with a new token if it is "ok".*)
LEMMA AnswerLoginEffect ==
  ASSUME TypeOK, NEW t \in Tab, AnswerLogin(t)
  PROVE  /\ stage[t]["post"] = "sent"
         /\ stage'[t]["post"] # "none"
         /\ \A s \in Tab, k \in Kind :
              s # t \/ k # "post" => stage'[s][k] = stage[s][k]
         /\ \/ /\ stage'[t]["post"] # "ok"
              /\ UNCHANGED <<issued, granted>>
           \/ \E token \in Token \ issued :
                /\ issued' = issued \cup {token}
                /\ granted' = [granted EXCEPT ![t] = token]
<1>1. CASE \E a \in {Denied(t, "post"), "failed"} :
             /\ stage' = [stage EXCEPT ![t]["post"] = a]
             /\ UNCHANGED backend /\ UNCHANGED granted
  <2>1. PICK a \in {"401", "failed"} : stage' = [stage EXCEPT ![t]["post"] = a]
    BY <1>1 DEF Denied
  <2> QED BY <1>1, <2>1 DEF AnswerLogin, TypeOK, Kind, Stage, backend
<1>2. CASE \E token \in Token \ issued :
             /\ issued' = issued \cup {token}
             /\ granted' = [granted EXCEPT ![t] = token]
             /\ stage' = [stage EXCEPT ![t]["post"] = "ok"]
  <2>1. PICK token \in Token \ issued :
              /\ issued' = issued \cup {token}
              /\ granted' = [granted EXCEPT ![t] = token]
              /\ stage' = [stage EXCEPT ![t]["post"] = "ok"]
    BY <1>2
  <2>2. /\ stage'[t]["post"] # "none"
        /\ \A s \in Tab, k \in Kind :
             s # t \/ k # "post" => stage'[s][k] = stage[s][k]
    BY <2>1 DEF TypeOK, Kind, Stage
  <2> QED BY <2>1, <2>2, Zenon DEF AnswerLogin
<1> QED BY <1>1, <1>2 DEF AnswerLogin

(* Every step keeps the session part: whoever sets a user holds an answer  *)
(* of a restoration or a login, and a tab that left has no restoration,    *)
(* and a login only if its logout overtook it.                             *)
LEMMA SessionStep ==
  ASSUME TypeOK, SessionInv, Next PROVE SessionInv'
<1> USE DEF TypeOK, SessionInv, RestoringIsLoading, LeftIsQuiet
<1>1. ASSUME NEW t \in Tab, NEW p \in {"app", "login"}, Load(t, p)
      PROVE  SessionInv'
  BY <1>1 DEF Load, Kind, backend
<1>2. ASSUME NEW t \in Tab, NEW p \in {"app", "login"}, Travel(t, p)
      PROVE  SessionInv'
  BY <1>2 DEF Travel, request, history, backend
<1>3. ASSUME NEW t \in Tab, GateRedirect(t) PROVE SessionInv'
  BY <1>3 DEF GateRedirect, request, history, backend
<1>4. ASSUME NEW t \in Tab, Bounce(t) PROVE SessionInv'
  BY <1>4 DEF Bounce, request, history, backend
<1>5. ASSUME NEW t \in Tab, SubmitLogin(t) PROVE SessionInv'
  BY <1>5 DEF SubmitLogin, Send, Kind, backend
<1>6. ASSUME NEW t \in Tab, Logout(t) PROVE SessionInv'
  BY <1>6 DEF Logout, Shown, InFlight, request, Clear, Store, Held, backend
<1>7. ASSUME NEW t \in Tab, FetchData(t) PROVE SessionInv'
  BY <1>7 DEF FetchData, Send, Kind, history, backend
<1>8. ASSUME NEW t \in Tab, NEW k \in Kind, AnswerRequest(t, k)
      PROVE  SessionInv'
  BY <1>8 DEF AnswerRequest, Denied, Kind, history, backend
<1>9. ASSUME NEW t \in Tab, AnswerLogin(t) PROVE SessionInv'
  <2>1. /\ stage[t]["post"] = "sent" /\ stage'[t]["post"] # "none"
        /\ \A s \in Tab, k \in Kind :
             s # t \/ k # "post" => stage'[s][k] = stage[s][k]
    BY <1>9, AnswerLoginEffect, Zenon
  <2>2. UNCHANGED <<user, loading, leftTabs, overtaken>> /\ leftTabs \subseteq Tab
    BY <1>9 DEF AnswerLogin, history
  <2> HIDE DEF TypeOK
  <2> QED BY <2>1, <2>2 DEF Kind
<1>10. ASSUME NEW token \in Token, Invalidate(token) PROVE SessionInv'
  BY <1>10 DEF Invalidate, request, history, backend
<1>11. ASSUME NEW t \in Tab, NEW k \in Kind, Unauthorized(t, k)
      PROVE  SessionInv'
  BY <1>11 DEF Unauthorized, Kind, Clear, Store, Held, backend
<1>12. ASSUME NEW t \in Tab, RestoreEnds(t) PROVE SessionInv'
  BY <1>12 DEF RestoreEnds, Settle, Kind, history, backend
<1>13. ASSUME NEW t \in Tab, LoginGranted(t) PROVE SessionInv'
  BY <1>13 DEF LoginGranted, Store, Kind, Held, backend
<1>14. ASSUME NEW t \in Tab, LoginComplete(t) PROVE SessionInv'
  BY <1>14 DEF LoginComplete, Settle, Kind, history, backend
<1>15. ASSUME NEW t \in Tab, NEW k \in Kind, LoginFails(t, k)
      PROVE  SessionInv'
  BY <1>15 DEF LoginFails, Settle, Kind, history, backend
<1>16. ASSUME NEW t \in Tab, DataArrives(t) PROVE SessionInv'
  BY <1>16 DEF DataArrives, Settle, Kind, history, backend
<1> QED
  BY <1>1, <1>2, <1>3, <1>4, <1>5, <1>6, <1>7, <1>8, <1>9, <1>10, <1>11,
     <1>12, <1>13, <1>14, <1>15, <1>16, Zenon
  DEF Next, PageStep, PersonStep, AnswerStep

(* Every step keeps the token part: only a login stores a token, and that  *)
(* token is new.                                                           *)
LEMMA TokenStep ==
  ASSUME TypeOK, TokenInv, Next PROVE TokenInv'
<1> USE SessionAssumption DEF TypeOK, TokenInv, StoredIsIssued, Held, GrantedIsNew, ClearedStaysCleared
<1>1. ASSUME NEW t \in Tab, NEW p \in {"app", "login"}, Load(t, p)
      PROVE  TokenInv'
  BY <1>1 DEF Load, Kind, backend
<1>2. ASSUME NEW t \in Tab, NEW p \in {"app", "login"}, Travel(t, p)
      PROVE  TokenInv'
  BY <1>2 DEF Travel, request, history, backend
<1>3. ASSUME NEW t \in Tab, GateRedirect(t) PROVE TokenInv'
  BY <1>3 DEF GateRedirect, request, history, backend
<1>4. ASSUME NEW t \in Tab, Bounce(t) PROVE TokenInv'
  BY <1>4 DEF Bounce, request, history, backend
<1>5. ASSUME NEW t \in Tab, SubmitLogin(t) PROVE TokenInv'
  BY <1>5 DEF SubmitLogin, Send, Kind, backend
<1>6. ASSUME NEW t \in Tab, Logout(t) PROVE TokenInv'
  BY <1>6 DEF Logout, Shown, InFlight, request, Clear, Store, Held, backend
<1>7. ASSUME NEW t \in Tab, FetchData(t) PROVE TokenInv'
  BY <1>7 DEF FetchData, Send, Kind, history, backend
<1>8. ASSUME NEW t \in Tab, NEW k \in Kind, AnswerRequest(t, k)
      PROVE  TokenInv'
  BY <1>8 DEF AnswerRequest, Denied, Kind, history, backend
<1>9. ASSUME NEW t \in Tab, AnswerLogin(t) PROVE TokenInv'
  BY <1>9, AnswerLoginEffect, SMTT(60) DEF AnswerLogin, Kind, history
<1>10. ASSUME NEW token \in Token, Invalidate(token) PROVE TokenInv'
  BY <1>10 DEF Invalidate, request, history, backend
<1>11. ASSUME NEW t \in Tab, NEW k \in Kind, Unauthorized(t, k)
      PROVE  TokenInv'
  BY <1>11 DEF Unauthorized, Kind, Clear, Store, Held, backend
<1>12. ASSUME NEW t \in Tab, RestoreEnds(t) PROVE TokenInv'
  BY <1>12 DEF RestoreEnds, Settle, Kind, history, backend
<1>13. ASSUME NEW t \in Tab, LoginGranted(t) PROVE TokenInv'
  BY <1>13 DEF LoginGranted, Store, Kind, Held, backend
<1>14. ASSUME NEW t \in Tab, LoginComplete(t) PROVE TokenInv'
  BY <1>14 DEF LoginComplete, Settle, Kind, history, backend
<1>15. ASSUME NEW t \in Tab, NEW k \in Kind, LoginFails(t, k) PROVE TokenInv'
  BY <1>15 DEF LoginFails, Settle, Kind, history, backend
<1>16. ASSUME NEW t \in Tab, DataArrives(t) PROVE TokenInv'
  BY <1>16 DEF DataArrives, Settle, Kind, history, backend
<1> QED
  BY <1>1, <1>2, <1>3, <1>4, <1>5, <1>6, <1>7, <1>8, <1>9, <1>10, <1>11,
     <1>12, <1>13, <1>14, <1>15, <1>16, ZenonT(60)
  DEF Next, PageStep, PersonStep, AnswerStep

(* A step of one tab is seen by another only in storage, and a tab that    *)
(* has storage changed under it is not alone any more.                     *)
LEMMA AloneOfOthers ==
  ASSUME TypeOK, NEW s \in Tab, NEW t \in Tab \ {s}, t \in alone',
         PageStep(s) \/ PersonStep(s) \/ AnswerStep(s)
  PROVE  /\ t \in alone
         /\ UNCHANGED <<stored, user[t], stage[t], carried[t]>>
<1> USE DEF TypeOK
<1>1. CASE PageStep(s)
  <2>1. ASSUME NEW p \in {"app", "login"}, Load(s, p)
        PROVE  t \in alone /\ UNCHANGED <<stored, user[t], stage[t], carried[t]>>
    BY <2>1 DEF Load
  <2> QED
    BY <1>1, <2>1 DEF PageStep, Travel, GateRedirect, Bounce, request, history
<1>2. CASE PersonStep(s)
  BY <1>2 DEF PersonStep, SubmitLogin, Logout, FetchData, Send, Clear, Store,
              request, history
<1>3. CASE AnswerStep(s)
  <2>1. CASE \E k \in Kind : AnswerRequest(s, k) \/ Unauthorized(s, k) \/ LoginFails(s, k)
    BY <2>1 DEF AnswerRequest, Unauthorized, LoginFails, Settle, Clear, Store, history
  <2>2. CASE AnswerLogin(s)
    <3>1. \E f \in [Kind -> Stage] : stage' = [stage EXCEPT ![s] = f]
      <4>1. PICK x \in Stage : stage' = [stage EXCEPT ![s]["post"] = x]
        BY <2>2 DEF AnswerLogin, Denied, Stage
      <4> QED BY <4>1 DEF Kind
    <3> QED BY <2>2, <3>1 DEF AnswerLogin, history
  <2>3. CASE RestoreEnds(s) \/ LoginComplete(s) \/ DataArrives(s)
    BY <2>3 DEF RestoreEnds, LoginComplete, DataArrives, Settle, history
  <2>4. CASE LoginGranted(s)
    BY <2>4 DEF LoginGranted, Store
  <2> QED BY <1>3, <2>1, <2>2, <2>3, <2>4 DEF AnswerStep
<1> QED BY <1>1, <1>2, <1>3

(* A tab's own steps keep it backed, while it is alone.                    *)
LEMMA OwnStep ==
  ASSUME TypeOK, IdentityHasToken, RestoringIsLoading, TokenInv, AloneIsBacked,
         NEW t \in Tab, t \in alone', PageStep(t) \/ PersonStep(t) \/ AnswerStep(t)
  PROVE  Backed(t)'
<1> USE DEF TypeOK
<1>0. t \in alone => Backed(t)
  BY DEF AloneIsBacked
<1>1. ASSUME NEW p \in {"app", "login"}, Load(t, p) PROVE Backed(t)'
  BY <1>1 DEF Load, Backed, Kind
<1>2. ASSUME UNCHANGED <<stored, user, request, alone>> PROVE Backed(t)'
  BY <1>0, <1>2 DEF Backed, request
<1>3. ASSUME SubmitLogin(t) PROVE Backed(t)'
  <2>1. \A k \in Kind : stage[t][k] = "none"
    BY <1>3 DEF SubmitLogin, InFlight
  <2>2. user[t] = NoUser
    BY <1>3, <2>1 DEF SubmitLogin, RestoringIsLoading, Kind
  <2> QED BY <1>3, <2>1, <2>2 DEF SubmitLogin, Send, Backed, Kind
<1>4. ASSUME Logout(t) PROVE Backed(t)'
  BY <1>0, <1>4 DEF Logout, Shown, Clear, Store, Backed, RestoringIsLoading, request, Kind
<1>5. ASSUME FetchData(t) PROVE Backed(t)'
  BY <1>0, <1>5 DEF FetchData, Shown, Send, Backed, RestoringIsLoading, history, Kind
<1>6. ASSUME NEW k \in Kind, AnswerRequest(t, k) PROVE Backed(t)'
  BY <1>0, <1>6 DEF AnswerRequest, Denied, Backed, history, Kind
<1>7. ASSUME NEW k \in Kind, Unauthorized(t, k) PROVE Backed(t)'
  BY <1>0, <1>7 DEF Unauthorized, Clear, Store, Backed, Kind
<1>8. ASSUME NEW k \in Kind, LoginFails(t, k) PROVE Backed(t)'
  BY <1>0, <1>8 DEF LoginFails, Settle, Backed, history, Kind
<1>9. ASSUME AnswerLogin(t) PROVE Backed(t)'
  BY <1>0, <1>9, AnswerLoginEffect DEF AnswerLogin, Backed, history, Kind
<1>10. ASSUME RestoreEnds(t) PROVE Backed(t)'
  BY <1>0, <1>10, SessionAssumption
  DEF RestoreEnds, Settle, Backed, IdentityHasToken, history, Kind
<1>11. ASSUME LoginGranted(t) PROVE Backed(t)'
  BY <1>0, <1>11 DEF LoginGranted, Store, Backed, Kind
<1>12. ASSUME LoginComplete(t) PROVE Backed(t)'
  BY <1>0, <1>12, SessionAssumption
  DEF LoginComplete, Settle, Backed, IdentityHasToken, history, Kind
<1>13. ASSUME DataArrives(t) PROVE Backed(t)'
  BY <1>0, <1>13 DEF DataArrives, Settle, Backed, history, Kind
<1> QED
  <2>1. PageStep(t) => Backed(t)'
    BY <1>1, <1>2, Zenon DEF PageStep, Travel, GateRedirect, Bounce, history
  <2>2. PersonStep(t) => Backed(t)'
    BY <1>3, <1>4, <1>5, Zenon DEF PersonStep
  <2>3. AnswerStep(t) => Backed(t)'
    BY <1>6, <1>7, <1>8, <1>9, <1>10, <1>11, <1>12, <1>13, Zenon DEF AnswerStep
  <2> QED BY <2>1, <2>2, <2>3

LEMMA AloneStep ==
  ASSUME TypeOK, IdentityHasToken, RestoringIsLoading, TokenInv, AloneIsBacked, Next
  PROVE  AloneIsBacked'
<1> SUFFICES ASSUME NEW t \in Tab, t \in alone' PROVE Backed(t)'
  BY TypeStep DEF AloneIsBacked, TypeOK
<1>1. ASSUME NEW s \in Tab, PageStep(s) \/ PersonStep(s) \/ AnswerStep(s)
      PROVE  Backed(t)'
  <2>1. CASE s = t
    BY <1>1, <2>1, OwnStep
  <2>2. CASE s # t
    BY <1>1, <2>2, AloneOfOthers DEF AloneIsBacked, Backed
  <2> QED BY <2>1, <2>2
<1>2. ASSUME NEW token \in Token, Invalidate(token) PROVE Backed(t)'
  BY <1>2 DEF Invalidate, AloneIsBacked, Backed, request, history
<1> QED BY <1>1, <1>2 DEF Next

-----------------------------------------------------------------------------
(* The five parts together are inductive.                                  *)
SessionIInv ==
  TypeOK /\ IdentityHasToken /\ SessionInv /\ TokenInv /\ AloneIsBacked

LEMMA SessionInductive == Spec => []SessionIInv
<1>1. Init => SessionIInv
  BY SessionAssumption
  DEF Init, SessionIInv, TypeOK, IdentityHasToken, SessionInv, RestoringIsLoading,
      LeftIsQuiet, TokenInv, StoredIsIssued, Held, GrantedIsNew,
      ClearedStaysCleared, AloneIsBacked, Kind, Stage
<1>2. SessionIInv /\ [Next]_vars => SessionIInv'
  <2>1. SessionIInv /\ Next => SessionIInv'
    BY TypeStep, IdentityStep, SessionStep, TokenStep, AloneStep DEF SessionIInv, SessionInv
  <2>2. SessionIInv /\ UNCHANGED vars => SessionIInv'
    BY DEF SessionIInv, TypeOK, IdentityHasToken, SessionInv, RestoringIsLoading,
           LeftIsQuiet, TokenInv, StoredIsIssued, Held, GrantedIsNew,
           ClearedStaysCleared, AloneIsBacked, Backed, vars, backend, request, history
  <2> QED BY <2>1, <2>2
<1> QED BY <1>1, <1>2, PTL DEF Spec

(* The variables keep their types; in particular the user a tab shows is   *)
(* always an account, for every answer the provider applies.               *)
THEOREM SessionTypeCorrect == Spec => []TypeOK
BY SessionInductive, PTL DEF SessionIInv

(* A token removed from localStorage never comes back, with any number of  *)
(* tabs logging in and out at once (lib/auth/storage.ts, api.ts:29).       *)
THEOREM TokensStayCleared == Spec => []ClearedStaysCleared
BY SessionInductive, PTL DEF SessionIInv, TokenInv

(* A tab that logged out has no user until somebody submits its form, or   *)
(* loads it, again, unless a login that it had submitted was still to be   *)
(* answered when it logged out (components/layout/UserMenu.tsx:26,         *)
(* context.tsx:107-115).                                                   *)
THEOREM LogoutsStick == Spec => []LogoutSticks
<1>1. SessionIInv => LogoutSticks
  BY DEF SessionIInv, SessionInv, LeftIsQuiet, LogoutSticks
<1> QED BY <1>1, SessionInductive, PTL

(* A tab whose load or login had the tab to itself shows the account whose *)
(* token is stored, until another tab changes storage (context.tsx:83,     *)
(* client.ts:114).                                                         *)
THEOREM IdentitiesAreBacked == Spec => []IdentityBacked
<1>1. SessionIInv => IdentityBacked
  BY DEF SessionIInv, AloneIsBacked, Backed, IdentityBacked
<1> QED BY <1>1, SessionInductive, PTL

=============================================================================
