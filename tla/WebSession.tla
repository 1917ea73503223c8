------------------------------ MODULE WebSession ------------------------------
(***************************************************************************)
(* The login session of the web application: the access token in the       *)
(* browser's localStorage, which all tabs share, and in every tab the      *)
(* session provider (lib/auth/context.tsx), the API client that attaches   *)
(* and clears the token (lib/api/client.ts), the gate around the protected *)
(* pages (components/auth/AuthGate.tsx) and the login form.                *)
(*                                                                         *)
(* JavaScript runs one callback at a time per tab; what interleaves are    *)
(* the awaits.  So each request is a slot with the token it was sent with, *)
(* and its answer may be applied when storage and session have moved on.   *)
(***************************************************************************)
EXTENDS Naturals, FiniteSets

CONSTANTS Tab, User, Token,
          NoToken, NoUser,
          Owner,         \* the account each token is issued to (claim "sub")
          MaxLoads       \* environment bound: page loads per tab

ASSUME SessionAssumption ==
  /\ NoToken \notin Token /\ NoUser \notin User
  /\ Owner \in [Token -> User]
  /\ MaxLoads \in Nat

(* The requests a tab can have in flight: GET /me of the restoration, POST *)
(* /login and GET /me of a login, and a screen's request for data.         *)
Kind  == {"restore", "post", "me", "data"}

(* "401": the answer to a request that carried a token, not yet handled;   *)
(* "failed": the call will reject - no answer, an error status, or a 401   *)
(* with nothing (left) to handle.                                          *)
Stage == {"none", "sent", "ok", "401", "failed"}

VARIABLES
  stored,    \* localStorage: the access token, or NoToken
  valid,     \* backend: tokens it accepts
  issued,    \* backend: tokens it has ever issued
  page,      \* page[t]: where the tab is
  loading,   \* tabs whose isLoading is true
  user,      \* user[t]: the provider's user
  form,      \* form[t]: "busy" while the login form is submitting
  stage,     \* stage[t][k]: the request of kind k
  carried,   \* carried[t][k]: the token it was sent with
  granted,   \* granted[t]: the token in the answer to the tab's POST /login
  loads,     \* loads[t]: page loads so far
  discarded, \* history: tokens that were removed from storage
  leftTabs,  \* history: tabs that logged out, not loaded or submitted since
  overtaken, \* history: those of them whose logout overtook a login of theirs
  alone      \* history: tabs whose latest load or login had the tab to itself,
             \* and whose storage no other tab has changed since

backend == <<valid, issued>>
request == <<stage, carried, granted>>
history == <<discarded, leftTabs, overtaken, alone>>
vars == <<stored, backend, page, loading, user, form, request, loads, history>>

TypeOK ==
  /\ stored \in Token \cup {NoToken}
  /\ valid \subseteq issued /\ issued \subseteq Token
  /\ page \in [Tab -> {"closed", "app", "login"}]
  /\ loading \subseteq Tab
  /\ user \in [Tab -> User \cup {NoUser}]
  /\ form \in [Tab -> {"idle", "busy"}]
  /\ stage \in [Tab -> [Kind -> Stage]]
  /\ carried \in [Tab -> [Kind -> Token \cup {NoToken}]]
  /\ granted \in [Tab -> Token \cup {NoToken}]
  /\ loads \in [Tab -> 0..MaxLoads]
  /\ discarded \subseteq Token
  /\ overtaken \subseteq leftTabs /\ leftTabs \subseteq Tab
  /\ alone \subseteq Tab

Init ==
  /\ stored = NoToken /\ valid = {} /\ issued = {}
  /\ page = [t \in Tab |-> "closed"]
  /\ loading = {}
  /\ user = [t \in Tab |-> NoUser]
  /\ form = [t \in Tab |-> "idle"]
  /\ stage = [t \in Tab |-> [k \in Kind |-> "none"]]
  /\ carried = [t \in Tab |-> [k \in Kind |-> NoToken]]
  /\ granted = [t \in Tab |-> NoToken]
  /\ loads = [t \in Tab |-> 0]
  /\ discarded = {} /\ leftTabs = {} /\ overtaken = {} /\ alone = {}

-----------------------------------------------------------------------------
(* Helpers *)

(* request() of the client: the stored token is read when the call starts. *)
Send(t, k, token) ==
  /\ stage' = [stage EXCEPT ![t][k] = "sent"]
  /\ carried' = [carried EXCEPT ![t][k] = token]

Settle(t, k) ==
  /\ stage' = [stage EXCEPT ![t][k] = "none"]
  /\ carried' = [carried EXCEPT ![t][k] = NoToken]

InFlight(t, k) == stage[t][k] # "none"

(* What the client makes of a 401: only with a token is there a session to *)
(* lose.                                                                   *)
Denied(t, k) == IF carried[t][k] = NoToken THEN "failed" ELSE "401"

(* Mutant: the gate looks at the user only, not at isLoading.              *)
ShownWhileRestoring(t) == page[t] = "app" /\ user[t] # NoUser

(* What AuthGate lets through.                                             *)
Shown(t) == page[t] = "app" /\ t \notin loading /\ user[t] # NoUser

(* Tab t writes to storage, under the other tabs.                          *)
Store(t, token) ==
  /\ stored' = token
  /\ alone' = IF token = stored THEN alone ELSE alone \cap {t}

Held == {stored} \ {NoToken}

Clear(t) == Store(t, NoToken) /\ discarded' = discarded \cup Held

-----------------------------------------------------------------------------
(* Pages *)

(* A page is opened or reloaded: a new JavaScript context, so requests of  *)
(* the old one are forgotten, and the provider's mount effect restores.    *)
Load(t, p) ==
  /\ loads[t] < MaxLoads
  /\ loads' = [loads EXCEPT ![t] = @ + 1]
  /\ page' = [page EXCEPT ![t] = p]
  /\ user' = [user EXCEPT ![t] = NoUser]
  /\ form' = [form EXCEPT ![t] = "idle"]
  /\ granted' = [granted EXCEPT ![t] = NoToken]
  /\ leftTabs' = leftTabs \ {t} /\ overtaken' = overtaken \ {t}
  /\ alone' = alone \cup {t}
  /\ IF stored = NoToken
     THEN /\ loading' = loading \ {t}
          /\ stage' = [stage EXCEPT ![t] = [k \in Kind |-> "none"]]
          /\ carried' = [carried EXCEPT ![t] = [k \in Kind |-> NoToken]]
     ELSE /\ loading' = loading \cup {t}
          /\ stage' = [stage EXCEPT ![t] =
               [k \in Kind |-> IF k = "restore" THEN "sent" ELSE "none"]]
          /\ carried' = [carried EXCEPT ![t] =
               [k \in Kind |-> IF k = "restore" THEN stored ELSE NoToken]]
  /\ UNCHANGED <<stored, backend, discarded>>

(* Back and Forward move between the pages of a loaded tab: the provider   *)
(* and its requests live on, a login form starts afresh.                   *)
Travel(t, p) ==
  /\ page[t] # "closed" /\ page[t] # p
  /\ page' = [page EXCEPT ![t] = p]
  /\ form' = [form EXCEPT ![t] = "idle"]
  /\ UNCHANGED <<stored, backend, loading, user, request, loads, history>>

(* AuthGate's effect: nobody is logged in, so replace to the login page.   *)
GateRedirect(t) ==
  /\ page[t] = "app" /\ t \notin loading /\ user[t] = NoUser
  /\ page' = [page EXCEPT ![t] = "login"]
  /\ form' = [form EXCEPT ![t] = "idle"]
  /\ UNCHANGED <<stored, backend, loading, user, request, loads, history>>

(* LoginForm's effect: somebody is, and no submission is running.          *)
Bounce(t) ==
  /\ page[t] = "login" /\ t \notin loading /\ user[t] # NoUser
  /\ form[t] = "idle"
  /\ page' = [page EXCEPT ![t] = "app"]
  /\ UNCHANGED <<stored, backend, loading, user, form, request, loads, history>>

-----------------------------------------------------------------------------
(* What the person at the tab does *)

(* LoginForm.handleSubmit: the form is there whether or not a restoration  *)
(* is running, and the POST carries whatever token is stored.  A page      *)
(* about to bounce is gone before anybody types.  Bound: one login at a    *)
(* time per tab, also across Back and Forward.                             *)
SubmitLogin(t) ==
  /\ page[t] = "login" /\ form[t] = "idle"
  /\ t \in loading \/ user[t] = NoUser
  /\ ~InFlight(t, "post") /\ ~InFlight(t, "me")
  /\ form' = [form EXCEPT ![t] = "busy"]
  /\ Send(t, "post", stored)
  /\ leftTabs' = leftTabs \ {t} /\ overtaken' = overtaken \ {t}
  /\ alone' = IF \E k \in Kind : InFlight(t, k) THEN alone \ {t} ELSE alone \cup {t}
  /\ UNCHANGED <<stored, backend, page, loading, user, granted, loads, discarded>>

(* UserMenu.handleLogout.  It cancels nothing: a login submitted while the *)
(* restoration ran (and left behind with Back) may still be answered.      *)
Logout(t) ==
  /\ Shown(t)
  /\ Clear(t)
  /\ user' = [user EXCEPT ![t] = NoUser]
  /\ page' = [page EXCEPT ![t] = "login"]
  /\ form' = [form EXCEPT ![t] = "idle"]
  /\ leftTabs' = leftTabs \cup {t}
  /\ overtaken' = IF InFlight(t, "post") \/ InFlight(t, "me")
                  THEN overtaken \cup {t} ELSE overtaken \ {t}
  /\ UNCHANGED <<backend, loading, request, loads>>

(* A protected screen asks for data.  Bound: one such request per tab.     *)
FetchData(t) ==
  /\ Shown(t) /\ ~InFlight(t, "data")
  /\ Send(t, "data", stored)
  /\ UNCHANGED <<stored, backend, page, loading, user, form, granted, loads, history>>

-----------------------------------------------------------------------------
(* The backend *)

(* get_current_user decides on the token's validity when it runs; any      *)
(* request may also fail on the way or in the server.                      *)
AnswerRequest(t, k) ==
  /\ stage[t][k] = "sent" /\ k # "post"
  /\ \E a \in {"failed", IF carried[t][k] \in valid THEN "ok" ELSE Denied(t, k)} :
       stage' = [stage EXCEPT ![t][k] = a]
  /\ UNCHANGED <<stored, backend, page, loading, user, form, carried, granted,
                 loads, history>>

(* POST /login does not look at the Authorization header: right            *)
(* credentials get a fresh token, wrong ones a 401.                        *)
AnswerLogin(t) ==
  /\ stage[t]["post"] = "sent"
  /\ \/ \E token \in Token \ issued :
          /\ issued' = issued \cup {token} /\ valid' = valid \cup {token}
          /\ granted' = [granted EXCEPT ![t] = token]
          /\ stage' = [stage EXCEPT ![t]["post"] = "ok"]
     \/ /\ \E a \in {Denied(t, "post"), "failed"} : stage' = [stage EXCEPT ![t]["post"] = a]
        /\ UNCHANGED <<backend, granted>>
  /\ UNCHANGED <<stored, page, loading, user, form, carried, loads, history>>

(* A token expires, or its account is deactivated or removed.              *)
Invalidate(token) ==
  /\ token \in valid
  /\ valid' = valid \ {token}
  /\ UNCHANGED <<stored, issued, page, loading, user, form, request, loads, history>>

-----------------------------------------------------------------------------
(* Answers reach the tab *)

(* Mutant: the token is removed, but the provider is not told.             *)
UnauthorizedSilently(t, k) ==
  /\ stage[t][k] = "401"
  /\ stage' = [stage EXCEPT ![t][k] = "failed"]
  /\ Clear(t)
  /\ UNCHANGED <<backend, page, loading, user, form, carried, granted, loads,
                 leftTabs, overtaken>>

(* handleUnauthorized: a 401 to a request that carried a token removes     *)
(* the stored token, whichever it is by now, and logs this tab out.        *)
Unauthorized(t, k) ==
  /\ stage[t][k] = "401"
  /\ stage' = [stage EXCEPT ![t][k] = "failed"]
  /\ Clear(t)
  /\ user' = [user EXCEPT ![t] = NoUser]
  /\ UNCHANGED <<backend, page, loading, form, carried, granted, loads,
                 leftTabs, overtaken>>

(* The restoration ends: its answer decides, whatever happened since.      *)
RestoreEnds(t) ==
  /\ \/ /\ stage[t]["restore"] = "ok"
        /\ user' = [user EXCEPT ![t] = Owner[carried[t]["restore"]]]
     \/ /\ stage[t]["restore"] = "failed"
        /\ user' = [user EXCEPT ![t] = NoUser]
  /\ loading' = loading \ {t}
  /\ Settle(t, "restore")
  /\ UNCHANGED <<stored, backend, page, form, granted, loads, history>>

(* login() of lib/auth/api.ts saves the new token, and the provider asks   *)
(* for the identity with it, in the same turn.                             *)
LoginGranted(t) ==
  /\ stage[t]["post"] = "ok"
  /\ Store(t, granted[t])
  /\ discarded' = discarded \cup (Held \ {granted[t]})
  /\ stage' = [stage EXCEPT ![t] = [@ EXCEPT !["post"] = "none", !["me"] = "sent"]]
  /\ carried' = [carried EXCEPT ![t] =
                   [@ EXCEPT !["post"] = NoToken, !["me"] = granted[t]]]
  /\ granted' = [granted EXCEPT ![t] = NoToken]
  /\ UNCHANGED <<backend, page, loading, user, form, loads, leftTabs, overtaken>>

(* Mutant: the token is saved again once the identity is known.            *)
LoginCompleteSaves(t) ==
  /\ stage[t]["me"] = "ok"
  /\ stored' = carried[t]["me"]
  /\ user' = [user EXCEPT ![t] = Owner[carried[t]["me"]]]
  /\ page' = [page EXCEPT ![t] = "app"]
  /\ form' = [form EXCEPT ![t] = "idle"]
  /\ Settle(t, "me")
  /\ UNCHANGED <<backend, loading, granted, loads, history>>

(* Mutant: the user is taken from the answer to POST /login.               *)
LoginCompleteWithToken(t) ==
  /\ stage[t]["me"] = "ok"
  /\ user' = [user EXCEPT ![t] = carried[t]["me"]]
  /\ page' = [page EXCEPT ![t] = "app"]
  /\ form' = [form EXCEPT ![t] = "idle"]
  /\ Settle(t, "me")
  /\ UNCHANGED <<stored, backend, loading, granted, loads, history>>

(* /me has answered: the user is set, and the form navigates away.         *)
LoginComplete(t) ==
  /\ stage[t]["me"] = "ok"
  /\ user' = [user EXCEPT ![t] = Owner[carried[t]["me"]]]
  /\ page' = [page EXCEPT ![t] = "app"]
  /\ form' = [form EXCEPT ![t] = "idle"]
  /\ Settle(t, "me")
  /\ UNCHANGED <<stored, backend, loading, granted, loads, history>>

(* Mutant: the catch of handleSubmit forgets setSubmitting(false).         *)
LoginFailsBusy(t, k) ==
  /\ k \in {"post", "me"} /\ stage[t][k] = "failed"
  /\ Settle(t, k)
  /\ UNCHANGED <<stored, backend, page, loading, user, form, granted, loads, history>>

(* Either call of a login rejects: the form shows an error and is usable   *)
(* again.  A token saved by the first call stays.                          *)
LoginFails(t, k) ==
  /\ k \in {"post", "me"} /\ stage[t][k] = "failed"
  /\ form' = [form EXCEPT ![t] = "idle"]
  /\ Settle(t, k)
  /\ UNCHANGED <<stored, backend, page, loading, user, granted, loads, history>>

DataArrives(t) ==
  /\ stage[t]["data"] \in {"ok", "failed"}
  /\ Settle(t, "data")
  /\ UNCHANGED <<stored, backend, page, loading, user, form, granted, loads, history>>

-----------------------------------------------------------------------------
PageStep(t) ==
  \/ \E p \in {"app", "login"} : Load(t, p) \/ Travel(t, p)
  \/ GateRedirect(t) \/ Bounce(t)

PersonStep(t) == SubmitLogin(t) \/ Logout(t) \/ FetchData(t)

AnswerStep(t) ==
  \/ \E k \in Kind : AnswerRequest(t, k) \/ Unauthorized(t, k) \/ LoginFails(t, k)
  \/ AnswerLogin(t) \/ RestoreEnds(t) \/ LoginGranted(t) \/ LoginComplete(t)
  \/ DataArrives(t)

Next ==
  \/ \E t \in Tab : PageStep(t) \/ PersonStep(t) \/ AnswerStep(t)
  \/ \E token \in Token : Invalidate(token)

Spec == Init /\ [][Next]_vars

(* Every request is answered or fails (browsers give up on dead            *)
(* connections), callbacks run, and effects run after a render.            *)
Fairness ==
  \A t \in Tab :
    /\ WF_vars(GateRedirect(t)) /\ WF_vars(Bounce(t))
    /\ WF_vars(AnswerLogin(t)) /\ WF_vars(RestoreEnds(t))
    /\ WF_vars(LoginGranted(t)) /\ WF_vars(LoginComplete(t))
    /\ \A k \in Kind : /\ WF_vars(AnswerRequest(t, k))
                       /\ WF_vars(Unauthorized(t, k)) /\ WF_vars(LoginFails(t, k))

FairSpec == Spec /\ Fairness

-----------------------------------------------------------------------------
(* Properties *)

(* A token that was removed from storage - by a logout, a 401 or a newer   *)
(* login, in any tab - never comes back, whatever answers are still on     *)
(* their way (storage.ts, api.ts:29).                                      *)
ClearedStaysCleared == stored \notin discarded

(* A tab that has logged out has no user until its page is loaded or its   *)
(* form submitted again, whatever restorations, data requests and 401s of  *)
(* it or of other tabs are still answered (UserMenu.tsx:26).  One thing    *)
(* does log it in again: the answer to a login that it submitted before it *)
(* logged out and that was still on its way (context.tsx:107-115 sets the  *)
(* user without looking at what happened since).                           *)
LogoutSticks == \A t \in leftTabs : user[t] # NoUser => t \in overtaken

(* A tab shows the account whose token is stored.  Only two things can     *)
(* make it show another, or anybody when nothing is stored: another tab    *)
(* has changed storage since (client.ts:114), or a restoration or a        *)
(* request for data was still on its way when its login was submitted      *)
(* (context.tsx:83).                                                       *)
IdentityBacked ==
  \A t \in alone : user[t] # NoUser => stored # NoToken /\ Owner[stored] = user[t]

(* A tab that is not restoring and not logging in agrees with itself: the  *)
(* protected pages are shown to a user, and only the login page to nobody, *)
(* again and again, whatever the person, the other tabs and the backend do *)
(* (AuthGate.tsx:51, LoginForm.tsx:52: no redirect loop, no dead end).     *)
Agrees(t) ==
  page[t] # "closed" =>
    t \notin loading /\ (user[t] # NoUser <=> page[t] = "app")

TabsSettle == \A t \in Tab : []<>Agrees(t)

(* A submitted login form becomes usable again or leaves the login page.   *)
FormReleases == \A t \in Tab : form[t] = "busy" ~> form[t] = "idle"

(* Both: no tab hangs, neither its page nor its form.                      *)
NoTabHangs == TabsSettle /\ FormReleases

(* lib/api/client.ts:110 - a 401 to a request with a token means that the  *)
(* session is invalid server-side: the token cleared is a stale one.       *)
OnlyStaleCleared ==
  [][\A t \in Tab, k \in Kind :
       Unauthorized(t, k) => stored = NoToken \/ stored \notin valid]_vars

=============================================================================
