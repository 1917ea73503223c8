------------------------------ MODULE EventForm ------------------------------
(***************************************************************************)
(* The assignment form of an event page (EventAssignments.tsx) as a client *)
(* of Registry: submit, answer, refresh of the list, and answers that      *)
(* never arrive.  A form that gets no answer goes on, and its request may  *)
(* still be served.                                                        *)
(***************************************************************************)
EXTENDS Registry

CONSTANTS
  EventOf,    \* the event each form's page is about
  BesideForm  \* bound: what other clients ask for meanwhile

ASSUME FormAssumption == EventOf \in [Form -> Event]

VARIABLES
  phase,         \* "idle", "posting" or "refreshing" (submitting is # "idle")
  call,          \* the request the form waits for
  shown,         \* the assignments the page shows
  refreshError,  \* forms that say the list could not be refreshed
  silent,        \* history: what each form sent without a definite answer
  made           \* history: assignments whose creation the form was told of

form == <<phase, call, shown, refreshError>>
told == <<silent, made>>
formVars == <<registryVars, form, told>>

FormTypeOK ==
  /\ RegistryTypeOK
  /\ phase \in [Form -> {"idle", "posting", "refreshing"}]
  /\ call \in [Form -> Proc \cup {NoProc}]
  /\ shown \in [Form -> SUBSET Assignment]
  /\ refreshError \subseteq Form
  /\ silent \in [Form -> SUBSET Triple]
  /\ made \in [Form -> SUBSET Assignment]

FormInit ==
  /\ RegistryInit
  /\ phase = [f \in Form |-> "idle"]
  /\ call = [f \in Form |-> NoProc]
  /\ shown = [f \in Form |-> {}]
  /\ refreshError = {}
  /\ silent = [f \in Form |-> {}]
  /\ made = [f \in Form |-> {}]

Sent(f, p, next) ==
  /\ phase' = [phase EXCEPT ![f] = next]
  /\ call' = [call EXCEPT ![f] = p]

(* Any person and responsibility on offer, those of an earlier assignment  *)
(* included.                                                               *)
SendTriple(f, p, t) ==
  /\ t.event = EventOf[f]
  /\ Start(p, [NoRequest EXCEPT
                 !.op = "createAssignment", !.event = t.event,
                 !.person = t.person, !.codes = {t.responsibility},
                 !.form = f])
  /\ Sent(f, p, "posting")
  /\ UNCHANGED <<shown, refreshError, told>>

(* Mutant: the handler does not look at submitting.                        *)
SubmitBusy(f, p) ==
  /\ phase[f] # "refreshing"
  /\ \E t \in [event : Event, person : Person, responsibility : Responsibility] :
       SendTriple(f, p, t)

(* handleSubmit: one submission at a time.                                 *)
Submit(f, p) ==
  /\ phase[f] = "idle"
  /\ \E t \in [event : Event, person : Person, responsibility : Responsibility] :
       SendTriple(f, p, t)

Answered(f, p) == call[f] = p /\ step[p] = "replied" /\ Release(p)

(* 201: the fields are cleared; the list is fetched next.                  *)
Accepted(f, p) ==
  /\ phase[f] = "posting" /\ result[p] = 201
  /\ Answered(f, p)
  /\ made' = [made EXCEPT ![f] = @ \cup {wrote[p]}]
  /\ Sent(f, NoProc, "refreshing")
  /\ UNCHANGED <<shown, refreshError, silent>>

(* An error status: a message, the fields are kept.  0 is a connection     *)
(* that broke.                                                             *)
Rejected(f, p) ==
  /\ phase[f] = "posting" /\ result[p] # 201
  /\ Answered(f, p)
  /\ silent' = [silent EXCEPT ![f] =
                  IF result[p] \in {0, 500} THEN @ \cup {Wanted(req[p])} ELSE @]
  /\ Sent(f, NoProc, "idle")
  /\ UNCHANGED <<shown, refreshError, made>>

(* The network fails while the form waits: the request goes on alone.      *)
PostLost(f, p) ==
  /\ phase[f] = "posting" /\ call[f] = p
  /\ silent' = [silent EXCEPT ![f] = @ \cup {Wanted(req[p])}]
  /\ Sent(f, NoProc, "idle")
  /\ UNCHANGED <<registryVars, shown, refreshError, made>>

(* refresh: GET of all assignments, filtered to this event.                *)
Refresh(f, p) ==
  /\ phase[f] = "refreshing" /\ call[f] = NoProc
  /\ Start(p, [NoRequest EXCEPT !.op = "listAssignments", !.form = f])
  /\ Sent(f, p, "refreshing")
  /\ UNCHANGED <<shown, refreshError, told>>

Refreshed(f, p) ==
  /\ phase[f] = "refreshing" /\ result[p] = 200
  /\ Answered(f, p)
  /\ shown' = [shown EXCEPT ![f] =
                 {x \in answer[p] : triple[x].event = EventOf[f]}]
  /\ refreshError' = refreshError \ {f}
  /\ Sent(f, NoProc, "idle")
  /\ UNCHANGED told

(* Mutant: the failure of a refresh is swallowed.                          *)
RefreshFailsQuietly(f) ==
  /\ phase[f] = "refreshing"
  /\ \/ \E p \in Proc : result[p] # 200 /\ Answered(f, p)
     \/ UNCHANGED registryVars
  /\ Sent(f, NoProc, "idle")
  /\ UNCHANGED <<shown, refreshError, told>>

(* An error status, or a network error before, during or after the         *)
(* request.                                                                *)
RefreshFails(f) ==
  /\ phase[f] = "refreshing"
  /\ \/ \E p \in Proc : result[p] # 200 /\ Answered(f, p)
     \/ UNCHANGED registryVars
  /\ refreshError' = refreshError \cup {f}
  /\ Sent(f, NoProc, "idle")
  /\ UNCHANGED <<shown, told>>

(* The answer to nobody: another client read it, or the form gave up.      *)
Unheard(p) ==
  /\ \A f \in Form : call[f] # p
  /\ Release(p)

FormNext ==
  \/ \E f \in Form, p \in Proc :
       \/ Submit(f, p) \/ Accepted(f, p) \/ Rejected(f, p) \/ PostLost(f, p)
       \/ Refresh(f, p) \/ Refreshed(f, p)
  \/ \E f \in Form : RefreshFails(f)
  \/ /\ \/ Operate
        \/ \E p \in Proc :
             (Direct(p) /\ req'[p] \in BesideForm) \/ Serve(p) \/ Unheard(p)
     /\ UNCHANGED <<form, told>>

FormSpec == FormInit /\ [][FormNext]_formVars

-----------------------------------------------------------------------------
(* Properties *)

(* Nothing but the user makes two rows of one triple, as there is no       *)
(* unique constraint on assignments.  Each row that a form's submissions   *)
(* made is the one that a 201 told it of, or the one of the request it is  *)
(* waiting for, or equals a submission of it that got no definite answer.  *)
(* So two equal rows mean that the user asked twice and was told twice, or *)
(* that a submission went silent; a second click, a refusal or a late      *)
(* answer never makes a row (services/event_assignments.py:14,             *)
(* EventAssignments.tsx:198).                                              *)
RowsAreTold ==
  \A x \in assignments :
    LET f == by[x] IN
      f # NoForm =>
        \/ x \in made[f]
        \/ phase[f] = "posting" /\ wrote[call[f]] = x
        \/ triple[x] \in silent[f]

(* An idle form that reports no refresh error shows every row it was told  *)
(* is created, unless the row was deleted (EventAssignments.tsx:32).       *)
CreatedRowShown ==
  \A f \in Form :
    phase[f] = "idle" /\ f \notin refreshError =>
      made[f] \cap assignments \subseteq shown[f]

=============================================================================
