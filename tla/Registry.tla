------------------------------- MODULE Registry -------------------------------
(***************************************************************************)
(* People, events and assignments: the routes of api/persons.py,           *)
(* api/events.py, api/event_assignments.py and api/roles.py over their     *)
(* PostgreSQL tables.                                                      *)
(*                                                                         *)
(* A request is a process whose SQL statements are separate steps at READ  *)
(* COMMITTED, except that the two statements of the access check, which    *)
(* module Accounts has in detail, are one here.  Rows are ids; the columns *)
(* no program changes after the insert (status is DRAFT, approval_status   *)
(* PENDING, whatever the body asks for) are left out.                      *)
(***************************************************************************)
EXTENDS Naturals, FiniteSets, Authz

CONSTANTS
  Proc,           \* requests that may overlap
  Person, Event, Assignment,  \* primary keys (uuid4: never drawn twice)
  Role, Responsibility,       \* codes the migrations seed
  Ghost,          \* codes nobody seeded
  Resident, Planned,          \* rows of persons and events at the start
  Form, NoForm,   \* web forms that send requests
  NoId, NoProc,
  MaxStarts, MaxActs  \* environment bounds: requests, acts of an operator

ASSUME RegistryAssumption ==
  /\ Resident \subseteq Person /\ Planned \subseteq Event
  /\ NoId \notin Person \cup Event \cup Assignment
  /\ Person \cap Event = {} /\ Person \cap Assignment = {}
  /\ Event \cap Assignment = {} /\ Person \cap (Person \X Role) = {}
  /\ NoForm \notin Form /\ NoProc \notin Proc
  /\ Role \cap Responsibility = {} /\ Ghost \cap (Role \cup Responsibility) = {}
  /\ MaxStarts \in Nat /\ MaxActs \in Nat

VARIABLES
  persons, events, assignments,  \* the ids that have a row
  codes,       \* roles and event_responsibilities: codes that have a row
  members,     \* person_roles: pairs of person and role
  triple,      \* event_assignments: what each id was created with
  used,        \* ids drawn so far
  rights,      \* permissions of the account behind the requests
  live,        \* the account is active and its token valid
  acts,        \* acts of an operator so far
  step, req, result,   \* the requests: next statement, content, status
  answer,      \* rows in the response
  wrote,       \* the id the request committed, or NoId
  starts,      \* requests started
  asked,       \* history: the roles each person was created with
  by           \* history: the form each assignment was created from

tables == <<persons, events, assignments, codes, members, triple, used>>
account == <<rights, live, acts>>
requests == <<step, req, result, answer, wrote, starts>>
history == <<asked, by>>
registryVars == <<tables, account, requests, history>>

Code == Role \cup Responsibility \cup Ghost

(* The routes: the permission each declares with require_permission, the   *)
(* statement its handler starts with, and the statuses it documents.       *)
ListRoles == [needs |-> "roles:read", first |-> "read",
              statuses |-> {200, 401, 403}]
ListPersons == [needs |-> "people:read", first |-> "read",
                statuses |-> {200, 401, 403}]
CreatePerson == [needs |-> "people:create", first |-> "lookup",
                 statuses |-> {201, 401, 403, 422}]
ListEvents == [needs |-> "events:read", first |-> "read",
               statuses |-> {200, 401, 403}]
GetOneEvent == [needs |-> "events:read", first |-> "read",
                statuses |-> {200, 401, 403, 404}]
CreateEvent == [needs |-> "events:create", first |-> "insertEvent",
                statuses |-> {201, 401, 403, 422}]
ListAssignments == [needs |-> "assignments:read", first |-> "read",
                    statuses |-> {200, 401, 403}]
GetAssignment == [needs |-> "assignments:read", first |-> "read",
                  statuses |-> {200, 401, 403, 404}]
CreateAssignment == [needs |-> "assignments:create", first |-> "getEvent",
                     statuses |-> {201, 401, 403, 404, 422}]

Route == [listRoles |-> ListRoles, listPersons |-> ListPersons,
          createPerson |-> CreatePerson, listEvents |-> ListEvents,
          getEvent |-> GetOneEvent, createEvent |-> CreateEvent,
          listAssignments |-> ListAssignments,
          getAssignment |-> GetAssignment,
          createAssignment |-> CreateAssignment]

Op == DOMAIN Route

(* valid: Pydantic accepts the body (fields present and of their type,     *)
(* planned_at with an offset).                                             *)
Request == [op : Op \cup {"none"}, event : Event \cup {NoId},
            person : Person \cup {NoId}, assignment : Assignment \cup {NoId},
            codes : SUBSET Code, valid : BOOLEAN, form : Form \cup {NoForm}]

NoRequest == [op |-> "none", event |-> NoId, person |-> NoId,
              assignment |-> NoId, codes |-> {}, valid |-> TRUE,
              form |-> NoForm]

(* What a response carries.                                                *)
Row == Person \cup Event \cup Assignment \cup Person \X Role

Step == {"idle", "access", "read", "readRoles", "lookup", "insertPerson",
         "insertEvent", "getEvent", "getPerson", "getResponsibility",
         "insertAssignment", "reselect", "replied"}

Triple == [event : Event, person : Person, responsibility : Responsibility]
NoTriple == [event |-> NoId, person |-> NoId, responsibility |-> NoId]

RegistryTypeOK ==
  /\ persons \subseteq Person /\ events \subseteq Event
  /\ assignments \subseteq Assignment
  /\ codes \subseteq Role \cup Responsibility
  /\ members \subseteq Person \X Role
  /\ triple \in [Assignment -> Triple \cup {NoTriple}]
  /\ used \subseteq Person \cup Event \cup Assignment
  /\ rights \subseteq Permission /\ live \in BOOLEAN /\ acts \in 0..MaxActs
  /\ step \in [Proc -> Step] /\ req \in [Proc -> Request]
  /\ result \in [Proc -> {0, 200, 201, 401, 403, 404, 422, 500}]
  /\ answer \in [Proc -> SUBSET Row]
  /\ wrote \in [Proc -> Person \cup Event \cup Assignment \cup {NoId}]
  /\ starts \in 0..MaxStarts
  /\ asked \in [Person -> SUBSET Role]
  /\ by \in [Assignment -> Form \cup {NoForm}]

(* The account has the permissions of one of the roles.                    *)
RegistryInit ==
  /\ persons = Resident /\ events = Planned /\ assignments = {}
  /\ codes = Role \cup Responsibility
  /\ members = {} /\ triple = [x \in Assignment |-> NoTriple]
  /\ used = Resident \cup Planned
  /\ rights \in {Holds[r] : r \in RoleCode} /\ live = TRUE /\ acts = 0
  /\ step = [p \in Proc |-> "idle"]
  /\ req = [p \in Proc |-> NoRequest]
  /\ result = [p \in Proc |-> 0]
  /\ answer = [p \in Proc |-> {}]
  /\ wrote = [p \in Proc |-> NoId]
  /\ starts = 0
  /\ asked = [i \in Person |-> {}]
  /\ by = [x \in Assignment |-> NoForm]

-----------------------------------------------------------------------------
(* A request goes from statement to statement and ends with a status.      *)

Start(p, r) ==
  /\ step[p] = "idle" /\ starts < MaxStarts
  /\ starts' = starts + 1
  /\ step' = [step EXCEPT ![p] = "access"]
  /\ req' = [req EXCEPT ![p] = r]
  /\ UNCHANGED <<tables, account, result, answer, wrote, history>>

Goto(p, next) ==
  /\ step' = [step EXCEPT ![p] = next]
  /\ UNCHANGED <<req, result, answer, wrote, starts>>

Reply(p, status) ==
  /\ step' = [step EXCEPT ![p] = "replied"]
  /\ result' = [result EXCEPT ![p] = status]
  /\ UNCHANGED <<req, answer, wrote, starts>>

ReplyWith(p, rows) ==
  /\ step' = [step EXCEPT ![p] = "replied"]
  /\ result' = [result EXCEPT ![p] = 200]
  /\ answer' = [answer EXCEPT ![p] = rows]
  /\ UNCHANGED <<req, wrote, starts>>

(* The response has been read, or nobody waits for it.                     *)
Release(p) ==
  /\ step[p] = "replied"
  /\ step' = [step EXCEPT ![p] = "idle"]
  /\ req' = [req EXCEPT ![p] = NoRequest]
  /\ result' = [result EXCEPT ![p] = 0]
  /\ answer' = [answer EXCEPT ![p] = {}]
  /\ wrote' = [wrote EXCEPT ![p] = NoId]
  /\ UNCHANGED <<tables, account, starts, history>>

(* Mutant: any role of the account will do.                                *)
AccessAnyRole(p) ==
  /\ step[p] = "access"
  /\ IF ~live THEN Reply(p, 401)
     ELSE IF rights = {} THEN Reply(p, 403)
     ELSE IF ~req[p].valid THEN Reply(p, 422)
     ELSE Goto(p, Route[req[p].op].first)
  /\ UNCHANGED <<tables, account, history>>

(* Dependencies run before the body is validated, so 401 and 403 come      *)
(* before 422.                                                             *)
Access(p) ==
  /\ step[p] = "access"
  /\ IF ~live THEN Reply(p, 401)
     ELSE IF Route[req[p].op].needs \notin rights THEN Reply(p, 403)
     ELSE IF ~req[p].valid THEN Reply(p, 422)
     ELSE Goto(p, Route[req[p].op].first)
  /\ UNCHANGED <<tables, account, history>>

-----------------------------------------------------------------------------
(* Reads *)

(* list_persons, list_events and list_event_assignments answer with rows;  *)
(* what others contain is left out.                                        *)
Read(p) ==
  /\ step[p] = "read"
  /\ CASE req[p].op = "listPersons" ->
            /\ step' = [step EXCEPT ![p] = "readRoles"]
            /\ answer' = [answer EXCEPT ![p] = persons]
            /\ UNCHANGED <<req, result, wrote, starts>>
       [] req[p].op = "listEvents" -> ReplyWith(p, events)
       [] req[p].op = "listAssignments" -> ReplyWith(p, assignments)
       [] req[p].op = "getEvent" ->
            Reply(p, IF req[p].event \in events THEN 200 ELSE 404)
       [] req[p].op = "getAssignment" ->
            Reply(p, IF req[p].assignment \in assignments THEN 200 ELSE 404)
       [] OTHER -> Reply(p, 200)
  /\ UNCHANGED <<tables, account, history>>

(* selectinload: the roles of the persons found, in a second SELECT.       *)
ReadRoles(p) ==
  /\ step[p] = "readRoles"
  /\ ReplyWith(p, answer[p] \cup {m \in members : m[1] \in answer[p]})
  /\ UNCHANGED <<tables, account, history>>

-----------------------------------------------------------------------------
(* services/persons.py create_person *)

(* Every role asked for is looked up before anything is written.           *)
Lookup(p) ==
  /\ step[p] = "lookup"
  /\ IF req[p].codes \subseteq codes \cap Role
       THEN Goto(p, "insertPerson") ELSE Reply(p, 422)
  /\ UNCHANGED <<tables, account, history>>

Commit(p, id) ==
  /\ id \notin used /\ used' = used \cup {id}
  /\ wrote' = [wrote EXCEPT ![p] = id]

Created(p) ==
  /\ step' = [step EXCEPT ![p] = "replied"]
  /\ result' = [result EXCEPT ![p] = 201]
  /\ UNCHANGED <<req, answer, starts>>

(* Mutant: no foreign key, a role gone since the lookup is left out.       *)
InsertPersonWithWhatIsLeft(p) ==
  /\ step[p] = "insertPerson"
  /\ \E i \in Person :
       /\ Commit(p, i) /\ Created(p)
       /\ persons' = persons \cup {i}
       /\ members' = members \cup ({i} \X (req[p].codes \cap codes))
       /\ asked' = [asked EXCEPT ![i] = req[p].codes]
  /\ UNCHANGED <<events, assignments, codes, triple, account, by>>

(* Person and memberships in one transaction; a role deleted since the     *)
(* lookup fails the foreign key.                                           *)
InsertPerson(p) ==
  /\ step[p] = "insertPerson"
  /\ IF req[p].codes \subseteq codes
       THEN \E i \in Person :
              /\ Commit(p, i) /\ Created(p)
              /\ persons' = persons \cup {i}
              /\ members' = members \cup ({i} \X req[p].codes)
              /\ asked' = [asked EXCEPT ![i] = req[p].codes]
       ELSE Reply(p, 500) /\ UNCHANGED <<persons, members, used, asked>>
  /\ UNCHANGED <<events, assignments, codes, triple, account, by>>

-----------------------------------------------------------------------------
(* services/events.py create_event *)

InsertEvent(p) ==
  /\ step[p] = "insertEvent"
  /\ \E e \in Event :
       /\ Commit(p, e) /\ Created(p)
       /\ events' = events \cup {e}
  /\ UNCHANGED <<persons, assignments, codes, members, triple, account, history>>

-----------------------------------------------------------------------------
(* services/event_assignments.py create_event_assignment *)

GetEvent(p) ==
  /\ step[p] = "getEvent"
  /\ IF req[p].event \in events THEN Goto(p, "getPerson") ELSE Reply(p, 404)
  /\ UNCHANGED <<tables, account, history>>

GetPerson(p) ==
  /\ step[p] = "getPerson"
  /\ IF req[p].person \in persons
       THEN Goto(p, "getResponsibility") ELSE Reply(p, 404)
  /\ UNCHANGED <<tables, account, history>>

GetResponsibility(p) ==
  /\ step[p] = "getResponsibility"
  /\ IF req[p].codes \subseteq codes \cap Responsibility
       THEN Goto(p, "insertAssignment") ELSE Reply(p, 422)
  /\ UNCHANGED <<tables, account, history>>

Wanted(r) == [event |-> r.event, person |-> r.person,
              responsibility |-> CHOOSE c \in r.codes : TRUE]

Assign(p, x) ==
  /\ Commit(p, x)
  /\ assignments' = assignments \cup {x}
  /\ triple' = [triple EXCEPT ![x] = Wanted(req[p])]
  /\ by' = [by EXCEPT ![x] = req[p].form]
  /\ step' = [step EXCEPT ![p] = "reselect"]
  /\ UNCHANGED <<req, result, answer, starts>>

(* Mutant: no foreign keys, the rows read before are taken to exist.       *)
InsertAssignmentUnchecked(p) ==
  /\ step[p] = "insertAssignment"
  /\ \E x \in Assignment : Assign(p, x)
  /\ UNCHANGED <<persons, events, codes, members, account, asked>>

(* Mutant: the violated foreign key becomes a 409 no route declares.       *)
InsertAssignmentConflict(p) ==
  /\ step[p] = "insertAssignment"
  /\ IF req[p].event \in events /\ req[p].person \in persons
       THEN \E x \in Assignment : Assign(p, x)
       ELSE Reply(p, 409) /\ UNCHANGED <<assignments, triple, used, by>>
  /\ UNCHANGED <<persons, events, codes, members, account, asked>>

(* INSERT and COMMIT: event, person and responsibility may be gone since.  *)
InsertAssignment(p) ==
  /\ step[p] = "insertAssignment"
  /\ IF req[p].event \in events /\ req[p].person \in persons
        /\ req[p].codes \subseteq codes
       THEN \E x \in Assignment : Assign(p, x)
       ELSE Reply(p, 500) /\ UNCHANGED <<assignments, triple, used, by>>
  /\ UNCHANGED <<persons, events, codes, members, account, asked>>

(* Mutant: a row that is gone by now is reported as not found.             *)
Reselect404(p) ==
  /\ step[p] = "reselect"
  /\ IF wrote[p] \in assignments THEN Created(p) /\ UNCHANGED wrote
                                 ELSE Reply(p, 404)
  /\ UNCHANGED <<tables, account, history>>

(* The row is read back for the response; deleted in between, there is     *)
(* nothing to serialize.                                                   *)
Reselect(p) ==
  /\ step[p] = "reselect"
  /\ IF wrote[p] \in assignments THEN Created(p) /\ UNCHANGED wrote
                                 ELSE Reply(p, 500)
  /\ UNCHANGED <<tables, account, history>>

-----------------------------------------------------------------------------
(* What happens around the requests *)

(* Another client of the API asks for anything.                            *)
Direct(p) ==
  \/ \E op \in {"listRoles", "listPersons", "listEvents"} :
       Start(p, [NoRequest EXCEPT !.op = op])
  \/ \E e \in Event : Start(p, [NoRequest EXCEPT !.op = "getEvent", !.event = e])
  \/ \E x \in Assignment :
       Start(p, [NoRequest EXCEPT !.op = "getAssignment", !.assignment = x])
  \/ \E v \in BOOLEAN :
       Start(p, [NoRequest EXCEPT !.op = "createEvent", !.valid = v])
  \/ \E c \in SUBSET (Role \cup Ghost) :
       Start(p, [NoRequest EXCEPT !.op = "createPerson", !.codes = c])
  \/ \E e \in Event, i \in Person, c \in Responsibility \cup Ghost :
       Start(p, [NoRequest EXCEPT !.op = "createAssignment", !.event = e,
                                  !.person = i, !.codes = {c}])

(* The API process dies: what is not committed is rolled back, and no      *)
(* answer comes.                                                           *)
Die(p) ==
  /\ step[p] \notin {"idle", "replied"}
  /\ Reply(p, 0)
  /\ UNCHANGED <<tables, account, history>>

Act == acts < MaxActs /\ acts' = acts + 1

(* An operator deletes rows in the database; no program of the repository  *)
(* does.  Rows that refer to them follow (CASCADE) ...                     *)
DeleteEvent(e) ==
  /\ Act
  /\ e \in events
  /\ events' = events \ {e}
  /\ assignments' = {x \in assignments : triple[x].event # e}
  /\ UNCHANGED <<persons, codes, members, triple, used, rights, live,
                 requests, history>>

DeletePerson(i) ==
  /\ Act
  /\ i \in persons
  /\ persons' = persons \ {i}
  /\ members' = {m \in members : m[1] # i}
  /\ assignments' = {x \in assignments : triple[x].person # i}
  /\ UNCHANGED <<events, codes, triple, used, rights, live,
                 requests, history>>

(* ... or prevent it (RESTRICT), as for reference rows, which a downgrade  *)
(* of migrations 0002 and 0003 deletes.                                    *)
DeleteCode(c) ==
  /\ Act
  /\ c \in codes
  /\ \A m \in members : m[2] # c
  /\ \A x \in assignments : triple[x].responsibility # c
  /\ codes' = codes \ {c}
  /\ UNCHANGED <<persons, events, assignments, members, triple, used, rights,
                 live, requests, history>>

(* assign_role gives the account one more role.                            *)
Promote ==
  /\ Act
  /\ \E r \in RoleCode :
       ~(Holds[r] \subseteq rights) /\ rights' = rights \cup Holds[r]
  /\ UNCHANGED <<tables, live, requests, history>>

(* The account is disabled, or its token expires.                          *)
Disable ==
  /\ Act
  /\ live /\ live' = FALSE
  /\ UNCHANGED <<tables, rights, requests, history>>

Serve(p) ==
  \/ Access(p) \/ Read(p) \/ ReadRoles(p)
  \/ Lookup(p) \/ InsertPerson(p) \/ InsertEvent(p)
  \/ GetEvent(p) \/ GetPerson(p) \/ GetResponsibility(p)
  \/ InsertAssignment(p) \/ Reselect(p)
  \/ Die(p)

Operate ==
  \/ \E e \in Event : DeleteEvent(e)
  \/ \E i \in Person : DeletePerson(i)
  \/ \E c \in Role \cup Responsibility : DeleteCode(c)
  \/ Promote \/ Disable

RegistryNext == Operate \/ \E p \in Proc : Direct(p) \/ Serve(p) \/ Release(p)

RegistrySpec == RegistryInit /\ [][RegistryNext]_registryVars

-----------------------------------------------------------------------------
(* Properties *)

(* Every row refers to rows that exist, whatever was deleted between the   *)
(* lookups of a request and its insert (services/event_assignments.py:62). *)
NoDangling ==
  /\ \A m \in members : m[1] \in persons /\ m[2] \in codes
  /\ \A x \in assignments :
       /\ triple[x].event \in events
       /\ triple[x].person \in persons
       /\ triple[x].responsibility \in codes

(* A person has all the roles asked for at creation or does not exist      *)
(* (services/persons.py:28).                                               *)
RolesAllOrNothing ==
  \A i \in persons : {m[2] : m \in {n \in members : n[1] = i}} = asked[i]

(* A list of people shows each with all the roles it was created with,     *)
(* unless it was deleted while the list was read in two SELECTs            *)
(* (api/persons.py:58).                                                    *)
ListedWithRoles ==
  \A p \in Proc :
    step[p] = "replied" /\ req[p].op = "listPersons" /\ result[p] = 200 =>
      \A i \in answer[p] \cap persons : {i} \X asked[i] \subseteq answer[p]

(* Both: nobody is stored or shown with some of their roles.               *)
RolesWhole == RolesAllOrNothing /\ ListedWithRoles

(* 401, 403, 404 and 422 mean that the request wrote nothing, at whichever *)
(* statement it stopped (services/event_assignments.py:60).                *)
RefusedWritesNothing ==
  \A p \in Proc : result[p] \in {401, 403, 404, 422} => wrote[p] = NoId

(* A route answers with a status it documents, or 500, or not at all (0),  *)
(* whatever happens between its statements (api/persons.py:69).            *)
DocumentedStatuses ==
  \A p \in Proc : step[p] = "replied" =>
    result[p] \in Route[req[p].op].statuses \cup {0, 500}

(* Both: what the client is told is true of what happened.                 *)
AnswersTrue == RefusedWritesNothing /\ DocumentedStatuses

(* Whatever a request wrote, its account has the permission for that kind  *)
(* of row: an operator never creates a person (docs/06 4g).                *)
WritesNeedRight ==
  \A p \in Proc :
    /\ wrote[p] \in Person => "people:create" \in rights
    /\ wrote[p] \in Event => "events:create" \in rights
    /\ wrote[p] \in Assignment => "assignments:create" \in rights

(* To its client a request is at most one act: its statements up to the    *)
(* one that decides are one stage, those after it another, and the roles   *)
(* in a list of people, read later, are left aside.                        *)
StageOf(s) ==
  CASE s = "idle" -> "free" [] s = "access" -> "asked"
    [] s \in {"readRoles", "reselect"} -> "done" [] s = "replied" -> "answered"
    [] OTHER -> "admitted"

Stages == [p \in Proc |-> StageOf(step[p])]

RowsOf(r, a) == IF r.op = "listPersons" THEN a \cap Person ELSE a
RowsTold == [p \in Proc |-> RowsOf(req[p], answer[p])]

Needed == [op \in Op |-> Route[op].needs]

Atomic == INSTANCE AtomicApi WITH
  stage <- Stages, asks <- req, status <- result, row <- wrote,
  rows <- RowsTold, Needs <- Needed

(* However the statements of overlapping requests and the acts of an       *)
(* operator interleave, every request acts once, at one moment: a write is *)
(* stored whole, and a refusal, a miss or a list is true of that moment    *)
(* (services/event_assignments.py:62, services/persons.py:28).             *)
ActsAtOnce == Atomic!Spec

=============================================================================
