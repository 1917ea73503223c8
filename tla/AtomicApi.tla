------------------------------- MODULE AtomicApi -------------------------------
(***************************************************************************)
(* What the routes for people, events and assignments promise their        *)
(* clients, with no statements and no transactions: between the question   *)
(* and the answer a request acts once, all of it at one moment, and the    *)
(* answer is true of the tables at that moment.                            *)
(***************************************************************************)
EXTENDS Authz

CONSTANTS
  Proc, Person, Event, Assignment, Role, Responsibility,  \* as in Registry
  Resident, Planned, Request, NoRequest, NoId,
  Needs      \* the permission each operation needs

VARIABLES
  persons, events, assignments, codes, members, triple, used,
  rights, live,
  stage, asks,        \* each request: how far it is, what it asks for
  status, row, rows   \* its answer, the row it stored, the rows it lists

tables == <<persons, events, assignments, codes, members, triple, used>>
account == <<rights, live>>
api == <<tables, account, stage, asks, status, row, rows>>

Init ==
  /\ persons = Resident /\ events = Planned /\ assignments = {}
  /\ codes = Role \cup Responsibility
  /\ members = {} /\ used = Resident \cup Planned
  /\ rights \subseteq Permission /\ live = TRUE
  /\ stage = [p \in Proc |-> "free"] /\ asks = [p \in Proc |-> NoRequest]
  /\ status = [p \in Proc |-> 0] /\ row = [p \in Proc |-> NoId]
  /\ rows = [p \in Proc |-> {}]

Turn(p, s) == stage' = [stage EXCEPT ![p] = s]

End(p, s) == Turn(p, "answered") /\ status' = [status EXCEPT ![p] = s]

(* What a request has done is answered in the same step or later.          *)
Acted(p, s) == End(p, s) \/ (Turn(p, "done") /\ UNCHANGED status)

-----------------------------------------------------------------------------
Ask(p) ==
  /\ stage[p] = "free" /\ Turn(p, "asked")
  /\ asks'[p] \in Request /\ asks' = [asks EXCEPT ![p] = asks'[p]]
  /\ UNCHANGED <<tables, account, status, row, rows>>

MayAct(p) == live /\ Needs[asks[p].op] \in rights

Admit(p) ==
  /\ stage[p] = "asked" /\ Turn(p, "admitted")
  /\ MayAct(p) /\ asks[p].valid
  /\ UNCHANGED <<tables, account, asks, status, row, rows>>

Refuse(p) ==
  /\ stage[p] = "asked"
  /\ \/ ~live /\ End(p, 401)
     \/ live /\ ~MayAct(p) /\ End(p, 403)
     \/ MayAct(p) /\ ~asks[p].valid /\ End(p, 422)
  /\ UNCHANGED <<tables, account, asks, row, rows>>

-----------------------------------------------------------------------------
(* The rows and codes a request refers to.                                 *)
Found(r) ==
  /\ r.op \in {"getEvent", "createAssignment"} => r.event \in events
  /\ r.op = "createAssignment" => r.person \in persons
  /\ r.op = "getAssignment" => r.assignment \in assignments

Known(r) ==
  /\ r.op = "createPerson" => r.codes \subseteq codes \cap Role
  /\ r.op = "createAssignment" => r.codes \subseteq codes \cap Responsibility

Creates == {"createPerson", "createEvent", "createAssignment"}

Listed(op) ==
  CASE op = "listPersons" -> persons
    [] op = "listEvents" -> events
    [] op = "listAssignments" -> assignments
    [] OTHER -> {}

Show(p) ==
  /\ asks[p].op \notin Creates /\ Found(asks[p])
  /\ Acted(p, 200)
  /\ rows' = [rows EXCEPT ![p] = Listed(asks[p].op)]
  /\ UNCHANGED <<tables, account, asks, row>>

Store(p, op, id) ==
  /\ asks[p].op = op
  /\ id \notin used /\ used' = used \cup {id}
  /\ Acted(p, 201) /\ row' = [row EXCEPT ![p] = id]
  /\ UNCHANGED <<codes, account, asks, rows>>

(* A person comes with all the roles asked for.                            *)
StorePerson(p, i) ==
  /\ Store(p, "createPerson", i)
  /\ Known(asks[p])
  /\ persons' = persons \cup {i}
  /\ members' = members \cup ({i} \X asks[p].codes)
  /\ UNCHANGED <<events, assignments, triple>>

StoreEvent(p, e) ==
  /\ Store(p, "createEvent", e)
  /\ events' = events \cup {e}
  /\ UNCHANGED <<persons, assignments, members, triple>>

(* An assignment is of what it was asked for, all of it there.             *)
StoreAssignment(p, x) ==
  /\ Store(p, "createAssignment", x)
  /\ Found(asks[p]) /\ Known(asks[p])
  /\ assignments' = assignments \cup {x}
  /\ \E c \in asks[p].codes :
       triple' = [triple EXCEPT ![x] = [event |-> asks[p].event,
                                        person |-> asks[p].person,
                                        responsibility |-> c]]
  /\ UNCHANGED <<persons, events, members>>

(* A request that cannot act says so, and what it says is so.              *)
Miss(p) ==
  /\ \/ ~Found(asks[p]) /\ End(p, 404)
     \/ ~Known(asks[p]) /\ End(p, 422)
     \/ /\ asks[p].op \in Creates
        /\ ~(Found(asks[p]) /\ Known(asks[p])) /\ End(p, 500)
  /\ UNCHANGED <<tables, account, asks, row, rows>>

(* What an admitted request does, once.                                    *)
Act(p) ==
  /\ stage[p] = "admitted"
  /\ \/ Show(p) \/ Miss(p)
     \/ \E i \in Person : StorePerson(p, i)
     \/ \E e \in Event : StoreEvent(p, e)
     \/ \E x \in Assignment : StoreAssignment(p, x)

(* It is answered 200 or 201, or 500 if the new row is gone again ...      *)
Confirm(p) ==
  /\ stage[p] = "done"
  /\ End(p, IF row[p] = NoId THEN 200
            ELSE IF row[p] \in persons \cup events \cup assignments
                 THEN 201 ELSE 500)
  /\ UNCHANGED <<tables, account, asks, row, rows>>

(* ... or not at all, whether or not the request has acted.                *)
Fail(p) ==
  /\ stage[p] \in {"asked", "admitted", "done"}
  /\ End(p, 0)
  /\ UNCHANGED <<tables, account, asks, row, rows>>

Forget(p) ==
  /\ stage[p] = "answered" /\ Turn(p, "free")
  /\ asks' = [asks EXCEPT ![p] = NoRequest]
  /\ status' = [status EXCEPT ![p] = 0]
  /\ row' = [row EXCEPT ![p] = NoId] /\ rows' = [rows EXCEPT ![p] = {}]
  /\ UNCHANGED <<tables, account>>

-----------------------------------------------------------------------------
(* Rows are removed with all those that refer to them, and no others.      *)
Remove ==
  /\ UNCHANGED <<stage, asks, status, row, rows, account, triple, used>>
  /\ persons' \subseteq persons /\ events' \subseteq events /\ codes' \subseteq codes
  /\ members' = {m \in members : m[1] \in persons' /\ m[2] \in codes'}
  /\ assignments' = {x \in assignments :
                       /\ triple[x].event \in events' /\ triple[x].person \in persons'
                       /\ triple[x].responsibility \in codes'}

(* The account gains permissions or is shut out.                           *)
Change ==
  /\ UNCHANGED <<stage, asks, status, row, rows, tables>>
  /\ rights \subseteq rights' /\ (live' => live)

Next ==
  \/ Change \/ Remove
  \/ \E p \in Proc :
       \/ Ask(p) \/ Admit(p) \/ Refuse(p)
       \/ Act(p) \/ Confirm(p) \/ Fail(p) \/ Forget(p)

Spec == Init /\ [][Next]_api

=============================================================================
