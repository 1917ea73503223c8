---------------------------- MODULE RegistryProofs ----------------------------
(* Proofs about Registry for any number of requests, rows and codes.  What *)
(* is proved of a step here holds in every module that composes Registry.  *)
EXTENDS Registry, TLAPS

(***************************************************************************)
(* The inductive invariant of Registry has a part about the tables and a   *)
(* part about each request.  An id that was drawn is never drawn again, so *)
(* what a request wrote or listed stays what it was until it is deleted.   *)
(***************************************************************************)
RowsAreUsed == persons \subseteq used /\ assignments \subseteq used

TableInv == NoDangling /\ RolesAllOrNothing /\ RowsAreUsed

Before == {"idle", "access", "read", "readRoles", "lookup", "insertPerson",
           "insertEvent", "getEvent", "getPerson", "getResponsibility",
           "insertAssignment"}

AssignSteps == {"getEvent", "getPerson", "getResponsibility",
                "insertAssignment", "reselect"}

(* Each statement belongs to a route, and each check stays behind it.      *)
OnItsWay(p) ==
  /\ step[p] # "idle" => req[p].op \in Op
  /\ step[p] = "read" =>
       req[p].op \in Op \ {"createPerson", "createEvent", "createAssignment"}
  /\ step[p] = "readRoles" => req[p].op = "listPersons"
  /\ step[p] \in {"lookup", "insertPerson"} => req[p].op = "createPerson"
  /\ step[p] = "insertEvent" => req[p].op = "createEvent"
  /\ step[p] \in AssignSteps => req[p].op = "createAssignment"
  /\ step[p] = "insertPerson" => req[p].codes \subseteq Role
  /\ step[p] = "insertAssignment" => req[p].codes \subseteq Responsibility
  /\ req[p].op = "createAssignment" => req[p].codes # {}
  /\ req[p].valid \/ req[p].op = "createEvent"

NothingYet(p) ==
  /\ step[p] \in Before => wrote[p] = NoId
  /\ step[p] # "replied" => result[p] = 0
  /\ result[p] \in {401, 403, 404, 422} => wrote[p] = NoId

Documented(p) ==
  step[p] = "replied" => result[p] \in Route[req[p].op].statuses \cup {0, 500}

Allowed(p) ==
  /\ step[p] \notin {"idle", "access", "replied"} => Route[req[p].op].needs \in rights
  /\ wrote[p] \in Person => "people:create" \in rights
  /\ wrote[p] \in Event => "events:create" \in rights
  /\ wrote[p] \in Assignment => "assignments:create" \in rights

(* What a list request has read so far.                                    *)
ListsKnown(p) ==
  /\ answer[p] \cap Person \subseteq used
  /\ step[p] \in Before \ {"readRoles"} => answer[p] = {}
  /\ step[p] = "readRoles" => answer[p] \subseteq Person
  /\ req[p].op = "listEvents" => answer[p] \subseteq Event
  /\ req[p].op = "listAssignments" => answer[p] \subseteq Assignment \cap used
  /\ step[p] = "replied" /\ req[p].op = "listPersons" /\ result[p] = 200 =>
       \A i \in answer[p] \cap persons : {i} \X asked[i] \subseteq answer[p]

WroteWhatWasAsked(p) ==
  /\ wrote[p] \in used \cup {NoId}
  /\ step[p] = "reselect" => wrote[p] \in Assignment
  /\ req[p].op = "createAssignment" /\ wrote[p] # NoId =>
       wrote[p] \in Assignment /\ triple[wrote[p]] = Wanted(req[p])
  /\ req[p].op = "createAssignment" /\ result[p] = 201 => wrote[p] # NoId

ProcInv(p) ==
  /\ OnItsWay(p) /\ NothingYet(p) /\ Documented(p)
  /\ Allowed(p) /\ ListsKnown(p) /\ WroteWhatWasAsked(p)

RInv == RegistryTypeOK /\ TableInv /\ \A p \in Proc : ProcInv(p)

(* A request as clients make it.                                           *)
WellFormed(r) ==
  /\ r \in Request /\ r.op \in Op
  /\ r.op = "createAssignment" => r.codes # {}
  /\ r.valid \/ r.op = "createEvent"

-----------------------------------------------------------------------------
(* The routes, spelled out.                                                *)
LEMMA Ops == Op = {"listRoles", "listPersons", "createPerson", "listEvents",
                   "getEvent", "createEvent", "listAssignments",
                   "getAssignment", "createAssignment"}
  BY DEF Op, Route

LEMMA Firsts ==
  /\ Route["createPerson"].first = "lookup"
  /\ Route["createEvent"].first = "insertEvent"
  /\ Route["createAssignment"].first = "getEvent"
  /\ \A o \in Op \ {"createPerson", "createEvent", "createAssignment"} :
       Route[o].first = "read"
  BY Ops DEF Route, ListRoles, ListPersons, CreatePerson, ListEvents, GetOneEvent,
         CreateEvent, ListAssignments, GetAssignment, CreateAssignment

LEMMA Needs ==
  /\ Route["createPerson"].needs = "people:create"
  /\ Route["createEvent"].needs = "events:create"
  /\ Route["createAssignment"].needs = "assignments:create"
  BY DEF Route, CreatePerson, CreateEvent, CreateAssignment

LEMMA Statuses ==
  /\ Route["createPerson"].statuses = {201, 401, 403, 422}
  /\ Route["createEvent"].statuses = {201, 401, 403, 422}
  /\ Route["createAssignment"].statuses = {201, 401, 403, 404, 422}
  /\ \A o \in {"getEvent", "getAssignment"} :
       Route[o].statuses = {200, 401, 403, 404}
  /\ \A o \in {"listRoles", "listPersons", "listEvents", "listAssignments"} :
       Route[o].statuses = {200, 401, 403}
  BY DEF Route, ListRoles, ListPersons, CreatePerson, ListEvents, GetOneEvent,
         CreateEvent, ListAssignments, GetAssignment, CreateAssignment

(* The one code of a request for an assignment.                            *)
LEMMA WantedIsOneOf ==
  ASSUME NEW r, r.codes # {}
  PROVE  /\ Wanted(r).responsibility \in r.codes
         /\ Wanted(r).event = r.event /\ Wanted(r).person = r.person
         /\ Wanted(r) = [event |-> r.event, person |-> r.person,
                         responsibility |-> Wanted(r).responsibility]
<1>1. (CHOOSE c \in r.codes : TRUE) \in r.codes
  OBVIOUS
<1> QED BY <1>1 DEF Wanted

-----------------------------------------------------------------------------
(* What a step leaves alone.                                               *)
Status == {0, 200, 201, 401, 403, 404, 422, 500}

RequestsTyped ==
  /\ step \in [Proc -> Step] /\ req \in [Proc -> Request]
  /\ result \in [Proc -> Status]
  /\ answer \in [Proc -> SUBSET Row]
  /\ wrote \in [Proc -> Person \cup Event \cup Assignment \cup {NoId}]
  /\ starts \in 0..MaxStarts

Kept(q) == UNCHANGED <<step[q], req[q], result[q], answer[q], wrote[q]>>

(* A step of p that leaves the other requests as they are.                 *)
StepOf(p) == RequestsTyped' /\ \A q \in Proc : q # p => Kept(q)

(* The tables may grow by new ids and shrink, and rights may grow.         *)
TablesKeep ==
  /\ used \subseteq used' /\ rights \subseteq rights'
  /\ persons' \cap used \subseteq persons /\ persons' \subseteq Person
  /\ \A i \in used \cap Person : asked'[i] = asked[i]
  /\ \A x \in used \cap Assignment : triple'[x] = triple[x]

LEMMA OthersKeep ==
  ASSUME RInv, NEW q \in Proc, Kept(q), TablesKeep
  PROVE  ProcInv(q)'
<1> USE DEF RInv, ProcInv, Kept, TablesKeep
<1>0. RegistryTypeOK
  OBVIOUS
<1>1. OnItsWay(q)'
  BY DEF OnItsWay
<1>2. NothingYet(q)'
  BY DEF NothingYet, Before
<1>3. Documented(q)'
  <2>1. /\ step'[q] = step[q] /\ result'[q] = result[q]
        /\ Route[req'[q].op].statuses = Route[req[q].op].statuses
    OBVIOUS
  <2>2. Documented(q)
    OBVIOUS
  <2> QED BY <2>1, <2>2, SMTT(60) DEF Documented
<1>4. Allowed(q)'
  BY DEF Allowed
<1>5. ListsKnown(q)'
  <2>1. answer[q] \cap Person \subseteq used
    BY DEF ListsKnown
  <2>2. ASSUME step[q] = "replied", req[q].op = "listPersons", result[q] = 200,
               NEW i \in answer[q], i \in persons'
        PROVE  {i} \X asked'[i] \subseteq answer[q]
    <3>1. i \in used /\ i \in persons /\ asked'[i] = asked[i]
      BY <2>1, <2>2
    <3>2. {i} \X asked[i] \subseteq answer[q]
      BY <2>2, <3>1 DEF ListsKnown
    <3> QED BY <3>1, <3>2
  <2> QED BY <2>1, <2>2 DEF ListsKnown
<1>6. WroteWhatWasAsked(q)'
  BY <1>0 DEF WroteWhatWasAsked, RegistryTypeOK
<1> QED BY <1>1, <1>2, <1>3, <1>4, <1>5, <1>6

LEMMA QuietStep ==
  ASSUME RInv, NEW p \in Proc, UNCHANGED <<tables, account, history>>,
         StepOf(p), ProcInv(p)'
  PROVE  RInv'
<1>1. TablesKeep
  BY DEF TablesKeep, tables, account, history, RInv, RegistryTypeOK
<1>2. ASSUME NEW q \in Proc PROVE ProcInv(q)'
  BY <1>1, OthersKeep DEF StepOf
<1>3. RegistryTypeOK'
  BY DEF RInv, RegistryTypeOK, StepOf, RequestsTyped, Status, tables, account, history
<1>4. TableInv'
  BY DEF RInv, TableInv, NoDangling, RolesAllOrNothing, RowsAreUsed, tables, history
<1> QED BY <1>2, <1>3, <1>4 DEF RInv

(* The four ways in which a request moves on.                              *)
LEMMA Goes ==
  ASSUME RegistryTypeOK, NEW p \in Proc, NEW n \in Step, Goto(p, n)
  PROVE  /\ StepOf(p) /\ step'[p] = n /\ req' = req /\ result' = result
         /\ answer' = answer /\ wrote' = wrote
  BY DEF RegistryTypeOK, Goto, StepOf, RequestsTyped, Status, Kept

LEMMA Replies ==
  ASSUME RegistryTypeOK, NEW p \in Proc, NEW s \in Status, Reply(p, s)
  PROVE  /\ StepOf(p) /\ step'[p] = "replied" /\ result'[p] = s
         /\ req' = req /\ answer' = answer /\ wrote' = wrote
  BY DEF RegistryTypeOK, Reply, StepOf, RequestsTyped, Status, Kept, Step

LEMMA RepliesWith ==
  ASSUME RegistryTypeOK, NEW p \in Proc,
         NEW rows \in SUBSET Row,
         ReplyWith(p, rows)
  PROVE  /\ StepOf(p) /\ step'[p] = "replied" /\ result'[p] = 200
         /\ answer'[p] = rows /\ req' = req /\ wrote' = wrote
  BY DEF RegistryTypeOK, ReplyWith, StepOf, RequestsTyped, Status, Kept, Step

LEMMA Creates ==
  ASSUME RegistryTypeOK, NEW p \in Proc, Created(p),
         NEW i \in Person \cup Event \cup Assignment \cup {NoId},
         wrote' = [wrote EXCEPT ![p] = i]
  PROVE  /\ StepOf(p) /\ step'[p] = "replied" /\ result'[p] = 201
         /\ wrote'[p] = i /\ req' = req /\ answer' = answer
  BY DEF RegistryTypeOK, Created, StepOf, RequestsTyped, Status, Kept, Step

-----------------------------------------------------------------------------
(* How requests move on and what they still know then.                     *)

(* A request may end without rows with any status of its route, but with a *)
(* refusal only as long as it has not written.                             *)
LEMMA EndsWell ==
  ASSUME RInv, NEW p \in Proc, NEW s \in Status \ {201}, Reply(p, s),
         step[p] \notin {"idle", "replied"}, TablesKeep,
         s \in Route[req[p].op].statuses \cup {0, 500},
         s \in {401, 403, 404, 422} => wrote[p] = NoId,
         s = 200 => req[p].op # "listPersons"
  PROVE  ProcInv(p)'
<1> DEFINE o == req[p].op
<1>1. /\ step'[p] = "replied" /\ result'[p] = s
      /\ req'[p] = req[p] /\ answer'[p] = answer[p] /\ wrote'[p] = wrote[p]
  BY Replies DEF RInv
<1>2. /\ OnItsWay(p) /\ NothingYet(p) /\ Allowed(p)
      /\ ListsKnown(p) /\ WroteWhatWasAsked(p)
  BY DEF RInv, ProcInv
<1>3. OnItsWay(p)'
  BY <1>1, <1>2 DEF OnItsWay, AssignSteps
<1>4. NothingYet(p)'
  BY <1>1, <1>2 DEF NothingYet, Before
<1>5. Documented(p)'
  <2>1. Route[req'[p].op].statuses = Route[req[p].op].statuses
    BY <1>1
  <2> QED BY <1>1, <2>1, SMTT(60) DEF Documented
<1>6. Allowed(p)'
  BY <1>1, <1>2 DEF Allowed, TablesKeep
<1>7. ListsKnown(p)'
  BY <1>1, <1>2 DEF ListsKnown, TablesKeep, Before
<1>8. WroteWhatWasAsked(p)'
  BY <1>1, <1>2 DEF WroteWhatWasAsked, TablesKeep, RInv, RegistryTypeOK
<1> QED BY <1>3, <1>4, <1>5, <1>6, <1>7, <1>8 DEF ProcInv

(* A request that has written nothing may go on to a statement of its      *)
(* route, if its account has the permission.                               *)
LEMMA GoesWell ==
  ASSUME RInv, NEW p \in Proc, NEW n \in Before \ {"idle", "access", "readRoles"},
         Goto(p, n), step[p] \in Before \ {"readRoles"}, OnItsWay(p)', TablesKeep,
         Route[req[p].op].needs \in rights
  PROVE  ProcInv(p)'
<1>1. /\ step'[p] = n /\ result'[p] = result[p]
      /\ req'[p] = req[p] /\ answer'[p] = answer[p] /\ wrote'[p] = wrote[p]
  BY Goes DEF RInv, Before, Step
<1>2. /\ NothingYet(p) /\ Allowed(p) /\ ListsKnown(p) /\ WroteWhatWasAsked(p)
  BY DEF RInv, ProcInv
<1>3. NothingYet(p)'
  BY <1>1, <1>2 DEF NothingYet, Before
<1>4. Documented(p)'
  BY <1>1 DEF Documented, Before
<1>5. Allowed(p)'
  <2>1. Route[req'[p].op].needs = Route[req[p].op].needs
    BY <1>1
  <2> QED BY <1>1, <1>2, <2>1 DEF Allowed, TablesKeep
<1>6. ListsKnown(p)'
  BY <1>1, <1>2 DEF ListsKnown, TablesKeep, Before
<1>7. WroteWhatWasAsked(p)'
  BY <1>1, <1>2 DEF WroteWhatWasAsked, TablesKeep, RInv, RegistryTypeOK, Before
<1> QED BY <1>3, <1>4, <1>5, <1>6, <1>7 DEF ProcInv

(* While nothing but the request moves, the tables keep.                   *)
LEMMA Quiet ==
  ASSUME RInv, UNCHANGED <<tables, account, history>>
  PROVE  TablesKeep
  BY DEF TablesKeep, tables, account, history, RInv, RegistryTypeOK

LEMMA QuietEnd ==
  ASSUME RInv, NEW p \in Proc, NEW s \in Status \ {201}, Reply(p, s),
         step[p] \notin {"idle", "replied"}, UNCHANGED <<tables, account, history>>,
         s \in Route[req[p].op].statuses \cup {0, 500},
         s \in {401, 403, 404, 422} => wrote[p] = NoId,
         s = 200 => req[p].op # "listPersons"
  PROVE  RInv'
<1>1. ProcInv(p)'
  BY EndsWell, Quiet
<1>2. StepOf(p)
  BY Replies DEF RInv
<1> QED BY <1>1, <1>2, QuietStep

LEMMA QuietGo ==
  ASSUME RInv, NEW p \in Proc, NEW n \in Before \ {"idle", "access", "readRoles"},
         Goto(p, n), step[p] \in Before \ {"readRoles"}, OnItsWay(p)',
         Route[req[p].op].needs \in rights, UNCHANGED <<tables, account, history>>
  PROVE  RInv'
<1>1. ProcInv(p)'
  BY GoesWell, Quiet
<1>2. StepOf(p)
  BY Goes DEF RInv, Before, Step
<1> QED BY <1>1, <1>2, QuietStep

-----------------------------------------------------------------------------
(* Every step of Registry keeps its invariant. *)

LEMMA StartKeeps ==
  ASSUME RInv, NEW p \in Proc, NEW r, WellFormed(r), Start(p, r)
  PROVE  RInv'
<1>1. /\ step'[p] = "access" /\ req'[p] = r /\ result'[p] = result[p]
      /\ answer'[p] = answer[p] /\ wrote'[p] = wrote[p]
  BY DEF Start, RInv, RegistryTypeOK
<1>2. StepOf(p)
  <2>1. starts' \in 0..MaxStarts
    BY RegistryAssumption DEF Start, RInv, RegistryTypeOK
  <2> QED BY <2>1 DEF Start, WellFormed, RInv, RegistryTypeOK, StepOf,
             RequestsTyped, Status, Kept, Step
<1>3. step[p] = "idle" /\ UNCHANGED <<tables, account, history>>
  BY DEF Start
<1>4. ProcInv(p)
  BY DEF RInv
<1>5. ProcInv(p)'
  <2>1. OnItsWay(p)'
    BY <1>1 DEF OnItsWay, WellFormed, AssignSteps
  <2>2. NothingYet(p)' /\ wrote[p] = NoId /\ result[p] = 0
    BY <1>1, <1>3, <1>4 DEF ProcInv, NothingYet, Before
  <2>3. Documented(p)'
    BY <1>1 DEF Documented
  <2>4. Allowed(p)'
    BY <1>1, <2>2, RegistryAssumption DEF Allowed
  <2>5. ListsKnown(p)'
    BY <1>1, <1>3, <1>4 DEF ProcInv, ListsKnown, tables, Before
  <2>6. WroteWhatWasAsked(p)'
    BY <1>1, <2>2 DEF WroteWhatWasAsked
  <2> QED BY <2>1, <2>2, <2>3, <2>4, <2>5, <2>6 DEF ProcInv
<1> QED BY <1>2, <1>3, <1>5, QuietStep

LEMMA ReleaseKeeps ==
  ASSUME RInv, NEW p \in Proc, Release(p)
  PROVE  RInv'
<1>1. /\ step'[p] = "idle" /\ req'[p] = NoRequest /\ result'[p] = 0
      /\ answer'[p] = {} /\ wrote'[p] = NoId
  BY DEF Release, RInv, RegistryTypeOK
<1>2. NoRequest \in Request /\ NoRequest.op = "none" /\ NoRequest.valid
  BY DEF NoRequest, Request
<1>3. StepOf(p)
  BY <1>2 DEF Release, RInv, RegistryTypeOK, StepOf, RequestsTyped, Status, Kept, Step
<1>4. ProcInv(p)'
  <2>1. OnItsWay(p)'
    BY <1>1, <1>2 DEF OnItsWay, AssignSteps
  <2> QED BY <1>1, <2>1, RegistryAssumption DEF ProcInv, NothingYet, Documented,
             Allowed, ListsKnown, WroteWhatWasAsked
<1> QED BY <1>3, <1>4, QuietStep DEF Release

LEMMA AccessKeeps ==
  ASSUME RInv, NEW p \in Proc, Access(p)
  PROVE  RInv'
<1>1. /\ step[p] = "access" /\ OnItsWay(p) /\ NothingYet(p)
      /\ UNCHANGED <<tables, account, history>>
  BY DEF Access, RInv, ProcInv
<1>2. req[p].op \in Op /\ wrote[p] = NoId
  BY <1>1 DEF OnItsWay, NothingYet, Before
<1>3. {401, 403} \subseteq Route[req[p].op].statuses
  BY <1>2, Ops, Statuses
<1>4. ASSUME NEW s \in {401, 403}, Reply(p, s) PROVE RInv'
  BY <1>1, <1>2, <1>3, <1>4, QuietEnd DEF Status
<1>5. ASSUME ~req[p].valid, Reply(p, 422) PROVE RInv'
  <2>1. 422 \in Route[req[p].op].statuses
    BY <1>1, <1>5, Statuses DEF OnItsWay
  <2> QED BY <1>1, <1>2, <1>5, <2>1, QuietEnd DEF Status
<1>6. ASSUME Route[req[p].op].needs \in rights, Goto(p, Route[req[p].op].first)
      PROVE  RInv'
  <2>1. /\ Route[req[p].op].first \in Before \ {"idle", "access", "readRoles"}
        /\ Route[req[p].op].first \in Step
    BY <1>2, Ops, Firsts DEF Before, Step
  <2>2. step'[p] = Route[req[p].op].first /\ req'[p] = req[p]
    BY <1>6, <2>1, Goes DEF RInv
  <2>3. OnItsWay(p)'
    BY <1>1, <1>2, <2>2, Ops, Firsts DEF OnItsWay, AssignSteps
  <2> QED BY <1>1, <1>6, <2>1, <2>3, QuietGo DEF Before
<1> QED BY <1>4, <1>5, <1>6 DEF Access

LEMMA ReadKeeps ==
  ASSUME RInv, NEW p \in Proc, Read(p)
  PROVE  RInv'
<1> DEFINE o == req[p].op
<1>1. /\ step[p] = "read" /\ ProcInv(p)
      /\ UNCHANGED <<tables, account, history>>
  BY DEF Read, RInv
<1>2. /\ o \in Op \ {"createPerson", "createEvent", "createAssignment"}
      /\ wrote[p] = NoId /\ Route[o].needs \in rights
  BY <1>1 DEF ProcInv, OnItsWay, NothingYet, Before, Allowed
<1>3. 200 \in Route[o].statuses
  BY <1>2, Ops, Statuses
<1>4. ASSUME NEW s \in {200, 404}, Reply(p, s), o # "listPersons",
             s = 404 => o \in {"getEvent", "getAssignment"}
      PROVE  RInv'
  <2>1. s \in Route[o].statuses
    BY <1>3, <1>4, Statuses
  <2> QED BY <1>1, <1>2, <1>4, <2>1, QuietEnd DEF Status
<1>5. CASE o = "listPersons"
  <2>1. /\ step' = [step EXCEPT ![p] = "readRoles"]
        /\ answer' = [answer EXCEPT ![p] = persons]
        /\ UNCHANGED <<req, result, wrote, starts>>
    BY <1>5 DEF Read
  <2>2. persons \subseteq Person /\ persons \subseteq used
    BY DEF RInv, RegistryTypeOK, TableInv, RowsAreUsed
  <2>3. /\ StepOf(p) /\ step'[p] = "readRoles" /\ answer'[p] = persons
        /\ req' = req /\ result' = result /\ wrote' = wrote
    BY <2>1, <2>2 DEF RInv, RegistryTypeOK, StepOf, RequestsTyped, Status, Kept, Step, Row
  <2>4. OnItsWay(p)' /\ NothingYet(p)' /\ Documented(p)'
    BY <1>1, <1>5, <2>3 DEF ProcInv, OnItsWay, NothingYet, Documented, Before,
       AssignSteps
  <2>5. Allowed(p)'
    <3>1. Route[req'[p].op].needs = Route[req[p].op].needs
      BY <2>3
    <3> QED BY <1>1, <1>2, <2>3, <3>1 DEF ProcInv, Allowed, account
  <2>6. ListsKnown(p)' /\ WroteWhatWasAsked(p)'
    BY <1>1, <1>5, <2>2, <2>3 DEF ProcInv, ListsKnown, WroteWhatWasAsked, tables, Before
  <2> QED BY <1>1, <2>3, <2>4, <2>5, <2>6, QuietStep DEF ProcInv
<1>6. CASE o = "listAssignments"
  <2>1. ReplyWith(p, assignments)
    BY <1>6 DEF Read
  <2>2. assignments \subseteq Assignment /\ assignments \subseteq used
    BY DEF RInv, RegistryTypeOK, TableInv, RowsAreUsed
  <2>3. /\ StepOf(p) /\ step'[p] = "replied" /\ result'[p] = 200
        /\ answer'[p] = assignments /\ req' = req /\ wrote' = wrote
    BY <2>1, <2>2, RepliesWith DEF RInv, Row
  <2>4. OnItsWay(p)' /\ NothingYet(p)'
    BY <1>1, <1>2, <1>6, <2>3 DEF ProcInv, OnItsWay, NothingYet, Before, AssignSteps
  <2>5. Documented(p)'
    <3>1. Route[req'[p].op].statuses = Route[req[p].op].statuses
      BY <2>3
    <3> QED BY <1>3, <2>3, <3>1 DEF Documented
  <2>6. Allowed(p)' /\ ListsKnown(p)' /\ WroteWhatWasAsked(p)'
    BY <1>1, <1>6, <2>2, <2>3 DEF ProcInv, Allowed, ListsKnown, WroteWhatWasAsked,
       tables, account, Before
  <2> QED BY <1>1, <2>3, <2>4, <2>5, <2>6, QuietStep DEF ProcInv
<1>10. CASE o = "listEvents"
  <2>1. ReplyWith(p, events)
    BY <1>10 DEF Read
  <2>2. events \subseteq Event
    BY DEF RInv, RegistryTypeOK
  <2>3. /\ StepOf(p) /\ step'[p] = "replied" /\ result'[p] = 200
        /\ answer'[p] = events /\ req' = req /\ wrote' = wrote
    BY <2>1, <2>2, RepliesWith DEF RInv, Row
  <2>4. OnItsWay(p)' /\ NothingYet(p)'
    BY <1>1, <1>2, <1>10, <2>3 DEF ProcInv, OnItsWay, NothingYet, Before, AssignSteps
  <2>5. Documented(p)'
    <3>1. Route[req'[p].op].statuses = Route[req[p].op].statuses
      BY <2>3
    <3> QED BY <1>3, <2>3, <3>1 DEF Documented
  <2>6. answer'[p] \cap Person = {}
    BY <2>2, <2>3, RegistryAssumption
  <2>7. Allowed(p)' /\ ListsKnown(p)' /\ WroteWhatWasAsked(p)'
    BY <1>1, <1>10, <2>2, <2>3, <2>6 DEF ProcInv, Allowed, ListsKnown,
       WroteWhatWasAsked, tables, account, Before
  <2> QED BY <1>1, <2>3, <2>4, <2>5, <2>7, QuietStep DEF ProcInv
<1>7. CASE o = "getEvent"
  BY <1>4, <1>7 DEF Read
<1>8. CASE o = "getAssignment"
  BY <1>4, <1>8 DEF Read
<1>9. CASE o \notin {"listPersons", "listEvents", "listAssignments", "getEvent",
                     "getAssignment"}
  BY <1>4, <1>9 DEF Read
<1> QED BY <1>5, <1>6, <1>7, <1>8, <1>9, <1>10

LEMMA ReadRolesKeeps ==
  ASSUME RInv, NEW p \in Proc, ReadRoles(p)
  PROVE  RInv'
<1> DEFINE rows == answer[p] \cup {m \in members : m[1] \in answer[p]}
<1>1. /\ step[p] = "readRoles" /\ ProcInv(p) /\ ReplyWith(p, rows)
      /\ UNCHANGED <<tables, account, history>>
  BY DEF ReadRoles, RInv
<1>2. /\ req[p].op = "listPersons" /\ answer[p] \subseteq Person
      /\ answer[p] \cap Person \subseteq used
  BY <1>1 DEF ProcInv, OnItsWay, ListsKnown
<1>3. members \subseteq Person \X Role /\ persons \subseteq Person
  BY DEF RInv, RegistryTypeOK
<1>4. /\ StepOf(p) /\ step'[p] = "replied" /\ result'[p] = 200
      /\ answer'[p] = rows /\ req' = req /\ wrote' = wrote
  <2>1. rows \in SUBSET Row
    BY <1>2, <1>3 DEF Row
  <2> QED BY <1>1, <2>1, RepliesWith DEF RInv
<1>5. OnItsWay(p)' /\ NothingYet(p)' /\ Allowed(p)' /\ WroteWhatWasAsked(p)'
  BY <1>1, <1>2, <1>4 DEF ProcInv, OnItsWay, NothingYet, Allowed, Before,
     WroteWhatWasAsked, AssignSteps, tables, account
<1>6. Documented(p)'
  BY <1>2, <1>4, Statuses DEF Documented
<1>7. ListsKnown(p)'
  <2>1. rows \cap Person = answer[p]
    BY <1>2, <1>3, RegistryAssumption
  <2>2. ASSUME NEW i \in rows \cap persons PROVE {i} \X asked[i] \subseteq rows
    <3>1. i \in answer[p]
      BY <1>3, <2>1
    <3>2. {m[2] : m \in {n \in members : n[1] = i}} = asked[i]
      BY DEF RInv, TableInv, RolesAllOrNothing
    <3>3. ASSUME NEW c \in asked[i] PROVE <<i, c>> \in rows
      <4>1. PICK m \in members : m[1] = i /\ m[2] = c
        BY <3>2, <3>3
      <4>2. m = <<i, c>>
        BY <1>3, <4>1
      <4> QED BY <3>1, <4>1, <4>2
    <3> QED BY <3>3
  <2>3. rows \cap Person \subseteq used
    BY <1>2, <2>1
  <2> QED BY <1>1, <1>2, <1>4, <2>2, <2>3 DEF ListsKnown, Before, tables, history
<1> QED BY <1>1, <1>4, <1>5, <1>6, <1>7, QuietStep DEF ProcInv

LEMMA LookupKeeps ==
  ASSUME RInv, NEW p \in Proc, Lookup(p)
  PROVE  RInv'
<1>1. /\ step[p] = "lookup" /\ ProcInv(p)
      /\ UNCHANGED <<tables, account, history>>
  BY DEF Lookup, RInv
<1>2. /\ req[p].op = "createPerson" /\ wrote[p] = NoId
      /\ Route[req[p].op].needs \in rights
  BY <1>1 DEF ProcInv, OnItsWay, NothingYet, Before, Allowed
<1>3. CASE Reply(p, 422)
  BY <1>1, <1>2, <1>3, Statuses, QuietEnd DEF Status
<1>4. ASSUME req[p].codes \subseteq codes \cap Role, Goto(p, "insertPerson")
      PROVE  RInv'
  <2>1. step'[p] = "insertPerson" /\ req' = req
    BY <1>4, Goes DEF RInv, Step
  <2>2. OnItsWay(p)'
    BY <1>1, <1>2, <1>4, <2>1 DEF ProcInv, OnItsWay, AssignSteps
  <2> QED BY <1>1, <1>2, <1>4, <2>2, QuietGo DEF Before
<1> QED BY <1>3, <1>4 DEF Lookup

LEMMA GetEventKeeps ==
  ASSUME RInv, NEW p \in Proc, GetEvent(p)
  PROVE  RInv'
<1>1. /\ step[p] = "getEvent" /\ ProcInv(p)
      /\ UNCHANGED <<tables, account, history>>
  BY DEF GetEvent, RInv
<1>2. /\ req[p].op = "createAssignment" /\ wrote[p] = NoId
      /\ Route[req[p].op].needs \in rights
  BY <1>1 DEF ProcInv, OnItsWay, NothingYet, Before, Allowed, AssignSteps
<1>3. CASE Reply(p, 404)
  BY <1>1, <1>2, <1>3, Statuses, QuietEnd DEF Status
<1>4. CASE Goto(p, "getPerson")
  <2>1. step'[p] = "getPerson" /\ req' = req
    BY <1>4, Goes DEF RInv, Step
  <2>2. OnItsWay(p)'
    BY <1>1, <1>2, <2>1 DEF ProcInv, OnItsWay, AssignSteps
  <2> QED BY <1>1, <1>2, <1>4, <2>2, QuietGo DEF Before
<1> QED BY <1>3, <1>4 DEF GetEvent

LEMMA GetPersonKeeps ==
  ASSUME RInv, NEW p \in Proc, GetPerson(p)
  PROVE  RInv'
<1>1. /\ step[p] = "getPerson" /\ ProcInv(p)
      /\ UNCHANGED <<tables, account, history>>
  BY DEF GetPerson, RInv
<1>2. /\ req[p].op = "createAssignment" /\ wrote[p] = NoId
      /\ Route[req[p].op].needs \in rights
  BY <1>1 DEF ProcInv, OnItsWay, NothingYet, Before, Allowed, AssignSteps
<1>3. CASE Reply(p, 404)
  BY <1>1, <1>2, <1>3, Statuses, QuietEnd DEF Status
<1>4. CASE Goto(p, "getResponsibility")
  <2>1. step'[p] = "getResponsibility" /\ req' = req
    BY <1>4, Goes DEF RInv, Step
  <2>2. OnItsWay(p)'
    BY <1>1, <1>2, <2>1 DEF ProcInv, OnItsWay, AssignSteps
  <2> QED BY <1>1, <1>2, <1>4, <2>2, QuietGo DEF Before
<1> QED BY <1>3, <1>4 DEF GetPerson

LEMMA GetResponsibilityKeeps ==
  ASSUME RInv, NEW p \in Proc, GetResponsibility(p)
  PROVE  RInv'
<1>1. /\ step[p] = "getResponsibility" /\ ProcInv(p)
      /\ UNCHANGED <<tables, account, history>>
  BY DEF GetResponsibility, RInv
<1>2. /\ req[p].op = "createAssignment" /\ wrote[p] = NoId
      /\ Route[req[p].op].needs \in rights
  BY <1>1 DEF ProcInv, OnItsWay, NothingYet, Before, Allowed, AssignSteps
<1>3. CASE Reply(p, 422)
  BY <1>1, <1>2, <1>3, Statuses, QuietEnd DEF Status
<1>4. ASSUME req[p].codes \subseteq codes \cap Responsibility,
             Goto(p, "insertAssignment")
      PROVE  RInv'
  <2>1. step'[p] = "insertAssignment" /\ req' = req
    BY <1>4, Goes DEF RInv, Step
  <2>2. OnItsWay(p)'
    BY <1>1, <1>2, <1>4, <2>1 DEF ProcInv, OnItsWay, AssignSteps
  <2> QED BY <1>1, <1>2, <1>4, <2>2, QuietGo DEF Before
<1> QED BY <1>3, <1>4 DEF GetResponsibility

LEMMA ReselectKeeps ==
  ASSUME RInv, NEW p \in Proc, Reselect(p)
  PROVE  RInv'
<1>1. /\ step[p] = "reselect" /\ ProcInv(p)
      /\ UNCHANGED <<tables, account, history>>
  BY DEF Reselect, RInv
<1>2. CASE Reply(p, 500)
  BY <1>1, <1>2, QuietEnd DEF Status
<1>3. CASE Created(p) /\ UNCHANGED wrote
  <2>1. req[p].op = "createAssignment" /\ wrote[p] \in Assignment
    BY <1>1 DEF ProcInv, OnItsWay, AssignSteps, WroteWhatWasAsked
  <2>2. wrote' = [wrote EXCEPT ![p] = wrote[p]]
    BY <1>3 DEF RInv, RegistryTypeOK
  <2>3. /\ StepOf(p) /\ step'[p] = "replied" /\ result'[p] = 201
        /\ wrote'[p] = wrote[p] /\ req' = req /\ answer' = answer
    BY <1>3, <2>1, <2>2, Creates DEF RInv
  <2>4. OnItsWay(p)' /\ NothingYet(p)' /\ Allowed(p)' /\ ListsKnown(p)'
    BY <1>1, <2>1, <2>3 DEF ProcInv, OnItsWay, NothingYet, Allowed, ListsKnown,
       Before, AssignSteps, tables, account
  <2>5. Documented(p)'
    BY <2>1, <2>3, Statuses DEF Documented
  <2>6. WroteWhatWasAsked(p)'
    BY <1>1, <2>1, <2>3, RegistryAssumption DEF ProcInv, WroteWhatWasAsked, tables
  <2> QED BY <1>1, <2>3, <2>4, <2>5, <2>6, QuietStep DEF ProcInv
<1> QED BY <1>2, <1>3 DEF Reselect

LEMMA DieKeeps ==
  ASSUME RInv, NEW p \in Proc, Die(p)
  PROVE  RInv'
  BY QuietEnd DEF Die, Status

LEMMA WriteStep ==
  ASSUME RInv, NEW p \in Proc, StepOf(p), TablesKeep,
         ProcInv(p)', RegistryTypeOK', TableInv'
  PROVE  RInv'
  BY OthersKeep DEF StepOf, RInv

LEMMA InsertPersonKeeps ==
  ASSUME RInv, NEW p \in Proc, InsertPerson(p)
  PROVE  RInv'
<1>1. step[p] = "insertPerson" /\ ProcInv(p)
  BY DEF InsertPerson, RInv
<1>2. /\ req[p].op = "createPerson" /\ wrote[p] = NoId /\ result[p] = 0
      /\ Route[req[p].op].needs \in rights /\ req[p].codes \subseteq Role
  BY <1>1 DEF ProcInv, OnItsWay, NothingYet, Before, Allowed
<1>3. RegistryTypeOK /\ TableInv
  BY DEF RInv
<1>4. CASE Reply(p, 500) /\ UNCHANGED <<persons, members, used, asked>>
  <2>1. UNCHANGED <<tables, account, history>>
    BY <1>4 DEF InsertPerson, tables, account, history
  <2> QED BY <1>1, <1>4, <2>1, QuietEnd DEF Status
<1>5. ASSUME NEW i \in Person, Commit(p, i), Created(p),
             req[p].codes \subseteq codes,
             persons' = persons \cup {i},
             members' = members \cup ({i} \X req[p].codes),
             asked' = [asked EXCEPT ![i] = req[p].codes]
      PROVE  RInv'
  <2>1. /\ i \notin used /\ used' = used \cup {i}
        /\ wrote' = [wrote EXCEPT ![p] = i]
        /\ UNCHANGED <<events, assignments, codes, triple, account, by>>
    BY <1>5 DEF Commit, InsertPerson
  <2>2. /\ StepOf(p) /\ step'[p] = "replied" /\ result'[p] = 201
        /\ wrote'[p] = i /\ req' = req /\ answer' = answer
    BY <1>3, <1>5, <2>1, Creates
  <2>3. TablesKeep
    BY <1>3, <1>5, <2>1 DEF TablesKeep, RegistryTypeOK, account
  <2>4. RegistryTypeOK'
    BY <1>2, <1>3, <1>5, <2>1, <2>2 DEF RegistryTypeOK, StepOf, RequestsTyped,
       Status, account
  <2>5. TableInv'
    <3>1. i \notin persons
      BY <1>3, <2>1 DEF TableInv, RowsAreUsed
    <3>2. NoDangling' /\ RowsAreUsed'
      BY <1>3, <1>5, <2>1 DEF TableInv, NoDangling, RowsAreUsed
    <3>3. ASSUME NEW j \in persons'
          PROVE  {m[2] : m \in {n \in members' : n[1] = j}} = asked'[j]
      <4>1. CASE j = i
        <5>1. \A m \in members : m[1] # i
          BY <1>3, <3>1 DEF TableInv, NoDangling
        <5>2. {m[2] : m \in {n \in members' : n[1] = i}} = req[p].codes
          <6>1. {n \in members' : n[1] = i} = {i} \X req[p].codes
            BY <1>5, <5>1
          <6>2. \A c \in req[p].codes : <<i, c>>[2] = c /\ <<i, c>> \in {i} \X req[p].codes
            OBVIOUS
          <6>3. \A m \in {i} \X req[p].codes : m[2] \in req[p].codes
            OBVIOUS
          <6>4. {m[2] : m \in {i} \X req[p].codes} = req[p].codes
            <7>1. ASSUME NEW c \in req[p].codes
                  PROVE  c \in {m[2] : m \in {i} \X req[p].codes}
              BY <6>2
            <7> QED BY <6>3, <7>1
          <6> QED BY <6>1, <6>4
        <5>3. asked'[i] = req[p].codes
          BY <1>3, <1>5 DEF RegistryTypeOK
        <5> QED BY <4>1, <5>2, <5>3
      <4>2. CASE j # i
        <5>1. j \in persons /\ asked'[j] = asked[j]
          BY <1>3, <1>5, <4>2 DEF RegistryTypeOK
        <5>2. {n \in members' : n[1] = j} = {n \in members : n[1] = j}
          BY <1>5, <4>2
        <5> QED BY <1>3, <5>1, <5>2 DEF TableInv, RolesAllOrNothing
      <4> QED BY <4>1, <4>2
    <3> QED BY <3>2, <3>3 DEF TableInv, RolesAllOrNothing
  <2>6. ProcInv(p)'
    <3>1. OnItsWay(p)' /\ NothingYet(p)'
      BY <1>1, <1>2, <2>2 DEF ProcInv, OnItsWay, NothingYet, Before, AssignSteps
    <3>2. Documented(p)'
      BY <1>2, <2>2, Statuses DEF Documented
    <3>3. Allowed(p)'
      BY <1>2, <2>1, <2>2, Needs, RegistryAssumption DEF Allowed, account
    <3>4. ListsKnown(p)'
      BY <1>1, <1>2, <2>1, <2>2 DEF ProcInv, ListsKnown, Before
    <3>5. WroteWhatWasAsked(p)'
      BY <1>2, <2>1, <2>2 DEF WroteWhatWasAsked
    <3> QED BY <3>1, <3>2, <3>3, <3>4, <3>5 DEF ProcInv
  <2> QED BY <2>2, <2>3, <2>4, <2>5, <2>6, WriteStep
<1> QED BY <1>4, <1>5 DEF InsertPerson

LEMMA InsertEventKeeps ==
  ASSUME RInv, NEW p \in Proc, InsertEvent(p)
  PROVE  RInv'
<1>1. step[p] = "insertEvent" /\ ProcInv(p) /\ RegistryTypeOK /\ TableInv
  BY DEF InsertEvent, RInv
<1>2. /\ req[p].op = "createEvent" /\ Route[req[p].op].needs \in rights
  BY <1>1 DEF ProcInv, OnItsWay, Allowed
<1>3. PICK e \in Event : /\ Commit(p, e) /\ Created(p)
                         /\ events' = events \cup {e}
  BY DEF InsertEvent
<1>4. /\ e \notin used /\ used' = used \cup {e}
      /\ wrote' = [wrote EXCEPT ![p] = e]
      /\ UNCHANGED <<persons, assignments, codes, members, triple, account, history>>
  BY <1>3 DEF Commit, InsertEvent
<1>5. /\ StepOf(p) /\ step'[p] = "replied" /\ result'[p] = 201
      /\ wrote'[p] = e /\ req' = req /\ answer' = answer
  BY <1>1, <1>3, <1>4, Creates
<1>6. TablesKeep
  BY <1>1, <1>4 DEF TablesKeep, RegistryTypeOK, account, history
<1>7. RegistryTypeOK'
  BY <1>1, <1>3, <1>4, <1>5 DEF RegistryTypeOK, StepOf, RequestsTyped,
     Status, account, history
<1>8. TableInv'
  BY <1>1, <1>3, <1>4 DEF TableInv, NoDangling, RolesAllOrNothing, RowsAreUsed,
     history
<1>9. ProcInv(p)'
  <2>1. OnItsWay(p)' /\ NothingYet(p)'
    BY <1>1, <1>2, <1>5 DEF ProcInv, OnItsWay, NothingYet, Before, AssignSteps
  <2>2. Documented(p)'
    BY <1>2, <1>5, Statuses DEF Documented
  <2>3. Allowed(p)'
    BY <1>2, <1>4, <1>5, Needs, RegistryAssumption DEF Allowed, account
  <2>4. ListsKnown(p)' /\ WroteWhatWasAsked(p)'
    BY <1>1, <1>2, <1>4, <1>5 DEF ProcInv, ListsKnown, WroteWhatWasAsked, Before
  <2> QED BY <2>1, <2>2, <2>3, <2>4 DEF ProcInv
<1> QED BY <1>5, <1>6, <1>7, <1>8, <1>9, WriteStep

LEMMA InsertAssignmentKeeps ==
  ASSUME RInv, NEW p \in Proc, InsertAssignment(p)
  PROVE  RInv'
<1>1. step[p] = "insertAssignment" /\ ProcInv(p) /\ RegistryTypeOK /\ TableInv
  BY DEF InsertAssignment, RInv
<1>2. /\ req[p].op = "createAssignment" /\ Route[req[p].op].needs \in rights
      /\ req[p].codes \subseteq Responsibility /\ req[p].codes # {}
      /\ result[p] = 0
  BY <1>1 DEF ProcInv, OnItsWay, Allowed, AssignSteps, NothingYet
<1>3. CASE Reply(p, 500) /\ UNCHANGED <<assignments, triple, used, by>>
  <2>1. UNCHANGED <<tables, account, history>>
    BY <1>3 DEF InsertAssignment, tables, account, history
  <2> QED BY <1>1, <1>3, <2>1, QuietEnd DEF Status
<1>4. ASSUME req[p].event \in events, req[p].person \in persons,
             req[p].codes \subseteq codes, NEW x \in Assignment, Assign(p, x)
      PROVE  RInv'
  <2> DEFINE t == Wanted(req[p])
  <2>1. /\ x \notin used /\ used' = used \cup {x}
        /\ wrote' = [wrote EXCEPT ![p] = x]
        /\ assignments' = assignments \cup {x}
        /\ triple' = [triple EXCEPT ![x] = t]
        /\ by' = [by EXCEPT ![x] = req[p].form]
        /\ step' = [step EXCEPT ![p] = "reselect"]
        /\ UNCHANGED <<req, result, answer, starts>>
        /\ UNCHANGED <<persons, events, codes, members, account, asked>>
    BY <1>4 DEF Assign, Commit, InsertAssignment
  <2>2. t.event \in events /\ t.person \in persons /\ t.responsibility \in codes
    BY <1>2, <1>4, WantedIsOneOf
  <2>3. t \in Triple
    <3>1. t.event \in Event /\ t.person \in Person /\ t.responsibility \in Responsibility
      BY <1>1, <1>2, <2>2, WantedIsOneOf DEF RegistryTypeOK
    <3> HIDE DEF t
    <3>2. t = [event |-> t.event, person |-> t.person,
               responsibility |-> t.responsibility]
      BY <1>2, WantedIsOneOf DEF t
    <3> QED BY <3>1, <3>2 DEF Triple
  <2> HIDE DEF t
  <2>4. /\ StepOf(p) /\ step'[p] = "reselect" /\ result'[p] = 0
        /\ wrote'[p] = x /\ req' = req /\ answer' = answer /\ triple'[x] = t
    BY <1>1, <1>2, <2>1 DEF RegistryTypeOK, StepOf, RequestsTyped, Status, Kept, Step
  <2>5. TablesKeep
    BY <1>1, <2>1 DEF TablesKeep, RegistryTypeOK, account
  <2>6. RegistryTypeOK'
    <3>1. req[p].form \in Form \cup {NoForm}
      BY <1>1 DEF RegistryTypeOK, Request
    <3> QED BY <1>1, <2>1, <2>3, <2>4, <3>1 DEF RegistryTypeOK, StepOf,
               RequestsTyped, Status, account
  <2>7. TableInv'
    <3>1. x \notin assignments
      BY <1>1, <2>1 DEF TableInv, RowsAreUsed
    <3>2. NoDangling'
      BY <1>1, <2>1, <2>2, <3>1 DEF TableInv, NoDangling, RegistryTypeOK
    <3> QED BY <1>1, <2>1, <3>2 DEF TableInv, RolesAllOrNothing, RowsAreUsed
  <2>8. ProcInv(p)'
    <3>1. OnItsWay(p)' /\ NothingYet(p)' /\ Documented(p)'
      BY <1>1, <1>2, <2>4 DEF ProcInv, OnItsWay, NothingYet, Documented, Before,
         AssignSteps
    <3>2. Allowed(p)'
      BY <1>2, <2>1, <2>4, Needs, RegistryAssumption DEF Allowed, account
    <3>3. ListsKnown(p)'
      BY <1>1, <1>2, <2>1, <2>4 DEF ProcInv, ListsKnown, Before
    <3>4. WroteWhatWasAsked(p)'
      BY <2>1, <2>4 DEF WroteWhatWasAsked, t
    <3> QED BY <3>1, <3>2, <3>3, <3>4 DEF ProcInv
  <2> QED BY <2>4, <2>5, <2>6, <2>7, <2>8, WriteStep
<1> QED BY <1>3, <1>4 DEF InsertAssignment

LEMMA OperateKeeps ==
  ASSUME RInv, Operate
  PROVE  RInv'
<1>1. RegistryTypeOK /\ TableInv /\ MaxActs \in Nat
  BY RegistryAssumption DEF RInv
<1>2. UNCHANGED <<requests, history, triple, used>>
  BY DEF Operate, DeleteEvent, DeletePerson, DeleteCode, Promote, Disable, tables
<1>3. ASSUME NEW q \in Proc PROVE Kept(q)
  BY <1>2 DEF Kept, requests
<1>4. acts' \in 0..MaxActs
  BY <1>1 DEF Operate, DeleteEvent, DeletePerson, DeleteCode, Promote, Disable, Act,
     RegistryTypeOK
<1> DEFINE Shrinks ==
             /\ persons' \subseteq persons /\ events' \subseteq events
             /\ assignments' \subseteq assignments /\ codes' \subseteq codes
             /\ members' \subseteq members /\ rights \subseteq rights'
             /\ rights' \subseteq Permission /\ live' \in BOOLEAN
<1>5. Shrinks
  <2>1. ASSUME NEW e \in Event, DeleteEvent(e) PROVE Shrinks
    BY <1>1, <2>1 DEF DeleteEvent, RegistryTypeOK
  <2>2. ASSUME NEW i \in Person, DeletePerson(i) PROVE Shrinks
    BY <1>1, <2>2 DEF DeletePerson, RegistryTypeOK
  <2>3. ASSUME NEW c \in Role \cup Responsibility, DeleteCode(c) PROVE Shrinks
    BY <1>1, <2>3 DEF DeleteCode, RegistryTypeOK
  <2>4. ASSUME Promote PROVE Shrinks
    <3>1. \A r \in RoleCode : Holds[r] \subseteq Permission
      BY DEF RoleCode, Holds, Permission
    <3> QED BY <1>1, <2>4, <3>1 DEF Promote, RegistryTypeOK, tables
  <2>5. ASSUME Disable PROVE Shrinks
    BY <1>1, <2>5 DEF Disable, RegistryTypeOK, tables
  <2> QED BY <2>1, <2>2, <2>3, <2>4, <2>5 DEF Operate
<1>6. TablesKeep
  BY <1>1, <1>2, <1>5 DEF TablesKeep, history, RegistryTypeOK
<1>7. RegistryTypeOK'
  BY <1>1, <1>2, <1>4, <1>5 DEF RegistryTypeOK, requests, history
<1> DEFINE Whole == NoDangling' /\ RolesAllOrNothing'
<1>8. Whole
  <2> USE <1>1, <1>2 DEF TableInv, NoDangling, RolesAllOrNothing, history
  <2>1. ASSUME NEW e \in Event, DeleteEvent(e) PROVE Whole
    BY <2>1 DEF DeleteEvent
  <2>2. ASSUME NEW i \in Person, DeletePerson(i) PROVE Whole
    <3>1. NoDangling'
      BY <2>2 DEF DeletePerson
    <3>2. ASSUME NEW j \in persons'
          PROVE  {m[2] : m \in {n \in members' : n[1] = j}} = asked'[j]
      <4>1. j # i /\ j \in persons
        BY <2>2, <3>2 DEF DeletePerson
      <4>2. {n \in members' : n[1] = j} = {n \in members : n[1] = j}
        BY <2>2, <4>1 DEF DeletePerson
      <4> QED BY <4>1, <4>2
    <3> QED BY <3>1, <3>2
  <2>3. ASSUME NEW c \in Role \cup Responsibility, DeleteCode(c) PROVE Whole
    BY <2>3 DEF DeleteCode
  <2>4. CASE UNCHANGED tables
    BY <2>4 DEF tables
  <2> QED BY <2>1, <2>2, <2>3, <2>4 DEF Operate, Promote, Disable
<1>9. RowsAreUsed'
  BY <1>1, <1>2, <1>5 DEF TableInv, RowsAreUsed
<1>10. \A q \in Proc : ProcInv(q)'
  BY <1>3, <1>6, OthersKeep
<1> QED BY <1>7, <1>8, <1>9, <1>10 DEF RInv, TableInv

-----------------------------------------------------------------------------
(* What a step leaves of a request that a screen waits for ...             *)
Serves(q) ==
  /\ req'[q] = req[q]
  /\ step[q] # "idle" => step'[q] # "idle"
  /\ wrote[q] # NoId => wrote'[q] = wrote[q]
  /\ req[q].op = "listAssignments" /\ step'[q] = "replied" /\ result'[q] = 200 =>
       \/ step[q] = "replied" /\ result[q] = 200 /\ answer'[q] = answer[q]
       \/ answer'[q] = assignments

(* ... and of the rows it knows.                                           *)
RowsKeep ==
  /\ used \subseteq used' /\ assignments' \cap used \subseteq assignments
  /\ \A x \in used \cap Assignment : triple'[x] = triple[x]

(* A step of the API or of an operator that adds no assignment.            *)
NoNewRow ==
  /\ UNCHANGED <<triple, by, req>> /\ used \subseteq used'
  /\ assignments' \subseteq assignments
  /\ \A q \in Proc : Serves(q)

LEMMA KeptServes ==
  ASSUME NEW q \in Proc, Kept(q)
  PROVE  Serves(q)
  BY DEF Kept, Serves

LEMMA OperateAddsNoRow ==
  ASSUME RInv, Operate
  PROVE  NoNewRow
<1>1. UNCHANGED <<requests, history, triple, used>> /\ assignments' \subseteq assignments
  BY DEF Operate, DeleteEvent, DeletePerson, DeleteCode, Promote, Disable, tables
<1>2. ASSUME NEW q \in Proc PROVE Serves(q)
  BY <1>1, KeptServes DEF Kept, requests
<1> QED BY <1>1, <1>2 DEF NoNewRow, requests, history

LEMMA ServeAddsNoRow ==
  ASSUME RInv, NEW p \in Proc, Serve(p),
         ~ \E x \in Assignment : Assign(p, x)
  PROVE  NoNewRow
<1>1. RegistryTypeOK /\ ProcInv(p)
  BY DEF RInv
<1> DEFINE Quietly == UNCHANGED <<triple, by, assignments>> /\ used \subseteq used'
           Silently == StepOf(p) /\ req' = req /\ wrote' = wrote
<1>2. ASSUME NEW s \in Status \ {200}, Reply(p, s), Quietly PROVE NoNewRow
  <2>1. /\ StepOf(p) /\ step'[p] = "replied" /\ result'[p] = s
        /\ req' = req /\ wrote' = wrote
    BY <1>1, <1>2, Replies
  <2> QED BY <1>2, <2>1, KeptServes DEF NoNewRow, StepOf, Serves
<1>3. ASSUME NEW s \in Status, Reply(p, s), Quietly,
             req[p].op # "listAssignments"
      PROVE  NoNewRow
  <2>1. StepOf(p) /\ step'[p] = "replied" /\ req' = req /\ wrote' = wrote
    BY <1>1, <1>3, Replies
  <2> QED BY <1>3, <2>1, KeptServes DEF NoNewRow, StepOf, Serves
<1>4. ASSUME NEW n \in Step \ {"idle", "replied"}, Goto(p, n), Quietly PROVE NoNewRow
  <2>1. StepOf(p) /\ step'[p] = n /\ req' = req /\ wrote' = wrote
    BY <1>1, <1>4, Goes
  <2> QED BY <1>4, <2>1, KeptServes DEF NoNewRow, StepOf, Serves
<1>5. ASSUME NEW i \in Person \cup Event, Created(p), Commit(p, i),
             UNCHANGED <<triple, by, assignments>>, wrote[p] = NoId
      PROVE  NoNewRow
  <2>1. wrote' = [wrote EXCEPT ![p] = i] /\ used \subseteq used'
    BY <1>5 DEF Commit
  <2>2. StepOf(p) /\ step'[p] = "replied" /\ result'[p] = 201 /\ req' = req
    BY <1>1, <1>5, <2>1, Creates
  <2> QED BY <1>5, <2>1, <2>2, KeptServes DEF NoNewRow, StepOf, Serves
<1>6. CASE Access(p)
  <2>1. req[p].op \in Op
    BY <1>1, <1>6 DEF Access, ProcInv, OnItsWay
  <2>2. Route[req[p].op].first \in Step \ {"idle", "replied"}
    BY <2>1, Ops, Firsts DEF Step
  <2> QED BY <1>2, <1>4, <1>6, <2>2 DEF Access, tables, history, Status
<1>7. CASE Read(p)
  <2>0. Quietly
    BY <1>7 DEF Read, tables, history
  <2>1. CASE req[p].op = "listPersons"
    <3>1. /\ step' = [step EXCEPT ![p] = "readRoles"]
          /\ answer' = [answer EXCEPT ![p] = persons]
          /\ UNCHANGED <<req, result, wrote, starts>>
      BY <1>7, <2>1 DEF Read
    <3>2. ASSUME NEW q \in Proc PROVE Serves(q)
      BY <1>1, <2>1, <3>1 DEF Serves, RegistryTypeOK
    <3> QED BY <2>0, <3>1, <3>2 DEF NoNewRow
  <2>2. CASE req[p].op = "listAssignments"
    <3>1. ReplyWith(p, assignments)
      BY <1>7, <2>2 DEF Read
    <3>2. /\ StepOf(p) /\ step'[p] = "replied" /\ answer'[p] = assignments
          /\ req' = req /\ wrote' = wrote
      BY <1>1, <3>1, RepliesWith DEF RegistryTypeOK, Row
    <3> QED BY <2>0, <3>2, KeptServes DEF NoNewRow, StepOf, Serves
  <2>6. CASE req[p].op = "listEvents"
    <3>1. ReplyWith(p, events)
      BY <1>7, <2>6 DEF Read
    <3>2. StepOf(p) /\ step'[p] = "replied" /\ req' = req /\ wrote' = wrote
      BY <1>1, <3>1, RepliesWith DEF RegistryTypeOK, Row
    <3> QED BY <2>0, <2>6, <3>2, KeptServes DEF NoNewRow, StepOf, Serves
  <2>3. CASE req[p].op = "getEvent"
    BY <1>3, <1>7, <2>0, <2>3 DEF Read, Status
  <2>4. CASE req[p].op = "getAssignment"
    BY <1>3, <1>7, <2>0, <2>4 DEF Read, Status
  <2>5. CASE req[p].op \notin {"listPersons", "listEvents", "listAssignments",
                               "getEvent", "getAssignment"}
    BY <1>3, <1>7, <2>0, <2>5 DEF Read, Status
  <2> QED BY <2>1, <2>2, <2>3, <2>4, <2>5, <2>6
<1>8. CASE ReadRoles(p)
  <2> DEFINE rows == answer[p] \cup {m \in members : m[1] \in answer[p]}
  <2>1. rows \in SUBSET Row
    BY <1>1 DEF RegistryTypeOK, Row
  <2>2. /\ StepOf(p) /\ req' = req /\ wrote' = wrote /\ step'[p] = "replied"
    BY <1>1, <1>8, <2>1, RepliesWith DEF ReadRoles
  <2>3. req[p].op = "listPersons"
    BY <1>1, <1>8 DEF ReadRoles, ProcInv, OnItsWay
  <2> QED BY <1>8, <2>2, <2>3, KeptServes DEF ReadRoles, NoNewRow, StepOf, Serves,
             tables, history
<1>9. CASE Lookup(p)
  BY <1>2, <1>4, <1>9 DEF Lookup, tables, history, Status, Step
<1>10. CASE GetEvent(p)
  BY <1>2, <1>4, <1>10 DEF GetEvent, tables, history, Status, Step
<1>11. CASE GetPerson(p)
  BY <1>2, <1>4, <1>11 DEF GetPerson, tables, history, Status, Step
<1>12. CASE GetResponsibility(p)
  BY <1>2, <1>4, <1>12 DEF GetResponsibility, tables, history, Status, Step
<1>13. CASE InsertPerson(p)
  <2>1. wrote[p] = NoId
    BY <1>1, <1>13 DEF InsertPerson, ProcInv, NothingYet, Before
  <2> QED BY <1>2, <1>5, <1>13, <2>1 DEF InsertPerson, Status
<1>14. CASE InsertEvent(p)
  <2>1. wrote[p] = NoId
    BY <1>1, <1>14 DEF InsertEvent, ProcInv, NothingYet, Before
  <2> QED BY <1>5, <1>14, <2>1 DEF InsertEvent, history
<1>15. CASE InsertAssignment(p)
  BY <1>2, <1>15 DEF InsertAssignment, Status
<1>16. CASE Reselect(p)
  <2>1. CASE Reply(p, 500)
    BY <1>2, <1>16, <2>1 DEF Reselect, tables, history, Status
  <2>2. CASE Created(p) /\ UNCHANGED wrote
    <3>1. StepOf(p) /\ step'[p] = "replied" /\ result'[p] = 201 /\ req' = req
      BY <1>1, <2>2 DEF Created, RegistryTypeOK, StepOf, RequestsTyped, Status, Kept, Step
    <3>2. ASSUME NEW q \in Proc PROVE Serves(q)
      BY <2>2, <3>1, KeptServes DEF StepOf, Serves
    <3> QED BY <1>16, <3>1, <3>2 DEF Reselect, NoNewRow, tables, history
  <2> QED BY <1>16, <2>1, <2>2 DEF Reselect
<1>17. CASE Die(p)
  BY <1>2, <1>17 DEF Die, tables, history, Status
<1> QED BY <1>6, <1>7, <1>8, <1>9, <1>10, <1>11, <1>12, <1>13, <1>14, <1>15,
           <1>16, <1>17 DEF Serve

-----------------------------------------------------------------------------
(* The API as a whole. *)

LEMMA ServeKeeps ==
  ASSUME RInv, NEW p \in Proc, Serve(p)
  PROVE  RInv'
  BY AccessKeeps, ReadKeeps, ReadRolesKeeps, LookupKeeps, InsertPersonKeeps,
     InsertEventKeeps, GetEventKeeps, GetPersonKeeps, GetResponsibilityKeeps,
     InsertAssignmentKeeps, ReselectKeeps, DieKeeps
  DEF Serve

(* The only statement that adds an assignment.                             *)
LEMMA AssignIsInsert ==
  ASSUME RInv, NEW p \in Proc, Serve(p), NEW x \in Assignment, Assign(p, x)
  PROVE  step[p] = "insertAssignment" /\ InsertAssignment(p)
<1>1. step'[p] = "reselect" /\ RegistryTypeOK /\ ProcInv(p) /\ x \notin used
      /\ used' = used \cup {x}
  BY DEF Assign, Commit, RInv, RegistryTypeOK
<1>2. used' # used
  BY <1>1
<1>3. InsertPerson(p) \/ InsertEvent(p) \/ InsertAssignment(p)
  BY <1>2 DEF Serve, Access, Read, ReadRoles, Lookup, GetEvent,
     GetPerson, GetResponsibility, Reselect, Die, tables
<1>4. ~InsertPerson(p) /\ ~InsertEvent(p)
  BY <1>1 DEF InsertPerson, InsertEvent, Created, Reply, RegistryTypeOK
<1> QED BY <1>3, <1>4 DEF InsertAssignment

LEMMA RegistryStarts == RegistryInit => RInv
<1> SUFFICES ASSUME RegistryInit PROVE RInv
  OBVIOUS
<1> USE DEF RegistryInit
<1>1. NoRequest \in Request /\ NoRequest.op = "none" /\ NoRequest.valid = TRUE
  BY DEF NoRequest, Request
<1>2. RegistryTypeOK
  <2>1. \A r \in RoleCode : Holds[r] \subseteq Permission
    BY DEF Holds, RoleCode
  <2> QED BY <1>1, <2>1, RegistryAssumption DEF RegistryTypeOK, Step
<1>3. TableInv
  <2>1. \A i \in persons : {m[2] : m \in {n \in members : n[1] = i}} = asked[i]
    BY RegistryAssumption
  <2> QED BY <2>1 DEF TableInv, NoDangling, RolesAllOrNothing, RowsAreUsed
<1>4. ASSUME NEW p \in Proc PROVE ProcInv(p)
  <2>1. OnItsWay(p)
    BY <1>1 DEF OnItsWay, AssignSteps
  <2>2. NothingYet(p) /\ Documented(p) /\ Allowed(p)
    BY RegistryAssumption DEF NothingYet, Documented, Allowed
  <2>3. ListsKnown(p) /\ WroteWhatWasAsked(p)
    BY <1>1 DEF ListsKnown, WroteWhatWasAsked
  <2> QED BY <2>1, <2>2, <2>3 DEF ProcInv
<1> QED BY <1>2, <1>3, <1>4 DEF RInv

LEMMA DirectIsWellFormed ==
  ASSUME NEW p \in Proc, Direct(p)
  PROVE  \E r : WellFormed(r) /\ r.form = NoForm /\ Start(p, r)
<1>1. /\ NoRequest \in Request /\ NoRequest.form = NoForm /\ NoRequest.valid = TRUE
      /\ NoRequest.codes = {}
  BY DEF NoRequest, Request
<1>2. \A c \in SUBSET (Role \cup Ghost) : c \in SUBSET Code
  BY DEF Code
<1>3. ASSUME NEW op \in {"listRoles", "listPersons", "listEvents"},
             Start(p, [NoRequest EXCEPT !.op = op])
      PROVE  \E r : WellFormed(r) /\ r.form = NoForm /\ Start(p, r)
  <2> DEFINE r == [NoRequest EXCEPT !.op = op]
  <2>1. WellFormed(r) /\ r.form = NoForm
    BY <1>1, <1>3, Ops DEF WellFormed, Request
  <2> QED BY <1>3, <2>1
<1>4. ASSUME NEW e \in Event, Start(p, [NoRequest EXCEPT !.op = "getEvent", !.event = e])
      PROVE  \E r : WellFormed(r) /\ r.form = NoForm /\ Start(p, r)
  <2> DEFINE r == [NoRequest EXCEPT !.op = "getEvent", !.event = e]
  <2>1. WellFormed(r) /\ r.form = NoForm
    BY <1>1, <1>4, Ops DEF WellFormed, Request
  <2> QED BY <1>4, <2>1
<1>5. ASSUME NEW x \in Assignment,
             Start(p, [NoRequest EXCEPT !.op = "getAssignment", !.assignment = x])
      PROVE  \E r : WellFormed(r) /\ r.form = NoForm /\ Start(p, r)
  <2> DEFINE r == [NoRequest EXCEPT !.op = "getAssignment", !.assignment = x]
  <2>1. WellFormed(r) /\ r.form = NoForm
    BY <1>1, <1>5, Ops DEF WellFormed, Request
  <2> QED BY <1>5, <2>1
<1>6. ASSUME NEW v \in BOOLEAN,
             Start(p, [NoRequest EXCEPT !.op = "createEvent", !.valid = v])
      PROVE  \E r : WellFormed(r) /\ r.form = NoForm /\ Start(p, r)
  <2> DEFINE r == [NoRequest EXCEPT !.op = "createEvent", !.valid = v]
  <2>1. WellFormed(r) /\ r.form = NoForm
    BY <1>1, <1>6, Ops DEF WellFormed, Request
  <2> QED BY <1>6, <2>1
<1>7. ASSUME NEW c \in SUBSET (Role \cup Ghost),
             Start(p, [NoRequest EXCEPT !.op = "createPerson", !.codes = c])
      PROVE  \E r : WellFormed(r) /\ r.form = NoForm /\ Start(p, r)
  <2> DEFINE r == [NoRequest EXCEPT !.op = "createPerson", !.codes = c]
  <2>1. WellFormed(r) /\ r.form = NoForm
    BY <1>1, <1>2, <1>7, Ops DEF WellFormed, Request
  <2> QED BY <1>7, <2>1
<1>8. ASSUME NEW e \in Event, NEW i \in Person, NEW c \in Responsibility \cup Ghost,
             Start(p, [NoRequest EXCEPT !.op = "createAssignment", !.event = e,
                                        !.person = i, !.codes = {c}])
      PROVE  \E r : WellFormed(r) /\ r.form = NoForm /\ Start(p, r)
  <2> DEFINE r == [NoRequest EXCEPT !.op = "createAssignment", !.event = e,
                                    !.person = i, !.codes = {c}]
  <2>1. {c} \in SUBSET Code
    BY DEF Code
  <2>2. WellFormed(r) /\ r.form = NoForm
    BY <1>1, <1>8, <2>1, Ops DEF WellFormed, Request
  <2> QED BY <1>8, <2>2
<1> QED BY <1>3, <1>4, <1>5, <1>6, <1>7, <1>8 DEF Direct

(* Whoever composes with them, the API, its clients and an operator keep   *)
(* the invariant of the tables and of every request.                       *)
THEOREM RegistryInvariant == RegistrySpec => []RInv
<1>1. RInv /\ [RegistryNext]_registryVars => RInv'
  <2> SUFFICES ASSUME RInv, [RegistryNext]_registryVars PROVE RInv'
    OBVIOUS
  <2>1. CASE UNCHANGED registryVars
    <3>1. TablesKeep /\ \A q \in Proc : Kept(q)
      BY <2>1 DEF registryVars, tables, account, requests, history, TablesKeep, Kept,
         RInv, RegistryTypeOK
    <3>2. RegistryTypeOK' /\ TableInv'
      BY <2>1 DEF registryVars, tables, account, requests, history, RInv,
         RegistryTypeOK, TableInv, NoDangling, RolesAllOrNothing, RowsAreUsed
    <3> QED BY <3>1, <3>2, OthersKeep DEF RInv
  <2>2. ASSUME NEW p \in Proc, Direct(p) PROVE RInv'
    BY <2>2, DirectIsWellFormed, StartKeeps
  <2> QED BY <2>1, <2>2, OperateKeeps, ServeKeeps, ReleaseKeeps DEF RegistryNext
<1> QED BY <1>1, RegistryStarts, PTL DEF RegistrySpec

-----------------------------------------------------------------------------
(* Registry implements AtomicApi.  A step of a request is a step of the    *)
(* abstract request, or no step of it; the lemmas before OneAct say how    *)
(* its stage and the rows it was told move on.                             *)

LEMMA StageAt ==
  ASSUME NEW p \in Proc
  PROVE  Stages[p] = StageOf(step[p]) /\ RowsTold[p] = RowsOf(req[p], answer[p])
  BY DEF Stages, RowsTold

LEMMA Turns ==
  ASSUME NEW p \in Proc, StepOf(p)
  PROVE  Atomic!Turn(p, StageOf(step'[p]))
<1>1. \A q \in Proc : q # p => step'[q] = step[q]
  BY DEF StepOf, Kept
<1>2. \A q \in Proc : Stages'[q] = StageOf(step'[q])
  BY DEF Stages
<1>3. \A q \in Proc : q # p => Stages'[q] = Stages[q]
  BY <1>1, <1>2, StageAt
<1>4. Stages' = [q \in Proc |-> Stages'[q]] /\ DOMAIN Stages = Proc
  BY DEF Stages
<1>5. Stages' = [Stages EXCEPT ![p] = StageOf(step'[p])]
  BY <1>2, <1>3, <1>4
<1> QED BY <1>5 DEF Atomic!Turn

LEMMA TellsRows ==
  ASSUME NEW p \in Proc, StepOf(p)
  PROVE  RowsTold' = [RowsTold EXCEPT ![p] = RowsOf(req'[p], answer'[p])]
<1>1. \A q \in Proc : q # p => req'[q] = req[q] /\ answer'[q] = answer[q]
  BY DEF StepOf, Kept
<1>2. \A q \in Proc : RowsTold'[q] = RowsOf(req'[q], answer'[q])
  BY DEF RowsTold
<1>3. \A q \in Proc : q # p => RowsTold'[q] = RowsTold[q]
  BY <1>1, <1>2, StageAt
<1>4. RowsTold' = [q \in Proc |-> RowsTold'[q]] /\ DOMAIN RowsTold = Proc
  BY DEF RowsTold
<1> QED BY <1>2, <1>3, <1>4

LEMMA TellsNoMore ==
  ASSUME NEW p \in Proc, StepOf(p),
         RowsOf(req'[p], answer'[p]) = RowsOf(req[p], answer[p])
  PROVE  UNCHANGED RowsTold
<1>1. RowsTold' = [RowsTold EXCEPT ![p] = RowsTold[p]]
  BY TellsRows, StageAt
<1>2. RowsTold = [q \in Proc |-> RowsTold[q]]
  BY DEF RowsTold
<1> QED BY <1>1, <1>2

(* A reply without rows is the end of the abstract request.                *)
LEMMA Ended ==
  ASSUME RegistryTypeOK, NEW p \in Proc, NEW s \in Status, Reply(p, s)
  PROVE  Atomic!End(p, s) /\ UNCHANGED <<req, wrote, RowsTold>>
<1>1. /\ StepOf(p) /\ step'[p] = "replied" /\ result' = [result EXCEPT ![p] = s]
      /\ req' = req /\ answer' = answer /\ wrote' = wrote
  BY Replies DEF Reply
<1>2. StageOf(step'[p]) = "answered"
  BY <1>1 DEF StageOf
<1>3. UNCHANGED RowsTold
  BY <1>1, TellsNoMore
<1> QED BY <1>1, <1>2, <1>3, Turns DEF Atomic!End

(* Between statements of one stage nothing happens to it.                  *)
LEMMA SameStage ==
  ASSUME RegistryTypeOK, NEW p \in Proc, NEW n \in Step, Goto(p, n),
         StageOf(n) = StageOf(step[p]), UNCHANGED <<tables, account, history>>
  PROVE  UNCHANGED Atomic!api
<1>1. /\ StepOf(p) /\ step'[p] = n /\ req' = req /\ result' = result
      /\ answer' = answer /\ wrote' = wrote
  BY Goes
<1>2. Stages' = [Stages EXCEPT ![p] = Stages[p]]
  BY <1>1, Turns, StageAt DEF Atomic!Turn
<1>3. Stages = [q \in Proc |-> Stages[q]]
  BY DEF Stages
<1>4. UNCHANGED Stages
  BY <1>2, <1>3
<1>5. UNCHANGED RowsTold
  BY <1>1, TellsNoMore
<1> QED BY <1>1, <1>4, <1>5 DEF Atomic!api, Atomic!tables, Atomic!account, tables,
           account

LEMMA Asks ==
  ASSUME RInv, NEW p \in Proc, NEW r, WellFormed(r), Start(p, r)
  PROVE  Atomic!Ask(p)
<1>1. /\ step[p] = "idle" /\ step'[p] = "access" /\ req'[p] = r
      /\ req' = [req EXCEPT ![p] = r] /\ answer' = answer
      /\ UNCHANGED <<tables, account, result, wrote>>
  BY DEF Start, RInv, RegistryTypeOK
<1>2. starts' \in 0..MaxStarts
  BY RegistryAssumption DEF Start, RInv, RegistryTypeOK
<1>3. StepOf(p)
  BY <1>2 DEF Start, WellFormed, RInv, RegistryTypeOK, StepOf, RequestsTyped, Status,
     Kept, Step
<1>4. Stages[p] = "free" /\ StageOf(step'[p]) = "asked"
  BY <1>1, StageAt DEF StageOf
<1>5. answer[p] = {}
  BY <1>1 DEF RInv, ProcInv, ListsKnown, Before
<1>6. UNCHANGED RowsTold
  BY <1>1, <1>3, <1>5, TellsNoMore DEF RowsOf
<1> QED BY <1>1, <1>3, <1>4, <1>6, Turns
        DEF Atomic!Ask, Atomic!tables, Atomic!account, tables, account, WellFormed

LEMMA Forgets ==
  ASSUME RInv, NEW p \in Proc, Release(p)
  PROVE  Atomic!Forget(p)
<1>1. /\ step[p] = "replied" /\ step'[p] = "idle"
      /\ req' = [req EXCEPT ![p] = NoRequest]
      /\ result' = [result EXCEPT ![p] = 0]
      /\ wrote' = [wrote EXCEPT ![p] = NoId]
      /\ answer'[p] = {} /\ UNCHANGED <<tables, account>>
  BY DEF Release, RInv, RegistryTypeOK
<1>2. NoRequest \in Request
  BY DEF NoRequest, Request
<1>3. StepOf(p)
  BY <1>2 DEF Release, RInv, RegistryTypeOK, StepOf, RequestsTyped, Status, Kept, Step
<1>4. Stages[p] = "answered" /\ StageOf(step'[p]) = "free"
  BY <1>1, StageAt DEF StageOf
<1>5. RowsTold' = [RowsTold EXCEPT ![p] = {}]
  BY <1>1, <1>3, TellsRows DEF RowsOf
<1> QED BY <1>1, <1>3, <1>4, <1>5, Turns
        DEF Atomic!Forget, Atomic!tables, Atomic!account, tables, account

LEMMA AdmitsOrRefuses ==
  ASSUME RInv, NEW p \in Proc, Access(p)
  PROVE  Atomic!Admit(p) \/ Atomic!Refuse(p)
<1>1. /\ step[p] = "access" /\ OnItsWay(p) /\ RegistryTypeOK
      /\ UNCHANGED <<tables, account, history>>
  BY DEF Access, RInv, ProcInv
<1>2. req[p].op \in Op /\ Stages[p] = "asked"
  BY <1>1, StageAt DEF OnItsWay, StageOf
<1>3. Atomic!MayAct(p) <=> live /\ Route[req[p].op].needs \in rights
  BY <1>2 DEF Atomic!MayAct, Needed
<1>4. ASSUME NEW s \in Status, Reply(p, s),
             \/ ~live /\ s = 401
             \/ live /\ ~Atomic!MayAct(p) /\ s = 403
             \/ Atomic!MayAct(p) /\ ~req[p].valid /\ s = 422
      PROVE  Atomic!Refuse(p)
  <2>1. Atomic!End(p, s) /\ UNCHANGED <<req, wrote, RowsTold>>
    BY <1>1, <1>4, Ended
  <2> QED BY <1>1, <1>2, <1>4, <2>1
          DEF Atomic!Refuse, Atomic!tables, Atomic!account, tables, account
<1>5. ASSUME Atomic!MayAct(p), req[p].valid, Goto(p, Route[req[p].op].first)
      PROVE  Atomic!Admit(p)
  <2>1. /\ Route[req[p].op].first \in Step
        /\ Route[req[p].op].first \in {"read", "lookup", "insertEvent", "getEvent"}
    BY <1>2, Ops, Firsts DEF Step
  <2>2. /\ StepOf(p) /\ step'[p] = Route[req[p].op].first /\ req' = req
        /\ result' = result /\ answer' = answer /\ wrote' = wrote
    BY <1>1, <1>5, <2>1, Goes
  <2>3. StageOf(step'[p]) = "admitted"
    BY <2>1, <2>2 DEF StageOf
  <2>4. UNCHANGED RowsTold
    BY <2>2, TellsNoMore
  <2> QED BY <1>1, <1>2, <1>5, <2>2, <2>3, <2>4, Turns
          DEF Atomic!Admit, Atomic!tables, Atomic!account, tables, account
<1> QED BY <1>1, <1>3, <1>4, <1>5 DEF Access, Status

(* An act without rows leaves what the request stored and was told.        *)
LEMMA Misses ==
  ASSUME RInv, NEW p \in Proc, NEW s \in Status, Reply(p, s),
         Stages[p] = "admitted", UNCHANGED <<tables, account, history>>,
         \/ ~Atomic!Found(req[p]) /\ s = 404
         \/ ~Atomic!Known(req[p]) /\ s = 422
         \/ /\ req[p].op \in Atomic!Creates /\ s = 500
            /\ ~(Atomic!Found(req[p]) /\ Atomic!Known(req[p]))
  PROVE  Atomic!Act(p)
<1>1. Atomic!End(p, s) /\ UNCHANGED <<req, wrote, RowsTold>>
  BY Ended DEF RInv
<1>2. Atomic!Miss(p)
  BY <1>1 DEF Atomic!Miss, Atomic!tables, Atomic!account, tables, account
<1> QED BY <1>2 DEF Atomic!Act

LEMMA ShowsRows ==
  ASSUME RInv, NEW p \in Proc, Read(p)
  PROVE  Atomic!Act(p)
<1> DEFINE o == req[p].op
<1>1. /\ step[p] = "read" /\ ProcInv(p) /\ RegistryTypeOK
      /\ UNCHANGED <<tables, account, history>>
  BY DEF Read, RInv
<1>2. /\ Stages[p] = "admitted" /\ answer[p] = {}
      /\ o \in Op \ {"createPerson", "createEvent", "createAssignment"}
  BY <1>1, StageAt DEF StageOf, ProcInv, OnItsWay, ListsKnown, Before
<1>3. ASSUME Atomic!Found(req[p]), Atomic!Acted(p, 200), UNCHANGED <<req, wrote>>,
             RowsTold' = [RowsTold EXCEPT ![p] = Atomic!Listed(o)]
      PROVE  Atomic!Act(p)
  <2>1. Atomic!Show(p)
    BY <1>1, <1>2, <1>3 DEF Atomic!Show, Atomic!Creates, Atomic!tables, Atomic!account,
       tables, account
  <2> QED BY <1>2, <2>1 DEF Atomic!Act
<1>4. CASE o = "listPersons"
  <2>1. /\ step' = [step EXCEPT ![p] = "readRoles"]
        /\ answer' = [answer EXCEPT ![p] = persons]
        /\ UNCHANGED <<req, result, wrote, starts>>
    BY <1>1, <1>4 DEF Read
  <2>2. persons \subseteq Person
    BY <1>1 DEF RegistryTypeOK
  <2>3. StepOf(p) /\ step'[p] = "readRoles" /\ answer'[p] = persons
    BY <1>1, <2>1, <2>2 DEF RegistryTypeOK, StepOf, RequestsTyped, Status, Kept, Step, Row
  <2>4. StageOf(step'[p]) = "done"
    BY <2>3 DEF StageOf
  <2>5. Atomic!Acted(p, 200)
    BY <2>1, <2>3, <2>4, Turns DEF Atomic!Acted
  <2>6. RowsOf(req'[p], answer'[p]) = Atomic!Listed(o)
    BY <1>4, <2>1, <2>2, <2>3 DEF RowsOf, Atomic!Listed
  <2> QED BY <1>3, <1>4, <2>1, <2>3, <2>5, <2>6, TellsRows DEF Atomic!Found
<1>5. ASSUME o \in {"listEvents", "listAssignments"},
             NEW rows \in SUBSET Row, rows = Atomic!Listed(o), ReplyWith(p, rows)
      PROVE  Atomic!Act(p)
  <2>1. /\ StepOf(p) /\ step'[p] = "replied" /\ answer'[p] = rows
        /\ req' = req /\ wrote' = wrote /\ result' = [result EXCEPT ![p] = 200]
    <3>1. result' = [result EXCEPT ![p] = 200]
      BY <1>5 DEF ReplyWith
    <3> QED BY <1>1, <1>5, <3>1, RepliesWith
  <2>2. StageOf(step'[p]) = "answered"
    BY <2>1 DEF StageOf
  <2>3. Atomic!Acted(p, 200)
    BY <2>1, <2>2, Turns DEF Atomic!Acted, Atomic!End
  <2>4. RowsOf(req'[p], answer'[p]) = rows
    BY <1>5, <2>1 DEF RowsOf
  <2> QED BY <1>3, <1>5, <2>1, <2>3, <2>4, TellsRows DEF Atomic!Found
<1>6. ASSUME o \notin {"listPersons", "listEvents", "listAssignments"},
             Atomic!Found(req[p]), Reply(p, 200)
      PROVE  Atomic!Act(p)
  <2>1. Atomic!End(p, 200) /\ UNCHANGED <<req, wrote, RowsTold>>
    BY <1>1, <1>6, Ended DEF Status
  <2>2. RowsTold' = [RowsTold EXCEPT ![p] = {}]
    <3>1. RowsTold = [q \in Proc |-> RowsTold[q]]
      BY DEF RowsTold
    <3>2. RowsTold[p] = {}
      BY <1>2, StageAt DEF RowsOf
    <3> QED BY <2>1, <3>1, <3>2
  <2>3. Atomic!Listed(o) = {}
    BY <1>6 DEF Atomic!Listed
  <2> QED BY <1>3, <1>6, <2>1, <2>2, <2>3 DEF Atomic!Acted
<1>7. CASE o = "listEvents"
  <2>1. events \in SUBSET Row /\ events = Atomic!Listed(o)
    BY <1>1, <1>7 DEF RegistryTypeOK, Row, Atomic!Listed
  <2> QED BY <1>1, <1>5, <1>7, <2>1 DEF Read
<1>8. CASE o = "listAssignments"
  <2>1. assignments \in SUBSET Row /\ assignments = Atomic!Listed(o)
    BY <1>1, <1>8 DEF RegistryTypeOK, Row, Atomic!Listed
  <2> QED BY <1>1, <1>5, <1>8, <2>1 DEF Read
<1>9. CASE o = "getEvent"
  <2>1. Atomic!Found(req[p]) <=> req[p].event \in events
    BY <1>9 DEF Atomic!Found
  <2>2. Reply(p, IF req[p].event \in events THEN 200 ELSE 404)
    BY <1>1, <1>9 DEF Read
  <2>3. CASE req[p].event \in events
    BY <1>6, <1>9, <2>1, <2>2, <2>3
  <2>4. CASE req[p].event \notin events
    BY <1>1, <1>2, <2>1, <2>2, <2>4, Misses DEF Status
  <2> QED BY <2>3, <2>4
<1>10. CASE o = "getAssignment"
  <2>1. Atomic!Found(req[p]) <=> req[p].assignment \in assignments
    BY <1>10 DEF Atomic!Found
  <2>2. Reply(p, IF req[p].assignment \in assignments THEN 200 ELSE 404)
    BY <1>1, <1>10 DEF Read
  <2>3. CASE req[p].assignment \in assignments
    BY <1>6, <1>10, <2>1, <2>2, <2>3
  <2>4. CASE req[p].assignment \notin assignments
    BY <1>1, <1>2, <2>1, <2>2, <2>4, Misses DEF Status
  <2> QED BY <2>3, <2>4
<1>11. CASE o = "listRoles"
  <2>1. Reply(p, 200) /\ Atomic!Found(req[p])
    BY <1>1, <1>11 DEF Read, Atomic!Found
  <2> QED BY <1>6, <1>11, <2>1
<1> QED BY <1>2, <1>4, <1>7, <1>8, <1>9, <1>10, <1>11, Ops

(* The roles of a list of people, read later, are rows of members.         *)
LEMMA ConfirmsList ==
  ASSUME RInv, NEW p \in Proc, ReadRoles(p)
  PROVE  Atomic!Confirm(p)
<1> DEFINE rows == answer[p] \cup {m \in members : m[1] \in answer[p]}
<1>1. /\ step[p] = "readRoles" /\ ProcInv(p) /\ RegistryTypeOK /\ ReplyWith(p, rows)
      /\ UNCHANGED <<tables, account, history>>
  BY DEF ReadRoles, RInv
<1>2. /\ req[p].op = "listPersons" /\ answer[p] \subseteq Person /\ wrote[p] = NoId
      /\ Stages[p] = "done"
  BY <1>1, StageAt DEF ProcInv, OnItsWay, ListsKnown, NothingYet, Before, StageOf
<1>3. members \subseteq Person \X Role
  BY <1>1 DEF RegistryTypeOK
<1>4. /\ StepOf(p) /\ step'[p] = "replied" /\ answer'[p] = rows
      /\ result' = [result EXCEPT ![p] = 200] /\ req' = req /\ wrote' = wrote
  <2>1. rows \in SUBSET Row
    BY <1>2, <1>3 DEF Row
  <2>2. result' = [result EXCEPT ![p] = 200]
    BY <1>1 DEF ReplyWith
  <2> QED BY <1>1, <2>1, <2>2, RepliesWith
<1>5. UNCHANGED RowsTold
  <2>1. rows \cap Person = answer[p] /\ answer[p] \cap Person = answer[p]
    BY <1>2, <1>3, RegistryAssumption
  <2>2. RowsOf(req'[p], answer'[p]) = RowsOf(req[p], answer[p])
    BY <1>2, <1>4, <2>1 DEF RowsOf
  <2> QED BY <1>4, <2>2, TellsNoMore
<1>6. StageOf(step'[p]) = "answered"
  BY <1>4 DEF StageOf
<1>7. Atomic!End(p, 200)
  BY <1>4, <1>6, Turns DEF Atomic!End
<1> QED BY <1>1, <1>2, <1>4, <1>5, <1>7
        DEF Atomic!Confirm, Atomic!tables, Atomic!account, tables, account

LEMMA LooksUp ==
  ASSUME RInv, NEW p \in Proc, Lookup(p)
  PROVE  Atomic!Act(p) \/ UNCHANGED Atomic!api
<1>1. /\ step[p] = "lookup" /\ ProcInv(p) /\ RegistryTypeOK
      /\ UNCHANGED <<tables, account, history>>
  BY DEF Lookup, RInv
<1>2. /\ req[p].op = "createPerson" /\ Stages[p] = "admitted"
      /\ StageOf("insertPerson") = StageOf(step[p])
  BY <1>1, StageAt DEF ProcInv, OnItsWay, StageOf
<1>3. Atomic!Known(req[p]) <=> req[p].codes \subseteq codes \cap Role
  BY <1>2 DEF Atomic!Known
<1> QED BY <1>1, <1>2, <1>3, Misses, SameStage DEF Lookup, Status, Step

LEMMA LooksUpAssignment ==
  ASSUME RInv, NEW p \in Proc, GetEvent(p) \/ GetPerson(p) \/ GetResponsibility(p)
  PROVE  Atomic!Act(p) \/ UNCHANGED Atomic!api
<1>1. /\ step[p] \in {"getEvent", "getPerson", "getResponsibility"} /\ ProcInv(p)
      /\ RegistryTypeOK /\ UNCHANGED <<tables, account, history>>
  BY DEF GetEvent, GetPerson, GetResponsibility, RInv
<1>2. /\ req[p].op = "createAssignment" /\ Stages[p] = "admitted"
      /\ StageOf(step[p]) = "admitted"
  BY <1>1, StageAt DEF ProcInv, OnItsWay, AssignSteps, StageOf
<1>3. /\ Atomic!Found(req[p]) <=> req[p].event \in events /\ req[p].person \in persons
      /\ Atomic!Known(req[p]) <=> req[p].codes \subseteq codes \cap Responsibility
  BY <1>2 DEF Atomic!Found, Atomic!Known
<1>4. ASSUME NEW n \in {"getPerson", "getResponsibility", "insertAssignment"}, Goto(p, n)
      PROVE  UNCHANGED Atomic!api
  <2>1. n \in Step /\ StageOf(n) = StageOf(step[p])
    BY <1>2, <1>4 DEF Step, StageOf
  <2> QED BY <1>1, <1>4, <2>1, SameStage
<1>5. ASSUME Reply(p, 404), ~Atomic!Found(req[p]) PROVE Atomic!Act(p)
  BY <1>1, <1>2, <1>5, Misses DEF Status
<1>6. ASSUME Reply(p, 422), ~Atomic!Known(req[p]) PROVE Atomic!Act(p)
  BY <1>1, <1>2, <1>6, Misses DEF Status
<1> QED BY <1>3, <1>4, <1>5, <1>6 DEF GetEvent, GetPerson, GetResponsibility

LEMMA StoresPerson ==
  ASSUME RInv, NEW p \in Proc, InsertPerson(p)
  PROVE  Atomic!Act(p)
<1>1. /\ step[p] = "insertPerson" /\ ProcInv(p) /\ RegistryTypeOK
      /\ UNCHANGED <<events, assignments, codes, triple, account, by>>
  BY DEF InsertPerson, RInv
<1>2. /\ req[p].op = "createPerson" /\ req[p].codes \subseteq Role
      /\ Stages[p] = "admitted"
  BY <1>1, StageAt DEF ProcInv, OnItsWay, StageOf
<1>3. Atomic!Known(req[p]) <=> req[p].codes \subseteq codes
  BY <1>2 DEF Atomic!Known
<1>4. CASE Reply(p, 500) /\ ~(req[p].codes \subseteq codes)
           /\ UNCHANGED <<persons, members, used, asked>>
  <2>1. UNCHANGED <<tables, account, history>>
    BY <1>1, <1>4 DEF tables, history
  <2> QED BY <1>2, <1>3, <1>4, <2>1, Misses DEF Status, Atomic!Creates
<1>5. ASSUME req[p].codes \subseteq codes,
             NEW i \in Person, Commit(p, i), Created(p),
             persons' = persons \cup {i},
             members' = members \cup ({i} \X req[p].codes)
      PROVE  Atomic!Act(p)
  <2>1. /\ i \notin used /\ used' = used \cup {i}
        /\ wrote' = [wrote EXCEPT ![p] = i]
        /\ result' = [result EXCEPT ![p] = 201]
    BY <1>5 DEF Commit, Created
  <2>2. /\ StepOf(p) /\ step'[p] = "replied" /\ req' = req /\ answer' = answer
    BY <1>1, <1>5, <2>1, Creates
  <2>3. StageOf(step'[p]) = "answered"
    BY <2>2 DEF StageOf
  <2>4. Atomic!Acted(p, 201)
    BY <2>1, <2>2, <2>3, Turns DEF Atomic!Acted, Atomic!End
  <2>5. UNCHANGED RowsTold
    BY <2>2, TellsNoMore
  <2>6. Atomic!StorePerson(p, i)
    BY <1>1, <1>2, <1>3, <1>5, <2>1, <2>2, <2>4, <2>5
       DEF Atomic!StorePerson, Atomic!Store, Atomic!account, account
  <2> QED BY <1>2, <2>6 DEF Atomic!Act
<1> QED BY <1>4, <1>5 DEF InsertPerson

LEMMA StoresEvent ==
  ASSUME RInv, NEW p \in Proc, InsertEvent(p)
  PROVE  Atomic!Act(p)
<1>1. /\ step[p] = "insertEvent" /\ ProcInv(p) /\ RegistryTypeOK
      /\ UNCHANGED <<persons, assignments, codes, members, triple, account>>
  BY DEF InsertEvent, RInv
<1>2. req[p].op = "createEvent" /\ Stages[p] = "admitted"
  BY <1>1, StageAt DEF ProcInv, OnItsWay, StageOf
<1>3. PICK e \in Event : Commit(p, e) /\ Created(p) /\ events' = events \cup {e}
  BY DEF InsertEvent
<1>4. /\ e \notin used /\ used' = used \cup {e}
      /\ wrote' = [wrote EXCEPT ![p] = e]
      /\ result' = [result EXCEPT ![p] = 201]
  BY <1>3 DEF Commit, Created
<1>5. /\ StepOf(p) /\ step'[p] = "replied" /\ req' = req /\ answer' = answer
  BY <1>1, <1>3, <1>4, Creates
<1>6. StageOf(step'[p]) = "answered"
  BY <1>5 DEF StageOf
<1>7. Atomic!Acted(p, 201)
  BY <1>4, <1>5, <1>6, Turns DEF Atomic!Acted, Atomic!End
<1>8. UNCHANGED RowsTold
  BY <1>5, TellsNoMore
<1>9. Atomic!StoreEvent(p, e)
  BY <1>1, <1>2, <1>3, <1>4, <1>5, <1>7, <1>8
     DEF Atomic!StoreEvent, Atomic!Store, Atomic!account, account
<1> QED BY <1>2, <1>9 DEF Atomic!Act

LEMMA StoresAssignment ==
  ASSUME RInv, NEW p \in Proc, InsertAssignment(p)
  PROVE  Atomic!Act(p)
<1> DEFINE r == req[p]
<1>1. /\ step[p] = "insertAssignment" /\ ProcInv(p) /\ RegistryTypeOK
      /\ UNCHANGED <<persons, events, codes, members, account, asked>>
  BY DEF InsertAssignment, RInv
<1>2. /\ r.op = "createAssignment" /\ r.codes \subseteq Responsibility
      /\ r.codes # {} /\ Stages[p] = "admitted"
  BY <1>1, StageAt DEF ProcInv, OnItsWay, AssignSteps, StageOf
<1>3. /\ Atomic!Found(r) <=> r.event \in events /\ r.person \in persons
      /\ Atomic!Known(r) <=> r.codes \subseteq codes
  BY <1>2 DEF Atomic!Found, Atomic!Known
<1>4. ASSUME Reply(p, 500), ~(Atomic!Found(r) /\ Atomic!Known(r)),
             UNCHANGED <<assignments, triple, used, by>>
      PROVE  Atomic!Act(p)
  <2>1. UNCHANGED <<tables, account, history>>
    BY <1>1, <1>4 DEF tables, history
  <2> QED BY <1>2, <1>4, <2>1, Misses DEF Status, Atomic!Creates
<1>5. ASSUME Atomic!Found(r), Atomic!Known(r), NEW x \in Assignment, Assign(p, x)
      PROVE  Atomic!Act(p)
  <2>1. /\ x \notin used /\ used' = used \cup {x}
        /\ wrote' = [wrote EXCEPT ![p] = x]
        /\ assignments' = assignments \cup {x}
        /\ triple' = [triple EXCEPT ![x] = Wanted(r)]
        /\ UNCHANGED <<req, result, answer>>
    BY <1>5 DEF Assign, Commit
  <2>2. StepOf(p) /\ step'[p] = "reselect"
    BY <1>1, <1>5, <2>1 DEF Assign, RegistryTypeOK, StepOf, RequestsTyped, Status, Kept,
       Step
  <2>3. StageOf(step'[p]) = "done"
    BY <2>2 DEF StageOf
  <2>4. Atomic!Acted(p, 201)
    BY <2>1, <2>2, <2>3, Turns DEF Atomic!Acted
  <2>5. UNCHANGED RowsTold
    BY <2>1, <2>2, TellsNoMore
  <2>6. \E c \in r.codes :
          triple' = [triple EXCEPT ![x] = [event |-> r.event, person |-> r.person,
                                           responsibility |-> c]]
    BY <1>2, <2>1, WantedIsOneOf
  <2>7. Atomic!StoreAssignment(p, x)
    BY <1>1, <1>2, <1>5, <2>1, <2>4, <2>5, <2>6
       DEF Atomic!StoreAssignment, Atomic!Store, Atomic!account, account
  <2> QED BY <1>2, <2>7 DEF Atomic!Act
<1> QED BY <1>3, <1>4, <1>5 DEF InsertAssignment

LEMMA ConfirmsAssignment ==
  ASSUME RInv, NEW p \in Proc, Reselect(p)
  PROVE  Atomic!Confirm(p)
<1>1. /\ step[p] = "reselect" /\ ProcInv(p) /\ RegistryTypeOK
      /\ UNCHANGED <<tables, account, history>>
  BY DEF Reselect, RInv
<1>2. /\ wrote[p] \in Assignment /\ wrote[p] # NoId /\ Stages[p] = "done"
  BY <1>1, StageAt, RegistryAssumption DEF ProcInv, WroteWhatWasAsked, StageOf
<1>3. wrote[p] \in persons \cup events \cup assignments <=> wrote[p] \in assignments
  BY <1>1, <1>2, RegistryAssumption DEF RegistryTypeOK
<1>4. ASSUME NEW s \in Status, Atomic!End(p, s), UNCHANGED <<req, wrote, RowsTold>>,
             s = IF wrote[p] \in assignments THEN 201 ELSE 500
      PROVE  Atomic!Confirm(p)
  BY <1>1, <1>2, <1>3, <1>4
     DEF Atomic!Confirm, Atomic!tables, Atomic!account, tables, account
<1>5. CASE wrote[p] \notin assignments /\ Reply(p, 500)
  BY <1>1, <1>4, <1>5, Ended DEF Status
<1>6. CASE wrote[p] \in assignments /\ Created(p) /\ UNCHANGED wrote
  <2>1. result' = [result EXCEPT ![p] = 201]
    BY <1>6 DEF Created
  <2>2. /\ StepOf(p) /\ step'[p] = "replied" /\ req' = req /\ answer' = answer
    BY <1>1, <1>6 DEF Created, RegistryTypeOK, StepOf, RequestsTyped, Status, Kept, Step
  <2>3. StageOf(step'[p]) = "answered"
    BY <2>2 DEF StageOf
  <2>4. Atomic!End(p, 201)
    BY <2>1, <2>2, <2>3, Turns DEF Atomic!End
  <2>5. UNCHANGED RowsTold
    BY <2>2, TellsNoMore
  <2> QED BY <1>4, <1>6, <2>2, <2>4, <2>5 DEF Status
<1> QED BY <1>5, <1>6 DEF Reselect

LEMMA FailsUnanswered ==
  ASSUME RInv, NEW p \in Proc, Die(p)
  PROVE  Atomic!Fail(p)
<1>1. /\ step[p] \in Step \ {"idle", "replied"} /\ RegistryTypeOK
      /\ Reply(p, 0) /\ UNCHANGED <<tables, account, history>>
  BY DEF Die, RInv, RegistryTypeOK
<1>2. Stages[p] \in {"asked", "admitted", "done"}
  BY <1>1, StageAt DEF StageOf, Step
<1>3. Atomic!End(p, 0) /\ UNCHANGED <<req, wrote, RowsTold>>
  BY <1>1, Ended DEF Status
<1> QED BY <1>1, <1>2, <1>3
        DEF Atomic!Fail, Atomic!tables, Atomic!account, tables, account

(* What an operator deletes takes along exactly what refers to it: the     *)
(* rest refers to rows that stay, as NoDangling says.                      *)
LEMMA Removes ==
  ASSUME RInv, Operate
  PROVE  Atomic!Next
<1>1. /\ UNCHANGED <<requests, history>> /\ RegistryTypeOK /\ NoDangling
  BY DEF RInv, TableInv, Operate, DeleteEvent, DeletePerson, DeleteCode, Promote, Disable
<1>2. UNCHANGED <<Stages, req, result, wrote, RowsTold>>
  BY <1>1 DEF requests, Stages, RowsTold
<1>3. ASSUME UNCHANGED <<rights, live, triple, used>>,
             persons' \subseteq persons, events' \subseteq events,
             codes' \subseteq codes,
             members' = {m \in members : m[1] \in persons' /\ m[2] \in codes'},
             assignments' = {x \in assignments :
                               /\ triple[x].event \in events'
                               /\ triple[x].person \in persons'
                               /\ triple[x].responsibility \in codes'}
      PROVE  Atomic!Next
  <2>1. Atomic!Remove
    BY <1>2, <1>3 DEF Atomic!Remove, Atomic!account
  <2> QED BY <2>1 DEF Atomic!Next
<1>4. ASSUME NEW e \in Event, DeleteEvent(e) PROVE Atomic!Next
  BY <1>1, <1>3, <1>4 DEF DeleteEvent, NoDangling
<1>5. ASSUME NEW i \in Person, DeletePerson(i) PROVE Atomic!Next
  BY <1>1, <1>3, <1>5 DEF DeletePerson, NoDangling
<1>6. ASSUME NEW c \in Role \cup Responsibility, DeleteCode(c) PROVE Atomic!Next
  BY <1>1, <1>3, <1>6 DEF DeleteCode, NoDangling
<1>7. ASSUME Promote \/ Disable PROVE Atomic!Next
  <2>1. Atomic!Change
    BY <1>1, <1>2, <1>7 DEF Promote, Disable, Atomic!Change, Atomic!tables, tables
  <2> QED BY <2>1 DEF Atomic!Next
<1> QED BY <1>4, <1>5, <1>6, <1>7 DEF Operate

LEMMA SameToClients ==
  ASSUME UNCHANGED registryVars
  PROVE  UNCHANGED Atomic!api
  BY DEF registryVars, tables, account, requests, history, Stages, RowsTold,
     Atomic!api, Atomic!tables, Atomic!account

LEMMA AtomicStarts == RegistryInit => Atomic!Init
<1> SUFFICES ASSUME RegistryInit PROVE Atomic!Init
  OBVIOUS
<1>1. Stages = [p \in Proc |-> "free"]
  BY DEF RegistryInit, Stages, StageOf
<1>2. RowsTold = [p \in Proc |-> {}]
  BY DEF RegistryInit, RowsTold, RowsOf
<1>3. \A r \in RoleCode : Holds[r] \subseteq Atomic!Permission
  BY DEF Holds, RoleCode, Permission, Atomic!Permission
<1> QED BY <1>1, <1>2, <1>3 DEF RegistryInit, Atomic!Init

(* Every step of the API, its clients and an operator is one act or none.  *)
LEMMA OneAct ==
  ASSUME RInv,
         \/ Operate \/ UNCHANGED registryVars
         \/ \E p \in Proc : Direct(p) \/ Serve(p) \/ Release(p)
  PROVE  Atomic!Next \/ UNCHANGED Atomic!api
<1>1. ASSUME NEW p \in Proc,
             \/ Atomic!Ask(p) \/ Atomic!Admit(p) \/ Atomic!Refuse(p) \/ Atomic!Act(p)
             \/ Atomic!Confirm(p) \/ Atomic!Fail(p) \/ Atomic!Forget(p)
      PROVE  Atomic!Next
  BY <1>1 DEF Atomic!Next
<1>2. ASSUME NEW p \in Proc, Serve(p) PROVE Atomic!Next \/ UNCHANGED Atomic!api
  BY <1>1, <1>2, AdmitsOrRefuses, ShowsRows, ConfirmsList, LooksUp, LooksUpAssignment,
     StoresPerson, StoresEvent, StoresAssignment, ConfirmsAssignment, FailsUnanswered
  DEF Serve
<1>3. ASSUME NEW p \in Proc, Direct(p) \/ Release(p) PROVE Atomic!Next
  BY <1>1, <1>3, DirectIsWellFormed, Asks, Forgets
<1> QED BY <1>2, <1>3, Removes, SameToClients

LEMMA OneQuestion ==
  ASSUME RInv, NEW p \in Proc, NEW r, WellFormed(r), Start(p, r)
  PROVE  Atomic!Next
  BY Asks DEF Atomic!Next

(* The API is one act a request, whoever its clients are.                  *)
THEOREM RegistryActsAtOnce == RegistrySpec => ActsAtOnce
<1>1. RInv /\ [RegistryNext]_registryVars => [Atomic!Next]_(Atomic!api)
  BY OneAct DEF RegistryNext
<1> QED BY <1>1, AtomicStarts, RegistryInvariant, PTL
        DEF RegistrySpec, ActsAtOnce, Atomic!Spec

=============================================================================
