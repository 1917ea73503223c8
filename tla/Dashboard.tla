------------------------------ MODULE Dashboard ------------------------------
(***************************************************************************)
(* The dashboard page (DashboardPage.tsx, dashboardData.ts) as a client of *)
(* Registry.  On mount it asks for people, events and assignments in       *)
(* parallel, each by a useApiData of its own, and correlates what has      *)
(* come.  The three lists are read at different moments, and each request  *)
(* fails on its own.  planned_at, and so the order of the upcoming events, *)
(* is left out.                                                            *)
(***************************************************************************)
EXTENDS Registry

CONSTANTS OtherRequest, OtherActs  \* bounds: what others do meanwhile

VARIABLES
  page,    \* "away" or "shown"
  status,  \* useApiData: the state of each list
  pending, \* the request each list waits for
  data,    \* the rows of each list that has come
  bare,    \* history: events seen without an assignment while it was asked
  held     \* history: events seen with one

screen == <<page, status, pending, data>>
seen == <<bare, held>>
dashboardVars == <<registryVars, screen, seen>>

LoadOp == [persons |-> "listPersons", events |-> "listEvents",
           assignments |-> "listAssignments"]
List == DOMAIN LoadOp

DashboardTypeOK ==
  /\ RegistryTypeOK
  /\ page \in {"away", "shown"}
  /\ status \in [List -> {"loading", "error", "success"}]
  /\ pending \in [List -> Proc \cup {NoProc}]
  /\ data \in [List -> SUBSET Row]
  /\ bare \subseteq Event /\ held \subseteq Event

(* Each list before its request.                                           *)
Loading == [l \in List |-> "loading"]
NoCall  == [l \in List |-> NoProc]
NoRows  == [l \in List |-> {}]

DashboardInit ==
  /\ RegistryInit
  /\ page = "away" /\ status = Loading /\ pending = NoCall /\ data = NoRows
  /\ bare = {} /\ held = {}

Of(e, rows) == {x \in rows : triple[x].event = e}

-----------------------------------------------------------------------------
(* buildDashboardEvents *)

(* Mutant: a list that failed counts as an empty one.                      *)
CorrelatedAnyway ==
  page = "shown" /\ status["events"] = "success" /\ status["assignments"] # "loading"

(* Both lists have come: without one of them nothing is derived.           *)
Correlated ==
  page = "shown" /\ status["events"] = "success" /\ status["assignments"] = "success"

EventsWith(some) ==
  {e \in data["events"] : (Of(e, data["assignments"]) # {}) = some}

Unassigned == IF Correlated THEN EventsWith(FALSE) ELSE {}
Assigned   == IF Correlated THEN EventsWith(TRUE) ELSE {}

-----------------------------------------------------------------------------
(* Steps *)

Enter ==
  /\ page = "away" /\ page' = "shown"
  /\ UNCHANGED <<registryVars, status, pending, data>>

(* The fetch of a list reaches the API.                                    *)
Fetch(l, p) ==
  /\ page = "shown" /\ status[l] = "loading" /\ pending[l] = NoProc
  /\ Start(p, [NoRequest EXCEPT !.op = LoadOp[l]])
  /\ pending' = [pending EXCEPT ![l] = p]
  /\ UNCHANGED <<page, status, data>>

Settle(l, s, rows) ==
  /\ status' = [status EXCEPT ![l] = s]
  /\ pending' = [pending EXCEPT ![l] = NoProc]
  /\ data' = [data EXCEPT ![l] = rows]
  /\ UNCHANGED page

Arrived(l, p) == pending[l] = p /\ step[p] = "replied" /\ Release(p)

Loaded(l, p) ==
  /\ result[p] = 200 /\ Arrived(l, p)
  /\ Settle(l, "success", answer[p])

(* An error status, or a connection that broke ...                         *)
Failed(l, p) ==
  /\ result[p] # 200 /\ Arrived(l, p)
  /\ Settle(l, "error", {})

(* ... before, during or after the request, which may go on alone.         *)
Lost(l) ==
  /\ page = "shown" /\ status[l] = "loading"
  /\ Settle(l, "error", {})
  /\ UNCHANGED registryVars

(* Unmount: cancelled is set, late answers change nothing.                 *)
Leave ==
  /\ page = "shown" /\ page' = "away"
  /\ status' = Loading /\ pending' = NoCall /\ data' = NoRows
  /\ UNCHANGED registryVars

Unread(p) == (\A l \in List : pending[l] # p) /\ Release(p)

(* From mounting until the assignments have come or failed.                *)
Remember ==
  LET Shows(some) == {e \in Event : (Of(e, assignments) # {}) = some}'
      Keep(was, now) == IF page' = "away" THEN {}
                        ELSE IF status["assignments"] # "loading" THEN was
                        ELSE was \cup now
  IN bare' = Keep(bare, Shows(FALSE)) /\ held' = Keep(held, Shows(TRUE))

DashboardNext ==
  /\ \/ Enter \/ Leave
     \/ \E l \in List : Lost(l) \/ \E p \in Proc : Fetch(l, p) \/ Loaded(l, p) \/ Failed(l, p)
     \/ /\ \/ acts < OtherActs /\ Operate
           \/ \E p \in Proc :
                (Direct(p) /\ req'[p] \in OtherRequest) \/ Serve(p) \/ Unread(p)
        /\ UNCHANGED screen
  /\ Remember

DashboardSpec == DashboardInit /\ [][DashboardNext]_dashboardVars

-----------------------------------------------------------------------------
(* Properties *)

(* An event the page lists as unassigned really had no assignment at some  *)
(* moment since the page asked, and one it counts as assigned had one,     *)
(* although the lists are read at different moments and may fail           *)
(* (dashboardData.ts:60).                                                  *)
ListedIsTrue == Unassigned \subseteq bare /\ Assigned \subseteq held

=============================================================================
