-------------------------------- MODULE Screens --------------------------------
(***************************************************************************)
(* The pages of the web application that load and write data: the form on  *)
(* an event's page, the dashboard and the weekly calendar.  They share     *)
(* nothing but the API, and none of them keeps anything when it is left,   *)
(* so a behaviour follows one of them (focus), beside other clients.       *)
(***************************************************************************)
EXTENDS EventForm, Dashboard, WeekCalendar

CONSTANT RoleBeside  \* bound: the role of the account, beside each page

VARIABLE focus  \* the page the behaviour follows

vars == <<registryVars, form, told, screen, seen, calendarVars, focus>>

TypeOK ==
  /\ FormTypeOK /\ DashboardTypeOK /\ CalendarTypeOK
  /\ focus \in {"form", "dashboard", "calendar"}

(* The instants of events matter to the calendar alone.                    *)
Init ==
  /\ FormInit /\ DashboardInit /\ CalendarInit
  /\ focus \in {"form", "dashboard", "calendar"}
  /\ rights = Holds[RoleBeside[focus]]
  /\ focus # "calendar" => planned \in [Item -> {CHOOSE i \in Instant : TRUE}]

FormMoves ==
  /\ focus = "form" /\ FormNext
  /\ UNCHANGED <<screen, seen, calendarVars, focus>>

DashboardMoves ==
  /\ focus = "dashboard" /\ DashboardNext
  /\ UNCHANGED <<form, told, calendarVars, focus>>

CalendarMoves ==
  /\ focus = "calendar" /\ CalendarNext
  /\ UNCHANGED <<registryVars, form, told, screen, seen, focus>>

Next == FormMoves \/ DashboardMoves \/ CalendarMoves

Spec == Init /\ [][Next]_vars
=============================================================================
