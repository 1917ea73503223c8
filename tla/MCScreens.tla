------------------------------ MODULE MCScreens ------------------------------
(* A small instance of Screens for TLC: one form, the dashboard or the     *)
(* calendar of a viewer in Tehran, whose weeks begin on Saturday, and      *)
(* other clients of the API, two requests at a time.                       *)
EXTENDS Screens, TLC

CONSTANTS p1, p2, a, b, e1, e2, x, y, learner, welcome, ghost, f1

TwoProcs == {p1, p2}
Persons == {a, b}
OnePerson == {a}
Events == {e1, e2}
OneEvent == {e1}
Assignments == {x, y}
Roles == {learner}
Responsibilities == {welcome}
Ghosts == {ghost}
OneForm == {f1}
AllE1 == [f \in Form |-> e1]

(* Beside a form other clients send every request but those for the list   *)
(* of events, which the dashboard loads, and those about other events.     *)
AboutTheEvent ==
  {r \in Request : r.op # "listEvents" /\ r.event \in {e1, NoId}}

(* Beside the dashboard another client assigns the resident to the planned *)
(* event, or asks for a new person, which an operator may not.             *)
AssigningOrNot ==
  {[NoRequest EXCEPT !.op = "createAssignment", !.event = e1, !.person = a,
                     !.codes = {welcome}],
   [NoRequest EXCEPT !.op = "createPerson", !.codes = {learner}]}

AdminBesideTheForm ==
  [form |-> "admin", dashboard |-> "operator", calendar |-> "operator"]

Alike == Permutations(Proc) \cup Permutations(Assignment)

Tehran == 210
Saturday == 6

(* Day 3 is a Wednesday: minutes of its morning, of its evening and of the *)
(* night to day 4.                                                         *)
Local(day, h, m) == day * 1440 + h * 60 + m - Tehran
Instants ==
  {Local(3, 7, 59), Local(3, 8, 0), Local(3, 8, 30), Local(3, 8, 48),
   Local(3, 9, 18), Local(3, 21, 12), Local(3, 21, 13),
   Local(3, 23, 59), Local(4, 0, 10)}
Four == 1..4

=============================================================================
