SPECIFICATION Spec
CONSTANTS
  p1 = p1
  p2 = p2
  a = a
  b = b
  e1 = e1
  e2 = e2
  x = x
  y = y
  learner = learner
  welcome = welcome
  ghost = ghost
  f1 = f1
  NoForm = NoForm
  NoId = NoId
  NoProc = NoProc
  Proc <- TwoProcs
  Person <- Persons
  Event <- Events
  Assignment <- Assignments
  Role <- Roles
  Responsibility <- Responsibilities
  Ghost <- Ghosts
  Resident <- OnePerson
  Planned <- OneEvent
  Form <- OneForm
  EventOf <- AllE1
  BesideForm <- AboutTheEvent
  OtherRequest <- AssigningOrNot
  RoleBeside <- AdminBesideTheForm
  OtherActs = 1
  Item <- Four
  Instant <- Instants
  Zone <- Tehran
  WeekStart <- Saturday
  FirstDay = 3
  MaxDays = 4
  MaxWeeks = 1
  MaxStarts = 3
  MaxActs = 1
SYMMETRY Alike
INVARIANTS TypeOK NoDangling RolesWhole AnswersTrue RowsAreTold CreatedRowShown ListedIsTrue WeekHoldsToday LanesFit
PROPERTIES ActsAtOnce
CHECK_DEADLOCK FALSE
